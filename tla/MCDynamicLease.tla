--------------------------- MODULE MCDynamicLease ---------------------------
(* Model-checking instance of DynamicLease; its constants are all in the cfg. *)
EXTENDS DynamicLease, TLC
=============================================================================
