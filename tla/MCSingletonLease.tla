-------------------------- MODULE MCSingletonLease --------------------------
(* Model-checking instance of SingletonLease. *)
EXTENDS SingletonLease, TLC

NodeSymmetry == Permutations(Node)

=============================================================================
