---------------------------- MODULE MCRevisions ----------------------------
(***************************************************************************)
(* Small instances of Revisions.                                           *)
(***************************************************************************)
EXTENDS Revisions, TLC

CONSTANTS e1, e2, k1, k2, g, v1, v2

\* Both keys in one group, or none.
Grouped == {[k \in Key |-> g]}
Single == {[k \in Key |-> NoGroup]}
Either == Grouped \cup Single

\* Declarations offered to CreateKey and UpdateDeclaration.
OnlyOptional == {Optional}
Strict == {Optional,
           [required |-> Env, forbidden |-> {}, accepts |-> Value],
           [required |-> {}, forbidden |-> {e2}, accepts |-> Value],
           [required |-> {}, forbidden |-> {}, accepts |-> Value \ {v1}]}

\* Where no declaration names them, values and keys are interchangeable too.
Interchangeable ==
    Permutations(Principal) \cup Permutations(Value) \cup Permutations(Key)
=============================================================================
