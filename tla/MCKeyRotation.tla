--------------------------- MODULE MCKeyRotation ---------------------------
(* Model-checking instances of KeyRotation. *)
EXTENDS KeyRotation, TLC

Processes == Permutations(Process)

Size(nodes, d, m, t, e, f) ==
    [nodes |-> nodes, deks |-> d, masters |-> m, tokens |-> t, epochs |-> e, faults |-> f]

\* One process through every rotation; two that rotate the DEK and the master; two
\* that rotate the master and the root.
Alone == {Size({n}, 3, 2, 2, 2, 1) : n \in Process} \cup {Size({n}, 1, 2, 1, 3, 2) : n \in Process}
Together == {Size(Process, 2, 2, 1, 1, 0), Size(Process, 0, 3, 1, 3, 1)}
Instances == Alone \cup Together
=============================================================================
