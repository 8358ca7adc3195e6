---------------------------- MODULE MCApprovals ----------------------------
(* Model-checking instances of Approvals. *)
EXTENDS Approvals, TLC

CONSTANTS p1, p2

Keys == Permutations(Key)

\* Two approvals, the proposer's own among them; one approval by a named
\* principal or a member of the group, with a bypasser; a disabled policy.
TwoEyes == [min |-> 2, self |-> TRUE, enabled |-> TRUE, approvers |-> Principal,
            group |-> FALSE, bypassers |-> {}]
OneEye == [min |-> 1, self |-> FALSE, enabled |-> TRUE, approvers |-> {p2},
           group |-> TRUE, bypassers |-> {p1}]
Off == [OneEye EXCEPT !.enabled = FALSE]

\* One principal edits values, the other restores.
Sources == [p \in Principal |-> IF p = p1 THEN {"value"} ELSE {"restore"}]

Policies == {TwoEyes, OneEye, Off}
=============================================================================
