---------------------------- MODULE SingletonWork ----------------------------
(***************************************************************************)
(* What the HA scheduler promises of its singleton jobs, without leases,   *)
(* clocks or transactions: leadership terms are numbered without gaps, and *)
(* work is committed only by the owner of the newest term.  SingletonLease *)
(* is shown to implement this specification.                               *)
(***************************************************************************)
EXTENDS Naturals

CONSTANTS Node, NoNode

VARIABLES term,    \* number of the newest leadership term, 0 before the first
          holder,  \* the node that owns it
          last     \* the term and the node of the latest committed job write

absVars == <<term, holder, last>>

AbsInit ==
    /\ term = 0
    /\ holder = NoNode
    /\ last = [node |-> NoNode, fence |-> 0]

\* A node opens the next term; a later term never reuses a number.
Elect(n) ==
    /\ term' = term + 1
    /\ holder' = n
    /\ UNCHANGED last

\* Only the owner of the newest term commits.
Commit ==
    /\ holder \in Node
    /\ last' = [node |-> holder, fence |-> term]
    /\ UNCHANGED <<term, holder>>

AbsNext == Commit \/ \E n \in Node : Elect(n)

AbsSpec == AbsInit /\ [][AbsNext]_absVars

=============================================================================
