----------------------------- MODULE MCDelivery -----------------------------
(* Model-checking instances of Delivery. *)
EXTENDS Delivery, TLC

Workloads == Permutations(Workload)

Bounded(a, c) == [unlimited |-> FALSE, age |-> a, count |-> c]
Unlimited == [unlimited |-> TRUE, age |-> 1, count |-> 1]

\* Everything that decides what a fetch returns, between two fetches.
Fetches == [contents |-> Content, org |-> {Bounded(1, 1)}, project |-> {}, batch |-> 2,
            quota |-> 1, revisions |-> 2, clock |-> 1, admin |-> 2, fetches |-> 1,
            held |-> 0]

\* Policies, pins and holds change around a sweep of three revisions.
Sweeps == [contents |-> {CHOOSE c \in Content : TRUE},
           org |-> {Bounded(1, 1), Bounded(1, 2), Unlimited},
           project |-> {Bounded(1, 1), Bounded(1, 2)}, batch |-> 1,
           quota |-> 2, revisions |-> 3, clock |-> 3, admin |-> 0, fetches |-> 0,
           held |-> 1]

Instances == {Fetches, Sweeps}
=============================================================================
