---------------------------- MODULE MCSelfConfig ----------------------------
(* Model-checking instances of SelfConfig. *)
EXTENDS SelfConfig, TLC

Nodes == Permutations(Node)

\* Two nodes through two jobs in a row; one node through jobs, recoveries, stops
\* and the retention sweep; one node whose backup is restored.
TwoJobs == [nodes |-> Node, revisions |-> 1, jobs |-> 2, incs |-> 1, gens |-> 3, faults |-> 0]
Recoveries(n) == [nodes |-> {n}, revisions |-> 3, jobs |-> 2, incs |-> 1, gens |-> 3, faults |-> 2]
Restored(n) == [nodes |-> {n}, revisions |-> 2, jobs |-> 1, incs |-> 2, gens |-> 3, faults |-> 2]
Instances == {TwoJobs} \cup {Recoveries(n) : n \in Node} \cup {Restored(n) : n \in Node}

\* Two nodes, one of which stops during a job.
OneJob == {[nodes |-> Node, revisions |-> 1, jobs |-> 1, incs |-> 1, gens |-> 2, faults |-> 1]}
=============================================================================
