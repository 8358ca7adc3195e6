----------------------------- MODULE SelfConfig -----------------------------
(***************************************************************************)
(* How the instance applies a revision of its own configuration: the       *)
(* binding with its target and generation, the durable job that prepares   *)
(* every node before the target is committed, each node's reconciliation   *)
(* loop, recovery by the host operator and the fence after a backup was    *)
(* restored (store/repos_self_config.go, service/self_config_apply.go,     *)
(* service/self_config_runtime.go, service/self_config_recovery.go).       *)
(*                                                                         *)
(* A transaction is one action.  A node's reconciliation is two: it reads  *)
(* the binding, the open job and its own row, and later installs what it   *)
(* read and writes its row.  A timer is a flag that its own action raises: *)
(* the job's preparation time, the convergence time, the freshness of a    *)
(* node's row.  Heartbeats come and go on their own: which nodes have a    *)
(* recent one is a choice of each step.  Deployments that change the       *)
(* process's own bootstrap sources are left out: there is no rollout.      *)
(***************************************************************************)
EXTENDS Naturals, FiniteSets

CONSTANTS Node,
          Sizes,      \* the instances considered: their nodes, the number of published
                      \* revisions and bounds; a behaviour is one of an instance
          None

\* A node's row: its part in a job, and the target it last acknowledged.
Row == [job : Nat, prepared : BOOLEAN, gen : Nat, rev : Nat, inc : Nat,
        error : BOOLEAN, fresh : BOOLEAN]

ASSUME SelfConfigAssumption ==
    /\ None \notin Node \cup Row
    /\ Sizes \subseteq [nodes : SUBSET Node, revisions : Nat \ {0}, jobs : Nat,
                        incs : Nat \ {0}, gens : Nat, faults : Nat]

VARIABLES size,        \* the instance; a fault is a stop of a process or a recovery
          binding,     \* self_config_binding
          jobs,        \* self_config_jobs
          rows,        \* self_config_nodes
          slots,       \* self_config_retention
          payload,     \* revisions whose payload is present
          incarnation, \* recovery incarnation of the datastore
          backup,      \* a backup of the tables, or None
          admitted,    \* the incarnation each process was admitted to, 0 when down
          active,      \* the configuration each process has installed
          view,        \* what each node's running reconciliation read
          issued, faults,
          prepares, installs, \* history: what every node prepared and installed
          unconfirmed  \* history: a restore whose credentials nobody confirmed yet

tables == <<binding, jobs, rows, slots, payload>>
process == <<admitted, active, view>>
world == <<incarnation, backup, issued, faults>>
history == <<prepares, installs, unconfirmed>>
state == <<tables, process, world, history>>
vars == <<size, state>>

Rev == 1..size.revisions
Status == {"preparing", "applying", "partial", "applied", "aborted", "superseded"}
Binding == [gen : Nat, desired : Rev, prev : Rev \cup {0}, inc : Nat, suspended : BOOLEAN]
Job == [id : 1..size.jobs, rev : Rev, gen : Nat, confirm : BOOLEAN, status : Status,
        members : SUBSET Node, late : BOOLEAN]
Installed == [gen : Nat, rev : Rev, inc : Nat]
Slot == {"desired", "previous", "candidate"}

\* TypeOK: the shape of the binding, the jobs, the rows and the processes.
TypeOK ==
    /\ size \in Sizes
    /\ binding \in Binding /\ jobs \subseteq Job
    /\ rows \in [Node -> Row \cup {None}]
    /\ slots \in [Slot -> Rev \cup {0}] /\ payload \subseteq Rev
    /\ incarnation \in 1..size.incs
    /\ admitted \in [Node -> 0..size.incs]
    /\ active \in [Node -> Installed \cup {None}]
    /\ \A j \in jobs : j.status # "preparing" => j.gen <= binding.gen \/ j.status = "aborted"

\* Instances start adopted: the first revision is the target of generation 1.
Init ==
    /\ size \in Sizes
    /\ binding = [gen |-> 1, desired |-> 1, prev |-> 0, inc |-> 1, suspended |-> FALSE]
    /\ jobs = {} /\ rows = [n \in Node |-> None] /\ payload = Rev
    /\ slots = [s \in Slot |-> IF s = "desired" THEN 1 ELSE 0]
    /\ incarnation = 1 /\ backup = None
    /\ admitted = [n \in Node |-> 1] /\ active = [n \in Node |-> None]
    /\ view = [n \in Node |-> None]
    /\ issued = 0 /\ faults = 0
    /\ prepares = {} /\ installs = {} /\ unconfirmed = FALSE

-----------------------------------------------------------------------------
(* Jobs *)

Open == {j \in jobs : j.status \in {"preparing", "applying", "partial"}}
SetStatus(js, s) == (jobs \ js) \cup {[j EXCEPT !.status = s, !.late = FALSE] : j \in js}
Members == {n \in Node : rows[n] # None}

\* A transaction of a process that was admitted before a restore is refused.
Admitted(n) == admitted[n] = incarnation

\* An open job that a new one may replace: it failed to converge.
Superseded == {j \in Open : j.status = "partial" /\ j.gen = binding.gen}

NoneUnresolved == Open = Superseded

\* SelfConfig.Apply and BeginJob.  Membership is fixed here: the nodes with a recent
\* heartbeat or, without a registry, the node that serves the request.
Begin(n, r, confirm, beating) ==
    /\ issued < size.jobs /\ binding.gen < size.gens
    /\ Admitted(n) /\ r \in payload
    /\ NoneUnresolved
    /\ binding.suspended = confirm
    /\ LET members == IF beating = {} THEN {n} ELSE beating
           row == [job |-> issued + 1, prepared |-> FALSE, gen |-> 0, rev |-> 0,
                   inc |-> binding.inc, error |-> FALSE, fresh |-> TRUE]
       IN /\ jobs' = SetStatus(Superseded, "superseded") \cup
                {[id |-> issued + 1, rev |-> r, gen |-> binding.gen + 1, confirm |-> confirm,
                  status |-> "preparing", members |-> members, late |-> FALSE]}
          /\ rows' = [m \in Node |-> IF m \in members THEN row ELSE None]
    /\ issued' = issued + 1
    /\ slots' = [slots EXCEPT !["candidate"] = r]
    /\ UNCHANGED <<binding, payload, process, incarnation, backup, faults, history>>

\* Mutant: a live participant without an error counts as prepared.
AllAlive(j) ==
    /\ Members # {}
    /\ \A n \in Members :
        /\ rows[n].job = j.id /\ rows[n].fresh /\ ~rows[n].error
        /\ rows[n].inc = binding.inc

AllPrepared(j) ==
    /\ Members # {}
    /\ \A n \in Members :
        /\ rows[n].job = j.id /\ rows[n].prepared /\ rows[n].fresh /\ ~rows[n].error
        /\ rows[n].inc = binding.inc

\* Only a target that converged becomes the previous one.
KeepsPrevious ==
    binding.gen = 1 \/ \E j \in jobs : j.gen = binding.gen /\ j.status = "applied"

\* CommitJob, in Apply's final transaction.
Commit(n, j) ==
    /\ Admitted(n)
    /\ j.status = "preparing" /\ ~j.late /\ binding.gen + 1 = j.gen
    /\ binding.suspended = j.confirm
    /\ AllPrepared(j)
    /\ binding' = [binding EXCEPT !.gen = @ + 1, !.desired = j.rev, !.suspended = FALSE,
                                  !.prev = IF KeepsPrevious THEN binding.desired ELSE @]
    /\ slots' = [slots EXCEPT !["desired"] = j.rev,
                              !["previous"] = IF KeepsPrevious THEN binding.desired ELSE @]
    /\ jobs' = SetStatus({j}, "applying")
    /\ unconfirmed' = (unconfirmed /\ ~j.confirm)
    /\ UNCHANGED <<rows, payload, process, world, prepares, installs>>

\* Mutant: the target of a recovery resumes a suspended binding.
RecoveredResumed(r) ==
    [binding EXCEPT !.gen = @ + 1, !.desired = r, !.prev = binding.desired,
                    !.suspended = FALSE]

Recovered(r) == [binding EXCEPT !.gen = @ + 1, !.desired = r, !.prev = binding.desired]

\* SelfConfig.Recover and RecoverTarget: the host operator picks a target while no
\* node runs.
Recover(r, beating) ==
    /\ binding.gen < size.gens /\ faults < size.faults
    /\ faults' = faults + 1
    /\ r \in payload
    /\ beating = {} /\ \A n \in Members : ~rows[n].fresh
    /\ jobs' = SetStatus(Open, "aborted")
    /\ binding' = Recovered(r)
    /\ slots' = [desired |-> r, previous |-> binding.desired, candidate |-> 0]
    /\ rows' = [n \in Node |-> None]
    /\ UNCHANGED <<payload, process, incarnation, backup, issued, history>>

-----------------------------------------------------------------------------
(* A node's reconciliation *)

Target(b) == [gen |-> b.gen, rev |-> b.desired, inc |-> b.inc]

\* ReconcileRuntime reads the binding, the open job and the node's row.
Observe(n) ==
    /\ Admitted(n) /\ view[n] = None
    /\ view' = [view EXCEPT ![n] =
            [b |-> binding, row |-> rows[n],
             job |-> IF Open = {} THEN 0 ELSE (CHOOSE j \in Open : TRUE).id,
             status |-> IF Open = {} THEN "" ELSE (CHOOSE j \in Open : TRUE).status]]
    /\ UNCHANGED <<tables, admitted, active, world, history>>

Preparing(v) == v.status = "preparing"
SameBinding(v) == binding.gen = v.b.gen /\ binding.inc = v.b.inc

\* The snapshot can be read: the self configuration still holds it.
Readable(v, r) == binding.inc = v.b.inc /\ r \in payload /\ \E s \in Slot : slots[s] = r

\* PutNode: late joiners and rows of an earlier job change nothing.
Accepts(n, row, beating) ==
    /\ row.inc = binding.inc
    /\ IF row.job = 0
       THEN /\ Open = {}
            /\ row.error \/ (row.gen = binding.gen /\ row.rev = binding.desired)
            /\ beating # {} => n \in beating
       ELSE /\ rows[n] # None /\ rows[n].job = row.job
            /\ row.gen # 0 => row.gen = binding.gen /\ row.rev = binding.desired

\* The reconciliation of node n ends; its process has a installed.
Finish(n, a) ==
    /\ view' = [view EXCEPT ![n] = None]
    /\ active' = [active EXCEPT ![n] = a]
    /\ installs' = installs \cup (IF a = None THEN {} ELSE {[node |-> n, what |-> a]})
    /\ UNCHANGED <<admitted, world, unconfirmed>>

FencedBinding(n) == [binding EXCEPT !.inc = admitted[n], !.suspended = TRUE]

\* The binding is of another incarnation: FenceRestored, once.
Fence(n) ==
    /\ view[n] # None /\ view[n].b.inc # admitted[n]
    /\ Finish(n, None)
    /\ IF Admitted(n) /\ binding.inc # admitted[n]
       THEN /\ binding' = FencedBinding(n)
            /\ rows' = [m \in Node |-> None]
            /\ jobs' = SetStatus(Open, "aborted")
            /\ slots' = [slots EXCEPT !["candidate"] = 0]
       ELSE UNCHANGED <<binding, rows, jobs, slots>>
    /\ UNCHANGED <<payload, prepares>>

Ready(n) == view[n] # None /\ view[n].b.inc = admitted[n]

\* A suspended binding without a job in preparation: nothing is installed.
Rest(n) ==
    /\ Ready(n) /\ view[n].b.suspended /\ ~Preparing(view[n])
    /\ Finish(n, None)
    /\ UNCHANGED <<tables, prepares>>

\* The node must install the target before it reports.
MustInstall(n) ==
    LET v == view[n]
    IN ~v.b.suspended /\ ~Preparing(v) /\ active[n] # Target(v.b)

\* Installation fails: recordRuntimeRefusal.
Refuse(n, beating) ==
    /\ Ready(n) /\ MustInstall(n)
    /\ Finish(n, None)
    /\ LET v == view[n]
           row == [job |-> IF v.row = None THEN 0 ELSE v.row.job, prepared |-> FALSE,
                   gen |-> 0, rev |-> 0, inc |-> v.b.inc, error |-> TRUE, fresh |-> TRUE]
       IN IF Admitted(n) /\ SameBinding(v) /\ Accepts(n, row, beating)
          THEN /\ rows' = [rows EXCEPT ![n] = row]
               /\ jobs' = SetStatus({j \in jobs : /\ j.id = row.job /\ j.status = "applying"
                                                  /\ j.gen = binding.gen}, "partial")
          ELSE UNCHANGED <<rows, jobs>>
    /\ UNCHANGED <<binding, slots, payload, prepares>>

\* Mutant: one acknowledgement completes the job.
CompleteByAny(js) == \E n \in Members : rows'[n].gen = binding.gen /\ ~rows'[n].error

\* Every participant has acknowledged the target.
Complete(js) ==
    \A n \in Members : /\ rows'[n].gen = binding.gen /\ rows'[n].rev = binding.desired
                       /\ rows'[n].inc = binding.inc /\ ~rows'[n].error

\* Mutant: a job in preparation waits for its participants for ever.
FailedOnError(js) == {j \in js : \E n \in Members : rows'[n].error}

\* The jobs in preparation that are given up.
Failed(js) == {j \in js : j.late \/ \E n \in Members : rows'[n].error}

\* What the rows, as they are now, do to the job the node read.
Settle(js) ==
    LET preparing == {j \in js : j.status = "preparing"}
        applying == {j \in js : j.status \in {"applying", "partial"}}
        failed == Failed(preparing)
        done == IF Complete(js) THEN applying ELSE {}
        overdue == {j \in applying \ done : j.status = "applying" /\ j.late}
    IN /\ jobs' = CASE failed # {} -> SetStatus(failed, "aborted")
                    [] done # {} -> SetStatus(done, "applied")
                    [] overdue # {} -> SetStatus(overdue, "partial")
                    [] OTHER -> jobs
       /\ slots' = IF failed \cup done # {} THEN [slots EXCEPT !["candidate"] = 0] ELSE slots

\* The node installs the target, or prepares the candidate (ok says whether that
\* succeeded), and writes its row.
Report(n, ok, beating) ==
    /\ Ready(n)
    /\ LET v == view[n]
           a == IF v.b.suspended \/ (Preparing(v) /\ active[n] # Target(v.b))
                THEN None ELSE Target(v.b)
           old == IF v.row # None THEN v.row
                  ELSE [job |-> 0, prepared |-> FALSE, inc |-> v.b.inc]
           row == [job |-> old.job, inc |-> old.inc, fresh |-> TRUE,
                   prepared |-> IF Preparing(v) THEN ok ELSE old.prepared,
                   error |-> Preparing(v) /\ ~ok,
                   gen |-> IF a = None THEN 0 ELSE a.gen,
                   rev |-> IF a = None THEN 0 ELSE a.rev]
           mine == {j \in jobs : j.id = v.job}
       IN /\ ~(v.b.suspended /\ ~Preparing(v))
          /\ MustInstall(n) => Admitted(n) /\ Readable(v, v.b.desired)
          /\ Preparing(v) \/ ok
          /\ Preparing(v) /\ ok => /\ v.row # None /\ Admitted(n)
                                   /\ \A j \in mine : Readable(v, j.rev)
          /\ Finish(n, a)
          /\ prepares' = IF Preparing(v) /\ ok
                         THEN prepares \cup {[node |-> n, job |-> v.job]} ELSE prepares
          /\ IF /\ v.row # None \/ v.job = 0
                /\ Admitted(n) /\ SameBinding(v)
                /\ binding.suspended => Preparing(v)
                /\ Accepts(n, row, beating)
             THEN rows' = [rows EXCEPT ![n] = row] /\ Settle(mine)
             ELSE UNCHANGED <<rows, jobs, slots>>
    /\ UNCHANGED <<binding, payload>>

\* Mutant: a process serves with whatever it installed in this incarnation.
CapturesAny(n) ==
    /\ Admitted(n) /\ active[n] # None
    /\ ~binding.suspended /\ binding.inc = admitted[n]
    /\ active[n].inc = binding.inc

\* SelfConfig.Capture: the node serves requests with its installed configuration.
Captures(n) ==
    /\ Admitted(n) /\ active[n] # None
    /\ ~binding.suspended /\ binding.inc = admitted[n]
    /\ active[n].gen = binding.gen /\ active[n].inc = binding.inc

-----------------------------------------------------------------------------
(* Processes, timers, the retention sweep, backup and restore *)

Stop(n) ==
    /\ faults < size.faults /\ admitted[n] # 0
    /\ faults' = faults + 1
    /\ admitted' = [admitted EXCEPT ![n] = 0]
    /\ active' = [active EXCEPT ![n] = None] /\ view' = [view EXCEPT ![n] = None]
    /\ UNCHANGED <<tables, incarnation, backup, issued, history>>

Start(n) ==
    /\ admitted[n] = 0
    /\ admitted' = [admitted EXCEPT ![n] = incarnation]
    /\ UNCHANGED <<tables, active, view, world, history>>

\* Half a minute without a word of the node.
Quiet(n) ==
    /\ rows[n] # None /\ rows[n].fresh
    /\ rows' = [rows EXCEPT ![n].fresh = FALSE]
    /\ UNCHANGED <<binding, jobs, slots, payload, process, world, history>>

\* The preparation time, or the convergence time, of a job has passed.
TimePasses ==
    /\ \E j \in jobs :
        /\ j.status \in {"preparing", "applying"} /\ ~j.late
        /\ jobs' = (jobs \ {j}) \cup {[j EXCEPT !.late = TRUE]}
    /\ UNCHANGED <<binding, rows, slots, payload, process, world, history>>

\* Mutant: the candidate of a job in preparation is not held.
HeldTargets(r) == slots["desired"] = r \/ slots["previous"] = r

Held(r) == \E s \in Slot : slots[s] = r

\* The retention sweep takes a revision that is neither the newest nor held.
Collect(r) ==
    /\ r \in payload \ {size.revisions} /\ ~Held(r)
    /\ payload' = payload \ {r}
    /\ UNCHANGED <<binding, jobs, rows, slots, process, world, history>>

Backup ==
    /\ incarnation < size.incs /\ backup = None
    /\ backup' = [binding |-> binding, jobs |-> jobs, rows |-> rows, slots |-> slots,
                  payload |-> payload]
    /\ UNCHANGED <<tables, process, incarnation, issued, faults, history>>

\* The tables are those of the backup again, under a new incarnation.
Restore ==
    /\ backup # None /\ incarnation < size.incs
    /\ binding' = backup.binding /\ jobs' = backup.jobs /\ rows' = backup.rows
    /\ slots' = backup.slots /\ payload' = backup.payload
    /\ incarnation' = incarnation + 1
    /\ backup' = None
    /\ unconfirmed' = TRUE
    /\ UNCHANGED <<process, issued, faults, prepares, installs>>

-----------------------------------------------------------------------------

Act(n) ==
    \/ Fence(n) \/ Rest(n)
    \/ \E beating \in SUBSET size.nodes :
        Refuse(n, beating) \/ \E ok \in BOOLEAN : Report(n, ok, beating)

Step ==
    \/ \E n \in size.nodes :
        \/ \E r \in Rev, confirm \in BOOLEAN, beating \in SUBSET size.nodes :
              Begin(n, r, confirm, beating)
        \/ \E j \in jobs : Commit(n, j)
        \/ Observe(n) \/ Act(n)
        \/ Stop(n) \/ Start(n) \/ Quiet(n)
    \/ \E r \in Rev : Collect(r) \/ \E beating \in SUBSET size.nodes : Recover(r, beating)
    \/ TimePasses \/ Backup \/ Restore

Next == Step /\ UNCHANGED size

Spec == Init /\ [][Next]_vars

\* Nodes are restarted by their supervisor and reconcile every two seconds; time
\* passes.
FairSpec ==
    /\ Spec
    /\ \A n \in Node : WF_state(Start(n)) /\ WF_state(Observe(n)) /\ WF_state(Act(n))
    /\ WF_state(TimePasses)

-----------------------------------------------------------------------------
(* Properties *)

\* A process serves requests only with the revision that is the target now: never
\* with the one before a commit, a recovery or a restore that it has not noticed.
ServesTarget == \A n \in Node : Captures(n) => active[n].rev = binding.desired

\* After a backup was restored nothing is served with its credentials until an
\* administrator has confirmed them, whatever is applied or recovered meanwhile.
ConfirmedBeforeUse == unconfirmed => \A n \in Node : ~Captures(n)

\* A job's status is earned: its target was committed only after every participant had
\* prepared it, an acknowledgement for an earlier job or by a late joiner not counting,
\* and called applied only after every participant had it installed as the target of
\* the job's generation.
StatusIsEarned ==
    \A j \in jobs, n \in Node : n \in j.members =>
        /\ j.status \in {"applying", "partial", "applied", "superseded"}
            => [node |-> n, job |-> j.id] \in prepares
        /\ j.status = "applied"
            => \E i \in installs : i.node = n /\ i.what.gen = j.gen /\ i.what.rev = j.rev

\* What a restart, a repair or a commit will need is never collected: the target, the
\* previous target and the candidate that nodes are preparing.
NeededPayloads ==
    {binding.desired} \cup ({binding.prev} \ {0}) \cup {j.rev : j \in Open} \subseteq payload

\* A job never stays undecided: it is aborted, or it is committed and converges, or it
\* is called partial.
JobsSettle ==
    \A id \in UNION {1..z.jobs : z \in Sizes} :
        (\E j \in jobs : j.id = id /\ j.status \in {"preparing", "applying"})
            ~> ~(\E j \in jobs : j.id = id /\ j.status \in {"preparing", "applying"})
=============================================================================
