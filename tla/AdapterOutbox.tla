--------------------------- MODULE AdapterOutbox ---------------------------
(***************************************************************************)
(* The deployment adapter's outbox for one target: the queue of converge   *)
(* and scrub jobs, the workers that run them against a provider that keeps *)
(* no history and cannot be read back, the ledger of names the target owns *)
(* there, the journal of intents and outcomes, and the operators' acts     *)
(* that fence a running job by raising the target's generation             *)
(* (adapter/outbox.go, adapter/forgejo/module.go, store/adapter_runtime.go, *)
(* store/repos_adapters.go).                                               *)
(*                                                                         *)
(* A database transaction is one action, and a gate is checked in the step *)
(* it admits.  A request to the provider is on the wire between the last   *)
(* gate and the provider's handling of it, or until its client gives up on *)
(* it; from then on it is adrift and may be handled at any time, or never. *)
(* The value of a name is the revision it was written from.  A lease is a  *)
(* flag that Lapse lowers: a client gives up after 15 seconds and leases   *)
(* last two minutes, so no lease lapses while its request is on the wire.  *)
(* Route moves, changes of a target's key selection, waiting out a rate    *)
(* limit inside an attempt and the limit of four jobs per organization are *)
(* left out.                                                               *)
(***************************************************************************)
EXTENDS Naturals, Sequences, FiniteSetsExt

CONSTANTS Worker,
          Name,       \* effective names at the destination: a set of numbers
          Secrets,    \* those on the secret surface; the others are variables
          Contents,   \* the names each revision delivers, in order of the revisions
          Plans,      \* sets of acts that happen together; a behaviour follows one
          Stalls,     \* a live worker may be so late that its leases lapse
          None,
          MaxGen, MaxFaults  \* bounds: generations, failures of the environment

Revs == 1..Len(Contents)
Gens == 1..MaxGen
Foreign == Len(Contents) + 1  \* a value somebody else wrote

Effect == [job : Gens, worker : Worker, name : Name]

ASSUME AdapterOutboxAssumption ==
    /\ Name \subseteq Nat /\ Secrets \subseteq Name
    /\ Contents \in Seq(SUBSET Name) /\ Contents # <<>>
    /\ Stalls \in BOOLEAN
    /\ MaxGen \in Nat \ {0} /\ MaxFaults \in Nat
    /\ None \notin Worker \cup Effect

VARIABLES ops,       \* the plan of this behaviour
          head,      \* newest published revision
          target,    \* the adapter_targets row and its adapter's credential
          jobs,      \* adapter_outbox; a job is known by its generation
          lease,     \* the target's provider-write lease
          ledger,    \* adapter_ledger
          open,      \* adapter_effects whose outcome is not recorded
          conflicts, \* adapter_conflicts not adopted, with their generation
          provider,  \* what the destination holds under every name
          wire,      \* requests the provider has not handled yet
          adrift,    \* requests their clients gave up on, which may still be handled
          work,      \* each worker's attempt
          faults,
          applied,   \* history: the newest job a request of which was applied
          licensed,  \* history: names somebody else's value of which is fair game
          loose,     \* history: names the ledger lost hold of: a row that was gone was
                     \* dispatched, or a request adrift was applied
          late       \* history: names to which a request adrift was applied

store == <<target, jobs, lease, ledger, open, conflicts>>
world == <<provider, wire, adrift, applied>>
history == <<licensed, loose, late>>
vars == <<ops, head, store, world, work, faults, history>>

Rows == {"absent", "reserved", "dispatched", "owned", "released"}
Held == {"dispatched", "owned"}
Job == [kind : {"converge", "scrub"}, owner : Worker \cup {None}, live : BOOLEAN,
        state : {"none", "queued", "running", "succeeded", "failed", "superseded"}]
Answer == {"ok", "conflict", "notfound", "refused", "denied", "unknown", "unsent"}
Cause == {"ok", "retry", "denied", "unauthorized", "superseded"}
Request == [effect : Effect, rev : 0..Len(Contents), awaited : BOOLEAN,
            method : {"put", "post", "patch", "delete"}]
Run == [pc : {"idle", "claimed", "list", "row", "reserved", "release", "delete", "prepared",
              "wait", "finish", "settle"},
        job : 0..MaxGen, rev : 0..Len(Contents), seen : [Name -> Rows],
        listed : SUBSET Name, todo : SUBSET Name, phase : {"write", "release", "delete"},
        answer : Answer \cup {None}, cause : Cause \cup {None}]
Idle == [pc |-> "idle", job |-> 0, rev |-> 0, seen |-> [n \in Name |-> "absent"],
         listed |-> {}, todo |-> {}, phase |-> "write", answer |-> None, cause |-> None]

\* TypeOK: the shape of the target's rows, the requests and the attempts.
TypeOK ==
    /\ ops \in Plans
    /\ head \in Revs
    /\ target \in [gen : Gens, state : {"active", "tombstoned"}, paused : BOOLEAN,
                   active : 0..MaxGen, status : {"converging", "converged", "failed"},
                   rev : 0..Len(Contents), cred : BOOLEAN]
    /\ jobs \in [Gens -> Job]
    /\ lease \in [effect : Effect \cup {None}, live : BOOLEAN]
    /\ ledger \in [Name -> Rows]
    /\ open \subseteq Effect /\ conflicts \subseteq Gens \X Name
    /\ provider \in [Name -> 0..Foreign]
    /\ wire \subseteq Request /\ adrift \subseteq Request
    /\ work \in [Worker -> Run]
    /\ faults \in 0..MaxFaults /\ applied \in 0..MaxGen
    /\ licensed \subseteq Name /\ loose \subseteq Name /\ late \subseteq loose

NoJob == [kind |-> "converge", owner |-> None, live |-> FALSE, state |-> "none"]
NoLease == [effect |-> None, live |-> FALSE]

\* A target was configured and its first converge is queued.
Init ==
    /\ ops \in Plans
    /\ head \in Revs
    /\ target = [gen |-> 1, state |-> "active", paused |-> FALSE, active |-> 1,
                 status |-> "converging", rev |-> 0, cred |-> TRUE]
    /\ jobs = [g \in Gens |-> IF g = 1 THEN [NoJob EXCEPT !.state = "queued"] ELSE NoJob]
    /\ lease = NoLease
    /\ ledger = [n \in Name |-> "absent"]
    /\ open = {} /\ conflicts = {}
    /\ provider = [n \in Name |-> 0]
    /\ wire = {} /\ adrift = {} /\ applied = 0 /\ faults = 0
    /\ licensed = {} /\ loose = {} /\ late = {}
    /\ work = [w \in Worker |-> Idle]

Fault == faults < MaxFaults /\ faults' = faults + 1

-----------------------------------------------------------------------------
(* The operators' acts *)

\* Mutant: an act does not look at the provider lease.
BusyIgnored == FALSE

Busy == lease.effect # None /\ lease.live
Unfinished(g) == g # 0 /\ jobs[g].state \in {"queued", "running"}

Ended(g, s) == [jobs EXCEPT ![g] = [@ EXCEPT !.state = s, !.owner = None, !.live = FALSE]]

\* The active job is superseded in the transaction that replaces it; an active job that
\* is not queued or running fails the transaction.
CanSupersede == target.active = 0 \/ Unfinished(target.active)
Superseding == IF Unfinished(target.active) THEN Ended(target.active, "superseded") ELSE jobs

\* enqueuePublishedTargets: the next generation's job.
Enqueue(kind, row) ==
    /\ target.gen < MaxGen
    /\ CanSupersede
    /\ jobs' = [Superseding EXCEPT
                  ![target.gen + 1] = [NoJob EXCEPT !.kind = kind, !.state = "queued"]]
    /\ target' = [row EXCEPT !.gen = target.gen + 1, !.status = "converging",
                             !.active = target.gen + 1]

\* A publish raises the generation even while a request is on the wire: it leaves the
\* provider lease alone, and the new job waits for it in Prepare.
Publish ==
    /\ head + 1 \in Revs
    /\ head' = head + 1
    /\ IF target.state = "active" /\ ~target.paused
       THEN Enqueue("converge", target)
       ELSE UNCHANGED <<target, jobs>>
    /\ UNCHANGED <<ops, lease, ledger, open, conflicts, world, work, faults, history>>

\* EnqueueManual
Manual ==
    /\ target.state = "active" /\ ~Busy /\ ~target.paused
    /\ Enqueue("converge", target)
    /\ UNCHANGED <<ops, head, lease, ledger, open, conflicts, world, work, faults, history>>

Pause ==
    /\ target.state = "active" /\ ~target.paused /\ ~Busy
    /\ target.gen < MaxGen
    /\ jobs' = Superseding
    /\ target' = [target EXCEPT !.paused = TRUE, !.gen = @ + 1, !.active = 0]
    /\ lease' = NoLease
    /\ UNCHANGED <<ops, head, ledger, open, conflicts, world, work, faults, history>>

Resume ==
    /\ target.state = "active" /\ target.paused /\ ~Busy
    /\ Enqueue("converge", [target EXCEPT !.paused = FALSE])
    /\ UNCHANGED <<ops, head, lease, ledger, open, conflicts, world, work, faults, history>>

\* adoptAdapter: the operator takes over a name that a converge of this generation met.
Adopt(n) ==
    /\ target.state = "active" /\ ~Busy
    /\ <<target.gen, n>> \in conflicts /\ ledger[n] = "absent"
    /\ Enqueue("converge", target)
    /\ ledger' = [ledger EXCEPT ![n] = "owned"]
    /\ conflicts' = conflicts \ {<<target.gen, n>>}
    /\ licensed' = licensed \cup {n}
    /\ lease' = NoLease
    /\ UNCHANGED <<ops, head, open, world, work, faults, loose, late>>

Released == [n \in Name |-> IF ledger[n] = "absent" THEN "absent" ELSE "released"]

\* teardownAdapterTarget
Teardown(keepRemote) ==
    /\ target.state = "active" /\ ~Busy
    /\ IF keepRemote
       THEN /\ target.gen < MaxGen /\ CanSupersede
            /\ jobs' = Superseding
            /\ ledger' = Released
            /\ target' = [target EXCEPT !.gen = @ + 1, !.state = "tombstoned",
                                        !.status = "converged", !.active = 0]
       ELSE /\ Enqueue("scrub", [target EXCEPT !.state = "tombstoned"])
            /\ UNCHANGED ledger
    /\ lease' = NoLease
    /\ UNCHANGED <<ops, head, open, conflicts, world, work, faults, history>>

\* ReplaceCredential and RevokeCredential raise the generation and leave the active job.
ReplaceCredential ==
    /\ target.state = "active" /\ ~Busy /\ target.gen < MaxGen
    /\ target' = [target EXCEPT !.cred = TRUE, !.gen = @ + 1]
    /\ lease' = NoLease
    /\ UNCHANGED <<ops, head, jobs, ledger, open, conflicts, world, work, faults, history>>

RevokeCredential ==
    /\ target.state = "active" /\ target.gen < MaxGen
    /\ target' = [target EXCEPT !.cred = FALSE, !.gen = @ + 1]
    /\ UNCHANGED <<ops, head, jobs, lease, ledger, open, conflicts, world, work, faults, history>>

-----------------------------------------------------------------------------
(* A worker's attempt *)

EffectOf(w, n) == [job |-> work[w].job, worker |-> w, name |-> n]
Row(w) == Min(work[w].todo)
JobOf(w) == jobs[work[w].job]

\* closeIndeterminateEffects: what a claim closes as unknown.
Closed == {e \in open : ~(lease.effect = e /\ lease.live)}

\* A queued job, or one whose worker's lease lapsed.
Due(g) == jobs[g].state = "queued" \/ (jobs[g].state = "running" /\ ~jobs[g].live)

\* ClaimDue
Claim(w, g) ==
    /\ work[w] = Idle
    /\ ~target.paused
    /\ Due(g)
    /\ \A x \in Gens \ {g} : ~(jobs[x].state = "running" /\ jobs[x].live)
    /\ jobs' = [jobs EXCEPT ![g] = [@ EXCEPT !.state = "running", !.owner = w, !.live = TRUE]]
    /\ open' = open \ Closed
    /\ lease' = IF lease.effect \in Closed THEN NoLease ELSE lease
    /\ work' = [work EXCEPT ![w] = [Idle EXCEPT !.pc = "claimed", !.job = g]]
    /\ licensed' = licensed \cup {e.name : e \in Closed}
    /\ UNCHANGED <<ops, head, target, ledger, conflicts, world, faults, loose, late>>

\* adapterJournal.Gate, without the authorization of its principal.
Gate(w) ==
    /\ target.gen = work[w].job
    /\ JobOf(w).state = "running" /\ JobOf(w).owner = w /\ JobOf(w).live

Step(w, next) == work' = [work EXCEPT ![w] = next]
End(w, cause) == Step(w, [work[w] EXCEPT !.pc = "settle", !.cause = cause])

\* A gate that does not pass, at every place an attempt meets one.  After Prepare the
\* intent is closed before the attempt ends.
GateFails(w) ==
    /\ work[w].pc \in {"claimed", "list", "reserved", "release", "delete", "prepared"}
    /\ \E cause \in {"superseded", "unauthorized"} :
        /\ IF cause = "superseded" THEN ~Gate(w) /\ UNCHANGED faults ELSE Fault
        /\ IF work[w].pc = "prepared"
           THEN Step(w, [work[w] EXCEPT !.pc = "finish", !.answer = "unsent", !.cause = cause])
           ELSE End(w, cause)
    /\ UNCHANGED <<ops, head, store, world, history>>

\* adapterLoader.Load: the newest revision and the ledger as they are now.
Load(w) ==
    /\ work[w].pc = "claimed" /\ Gate(w)
    /\ IF target.cred
       THEN LET rev == IF JobOf(w).kind = "scrub" THEN 0 ELSE head
            IN Step(w, [work[w] EXCEPT !.pc = "list", !.rev = rev,
                  !.todo = IF rev = 0 THEN {} ELSE Contents[rev],
                  !.seen = [n \in Name |->
                              IF ledger[n] = "released" THEN "absent" ELSE ledger[n]]])
       ELSE End(w, "denied")
    /\ UNCHANGED <<ops, head, store, world, faults, history>>

\* Where an attempt goes when a row is done: the writes, then the reservations nobody
\* wants any more, then the prunes.
Wanted(a, n) == a.rev # 0 /\ n \in Contents[a.rev]

\* Mutant: a row whose write was never answered is not pruned.
UndesiredOwned(a) == {n \in Name : a.seen[n] \in {"reserved", "owned"} /\ ~Wanted(a, n)}

Undesired(a) == {n \in Name : a.seen[n] # "absent" /\ ~Wanted(a, n)}
Reservations(a) == {n \in Undesired(a) : a.seen[n] = "reserved"}

Onward(a) ==
    LET prunes == Undesired(a) \ Reservations(a)
    IN IF a.todo # {}
       THEN [a EXCEPT !.pc = IF a.phase = "write" THEN "row" ELSE a.phase]
       ELSE IF a.phase = "write" /\ Reservations(a) # {}
       THEN [a EXCEPT !.pc = "release", !.phase = "release", !.todo = Reservations(a)]
       ELSE IF a.phase # "delete" /\ prunes # {}
       THEN [a EXCEPT !.pc = "delete", !.phase = "delete", !.todo = prunes]
       ELSE [a EXCEPT !.pc = "settle", !.cause = "ok"]

\* Sync reads the names on the secret surface once, before its first write.
List(w) ==
    /\ work[w].pc = "list"
    /\ \/ /\ Gate(w)
          /\ Step(w, Onward([work[w] EXCEPT !.listed = {n \in Secrets : provider[n] # 0}]))
          /\ UNCHANGED faults
       \/ /\ Fault
          /\ \E cause \in {"retry", "denied"} : End(w, cause)
    /\ UNCHANGED <<ops, head, store, world, history>>

\* Journal.Reserve, for a name the attempt did not load: not gated.
Reserve(w) ==
    LET a == work[w]
        n == Row(w)
        row == IF ledger[n] \in {"absent", "released"} THEN "reserved" ELSE ledger[n]
    IN /\ a.pc = "row"
       /\ ledger' = IF a.seen[n] = "absent" THEN [ledger EXCEPT ![n] = row] ELSE ledger
       /\ Step(w, [a EXCEPT !.pc = "reserved",
                            !.seen[n] = IF @ = "absent" THEN row ELSE @])
       /\ UNCHANGED <<ops, head, target, jobs, lease, open, conflicts, world, faults, history>>

Taken(w) ==
    Row(w) \in Secrets /\ work[w].seen[Row(w)] = "reserved" /\ Row(w) \in work[w].listed

\* Journal.Refuse, for a secret that exists and is not the target's.
Refuse(w) ==
    /\ work[w].pc = "reserved" /\ Taken(w)
    /\ IF ledger[Row(w)] = "reserved"
       THEN /\ ledger' = [ledger EXCEPT ![Row(w)] = "absent"]
            /\ conflicts' = conflicts \cup {<<work[w].job, Row(w)>>}
            /\ End(w, "retry")
       ELSE End(w, "superseded") /\ UNCHANGED <<ledger, conflicts>>
    /\ UNCHANGED <<ops, head, target, jobs, lease, open, world, faults, history>>

\* Mutant: a write does not wait for the one that is on the wire.
FreeIfSuperseded == TRUE

ProviderFree == lease.effect = None \/ ~lease.live

\* Journal.Prepare: the provider lease, the intent and the dispatched row in one step.
Prepare(w) ==
    LET a == work[w]
        n == Row(w)
    IN /\ a.pc \in {"reserved", "delete"} /\ Gate(w)
       /\ a.pc = "reserved" => ~Taken(w)
       /\ IF ~ProviderFree
          THEN End(w, "retry") /\ UNCHANGED <<store, history>>
          ELSE IF a.pc = "reserved" /\ a.seen[n] = "reserved" /\ ledger[n] # "reserved"
          THEN End(w, "superseded") /\ UNCHANGED <<store, history>>
          ELSE /\ lease' = [effect |-> EffectOf(w, n), live |-> TRUE]
               /\ open' = open \cup {EffectOf(w, n)}
               /\ ledger' = IF a.pc = "reserved" /\ a.seen[n] = "reserved"
                            THEN [ledger EXCEPT ![n] = "dispatched"] ELSE ledger
               /\ Step(w, [a EXCEPT !.pc = "prepared"])
               /\ licensed' = IF lease.effect = None THEN licensed
                              ELSE licensed \cup {lease.effect.name}
               /\ loose' = IF a.seen[n] # "reserved" /\ ledger[n] \notin Held
                               THEN loose \cup {n} ELSE loose
               /\ UNCHANGED <<target, jobs, conflicts, late>>
       /\ UNCHANGED <<ops, head, world, faults>>

\* Mutant: a reserved variable is written as if it were the target's already.
MethodOfRetry(a, n) ==
    IF a.phase = "delete" THEN "delete" ELSE "put"

\* Module.write and delete: only a variable that may be the target's own is updated.
Method(a, n) ==
    IF a.phase = "delete" THEN "delete"
    ELSE IF n \in Secrets THEN "put"
    ELSE IF a.seen[n] \in {"dispatched", "owned"} THEN "patch" ELSE "post"

\* The gate after Prepare passes and the request is sent.
Send(w) ==
    /\ work[w].pc = "prepared" /\ Gate(w)
    /\ wire' = wire \cup {[effect |-> EffectOf(w, Row(w)), rev |-> work[w].rev,
                           method |-> Method(work[w], Row(w)), awaited |-> TRUE]}
    /\ Step(w, [work[w] EXCEPT !.pc = "wait"])
    /\ UNCHANGED <<ops, head, store, provider, adrift, applied, faults, history>>

\* Mutant: an answer that never came counts as a refusal.
SettledAsRefused(a, n) ==
    LET new == a.seen[n] = "reserved"
        gone == IF new THEN "absent" ELSE a.seen[n]
    IN CASE a.answer = "unsent" -> a.seen[n]
         [] a.answer = "ok" -> IF a.phase = "delete" THEN "released" ELSE "owned"
         [] a.answer = "conflict" -> "absent"
         [] a.answer = "notfound" -> IF a.phase = "delete" THEN "released" ELSE "absent"
         [] a.answer \in {"refused", "denied", "unknown"} -> gone

\* The ledger row an answer leaves.  A refusal of a new name removes it; an answer that
\* never came leaves a write dispatched: it may have landed.
Settled(a, n) ==
    LET new == a.seen[n] = "reserved"
    IN CASE a.answer = "unsent" -> a.seen[n]
         [] a.answer = "ok" -> IF a.phase = "delete" THEN "released" ELSE "owned"
         [] a.answer = "conflict" -> "absent"
         [] a.answer = "notfound" -> IF a.phase = "delete" THEN "released" ELSE "absent"
         [] a.answer \in {"refused", "denied"} ->
              IF a.phase = "write" /\ new THEN "absent" ELSE a.seen[n]
         [] a.answer = "unknown" -> IF a.phase = "write" THEN "dispatched" ELSE a.seen[n]

CauseOf(a) ==
    CASE a.answer = "unsent" -> a.cause
      [] a.answer = "denied" -> "denied"
      [] a.answer \notin {"unsent", "denied"} -> "retry"

Done(a) == a.answer = "ok" \/ (a.phase = "delete" /\ a.answer = "notfound")

\* Journal.Finish: the outcome once, the ledger row and the release of the lease, or none
\* of them.
Finish(w) ==
    LET a == work[w]
        n == Row(w)
        e == EffectOf(w, n)
        next == [a EXCEPT !.answer = None, !.todo = @ \ {n},
                          !.seen[n] = IF a.phase = "write" THEN "owned" ELSE @]
    IN /\ a.pc = "finish"
       /\ IF e \in open /\ ledger[n] # "absent" /\ lease.effect = e
          THEN /\ open' = open \ {e}
               /\ lease' = NoLease
               /\ ledger' = [ledger EXCEPT ![n] =
                               IF @ = "released" /\ Settled(a, n) # "absent"
                               THEN @ ELSE Settled(a, n)]
               /\ conflicts' = IF a.answer = "conflict"
                               THEN conflicts \cup {<<a.job, n>>} ELSE conflicts
               /\ licensed' = IF a.answer = "unknown" THEN licensed \cup {n} ELSE licensed
               /\ IF Done(a) THEN Step(w, Onward(next)) ELSE End(w, CauseOf(a))
          ELSE /\ End(w, IF e \in open THEN "superseded" ELSE "retry")
               /\ UNCHANGED <<open, lease, ledger, conflicts, licensed>>
       /\ UNCHANGED <<ops, head, target, jobs, world, faults, loose, late>>

\* Journal.ReleaseReservation
ReleaseReservation(w) ==
    LET a == work[w]
        n == Row(w)
    IN /\ a.pc = "release" /\ Gate(w)
       /\ IF ledger[n] = "reserved"
          THEN /\ ledger' = [ledger EXCEPT ![n] = "absent"]
               /\ Step(w, Onward([a EXCEPT !.todo = @ \ {n}]))
          ELSE End(w, "superseded") /\ UNCHANGED ledger
       /\ UNCHANGED <<ops, head, target, jobs, lease, open, conflicts, world, faults, history>>

\* The target row accepts the end of a job of its own generation, once no provider
\* request is recorded; otherwise the whole transaction is undone.
Accepted(w) == target.gen = work[w].job /\ lease.effect = None

\* finishJob for a lost credential or authority: a scrub without its credential gives up
\* every name it could not remove.
Failed(w) ==
    /\ Accepted(w)
    /\ jobs' = Ended(work[w].job, "failed")
    /\ target' = [target EXCEPT !.status = "failed", !.active = 0]
    /\ ledger' = IF JobOf(w).kind = "scrub" /\ work[w].cause = "denied"
                 THEN Released ELSE ledger

\* finishJob for a job that lost its gate: only the job ends.
Aborted(w) ==
    /\ jobs' = Ended(work[w].job, "failed")
    /\ UNCHANGED <<target, ledger>>

Retried(w) ==
    /\ Accepted(w)
    /\ jobs' = Ended(work[w].job, "queued")
    /\ target' = [target EXCEPT !.status = "failed"]
    /\ UNCHANGED ledger

Succeeded(w) ==
    /\ Accepted(w)
    /\ jobs' = Ended(work[w].job, "succeeded")
    /\ target' = [target EXCEPT !.status = "converged", !.active = 0,
                                !.rev = IF work[w].rev = 0 THEN @ ELSE work[w].rev]
    /\ UNCHANGED ledger

\* Retry, Fail and Succeed: only the worker that holds the job's lease settles it.
Settle(w) ==
    LET c == work[w].cause
    IN /\ work[w].pc = "settle"
       /\ Step(w, Idle)
       /\ IF JobOf(w).owner = w /\ (c = "superseded" \/ Accepted(w))
          THEN CASE c = "superseded" -> Aborted(w)
                 [] c = "retry" -> Retried(w)
                 [] c = "ok" -> Succeeded(w)
                 [] c \in {"denied", "unauthorized"} -> Failed(w)
          ELSE UNCHANGED <<jobs, target, ledger>>
       /\ UNCHANGED <<ops, head, lease, open, conflicts, world, faults, history>>

-----------------------------------------------------------------------------
(* The provider, the clock and the processes *)

Answers(q, answer) ==
    IF q.awaited
    THEN Step(q.effect.worker,
              [work[q.effect.worker] EXCEPT !.pc = "finish", !.answer = answer])
    ELSE UNCHANGED work

\* What a request does: it creates a name, or changes or deletes one that is there.
Does(q) ==
    LET there == provider[q.effect.name] # 0
    IN \/ q.method = "put"
       \/ q.method = "post" /\ ~there
       \/ q.method \in {"patch", "delete"} /\ there

Apply(q) ==
    /\ provider' = IF Does(q) THEN [provider EXCEPT ![q.effect.name] =
                                      IF q.method = "delete" THEN 0 ELSE q.rev]
                   ELSE provider
    /\ applied' = IF Does(q) /\ q.effect.job > applied THEN q.effect.job ELSE applied

\* The provider handles a request while its client waits for it, or its lease does; its
\* answer may be lost.
Handle(q) ==
    LET says == IF Does(q) THEN "ok" ELSE IF q.method = "post" THEN "conflict" ELSE "notfound"
    IN /\ wire' = wire \ {q}
       /\ Apply(q)
       /\ \/ Answers(q, says) /\ UNCHANGED faults
          \/ Answers(q, "unknown") /\ Fault
       /\ UNCHANGED <<ops, head, store, adrift, history>>

\* A request fails without an effect: lost, refused or not authenticated.
Miss(q) ==
    /\ Fault
    /\ wire' = wire \ {q}
    /\ \E answer \in {"unknown", "refused", "denied"} : Answers(q, answer)
    /\ UNCHANGED <<ops, head, store, provider, adrift, applied, history>>

\* The client's deadline passes, or the client is gone already: the attempt goes on with
\* an unknown outcome, the request does too.
Linger(q) ==
    /\ IF q.awaited THEN Fault ELSE UNCHANGED faults
    /\ wire' = wire \ {q}
    /\ adrift' = adrift \cup {q}
    /\ Answers(q, "unknown")
    /\ UNCHANGED <<ops, head, store, provider, applied, history>>

\* The provider handles a request its client gave up on.
Land(q) ==
    LET reached == IF Does(q) THEN {q.effect.name} ELSE {}
    IN /\ adrift' = adrift \ {q}
       /\ Apply(q)
       /\ late' = late \cup reached
       /\ loose' = loose \cup reached
       /\ UNCHANGED <<ops, head, store, wire, work, faults, licensed>>

\* Somebody else creates a name.
Intrude(n) ==
    /\ provider[n] = 0
    /\ provider' = [provider EXCEPT ![n] = Foreign]
    /\ UNCHANGED <<ops, head, store, wire, adrift, applied, work, faults, history>>

Late(e) ==
    /\ \A q \in wire : q.effect # e
    /\ Stalls \/ work[e.worker].job # e.job \/ work[e.worker].pc = "idle"

Holds(g) == lease.effect # None /\ lease.effect.job = g /\ lease.effect.worker = jobs[g].owner

\* Prepare sets the job's lease and the provider's to the same time.
LapseJob(g) ==
    /\ jobs[g].state = "running" /\ jobs[g].live
    /\ Stalls \/ work[jobs[g].owner].job # g
    /\ Holds(g) => Late(lease.effect)
    /\ jobs' = [jobs EXCEPT ![g].live = FALSE]
    /\ lease' = IF Holds(g) THEN [lease EXCEPT !.live = FALSE] ELSE lease
    /\ UNCHANGED <<ops, head, target, ledger, open, conflicts, world, work, faults, history>>

LapseProvider ==
    /\ Busy /\ Late(lease.effect)
    /\ ~(Holds(lease.effect.job) /\ jobs[lease.effect.job].live)
    /\ lease' = [lease EXCEPT !.live = FALSE]
    /\ UNCHANGED <<ops, head, target, jobs, ledger, open, conflicts, world, work, faults, history>>

Crash(w) ==
    /\ work[w] # Idle /\ Fault
    /\ Step(w, Idle)
    /\ wire' = {[q EXCEPT !.awaited = @ /\ q.effect.worker # w] : q \in wire}
    /\ UNCHANGED <<ops, head, store, provider, adrift, applied, history>>

-----------------------------------------------------------------------------

Operate ==
    \/ "publish" \in ops /\ Publish
    \/ "manual" \in ops /\ Manual
    \/ "pause" \in ops /\ (Pause \/ Resume)
    \/ "adopt" \in ops /\ \E n \in Name : Adopt(n)
    \/ "teardown" \in ops /\ \E keepRemote \in BOOLEAN : Teardown(keepRemote)
    \/ "credential" \in ops /\ (ReplaceCredential \/ RevokeCredential)

Attempt(w) ==
    \/ Load(w) \/ List(w) \/ Reserve(w) \/ Refuse(w) \/ Prepare(w) \/ Send(w)
    \/ Finish(w) \/ ReleaseReservation(w) \/ Settle(w) \/ GateFails(w)

Next ==
    \/ Operate
    \/ \E w \in Worker : Attempt(w) \/ Crash(w) \/ \E g \in Gens : Claim(w, g)
    \/ \E q \in wire : Handle(q) \/ Miss(q) \/ ("linger" \in ops /\ Linger(q))
    \/ \E q \in adrift : Land(q)
    \/ "intrude" \in ops /\ \E n \in Name : Intrude(n)
    \/ \E g \in Gens : LapseJob(g)
    \/ LapseProvider

Spec == Init /\ [][Next]_vars

-----------------------------------------------------------------------------
(* Properties *)

\* One provider write per target at a time, and the provider lease names it: a publish,
\* a reclaimed job or a second worker never sends a request beside one that is on the
\* wire.  A request is on the wire until it is handled or its client gives up on it (the
\* deadline of 15 seconds, then an explicitly unknown outcome); one given up on may be
\* handled beside a later one.
OneWriteInFlight == \A q \in wire : lease = [effect |-> q.effect, live |-> TRUE]

\* What a name holds changes only by somebody else, by a request of a goal no older than
\* any applied before, or by a request its client had given up on.  The last is the one way
\* in which a slow push of revision N can restore stale values over revision N+1 or a scrub.
NewestWins ==
    [][\A n \in Name : provider'[n] # provider[n] =>
          \/ provider'[n] = Foreign
          \/ \E q \in wire \ wire' : q.effect.name = n /\ q.effect.job >= applied
          \/ \E q \in adrift \ adrift' : q.effect.name = n]_vars

\* A target that shows converged at revision N has N's value under every name of N, and
\* nothing of its own under any other, whatever attempts were cut short before.  It excepts
\* the names to which a request was applied that its client had given up on, and in the
\* second half those an attempt wrote by a ledger row that was gone by then.
ConvergedMeansWritten ==
    target.state = "active" /\ target.status = "converged" =>
        /\ \A n \in Contents[target.rev] \ late : provider[n] = target.rev
        /\ \A n \in Name \ (Contents[target.rev] \cup loose) : provider[n] \notin Revs

\* The target never disowns a value it wrote: while it is active, what it wrote is owned
\* or presumed written in the ledger, through lost answers, crashes and supersedes,
\* provided that the ledger still held the name when the write was prepared and that no
\* request its client had given up on was applied to the name.
NeverDisowned ==
    target.state = "active" =>
        \A n \in Name \ loose : provider[n] \in Revs => ledger[n] \in Held

\* A scrub that succeeded left nothing of the target at the provider, not even by a
\* request of the job it superseded, under the same provisos.
ScrubLeavesNothing ==
    (\E g \in Gens : jobs[g].kind = "scrub" /\ jobs[g].state = "succeeded") =>
        \A n \in Name \ loose : provider[n] \notin Revs /\ ledger[n] \notin Held

\* A variable somebody else created is overwritten or deleted only after an operator
\* adopted the name or an attempt of the target's own on it ended without an answer: a
\* reservation alone gives no right at the provider.  The same provisos.
ForeignKept ==
    [][\A n \in Name \ (Secrets \cup loose') :
          provider[n] = Foreign /\ provider'[n] # Foreign => n \in licensed]_vars

\* As documented: a publish enqueues the target's converge.  It fails when the job the
\* target calls active has already ended.
PublishNotBlocked == target.state = "active" /\ ~target.paused => CanSupersede
=============================================================================
