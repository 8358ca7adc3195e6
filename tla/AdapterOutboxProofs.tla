------------------------ MODULE AdapterOutboxProofs ------------------------
(***************************************************************************)
(* Proofs about AdapterOutbox, for every set of workers, names and         *)
(* revisions, every plan and every bound.                                  *)
(***************************************************************************)
EXTENDS AdapterOutbox, WellFoundedInduction, TLAPS

-----------------------------------------------------------------------------
(* The inductive invariant *)

\* Own: the effect a worker has prepared.
Intends(w) == work[w].pc \in {"prepared", "wait", "finish"}
Own(w) == EffectOf(w, Row(w))

\* RunOK: where an attempt stands fits what it has left to do.
TodoOK(a) ==
    /\ a.phase = "write" => \A n \in a.todo : Wanted(a, n)
    /\ a.phase = "release" => a.todo \subseteq Reservations(a)
    /\ a.phase = "delete" => a.todo \subseteq Undesired(a) \ Reservations(a)
PhaseOK(a) ==
    /\ a.pc \in {"row", "reserved", "release", "delete", "prepared", "wait", "finish"}
         => a.todo # {}
    /\ a.pc \in {"claimed", "list", "row", "reserved"} => a.phase = "write"
    /\ a.pc = "release" => a.phase = "release"
    /\ a.pc = "delete" => a.phase = "delete"
    /\ a.pc \in {"prepared", "wait", "finish"} => a.phase # "release"
SeenOK(a) ==
    /\ \A n \in Name : a.seen[n] # "released"
    /\ \/ a.pc = "reserved"
       \/ a.pc \in {"prepared", "wait", "finish"} /\ a.phase = "write"
       => a.seen[Min(a.todo)] # "absent"
EndOK(a) ==
    /\ a.pc = "finish" => a.answer \in Answer
    /\ a.pc = "finish" /\ a.answer = "unsent" => a.cause \in Cause \ {"ok"}
    /\ a.pc = "settle" => a.cause \in Cause
    /\ a.pc = "settle" /\ a.cause = "ok" =>
         /\ a.todo = {}
         /\ a.phase = "delete" \/ \A n \in Name : a.seen[n] \in Held => Wanted(a, n)
Loaded(a) == a.pc \notin {"idle", "claimed"} /\ ~(a.pc = "settle" /\ a.cause # "ok")

Fits(a) == TodoOK(a) /\ PhaseOK(a) /\ SeenOK(a) /\ EndOK(a)

RunOK(w) ==
    LET a == work[w]
    IN /\ Fits(a)
       /\ IF a.pc = "idle" THEN a.job = 0 ELSE a.job \in 1..target.gen
       /\ Loaded(a) => (a.rev = 0 <=> jobs[a.job].kind = "scrub")

RunsOK == \A w \in Worker : RunOK(w)

\* One job of the target runs at a time; the scrub is the last.
JobsOK ==
    /\ \A g \in Gens : jobs[g].owner # None <=> jobs[g].state = "running"
    /\ \A g \in Gens : jobs[g].live => jobs[g].state = "running"
    /\ \A g, h \in Gens : jobs[g].live /\ jobs[h].live => g = h
    /\ \A g \in Gens : g > target.gen => jobs[g] = NoJob
    /\ \A g \in Gens : jobs[g].kind = "scrub" => g = target.gen /\ target.state = "tombstoned"
    /\ target.state = "tombstoned" /\ jobs[target.gen].state # "none"
         => jobs[target.gen].kind = "scrub"
    /\ target.active <= target.gen

\* A recorded request belongs to a job that is not due; as long as the job is live, so is
\* the provider lease of the request it has prepared.
LeaseOK ==
    /\ lease.effect # None =>
         LET j == jobs[lease.effect.job]
         IN /\ lease.effect \in open
            /\ j.state \notin {"none", "queued"}
            /\ j.state = "running" =>
                 j.owner = lease.effect.worker /\ (lease.live => j.live)
    /\ \A w \in Worker : work[w].pc = "prepared" /\ JobOf(w).owner = w /\ JobOf(w).live
         => lease = [effect |-> Own(w), live |-> TRUE]

\* The request on the wire: one, recorded, and known to the attempt that waits for it.
WireOK ==
    /\ OneWriteInFlight
    /\ \A q, r \in wire : q = r
    /\ \A q \in wire, w \in Worker : work[w].pc \in {"prepared", "finish"} => Own(w) # q.effect
    /\ \A q \in wire :
         LET w == q.effect.worker
         IN /\ work[w].job = q.effect.job => q.awaited
            /\ q.awaited => /\ work[w].pc = "wait" /\ Own(w) = q.effect
                            /\ q.rev = work[w].rev
                            /\ q.method = Method(work[w], q.effect.name)
            /\ q.method = "put" => q.effect.name \in Secrets
            /\ applied <= q.effect.job /\ q.effect.job <= target.gen
    /\ applied <= target.gen
    /\ \A r \in adrift : r.effect.job <= target.gen /\ \A q \in wire : r.effect.job <= q.effect.job

FlightInv == TypeOK /\ RunsOK /\ JobsOK /\ LeaseOK /\ WireOK

\* The target still answers for its names: it is active, or its scrub has not failed.
Managed ==
    \/ target.state = "active"
    \/ /\ jobs[target.gen].kind = "scrub"
       /\ jobs[target.gen].state \in {"queued", "running", "succeeded"}

\* What the ledger and an answer tell about the provider.
LeasedIsHeld ==
    lease.effect # None /\ lease.effect.name \notin loose => ledger[lease.effect.name] \in Held
WrittenIsHeld ==
    Managed => \A n \in Name \ loose : provider[n] \in Revs => ledger[n] \in Held
NewIsUnwritten ==
    Managed => \A w \in Worker :
        LET a == work[w]
            n == Row(w)
        IN /\ Intends(w) /\ a.phase = "write" /\ a.seen[n] = "reserved"
           /\ lease.effect = Own(w) /\ n \notin loose
           /\ a.pc = "finish" => a.answer \notin {"ok", "unknown"}
           => provider[n] \notin Revs
AnswerTells ==
    \A w \in Worker :
        LET a == work[w]
            n == Row(w)
        IN a.pc = "finish" /\ lease.effect = Own(w) =>
           /\ a.answer = "notfound" /\ n \notin late => provider[n] \notin Revs
           /\ a.answer = "ok" /\ n \notin late =>
                IF a.phase = "delete" THEN provider[n] \notin Revs ELSE provider[n] = a.rev
           /\ a.answer = "conflict" => a.phase = "write" /\ a.seen[n] = "reserved"

LedgerInv == LeasedIsHeld /\ WrittenIsHeld /\ NewIsUnwritten /\ AnswerTells

\* The names an attempt has written, and those it leaves without a value of the target's.
Written(a) == {n \in Name : Wanted(a, n) /\ (a.phase = "write" => n \notin a.todo)}
Clean(a) == {n \in Name : ~Wanted(a, n)
                          /\ (a.seen[n] \notin Held \/ (a.phase = "delete" /\ n \notin a.todo))}
Current(w) == Loaded(work[w]) /\ target.gen = work[w].job /\ JobOf(w).owner = w

DoneStays ==
    \A w \in Worker : Current(w) =>
        /\ \A n \in Written(work[w]) \ late : provider[n] = work[w].rev
        /\ \A n \in Clean(work[w]) \ loose : provider[n] \notin Revs /\ ledger[n] \notin Held
\* A request that a predecessor has still recorded is not for a name the attempt is done with.
PredecessorApart ==
    \A w \in Worker : Current(w) /\ lease.effect # None /\ lease.effect.job # work[w].job =>
        /\ lease.effect.name \notin Written(work[w])
        /\ lease.effect.name \notin Clean(work[w]) \ loose
Converged ==
    target.state = "active" /\ target.status = "converged" =>
        /\ jobs[target.gen].state \in {"succeeded", "none"} /\ lease.effect = None
        /\ target.rev \in Revs
Scrubbed ==
    \A g \in Gens : jobs[g].kind = "scrub" /\ jobs[g].state = "succeeded" => lease.effect = None

GoalInv == /\ DoneStays /\ PredecessorApart /\ Converged /\ ConvergedMeansWritten
           /\ Scrubbed /\ ScrubLeavesNothing

\* A variable the target holds and did not find there is licensed, or an attempt on it
\* has not ended.
InDoubt ==
    \A n \in Name \ (Secrets \cup loose) : ledger[n] \in Held /\ provider[n] \notin Revs =>
        n \in licensed \/ \E e \in open : e.name = n
Serves(w) == work[w].pc # "idle" /\ target.gen = work[w].job /\ JobOf(w).owner = w
OthersLicensed ==
    \A w \in Worker : Serves(w) => \A e \in open : e = lease.effect \/ e.name \in licensed
Licit(n) == n \in Secrets \cup loose \cup licensed \/ provider[n] \in Revs
RequestsLicit ==
    /\ \A q \in wire : q.method \in {"patch", "delete"} => Licit(q.effect.name)
    /\ \A w \in Worker :
         LET a == work[w]
         IN /\ \/ a.pc = "prepared"
               \/ a.pc = "finish" /\ a.answer \in {"unsent", "refused", "denied"}
            /\ lease.effect = Own(w) /\ a.seen[Row(w)] \in Held
            => Licit(Row(w))

ForeignInv == InDoubt /\ OthersLicensed /\ RequestsLicit

OutboxInv == FlightInv /\ LedgerInv /\ GoalInv /\ ForeignInv

-----------------------------------------------------------------------------
(* Constants, names and records *)

LEMMA Consts ==
    /\ Len(Contents) \in Nat \ {0} /\ Revs \subseteq Nat \ {0} /\ Foreign \in Nat
    /\ Foreign \notin Revs /\ Foreign # 0 /\ 0 \notin Revs /\ Revs \subseteq 0..Foreign
    /\ Revs \subseteq 0..Len(Contents)
    /\ \A r \in Revs : Contents[r] \in SUBSET Name
    /\ Gens \subseteq Nat \ {0} /\ 1 \in Gens
    /\ None \notin Worker /\ None \notin Effect
    /\ Name \subseteq Nat /\ Secrets \subseteq Name
  <1>1. /\ Contents \in Seq(SUBSET Name) /\ Contents # <<>> /\ MaxGen \in Nat \ {0}
        /\ None \notin Worker /\ None \notin Effect /\ Name \subseteq Nat /\ Secrets \subseteq Name
    BY AdapterOutboxAssumption
  <1>2. Len(Contents) \in Nat \ {0} /\ \A r \in 1..Len(Contents) : Contents[r] \in SUBSET Name
    BY <1>1
  <1>. QED
    BY <1>1, <1>2 DEF Revs, Foreign, Gens

\* A set of names has a first one.
LEMMA FirstName ==
    ASSUME NEW T \in SUBSET Name, T # {}
    PROVE  Min(T) \in T
  <1>. DEFINE R == OpToRel(<, Nat)
  <1>0. T \in SUBSET Nat
    BY Consts
  <1>1. \A x, y \in Nat : x < y => <<x, y>> \in R
    BY DEF OpToRel
  <1>2. IsWellFoundedOn(R, Nat)
    BY NatLessThanWellFounded
  <1>. HIDE DEF R
  <1>3. PICK x \in T : \A y \in T : ~(<<y, x>> \in R)
    BY <1>0, <1>2, WFMin
  <1>4. ASSUME NEW y \in T PROVE x <= y
    <2>1. x \in Nat /\ y \in Nat /\ ~(<<y, x>> \in R)
      BY <1>0, <1>3
    <2>2. ~(y < x)
      BY <1>1, <2>1, Zenon
    <2>. QED
      BY <2>1, <2>2
  <1>. QED
    BY <1>4 DEF Min

LEMMA IdleFits == Idle \in Run /\ NoJob \in Job /\ NoLease \in [effect : Effect \cup {None}, live : BOOLEAN]
  <1>1. 0 \in 0..MaxGen /\ 0 \in 0..Len(Contents)
    BY Consts, AdapterOutboxAssumption
  <1>2. [n \in Name |-> "absent"] \in [Name -> Rows]
    BY DEF Rows
  <1>. QED
    BY <1>1, <1>2 DEF Idle, Run, NoJob, Job, NoLease

\* What the state's shape says of one attempt.
LEMMA RunFacts ==
    ASSUME FlightInv, NEW w \in Worker
    PROVE  /\ work[w] \in Run /\ RunOK(w)
           /\ work[w].pc # "idle" => work[w].job \in Gens /\ jobs[work[w].job] \in Job
           /\ work[w].todo # {} => /\ Row(w) \in work[w].todo /\ Row(w) \in Name
                                   /\ work[w].seen[Row(w)] \in Rows
           /\ work[w].pc # "idle" /\ work[w].todo # {} => Own(w) \in Effect
  <1>1. work[w] \in Run /\ RunOK(w) /\ target.gen \in Gens /\ jobs \in [Gens -> Job]
    BY DEF FlightInv, TypeOK, RunsOK
  <1>2. work[w].pc # "idle" => work[w].job \in Gens /\ jobs[work[w].job] \in Job
    <2>1. 1..target.gen \subseteq Gens
      BY <1>1, AdapterOutboxAssumption DEF Gens
    <2>. QED
      BY <1>1, <2>1 DEF RunOK
  <1>3. work[w].todo \subseteq Name /\ work[w].seen \in [Name -> Rows]
    BY <1>1 DEF Run
  <1>4. work[w].todo # {} => /\ Row(w) \in work[w].todo /\ Row(w) \in Name
                             /\ work[w].seen[Row(w)] \in Rows
    BY <1>3, FirstName DEF Row
  <1>5. work[w].pc # "idle" /\ work[w].todo # {} => Own(w) \in Effect
    BY <1>2, <1>4 DEF Own, EffectOf, Effect
  <1>. QED
    BY <1>1, <1>2, <1>4, <1>5

\* A step of one attempt leaves the others alone.
LEMMA StepFacts ==
    ASSUME TypeOK, NEW w \in Worker, NEW b \in Run, Step(w, b)
    PROVE  /\ work' \in [Worker -> Run] /\ work'[w] = b
           /\ \A v \in Worker : v # w => work'[v] = work[v]
  <1>1. work \in [Worker -> Run]
    BY DEF TypeOK
  <1>. QED
    BY <1>1 DEF Step

\* The names an attempt wants depend on its revision and the ledger it loaded.
LEMMA SameNames ==
    ASSUME NEW a, NEW b, b.rev = a.rev, b.seen = a.seen
    PROVE  /\ Undesired(b) = Undesired(a) /\ Reservations(b) = Reservations(a)
           /\ \A n : Wanted(b, n) <=> Wanted(a, n)
  <1>1. \A n : Wanted(b, n) <=> Wanted(a, n)
    BY DEF Wanted
  <1>2. Undesired(b) = Undesired(a)
    BY <1>1 DEF Undesired
  <1>. QED
    BY <1>1, <1>2 DEF Reservations

\* Onward keeps what is done and starts what is left.
LEMMA OnwardFits ==
    ASSUME NEW a \in Run, TodoOK(a), \A n \in Name : a.seen[n] # "released"
    PROVE  /\ Onward(a) \in Run /\ Fits(Onward(a))
           /\ Onward(a).pc \in {"row", "release", "delete", "settle"} /\ Loaded(Onward(a))
           /\ Onward(a).job = a.job /\ Onward(a).rev = a.rev
           /\ Written(Onward(a)) = Written(a) /\ Clean(Onward(a)) = Clean(a)
  <1>. DEFINE prunes == Undesired(a) \ Reservations(a)
  <1>. DEFINE b == Onward(a)
  <1>0. /\ a.phase \in {"write", "release", "delete"} /\ a.todo \in SUBSET Name
        /\ a.seen \in [Name -> Rows]
    BY DEF Run
  <1>1. /\ Undesired(a) \in SUBSET Name /\ Reservations(a) \in SUBSET Name /\ prunes \in SUBSET Name
        /\ \A n \in Name : n \in prunes <=> ~Wanted(a, n) /\ a.seen[n] \in Held
        /\ \A n \in Reservations(a) : ~Wanted(a, n) /\ a.seen[n] \notin Held
    BY <1>0 DEF Undesired, Reservations, Held, Rows
  <1>2. CASE a.todo # {}
    <2>. DEFINE p == IF a.phase = "write" THEN "row" ELSE a.phase
    <2>1. b = [a EXCEPT !.pc = p]
      BY <1>0, <1>2 DEF Onward
    <2>a. p \in {"row", "release", "delete"} /\ (p = "row" <=> a.phase = "write")
          /\ (p # "row" => p = a.phase)
      BY <1>0
    <2>. HIDE DEF b, p
    <2>2. b \in Run
      BY <2>1, <2>a DEF Run
    <2>3. /\ b.pc = p /\ b.job = a.job /\ b.rev = a.rev /\ b.seen = a.seen /\ b.todo = a.todo
          /\ b.phase = a.phase
      BY <2>1, <2>a DEF Run
    <2>b. /\ Undesired(b) = Undesired(a) /\ Reservations(b) = Reservations(a)
          /\ \A n : Wanted(b, n) <=> Wanted(a, n)
      BY <2>3, SameNames
    <2>4. Fits(b)
      BY <1>2, <2>3, <2>a, <2>b DEF Fits, TodoOK, PhaseOK, SeenOK, EndOK
    <2>5. Written(b) = Written(a) /\ Clean(b) = Clean(a)
      BY <2>3, <2>b DEF Written, Clean
    <2>6. Loaded(b)
      BY <2>3, <2>a DEF Loaded
    <2>. QED
      BY <2>2, <2>3, <2>4, <2>5, <2>6, <2>a DEF b
  <1>3. ASSUME NEW f \in {"release", "delete"}, NEW t \in SUBSET Name, t # {}, a.todo = {},
               b = [a EXCEPT !.pc = f, !.phase = f, !.todo = t],
               IF f = "release" THEN t = Reservations(a) /\ a.phase = "write"
               ELSE t = prunes /\ a.phase # "delete"
        PROVE  /\ b \in Run /\ Fits(b) /\ b.pc \in {"row", "release", "delete", "settle"}
               /\ Loaded(b) /\ b.job = a.job /\ b.rev = a.rev
               /\ Written(b) = Written(a) /\ Clean(b) = Clean(a)
    <2>1. b = [a EXCEPT !.pc = f, !.phase = f, !.todo = t]
      BY <1>3
    <2>. HIDE DEF b
    <2>2. b \in Run
      BY <2>1 DEF Run
    <2>3. /\ b.pc = f /\ b.job = a.job /\ b.rev = a.rev /\ b.seen = a.seen /\ b.todo = t
          /\ b.phase = f
      BY <2>1 DEF Run
    <2>b. /\ Undesired(b) = Undesired(a) /\ Reservations(b) = Reservations(a)
          /\ \A n : Wanted(b, n) <=> Wanted(a, n)
      BY <2>3, SameNames
    <2>4. Fits(b)
      BY <1>3, <2>3, <2>b DEF Fits, TodoOK, PhaseOK, SeenOK, EndOK
    <2>5. Written(b) = Written(a)
      BY <1>3, <2>3, <2>b DEF Written
    <2>6. Clean(b) = Clean(a)
      <3>1. CASE f = "release"
        BY <1>3, <2>3, <3>1, <2>b DEF Clean
      <3>2. CASE f = "delete"
        <4>1. \A n \in Name : n \in Clean(b) <=> n \in Clean(a)
          BY <1>1, <1>3, <2>3, <3>2, <2>b DEF Clean
        <4>. QED
          BY <4>1 DEF Clean
      <3>. QED
        BY <3>1, <3>2
    <2>7. Loaded(b)
      BY <2>3 DEF Loaded
    <2>. QED
      BY <2>2, <2>3, <2>4, <2>5, <2>6, <2>7
  <1>4. CASE a.todo = {} /\ a.phase = "write" /\ Reservations(a) # {}
    <2>1. b = [a EXCEPT !.pc = "release", !.phase = "release", !.todo = Reservations(a)]
      BY <1>4 DEF Onward
    <2>. HIDE DEF b
    <2>. QED
      BY <1>1, <1>3, <1>4, <2>1 DEF b
  <1>5. CASE /\ a.todo = {} /\ ~(a.phase = "write" /\ Reservations(a) # {})
             /\ a.phase # "delete" /\ prunes # {}
    <2>1. b = [a EXCEPT !.pc = "delete", !.phase = "delete", !.todo = prunes]
      BY <1>5 DEF Onward
    <2>. HIDE DEF b
    <2>. QED
      BY <1>1, <1>3, <1>5, <2>1 DEF b
  <1>6. CASE /\ a.todo = {} /\ ~(a.phase = "write" /\ Reservations(a) # {})
             /\ ~(a.phase # "delete" /\ prunes # {})
    <2>1. b = [a EXCEPT !.pc = "settle", !.cause = "ok"]
      BY <1>6 DEF Onward
    <2>. HIDE DEF b
    <2>2. b \in Run
      BY <2>1 DEF Cause, Run
    <2>3. /\ b.pc = "settle" /\ b.cause = "ok" /\ b.job = a.job /\ b.rev = a.rev
          /\ b.seen = a.seen /\ b.todo = a.todo /\ b.phase = a.phase
      BY <2>1 DEF Run
    <2>b. /\ Undesired(b) = Undesired(a) /\ Reservations(b) = Reservations(a)
          /\ \A n : Wanted(b, n) <=> Wanted(a, n)
      BY <2>3, SameNames
    <2>4. a.phase = "delete" \/ \A n \in Name : a.seen[n] \in Held => Wanted(a, n)
      BY <1>1, <1>6
    <2>5. Fits(b)
      BY <1>6, <2>3, <2>4, <2>b DEF Fits, TodoOK, PhaseOK, SeenOK, EndOK, Cause
    <2>6. Written(b) = Written(a) /\ Clean(b) = Clean(a)
      BY <2>3, <2>b DEF Written, Clean
    <2>7. Loaded(b)
      BY <2>3 DEF Loaded
    <2>. QED
      BY <2>2, <2>3, <2>5, <2>6, <2>7 DEF b
  <1>. QED
    BY <1>2, <1>4, <1>5, <1>6

-----------------------------------------------------------------------------
(* One request at a time *)

\* The generation does not fall and a job keeps its kind.
Ahead == /\ target'.gen \in Gens /\ target'.gen >= target.gen
         /\ \A g \in 1..target.gen : jobs'[g].kind = jobs[g].kind

LEMMA RunKept ==
    ASSUME FlightInv, NEW v \in Worker, work'[v] = work[v], Ahead
    PROVE  RunOK(v)'
  <1>1. RunOK(v) /\ target.gen \in Nat /\ target'.gen \in Nat
    BY Consts DEF FlightInv, TypeOK, RunsOK, Ahead
  <1>. QED
    BY <1>1 DEF RunOK, Ahead, Loaded

LEMMA SameAhead ==
    ASSUME FlightInv, UNCHANGED <<target, jobs>>
    PROVE  Ahead
  <1>1. target.gen \in Gens /\ target.gen \in Nat
    BY Consts DEF FlightInv, TypeOK
  <1>. QED
    BY <1>1 DEF Ahead

\* One attempt moves beside the unchanged others.
Moved(w) == /\ work' \in [Worker -> Run]
            /\ \A v \in Worker : v # w => work'[v] = work[v]

\* An attempt moves on, and neither the wire nor the leases are touched.
LEMMA QuietStep ==
    ASSUME FlightInv, NEW w \in Worker, NEW b, Moved(w), work'[w] = b, Fits(b),
           work[w].pc # "wait", b.pc \notin {"prepared", "wait", "finish"},
           IF b.pc = "idle" THEN b.job = 0 ELSE b.job = work[w].job /\ work[w].pc # "idle",
           Loaded(b) => (b.rev = 0 <=> jobs[b.job].kind = "scrub"),
           UNCHANGED <<target, jobs, lease, open, wire, adrift, applied>>
    PROVE  RunsOK' /\ JobsOK' /\ LeaseOK' /\ WireOK'
  <1>0. TypeOK /\ RunsOK /\ JobsOK /\ LeaseOK /\ WireOK
    BY DEF FlightInv
  <1>1. /\ work'[w] = b
        /\ \A v \in Worker : v # w => work'[v] = work[v]
    BY DEF Moved
  <1>2. RunsOK'
    <2>1. \A v \in Worker : v # w => RunOK(v)'
      BY <1>1, RunKept, SameAhead
    <2>2. RunOK(w)'
      BY <1>0, <1>1 DEF RunOK, RunsOK
    <2>. QED
      BY <2>1, <2>2 DEF RunsOK
  <1>3. JobsOK'
    BY <1>0 DEF JobsOK
  <1>4. LeaseOK'
    <2>1. \A v \in Worker : work'[v].pc = "prepared" => v # w /\ work'[v] = work[v]
      BY <1>1
    <2>. QED
      BY <1>0, <2>1 DEF LeaseOK, JobOf, Own, EffectOf, Row
  <1>5. WireOK'
    <2>1. \A v \in Worker : work'[v].pc \in {"prepared", "finish"} => v # w /\ work'[v] = work[v]
      BY <1>1
    <2>2. ASSUME NEW q \in wire, q.effect.worker # w
          PROVE  work'[q.effect.worker] = work[q.effect.worker]
      <3>1. q.effect.worker \in Worker
        BY <1>0 DEF TypeOK, Request, Effect
      <3>. QED
        BY <1>1, <2>2, <3>1
    <2>3. ASSUME NEW q \in wire, q.effect.worker = w
          PROVE  ~q.awaited /\ work'[w].job # q.effect.job
      <3>1. q.effect.job \in Gens
        BY <1>0 DEF TypeOK, Request, Effect
      <3>2. ~q.awaited /\ work[w].job # q.effect.job
        BY <1>0, <2>3 DEF WireOK
      <3>. QED
        BY <1>1, <3>1, <3>2, Consts
    <2>4. \A q \in wire, v \in Worker : work'[v].pc \in {"prepared", "finish"} => Own(v)' # q.effect
      BY <1>0, <2>1 DEF WireOK, Own, EffectOf, Row
    <2>5. \A q \in wire :
            /\ work'[q.effect.worker].job = q.effect.job => q.awaited
            /\ q.awaited => /\ work'[q.effect.worker].pc = "wait"
                            /\ Own(q.effect.worker)' = q.effect
                            /\ q.rev = work'[q.effect.worker].rev
                            /\ q.method = Method(work'[q.effect.worker], q.effect.name)
      BY <1>0, <2>2, <2>3 DEF WireOK, Own, EffectOf, Row
    <2>. QED
      BY <1>0, <2>4, <2>5 DEF WireOK, OneWriteInFlight
  <1>. QED
    BY <1>2, <1>3, <1>4, <1>5

Target == [gen : Gens, state : {"active", "tombstoned"}, paused : BOOLEAN,
           active : 0..MaxGen, status : {"converging", "converged", "failed"},
           rev : 0..Len(Contents), cred : BOOLEAN]

\* A new goal: the generation rises, the job it replaces ends, and the lease of a request
\* that is on the wire stays.
NewGoal ==
    /\ target.state = "active"
    /\ target' \in Target /\ target'.gen = target.gen + 1 /\ target'.active <= target'.gen
    /\ jobs' \in [Gens -> Job]
    /\ \A g \in Gens : g <= target.gen =>
         \/ jobs'[g] = jobs[g]
         \/ /\ jobs'[g].kind = jobs[g].kind /\ jobs'[g].state = "superseded"
            /\ jobs'[g].owner = None /\ ~jobs'[g].live
    /\ \A g \in Gens : g > target.gen + 1 => jobs'[g] = jobs[g]
    /\ LET j == jobs'[target.gen + 1]
       IN /\ j.owner = None /\ ~j.live /\ j.state \in {"none", "queued"}
          /\ j.kind = "scrub" => target'.state = "tombstoned"
          /\ target'.state = "tombstoned" /\ j.state # "none" => j.kind = "scrub"
    /\ lease' = lease \/ (lease' = NoLease /\ ~Busy)
    /\ UNCHANGED <<work, wire, adrift, open, applied, provider>>

LEMMA GoalStep ==
    ASSUME FlightInv, NewGoal
    PROVE  RunsOK' /\ JobsOK' /\ LeaseOK' /\ WireOK'
  <1>0. TypeOK /\ RunsOK /\ JobsOK /\ LeaseOK /\ WireOK
    BY DEF FlightInv
  <1>. USE DEF NewGoal
  <1>a. /\ target.gen \in Gens /\ target'.gen \in Gens /\ target.gen \in Nat
        /\ Gens \subseteq Nat
    BY <1>0, Consts DEF TypeOK, Target
  <1>b. \A g \in Gens : g <= target.gen \/ g = target.gen + 1 \/ g > target.gen + 1
    <2>1. ASSUME NEW g \in Nat, NEW h \in Nat PROVE g <= h \/ g = h + 1 \/ g > h + 1
      OBVIOUS
    <2>. HIDE DEF NewGoal
    <2>. QED
      BY <1>a, <2>1
  <1>1. Ahead
    <2>1. \A g \in 1..target.gen : g \in Gens /\ g <= target.gen
      BY <1>a, AdapterOutboxAssumption DEF Gens
    <2>. QED
      BY <1>a, <2>1 DEF Ahead
  <1>2. RunsOK'
    BY <1>1, RunKept DEF RunsOK
  <1>3. JobsOK'
    <2>1. \A g \in Gens : jobs[g].kind # "scrub"
      BY <1>0 DEF JobsOK
    <2>2. \A g \in Gens : g > target.gen + 1 => jobs[g] = NoJob
      BY <1>0, <1>a DEF JobsOK
    <2>3. \A g \in Gens : jobs'[g].owner # None <=> jobs'[g].state = "running"
      BY <1>0, <1>b DEF JobsOK
    <2>4. \A g \in Gens : jobs'[g].live => jobs'[g].state = "running" /\ jobs[g].live
      BY <1>0, <1>b, <2>2 DEF JobsOK, NoJob
    <2>5. \A g \in Gens : jobs'[g].kind = "scrub" => g = target.gen + 1
      BY <1>b, <2>1
    <2>. QED
      BY <1>0, <1>a, <2>2, <2>3, <2>4, <2>5 DEF JobsOK
  <1>4. LeaseOK'
    <2>1. ASSUME lease' # NoLease, lease.effect # None
          PROVE  /\ lease.effect.job \in Gens /\ lease.effect.job <= target.gen
                 /\ lease' = lease
      <3>1. lease.effect.job \in Gens /\ lease' = lease
        BY <1>0, <2>1 DEF TypeOK, Effect
      <3>2. jobs[lease.effect.job].state # "none"
        BY <1>0, <2>1 DEF LeaseOK
      <3>3. ~(lease.effect.job > target.gen)
        BY <1>0, <3>1, <3>2 DEF JobsOK, NoJob
      <3>4. lease.effect.job \in Nat
        BY <1>a, <3>1
      <3>. QED
        BY <1>a, <3>1, <3>3, <3>4
    <2>2. ASSUME lease'.effect # None
          PROVE  LET j == jobs'[lease'.effect.job]
                 IN /\ lease'.effect \in open'
                    /\ j.state \notin {"none", "queued"}
                    /\ j.state = "running" =>
                         j.owner = lease'.effect.worker /\ (lease'.live => j.live)
      <3>1. lease' # NoLease
        BY <2>2 DEF NoLease
      <3>. QED
        BY <1>0, <2>1, <2>2, <3>1 DEF LeaseOK
    <2>3. ASSUME NEW v \in Worker, work[v].pc = "prepared", jobs'[work[v].job].owner = v,
                 jobs'[work[v].job].live
          PROVE  lease' = [effect |-> Own(v), live |-> TRUE]
      <3>1. work[v].job \in Gens /\ work[v].job <= target.gen
        <4>1. work[v].job \in 1..target.gen
          BY <1>0, <2>3 DEF RunsOK, RunOK
        <4>. QED
          BY <1>a, <4>1, AdapterOutboxAssumption DEF Gens
      <3>2. jobs'[work[v].job] = jobs[work[v].job]
        BY <2>3, <3>1
      <3>3. lease = [effect |-> Own(v), live |-> TRUE]
        BY <1>0, <2>3, <3>2 DEF LeaseOK, JobOf
      <3>4. Own(v) # None
        <4>1. Own(v) \in Effect
          BY <2>3, RunFacts DEF RunOK, Fits, PhaseOK
        <4>. QED
          BY <4>1, Consts
      <3>. QED
        BY <3>3, <3>4 DEF Busy
    <2>. QED
      BY <2>2, <2>3 DEF LeaseOK, JobOf, Own, EffectOf, Row
  <1>5. WireOK'
    <2>1. lease' = lease \/ wire = {}
      <3>1. ASSUME NEW q \in wire PROVE Busy
        <4>1. q.effect \in Effect /\ lease = [effect |-> q.effect, live |-> TRUE]
          BY <1>0 DEF TypeOK, Request, WireOK, OneWriteInFlight
        <4>. QED
          BY <4>1, Consts DEF Busy
      <3>. QED
        BY <3>1
    <2>2. \A q \in wire : q.effect.job \in Nat
      BY <1>0, <1>a DEF TypeOK, Request, Effect
    <2>3. applied \in Nat
      BY <1>0, Consts DEF TypeOK
    <2>4. \A q \in wire : applied <= q.effect.job /\ q.effect.job <= target'.gen
      BY <1>0, <1>a, <2>2 DEF WireOK
    <2>5. applied <= target'.gen
      BY <1>0, <1>a, <2>3 DEF WireOK
    <2>6. \A r \in adrift : r.effect.job <= target'.gen
      <3>1. \A r \in adrift : r.effect.job \in Nat /\ r.effect.job <= target.gen
        BY <1>0, <1>a DEF TypeOK, Request, Effect, WireOK
      <3>. QED
        BY <1>a, <3>1
    <2>. QED
      BY <1>0, <2>1, <2>4, <2>5, <2>6 DEF WireOK, OneWriteInFlight, Own, EffectOf, Row
  <1>. QED
    BY <1>2, <1>3, <1>4, <1>5

\* The operators' acts set a new goal; a publish that finds the target paused or gone
\* changes nothing of the target.
SameGoods ==
    /\ UNCHANGED <<ledger, licensed, loose, late>> /\ target'.state = target.state
    /\ \/ target'.status = "converging"
       \/ /\ target'.status = target.status /\ target'.rev = target.rev
          /\ jobs'[target.gen + 1].state = "none"
Adopted ==
    \E n \in Name :
        /\ ledger[n] = "absent" /\ ledger' = [ledger EXCEPT ![n] = "owned"]
        /\ licensed' = licensed \cup {n} /\ UNCHANGED <<loose, late>>
        /\ target'.state = target.state /\ target'.status = "converging" /\ lease' = NoLease
TornDown ==
    /\ target'.state = "tombstoned" /\ lease' = NoLease /\ UNCHANGED <<licensed, loose, late>>
    /\ IF jobs'[target.gen + 1].kind = "scrub"
       THEN ledger' = ledger ELSE ledger' = Released /\ jobs'[target.gen + 1].state = "none"

LEMMA SupersedingFacts ==
    ASSUME FlightInv
    PROVE  /\ Superseding \in [Gens -> Job]
           /\ \A g \in Gens : \/ Superseding[g] = jobs[g]
                              \/ /\ Superseding[g].kind = jobs[g].kind
                                 /\ Superseding[g].state = "superseded"
                                 /\ Superseding[g].owner = None /\ ~Superseding[g].live
           /\ \A g \in Gens : g > target.gen => Superseding[g] = NoJob
  <1>0. jobs \in [Gens -> Job] /\ target \in Target /\ JobsOK
    BY DEF FlightInv, TypeOK, Target
  <1>1. CASE Unfinished(target.active)
    <2>. DEFINE a == target.active
    <2>. DEFINE j == [jobs[a] EXCEPT !.state = "superseded", !.owner = None, !.live = FALSE]
    <2>1. a \in Gens /\ a <= target.gen
      <3>1. a \in 0..MaxGen /\ a # 0 /\ a <= target.gen
        BY <1>0, <1>1 DEF Target, Unfinished, JobsOK
      <3>. QED
        BY <3>1, AdapterOutboxAssumption DEF Gens
    <2>2. jobs[a] \in Job
      BY <1>0, <2>1
    <2>3. j \in Job /\ j.kind = jobs[a].kind /\ j.state = "superseded" /\ j.owner = None /\ ~j.live
      BY <2>2 DEF Job
    <2>4. Superseding = [jobs EXCEPT ![a] = j]
      BY <1>1 DEF Superseding, Ended
    <2>. HIDE DEF j
    <2>5. Superseding \in [Gens -> Job]
      BY <1>0, <2>3, <2>4
    <2>6. \A g \in Gens : Superseding[g] = IF g = a THEN j ELSE jobs[g]
      BY <1>0, <2>4
    <2>7. ASSUME NEW g \in Gens, g > target.gen PROVE Superseding[g] = NoJob
      <3>1. target.gen \in Nat /\ g \in Nat /\ a \in Nat
        BY <1>0, <2>1, Consts DEF Target
      <3>2. g # a
        BY <2>1, <2>7, <3>1
      <3>3. jobs[g] = NoJob
        BY <1>0, <2>7 DEF JobsOK
      <3>. QED
        BY <2>6, <3>2, <3>3
    <2>. QED
      BY <2>3, <2>5, <2>6, <2>7
  <1>2. CASE ~Unfinished(target.active)
    BY <1>0, <1>2 DEF Superseding, JobsOK
  <1>. QED
    BY <1>1, <1>2

\* The generation after an act that raises it.
LEMMA NextGen ==
    ASSUME FlightInv, target.gen < MaxGen
    PROVE  /\ target.gen + 1 \in Gens /\ target.gen \in Nat
           /\ \A g \in Gens : g \in Nat
           /\ target \in Target
  <1>1. target.gen \in Gens /\ target \in Target
    BY DEF FlightInv, TypeOK, Target
  <1>. QED
    BY <1>1, Consts, AdapterOutboxAssumption DEF Gens

\* Enqueue: the jobs and the row it leaves.
LEMMA EnqueueFacts ==
    ASSUME FlightInv, target.state = "active", NEW row \in Target, NEW kind \in {"converge", "scrub"},
           Enqueue(kind, row), kind = "scrub" <=> row.state = "tombstoned",
           lease' = lease \/ (lease' = NoLease /\ ~Busy),
           UNCHANGED <<work, wire, adrift, open, applied, provider>>
    PROVE  /\ NewGoal /\ target'.status = "converging" /\ target'.state = row.state
           /\ jobs'[target.gen + 1].kind = kind
  <1>0. target.gen < MaxGen
    BY DEF Enqueue
  <1>1. /\ target.gen + 1 \in Gens /\ target.gen \in Nat /\ \A g \in Gens : g \in Nat
    BY <1>0, NextGen
  <1>. DEFINE h == target.gen + 1
  <1>. DEFINE j == [NoJob EXCEPT !.kind = kind, !.state = "queued"]
  <1>2. j \in Job /\ j.kind = kind /\ j.state = "queued" /\ j.owner = None /\ ~j.live
    BY DEF NoJob, Job
  <1>3. /\ jobs' = [Superseding EXCEPT ![h] = j]
        /\ target' = [row EXCEPT !.gen = h, !.status = "converging", !.active = h]
    BY DEF Enqueue
  <1>4. h \in Gens /\ h \in 0..MaxGen
    BY <1>1, AdapterOutboxAssumption DEF Gens
  <1>5. /\ h > target.gen /\ \A g \in Gens : g <= target.gen \/ g > h => g # h
        /\ \A g \in Gens : g > h => g > target.gen
    BY <1>1
  <1>. HIDE DEF h, j
  <1>6. /\ target' \in Target /\ target'.gen = h /\ target'.active = h
        /\ target'.status = "converging" /\ target'.state = row.state
    BY <1>3, <1>4 DEF Target
  <1>7. jobs' \in [Gens -> Job] /\ jobs'[h] = j /\ \A g \in Gens : g # h => jobs'[g] = Superseding[g]
    BY <1>2, <1>3, <1>4, SupersedingFacts
  <1>8. \A g \in Gens : g > target.gen => jobs[g] = NoJob
    BY DEF FlightInv, JobsOK
  <1>9. target'.active <= target'.gen
    BY <1>1, <1>4, <1>6, Consts
  <1>. QED
    BY <1>2, <1>5, <1>6, <1>7, <1>8, <1>9, SupersedingFacts DEF NewGoal, h

LEMMA OperateFacts ==
    ASSUME FlightInv, Operate
    PROVE  \/ UNCHANGED <<target, jobs, lease, ledger, open, world, work, history>>
           \/ NewGoal /\ (SameGoods \/ Adopted \/ TornDown)
  <1>. DEFINE Facts == \/ UNCHANGED <<target, jobs, lease, ledger, open, world, work, history>>
                       \/ NewGoal /\ (SameGoods \/ Adopted \/ TornDown)
  <1>. SUFFICES Facts
    OBVIOUS
  <1>0. target \in Target
    BY DEF FlightInv, TypeOK, Target
  <1>1. CASE Publish
    <2>1. CASE target.state = "active" /\ ~target.paused
      <3>1. Enqueue("converge", target) /\ UNCHANGED <<lease, ledger, open, world, work, history>>
        BY <1>1, <2>1 DEF Publish
      <3>2. NewGoal /\ target'.status = "converging" /\ target'.state = target.state
        BY <1>0, <2>1, <3>1, EnqueueFacts DEF world
      <3>. QED
        BY <3>1, <3>2 DEF SameGoods, history
    <2>2. CASE ~(target.state = "active" /\ ~target.paused)
      BY <1>1, <2>2 DEF Publish
    <2>. QED
      BY <2>1, <2>2
  <1>2. CASE Manual
    <2>1. /\ Enqueue("converge", target) /\ UNCHANGED <<lease, ledger, open, world, work, history>>
          /\ target.state = "active"
      BY <1>2 DEF Manual
    <2>2. NewGoal /\ target'.status = "converging" /\ target'.state = target.state
      BY <1>0, <2>1, EnqueueFacts DEF world
    <2>. QED
      BY <2>1, <2>2 DEF SameGoods, history
  <1>3. CASE Resume
    <2>. DEFINE row == [target EXCEPT !.paused = FALSE]
    <2>1. /\ Enqueue("converge", row) /\ UNCHANGED <<lease, ledger, open, world, work, history>>
          /\ target.state = "active"
      BY <1>3 DEF Resume
    <2>2. row \in Target /\ row.state = "active"
      BY <1>0, <2>1 DEF Target
    <2>. HIDE DEF row
    <2>3. NewGoal /\ target'.status = "converging" /\ target'.state = target.state
      BY <2>1, <2>2, EnqueueFacts DEF world
    <2>. QED
      BY <2>1, <2>3 DEF SameGoods, history
  <1>4. CASE Pause
    <2>1. /\ target.state = "active" /\ ~Busy /\ target.gen < MaxGen /\ jobs' = Superseding
          /\ lease' = NoLease /\ UNCHANGED <<ledger, open, world, work, history>>
      BY <1>4 DEF Pause
    <2>2. target.gen + 1 \in Gens /\ target.gen \in Nat /\ \A g \in Gens : g \in Nat
      BY <2>1, NextGen
    <2>3. /\ target' \in Target /\ target'.gen = target.gen + 1 /\ target'.active = 0
          /\ target'.status = target.status /\ target'.rev = target.rev
          /\ target'.state = target.state
      <3>. DEFINE h == target.gen + 1
      <3>1. target' = [target EXCEPT !.paused = TRUE, !.gen = h, !.active = 0]
        BY <1>4 DEF Pause
      <3>2. h \in Gens /\ 0 \in 0..MaxGen
        BY <2>2, AdapterOutboxAssumption
      <3>. HIDE DEF h
      <3>3. /\ target' \in Target /\ target'.gen = h /\ target'.active = 0
            /\ target'.status = target.status /\ target'.rev = target.rev
            /\ target'.state = target.state
        BY <1>0, <3>1, <3>2 DEF Target
      <3>. QED
        BY <3>3 DEF h
    <2>4. /\ \A g \in Gens : g > target.gen => jobs'[g] = NoJob /\ jobs[g] = NoJob
          /\ target.gen + 1 > target.gen /\ target'.active <= target'.gen
          /\ \A g \in Gens : g > target.gen + 1 => g > target.gen
      BY <2>1, <2>2, <2>3, SupersedingFacts DEF FlightInv, JobsOK
    <2>5. jobs'[target.gen + 1] = NoJob
      BY <2>2, <2>4
    <2>6. NewGoal
      BY <2>1, <2>2, <2>3, <2>4, <2>5, SupersedingFacts DEF NewGoal, NoJob, world
    <2>. QED
      BY <2>1, <2>3, <2>5, <2>6 DEF SameGoods, NoJob, history
  <1>5. ASSUME NEW n \in Name, Adopt(n) PROVE Facts
    <2>1. /\ Enqueue("converge", target) /\ UNCHANGED <<open, world, work, loose, late>>
          /\ target.state = "active" /\ ~Busy /\ lease' = NoLease
          /\ ledger[n] = "absent" /\ ledger' = [ledger EXCEPT ![n] = "owned"]
          /\ licensed' = licensed \cup {n}
      BY <1>5 DEF Adopt
    <2>2. NewGoal /\ target'.status = "converging" /\ target'.state = target.state
      BY <1>0, <2>1, EnqueueFacts DEF world
    <2>3. Adopted
      BY <2>1, <2>2 DEF Adopted
    <2>. QED
      BY <2>2, <2>3
  <1>6. CASE Teardown(FALSE)
    <2>. DEFINE row == [target EXCEPT !.state = "tombstoned"]
    <2>1. /\ Enqueue("scrub", row) /\ UNCHANGED <<ledger, open, world, work, history>>
          /\ target.state = "active" /\ ~Busy /\ lease' = NoLease
      BY <1>6 DEF Teardown
    <2>2. row \in Target /\ row.state = "tombstoned"
      BY <1>0 DEF Target
    <2>. HIDE DEF row
    <2>3. NewGoal /\ target'.state = "tombstoned" /\ jobs'[target.gen + 1].kind = "scrub"
      BY <2>1, <2>2, EnqueueFacts DEF world
    <2>. QED
      BY <2>1, <2>3 DEF TornDown, history
  <1>7. CASE Teardown(TRUE)
    <2>1. /\ target.state = "active" /\ ~Busy /\ target.gen < MaxGen /\ jobs' = Superseding
          /\ lease' = NoLease /\ ledger' = Released /\ UNCHANGED <<open, world, work, history>>
      BY <1>7 DEF Teardown
    <2>2. target.gen + 1 \in Gens /\ target.gen \in Nat /\ \A g \in Gens : g \in Nat
      BY <2>1, NextGen
    <2>3. /\ target' \in Target /\ target'.gen = target.gen + 1 /\ target'.active = 0
          /\ target'.state = "tombstoned"
      <3>. DEFINE h == target.gen + 1
      <3>1. target' = [target EXCEPT !.gen = h, !.state = "tombstoned", !.status = "converged",
                                     !.active = 0]
        BY <1>7 DEF Teardown
      <3>2. h \in Gens /\ 0 \in 0..MaxGen
        BY <2>2, AdapterOutboxAssumption
      <3>. HIDE DEF h
      <3>3. /\ target' \in Target /\ target'.gen = h /\ target'.active = 0
            /\ target'.state = "tombstoned"
        BY <1>0, <3>1, <3>2 DEF Target
      <3>. QED
        BY <3>3 DEF h
    <2>4. /\ \A g \in Gens : g > target.gen => jobs'[g] = NoJob /\ jobs[g] = NoJob
          /\ target.gen + 1 > target.gen /\ target'.active <= target'.gen
          /\ \A g \in Gens : g > target.gen + 1 => g > target.gen
      BY <2>1, <2>2, <2>3, SupersedingFacts DEF FlightInv, JobsOK
    <2>5. jobs'[target.gen + 1] = NoJob
      BY <2>2, <2>4
    <2>6. NewGoal
      BY <2>1, <2>2, <2>3, <2>4, <2>5, SupersedingFacts DEF NewGoal, NoJob, world
    <2>. QED
      BY <2>1, <2>3, <2>5, <2>6 DEF TornDown, NoJob, history
  <1>8. CASE ReplaceCredential \/ RevokeCredential
    <2>1. /\ target.state = "active" /\ target.gen < MaxGen
          /\ lease' = lease \/ (lease' = NoLease /\ ~Busy)
          /\ UNCHANGED <<jobs, ledger, open, world, work, history>>
      BY <1>8 DEF ReplaceCredential, RevokeCredential
    <2>2. target.gen + 1 \in Gens /\ target.gen \in Nat /\ \A g \in Gens : g \in Nat
      BY <2>1, NextGen
    <2>3. /\ target' \in Target /\ target'.gen = target.gen + 1 /\ target'.active = target.active
          /\ target'.status = target.status /\ target'.rev = target.rev
          /\ target'.state = target.state
      <3>. DEFINE h == target.gen + 1
      <3>1. PICK c \in BOOLEAN : target' = [target EXCEPT !.cred = c, !.gen = h]
        BY <1>8 DEF ReplaceCredential, RevokeCredential
      <3>2. h \in Gens
        BY <2>2
      <3>. HIDE DEF h
      <3>3. /\ target' \in Target /\ target'.gen = h /\ target'.active = target.active
            /\ target'.status = target.status /\ target'.rev = target.rev
            /\ target'.state = target.state
        BY <1>0, <3>1, <3>2 DEF Target
      <3>. QED
        BY <3>3 DEF h
    <2>4. /\ \A g \in Gens : g > target.gen => jobs[g] = NoJob
          /\ target.gen + 1 > target.gen
          /\ \A g \in Gens : g > target.gen + 1 => g > target.gen
      BY <2>2 DEF FlightInv, JobsOK
    <2>5. jobs[target.gen + 1] = NoJob
      BY <2>2, <2>4
    <2>6. target'.active <= target'.gen
      <3>1. target.active \in Nat /\ target.active <= target.gen
        BY <1>0 DEF Target, FlightInv, JobsOK
      <3>. QED
        BY <2>2, <2>3, <3>1
    <2>7. jobs \in [Gens -> Job]
      BY DEF FlightInv, TypeOK
    <2>8. NewGoal
      BY <2>1, <2>2, <2>3, <2>4, <2>5, <2>6, <2>7 DEF NewGoal, NoJob, world
    <2>. QED
      BY <2>1, <2>3, <2>5, <2>8 DEF SameGoods, NoJob, history
  <1>. QED
    BY <1>1, <1>2, <1>3, <1>4, <1>5, <1>6, <1>7, <1>8 DEF Operate

-----------------------------------------------------------------------------
(* The steps of an attempt that neither write the journal nor send *)

LEMMA FaultFits == ASSUME TypeOK, Fault PROVE faults' \in 0..MaxFaults
  BY AdapterOutboxAssumption DEF TypeOK, Fault

LEMMA QuietType ==
    ASSUME TypeOK, work' \in [Worker -> Run], ledger' \in [Name -> Rows],
           conflicts' \subseteq Gens \X Name, faults' \in 0..MaxFaults,
           UNCHANGED <<ops, head, target, jobs, lease, open, world, history>>
    PROVE  TypeOK'
  BY DEF TypeOK, world, history

\* An attempt that gives up keeps nothing of its plan.
Ending(a, c) == [a EXCEPT !.pc = "settle", !.cause = c]

LEMMA EndFits ==
    ASSUME NEW a \in Run, TodoOK(a), \A n \in Name : a.seen[n] # "released",
           NEW c \in Cause \ {"ok"}
    PROVE  /\ Ending(a, c) \in Run /\ Fits(Ending(a, c)) /\ ~Loaded(Ending(a, c))
           /\ Ending(a, c).pc = "settle" /\ Ending(a, c).cause = c /\ Ending(a, c).job = a.job
  <1>. DEFINE b == Ending(a, c)
  <1>1. b \in Run
    BY DEF Run, Ending
  <1>2. /\ b.pc = "settle" /\ b.cause = c /\ b.job = a.job /\ b.rev = a.rev
        /\ b.seen = a.seen /\ b.todo = a.todo /\ b.phase = a.phase
    BY DEF Run, Ending
  <1>. HIDE DEF b
  <1>3. /\ Undesired(b) = Undesired(a) /\ Reservations(b) = Reservations(a)
        /\ \A n : Wanted(b, n) <=> Wanted(a, n)
    BY <1>2, SameNames
  <1>4. Fits(b)
    BY <1>2, <1>3 DEF Fits, TodoOK, PhaseOK, SeenOK, EndOK
  <1>. QED
    BY <1>1, <1>2, <1>4 DEF Loaded, b

\* An attempt gives up, or goes on with what it has done and what it has left.
GaveUp(w) == /\ Moved(w) /\ work'[w].pc = "settle" /\ ~Loaded(work'[w])
             /\ work'[w].job = work[w].job /\ Fits(work'[w])
GoesOn(w) ==
    LET b == work'[w]
    IN /\ Moved(w) /\ Fits(b) /\ Loaded(b) /\ b.job = work[w].job /\ b.rev = work[w].rev
       /\ b.pc \notin {"idle", "prepared", "wait", "finish"}
       /\ Written(b) = Written(work[w]) /\ Clean(b) = Clean(work[w])

LEMMA EndStep ==
    ASSUME FlightInv, NEW w \in Worker, NEW c \in Cause \ {"ok"}, End(w, c)
    PROVE  GaveUp(w)
  <1>. DEFINE b == Ending(work[w], c)
  <1>1. work[w] \in Run /\ RunOK(w)
    BY RunFacts
  <1>2. TodoOK(work[w]) /\ \A n \in Name : work[w].seen[n] # "released"
    BY <1>1 DEF RunOK, Fits, SeenOK
  <1>3. Step(w, b)
    BY DEF End, Ending
  <1>4. /\ b \in Run /\ Fits(b) /\ b.pc = "settle" /\ b.job = work[w].job /\ ~Loaded(b)
    BY <1>1, <1>2, EndFits
  <1>. HIDE DEF b
  <1>. QED
    BY <1>3, <1>4, StepFacts DEF FlightInv, GaveUp, Moved

\* Load takes the newest revision and the ledger's rows.
Loads(w) ==
    LET b == work'[w]
    IN /\ Moved(w) /\ b.pc = "list" /\ b.job = work[w].job /\ b.phase = "write" /\ Fits(b)
       /\ b.rev \in 0..Len(Contents)
       /\ b.rev # 0 => b.rev = head
       /\ b.rev = 0 <=> JobOf(w).kind = "scrub"
       /\ b.todo = IF b.rev = 0 THEN {} ELSE Contents[b.rev]
       /\ \A n \in Name : b.seen[n] = IF ledger[n] = "released" THEN "absent" ELSE ledger[n]

LEMMA LoadStep ==
    ASSUME FlightInv, NEW w \in Worker, Load(w)
    PROVE  GaveUp(w) \/ Loads(w)
  <1>1. CASE ~target.cred
    <2>1. End(w, "denied")
      BY <1>1 DEF Load
    <2>. QED
      BY <2>1, EndStep DEF Cause
  <1>2. CASE target.cred
    <2>. DEFINE r == IF JobOf(w).kind = "scrub" THEN 0 ELSE head
    <2>. DEFINE s == [n \in Name |-> IF ledger[n] = "released" THEN "absent" ELSE ledger[n]]
    <2>. DEFINE t == IF r = 0 THEN {} ELSE Contents[r]
    <2>. DEFINE b == [work[w] EXCEPT !.pc = "list", !.rev = r, !.todo = t, !.seen = s]
    <2>1. Step(w, b)
      BY <1>2 DEF Load
    <2>2. head \in Revs /\ ledger \in [Name -> Rows]
      BY DEF FlightInv, TypeOK
    <2>3. /\ r \in 0..Len(Contents) /\ (r # 0 => r = head) /\ (r = 0 <=> JobOf(w).kind = "scrub")
          /\ t \in SUBSET Name
      BY <2>2, Consts
    <2>4. /\ s \in [Name -> Rows] /\ \A n \in Name : s[n] # "released"
          /\ \A n \in Name : s[n] = IF ledger[n] = "released" THEN "absent" ELSE ledger[n]
      BY <2>2 DEF Rows
    <2>5. work[w] \in Run /\ work[w].phase = "write"
      BY RunFacts DEF RunOK, Fits, PhaseOK, Load
    <2>6. t = IF r = 0 THEN {} ELSE Contents[r]
      OBVIOUS
    <2>. HIDE DEF r, s, t
    <2>7. b \in Run
      BY <2>3, <2>4, <2>5 DEF Run
    <2>8. /\ b.pc = "list" /\ b.rev = r /\ b.todo = t /\ b.seen = s /\ b.phase = "write"
          /\ b.job = work[w].job
      BY <2>5 DEF Run
    <2>. HIDE DEF b
    <2>9. Fits(b)
      BY <2>3, <2>4, <2>6, <2>8 DEF Fits, TodoOK, PhaseOK, SeenOK, EndOK, Wanted
    <2>10. Moved(w) /\ work'[w] = b
      BY <2>1, <2>7, StepFacts DEF FlightInv, Moved
    <2>11. Loads(w)
      BY <2>3, <2>4, <2>6, <2>8, <2>9, <2>10 DEF Loads
    <2>. QED
      BY <2>11
  <1>. QED
    BY <1>1, <1>2

\* A quiet step of an attempt: no row of the ledger is gained or given up.
Quiet(w) ==
    /\ GaveUp(w) \/ (GoesOn(w) /\ Loaded(work[w]))
    /\ work[w].pc \notin {"idle", "wait"}
    /\ ledger' \in [Name -> Rows]
    /\ \A n \in Name : ledger'[n] \in Held <=> ledger[n] \in Held
    /\ conflicts' \subseteq Gens \X Name /\ faults' \in 0..MaxFaults
    /\ UNCHANGED <<ops, head, target, jobs, lease, open, world, history>>

LEMMA QuietFlight ==
    ASSUME FlightInv, NEW w \in Worker, Quiet(w)
    PROVE  FlightInv'
  <1>. DEFINE b == work'[w]
  <1>1. Moved(w) /\ Fits(b) /\ b.job = work[w].job
        /\ b.pc \notin {"idle", "prepared", "wait", "finish"}
    BY DEF Quiet, GaveUp, GoesOn
  <1>2. Loaded(b) => (b.rev = 0 <=> jobs[b.job].kind = "scrub")
    <2>1. CASE GaveUp(w)
      BY <2>1 DEF GaveUp
    <2>2. CASE GoesOn(w) /\ Loaded(work[w])
      <3>1. RunOK(w)
        BY RunFacts
      <3>. QED
        BY <2>2, <3>1 DEF GoesOn, RunOK
    <2>. QED
      BY <2>1, <2>2 DEF Quiet
  <1>3. UNCHANGED <<target, jobs, lease, open, wire, adrift, applied>>
    BY DEF Quiet, world
  <1>4. work[w].pc # "wait" /\ work[w].pc # "idle"
    BY DEF Quiet
  <1>. HIDE DEF b
  <1>5. RunsOK' /\ JobsOK' /\ LeaseOK' /\ WireOK'
    BY <1>1, <1>2, <1>3, <1>4, QuietStep DEF b
  <1>6. TypeOK'
    BY <1>1, QuietType DEF Quiet, FlightInv, Moved
  <1>. QED
    BY <1>5, <1>6 DEF FlightInv

LEMMA LoadFlight ==
    ASSUME FlightInv, NEW w \in Worker, Load(w)
    PROVE  FlightInv'
  <1>0. /\ UNCHANGED <<ops, head, store, world, faults, history>> /\ work[w].pc = "claimed"
    BY DEF Load
  <1>1. TypeOK
    BY DEF FlightInv
  <1>2. CASE GaveUp(w)
    <2>1. Quiet(w)
      BY <1>0, <1>1, <1>2 DEF Quiet, TypeOK, store
    <2>. QED
      BY <2>1, QuietFlight
  <1>3. CASE Loads(w)
    <2>. DEFINE b == work'[w]
    <2>1. Moved(w) /\ Fits(b) /\ b.job = work[w].job /\ b.pc = "list"
          /\ (b.rev = 0 <=> jobs[b.job].kind = "scrub")
      BY <1>3 DEF Loads, JobOf
    <2>. HIDE DEF b
    <2>2. RunsOK' /\ JobsOK' /\ LeaseOK' /\ WireOK'
      BY <1>0, <2>1, QuietStep DEF store, world, b
    <2>3. TypeOK'
      BY <1>0, <1>1, <2>1, QuietType DEF Moved, store, TypeOK
    <2>. QED
      BY <2>2, <2>3 DEF FlightInv
  <1>. QED
    BY <1>2, <1>3, LoadStep

LEMMA ListQuiet ==
    ASSUME FlightInv, NEW w \in Worker, List(w)
    PROVE  Quiet(w)
  <1>0. /\ UNCHANGED <<ops, head, store, world, history>> /\ work[w].pc = "list" /\ TypeOK
        /\ work[w] \in Run /\ RunOK(w)
    BY RunFacts DEF List, FlightInv
  <1>1. CASE Fault /\ \E cause \in {"retry", "denied"} : End(w, cause)
    <2>1. GaveUp(w) /\ faults' \in 0..MaxFaults
      BY <1>0, <1>1, EndStep, FaultFits DEF Cause
    <2>. QED
      BY <1>0, <2>1 DEF Quiet, store, TypeOK
  <1>2. CASE /\ Step(w, Onward([work[w] EXCEPT !.listed = {n \in Secrets : provider[n] # 0}]))
             /\ UNCHANGED faults
    <2>. DEFINE l == {n \in Secrets : provider[n] # 0}
    <2>. DEFINE a == [work[w] EXCEPT !.listed = l]
    <2>1. l \subseteq Name /\ Step(w, Onward(a))
      BY <1>2, Consts
    <2>. HIDE DEF l
    <2>2. /\ a \in Run /\ a.job = work[w].job /\ a.rev = work[w].rev /\ a.seen = work[w].seen
          /\ a.todo = work[w].todo /\ a.phase = work[w].phase
      BY <1>0, <2>1 DEF Run
    <2>. HIDE DEF a
    <2>3. /\ Undesired(a) = Undesired(work[w]) /\ Reservations(a) = Reservations(work[w])
          /\ \A n : Wanted(a, n) <=> Wanted(work[w], n)
      BY <2>2, SameNames
    <2>4. TodoOK(a) /\ \A n \in Name : a.seen[n] # "released"
      BY <1>0, <2>2, <2>3 DEF RunOK, Fits, TodoOK, SeenOK
    <2>5. Written(a) = Written(work[w]) /\ Clean(a) = Clean(work[w])
      BY <2>2, <2>3 DEF Written, Clean
    <2>. DEFINE b == Onward(a)
    <2>6. /\ b \in Run /\ Fits(b) /\ b.pc \in {"row", "release", "delete", "settle"} /\ Loaded(b)
          /\ b.job = a.job /\ b.rev = a.rev /\ Written(b) = Written(a) /\ Clean(b) = Clean(a)
      BY <2>2, <2>4, OnwardFits
    <2>. HIDE DEF b
    <2>7. Moved(w) /\ work'[w] = b
      BY <1>0, <2>1, <2>6, StepFacts DEF Moved, b
    <2>8. GoesOn(w)
      BY <2>2, <2>5, <2>6, <2>7 DEF GoesOn
    <2>. QED
      BY <1>0, <1>2, <2>8 DEF Quiet, store, TypeOK, Loaded
  <1>. QED
    BY <1>1, <1>2 DEF List

LEMMA ReserveQuiet ==
    ASSUME FlightInv, NEW w \in Worker, Reserve(w)
    PROVE  Quiet(w)
  <1>. DEFINE n == Row(w)
  <1>. DEFINE row == IF ledger[n] \in {"absent", "released"} THEN "reserved" ELSE ledger[n]
  <1>. DEFINE s == IF work[w].seen[n] = "absent" THEN row ELSE work[w].seen[n]
  <1>. DEFINE b == [work[w] EXCEPT !.pc = "reserved", !.seen[n] = s]
  <1>0. /\ work[w].pc = "row" /\ TypeOK /\ work[w] \in Run /\ RunOK(w)
        /\ UNCHANGED <<ops, head, target, jobs, lease, open, conflicts, world, faults, history>>
        /\ ledger' = IF work[w].seen[n] = "absent" THEN [ledger EXCEPT ![n] = row] ELSE ledger
        /\ Step(w, b)
    BY RunFacts DEF Reserve, FlightInv
  <1>1. /\ work[w].todo # {} /\ work[w].phase = "write" /\ \A m \in work[w].todo : Wanted(work[w], m)
        /\ \A m \in Name : work[w].seen[m] # "released"
    BY <1>0 DEF RunOK, Fits, PhaseOK, TodoOK, SeenOK
  <1>2. n \in work[w].todo /\ n \in Name /\ work[w].seen[n] \in Rows /\ Wanted(work[w], n)
    BY <1>1, RunFacts
  <1>3. ledger \in [Name -> Rows] /\ row \in Rows /\ row \notin {"absent", "released"}
        /\ (row \in Held <=> ledger[n] \in Held)
    BY <1>0, <1>2 DEF TypeOK, Rows, Held
  <1>4. s \in Rows \ {"absent", "released"}
    BY <1>1, <1>2, <1>3
  <1>5. ledger' \in [Name -> Rows] /\ \A m \in Name : ledger'[m] \in Held <=> ledger[m] \in Held
    <2>. HIDE DEF row
    <2>. QED
      BY <1>0, <1>2, <1>3
  <1>. HIDE DEF s, row, n
  <1>6. /\ b \in Run /\ b.pc = "reserved" /\ b.job = work[w].job /\ b.rev = work[w].rev
        /\ b.todo = work[w].todo /\ b.phase = work[w].phase
        /\ b.seen = [work[w].seen EXCEPT ![n] = s]
    BY <1>0, <1>2, <1>4 DEF Run
  <1>. HIDE DEF b
  <1>7. b.seen[n] = s /\ \A m \in Name : m # n => b.seen[m] = work[w].seen[m]
    BY <1>0, <1>2, <1>6 DEF Run
  <1>8. \A m : Wanted(b, m) <=> Wanted(work[w], m)
    BY <1>6 DEF Wanted
  <1>9. Written(b) = Written(work[w])
    BY <1>6, <1>8 DEF Written
  <1>10. Clean(b) = Clean(work[w])
    <2>1. \A m \in Name : m \in Clean(b) <=> m \in Clean(work[w])
      BY <1>2, <1>6, <1>7, <1>8 DEF Clean
    <2>. QED
      BY <2>1 DEF Clean
  <1>11. Fits(b)
    <2>1. Min(b.todo) = n
      BY <1>6 DEF n, Row
    <2>2. SeenOK(b)
      BY <1>1, <1>4, <1>6, <1>7, <2>1 DEF SeenOK
    <2>. QED
      BY <1>1, <1>6, <1>8, <2>2 DEF Fits, TodoOK, PhaseOK, EndOK
  <1>12. Moved(w) /\ work'[w] = b
    BY <1>0, <1>6, StepFacts DEF Moved
  <1>13. GoesOn(w)
    BY <1>6, <1>9, <1>10, <1>11, <1>12 DEF GoesOn, Loaded
  <1>. QED
    BY <1>0, <1>5, <1>13 DEF Quiet, TypeOK, Loaded

LEMMA RefuseQuiet ==
    ASSUME FlightInv, NEW w \in Worker, Refuse(w)
    PROVE  Quiet(w)
  <1>0. /\ work[w].pc = "reserved" /\ TypeOK /\ work[w] \in Run /\ RunOK(w)
        /\ UNCHANGED <<ops, head, target, jobs, lease, open, world, faults, history>>
    BY RunFacts DEF Refuse, FlightInv
  <1>1. Row(w) \in Name /\ work[w].job \in Gens
    BY <1>0, RunFacts DEF RunOK, Fits, PhaseOK
  <1>2. GaveUp(w)
    BY EndStep DEF Refuse, Cause
  <1>3. /\ ledger' \in [Name -> Rows] /\ \A n \in Name : ledger'[n] \in Held <=> ledger[n] \in Held
        /\ conflicts' \subseteq Gens \X Name
    BY <1>0, <1>1 DEF Refuse, TypeOK, Rows, Held
  <1>. QED
    BY <1>0, <1>2, <1>3 DEF Quiet, TypeOK

LEMMA ReleaseQuiet ==
    ASSUME FlightInv, NEW w \in Worker, ReleaseReservation(w)
    PROVE  Quiet(w)
  <1>. DEFINE n == Row(w)
  <1>0. /\ work[w].pc = "release" /\ TypeOK /\ work[w] \in Run /\ RunOK(w)
        /\ UNCHANGED <<ops, head, target, jobs, lease, open, conflicts, world, faults, history>>
    BY RunFacts DEF ReleaseReservation, FlightInv
  <1>1. CASE ledger[n] # "reserved"
    <2>1. GaveUp(w) /\ UNCHANGED ledger
      BY <1>1, EndStep DEF ReleaseReservation, Cause
    <2>. QED
      BY <1>0, <2>1 DEF Quiet, TypeOK
  <1>2. CASE ledger[n] = "reserved"
    <2>. DEFINE t == work[w].todo \ {n}
    <2>. DEFINE a == [work[w] EXCEPT !.todo = t]
    <2>1. /\ Step(w, Onward(a)) /\ ledger' = [ledger EXCEPT ![n] = "absent"]
      BY <1>2 DEF ReleaseReservation
    <2>a. /\ work[w].phase = "release" /\ work[w].todo \subseteq Reservations(work[w])
          /\ \A m \in Name : work[w].seen[m] # "released"
      BY <1>0 DEF RunOK, Fits, PhaseOK, TodoOK, SeenOK
    <2>b. n \in Name /\ t \in SUBSET Name /\ t \subseteq Reservations(work[w])
      BY <1>0, <2>a, RunFacts DEF RunOK, Fits, PhaseOK, Run
    <2>. HIDE DEF t
    <2>2. /\ a \in Run /\ a.job = work[w].job /\ a.rev = work[w].rev /\ a.seen = work[w].seen
          /\ a.todo = t /\ a.phase = "release"
      BY <1>0, <2>a, <2>b DEF Run
    <2>. HIDE DEF a
    <2>3. /\ Undesired(a) = Undesired(work[w]) /\ Reservations(a) = Reservations(work[w])
          /\ \A m : Wanted(a, m) <=> Wanted(work[w], m)
      BY <2>2, SameNames
    <2>4. TodoOK(a) /\ \A m \in Name : a.seen[m] # "released"
      BY <2>2, <2>3, <2>a, <2>b DEF TodoOK
    <2>5. Written(a) = Written(work[w]) /\ Clean(a) = Clean(work[w])
      BY <2>2, <2>3, <2>a DEF Written, Clean
    <2>. DEFINE b == Onward(a)
    <2>6. /\ b \in Run /\ Fits(b) /\ b.pc \in {"row", "release", "delete", "settle"} /\ Loaded(b)
          /\ b.job = a.job /\ b.rev = a.rev /\ Written(b) = Written(a) /\ Clean(b) = Clean(a)
      BY <2>2, <2>4, OnwardFits
    <2>. HIDE DEF b
    <2>7. Moved(w) /\ work'[w] = b
      BY <1>0, <2>1, <2>6, StepFacts DEF Moved, b
    <2>8. GoesOn(w)
      BY <2>2, <2>5, <2>6, <2>7 DEF GoesOn
    <2>9. ledger' \in [Name -> Rows] /\ \A m \in Name : ledger'[m] \in Held <=> ledger[m] \in Held
      BY <1>0, <1>2, <2>1, <2>b DEF TypeOK, Rows, Held
    <2>. QED
      BY <1>0, <2>8, <2>9 DEF Quiet, TypeOK, Loaded
  <1>. QED
    BY <1>1, <1>2

-----------------------------------------------------------------------------
(* The steps of an attempt that write the journal or send *)

\* An attempt at the same row of the same plan.
SamePlan(a, b) == /\ b.job = a.job /\ b.rev = a.rev /\ b.seen = a.seen /\ b.todo = a.todo
                  /\ b.phase = a.phase

LEMMA SamePlanFacts ==
    ASSUME NEW a, NEW b, SamePlan(a, b)
    PROVE  /\ TodoOK(a) => TodoOK(b)
           /\ Written(b) = Written(a) /\ Clean(b) = Clean(a)
           /\ \A n : Wanted(b, n) <=> Wanted(a, n)
  <1>1. /\ b.rev = a.rev /\ b.seen = a.seen /\ b.todo = a.todo /\ b.phase = a.phase
    BY DEF SamePlan
  <1>2. /\ Undesired(b) = Undesired(a) /\ Reservations(b) = Reservations(a)
        /\ \A n : Wanted(b, n) <=> Wanted(a, n)
    BY <1>1, SameNames
  <1>. QED
    BY <1>1, <1>2 DEF TodoOK, Written, Clean

\* Only the place of an attempt in its row changes.
LEMMA SamePlanStep ==
    ASSUME FlightInv, NEW w \in Worker, Moved(w), SamePlan(work[w], work'[w])
    PROVE  /\ Row(w)' = Row(w) /\ Own(w)' = Own(w)
           /\ \A v \in Worker : v # w => Row(v)' = Row(v) /\ Own(v)' = Own(v)
           /\ Written(work'[w]) = Written(work[w]) /\ Clean(work'[w]) = Clean(work[w])
           /\ TodoOK(work'[w]) /\ \A n \in Name : work'[w].seen[n] # "released"
  <1>1. RunOK(w) /\ work'[w].seen = work[w].seen
    BY RunFacts DEF SamePlan
  <1>2. Row(w)' = Row(w)
    BY DEF Row, SamePlan
  <1>3. Own(w)' = Own(w)
    BY <1>2 DEF Own, EffectOf, SamePlan
  <1>4. \A v \in Worker : v # w => Row(v)' = Row(v) /\ Own(v)' = Own(v)
    BY DEF Row, Own, EffectOf, Moved
  <1>. QED
    BY <1>1, <1>2, <1>3, <1>4, SamePlanFacts DEF RunOK, Fits, SeenOK

\* The next row of the plan is a name the attempt wants or prunes.
LEMMA RowFacts ==
    ASSUME FlightInv, NEW w \in Worker,
           work[w].pc \in {"row", "reserved", "release", "delete", "prepared", "wait", "finish"}
    PROVE  /\ work[w] \in Run /\ RunOK(w) /\ Loaded(work[w]) /\ work[w].job \in Gens
           /\ Row(w) \in work[w].todo /\ Row(w) \in Name /\ work[w].seen[Row(w)] \in Rows
           /\ Own(w) \in Effect /\ Own(w) # None
           /\ Own(w).name = Row(w) /\ Own(w).worker = w /\ Own(w).job = work[w].job
           /\ work[w].phase = "write" => Wanted(work[w], Row(w))
           /\ work[w].phase = "delete" => /\ ~Wanted(work[w], Row(w))
                                          /\ work[w].seen[Row(w)] \in Held
  <1>1. work[w] \in Run /\ RunOK(w) /\ work[w].todo # {}
    BY RunFacts DEF RunOK, Fits, PhaseOK
  <1>2. /\ work[w].job \in Gens /\ Row(w) \in work[w].todo /\ Row(w) \in Name
        /\ work[w].seen[Row(w)] \in Rows /\ Own(w) \in Effect
    BY <1>1, RunFacts
  <1>3. Own(w) # None
    BY <1>2, Consts
  <1>4. /\ Own(w).name = Row(w) /\ Own(w).worker = w /\ Own(w).job = work[w].job
    BY DEF Own, EffectOf
  <1>5. work[w].phase = "write" => Wanted(work[w], Row(w))
    BY <1>1, <1>2 DEF RunOK, Fits, TodoOK
  <1>6. work[w].phase = "delete" => /\ ~Wanted(work[w], Row(w))
                                    /\ work[w].seen[Row(w)] \in Held
    BY <1>1, <1>2 DEF RunOK, Fits, TodoOK, SeenOK, Undesired, Reservations, Rows, Held
  <1>. QED
    BY <1>1, <1>2, <1>3, <1>4, <1>5, <1>6 DEF Loaded

\* While a request is on the wire, the lease that records it is live.
LEMMA WireBusy ==
    ASSUME FlightInv, NEW q \in wire
    PROVE  /\ q.effect \in Effect /\ lease = [effect |-> q.effect, live |-> TRUE]
           /\ lease.effect # None /\ lease.live
  <1>1. q.effect \in Effect /\ lease = [effect |-> q.effect, live |-> TRUE]
    BY DEF FlightInv, TypeOK, Request, WireOK, OneWriteInFlight
  <1>. QED
    BY <1>1, Consts

\* A gate that fails after Prepare: the intent is closed unsent.
Unsent(w) ==
    LET b == work'[w]
    IN /\ Moved(w) /\ work[w].pc = "prepared" /\ SamePlan(work[w], b)
       /\ b.pc = "finish" /\ b.answer = "unsent" /\ b.cause \in Cause \ {"ok"}
       /\ faults' \in 0..MaxFaults
       /\ UNCHANGED <<ops, head, store, world, history>>

LEMMA GateFailsForm ==
    ASSUME FlightInv, NEW w \in Worker, GateFails(w)
    PROVE  Quiet(w) \/ Unsent(w)
  <1>0. /\ UNCHANGED <<ops, head, store, world, history>> /\ TypeOK /\ work[w] \in Run
        /\ work[w].pc \in {"claimed", "list", "reserved", "release", "delete", "prepared"}
    BY RunFacts DEF GateFails, FlightInv
  <1>1. PICK cause \in {"superseded", "unauthorized"} :
          /\ IF cause = "superseded" THEN ~Gate(w) /\ UNCHANGED faults ELSE Fault
          /\ IF work[w].pc = "prepared"
             THEN Step(w, [work[w] EXCEPT !.pc = "finish", !.answer = "unsent", !.cause = cause])
             ELSE End(w, cause)
    BY DEF GateFails
  <1>2. cause \in Cause \ {"ok"} /\ faults' \in 0..MaxFaults
    BY <1>0, <1>1, FaultFits DEF Cause, TypeOK
  <1>3. CASE work[w].pc # "prepared"
    <2>1. GaveUp(w)
      BY <1>1, <1>2, <1>3, EndStep
    <2>. QED
      BY <1>0, <1>2, <2>1 DEF Quiet, store, TypeOK
  <1>4. CASE work[w].pc = "prepared"
    <2>. DEFINE b == [work[w] EXCEPT !.pc = "finish", !.answer = "unsent", !.cause = cause]
    <2>1. Step(w, b)
      BY <1>1, <1>4
    <2>2. /\ b \in Run /\ SamePlan(work[w], b) /\ b.pc = "finish" /\ b.answer = "unsent"
          /\ b.cause = cause
      BY <1>0, <1>2 DEF Run, SamePlan, Answer
    <2>. HIDE DEF b
    <2>3. Moved(w) /\ work'[w] = b
      BY <1>0, <2>1, <2>2, StepFacts DEF Moved
    <2>. QED
      BY <1>0, <1>2, <1>4, <2>2, <2>3 DEF Unsent
  <1>. QED
    BY <1>3, <1>4

LEMMA UnsentFlight ==
    ASSUME FlightInv, NEW w \in Worker, Unsent(w)
    PROVE  FlightInv'
  <1>. DEFINE b == work'[w]
  <1>0. /\ TypeOK /\ RunsOK /\ JobsOK /\ LeaseOK /\ WireOK /\ Moved(w) /\ work[w].pc = "prepared"
        /\ SamePlan(work[w], b) /\ b.pc = "finish" /\ b.answer = "unsent"
        /\ b.cause \in Cause \ {"ok"} /\ faults' \in 0..MaxFaults
        /\ UNCHANGED <<ops, head, store, world, history>>
    BY DEF FlightInv, Unsent
  <1>1. /\ Own(w)' = Own(w) /\ \A v \in Worker : v # w => Own(v)' = Own(v) /\ work'[v] = work[v]
        /\ TodoOK(b) /\ \A n \in Name : b.seen[n] # "released"
    BY <1>0, SamePlanStep DEF Moved
  <1>2. TypeOK'
    BY <1>0, QuietType DEF Moved, store, TypeOK
  <1>3. RunOK(w)'
    <2>1. RunOK(w) /\ Loaded(work[w])
      BY <1>0, RowFacts
    <2>2. Fits(b)
      BY <1>0, <1>1, <2>1 DEF RunOK, Fits, PhaseOK, SeenOK, EndOK, SamePlan, Answer
    <2>. QED
      BY <1>0, <2>1, <2>2 DEF RunOK, SamePlan, store
  <1>4. RunsOK'
    BY <1>0, <1>3, RunKept, SameAhead DEF RunsOK, Moved, store
  <1>5. LeaseOK'
    <2>1. \A v \in Worker : work'[v].pc = "prepared" => v # w /\ work'[v] = work[v] /\ Own(v)' = Own(v)
      BY <1>0, <1>1
    <2>. QED
      BY <1>0, <2>1 DEF LeaseOK, JobOf, store
  <1>6. WireOK'
    <2>1. \A q \in wire : q.effect.worker \in Worker /\ q.effect.job \in Gens
      BY <1>0 DEF TypeOK, Request, Effect
    <2>2. \A q \in wire, v \in Worker : work'[v].pc \in {"prepared", "finish"} => Own(v)' # q.effect
      BY <1>0, <1>1 DEF WireOK
    <2>3. ASSUME NEW q \in wire
          PROVE  LET v == q.effect.worker
                 IN /\ work'[v].job = q.effect.job => q.awaited
                    /\ q.awaited => /\ work'[v].pc = "wait" /\ Own(v)' = q.effect
                                    /\ q.rev = work'[v].rev
                                    /\ q.method = Method(work'[v], q.effect.name)
      <3>1. CASE q.effect.worker # w
        <4>1. /\ work'[q.effect.worker] = work[q.effect.worker]
              /\ Own(q.effect.worker)' = Own(q.effect.worker)
          BY <1>1, <2>1, <3>1
        <4>. QED
          BY <1>0, <4>1 DEF WireOK
      <3>2. CASE q.effect.worker = w
        <4>1. ~q.awaited /\ work[w].job # q.effect.job
          BY <1>0, <3>2 DEF WireOK
        <4>. QED
          BY <1>0, <3>2, <4>1 DEF SamePlan
      <3>. QED
        BY <3>1, <3>2
    <2>. QED
      BY <1>0, <2>2, <2>3 DEF WireOK, OneWriteInFlight, world, store
  <1>7. JobsOK'
    BY <1>0 DEF JobsOK, store
  <1>. QED
    BY <1>2, <1>4, <1>5, <1>6, <1>7 DEF FlightInv

\* Prepare records the intent and takes the provider lease.
Prepares(w) ==
    LET b == work'[w]
        n == Row(w)
        new == work[w].phase = "write" /\ work[w].seen[n] = "reserved"
    IN /\ Moved(w) /\ work[w].pc \in {"reserved", "delete"} /\ SamePlan(work[w], b)
       /\ b.pc = "prepared" /\ Gate(w) /\ ProviderFree
       /\ lease' = [effect |-> Own(w), live |-> TRUE] /\ open' = open \cup {Own(w)}
       /\ IF new THEN ledger[n] = "reserved" /\ ledger' = [ledger EXCEPT ![n] = "dispatched"]
                 ELSE ledger' = ledger
       /\ licensed' = IF lease.effect = None THEN licensed
                      ELSE licensed \cup {lease.effect.name}
       /\ loose' = IF ~new /\ ledger[n] \notin Held THEN loose \cup {n} ELSE loose
       /\ UNCHANGED <<ops, head, target, jobs, conflicts, world, faults, late>>

LEMMA PrepareForm ==
    ASSUME FlightInv, NEW w \in Worker, Prepare(w)
    PROVE  Quiet(w) \/ Prepares(w)
  <1>. DEFINE n == Row(w)
  <1>. DEFINE a == work[w]
  <1>0. /\ TypeOK /\ a \in Run /\ RunOK(w) /\ a.pc \in {"reserved", "delete"}
        /\ Gate(w) /\ UNCHANGED <<ops, head, world, faults>>
    BY RunFacts DEF Prepare, FlightInv
  <1>1. ASSUME NEW c \in {"retry", "superseded"}, End(w, c), UNCHANGED <<store, history>>
        PROVE  Quiet(w)
    <2>1. GaveUp(w)
      BY <1>1, EndStep DEF Cause
    <2>. QED
      BY <1>0, <1>1, <2>1 DEF Quiet, store, TypeOK
  <1>2. CASE /\ ProviderFree
             /\ ~(a.pc = "reserved" /\ a.seen[n] = "reserved" /\ ledger[n] # "reserved")
    <2>. DEFINE b == [a EXCEPT !.pc = "prepared"]
    <2>1. /\ lease' = [effect |-> Own(w), live |-> TRUE] /\ open' = open \cup {Own(w)}
          /\ ledger' = IF a.pc = "reserved" /\ a.seen[n] = "reserved"
                       THEN [ledger EXCEPT ![n] = "dispatched"] ELSE ledger
          /\ Step(w, b)
          /\ licensed' = IF lease.effect = None THEN licensed
                         ELSE licensed \cup {lease.effect.name}
          /\ loose' = IF a.seen[n] # "reserved" /\ ledger[n] \notin Held
                          THEN loose \cup {n} ELSE loose
          /\ UNCHANGED <<target, jobs, conflicts, late>>
      BY <1>2 DEF Prepare, Own
    <2>2. b \in Run /\ SamePlan(a, b) /\ b.pc = "prepared"
      BY <1>0 DEF Run, SamePlan
    <2>. HIDE DEF b
    <2>3. Moved(w) /\ work'[w] = b
      BY <1>0, <2>1, <2>2, StepFacts DEF Moved
    <2>4. /\ a.pc = "reserved" <=> a.phase = "write"
          /\ a.pc = "delete" => a.seen[n] # "reserved"
      <3>1. a.pc = "reserved" => a.phase = "write"
        BY <1>0 DEF RunOK, Fits, PhaseOK
      <3>2. a.pc = "delete" => a.phase = "delete"
        BY <1>0 DEF RunOK, Fits, PhaseOK
      <3>3. a.pc = "delete" => a.seen[n] \in Held
        BY <1>0, <3>2, RowFacts
      <3>. QED
        BY <1>0, <3>1, <3>2, <3>3 DEF Held
    <2>5. Prepares(w)
      BY <1>0, <1>2, <2>1, <2>2, <2>3, <2>4 DEF Prepares
    <2>. QED
      BY <2>5
  <1>. QED
    BY <1>1, <1>2 DEF Prepare

LEMMA PrepareFlight ==
    ASSUME FlightInv, NEW w \in Worker, Prepares(w)
    PROVE  FlightInv' /\ wire = {}
  <1>. DEFINE b == work'[w]
  <1>0. /\ TypeOK /\ RunsOK /\ JobsOK /\ LeaseOK /\ WireOK /\ Moved(w)
        /\ work[w].pc \in {"reserved", "delete"}
        /\ SamePlan(work[w], b) /\ b.pc = "prepared" /\ Gate(w) /\ ProviderFree
        /\ lease' = [effect |-> Own(w), live |-> TRUE] /\ open' = open \cup {Own(w)}
        /\ UNCHANGED <<ops, head, target, jobs, conflicts, world, faults, late>>
    BY DEF FlightInv, Prepares
  <1>1. /\ Own(w)' = Own(w) /\ \A v \in Worker : v # w => Own(v)' = Own(v) /\ work'[v] = work[v]
        /\ TodoOK(b) /\ \A n \in Name : b.seen[n] # "released"
    BY <1>0, SamePlanStep DEF Moved
  <1>2. /\ RunOK(w) /\ Loaded(work[w]) /\ Row(w) \in Name /\ Own(w) \in Effect
        /\ work[w].job \in Gens /\ Own(w).job = work[w].job /\ Own(w).worker = w
    BY <1>0, RowFacts
  <1>3. wire = {}
    BY <1>0, WireBusy DEF ProviderFree
  <1>4. TypeOK'
    <2>1. ledger' \in [Name -> Rows] /\ loose' \subseteq Name /\ late' \subseteq loose'
      BY <1>0, <1>2 DEF Prepares, TypeOK, Rows
    <2>2. licensed' \subseteq Name
      BY <1>0 DEF Prepares, TypeOK, Effect
    <2>3. lease' \in [effect : Effect \cup {None}, live : BOOLEAN] /\ open' \subseteq Effect
      BY <1>0, <1>2 DEF TypeOK
    <2>. QED
      BY <1>0, <2>1, <2>2, <2>3 DEF TypeOK, Moved, world
  <1>5. RunOK(w)'
    <2>1. Fits(b)
      <3>1. Min(b.todo) = Min(work[w].todo)
        BY <1>0 DEF SamePlan
      <3>. QED
        BY <1>0, <1>1, <1>2, <3>1 DEF RunOK, Fits, PhaseOK, SeenOK, EndOK, SamePlan
    <2>. QED
      BY <1>0, <1>2, <2>1 DEF RunOK, SamePlan
  <1>6. RunsOK'
    BY <1>0, <1>5, RunKept, SameAhead DEF RunsOK, Moved
  <1>7. LeaseOK'
    <2>1. ASSUME NEW v \in Worker, v # w, work[v].pc = "prepared", JobOf(v).owner = v, JobOf(v).live
          PROVE  FALSE
      <3>1. lease = [effect |-> Own(v), live |-> TRUE]
        BY <1>0, <2>1 DEF LeaseOK
      <3>2. Own(v) # None
        BY <2>1, RowFacts
      <3>. QED
        BY <1>0, <3>1, <3>2 DEF ProviderFree
    <2>2. LET j == jobs'[lease'.effect.job]
          IN /\ lease'.effect \in open' /\ j.state \notin {"none", "queued"}
             /\ j.state = "running" => j.owner = lease'.effect.worker /\ (lease'.live => j.live)
      BY <1>0, <1>2 DEF Gate, JobOf
    <2>3. \A v \in Worker : work'[v].pc = "prepared" /\ JobOf(v)'.owner = v /\ JobOf(v)'.live => v = w
      BY <1>0, <1>1, <2>1 DEF JobOf
    <2>. QED
      BY <1>0, <1>1, <2>2, <2>3 DEF LeaseOK
  <1>8. WireOK'
    BY <1>0, <1>3 DEF WireOK, OneWriteInFlight, world
  <1>9. JobsOK'
    BY <1>0 DEF JobsOK
  <1>. QED
    BY <1>3, <1>4, <1>6, <1>7, <1>8, <1>9 DEF FlightInv

\* Send puts the prepared request on the wire.
RequestOf(w) == [effect |-> Own(w), rev |-> work[w].rev, method |-> Method(work[w], Row(w)),
                 awaited |-> TRUE]
Sends(w) ==
    LET b == work'[w]
    IN /\ Moved(w) /\ work[w].pc = "prepared" /\ SamePlan(work[w], b)
       /\ b.pc = "wait" /\ Gate(w)
       /\ lease = [effect |-> Own(w), live |-> TRUE] /\ wire = {} /\ wire' = {RequestOf(w)}
       /\ UNCHANGED <<ops, head, store, provider, adrift, applied, faults, history>>

LEMMA SendForm ==
    ASSUME FlightInv, NEW w \in Worker, Send(w)
    PROVE  Sends(w)
  <1>. DEFINE b == [work[w] EXCEPT !.pc = "wait"]
  <1>0. /\ TypeOK /\ work[w] \in Run /\ work[w].pc = "prepared" /\ Gate(w) /\ Step(w, b)
        /\ UNCHANGED <<ops, head, store, provider, adrift, applied, faults, history>>
        /\ wire' = wire \cup {RequestOf(w)} /\ LeaseOK /\ WireOK
    BY RunFacts DEF Send, FlightInv, RequestOf, Own
  <1>1. b \in Run /\ SamePlan(work[w], b) /\ b.pc = "wait"
    BY <1>0 DEF Run, SamePlan
  <1>. HIDE DEF b
  <1>2. Moved(w) /\ work'[w] = b
    BY <1>0, <1>1, StepFacts DEF Moved
  <1>3. lease = [effect |-> Own(w), live |-> TRUE]
    BY <1>0 DEF LeaseOK, Gate
  <1>4. ASSUME NEW q \in wire PROVE FALSE
    <2>1. lease = [effect |-> q.effect, live |-> TRUE]
      BY WireBusy
    <2>2. Own(w) # q.effect
      BY <1>0 DEF WireOK
    <2>. QED
      BY <1>3, <2>1, <2>2
  <1>. QED
    BY <1>0, <1>1, <1>2, <1>3, <1>4 DEF Sends

LEMMA SendFlight ==
    ASSUME FlightInv, NEW w \in Worker, Sends(w)
    PROVE  FlightInv'
  <1>. DEFINE b == work'[w]
  <1>q. PICK q : q = RequestOf(w)
    OBVIOUS
  <1>0. /\ TypeOK /\ RunsOK /\ JobsOK /\ LeaseOK /\ WireOK /\ Moved(w) /\ work[w].pc = "prepared"
        /\ SamePlan(work[w], b) /\ b.pc = "wait" /\ Gate(w)
        /\ lease = [effect |-> Own(w), live |-> TRUE] /\ wire' = {q}
        /\ UNCHANGED <<ops, head, store, provider, adrift, applied, faults, history>>
    BY <1>q DEF FlightInv, Sends
  <1>1. /\ Own(w)' = Own(w) /\ \A v \in Worker : v # w => Own(v)' = Own(v) /\ work'[v] = work[v]
        /\ TodoOK(b) /\ \A n \in Name : b.seen[n] # "released"
    BY <1>0, SamePlanStep DEF Moved
  <1>2. /\ RunOK(w) /\ Loaded(work[w]) /\ Row(w) \in Name /\ Own(w) \in Effect /\ work[w] \in Run
        /\ work[w].job \in Gens /\ Own(w).job = work[w].job /\ Own(w).worker = w
        /\ Own(w).name = Row(w)
    BY <1>0, RowFacts
  <1>3. /\ q.effect = Own(w) /\ q.rev = work[w].rev /\ q.method = Method(work[w], Row(w)) /\ q.awaited
        /\ q \in Request
    <2>1. Method(work[w], Row(w)) \in {"put", "post", "patch", "delete"}
      BY DEF Method
    <2>. QED
      BY <1>q, <1>2, <2>1 DEF RequestOf, Request, Run
  <1>4. TypeOK'
    BY <1>0, <1>3 DEF TypeOK, Moved, store, history
  <1>5. RunOK(w)'
    <2>1. Fits(b)
      <3>1. Min(b.todo) = Min(work[w].todo)
        BY <1>0 DEF SamePlan
      <3>. QED
        BY <1>0, <1>1, <1>2, <3>1 DEF RunOK, Fits, PhaseOK, SeenOK, EndOK, SamePlan
    <2>. QED
      BY <1>0, <1>2, <2>1 DEF RunOK, SamePlan, store
  <1>6. RunsOK'
    BY <1>0, <1>5, RunKept, SameAhead DEF RunsOK, Moved, store
  <1>7. LeaseOK'
    <2>1. \A v \in Worker : work'[v].pc = "prepared" => v # w /\ work'[v] = work[v] /\ Own(v)' = Own(v)
      BY <1>0, <1>1
    <2>. QED
      BY <1>0, <2>1 DEF LeaseOK, JobOf, store
  <1>8. WireOK'
    <2>1. \A v \in Worker : work'[v].pc \in {"prepared", "finish"} => Own(v)' # q.effect
      <3>1. ASSUME NEW v \in Worker, work[v].pc \in {"prepared", "finish"}, v # w
            PROVE  Own(v) # Own(w)
        BY <1>2, <3>1, RowFacts
      <3>. QED
        BY <1>0, <1>1, <1>3, <3>1
    <2>2. q.method = Method(b, q.effect.name) /\ (q.method = "put" => q.effect.name \in Secrets)
      BY <1>0, <1>2, <1>3 DEF Method, SamePlan
    <2>3. target.gen \in Nat /\ applied \in Nat /\ q.effect.job = target.gen
      <3>1. target.gen = work[w].job /\ applied \in Nat
        BY <1>0, AdapterOutboxAssumption DEF TypeOK, Gate
      <3>. QED
        BY <1>2, <1>3, <3>1, Consts
    <2>4. applied <= q.effect.job /\ q.effect.job <= target.gen
      BY <1>0, <2>3 DEF WireOK
    <2>5. lease' = [effect |-> q.effect, live |-> TRUE]
      BY <1>0, <1>3 DEF store
    <2>6. /\ q.effect.worker = w /\ q.awaited /\ b.pc = "wait" /\ Own(w)' = q.effect
          /\ q.rev = b.rev /\ q.method = Method(b, q.effect.name)
      BY <1>0, <1>1, <1>2, <1>3, <2>2 DEF SamePlan
    <2>7. \A r \in adrift : r.effect.job <= target.gen /\ r.effect.job <= q.effect.job
      BY <1>0, <2>3 DEF WireOK
    <2>. QED
      BY <1>0, <2>1, <2>2, <2>4, <2>5, <2>6, <2>7 DEF WireOK, OneWriteInFlight, store
  <1>9. JobsOK'
    BY <1>0 DEF JobsOK, store
  <1>. QED
    BY <1>4, <1>6, <1>7, <1>8, <1>9 DEF FlightInv

\* Finish records the outcome, settles the row and frees the provider.
Finishes(w) ==
    LET a == work[w]
        b == work'[w]
        n == Row(w)
    IN /\ Moved(w) /\ a.pc = "finish" /\ lease.effect = Own(w) /\ ledger[n] # "absent"
       /\ lease' = NoLease /\ open' = open \ {Own(w)} /\ wire = {}
       /\ ledger' = [ledger EXCEPT ![n] = IF @ = "released" /\ Settled(a, n) # "absent"
                                          THEN @ ELSE Settled(a, n)]
       /\ licensed' = IF a.answer = "unknown" THEN licensed \cup {n} ELSE licensed
       /\ \/ GaveUp(w) /\ ~Done(a)
          \/ /\ Done(a) /\ Fits(b) /\ Loaded(b) /\ b.job = a.job /\ b.rev = a.rev
             /\ b.pc \in {"row", "release", "delete", "settle"}
             /\ Written(b) = Written(a) \cup (IF a.phase = "write" THEN {n} ELSE {})
             /\ Clean(b) = Clean(a) \cup (IF a.phase = "delete" THEN {n} ELSE {})
       /\ Settled(a, n) \in Rows /\ conflicts' \subseteq Gens \X Name
       /\ UNCHANGED <<ops, head, target, jobs, world, faults, loose, late>>

LEMMA SettledFits ==
    ASSUME NEW a \in Run, NEW n \in Name, a.answer \in Answer
    PROVE  Settled(a, n) \in Rows
  <1>1. a.seen[n] \in Rows
    BY DEF Run
  <1>. QED
    BY <1>1 DEF Settled, Rows, Answer

LEMMA FinishForm ==
    ASSUME FlightInv, NEW w \in Worker, Finish(w)
    PROVE  Quiet(w) \/ Finishes(w)
  <1>. DEFINE n == Row(w)
  <1>. DEFINE a == work[w]
  <1>0. /\ TypeOK /\ a.pc = "finish" /\ UNCHANGED <<ops, head, target, jobs, world, faults, loose, late>>
    BY DEF Finish, FlightInv
  <1>a. /\ a \in Run /\ RunOK(w) /\ a.job \in Gens /\ n \in a.todo /\ n \in Name
        /\ (a.phase = "write" => Wanted(a, n))
        /\ (a.phase = "delete" => ~Wanted(a, n) /\ a.seen[n] \in Held)
    BY <1>0, RowFacts
  <1>b. /\ a.answer \in Answer /\ (a.answer = "unsent" => a.cause \in Cause \ {"ok"})
        /\ a.phase \in {"write", "delete"} /\ TodoOK(a)
        /\ \A m \in Name : a.seen[m] # "released"
    BY <1>0, <1>a DEF RunOK, Fits, EndOK, PhaseOK, SeenOK, Run
  <1>1. CASE ~(Own(w) \in open /\ ledger[n] # "absent" /\ lease.effect = Own(w))
    <2>1. /\ End(w, IF Own(w) \in open THEN "superseded" ELSE "retry")
          /\ UNCHANGED <<open, lease, ledger, conflicts, licensed>>
      BY <1>1 DEF Finish, Own
    <2>2. GaveUp(w)
      BY <2>1, EndStep DEF Cause
    <2>. QED
      BY <1>0, <2>1, <2>2 DEF Quiet, TypeOK, history
  <1>2. CASE Own(w) \in open /\ ledger[n] # "absent" /\ lease.effect = Own(w)
    <2>. DEFINE t == a.todo \ {n}
    <2>. DEFINE s == IF a.phase = "write" THEN "owned" ELSE a.seen[n]
    <2>. DEFINE next == [a EXCEPT !.answer = None, !.todo = t, !.seen[n] = s]
    <2>1. /\ open' = open \ {Own(w)} /\ lease' = NoLease
          /\ ledger' = [ledger EXCEPT ![n] = IF @ = "released" /\ Settled(a, n) # "absent"
                                             THEN @ ELSE Settled(a, n)]
          /\ conflicts' = IF a.answer = "conflict" THEN conflicts \cup {<<a.job, n>>} ELSE conflicts
          /\ licensed' = IF a.answer = "unknown" THEN licensed \cup {n} ELSE licensed
          /\ IF Done(a) THEN Step(w, Onward(next)) ELSE End(w, CauseOf(a))
      BY <1>2 DEF Finish, Own
    <2>2. conflicts' \subseteq Gens \X Name
      BY <1>0, <1>a, <2>1 DEF TypeOK
    <2>3. Settled(a, n) \in Rows
      BY <1>a, <1>b, SettledFits
    <2>4. wire = {}
      <3>1. ASSUME NEW q \in wire PROVE FALSE
        <4>1. lease = [effect |-> q.effect, live |-> TRUE]
          BY WireBusy
        <4>2. Own(w) # q.effect
          BY <1>0 DEF FlightInv, WireOK
        <4>. QED
          BY <1>2, <4>1, <4>2
      <3>. QED
        BY <3>1
    <2>5. CASE ~Done(a)
      <3>1. CauseOf(a) \in Cause \ {"ok"}
        BY <1>b DEF CauseOf, Cause, Answer
      <3>2. GaveUp(w)
        BY <2>1, <2>5, <3>1, EndStep
      <3>. QED
        BY <1>0, <1>2, <2>1, <2>2, <2>3, <2>4, <2>5, <3>2 DEF Finishes, GaveUp
    <2>6. CASE Done(a)
      <3>1. /\ t \in SUBSET Name /\ t \subseteq a.todo /\ n \notin t
            /\ \A m \in Name : m \in t <=> m \in a.todo /\ m # n
            /\ s \in Rows \ {"released"} /\ (a.phase = "delete" => s = a.seen[n])
        BY <1>a, <1>b DEF Run, Rows
      <3>. HIDE DEF t, s
      <3>2. /\ next \in Run /\ next.job = a.job /\ next.rev = a.rev /\ next.todo = t
            /\ next.phase = a.phase /\ next.seen = [a.seen EXCEPT ![n] = s]
        BY <1>a, <3>1 DEF Run
      <3>. HIDE DEF next
      <3>3. /\ next.seen[n] = s /\ \A m \in Name : m # n => next.seen[m] = a.seen[m]
        BY <1>a, <3>2 DEF Run
      <3>4. \A m : Wanted(next, m) <=> Wanted(a, m)
        BY <3>2 DEF Wanted
      <3>5. TodoOK(next) /\ \A m \in Name : next.seen[m] # "released"
        <4>1. CASE a.phase = "write"
          BY <1>b, <3>1, <3>2, <3>3, <3>4, <4>1 DEF TodoOK
        <4>2. CASE a.phase = "delete"
          <5>1. next.seen = a.seen
            BY <1>a, <3>1, <3>2, <4>2 DEF Run
          <5>2. /\ Undesired(next) = Undesired(a) /\ Reservations(next) = Reservations(a)
            BY <3>2, <5>1, SameNames
          <5>. QED
            BY <1>b, <3>1, <3>2, <4>2, <5>1, <5>2 DEF TodoOK
        <4>. QED
          BY <1>b, <4>1, <4>2
      <3>6. Written(next) = Written(a) \cup (IF a.phase = "write" THEN {n} ELSE {})
        <4>1. \A m \in Name : m \in Written(next)
                <=> m \in Written(a) \/ (a.phase = "write" /\ m = n)
          BY <1>a, <3>1, <3>2, <3>4 DEF Written
        <4>. QED
          BY <1>a, <4>1 DEF Written
      <3>7. Clean(next) = Clean(a) \cup (IF a.phase = "delete" THEN {n} ELSE {})
        <4>1. \A m \in Name : m \in Clean(next)
                <=> m \in Clean(a) \/ (a.phase = "delete" /\ m = n)
          BY <1>a, <1>b, <3>1, <3>2, <3>3, <3>4 DEF Clean
        <4>. QED
          BY <1>a, <4>1 DEF Clean
      <3>. DEFINE b == Onward(next)
      <3>8. /\ b \in Run /\ Fits(b) /\ b.pc \in {"row", "release", "delete", "settle"} /\ Loaded(b)
            /\ b.job = next.job /\ b.rev = next.rev
            /\ Written(b) = Written(next) /\ Clean(b) = Clean(next)
        BY <3>2, <3>5, OnwardFits
      <3>9. Step(w, b)
        BY <2>1, <2>6 DEF next, t, s
      <3>. HIDE DEF b
      <3>10. Moved(w) /\ work'[w] = b
        BY <1>0, <3>8, <3>9, StepFacts DEF Moved
      <3>. QED
        BY <1>0, <1>2, <2>1, <2>2, <2>3, <2>4, <2>6, <3>2, <3>6, <3>7, <3>8, <3>10 DEF Finishes
    <2>. QED
      BY <2>5, <2>6
  <1>. QED
    BY <1>1, <1>2

LEMMA FinishFlight ==
    ASSUME FlightInv, NEW w \in Worker, Finishes(w)
    PROVE  FlightInv'
  <1>. DEFINE b == work'[w]
  <1>0. /\ TypeOK /\ RunsOK /\ JobsOK /\ LeaseOK /\ WireOK /\ Moved(w) /\ work[w].pc = "finish"
        /\ lease.effect = Own(w) /\ lease' = NoLease /\ wire = {} /\ open' \subseteq open
        /\ UNCHANGED <<ops, head, target, jobs, world, faults, loose, late>>
        /\ conflicts' \subseteq Gens \X Name
    BY DEF FlightInv, Finishes
  <1>1. /\ RunOK(w) /\ Loaded(work[w]) /\ Row(w) \in Name /\ Own(w).worker = w
    BY <1>0, RowFacts
  <1>2. /\ b.pc \in {"row", "release", "delete", "settle"} /\ Fits(b) /\ b.job = work[w].job
        /\ Loaded(b) => b.rev = work[w].rev
    BY DEF Finishes, GaveUp
  <1>3. TypeOK'
    <2>1. ledger' \in [Name -> Rows]
      BY <1>0, <1>1 DEF Finishes, TypeOK
    <2>2. licensed' \subseteq Name
      BY <1>0, <1>1 DEF Finishes, TypeOK
    <2>. QED
      BY <1>0, <2>1, <2>2, IdleFits DEF TypeOK, Moved, world
  <1>4. RunOK(w)'
    BY <1>0, <1>1, <1>2 DEF RunOK
  <1>5. RunsOK'
    BY <1>0, <1>4, RunKept, SameAhead DEF RunsOK, Moved
  <1>6. LeaseOK'
    <2>1. ASSUME NEW v \in Worker, work'[v].pc = "prepared", JobOf(v)'.owner = v, JobOf(v)'.live
          PROVE  FALSE
      <3>1. v # w /\ work'[v] = work[v]
        BY <1>0, <1>2, <2>1 DEF Moved
      <3>2. lease = [effect |-> Own(v), live |-> TRUE]
        BY <1>0, <2>1, <3>1 DEF LeaseOK, JobOf
      <3>3. Own(v).worker = v
        BY <2>1, <3>1, RowFacts
      <3>. QED
        BY <1>0, <1>1, <3>1, <3>2, <3>3
    <2>. QED
      BY <1>0, <2>1 DEF LeaseOK, NoLease
  <1>7. WireOK'
    BY <1>0 DEF WireOK, OneWriteInFlight, world
  <1>8. JobsOK'
    BY <1>0 DEF JobsOK
  <1>. QED
    BY <1>3, <1>5, <1>6, <1>7, <1>8 DEF FlightInv

\* Settle: the job ends with the attempt, if it is still the attempt's.
JobEnds(w, s) ==
    LET g == work[w].job
    IN /\ jobs[g].owner = w /\ jobs' \in [Gens -> Job]
       /\ jobs'[g].kind = jobs[g].kind /\ jobs'[g].state = s
       /\ jobs'[g].owner = None /\ ~jobs'[g].live
       /\ \A h \in Gens : h # g => jobs'[h] = jobs[h]
       /\ target' \in Target /\ target'.gen = target.gen /\ target'.state = target.state
       /\ target'.active \in {0, target.active}
SettleAborts(w) == JobEnds(w, "failed") /\ UNCHANGED <<target, ledger>>
SettleFails(w) ==
    /\ Accepted(w) /\ target'.status = "failed"
    /\ \/ JobEnds(w, "queued") /\ ledger' = ledger
       \/ JobEnds(w, "failed") /\ (ledger' = ledger \/ (ledger' = Released /\ JobOf(w).kind = "scrub"))
SettleOK(w) ==
    /\ Accepted(w) /\ work[w].cause = "ok" /\ JobEnds(w, "succeeded") /\ ledger' = ledger
    /\ target'.status = "converged"
    /\ target'.rev = IF work[w].rev = 0 THEN target.rev ELSE work[w].rev
Settles(w) ==
    /\ Moved(w) /\ work'[w] = Idle /\ work[w].pc = "settle"
    /\ UNCHANGED <<ops, head, lease, open, conflicts, world, faults, history>>
    /\ UNCHANGED <<jobs, target, ledger>> \/ SettleAborts(w) \/ SettleFails(w) \/ SettleOK(w)

LEMMA EndedFacts ==
    ASSUME FlightInv, NEW w \in Worker, work[w].pc = "settle", JobOf(w).owner = w,
           NEW s \in {"failed", "queued", "succeeded"}, jobs' = Ended(work[w].job, s),
           target' \in Target, target'.gen = target.gen, target'.state = target.state,
           target'.active \in {0, target.active}
    PROVE  JobEnds(w, s)
  <1>. DEFINE g == work[w].job
  <1>. DEFINE j == [jobs[g] EXCEPT !.state = s, !.owner = None, !.live = FALSE]
  <1>1. g \in Gens /\ jobs[g] \in Job /\ jobs \in [Gens -> Job]
    BY RunFacts DEF FlightInv, TypeOK
  <1>2. j \in Job /\ j.kind = jobs[g].kind /\ j.state = s /\ j.owner = None /\ ~j.live
    BY <1>1 DEF Job
  <1>3. jobs' = [jobs EXCEPT ![g] = j]
    BY DEF Ended
  <1>. HIDE DEF j
  <1>. QED
    BY <1>1, <1>2, <1>3 DEF JobEnds, JobOf

LEMMA SettleForm ==
    ASSUME FlightInv, NEW w \in Worker, Settle(w)
    PROVE  Settles(w)
  <1>0. /\ TypeOK /\ work[w].pc = "settle" /\ Step(w, Idle) /\ target \in Target
        /\ UNCHANGED <<ops, head, lease, open, conflicts, world, faults, history>>
    BY DEF Settle, FlightInv, TypeOK, Target
  <1>1. Moved(w) /\ work'[w] = Idle
    BY <1>0, IdleFits, StepFacts DEF Moved
  <1>2. work[w] \in Run /\ work[w].cause \in Cause
    BY <1>0, RunFacts DEF RunOK, Fits, EndOK
  <1>3. CASE UNCHANGED <<jobs, target, ledger>>
    BY <1>0, <1>1, <1>3 DEF Settles
  <1>4. CASE JobOf(w).owner = w /\ work[w].cause = "superseded" /\ Aborted(w)
    <2>1. JobEnds(w, "failed")
      BY <1>0, <1>4, EndedFacts DEF Aborted
    <2>. QED
      BY <1>0, <1>1, <1>4, <2>1 DEF Settles, SettleAborts, Aborted
  <1>5. CASE JobOf(w).owner = w /\ work[w].cause = "retry" /\ Retried(w)
    <2>1. target' \in Target /\ target'.gen = target.gen /\ target'.state = target.state
          /\ target'.active = target.active /\ target'.status = "failed"
      BY <1>0, <1>5 DEF Retried, Target
    <2>2. JobEnds(w, "queued")
      BY <1>0, <1>5, <2>1, EndedFacts DEF Retried
    <2>. QED
      BY <1>0, <1>1, <1>5, <2>1, <2>2 DEF Settles, SettleFails, Retried
  <1>6. CASE JobOf(w).owner = w /\ work[w].cause = "ok" /\ Succeeded(w)
    <2>. DEFINE r == IF work[w].rev = 0 THEN target.rev ELSE work[w].rev
    <2>1. r \in 0..Len(Contents) /\ 0 \in 0..MaxGen
      BY <1>0, <1>2, AdapterOutboxAssumption DEF Run, Target
    <2>2. target' = [target EXCEPT !.status = "converged", !.active = 0, !.rev = r]
      BY <1>6 DEF Succeeded
    <2>3. /\ target' \in Target /\ target'.gen = target.gen /\ target'.state = target.state
          /\ target'.active = 0 /\ target'.status = "converged" /\ target'.rev = r
      <3>. HIDE DEF r
      <3>. QED
        BY <1>0, <2>1, <2>2 DEF Target
    <2>4. JobEnds(w, "succeeded")
      BY <1>0, <1>6, <2>3, EndedFacts DEF Succeeded
    <2>. QED
      BY <1>0, <1>1, <1>6, <2>3, <2>4 DEF Settles, SettleOK, Succeeded
  <1>7. CASE JobOf(w).owner = w /\ Failed(w)
    <2>1. 0 \in 0..MaxGen
      BY AdapterOutboxAssumption
    <2>2. target' \in Target /\ target'.gen = target.gen /\ target'.state = target.state
          /\ target'.active = 0 /\ target'.status = "failed"
      BY <1>0, <1>7, <2>1 DEF Failed, Target
    <2>3. JobEnds(w, "failed")
      BY <1>0, <1>7, <2>2, EndedFacts DEF Failed
    <2>. QED
      BY <1>0, <1>1, <1>7, <2>2, <2>3 DEF Settles, SettleFails, Failed
  <1>. QED
    <2>1. CASE JobOf(w).owner = w /\ (work[w].cause = "superseded" \/ Accepted(w))
      BY <1>2, <1>4, <1>5, <1>6, <1>7, <2>1 DEF Settle, Cause
    <2>2. CASE ~(JobOf(w).owner = w /\ (work[w].cause = "superseded" \/ Accepted(w)))
      BY <1>3, <2>2 DEF Settle
    <2>. QED
      BY <2>1, <2>2

\* What a stopped attempt leaves behind on the wire nobody waits for.
LEMMA StoppedWire ==
    ASSUME FlightInv, NEW w \in Worker, Moved(w), work'[w] = Idle, work[w].pc # "wait",
           target'.gen = target.gen, UNCHANGED <<lease, wire, adrift, applied>>
    PROVE  WireOK'
  <1>0. TypeOK /\ WireOK /\ \A v \in Worker : v # w => work'[v] = work[v]
    BY DEF FlightInv, Moved
  <1>1. work'[w].pc = "idle" /\ work'[w].job = 0
    BY DEF Idle
  <1>2. \A q \in wire, v \in Worker : work'[v].pc \in {"prepared", "finish"} => Own(v)' # q.effect
    BY <1>0, <1>1 DEF WireOK, Own, EffectOf, Row
  <1>3. ASSUME NEW q \in wire
        PROVE  LET v == q.effect.worker
               IN /\ work'[v].job = q.effect.job => q.awaited
                  /\ q.awaited => /\ work'[v].pc = "wait" /\ Own(v)' = q.effect
                                  /\ q.rev = work'[v].rev
                                  /\ q.method = Method(work'[v], q.effect.name)
    <2>0. q.effect.worker \in Worker /\ q.effect.job \in Gens
      BY <1>0 DEF TypeOK, Request, Effect
    <2>1. CASE q.effect.worker # w
      <3>1. work'[q.effect.worker] = work[q.effect.worker]
        BY <1>0, <2>0, <2>1
      <3>. QED
        BY <1>0, <3>1 DEF WireOK, Own, EffectOf, Row
    <2>2. CASE q.effect.worker = w
      <3>1. ~q.awaited
        BY <1>0, <2>2 DEF WireOK
      <3>2. q.effect.job # 0
        BY <2>0, Consts
      <3>. QED
        BY <1>1, <2>2, <3>1, <3>2
    <2>. QED
      BY <2>1, <2>2
  <1>. QED
    BY <1>0, <1>2, <1>3 DEF WireOK, OneWriteInFlight

LEMMA IdleRun ==
    ASSUME FlightInv, NEW w \in Worker, Moved(w), work'[w] = Idle, Ahead
    PROVE  RunsOK'
  <1>1. Fits(Idle) /\ Idle.pc = "idle" /\ Idle.job = 0 /\ ~Loaded(Idle)
    BY DEF Idle, Fits, TodoOK, PhaseOK, SeenOK, EndOK, Loaded
  <1>2. RunOK(w)'
    BY <1>1 DEF RunOK
  <1>. QED
    BY <1>2, RunKept DEF RunsOK, Moved

LEMMA SettleFlight ==
    ASSUME FlightInv, NEW w \in Worker, Settles(w)
    PROVE  FlightInv'
  <1>0. /\ TypeOK /\ RunsOK /\ JobsOK /\ LeaseOK /\ WireOK /\ Moved(w) /\ work'[w] = Idle
        /\ work[w].pc = "settle" /\ Idle.pc = "idle"
        /\ UNCHANGED <<ops, head, lease, open, conflicts, world, faults, history>>
    BY DEF FlightInv, Settles, Idle
  <1>a. ledger' \in [Name -> Rows]
    BY <1>0 DEF Settles, SettleAborts, SettleFails, SettleOK, Released, TypeOK, Rows
  <1>1. CASE UNCHANGED <<jobs, target, ledger>>
    <2>1. TypeOK'
      BY <1>0, <1>1, QuietType DEF Moved, TypeOK
    <2>2. RunsOK'
      BY <1>0, <1>1, IdleRun, SameAhead
    <2>3. WireOK'
      BY <1>0, <1>1, StoppedWire DEF world
    <2>4. LeaseOK'
      <3>1. \A v \in Worker : work'[v].pc = "prepared" => work'[v] = work[v]
        BY <1>0 DEF Moved
      <3>. QED
        BY <1>0, <1>1, <3>1 DEF LeaseOK, JobOf, Own, EffectOf, Row
    <2>5. JobsOK'
      BY <1>0, <1>1 DEF JobsOK
    <2>. QED
      BY <2>1, <2>2, <2>3, <2>4, <2>5 DEF FlightInv
  <1>2. ASSUME NEW s \in {"failed", "queued", "succeeded"}, JobEnds(w, s),
               s # "failed" => lease.effect = None
        PROVE  FlightInv'
    <2>. DEFINE g == work[w].job
    <2>0. /\ jobs[g].owner = w /\ jobs' \in [Gens -> Job]
          /\ jobs'[g].kind = jobs[g].kind /\ jobs'[g].state = s
          /\ jobs'[g].owner = None /\ ~jobs'[g].live
          /\ \A h \in Gens : h # g => jobs'[h] = jobs[h]
          /\ target' \in Target /\ target'.gen = target.gen /\ target'.state = target.state
          /\ target'.active \in {0, target.active}
      BY <1>2 DEF JobEnds
    <2>a. /\ g \in Gens /\ g \in 1..target.gen /\ target.gen \in Gens /\ target.gen \in Nat
      BY <1>0, RunFacts, Consts DEF RunOK, TypeOK
    <2>b. jobs[g].state = "running" /\ w # None
      BY <1>0, <2>0, <2>a, Consts DEF JobsOK
    <2>1. TypeOK'
      BY <1>0, <1>a, <2>0 DEF TypeOK, Target, Moved, world, history
    <2>2. Ahead
      <3>1. \A h \in 1..target.gen : h \in Gens
        BY <2>a, AdapterOutboxAssumption DEF Gens
      <3>2. target'.gen >= target.gen
        BY <2>0, <2>a
      <3>. QED
        BY <2>0, <2>a, <3>1, <3>2 DEF Ahead
    <2>3. RunsOK'
      BY <1>0, <2>2, IdleRun
    <2>4. WireOK'
      BY <1>0, <2>0, StoppedWire DEF world
    <2>5. LeaseOK'
      <3>1. ASSUME NEW v \in Worker, work'[v].pc = "prepared", JobOf(v)'.owner = v, JobOf(v)'.live
            PROVE  lease = [effect |-> Own(v)', live |-> TRUE]
        <4>1. work'[v] = work[v]
          BY <1>0, <3>1 DEF Moved
        <4>2. work[v].job \in Gens
          BY <3>1, <4>1, RunFacts
        <4>3. work[v].job # g
          BY <2>0, <3>1, <4>1 DEF JobOf
        <4>4. JobOf(v)' = JobOf(v)
          BY <2>0, <4>1, <4>2, <4>3 DEF JobOf
        <4>5. Own(v)' = Own(v)
          BY <4>1 DEF Own, EffectOf, Row
        <4>. QED
          BY <1>0, <3>1, <4>1, <4>4, <4>5 DEF LeaseOK
      <3>2. ASSUME lease.effect # None
            PROVE  LET j == jobs'[lease.effect.job]
                   IN /\ lease.effect \in open
                      /\ j.state \notin {"none", "queued"}
                      /\ j.state = "running" =>
                           j.owner = lease.effect.worker /\ (lease.live => j.live)
        <4>1. s = "failed" /\ lease.effect.job \in Gens
          BY <1>0, <1>2, <3>2 DEF TypeOK, Effect
        <4>2. CASE lease.effect.job = g
          BY <1>0, <2>0, <3>2, <4>1, <4>2 DEF LeaseOK
        <4>3. CASE lease.effect.job # g
          BY <1>0, <2>0, <3>2, <4>1, <4>3 DEF LeaseOK
        <4>. QED
          BY <4>2, <4>3
      <3>. QED
        BY <1>0, <3>1, <3>2 DEF LeaseOK
    <2>6. JobsOK'
      <3>1. target'.active <= target'.gen
        BY <1>0, <2>0, <2>a DEF JobsOK
      <3>2. \A h \in Gens : h > target.gen => h # g
        BY <2>a, Consts
      <3>3. \A h \in Gens : h > target'.gen => jobs'[h] = NoJob
        BY <1>0, <2>0, <3>2 DEF JobsOK
      <3>4. /\ \A h \in Gens : jobs'[h].owner # None <=> jobs'[h].state = "running"
            /\ \A h \in Gens : jobs'[h].live => jobs'[h].state = "running" /\ jobs[h].live
            /\ \A h \in Gens : jobs'[h].kind = jobs[h].kind
        BY <1>0, <2>0, <2>b DEF JobsOK
      <3>5. jobs'[target.gen].state # "none" => jobs[target.gen].state # "none"
        BY <2>0, <2>a, <2>b
      <3>. QED
        BY <1>0, <2>0, <2>a, <3>1, <3>3, <3>4, <3>5 DEF JobsOK
    <2>. QED
      BY <2>1, <2>3, <2>4, <2>5, <2>6 DEF FlightInv
  <1>. QED
    BY <1>1, <1>2 DEF Settles, SettleAborts, SettleFails, SettleOK, Accepted

-----------------------------------------------------------------------------
(* The provider, the clock and the processes *)

\* The attempt that waits for the request has its answer.
Answered(q, answer) ==
    LET w == q.effect.worker
    IN IF q.awaited
       THEN /\ Moved(w) /\ work[w].pc = "wait" /\ SamePlan(work[w], work'[w])
            /\ work'[w].pc = "finish" /\ work'[w].answer = answer
       ELSE work' = work

\* The one request on the wire is gone from it, handled, lost or adrift.
Leaves(q) ==
    /\ wire = {q} /\ wire' = {} /\ faults' \in 0..MaxFaults
    /\ adrift' \in {adrift, adrift \cup {q}}
    /\ UNCHANGED <<ops, head, store, history>>

LEMMA AnswersForm ==
    ASSUME FlightInv, NEW q \in wire, NEW answer \in Answer, Answers(q, answer)
    PROVE  Answered(q, answer)
  <1>1. CASE ~q.awaited
    BY <1>1 DEF Answers, Answered
  <1>2. CASE q.awaited
    <2>1. PICK w \in Worker : w = q.effect.worker
      BY DEF FlightInv, TypeOK, Request, Effect
    <2>. DEFINE b == [work[w] EXCEPT !.pc = "finish", !.answer = answer]
    <2>2. Step(w, b) /\ work[w] \in Run /\ work[w].pc = "wait" /\ TypeOK
      BY <1>2, <2>1, RunFacts DEF Answers, FlightInv, WireOK
    <2>3. b \in Run /\ SamePlan(work[w], b) /\ b.pc = "finish" /\ b.answer = answer
      BY <2>2 DEF Run, SamePlan
    <2>. HIDE DEF b
    <2>4. Moved(w) /\ work'[w] = b
      BY <2>2, <2>3, StepFacts DEF Moved
    <2>. QED
      BY <1>2, <2>1, <2>2, <2>3, <2>4 DEF Answered
  <1>. QED
    BY <1>1, <1>2

LEMMA OneWire == ASSUME FlightInv, NEW q \in wire PROVE wire = {q} /\ wire \ {q} = {}
  BY DEF FlightInv, WireOK

\* Handle applies the request or not, and says so or nothing.
Handled(q) ==
    LET n == q.effect.name
        there == provider[n] # 0
        does == \/ q.method = "put" \/ (q.method = "post" /\ ~there)
                \/ (q.method \in {"patch", "delete"} /\ there)
    IN /\ Leaves(q)
       /\ IF does
          THEN /\ provider' = [provider EXCEPT ![n] = IF q.method = "delete" THEN 0 ELSE q.rev]
               /\ applied' = q.effect.job
               /\ Answered(q, "ok") \/ Answered(q, "unknown")
          ELSE /\ UNCHANGED <<provider, applied>>
               /\ \/ Answered(q, IF q.method = "post" THEN "conflict" ELSE "notfound")
                  \/ Answered(q, "unknown")

LEMMA HandleForm ==
    ASSUME FlightInv, NEW q \in wire, Handle(q)
    PROVE  Handled(q)
  <1>. DEFINE n == q.effect.name
  <1>. DEFINE there == provider[n] # 0
  <1>. DEFINE does == \/ q.method = "put" \/ (q.method = "post" /\ ~there)
                      \/ (q.method \in {"patch", "delete"} /\ there)
  <1>. DEFINE says == IF does THEN "ok" ELSE IF q.method = "post" THEN "conflict" ELSE "notfound"
  <1>0. TypeOK
    BY DEF FlightInv
  <1>a. Does(q) <=> does
    BY DEF Does
  <1>b. applied \in Nat /\ q.effect.job \in Nat /\ applied <= q.effect.job
    BY Consts DEF FlightInv, TypeOK, Request, Effect, WireOK
  <1>1. /\ wire' = wire \ {q} /\ adrift' = adrift
        /\ provider' = IF does THEN [provider EXCEPT ![n] = IF q.method = "delete" THEN 0 ELSE q.rev]
                       ELSE provider
        /\ applied' = IF does THEN q.effect.job ELSE applied
        /\ \/ Answers(q, says) /\ UNCHANGED faults
           \/ Answers(q, "unknown") /\ Fault
        /\ UNCHANGED <<ops, head, store, history>>
    <2>. HIDE DEF does
    <2>1. applied' = IF does THEN q.effect.job ELSE applied
      BY <1>a, <1>b DEF Handle, Apply
    <2>. QED
      BY <1>a, <2>1 DEF Handle, Apply
  <1>2. says \in Answer /\ "unknown" \in Answer
    BY DEF Answer
  <1>3. Answered(q, says) \/ Answered(q, "unknown")
    <2>. HIDE DEF says
    <2>. QED
      BY <1>1, <1>2, AnswersForm
  <1>4. Leaves(q)
    BY <1>0, <1>1, OneWire, FaultFits DEF Leaves, TypeOK
  <1>. QED
    BY <1>1, <1>3, <1>4 DEF Handled

\* A request that fails without an effect, or has none as long as its client waits.
Missed(q) ==
    /\ Leaves(q) /\ UNCHANGED <<provider, applied>>
    /\ \E answer \in {"unknown", "refused", "denied"} : Answered(q, answer)

LEMMA MissForm ==
    ASSUME FlightInv, NEW q \in wire, Miss(q)
    PROVE  Missed(q)
  <1>1. Leaves(q) /\ UNCHANGED <<provider, applied>>
    BY OneWire, FaultFits DEF Leaves, Miss, FlightInv
  <1>2. PICK answer \in {"unknown", "refused", "denied"} : Answers(q, answer)
    BY DEF Miss
  <1>3. Answered(q, answer)
    BY <1>2, AnswersForm DEF Answer
  <1>. QED
    BY <1>1, <1>3 DEF Missed

LEMMA LingerForm ==
    ASSUME FlightInv, NEW q \in wire, Linger(q)
    PROVE  Missed(q)
  <1>1. faults' \in 0..MaxFaults
    BY FaultFits DEF Linger, FlightInv, TypeOK
  <1>2. Leaves(q) /\ UNCHANGED <<provider, applied>>
    BY <1>1, OneWire DEF Leaves, Linger
  <1>3. Answered(q, "unknown")
    BY AnswersForm DEF Linger, Answer
  <1>. QED
    BY <1>2, <1>3 DEF Missed

LEMMA AnswerFlight ==
    ASSUME FlightInv, NEW q \in wire, Leaves(q), NEW answer \in Answer \ {"unsent"},
           Answered(q, answer), provider' \in [Name -> 0..Foreign],
           applied' \in {applied, q.effect.job}
    PROVE  FlightInv'
  <1>0. /\ TypeOK /\ RunsOK /\ JobsOK /\ LeaseOK /\ WireOK /\ wire' = {}
        /\ faults' \in 0..MaxFaults /\ UNCHANGED <<ops, head, store, history>>
        /\ adrift' \in {adrift, adrift \cup {q}}
    BY DEF FlightInv, Leaves
  <1>1. PICK w \in Worker : w = q.effect.worker
    BY <1>0 DEF TypeOK, Request, Effect
  <1>2. /\ work' \in [Worker -> Run] /\ \A v \in Worker : v # w => work'[v] = work[v]
        /\ work'[w] = work[w] \/ work'[w].pc = "finish"
    BY <1>0, <1>1 DEF Answered, Moved, TypeOK
  <1>3. applied' \in 0..MaxGen /\ applied' <= target.gen
    BY <1>0, AdapterOutboxAssumption DEF TypeOK, Request, Effect, WireOK, Gens
  <1>4. TypeOK'
    BY <1>0, <1>2, <1>3 DEF TypeOK, store, history
  <1>5. RunsOK'
    <2>1. Ahead
      BY <1>0, SameAhead DEF store
    <2>2. CASE work'[w] = work[w]
      BY <1>2, <2>1, <2>2, RunKept DEF RunsOK
    <2>3. CASE q.awaited
      <3>. DEFINE b == work'[w]
      <3>1. /\ Moved(w) /\ work[w].pc = "wait" /\ SamePlan(work[w], b) /\ b.pc = "finish"
            /\ b.answer = answer
        BY <1>1, <2>3 DEF Answered
      <3>2. TodoOK(b) /\ \A n \in Name : b.seen[n] # "released"
        BY <3>1, SamePlanStep
      <3>3. RunOK(w) /\ Loaded(work[w])
        BY <3>1, RowFacts
      <3>4. Fits(b)
        <4>1. Min(b.todo) = Min(work[w].todo)
          BY <3>1 DEF SamePlan
        <4>. QED
          BY <3>1, <3>2, <3>3, <4>1 DEF RunOK, Fits, PhaseOK, SeenOK, EndOK, SamePlan
      <3>5. RunOK(w)'
        BY <1>0, <3>1, <3>3, <3>4 DEF RunOK, SamePlan, store
      <3>. QED
        BY <1>2, <2>1, <3>5, RunKept DEF RunsOK
    <2>. QED
      BY <2>2, <2>3 DEF Answered
  <1>6. LeaseOK'
    <2>1. \A v \in Worker : work'[v].pc = "prepared" => work'[v] = work[v]
      BY <1>2
    <2>. QED
      BY <1>0, <2>1 DEF LeaseOK, JobOf, Own, EffectOf, Row, store
  <1>7. WireOK'
    <2>1. \A r \in adrift' : r.effect.job <= target.gen
      BY <1>0 DEF WireOK
    <2>. QED
      BY <1>0, <1>3, <2>1 DEF WireOK, OneWriteInFlight, store
  <1>8. JobsOK'
    BY <1>0 DEF JobsOK, store
  <1>. QED
    BY <1>4, <1>5, <1>6, <1>7, <1>8 DEF FlightInv

LEMMA HandleFlight ==
    ASSUME FlightInv, NEW q \in wire, Handled(q)
    PROVE  FlightInv' /\ q.effect.job >= applied
  <1>0. TypeOK /\ WireOK /\ Leaves(q) /\ q \in Request
    BY DEF FlightInv, Handled, TypeOK
  <1>1. provider' \in [Name -> 0..Foreign]
    <2>1. q.rev \in 0..Foreign /\ 0 \in 0..Foreign /\ provider \in [Name -> 0..Foreign]
      BY <1>0, Consts DEF Request, Foreign, TypeOK
    <2>. QED
      BY <2>1 DEF Handled
  <1>2. applied' \in {applied, q.effect.job}
    BY DEF Handled
  <1>3. PICK answer \in Answer \ {"unsent"} : Answered(q, answer)
    BY DEF Handled, Answer
  <1>4. q.effect.job >= applied
    <2>1. applied \in Nat /\ q.effect.job \in Nat /\ applied <= q.effect.job
      BY <1>0, Consts DEF TypeOK, Request, Effect, WireOK
    <2>. QED
      BY <2>1
  <1>. QED
    BY <1>0, <1>1, <1>2, <1>3, <1>4, AnswerFlight

LEMMA MissFlight ==
    ASSUME FlightInv, NEW q \in wire, Missed(q)
    PROVE  FlightInv'
  <1>1. Leaves(q) /\ provider' \in [Name -> 0..Foreign] /\ applied' \in {applied, q.effect.job}
    BY DEF FlightInv, Missed, TypeOK
  <1>2. PICK answer \in Answer \ {"unsent"} : Answered(q, answer)
    BY DEF Missed, Answer
  <1>. QED
    BY <1>1, <1>2, AnswerFlight

\* A request its client gave up on changes one name, which is late from then on.
Landed(q) ==
    /\ provider' \in [Name -> 0..Foreign]
    /\ \A n \in Name : provider'[n] # provider[n] => n = q.effect.name /\ n \in late'
    /\ applied' \in {applied, q.effect.job} /\ adrift' = adrift \ {q}
    /\ late \subseteq late' /\ loose \subseteq loose' /\ late' \subseteq loose'
    /\ loose' \subseteq Name
    /\ UNCHANGED <<ops, head, store, wire, work, faults, licensed>>

LEMMA LandForm ==
    ASSUME FlightInv, NEW q \in adrift, Land(q)
    PROVE  Landed(q)
  <1>0. TypeOK /\ q \in Request
    BY DEF FlightInv, TypeOK
  <1>1. /\ q.rev \in 0..Foreign /\ 0 \in 0..Foreign /\ provider \in [Name -> 0..Foreign]
        /\ q.effect.name \in Name /\ late \subseteq loose /\ loose \subseteq Name
    BY <1>0, Consts DEF Request, Effect, Foreign, TypeOK
  <1>2. PICK reached : /\ reached = (IF Does(q) THEN {q.effect.name} ELSE {})
                       /\ late' = late \cup reached /\ loose' = loose \cup reached
    BY DEF Land
  <1>3. /\ adrift' = adrift \ {q} /\ UNCHANGED <<ops, head, store, wire, work, faults, licensed>>
        /\ provider' = IF Does(q) THEN [provider EXCEPT ![q.effect.name] =
                                           IF q.method = "delete" THEN 0 ELSE q.rev]
                       ELSE provider
        /\ applied' \in {applied, q.effect.job}
    BY DEF Land, Apply
  <1>4. CASE Does(q)
    BY <1>1, <1>2, <1>3, <1>4 DEF Landed
  <1>5. CASE ~Does(q)
    BY <1>1, <1>2, <1>3, <1>5 DEF Landed
  <1>. QED
    BY <1>4, <1>5

LEMMA LandFlight ==
    ASSUME FlightInv, NEW q \in adrift, Landed(q)
    PROVE  FlightInv'
  <1>0. /\ TypeOK /\ WireOK /\ UNCHANGED <<ops, head, store, wire, work, faults, licensed>>
        /\ q \in Request /\ adrift' \subseteq adrift /\ applied' \in {applied, q.effect.job}
        /\ provider' \in [Name -> 0..Foreign] /\ late' \subseteq loose' /\ loose' \subseteq Name
    BY DEF FlightInv, Landed, TypeOK
  <1>1. q.effect.job \in 0..MaxGen
    BY <1>0, AdapterOutboxAssumption DEF Request, Effect, Gens
  <1>2. TypeOK'
    BY <1>0, <1>1 DEF TypeOK, store
  <1>3. RunsOK' /\ JobsOK' /\ LeaseOK'
    BY <1>0 DEF FlightInv, RunsOK, RunOK, JobsOK, LeaseOK, JobOf, Own, EffectOf, Row, store
  <1>4. applied' <= target.gen /\ \A r \in wire : applied' <= r.effect.job
    BY <1>0 DEF WireOK
  <1>5. WireOK'
    BY <1>0, <1>4 DEF WireOK, OneWriteInFlight, Own, EffectOf, Row, store
  <1>. QED
    BY <1>2, <1>3, <1>5 DEF FlightInv

LEMMA IntrudeFlight ==
    ASSUME FlightInv, NEW n \in Name, Intrude(n)
    PROVE  FlightInv'
  <1>1. UNCHANGED <<ops, head, store, wire, adrift, applied, work, faults, history>>
    BY DEF Intrude
  <1>2. provider' \in [Name -> 0..Foreign]
    BY Consts DEF FlightInv, TypeOK, Intrude
  <1>3. TypeOK'
    BY <1>1, <1>2 DEF FlightInv, TypeOK, store, history
  <1>4. RunsOK' /\ JobsOK' /\ LeaseOK' /\ WireOK'
    BY <1>1 DEF FlightInv, RunsOK, RunOK, JobsOK, LeaseOK, WireOK, OneWriteInFlight, JobOf, Own,
                EffectOf, Row, store
  <1>. QED
    BY <1>3, <1>4 DEF FlightInv

\* A process stops: what it has on the wire stays there.
Crashes(w) ==
    /\ Moved(w) /\ work'[w] = Idle /\ faults' \in 0..MaxFaults
    /\ wire' = {[q EXCEPT !.awaited = @ /\ q.effect.worker # w] : q \in wire}
    /\ UNCHANGED <<ops, head, store, provider, adrift, applied, history>>

LEMMA CrashForm ==
    ASSUME FlightInv, NEW w \in Worker, Crash(w)
    PROVE  Crashes(w)
  <1>1. Moved(w) /\ work'[w] = Idle
    BY IdleFits, StepFacts DEF Crash, Moved, FlightInv
  <1>. QED
    BY <1>1, FaultFits DEF Crash, Crashes, FlightInv

\* The requests after a crash are those before it.
LEMMA CrashWire ==
    ASSUME FlightInv, NEW w \in Worker, Crashes(w), NEW r \in wire'
    PROVE  \E q \in wire : /\ r = [q EXCEPT !.awaited = @ /\ q.effect.worker # w]
                           /\ r \in Request /\ r.effect = q.effect /\ r.rev = q.rev
                           /\ r.method = q.method
                           /\ r.awaited = (q.awaited /\ q.effect.worker # w)
  <1>1. PICK q \in wire : r = [q EXCEPT !.awaited = @ /\ q.effect.worker # w]
    BY DEF Crashes
  <1>2. q \in Request
    BY DEF FlightInv, TypeOK
  <1>3. /\ r \in Request /\ r.effect = q.effect /\ r.rev = q.rev /\ r.method = q.method
        /\ r.awaited = (q.awaited /\ q.effect.worker # w)
    BY <1>1, <1>2 DEF Request
  <1>. QED
    BY <1>1, <1>3

LEMMA CrashFlight ==
    ASSUME FlightInv, NEW w \in Worker, Crashes(w)
    PROVE  FlightInv'
  <1>0. /\ TypeOK /\ JobsOK /\ LeaseOK /\ WireOK /\ Moved(w) /\ work'[w] = Idle
        /\ Idle.pc = "idle" /\ Idle.job = 0
        /\ faults' \in 0..MaxFaults /\ UNCHANGED <<ops, head, store, provider, adrift, applied, history>>
        /\ \A v \in Worker : v # w => work'[v] = work[v]
    BY DEF FlightInv, Crashes, Idle, Moved
  <1>1. wire' \subseteq Request
    BY CrashWire
  <1>2. TypeOK'
    BY <1>0, <1>1 DEF TypeOK, Moved, store, history
  <1>3. RunsOK'
    BY <1>0, IdleRun, SameAhead DEF store
  <1>4. LeaseOK'
    <2>1. \A v \in Worker : work'[v].pc = "prepared" => work'[v] = work[v]
      BY <1>0
    <2>. QED
      BY <1>0, <2>1 DEF LeaseOK, JobOf, Own, EffectOf, Row, store
  <1>5. WireOK'
    <2>1. ASSUME NEW r \in wire'
          PROVE  /\ lease = [effect |-> r.effect, live |-> TRUE]
                 /\ \A v \in Worker : work'[v].pc \in {"prepared", "finish"} => Own(v)' # r.effect
                 /\ work'[r.effect.worker].job = r.effect.job => r.awaited
                 /\ r.awaited => /\ work'[r.effect.worker].pc = "wait"
                                 /\ Own(r.effect.worker)' = r.effect
                                 /\ r.rev = work'[r.effect.worker].rev
                                 /\ r.method = Method(work'[r.effect.worker], r.effect.name)
                 /\ r.method = "put" => r.effect.name \in Secrets
                 /\ applied <= r.effect.job /\ r.effect.job <= target.gen
                 /\ \A x \in adrift : x.effect.job <= r.effect.job
      <3>1. PICK q \in wire : /\ r.effect = q.effect /\ r.rev = q.rev /\ r.method = q.method
                              /\ r.awaited = (q.awaited /\ q.effect.worker # w)
        BY <2>1, CrashWire
      <3>2. q.effect.worker \in Worker /\ q.effect.job # 0
        BY <1>0, Consts DEF TypeOK, Request, Effect
      <3>3. \A v \in Worker : work'[v].pc \in {"prepared", "finish"} => Own(v)' # r.effect
        BY <1>0, <3>1 DEF WireOK, Own, EffectOf, Row
      <3>4. CASE q.effect.worker = w
        BY <1>0, <3>1, <3>2, <3>3, <3>4 DEF WireOK, OneWriteInFlight
      <3>5. CASE q.effect.worker # w
        <4>1. work'[r.effect.worker] = work[r.effect.worker] /\ r.awaited = q.awaited
          BY <1>0, <3>1, <3>2, <3>5 DEF TypeOK, Request
        <4>. QED
          BY <1>0, <3>1, <3>3, <4>1 DEF WireOK, OneWriteInFlight, Own, EffectOf, Row
      <3>. QED
        BY <3>4, <3>5
    <2>2. \A r, s \in wire' : r = s
      <3>1. ASSUME NEW r \in wire', NEW s \in wire' PROVE r = s
        <4>1. PICK q \in wire : r = [q EXCEPT !.awaited = @ /\ q.effect.worker # w]
          BY CrashWire
        <4>2. PICK p \in wire : s = [p EXCEPT !.awaited = @ /\ p.effect.worker # w]
          BY CrashWire
        <4>3. p = q
          BY <1>0 DEF WireOK
        <4>. QED
          BY <4>1, <4>2, <4>3
      <3>. QED
        BY <3>1
    <2>. QED
      BY <1>0, <2>1, <2>2 DEF WireOK, OneWriteInFlight, store
  <1>6. JobsOK'
    BY <1>0 DEF JobsOK, store
  <1>. QED
    BY <1>2, <1>3, <1>4, <1>5, <1>6 DEF FlightInv

\* A claim closes what it finds open, but for a request whose lease is live: that one
\* belongs to another job.
Claims(w, g) ==
    /\ Moved(w) /\ work[w] = Idle /\ work'[w] = [Idle EXCEPT !.pc = "claimed", !.job = g]
    /\ work'[w].pc = "claimed" /\ work'[w].job = g /\ Fits(work'[w])
    /\ g <= target.gen /\ Due(g)
    /\ \A h \in Gens : h # g => ~jobs[h].live
    /\ jobs' \in [Gens -> Job] /\ jobs'[g].kind = jobs[g].kind
    /\ jobs'[g].state = "running" /\ jobs'[g].owner = w /\ jobs'[g].live
    /\ \A h \in Gens : h # g => jobs'[h] = jobs[h]
    /\ open' = open \ Closed /\ licensed' = licensed \cup {e.name : e \in Closed}
    /\ \/ lease' = NoLease /\ wire = {} /\ ~(lease.effect # None /\ lease.live)
       \/ lease' = lease /\ (lease.effect # None => lease.live /\ lease.effect.job # g)
    /\ UNCHANGED <<ops, head, target, ledger, conflicts, world, faults, loose, late>>

LEMMA ClaimForm ==
    ASSUME FlightInv, NEW w \in Worker, NEW g \in Gens, Claim(w, g)
    PROVE  Claims(w, g)
  <1>. DEFINE b == [Idle EXCEPT !.pc = "claimed", !.job = g]
  <1>. DEFINE j == [jobs[g] EXCEPT !.state = "running", !.owner = w, !.live = TRUE]
  <1>0. /\ TypeOK /\ JobsOK /\ LeaseOK /\ WireOK /\ work[w] = Idle /\ Due(g) /\ Step(w, b)
        /\ \A x \in Gens \ {g} : ~(jobs[x].state = "running" /\ jobs[x].live)
        /\ jobs' = [jobs EXCEPT ![g] = j] /\ open' = open \ Closed
        /\ lease' = (IF lease.effect \in Closed THEN NoLease ELSE lease)
        /\ licensed' = licensed \cup {e.name : e \in Closed}
        /\ UNCHANGED <<ops, head, target, ledger, conflicts, world, faults, loose, late>>
        /\ jobs \in [Gens -> Job]
    <2>1. TypeOK /\ JobsOK /\ LeaseOK /\ WireOK
      BY DEF FlightInv
    <2>2. jobs \in [Gens -> Job]
      BY <2>1 DEF TypeOK
    <2>. QED
      BY <2>1, <2>2 DEF Claim, Step
  <1>1. g \in 0..MaxGen
    BY AdapterOutboxAssumption DEF Gens
  <1>2. /\ b \in Run /\ b.pc = "claimed" /\ b.job = g /\ b.todo = {} /\ b.phase = "write"
        /\ \A n \in Name : b.seen[n] = "absent"
    BY <1>1, IdleFits DEF Idle, Run
  <1>3. j \in Job /\ j.kind = jobs[g].kind /\ j.state = "running" /\ j.owner = w /\ j.live
    BY <1>0 DEF Job
  <1>. HIDE DEF j
  <1>4. Fits(b)
    BY <1>2 DEF Fits, TodoOK, PhaseOK, SeenOK, EndOK
  <1>5. Moved(w) /\ work'[w] = b
    BY <1>0, <1>2, StepFacts DEF Moved
  <1>6. g <= target.gen
    <2>1. ~(g > target.gen)
      BY <1>0 DEF JobsOK, NoJob, Due
    <2>2. g \in Nat /\ target.gen \in Nat
      BY <1>0, Consts DEF TypeOK
    <2>. QED
      BY <2>1, <2>2
  <1>7. \A h \in Gens : h # g => ~jobs[h].live
    BY <1>0 DEF JobsOK
  <1>8. CASE lease.effect = None
    <2>1. lease.effect \notin Closed
      BY <1>0, <1>8, Consts DEF Closed, TypeOK
    <2>. QED
      BY <1>0, <1>2, <1>3, <1>4, <1>5, <1>6, <1>7, <1>8, <2>1 DEF Claims
  <1>9. CASE lease.effect # None /\ ~lease.live
    <2>1. lease.effect \in Closed
      BY <1>0, <1>9 DEF Closed, LeaseOK
    <2>2. wire = {}
      BY <1>9, WireBusy
    <2>. QED
      BY <1>0, <1>2, <1>3, <1>4, <1>5, <1>6, <1>7, <1>9, <2>1, <2>2 DEF Claims
  <1>10. CASE lease.effect # None /\ lease.live
    <2>1. lease.effect \notin Closed
      BY <1>10 DEF Closed
    <2>2. lease.effect.job # g
      BY <1>0, <1>10 DEF LeaseOK, Due
    <2>. QED
      BY <1>0, <1>2, <1>3, <1>4, <1>5, <1>6, <1>7, <1>10, <2>1, <2>2 DEF Claims
  <1>. QED
    BY <1>8, <1>9, <1>10

LEMMA ClaimFlight ==
    ASSUME FlightInv, NEW w \in Worker, NEW g \in Gens, Claims(w, g)
    PROVE  FlightInv'
  <1>0. /\ TypeOK /\ RunsOK /\ JobsOK /\ LeaseOK /\ WireOK
        /\ \A v \in Worker : v # w => work'[v] = work[v]
        /\ work' \in [Worker -> Run] /\ Idle.pc = "idle" /\ Idle.job = 0
    BY DEF FlightInv, Claims, Moved, Idle
  <1>. USE DEF Claims
  <1>a. target.gen \in Gens /\ Gens \subseteq Nat /\ target.gen \in Nat
    BY <1>0, Consts DEF TypeOK
  <1>1. TypeOK'
    <2>1. lease' \in [effect : Effect \cup {None}, live : BOOLEAN]
      BY <1>0, IdleFits DEF TypeOK
    <2>2. open' \subseteq Effect
      BY <1>0 DEF TypeOK
    <2>3. licensed' \subseteq Name
      BY <1>0 DEF TypeOK, Closed, Effect
    <2>. QED
      BY <1>0, <2>1, <2>2, <2>3 DEF TypeOK, world
  <1>2. RunsOK'
    <2>1. Ahead
      <3>1. \A h \in 1..target.gen : h \in Gens
        BY <1>a, AdapterOutboxAssumption DEF Gens
      <3>. QED
        BY <1>a, <3>1 DEF Ahead
    <2>2. RunOK(w)'
      <3>1. g \in 1..target'.gen
        BY <1>a, Consts
      <3>. QED
        BY <3>1 DEF RunOK, Loaded
    <2>. QED
      BY <1>0, <2>1, <2>2, RunKept DEF RunsOK
  <1>3. JobsOK'
    <2>1. w # None
      BY Consts
    <2>2. \A h \in Gens : h > target.gen => h # g
      BY <1>a
    <2>3. jobs[g].state # "none"
      BY DEF Due
    <2>. QED
      BY <1>0, <1>a, <2>1, <2>2, <2>3 DEF JobsOK
  <1>4. LeaseOK'
    <2>1. ASSUME NEW v \in Worker, work'[v].pc = "prepared", JobOf(v)'.owner = v, JobOf(v)'.live
          PROVE  lease' = [effect |-> Own(v)', live |-> TRUE]
      <3>1. v # w /\ work'[v] = work[v]
        BY <1>0, <2>1
      <3>2. work[v].job \in Gens /\ work[v].job # g
        BY <2>1, <3>1, RunFacts DEF JobOf
      <3>3. JobOf(v)' = JobOf(v)
        BY <3>1, <3>2 DEF JobOf
      <3>4. lease = [effect |-> Own(v), live |-> TRUE]
        BY <1>0, <2>1, <3>1, <3>3 DEF LeaseOK
      <3>5. Own(v) # None
        BY <2>1, <3>1, RowFacts
      <3>6. Own(v)' = Own(v)
        BY <3>1 DEF Own, EffectOf, Row
      <3>. QED
        BY <3>4, <3>5, <3>6
    <2>2. ASSUME lease'.effect # None
          PROVE  LET j == jobs'[lease'.effect.job]
                 IN /\ lease'.effect \in open'
                    /\ j.state \notin {"none", "queued"}
                    /\ j.state = "running" =>
                         j.owner = lease'.effect.worker /\ (lease'.live => j.live)
      <3>1. lease' = lease /\ lease.live /\ lease.effect.job # g
        BY <2>2 DEF NoLease
      <3>2. lease.effect.job \in Gens
        BY <1>0, <2>2, <3>1 DEF TypeOK, Effect
      <3>. QED
        BY <1>0, <2>2, <3>1, <3>2 DEF LeaseOK, Closed
    <2>. QED
      BY <2>1, <2>2 DEF LeaseOK
  <1>5. WireOK'
    <2>1. ASSUME NEW q \in wire
          PROVE  /\ lease' = [effect |-> q.effect, live |-> TRUE] /\ q.effect.job # g
      <3>1. /\ lease = [effect |-> q.effect, live |-> TRUE] /\ lease.effect # None /\ lease.live
        BY WireBusy
      <3>. QED
        BY <3>1
    <2>2. \A q \in wire, v \in Worker : work'[v].pc \in {"prepared", "finish"} => Own(v)' # q.effect
      <3>1. \A v \in Worker : work'[v].pc \in {"prepared", "finish"} => work'[v] = work[v]
        BY <1>0
      <3>. HIDE DEF Claims
      <3>. QED
        BY <1>0, <3>1 DEF WireOK, Own, EffectOf, Row
    <2>3. ASSUME NEW q \in wire
          PROVE  LET v == q.effect.worker
                 IN /\ work'[v].job = q.effect.job => q.awaited
                    /\ q.awaited => /\ work'[v].pc = "wait" /\ Own(v)' = q.effect
                                    /\ q.rev = work'[v].rev
                                    /\ q.method = Method(work'[v], q.effect.name)
      <3>0. q.effect.worker \in Worker
        BY <1>0 DEF TypeOK, Request, Effect
      <3>1. CASE q.effect.worker # w
        <4>1. work'[q.effect.worker] = work[q.effect.worker]
          BY <1>0, <3>0, <3>1
        <4>. QED
          BY <1>0, <4>1 DEF WireOK, Own, EffectOf, Row
      <3>2. CASE q.effect.worker = w
        <4>1. ~q.awaited
          BY <1>0, <3>2 DEF WireOK
        <4>. QED
          BY <2>1, <3>2, <4>1
      <3>. QED
        BY <3>1, <3>2
    <2>. QED
      BY <1>0, <2>1, <2>2, <2>3 DEF WireOK, OneWriteInFlight, world
  <1>. QED
    BY <1>1, <1>2, <1>3, <1>4, <1>5 DEF FlightInv

\* A lapse lowers flags of the leases and nothing else.
Lapses ==
    /\ jobs' \in [Gens -> Job] /\ lease' \in [effect : Effect \cup {None}, live : BOOLEAN]
    /\ \A g \in Gens : /\ jobs'[g].kind = jobs[g].kind /\ jobs'[g].state = jobs[g].state
                       /\ jobs'[g].owner = jobs[g].owner /\ (jobs'[g].live => jobs[g].live)
    /\ lease'.effect = lease.effect
    /\ UNCHANGED <<ops, head, target, ledger, open, conflicts, world, work, faults, history>>

LEMMA LapseFlight ==
    ASSUME FlightInv, Lapses, lease' = lease \/ wire = {},
           \A g \in Gens : jobs'[g].live => \/ jobs'[g] = jobs[g] /\ lease' = lease
                                            \/ lease.effect = None
                                            \/ lease.effect.job # g
                                            \/ lease.effect.worker # jobs[g].owner,
           lease'.live /\ lease.effect # None =>
             /\ lease' = lease
             /\ \A g \in Gens : jobs[g].live /\ ~jobs'[g].live =>
                  ~(lease.effect.job = g /\ lease.effect.worker = jobs[g].owner)
    PROVE  FlightInv'
  <1>0. TypeOK /\ RunsOK /\ JobsOK /\ LeaseOK /\ WireOK
    BY DEF FlightInv
  <1>. USE DEF Lapses
  <1>1. TypeOK'
    BY <1>0 DEF TypeOK, world, history
  <1>2. RunsOK'
    <2>1. Ahead
      <3>1. target.gen \in Gens /\ target.gen \in Nat
        BY <1>0, Consts DEF TypeOK
      <3>2. \A h \in 1..target.gen : h \in Gens
        BY <3>1, AdapterOutboxAssumption DEF Gens
      <3>. QED
        BY <3>1, <3>2 DEF Ahead
    <2>. QED
      BY <2>1, RunKept DEF RunsOK
  <1>3. JobsOK'
    <2>1. ASSUME NEW g \in Gens, jobs[g] = NoJob PROVE jobs'[g] = NoJob
      <3>1. jobs'[g] \in Job
        BY <2>1
      <3>2. /\ jobs'[g].kind = "converge" /\ jobs'[g].owner = None /\ jobs'[g].live = FALSE
            /\ jobs'[g].state = "none"
        BY <2>1, <3>1 DEF NoJob, Job
      <3>. QED
        BY <3>1, <3>2 DEF Job, NoJob
    <2>2. target.gen \in Gens
      BY <1>0 DEF TypeOK
    <2>. QED
      BY <1>0, <2>1, <2>2 DEF JobsOK
  <1>4. LeaseOK'
    <2>1. ASSUME NEW v \in Worker, work[v].pc = "prepared", jobs'[work[v].job].owner = v,
                 jobs'[work[v].job].live
          PROVE  lease' = [effect |-> Own(v), live |-> TRUE]
      <3>1. work[v].job \in Gens /\ Own(v) # None /\ Own(v).job = work[v].job /\ Own(v).worker = v
        BY <2>1, RowFacts
      <3>2. JobOf(v).owner = v /\ JobOf(v).live
        BY <2>1, <3>1 DEF JobOf
      <3>3. lease = [effect |-> Own(v), live |-> TRUE]
        BY <1>0, <2>1, <3>2 DEF LeaseOK
      <3>4. lease.effect = Own(v)
        BY <3>3
      <3>5. ~(lease.effect = None \/ lease.effect.job # work[v].job
              \/ lease.effect.worker # jobs[work[v].job].owner)
        BY <3>1, <3>2, <3>4 DEF JobOf
      <3>6. lease' = lease
        BY <2>1, <3>1, <3>5
      <3>. QED
        BY <3>3, <3>6
    <2>2. ASSUME lease'.effect # None
          PROVE  LET j == jobs'[lease'.effect.job]
                 IN /\ lease'.effect \in open'
                    /\ j.state \notin {"none", "queued"}
                    /\ j.state = "running" =>
                         j.owner = lease'.effect.worker /\ (lease'.live => j.live)
      <3>1. lease.effect.job \in Gens /\ lease.effect # None
        BY <1>0, <2>2 DEF TypeOK, Effect
      <3>. QED
        BY <1>0, <2>2, <3>1 DEF LeaseOK
    <2>. QED
      BY <2>1, <2>2 DEF LeaseOK, JobOf, Own, EffectOf, Row
  <1>5. WireOK'
    BY <1>0 DEF WireOK, OneWriteInFlight, Own, EffectOf, Row, world
  <1>. QED
    BY <1>1, <1>2, <1>3, <1>4, <1>5 DEF FlightInv

LEMMA LapseJobFlight ==
    ASSUME FlightInv, NEW g \in Gens, LapseJob(g)
    PROVE  FlightInv' /\ Lapses
  <1>0. TypeOK /\ JobsOK /\ jobs \in [Gens -> Job]
        /\ lease \in [effect : Effect \cup {None}, live : BOOLEAN]
    BY DEF FlightInv, TypeOK
  <1>. DEFINE j == [jobs[g] EXCEPT !.live = FALSE]
  <1>1. /\ jobs' = [jobs EXCEPT ![g] = j] /\ jobs[g].state = "running" /\ jobs[g].live
        /\ UNCHANGED <<ops, head, target, ledger, open, conflicts, world, work, faults, history>>
    BY DEF LapseJob
  <1>2. /\ j \in Job /\ j.kind = jobs[g].kind /\ j.state = jobs[g].state
        /\ j.owner = jobs[g].owner /\ ~j.live
    BY <1>0 DEF Job
  <1>. HIDE DEF j
  <1>3. \A h \in Gens : /\ jobs'[h].kind = jobs[h].kind /\ jobs'[h].state = jobs[h].state
                        /\ jobs'[h].owner = jobs[h].owner /\ (jobs'[h].live => jobs[h].live)
                        /\ h # g => jobs'[h] = jobs[h] /\ ~jobs[h].live
                        /\ ~jobs'[h].live
    BY <1>0, <1>1, <1>2 DEF JobsOK
  <1>4. jobs' \in [Gens -> Job]
    BY <1>0, <1>1, <1>2
  <1>5. CASE Holds(g)
    <2>1. lease' = [lease EXCEPT !.live = FALSE] /\ Late(lease.effect)
      BY <1>5 DEF LapseJob
    <2>2. /\ lease' \in [effect : Effect \cup {None}, live : BOOLEAN]
          /\ lease'.effect = lease.effect /\ ~lease'.live
      BY <1>0, <2>1
    <2>3. wire = {}
      BY <2>1, WireBusy DEF Late
    <2>4. Lapses
      BY <1>1, <1>3, <1>4, <2>2 DEF Lapses
    <2>. QED
      BY <1>3, <2>2, <2>3, <2>4, LapseFlight
  <1>6. CASE ~Holds(g)
    <2>1. lease' = lease
      BY <1>6 DEF LapseJob
    <2>2. Lapses
      BY <1>0, <1>1, <1>3, <1>4, <2>1 DEF Lapses
    <2>3. lease.effect # None =>
            \A h \in Gens : jobs[h].live /\ ~jobs'[h].live =>
              ~(lease.effect.job = h /\ lease.effect.worker = jobs[h].owner)
      BY <1>3, <1>6 DEF Holds
    <2>. QED
      BY <1>3, <2>1, <2>2, <2>3, LapseFlight
  <1>. QED
    BY <1>5, <1>6

LEMMA LapseProviderFlight ==
    ASSUME FlightInv, LapseProvider
    PROVE  FlightInv' /\ Lapses
  <1>0. /\ lease \in [effect : Effect \cup {None}, live : BOOLEAN] /\ jobs \in [Gens -> Job]
    BY DEF FlightInv, TypeOK
  <1>1. /\ Late(lease.effect) /\ lease' = [lease EXCEPT !.live = FALSE]
        /\ ~(Holds(lease.effect.job) /\ jobs[lease.effect.job].live)
        /\ UNCHANGED <<ops, head, target, jobs, ledger, open, conflicts, world, work, faults, history>>
    BY DEF LapseProvider
  <1>2. /\ lease' \in [effect : Effect \cup {None}, live : BOOLEAN]
        /\ lease'.effect = lease.effect /\ ~lease'.live
    BY <1>0, <1>1
  <1>3. wire = {}
    BY <1>1, WireBusy DEF Late
  <1>4. Lapses
    BY <1>0, <1>1, <1>2 DEF Lapses
  <1>5. \A g \in Gens : jobs[g].live => \/ lease.effect = None \/ lease.effect.job # g
                                        \/ lease.effect.worker # jobs[g].owner
    BY <1>1 DEF Holds
  <1>. QED
    BY <1>1, <1>2, <1>3, <1>4, <1>5, LapseFlight

LEMMA OperateFlight ==
    ASSUME FlightInv, Operate
    PROVE  FlightInv'
  <1>0. TypeOK /\ target \in Target
    BY DEF FlightInv, TypeOK, Target
  <1>1. /\ ops' = ops /\ head' \in Revs /\ ledger' \in [Name -> Rows] /\ UNCHANGED <<open, world>>
        /\ conflicts' \subseteq Gens \X Name /\ faults' = faults /\ UNCHANGED <<loose, late>>
        /\ licensed' \subseteq Name /\ work' = work /\ (lease' = lease \/ lease' = NoLease)
    <2>. DEFINE Facts ==
           /\ ops' = ops /\ head' \in Revs /\ ledger' \in [Name -> Rows] /\ UNCHANGED <<open, world>>
           /\ conflicts' \subseteq Gens \X Name /\ faults' = faults /\ UNCHANGED <<loose, late>>
           /\ licensed' \subseteq Name /\ work' = work /\ (lease' = lease \/ lease' = NoLease)
    <2>. SUFFICES Facts
      OBVIOUS
    <2>0. /\ head \in Revs /\ ledger \in [Name -> Rows] /\ conflicts \subseteq Gens \X Name
          /\ licensed \subseteq Name /\ Released \in [Name -> Rows]
      BY <1>0 DEF TypeOK, Released, Rows
    <2>1. CASE Publish
      BY <2>0, <2>1 DEF Publish, history
    <2>2. CASE Manual
      BY <2>0, <2>2 DEF Manual, history
    <2>3. CASE Pause \/ Resume
      BY <2>0, <2>3 DEF Pause, Resume, history
    <2>4. ASSUME NEW n \in Name, Adopt(n) PROVE Facts
      BY <2>0, <2>4 DEF Adopt, Rows
    <2>5. ASSUME NEW keepRemote \in BOOLEAN, Teardown(keepRemote) PROVE Facts
      BY <2>0, <2>5 DEF Teardown, history
    <2>6. CASE ReplaceCredential \/ RevokeCredential
      BY <2>0, <2>6 DEF ReplaceCredential, RevokeCredential, history
    <2>. QED
      BY <2>1, <2>2, <2>3, <2>4, <2>5, <2>6 DEF Operate
  <1>2. CASE UNCHANGED <<target, jobs, lease, ledger, open, world, work, history>>
    <2>1. TypeOK'
      BY <1>0, <1>1, <1>2 DEF TypeOK, world, history
    <2>2. RunsOK' /\ JobsOK' /\ LeaseOK' /\ WireOK'
      BY <1>2 DEF FlightInv, RunsOK, RunOK, JobsOK, LeaseOK, WireOK, OneWriteInFlight, JobOf, Own,
                  EffectOf, Row, world
    <2>. QED
      BY <2>1, <2>2 DEF FlightInv
  <1>3. CASE NewGoal
    <2>1. target' \in Target /\ jobs' \in [Gens -> Job]
      BY <1>3 DEF NewGoal
    <2>2. TypeOK'
      BY <1>0, <1>1, <2>1, IdleFits DEF TypeOK, world, Target
    <2>. QED
      BY <1>3, <2>2, GoalStep DEF FlightInv
  <1>. QED
    BY <1>2, <1>3, OperateFacts

LEMMA FlightInit == ASSUME Init PROVE FlightInv
  <1>0. /\ target = [gen |-> 1, state |-> "active", paused |-> FALSE, active |-> 1,
                     status |-> "converging", rev |-> 0, cred |-> TRUE]
        /\ jobs = [g \in Gens |-> IF g = 1 THEN [NoJob EXCEPT !.state = "queued"] ELSE NoJob]
        /\ lease = NoLease /\ wire = {} /\ adrift = {} /\ applied = 0 /\ work = [w \in Worker |-> Idle]
    BY DEF Init
  <1>1. 1 \in Gens /\ 1 \in 0..MaxGen /\ 0 \in 0..MaxGen /\ 0 \in 0..Len(Contents) /\ 0 \in 0..Foreign
        /\ 0 \in 0..MaxFaults
    BY Consts, AdapterOutboxAssumption DEF Gens, Foreign
  <1>2. [NoJob EXCEPT !.state = "queued"] \in Job
    BY DEF NoJob, Job
  <1>3. TypeOK
    <2>1. jobs \in [Gens -> Job]
      BY <1>0, <1>2, IdleFits
    <2>2. target \in Target
      BY <1>0, <1>1 DEF Target
    <2>3. ledger \in [Name -> Rows] /\ provider \in [Name -> 0..Foreign]
      BY <1>1 DEF Init, Rows
    <2>. QED
      BY <1>0, <1>1, <2>1, <2>2, <2>3, IdleFits DEF TypeOK, Target, Init
  <1>4. RunsOK
    <2>1. Fits(Idle) /\ Idle.pc = "idle" /\ Idle.job = 0 /\ ~Loaded(Idle)
      BY DEF Idle, Fits, TodoOK, PhaseOK, SeenOK, EndOK, Loaded
    <2>. QED
      BY <1>0, <2>1 DEF RunsOK, RunOK
  <1>5. JobsOK
    BY <1>0, <1>1, Consts DEF JobsOK, NoJob
  <1>6. LeaseOK
    BY <1>0 DEF LeaseOK, NoLease, Idle
  <1>7. WireOK
    BY <1>0 DEF WireOK, OneWriteInFlight
  <1>. QED
    BY <1>3, <1>4, <1>5, <1>6, <1>7 DEF FlightInv

LEMMA FlightStutter == ASSUME FlightInv, UNCHANGED vars PROVE FlightInv'
  <1>1. TypeOK'
    BY DEF FlightInv, TypeOK, vars, store, world, history
  <1>2. RunsOK' /\ JobsOK' /\ LeaseOK' /\ WireOK'
    BY DEF FlightInv, RunsOK, RunOK, JobsOK, LeaseOK, WireOK, OneWriteInFlight, JobOf, Own,
           EffectOf, Row, vars, store, world
  <1>. QED
    BY <1>1, <1>2 DEF FlightInv

\* The kinds of steps the outbox takes.
Kind ==
    \/ UNCHANGED <<target, jobs, lease, ledger, open, world, work, history>>
    \/ NewGoal /\ (SameGoods \/ Adopted \/ TornDown)
    \/ \E w \in Worker : \/ Quiet(w) \/ (Loads(w) /\ Load(w)) \/ Unsent(w) \/ Prepares(w)
                         \/ Sends(w) \/ Finishes(w) \/ Settles(w) \/ Crashes(w)
                         \/ \E g \in Gens : Claims(w, g)
    \/ \E q \in wire : Handled(q) \/ Missed(q)
    \/ \E q \in adrift : Landed(q)
    \/ \E n \in Name : Intrude(n)
    \/ Lapses

LEMMA FlightNext ==
    ASSUME FlightInv, [Next]_vars
    PROVE  FlightInv' /\ Kind
  <1>1. CASE UNCHANGED vars
    BY <1>1, FlightStutter DEF Kind, vars, store
  <1>2. CASE Operate
    BY <1>2, OperateFlight, OperateFacts DEF Kind
  <1>3. ASSUME NEW w \in Worker, Attempt(w) PROVE FlightInv' /\ Kind
    <2>1. CASE Load(w)
      <3>1. FlightInv' /\ (GaveUp(w) \/ Loads(w))
        BY <2>1, LoadFlight, LoadStep
      <3>2. GaveUp(w) => Quiet(w)
        BY <2>1 DEF Load, Quiet, FlightInv, TypeOK, store
      <3>. QED
        BY <2>1, <3>1, <3>2 DEF Kind
    <2>2. ASSUME Quiet(w) PROVE FlightInv' /\ Kind
      <3>1. FlightInv'
        BY <2>2, QuietFlight
      <3>2. Kind
        BY <2>2 DEF Kind
      <3>. QED
        BY <3>1, <3>2
    <2>3. CASE List(w)
      BY <2>2, <2>3, ListQuiet
    <2>4. CASE Reserve(w)
      BY <2>2, <2>4, ReserveQuiet
    <2>5. CASE Refuse(w)
      BY <2>2, <2>5, RefuseQuiet
    <2>6. CASE ReleaseReservation(w)
      BY <2>2, <2>6, ReleaseQuiet
    <2>7. CASE Prepare(w)
      <3>1. Prepares(w) => FlightInv' /\ Kind
        BY PrepareFlight DEF Kind
      <3>2. Quiet(w) \/ Prepares(w)
        BY <2>7, PrepareForm
      <3>. QED
        BY <2>2, <3>1, <3>2
    <2>8. CASE Send(w)
      <3>1. Sends(w)
        BY <2>8, SendForm
      <3>. QED
        BY <3>1, SendFlight DEF Kind
    <2>9. CASE Finish(w)
      <3>1. Finishes(w) => FlightInv' /\ Kind
        BY FinishFlight DEF Kind
      <3>2. Quiet(w) \/ Finishes(w)
        BY <2>9, FinishForm
      <3>. QED
        BY <2>2, <3>1, <3>2
    <2>10. CASE Settle(w)
      <3>1. Settles(w)
        BY <2>10, SettleForm
      <3>. QED
        BY <3>1, SettleFlight DEF Kind
    <2>11. CASE GateFails(w)
      <3>1. Unsent(w) => FlightInv' /\ Kind
        BY UnsentFlight DEF Kind
      <3>2. Quiet(w) \/ Unsent(w)
        BY <2>11, GateFailsForm
      <3>. QED
        BY <2>2, <3>1, <3>2
    <2>. QED
      BY <1>3, <2>1, <2>3, <2>4, <2>5, <2>6, <2>7, <2>8, <2>9, <2>10, <2>11 DEF Attempt
  <1>4. ASSUME NEW w \in Worker, Crash(w) PROVE FlightInv' /\ Kind
    BY <1>4, CrashForm, CrashFlight DEF Kind
  <1>5. ASSUME NEW w \in Worker, NEW g \in Gens, Claim(w, g) PROVE FlightInv' /\ Kind
    BY <1>5, ClaimForm, ClaimFlight DEF Kind
  <1>6. ASSUME NEW q \in wire, Handle(q) \/ Miss(q) \/ Linger(q) PROVE FlightInv' /\ Kind
    BY <1>6, HandleForm, HandleFlight, MissForm, LingerForm, MissFlight DEF Kind
  <1>a. ASSUME NEW q \in adrift, Land(q) PROVE FlightInv' /\ Kind
    BY <1>a, LandForm, LandFlight DEF Kind
  <1>7. ASSUME NEW n \in Name, Intrude(n) PROVE FlightInv' /\ Kind
    BY <1>7, IntrudeFlight DEF Kind
  <1>8. ASSUME NEW g \in Gens, LapseJob(g) PROVE FlightInv' /\ Kind
    BY <1>8, LapseJobFlight DEF Kind
  <1>9. CASE LapseProvider
    BY <1>9, LapseProviderFlight DEF Kind
  <1>. QED
    BY <1>1, <1>2, <1>3, <1>4, <1>5, <1>6, <1>a, <1>7, <1>8, <1>9 DEF Next

\* Only the provider's handling of a request, and somebody else, change a value there.
LEMMA WhoWrites ==
    ASSUME FlightInv, [Next]_vars
    PROVE  \/ UNCHANGED <<provider, applied>>
           \/ \E q \in wire : Handled(q)
           \/ \E q \in adrift : Landed(q)
           \/ \E n \in Name : Intrude(n)
  <1>. DEFINE Same == UNCHANGED <<provider, applied>>
  <1>1. Kind
    BY FlightNext
  <1>2. ASSUME NEW w \in Worker, Quiet(w) \/ Load(w) \/ Unsent(w) \/ Prepares(w)
        PROVE  Same
    BY <1>2 DEF Quiet, Load, Unsent, Prepares, world
  <1>3. ASSUME NEW w \in Worker, \/ Sends(w) \/ Finishes(w) \/ Settles(w) \/ Crashes(w)
                                 \/ \E g \in Gens : Claims(w, g)
        PROVE  Same
    BY <1>3 DEF Sends, Finishes, Settles, Crashes, Claims, world
  <1>4. ASSUME NEW q \in wire, Missed(q) PROVE Same
    BY <1>4 DEF Missed
  <1>5. UNCHANGED <<target, jobs, lease, ledger, open, world, work, history>> => Same
    BY DEF world
  <1>6. ASSUME NewGoal \/ Lapses PROVE Same
    BY <1>6 DEF NewGoal, Lapses, world
  <1>. HIDE DEF Same
  <1>7. Same \/ (\E q \in wire : Handled(q)) \/ (\E q \in adrift : Landed(q)) \/ (\E n \in Name : Intrude(n))
    BY <1>1, <1>2, <1>3, <1>4, <1>5, <1>6, Zenon DEF Kind
  <1>. QED
    BY <1>7 DEF Same

\* NewestWins, as a fact of a step.
LEMMA NewestStep ==
    ASSUME FlightInv, [Next]_vars, NEW n \in Name, provider'[n] # provider[n]
    PROVE  \/ provider'[n] = Foreign
           \/ \E q \in wire \ wire' : q.effect.name = n /\ q.effect.job >= applied
           \/ \E q \in adrift \ adrift' : q.effect.name = n
  <1>0. provider \in [Name -> 0..Foreign]
    BY DEF FlightInv, TypeOK
  <1>1. ASSUME NEW q \in wire, Handled(q)
        PROVE  q \in wire \ wire' /\ q.effect.name = n /\ q.effect.job >= applied
    <2>1. q.effect.job >= applied /\ wire' = {}
      BY <1>1, HandleFlight DEF Handled, Leaves
    <2>2. q.effect.name = n
      BY <1>0, <1>1 DEF Handled
    <2>. QED
      BY <2>1, <2>2
  <1>2. ASSUME NEW q \in adrift, Landed(q)
        PROVE  q \in adrift \ adrift' /\ q.effect.name = n
    BY <1>2 DEF Landed
  <1>3. ASSUME NEW m \in Name, Intrude(m) PROVE provider'[n] = Foreign
    BY <1>0, <1>3 DEF Intrude
  <1>. QED
    BY <1>1, <1>2, <1>3, WhoWrites

-----------------------------------------------------------------------------
(* What the ledger tells *)

\* Steps that write nothing of the target's and give up no name it answers for.
StoreKept ==
    /\ target'.gen = target.gen /\ target'.state = target.state
    /\ \A g \in Gens : /\ jobs'[g].kind = jobs[g].kind
                       /\ jobs'[g].state = jobs[g].state \/ jobs[g].state \in {"queued", "running"}
    /\ lease'.effect \in {lease.effect, None}
    /\ loose \subseteq loose' /\ late \subseteq late' /\ late' \subseteq loose'
    /\ \A n \in Name \ late' : provider'[n] = provider[n]
                               \/ (provider[n] \notin Revs /\ provider'[n] \notin Revs)
    /\ \A n \in Name : ledger'[n] \in Held => ledger[n] \in Held
    /\ Managed' \/ lease'.effect # None =>
         \A n \in Name : ledger[n] \in Held => ledger'[n] \in Held
Advances(v) ==
    /\ work[v].pc \in {"prepared", "wait"} /\ SamePlan(work[v], work'[v])
    /\ work'[v].pc = "finish" => work'[v].answer \in {"unsent", "unknown", "refused", "denied"}
RunsKept ==
    \A v \in Worker : \/ work'[v] = work[v]
                      \/ work'[v].pc \notin {"prepared", "wait", "finish"}
                      \/ Advances(v)

LEMMA StillManaged ==
    ASSUME FlightInv, StoreKept, Managed'
    PROVE  Managed
  <1>1. target.gen \in Gens
    BY DEF FlightInv, TypeOK
  <1>. QED
    BY <1>1 DEF StoreKept, Managed

\* A worker in the middle of a row was there before, at the same row.
LEMMA SameRow ==
    ASSUME FlightInv, RunsKept, NEW v \in Worker, work'[v].pc \in {"prepared", "wait", "finish"}
    PROVE  /\ Intends(v) /\ SamePlan(work[v], work'[v]) /\ Row(v)' = Row(v) /\ Own(v)' = Own(v)
           /\ Row(v) \in Name /\ Own(v) # None
           /\ work'[v] = work[v] \/ Advances(v)
  <1>1. Intends(v) /\ SamePlan(work[v], work'[v]) /\ (work'[v] = work[v] \/ Advances(v))
    BY DEF RunsKept, Intends, SamePlan, Advances
  <1>2. Row(v)' = Row(v)
    BY <1>1 DEF Row, SamePlan
  <1>3. Own(v)' = Own(v)
    BY <1>1, <1>2 DEF Own, EffectOf, SamePlan
  <1>. QED
    BY <1>1, <1>2, <1>3, RowFacts DEF Intends

LEMMA WrittenRev ==
    ASSUME FlightInv, NEW w \in Worker, NEW n \in Name, Wanted(work[w], n)
    PROVE  work[w].rev \in Revs
  <1>1. work[w].rev \in 0..Len(Contents) /\ work[w].rev # 0
    BY RunFacts DEF Run, Wanted
  <1>. QED
    BY <1>1, Consts DEF Revs

LEMMA LedgerKept ==
    ASSUME FlightInv, FlightInv', LedgerInv, StoreKept, RunsKept
    PROVE  LedgerInv'
  <1>0. LeasedIsHeld /\ WrittenIsHeld /\ NewIsUnwritten /\ AnswerTells
    BY DEF LedgerInv
  <1>1. LeasedIsHeld'
    <2>1. ASSUME lease'.effect # None, lease'.effect.name \notin loose'
          PROVE  ledger'[lease'.effect.name] \in Held
      <3>1. lease'.effect = lease.effect /\ lease.effect # None
        BY <2>1 DEF StoreKept
      <3>2. lease.effect.name \in Name
        BY <3>1 DEF FlightInv, TypeOK, Effect
      <3>. QED
        BY <1>0, <2>1, <3>1, <3>2 DEF LeasedIsHeld, StoreKept
    <2>. QED
      BY <2>1 DEF LeasedIsHeld
  <1>2. WrittenIsHeld'
    <2>1. ASSUME Managed', NEW n \in Name \ loose', provider'[n] \in Revs
          PROVE  ledger'[n] \in Held
      <3>1. Managed
        BY <2>1, StillManaged
      <3>2. provider[n] \in Revs /\ n \notin loose
        BY <2>1 DEF StoreKept
      <3>3. ledger[n] \in Held
        BY <1>0, <3>1, <3>2 DEF WrittenIsHeld
      <3>. QED
        BY <2>1, <3>3 DEF StoreKept
    <2>2. Revs' = Revs /\ Held' = Held /\ Name' = Name
      BY DEF Revs, Held
    <2>. QED
      BY <2>1, <2>2 DEF WrittenIsHeld
  <1>3. NewIsUnwritten'
    <2>1. ASSUME Managed', NEW v \in Worker, work'[v].pc \in {"prepared", "wait", "finish"},
                 work'[v].phase = "write", work'[v].seen[Row(v)'] = "reserved",
                 lease'.effect = Own(v)', Row(v)' \notin loose',
                 work'[v].pc = "finish" => work'[v].answer \notin {"ok", "unknown"}
          PROVE  provider'[Row(v)'] \notin Revs
      <3>1. Managed
        BY <2>1, StillManaged
      <3>2. /\ Intends(v) /\ SamePlan(work[v], work'[v]) /\ Row(v)' = Row(v) /\ Own(v)' = Own(v)
            /\ Row(v) \in Name /\ Own(v) # None
            /\ work'[v] = work[v] \/ Advances(v)
        BY <2>1, SameRow
      <3>3. lease.effect = Own(v) /\ Row(v) \notin loose /\ Row(v) \notin late'
        BY <2>1, <3>2 DEF StoreKept
      <3>4. work[v].pc = "finish" => work[v].answer \notin {"ok", "unknown"}
        BY <2>1, <3>2 DEF Advances
      <3>5. provider[Row(v)] \notin Revs
        BY <1>0, <2>1, <3>1, <3>2, <3>3, <3>4 DEF NewIsUnwritten, SamePlan
      <3>. QED
        BY <3>2, <3>3, <3>5 DEF StoreKept
    <2>. QED
      BY <2>1 DEF NewIsUnwritten, Intends
  <1>4. AnswerTells'
    <2>1. ASSUME NEW v \in Worker, work'[v].pc = "finish", lease'.effect = Own(v)'
          PROVE  /\ work'[v].answer = "notfound" /\ Row(v)' \notin late' => provider'[Row(v)'] \notin Revs
                 /\ work'[v].answer = "ok" /\ Row(v)' \notin late' =>
                      IF work'[v].phase = "delete" THEN provider'[Row(v)'] \notin Revs
                      ELSE provider'[Row(v)'] = work'[v].rev
                 /\ work'[v].answer = "conflict" =>
                      work'[v].phase = "write" /\ work'[v].seen[Row(v)'] = "reserved"
      <3>1. /\ Row(v)' = Row(v) /\ Own(v)' = Own(v) /\ Row(v) \in Name /\ Own(v) # None
            /\ work'[v] = work[v] \/ Advances(v)
        BY <2>1, SameRow
      <3>2. CASE Advances(v)
        BY <2>1, <3>2 DEF Advances
      <3>3. CASE work'[v] = work[v]
        <4>1. lease.effect = Own(v)
          BY <2>1, <3>1 DEF StoreKept
        <4>2. work[v].phase \in {"write", "delete"} /\ (work[v].phase = "write" => work[v].rev \in Revs)
          <5>1. RunOK(v) /\ work[v] \in Run /\ (work[v].phase = "write" => Wanted(work[v], Row(v)))
            BY <2>1, <3>3, RowFacts
          <5>. QED
            BY <2>1, <3>1, <3>3, <5>1, WrittenRev DEF RunOK, Fits, PhaseOK, Run
        <4>3. Row(v) \notin late' =>
                /\ Row(v) \notin late
                /\ \/ provider'[Row(v)] = provider[Row(v)]
                   \/ provider[Row(v)] \notin Revs /\ provider'[Row(v)] \notin Revs
          BY <3>1 DEF StoreKept
        <4>4. /\ work[v].answer = "notfound" /\ Row(v) \notin late => provider[Row(v)] \notin Revs
              /\ work[v].answer = "ok" /\ Row(v) \notin late =>
                   IF work[v].phase = "delete" THEN provider[Row(v)] \notin Revs
                   ELSE provider[Row(v)] = work[v].rev
              /\ work[v].answer = "conflict" =>
                   work[v].phase = "write" /\ work[v].seen[Row(v)] = "reserved"
          BY <1>0, <2>1, <3>3, <4>1 DEF AnswerTells
        <4>. QED
          BY <3>1, <3>3, <4>2, <4>3, <4>4
      <3>. QED
        BY <3>1, <3>2, <3>3
    <2>. QED
      BY <2>1 DEF AnswerTells
  <1>. QED
    BY <1>1, <1>2, <1>3, <1>4 DEF LedgerInv

\* The kinds of steps that keep the store's word.
Keeps ==
    \/ UNCHANGED <<target, jobs, lease, ledger, open, world, work, history>>
    \/ \E w \in Worker : \/ Quiet(w) \/ (Loads(w) /\ Load(w)) \/ Unsent(w) \/ Sends(w) \/ Settles(w)
                         \/ Crashes(w) \/ \E g \in Gens : Claims(w, g)
    \/ \E q \in wire : Missed(q)
    \/ \E q \in adrift : Landed(q)
    \/ \E n \in Name : Intrude(n)
    \/ Lapses

LEMMA OneMoved ==
    ASSUME NEW w \in Worker, Moved(w),
           work'[w].pc \notin {"prepared", "wait", "finish"} \/ Advances(w)
    PROVE  RunsKept
  BY DEF Moved, RunsKept

LEMMA KeepsStore ==
    ASSUME FlightInv, Keeps
    PROVE  StoreKept /\ RunsKept
  <1>0. jobs \in [Gens -> Job] /\ JobsOK /\ target.gen \in Gens /\ provider \in [Name -> 0..Foreign]
        /\ late \subseteq loose
    BY DEF FlightInv, TypeOK
  <1>1. CASE UNCHANGED <<target, jobs, lease, ledger, open, world, work, history>>
    BY <1>0, <1>1 DEF StoreKept, RunsKept, world, history
  <1>2. ASSUME NEW w \in Worker, Quiet(w) PROVE StoreKept /\ RunsKept
    <2>1. StoreKept
      BY <1>0, <1>2 DEF Quiet, StoreKept, world, history
    <2>2. Moved(w) /\ work'[w].pc \notin {"prepared", "wait", "finish"}
      BY <1>2 DEF Quiet, GaveUp, GoesOn
    <2>. QED
      BY <2>1, <2>2, OneMoved
  <1>3. ASSUME NEW w \in Worker, Loads(w), Load(w) PROVE StoreKept /\ RunsKept
    <2>1. StoreKept
      BY <1>0, <1>3 DEF Load, StoreKept, store, world, history
    <2>2. Moved(w) /\ work'[w].pc \notin {"prepared", "wait", "finish"}
      BY <1>3 DEF Loads
    <2>. QED
      BY <2>1, <2>2, OneMoved
  <1>4. ASSUME NEW w \in Worker, Unsent(w) PROVE StoreKept /\ RunsKept
    <2>1. StoreKept
      BY <1>0, <1>4 DEF Unsent, StoreKept, store, world, history
    <2>2. Moved(w) /\ Advances(w)
      BY <1>4 DEF Unsent, Advances
    <2>. QED
      BY <2>1, <2>2, OneMoved
  <1>5. ASSUME NEW w \in Worker, Sends(w) PROVE StoreKept /\ RunsKept
    <2>1. StoreKept
      BY <1>0, <1>5 DEF Sends, StoreKept, store, history
    <2>2. Moved(w) /\ Advances(w)
      BY <1>5 DEF Sends, Advances
    <2>. QED
      BY <2>1, <2>2, OneMoved
  <1>6. ASSUME NEW w \in Worker, Crashes(w) PROVE StoreKept /\ RunsKept
    <2>1. StoreKept
      BY <1>0, <1>6 DEF Crashes, StoreKept, store, history
    <2>2. Moved(w) /\ work'[w].pc = "idle"
      BY <1>6 DEF Crashes, Idle
    <2>. QED
      BY <2>1, <2>2, OneMoved
  <1>7. ASSUME NEW w \in Worker, NEW g \in Gens, Claims(w, g) PROVE StoreKept /\ RunsKept
    <2>1. StoreKept
      BY <1>0, <1>7 DEF Claims, StoreKept, NoLease, Due, world
    <2>2. Moved(w) /\ work'[w].pc = "claimed"
      BY <1>7 DEF Claims
    <2>. QED
      BY <2>1, <2>2, OneMoved
  <1>8. ASSUME NEW q \in wire, Missed(q) PROVE StoreKept /\ RunsKept
    <2>1. StoreKept
      BY <1>0, <1>8 DEF Missed, Leaves, StoreKept, store, history
    <2>2. PICK w \in Worker : w = q.effect.worker
      BY DEF FlightInv, TypeOK, Request, Effect
    <2>3. work' = work \/ (Moved(w) /\ Advances(w))
      BY <1>8, <2>2 DEF Missed, Answered, Advances
    <2>. QED
      BY <2>1, <2>3, OneMoved DEF RunsKept
  <1>9. ASSUME NEW n \in Name, Intrude(n) PROVE StoreKept /\ RunsKept
    <2>1. provider[n] = 0 /\ provider' = [provider EXCEPT ![n] = Foreign]
          /\ UNCHANGED <<target, jobs, lease, ledger, work, loose, late>>
      BY <1>9 DEF Intrude, store, history
    <2>2. \A m \in Name : provider'[m] = provider[m]
                          \/ (provider[m] \notin Revs /\ provider'[m] \notin Revs)
      BY <1>0, <2>1, Consts
    <2>. QED
      BY <1>0, <2>1, <2>2 DEF StoreKept, RunsKept
  <1>10. CASE Lapses
    BY <1>0, <1>10 DEF Lapses, StoreKept, RunsKept, world, history
  <1>11. ASSUME NEW w \in Worker, Settles(w) PROVE StoreKept /\ RunsKept
    <2>. DEFINE g == work[w].job
    <2>0. /\ Moved(w) /\ work'[w].pc = "idle" /\ UNCHANGED <<lease, provider, loose, late>>
          /\ late \subseteq loose /\ g \in Gens
      BY <1>0, <1>11, RunFacts DEF Settles, Idle, world, history
    <2>1. RunsKept
      BY <2>0, OneMoved
    <2>2. CASE UNCHANGED <<jobs, target, ledger>>
      BY <2>0, <2>1, <2>2 DEF StoreKept
    <2>3. ASSUME NEW s, JobEnds(w, s)
          PROVE  /\ jobs[g].state = "running" /\ target'.gen = target.gen
                 /\ target'.state = target.state
                 /\ jobs'[g].state = s /\ jobs'[g].kind = jobs[g].kind
                 /\ \A h \in Gens : /\ jobs'[h].kind = jobs[h].kind
                                    /\ jobs'[h].state = jobs[h].state \/ jobs[h].state \in {"queued", "running"}
      <3>1. jobs[g].state = "running"
        BY <1>0, <2>0, <2>3, Consts DEF JobsOK, JobEnds
      <3>. QED
        BY <2>0, <2>3, <3>1 DEF JobEnds
    <2>4. ASSUME NEW s, JobEnds(w, s), ledger' = ledger PROVE StoreKept
      BY <2>0, <2>3, <2>4 DEF StoreKept
    <2>5. ASSUME JobEnds(w, "failed"), ledger' = Released, JobOf(w).kind = "scrub", Accepted(w)
          PROVE  StoreKept
      <3>1. g = target.gen /\ target.state = "tombstoned"
        BY <1>0, <2>0, <2>5 DEF JobsOK, JobOf
      <3>2. ~Managed'
        BY <2>3, <2>5, <3>1 DEF Managed
      <3>3. lease.effect = None /\ \A n \in Name : ledger'[n] \notin Held
        BY <2>5 DEF Accepted, Released, Held
      <3>. QED
        BY <2>0, <2>3, <2>5, <3>2, <3>3 DEF StoreKept
    <2>. QED
      BY <1>11, <2>1, <2>2, <2>4, <2>5 DEF Settles, SettleAborts, SettleFails, SettleOK
  <1>12. ASSUME NEW q \in adrift, Landed(q) PROVE StoreKept /\ RunsKept
    BY <1>12 DEF Landed, StoreKept, RunsKept, store
  <1>. QED
    BY <1>1, <1>2, <1>3, <1>4, <1>5, <1>6, <1>7, <1>8, <1>9, <1>10, <1>11, <1>12 DEF Keeps

\* A new goal moves no attempt and keeps a recorded request's row.
LEMMA GoalRows ==
    ASSUME FlightInv, NewGoal, NEW v \in Worker, Intends(v), lease'.effect = Own(v)
    PROVE  lease' = lease
  <1>1. Own(v) # None
    BY RowFacts DEF Intends
  <1>. QED
    BY <1>1 DEF NewGoal, NoLease

LEMMA LedgerGoal ==
    ASSUME FlightInv, LedgerInv, NewGoal, SameGoods \/ Adopted \/ TornDown
    PROVE  LedgerInv'
  <1>0. LeasedIsHeld /\ WrittenIsHeld /\ NewIsUnwritten /\ AnswerTells
    BY DEF LedgerInv
  <1>a. /\ Managed /\ UNCHANGED <<work, provider, loose, late>> /\ ledger \in [Name -> Rows]
        /\ lease' = lease \/ lease' = NoLease
    BY DEF Managed, NewGoal, SameGoods, Adopted, TornDown, FlightInv, TypeOK
  <1>1. LeasedIsHeld'
    <2>1. lease'.effect # None => lease' = lease /\ ledger' = ledger
      BY <1>a DEF NoLease, SameGoods, Adopted, TornDown
    <2>. QED
      BY <1>0, <1>a, <2>1 DEF LeasedIsHeld
  <1>2. WrittenIsHeld'
    <2>1. Managed' => \A n \in Name : ledger[n] \in Held => ledger'[n] \in Held
      <3>1. CASE SameGoods
        BY <3>1 DEF SameGoods
      <3>2. CASE Adopted
        BY <1>a, <3>2 DEF Adopted, Held
      <3>3. CASE TornDown
        BY <3>3 DEF TornDown, NewGoal, Managed
      <3>. QED
        BY <3>1, <3>2, <3>3
    <2>. QED
      BY <1>0, <1>a, <2>1 DEF WrittenIsHeld
  <1>b. \A v \in Worker : Intends(v) /\ lease'.effect = Own(v) => lease' = lease
    BY GoalRows
  <1>3. NewIsUnwritten'
    BY <1>0, <1>a, <1>b DEF NewIsUnwritten, Intends, Own, EffectOf, Row
  <1>4. AnswerTells'
    BY <1>0, <1>a, <1>b DEF AnswerTells, Intends, Own, EffectOf, Row
  <1>. QED
    BY <1>1, <1>2, <1>3, <1>4 DEF LedgerInv

LEMMA LedgerPrepare ==
    ASSUME FlightInv, LedgerInv, NEW w \in Worker, Prepares(w)
    PROVE  LedgerInv'
  <1>. DEFINE n == Row(w)
  <1>. DEFINE new == work[w].phase = "write" /\ work[w].seen[n] = "reserved"
  <1>0. LeasedIsHeld /\ WrittenIsHeld /\ NewIsUnwritten /\ AnswerTells
    BY DEF LedgerInv
  <1>1. /\ Moved(w) /\ work[w].pc \in {"reserved", "delete"} /\ SamePlan(work[w], work'[w])
        /\ work'[w].pc = "prepared"
        /\ lease' = [effect |-> Own(w), live |-> TRUE]
        /\ IF new THEN ledger[n] = "reserved" /\ ledger' = [ledger EXCEPT ![n] = "dispatched"]
                  ELSE ledger' = ledger
        /\ loose' = IF ~new /\ ledger[n] \notin Held THEN loose \cup {n} ELSE loose
        /\ UNCHANGED <<target, jobs, provider, late>>
    BY DEF Prepares, world
  <1>2. /\ n \in Name /\ Own(w).name = n /\ Own(w).worker = w
    BY <1>1, RowFacts
  <1>3. /\ Row(w)' = n /\ Own(w)' = Own(w)
        /\ \A v \in Worker : v # w => Own(v)' = Own(v) /\ work'[v] = work[v]
    BY <1>1, SamePlanStep DEF Moved
  <1>4. \A v \in Worker : lease'.effect = Own(v)' => v = w
    <2>1. \A v \in Worker : Own(v).worker = v
      BY DEF Own, EffectOf
    <2>. QED
      BY <1>1, <1>2, <1>3, <2>1
  <1>5. ledger \in [Name -> Rows] /\ ledger'[n] \in Held \cup {ledger[n]}
        /\ \A m \in Name : ledger[m] \in Held => ledger'[m] \in Held
    <2>1. ledger \in [Name -> Rows]
      BY DEF FlightInv, TypeOK
    <2>. QED
      BY <1>1, <1>2, <2>1 DEF Held
  <1>6. LeasedIsHeld'
    BY <1>1, <1>2, <1>5 DEF LeasedIsHeld, Held
  <1>7. WrittenIsHeld'
    BY <1>0, <1>1, <1>5 DEF WrittenIsHeld, Managed
  <1>8. NewIsUnwritten'
    <2>1. ASSUME Managed', work'[w].phase = "write", work'[w].seen[n] = "reserved", n \notin loose'
          PROVE  provider'[n] \notin Revs
      <3>1. new /\ Managed /\ n \notin loose
        BY <1>1, <2>1 DEF SamePlan, Managed
      <3>. QED
        BY <1>0, <1>1, <1>2, <3>1 DEF WrittenIsHeld, Held
    <2>. QED
      BY <1>3, <1>4, <2>1 DEF NewIsUnwritten
  <1>9. AnswerTells'
    BY <1>1, <1>4 DEF AnswerTells
  <1>. QED
    BY <1>6, <1>7, <1>8, <1>9 DEF LedgerInv

\* What a settled row says, for a name of the target's at the provider.
LEMMA SettledHeld ==
    ASSUME FlightInv, LedgerInv, NEW w \in Worker, Finishes(w), Managed, Row(w) \notin loose,
           provider[Row(w)] \in Revs
    PROVE  ledger'[Row(w)] \in Held
  <1>. DEFINE a == work[w]
  <1>. DEFINE n == Row(w)
  <1>0. WrittenIsHeld /\ NewIsUnwritten /\ AnswerTells /\ n \notin late
    BY DEF LedgerInv, FlightInv, TypeOK
  <1>1. /\ a.pc = "finish" /\ lease.effect = Own(w) /\ ledger \in [Name -> Rows]
        /\ ledger' = [ledger EXCEPT ![n] = IF @ = "released" /\ Settled(a, n) # "absent"
                                           THEN @ ELSE Settled(a, n)]
    BY DEF Finishes, FlightInv, TypeOK
  <1>2. /\ a \in Run /\ RunOK(w) /\ n \in Name /\ a.seen[n] \in Rows
        /\ a.phase = "delete" => a.seen[n] \in Held
    BY <1>1, RowFacts
  <1>3. /\ a.answer \in Answer /\ a.phase \in {"write", "delete"} /\ a.seen[n] # "released"
        /\ a.phase = "write" => a.seen[n] # "absent"
    BY <1>1, <1>2 DEF RunOK, Fits, EndOK, PhaseOK, SeenOK, Run, Row
  <1>4. ledger[n] \in Held
    BY <1>0, <1>2 DEF WrittenIsHeld
  <1>5. ledger'[n] = Settled(a, n)
    BY <1>1, <1>2, <1>4 DEF Held
  <1>6. /\ a.answer # "notfound"
        /\ a.answer = "ok" => a.phase # "delete"
        /\ a.answer = "conflict" => a.phase = "write" /\ a.seen[n] = "reserved"
    BY <1>0, <1>1 DEF AnswerTells
  <1>7. a.phase = "write" /\ a.seen[n] = "reserved" => a.answer \in {"ok", "unknown"}
    BY <1>0, <1>1 DEF NewIsUnwritten, Intends
  <1>8. a.seen[n] \in {"reserved", "dispatched", "owned"}
    BY <1>2, <1>3 DEF Rows, Held
  <1>9. Settled(a, n) \in {"dispatched", "owned"}
    BY <1>2, <1>3, <1>6, <1>7, <1>8 DEF Settled, Answer, Held
  <1>. QED
    BY <1>5, <1>9 DEF Held

LEMMA LedgerFinish ==
    ASSUME FlightInv, LedgerInv, NEW w \in Worker, Finishes(w)
    PROVE  LedgerInv'
  <1>. DEFINE n == Row(w)
  <1>0. LeasedIsHeld /\ WrittenIsHeld /\ NewIsUnwritten /\ AnswerTells
    BY DEF LedgerInv
  <1>1. /\ Moved(w) /\ work'[w].pc \notin {"prepared", "wait", "finish"} /\ work[w].pc = "finish"
        /\ lease' = NoLease /\ UNCHANGED <<target, jobs, provider, loose, late>>
        /\ \A m \in Name : m # n => ledger'[m] = ledger[m]
    BY DEF Finishes, GaveUp, world, FlightInv, TypeOK
  <1>2. n \in Name
    BY <1>1, RowFacts
  <1>3. LeasedIsHeld'
    BY <1>1 DEF LeasedIsHeld, NoLease
  <1>4. WrittenIsHeld'
    <2>1. ASSUME Managed', NEW m \in Name \ loose', provider'[m] \in Revs
          PROVE  ledger'[m] \in Held
      <3>1. Managed /\ m \notin loose /\ provider[m] \in Revs
        BY <1>1, <2>1 DEF Managed
      <3>2. CASE m = n
        BY <3>1, <3>2, SettledHeld
      <3>3. CASE m # n
        BY <1>0, <1>1, <3>1, <3>3 DEF WrittenIsHeld
      <3>. QED
        BY <3>2, <3>3
    <2>. QED
      BY <2>1 DEF WrittenIsHeld
  <1>5. ASSUME NEW v \in Worker, Intends(v)' PROVE Own(v)' # lease'.effect
    <2>1. v # w /\ work'[v] = work[v]
      BY <1>1, <1>5 DEF Moved, Intends
    <2>2. Own(v) # None /\ Own(v)' = Own(v)
      BY <1>5, <2>1, RowFacts DEF Intends, Own, EffectOf, Row
    <2>. QED
      BY <1>1, <2>2 DEF NoLease
  <1>6. NewIsUnwritten'
    BY <1>5 DEF NewIsUnwritten
  <1>7. AnswerTells'
    BY <1>5 DEF AnswerTells, Intends
  <1>. QED
    BY <1>3, <1>4, <1>6, <1>7 DEF LedgerInv

\* The request the provider handles is the recorded one, and an attempt that has it as its
\* own waits for it.
LEMMA HandledFacts ==
    ASSUME FlightInv, NEW q \in wire, Handled(q)
    PROVE  /\ q.effect \in Effect /\ q.effect.name \in Name /\ q.effect.worker \in Worker
           /\ lease.effect = q.effect /\ q.effect # None /\ q.effect \in open
           /\ UNCHANGED <<store, history>> /\ wire' = {} /\ wire = {q}
           /\ \A m \in Name : m # q.effect.name => provider'[m] = provider[m]
           /\ \A v \in Worker : SamePlan(work[v], work'[v]) /\ Row(v)' = Row(v) /\ Own(v)' = Own(v)
           /\ \A v \in Worker : \/ work'[v] = work[v]
                                \/ /\ v = q.effect.worker /\ q.awaited
                                   /\ work[v].pc = "wait" /\ work'[v].pc = "finish"
  <1>1. /\ q.effect \in Effect /\ lease = [effect |-> q.effect, live |-> TRUE] /\ lease.effect # None
    BY WireBusy
  <1>2. /\ q.effect.name \in Name /\ q.effect.worker \in Worker
    BY <1>1 DEF Effect
  <1>3. lease.effect = q.effect /\ q.effect \in open
    BY <1>1 DEF FlightInv, LeaseOK
  <1>4. UNCHANGED <<store, history>> /\ wire' = {} /\ wire = {q}
    BY DEF Handled, Leaves
  <1>5. \A m \in Name : m # q.effect.name => provider'[m] = provider[m]
    BY <1>2 DEF Handled, FlightInv, TypeOK
  <1>6. PICK answer : Answered(q, answer)
    BY DEF Handled
  <1>7. \A v \in Worker : \/ work'[v] = work[v]
                          \/ /\ v = q.effect.worker /\ q.awaited
                             /\ work[v].pc = "wait" /\ work'[v].pc = "finish"
                             /\ SamePlan(work[v], work'[v])
    BY <1>2, <1>6 DEF Answered, Moved
  <1>8. \A v \in Worker : SamePlan(work[v], work'[v])
    BY <1>7 DEF SamePlan
  <1>9. \A v \in Worker : Row(v)' = Row(v) /\ Own(v)' = Own(v)
    BY <1>8 DEF SamePlan, Row, Own, EffectOf
  <1>. QED
    BY <1>1, <1>2, <1>3, <1>4, <1>5, <1>7, <1>8, <1>9

\* The attempt whose request is handled has just been answered.
LEMMA HandledOwn ==
    ASSUME FlightInv, NEW q \in wire, Handled(q), NEW v \in Worker,
           work'[v].pc \in {"prepared", "wait", "finish"}, lease.effect = Own(v)
    PROVE  /\ v = q.effect.worker /\ q.awaited /\ work[v].pc = "wait" /\ work'[v].pc = "finish"
           /\ Row(v) = q.effect.name /\ q.rev = work[v].rev /\ q.method = Method(work[v], Row(v))
  <1>1. lease.effect = q.effect
    BY HandledFacts
  <1>2. SamePlan(work[v], work'[v])
    BY HandledFacts
  <1>3. \/ work'[v] = work[v]
        \/ /\ v = q.effect.worker /\ q.awaited /\ work[v].pc = "wait" /\ work'[v].pc = "finish"
    BY HandledFacts
  <1>4. Own(v).worker = v /\ Own(v).name = Row(v) /\ Own(v).job = work[v].job
    BY DEF Own, EffectOf
  <1>5. q.effect.worker = v /\ work[v].job = q.effect.job
    BY <1>1, <1>4
  <1>6. q.awaited /\ work[v].pc = "wait" /\ q.rev = work[v].rev
        /\ q.method = Method(work[v], q.effect.name)
    BY <1>5 DEF FlightInv, WireOK
  <1>7. work'[v].pc = "finish"
    <2>1. PICK answer : Answered(q, answer)
      BY DEF Handled
    <2>. QED
      BY <1>5, <1>6, <2>1 DEF Answered
  <1>. QED
    BY <1>1, <1>4, <1>5, <1>6, <1>7

LEMMA LedgerHandle ==
    ASSUME FlightInv, LedgerInv, NEW q \in wire, Handled(q)
    PROVE  LedgerInv'
  <1>. DEFINE n == q.effect.name
  <1>0. LeasedIsHeld /\ WrittenIsHeld /\ NewIsUnwritten /\ AnswerTells
    BY DEF LedgerInv
  <1>1. /\ n \in Name /\ lease.effect = q.effect /\ lease.effect # None
        /\ UNCHANGED <<target, jobs, lease, ledger, loose, late>>
        /\ \A m \in Name : m # n => provider'[m] = provider[m]
    BY HandledFacts DEF store, history
  <1>2. LeasedIsHeld'
    BY <1>0, <1>1 DEF LeasedIsHeld
  <1>3. WrittenIsHeld'
    <2>1. ASSUME Managed', NEW m \in Name \ loose', provider'[m] \in Revs
          PROVE  ledger'[m] \in Held
      <3>1. Managed /\ m \notin loose
        BY <1>1, <2>1 DEF Managed
      <3>2. CASE m = n
        BY <1>0, <1>1, <3>1, <3>2 DEF LeasedIsHeld
      <3>3. CASE m # n
        BY <1>0, <1>1, <2>1, <3>1, <3>3 DEF WrittenIsHeld
      <3>. QED
        BY <3>2, <3>3
    <2>. QED
      BY <2>1 DEF WrittenIsHeld
  <1>4. NewIsUnwritten'
    <2>1. ASSUME NEW v \in Worker, Managed', work'[v].pc \in {"prepared", "wait", "finish"},
                 work'[v].phase = "write", work'[v].seen[Row(v)'] = "reserved",
                 lease'.effect = Own(v)', Row(v)' \notin loose',
                 work'[v].pc = "finish" => work'[v].answer \notin {"ok", "unknown"}
          PROVE  provider'[Row(v)'] \notin Revs
      <3>1. Own(v)' = Own(v) /\ Row(v)' = Row(v) /\ SamePlan(work[v], work'[v])
        BY HandledFacts
      <3>2. lease.effect = Own(v) /\ Managed
        BY <1>1, <2>1, <3>1 DEF Managed
      <3>3. v = q.effect.worker /\ q.awaited /\ work[v].pc = "wait" /\ work'[v].pc = "finish"
        BY <2>1, <3>2, HandledOwn
      <3>4. provider[Row(v)] \notin Revs
        BY <1>0, <1>1, <2>1, <3>1, <3>2, <3>3 DEF NewIsUnwritten, Intends, SamePlan
      <3>5. provider' = provider
        BY <2>1, <3>3 DEF Handled, Answered
      <3>. QED
        BY <3>1, <3>4, <3>5
    <2>. QED
      BY <2>1 DEF NewIsUnwritten, Intends
  <1>5. AnswerTells'
    <2>1. ASSUME NEW v \in Worker, work'[v].pc = "finish", lease'.effect = Own(v)'
          PROVE  /\ work'[v].answer = "notfound" => provider'[Row(v)'] \notin Revs
                 /\ work'[v].answer = "ok" =>
                      IF work'[v].phase = "delete" THEN provider'[Row(v)'] \notin Revs
                      ELSE provider'[Row(v)'] = work'[v].rev
                 /\ work'[v].answer = "conflict" =>
                      work'[v].phase = "write" /\ work'[v].seen[Row(v)'] = "reserved"
      <3>1. Own(v)' = Own(v) /\ Row(v)' = Row(v) /\ SamePlan(work[v], work'[v])
        BY HandledFacts
      <3>2. lease.effect = Own(v)
        BY <1>1, <2>1, <3>1
      <3>3. /\ v = q.effect.worker /\ q.awaited /\ work[v].pc = "wait"
            /\ Row(v) = n /\ q.rev = work[v].rev /\ q.method = Method(work[v], n)
        BY <2>1, <3>2, HandledOwn
      <3>4. /\ work[v].phase \in {"write", "delete"} /\ work[v].seen[n] \in Rows
            /\ work[v].seen[n] # "released" /\ (work[v].phase = "write" => work[v].seen[n] # "absent")
        <4>1. work[v] \in Run /\ RunOK(v) /\ work[v].seen[Row(v)] \in Rows /\ Row(v) \in Name
          BY <3>3, RowFacts
        <4>. QED
          BY <3>3, <4>1 DEF RunOK, Fits, PhaseOK, SeenOK, Run, Row
      <3>5. provider \in [Name -> 0..Foreign] /\ 0 \notin Revs
        BY Consts DEF FlightInv, TypeOK
      <3>. DEFINE does == \/ q.method = "put" \/ (q.method = "post" /\ ~(provider[n] # 0))
                          \/ (q.method \in {"patch", "delete"} /\ provider[n] # 0)
      <3>6. CASE does
        <4>1. /\ provider' = [provider EXCEPT ![n] = IF q.method = "delete" THEN 0 ELSE q.rev]
              /\ work'[v].answer \in {"ok", "unknown"}
          BY <3>3, <3>6 DEF Handled, Answered
        <4>2. provider'[n] = IF q.method = "delete" THEN 0 ELSE q.rev
          BY <1>1, <3>5, <4>1
        <4>3. q.method = "delete" <=> work[v].phase = "delete"
          BY <3>3 DEF Method
        <4>. QED
          BY <3>1, <3>3, <3>4, <3>5, <4>1, <4>2, <4>3 DEF SamePlan
      <3>7. CASE ~does
        <4>1. /\ provider' = provider
              /\ work'[v].answer \in {IF q.method = "post" THEN "conflict" ELSE "notfound", "unknown"}
          BY <3>3, <3>7 DEF Handled, Answered
        <4>2. q.method \in {"put", "post", "patch", "delete"}
          BY <3>3 DEF Method
        <4>3. q.method # "post" => provider[n] = 0
          BY <3>7, <4>2
        <4>4. q.method = "post" => work[v].phase = "write" /\ work[v].seen[n] = "reserved"
          BY <3>3, <3>4 DEF Method, Rows
        <4>. QED
          BY <3>1, <3>3, <3>5, <4>1, <4>3, <4>4 DEF SamePlan
      <3>. QED
        BY <3>6, <3>7
    <2>. QED
      BY <2>1 DEF AnswerTells
  <1>. QED
    BY <1>2, <1>3, <1>4, <1>5 DEF LedgerInv

LEMMA LedgerInit == ASSUME Init PROVE LedgerInv
  <1>1. /\ lease.effect = None /\ \A n \in Name : provider[n] \notin Revs
        /\ \A w \in Worker : work[w].pc = "idle"
    BY Consts DEF Init, NoLease, Idle
  <1>. QED
    BY <1>1 DEF LedgerInv, LeasedIsHeld, WrittenIsHeld, NewIsUnwritten, AnswerTells, Intends

LEMMA KindsOfSteps ==
    ASSUME FlightInv, [Next]_vars
    PROVE  \/ Keeps
           \/ NewGoal /\ (SameGoods \/ Adopted \/ TornDown)
           \/ \E w \in Worker : Prepares(w) \/ Finishes(w)
           \/ \E q \in wire : Handled(q)
  <1>1. Kind
    BY FlightNext
  <1>. QED
    BY <1>1 DEF Kind, Keeps

LEMMA LedgerNext ==
    ASSUME FlightInv, LedgerInv, [Next]_vars
    PROVE  LedgerInv'
  <1>0. FlightInv'
    BY FlightNext
  <1>1. CASE Keeps
    BY <1>0, <1>1, KeepsStore, LedgerKept
  <1>2. CASE NewGoal /\ (SameGoods \/ Adopted \/ TornDown)
    BY <1>2, LedgerGoal
  <1>3. ASSUME NEW w \in Worker, Prepares(w) PROVE LedgerInv'
    BY <1>3, LedgerPrepare
  <1>4. ASSUME NEW w \in Worker, Finishes(w) PROVE LedgerInv'
    BY <1>4, LedgerFinish
  <1>5. ASSUME NEW q \in wire, Handled(q) PROVE LedgerInv'
    BY <1>5, LedgerHandle
  <1>. QED
    BY <1>1, <1>2, <1>3, <1>4, <1>5, KindsOfSteps

-----------------------------------------------------------------------------
(* What an attempt has done stays done *)

SameDone(v) == /\ work'[v].rev = work[v].rev /\ work'[v].job = work[v].job
               /\ Written(work'[v]) = Written(work[v]) /\ Clean(work'[v]) = Clean(work[v])

\* Steps that reach no goal and begin no plan.
GoalsKept ==
    /\ target'.state = "active" /\ target'.status = "converged" =>
         target.status = "converged" /\ target'.rev = target.rev
    /\ \A g \in Gens : \/ jobs'[g].state = jobs[g].state
                       \/ jobs[g].state \in {"queued", "running"} /\ jobs'[g].state # "succeeded"
    /\ \A v \in Worker : Current(v)' => Current(v) /\ SameDone(v)

\* A name of the delivered revision, or of none.
LEMMA WrittenFacts ==
    ASSUME FlightInv, NEW v \in Worker, NEW n \in Written(work[v])
    PROVE  n \in Name /\ work[v].rev \in Revs
  BY WrittenRev DEF Written

LEMMA GoalKept ==
    ASSUME FlightInv, GoalInv, StoreKept, GoalsKept
    PROVE  GoalInv'
  <1>0. /\ DoneStays /\ PredecessorApart /\ Converged /\ ConvergedMeansWritten
        /\ Scrubbed /\ ScrubLeavesNothing /\ target.gen \in Gens
    BY DEF GoalInv, FlightInv, TypeOK
  <1>1. DoneStays'
    <2>1. ASSUME NEW v \in Worker, Current(v)'
          PROVE  /\ \A n \in Written(work'[v]) \ late' : provider'[n] = work'[v].rev
                 /\ \A n \in Clean(work'[v]) \ loose' :
                      provider'[n] \notin Revs /\ ledger'[n] \notin Held
      <3>1. Current(v) /\ SameDone(v)
        BY <2>1 DEF GoalsKept
      <3>2. ASSUME NEW n \in Written(work'[v]) \ late' PROVE provider'[n] = work'[v].rev
        <4>1. n \in Written(work[v]) \ late /\ n \in Name /\ work[v].rev \in Revs
          BY <3>1, <3>2, WrittenFacts DEF SameDone, StoreKept
        <4>2. provider[n] = work[v].rev
          BY <1>0, <3>1, <4>1 DEF DoneStays
        <4>. QED
          BY <3>1, <3>2, <4>1, <4>2 DEF StoreKept, SameDone
      <3>3. ASSUME NEW n \in Clean(work'[v]) \ loose'
            PROVE  provider'[n] \notin Revs /\ ledger'[n] \notin Held
        <4>1. n \in Clean(work[v]) \ loose /\ n \in Name
          BY <3>1, <3>3 DEF SameDone, StoreKept, Clean
        <4>2. provider[n] \notin Revs /\ ledger[n] \notin Held
          BY <1>0, <3>1, <4>1 DEF DoneStays
        <4>. QED
          BY <3>3, <4>1, <4>2 DEF StoreKept
      <3>. QED
        BY <3>2, <3>3
    <2>. QED
      BY <2>1 DEF DoneStays, Revs, Held
  <1>2. PredecessorApart'
    <2>1. ASSUME NEW v \in Worker, Current(v)', lease'.effect # None,
                 lease'.effect.job # work'[v].job
          PROVE  /\ lease'.effect.name \notin Written(work'[v])
                 /\ lease'.effect.name \notin Clean(work'[v]) \ loose'
      <3>1. Current(v) /\ SameDone(v) /\ lease'.effect = lease.effect /\ loose \subseteq loose'
        BY <2>1 DEF GoalsKept, StoreKept
      <3>. QED
        BY <1>0, <2>1, <3>1 DEF PredecessorApart, SameDone
    <2>. QED
      BY <2>1 DEF PredecessorApart
  <1>3. ASSUME target'.state = "active", target'.status = "converged"
        PROVE  /\ target.state = "active" /\ target.status = "converged" /\ target'.rev = target.rev
               /\ jobs'[target'.gen].state = jobs[target.gen].state
               /\ jobs[target.gen].state \in {"succeeded", "none"}
               /\ lease'.effect = None /\ target.rev \in Revs
    <2>1. /\ target.state = "active" /\ target.status = "converged" /\ target'.rev = target.rev
      BY <1>3 DEF GoalsKept, StoreKept
    <2>2. jobs[target.gen].state \in {"succeeded", "none"} /\ lease.effect = None /\ target.rev \in Revs
      BY <1>0, <2>1 DEF Converged
    <2>3. jobs'[target'.gen].state = jobs[target.gen].state /\ lease'.effect = None
      BY <1>0, <2>2 DEF GoalsKept, StoreKept
    <2>. QED
      BY <2>1, <2>2, <2>3
  <1>4. Converged'
    BY <1>3 DEF Converged, Revs
  <1>5. ConvergedMeansWritten'
    <2>1. ASSUME target'.state = "active", target'.status = "converged"
          PROVE  /\ \A n \in Contents[target.rev] \ late' : provider'[n] = target.rev
                 /\ \A n \in Name \ (Contents[target.rev] \cup loose') : provider'[n] \notin Revs
      <3>1. target.state = "active" /\ target.status = "converged" /\ target.rev \in Revs
        BY <1>3, <2>1
      <3>2. Contents[target.rev] \subseteq Name
        BY <3>1, Consts
      <3>3. /\ \A n \in Contents[target.rev] \ late : provider[n] = target.rev
            /\ \A n \in Name \ (Contents[target.rev] \cup loose) : provider[n] \notin Revs
        BY <1>0, <3>1 DEF ConvergedMeansWritten
      <3>. QED
        BY <3>1, <3>2, <3>3 DEF StoreKept
    <2>. QED
      BY <1>3, <2>1 DEF ConvergedMeansWritten, Revs
  <1>6. \A g \in Gens : jobs'[g].kind = "scrub" /\ jobs'[g].state = "succeeded" =>
                          jobs[g].kind = "scrub" /\ jobs[g].state = "succeeded"
    BY DEF GoalsKept, StoreKept
  <1>7. Scrubbed'
    BY <1>0, <1>6 DEF Scrubbed, StoreKept
  <1>8. ScrubLeavesNothing'
    BY <1>0, <1>6 DEF ScrubLeavesNothing, StoreKept
  <1>. QED
    BY <1>1, <1>2, <1>4, <1>5, <1>7, <1>8 DEF GoalInv

LEMMA SameDoneFacts ==
    ASSUME NEW v, SamePlan(work[v], work'[v])
    PROVE  SameDone(v)
  BY SamePlanFacts DEF SamePlan, SameDone

\* Only the owner of the target's job can be at its goal.
LEMMA OneCurrent ==
    ASSUME NEW w \in Worker, NEW v \in Worker, Current(v), target.gen = work[w].job,
           JobOf(w).owner = w
    PROVE  v = w
  BY DEF Current, JobOf

\* One attempt moves under the same jobs and target.
LEMMA MovedGoals ==
    ASSUME NEW w \in Worker, Moved(w), UNCHANGED <<target, jobs>>,
           ~Loaded(work'[w]) \/ (Loaded(work[w]) /\ SameDone(w))
    PROVE  GoalsKept
  <1>1. ASSUME NEW v \in Worker, Current(v)' PROVE Current(v) /\ SameDone(v)
    <2>1. CASE v = w
      BY <1>1, <2>1 DEF Current, JobOf, SameDone
    <2>2. CASE v # w
      <3>1. work'[v] = work[v]
        BY <2>2 DEF Moved
      <3>. QED
        BY <1>1, <3>1 DEF Current, JobOf, SameDone
    <2>. QED
      BY <2>1, <2>2
  <1>. QED
    BY <1>1 DEF GoalsKept

\* The steps that reach no goal and begin no plan.
LEMMA KeepsGoals ==
    ASSUME FlightInv, Keeps,
           \A w \in Worker : ~(Loads(w) /\ Load(w)) /\ ~(Settles(w) /\ SettleOK(w))
    PROVE  GoalsKept
  <1>1. CASE UNCHANGED <<target, jobs, lease, ledger, open, world, work, history>>
    BY <1>1 DEF GoalsKept, Current, JobOf, SameDone
  <1>2. ASSUME NEW w \in Worker, Quiet(w) PROVE GoalsKept
    <2>1. Moved(w) /\ UNCHANGED <<target, jobs>>
      BY <1>2 DEF Quiet, GaveUp, GoesOn
    <2>2. ~Loaded(work'[w]) \/ (Loaded(work[w]) /\ SameDone(w))
      BY <1>2 DEF Quiet, GaveUp, GoesOn, SameDone
    <2>. QED
      BY <2>1, <2>2, MovedGoals
  <1>3. ASSUME NEW w \in Worker, Unsent(w) \/ Sends(w) PROVE GoalsKept
    <2>1. /\ Moved(w) /\ UNCHANGED <<target, jobs>> /\ SamePlan(work[w], work'[w])
          /\ work[w].pc = "prepared"
      BY <1>3 DEF Unsent, Sends, store
    <2>2. Loaded(work[w]) /\ SameDone(w)
      BY <2>1, SameDoneFacts DEF Loaded
    <2>. QED
      BY <2>1, <2>2, MovedGoals
  <1>4. ASSUME NEW w \in Worker, Crashes(w) PROVE GoalsKept
    BY <1>4, MovedGoals DEF Crashes, store, Loaded, Idle
  <1>5. ASSUME NEW q \in wire, Missed(q) PROVE GoalsKept
    <2>1. PICK w \in Worker : w = q.effect.worker
      BY DEF FlightInv, TypeOK, Request, Effect
    <2>2. CASE work' = work
      BY <1>5, <2>2 DEF GoalsKept, Current, JobOf, SameDone, Missed, Leaves, store
    <2>3. CASE Moved(w) /\ work[w].pc = "wait" /\ SamePlan(work[w], work'[w])
      <3>1. Loaded(work[w]) /\ SameDone(w)
        BY <2>3, SameDoneFacts DEF Loaded
      <3>2. UNCHANGED <<target, jobs>>
        BY <1>5 DEF Missed, Leaves, store
      <3>. QED
        BY <2>3, <3>1, <3>2, MovedGoals
    <2>. QED
      BY <1>5, <2>1, <2>2, <2>3 DEF Missed, Answered
  <1>6. ASSUME NEW n \in Name, Intrude(n) PROVE GoalsKept
    BY <1>6 DEF Intrude, GoalsKept, Current, JobOf, SameDone, store
  <1>7. CASE Lapses
    <2>1. \A v \in Worker : Current(v)' => Current(v) /\ SameDone(v)
      <3>1. ASSUME NEW v \in Worker, Current(v)' PROVE Current(v) /\ SameDone(v)
        <4>1. work' = work /\ target' = target /\ target.gen \in Gens
          BY <1>7 DEF Lapses, FlightInv, TypeOK
        <4>2. work[v].job = target.gen
          BY <3>1, <4>1 DEF Current
        <4>3. JobOf(v)'.owner = JobOf(v).owner
          BY <1>7, <4>1, <4>2 DEF Lapses, JobOf
        <4>. QED
          BY <3>1, <4>1, <4>3 DEF Current, SameDone
      <3>. QED
        BY <3>1
    <2>. QED
      BY <1>7, <2>1 DEF Lapses, GoalsKept
  <1>8. ASSUME NEW w \in Worker, NEW g \in Gens, Claims(w, g) PROVE GoalsKept
    <2>1. \A v \in Worker : Current(v)' => Current(v) /\ SameDone(v)
      <3>1. ASSUME NEW v \in Worker, Current(v)' PROVE Current(v) /\ SameDone(v)
        <4>1. target' = target /\ target.gen \in Gens
          BY <1>8 DEF Claims, FlightInv, TypeOK
        <4>2. v # w
          BY <1>8, <3>1 DEF Claims, Current, Loaded
        <4>3. work'[v] = work[v] /\ work[v].job = target.gen
          BY <1>8, <3>1, <4>1, <4>2 DEF Claims, Moved, Current
        <4>4. work[v].job # g
          BY <1>8, <3>1, <4>2, <4>3 DEF Claims, Current, JobOf
        <4>5. JobOf(v)' = JobOf(v)
          BY <1>8, <4>1, <4>3, <4>4 DEF Claims, JobOf
        <4>. QED
          BY <3>1, <4>1, <4>3, <4>5 DEF Current, SameDone
      <3>. QED
        BY <3>1
    <2>. QED
      BY <1>8, <2>1 DEF Claims, GoalsKept, Due
  <1>9. ASSUME NEW w \in Worker, Settles(w), ~SettleOK(w) PROVE GoalsKept
    <2>0. Moved(w) /\ ~Loaded(work'[w]) /\ work[w].job \in Gens /\ JobsOK
      BY <1>9, RunFacts DEF Settles, Idle, Loaded, FlightInv
    <2>1. CASE UNCHANGED <<jobs, target, ledger>>
      BY <2>0, <2>1, MovedGoals
    <2>2. ASSUME NEW s \in {"failed", "queued"}, JobEnds(w, s),
                 target' = target \/ target'.status = "failed"
          PROVE  GoalsKept
      <3>1. \A v \in Worker : Current(v)' => Current(v) /\ SameDone(v)
        <4>1. ASSUME NEW v \in Worker, Current(v)' PROVE Current(v) /\ SameDone(v)
          <5>1. target'.gen = target.gen /\ target.gen \in Gens
            BY <2>2 DEF JobEnds, FlightInv, TypeOK
          <5>2. v # w
            BY <2>0, <4>1 DEF Current
          <5>3. work'[v] = work[v] /\ work[v].job = target.gen
            BY <2>0, <4>1, <5>1, <5>2 DEF Moved, Current
          <5>4. work[v].job # work[w].job
            BY <2>2, <4>1, <5>3, Consts DEF JobEnds, Current, JobOf
          <5>5. JobOf(v)' = JobOf(v)
            BY <2>2, <5>1, <5>3, <5>4 DEF JobEnds, JobOf
          <5>. QED
            BY <4>1, <5>1, <5>3, <5>5 DEF Current, SameDone
        <4>. QED
          BY <4>1
      <3>2. jobs[work[w].job].state = "running"
        BY <2>0, <2>2, Consts DEF JobsOK, JobEnds
      <3>. QED
        BY <2>0, <2>2, <3>1, <3>2 DEF GoalsKept, JobEnds
    <2>. QED
      BY <1>9, <2>1, <2>2 DEF Settles, SettleAborts, SettleFails
  <1>10. ASSUME NEW q \in adrift, Landed(q) PROVE GoalsKept
    BY <1>10 DEF Landed, GoalsKept, Current, JobOf, SameDone, store
  <1>. QED
    BY <1>1, <1>2, <1>3, <1>4, <1>5, <1>6, <1>7, <1>8, <1>9, <1>10 DEF Keeps

\* The job of a passed gate is the target's, and the target answers for its names.
LEMMA GateManaged ==
    ASSUME FlightInv, NEW w \in Worker, target.gen = work[w].job, JobOf(w).owner = w
    PROVE  /\ Managed /\ jobs[target.gen].state = "running" /\ jobs[target.gen].owner = w
  <1>1. target.gen \in Gens /\ target \in Target /\ JobsOK
    BY DEF FlightInv, TypeOK, Target
  <1>2. jobs[target.gen].state = "running" /\ jobs[target.gen].owner = w
    BY <1>1, Consts DEF JobOf, JobsOK
  <1>. QED
    BY <1>1, <1>2 DEF Managed, JobsOK, Target

\* A plan begins with nothing written, and with every row the ledger holds.
LEMMA GoalLoad ==
    ASSUME FlightInv, LedgerInv, GoalInv, NEW w \in Worker, Loads(w), Load(w)
    PROVE  GoalInv'
  <1>. DEFINE b == work'[w]
  <1>0. /\ DoneStays /\ PredecessorApart /\ Converged /\ ConvergedMeansWritten
        /\ Scrubbed /\ ScrubLeavesNothing /\ LeasedIsHeld /\ WrittenIsHeld
    BY DEF GoalInv, LedgerInv
  <1>1. /\ UNCHANGED <<target, jobs, lease, ledger, provider, loose, late>> /\ Gate(w)
        /\ Moved(w) /\ b.job = work[w].job /\ b.phase = "write"
        /\ b.todo = (IF b.rev = 0 THEN {} ELSE Contents[b.rev])
        /\ \A n \in Name : b.seen[n] = IF ledger[n] = "released" THEN "absent" ELSE ledger[n]
    BY DEF Loads, Load, store, world, history
  <1>2. Managed /\ jobs[target.gen].state = "running"
    BY <1>1, GateManaged DEF Gate
  <1>3. Written(b) = {}
    BY <1>1 DEF Written, Wanted
  <1>4. \A n \in Clean(b) : n \in Name /\ ledger[n] \notin Held
    BY <1>1 DEF Clean, Held
  <1>5. \A n \in Clean(b) \ loose : provider[n] \notin Revs
    BY <1>0, <1>2, <1>4 DEF WrittenIsHeld
  <1>6. \A v \in Worker : Current(v)' /\ v # w => Current(v) /\ work'[v] = work[v]
    BY <1>1 DEF Moved, Current, JobOf
  <1>7. DoneStays'
    <2>1. ASSUME NEW v \in Worker, Current(v)'
          PROVE  /\ \A n \in Written(work'[v]) \ late : provider[n] = work'[v].rev
                 /\ \A n \in Clean(work'[v]) \ loose :
                      provider[n] \notin Revs /\ ledger[n] \notin Held
      <3>1. CASE v = w
        BY <1>3, <1>4, <1>5, <3>1
      <3>2. CASE v # w
        BY <1>0, <1>6, <2>1, <3>2 DEF DoneStays
      <3>. QED
        BY <3>1, <3>2
    <2>. QED
      BY <1>1, <2>1 DEF DoneStays, Revs, Held
  <1>8. PredecessorApart'
    <2>1. ASSUME NEW v \in Worker, Current(v)', lease.effect # None, lease.effect.job # work'[v].job
          PROVE  /\ lease.effect.name \notin Written(work'[v])
                 /\ lease.effect.name \notin Clean(work'[v]) \ loose
      <3>1. CASE v = w
        BY <1>0, <1>3, <1>4, <2>1, <3>1 DEF LeasedIsHeld
      <3>2. CASE v # w
        BY <1>0, <1>6, <2>1, <3>2 DEF PredecessorApart
      <3>. QED
        BY <3>1, <3>2
    <2>. QED
      BY <1>1, <2>1 DEF PredecessorApart
  <1>9. Converged' /\ ConvergedMeansWritten' /\ Scrubbed' /\ ScrubLeavesNothing'
    BY <1>0, <1>1 DEF Converged, ConvergedMeansWritten, Scrubbed, ScrubLeavesNothing
  <1>. QED
    BY <1>7, <1>8, <1>9 DEF GoalInv

\* A job that succeeds has written what it wants and left nothing else.
LEMMA GoalSettle ==
    ASSUME FlightInv, GoalInv, NEW w \in Worker, Settles(w), SettleOK(w)
    PROVE  GoalInv'
  <1>. DEFINE a == work[w]
  <1>0. /\ DoneStays /\ JobsOK /\ target.gen \in Gens
    BY DEF GoalInv, FlightInv, TypeOK
  <1>1. /\ UNCHANGED <<lease, provider, loose, late, ledger>> /\ lease.effect = None
        /\ target.gen = a.job /\ a.pc = "settle" /\ a.cause = "ok" /\ Moved(w) /\ work'[w] = Idle
        /\ target'.gen = target.gen /\ target'.state = target.state
        /\ target'.rev = IF a.rev = 0 THEN target.rev ELSE a.rev
        /\ jobs[target.gen].owner = w /\ jobs'[target.gen].kind = jobs[target.gen].kind
        /\ jobs'[target.gen].state = "succeeded" /\ jobs'[target.gen].owner = None
        /\ \A h \in Gens : h # target.gen => jobs'[h] = jobs[h]
    BY DEF Settles, SettleOK, JobEnds, Accepted, world, history
  <1>2. /\ a \in Run /\ RunOK(w) /\ Loaded(a) /\ Current(w)
    BY <1>1, RunFacts DEF Loaded, Current, JobOf
  <1>3. /\ a.todo = {} /\ (a.phase = "delete" \/ \A n \in Name : a.seen[n] \in Held => Wanted(a, n))
        /\ (a.rev = 0 <=> jobs[a.job].kind = "scrub") /\ a.rev \in 0..Len(Contents)
    BY <1>1, <1>2 DEF RunOK, Fits, EndOK, Run
  <1>4. \A n \in Name : IF Wanted(a, n) THEN n \in Written(a) ELSE n \in Clean(a)
    BY <1>3 DEF Written, Clean
  <1>5. /\ \A n \in Name \ late : Wanted(a, n) => provider[n] = a.rev
        /\ \A n \in Name \ loose : ~Wanted(a, n) => provider[n] \notin Revs /\ ledger[n] \notin Held
    BY <1>0, <1>2, <1>4 DEF DoneStays
  <1>6. \A v \in Worker : ~Current(v)'
    <2>1. ASSUME NEW v \in Worker, Current(v)' PROVE FALSE
      <3>1. v # w
        BY <1>1, <2>1 DEF Current, Loaded, Idle
      <3>2. work'[v].job = target.gen
        BY <1>1, <2>1 DEF Current
      <3>3. jobs'[target.gen].owner = v
        BY <2>1, <3>2 DEF Current, JobOf
      <3>. QED
        BY <1>1, <3>3, Consts
    <2>. QED
      BY <2>1
  <1>7. DoneStays' /\ PredecessorApart'
    BY <1>6 DEF DoneStays, PredecessorApart
  <1>8. target.state = "active" => a.rev \in Revs /\ target'.rev = a.rev
    <2>1. target.state = "active" => jobs[a.job].kind # "scrub"
      BY <1>0, <1>1 DEF JobsOK
    <2>. QED
      BY <1>1, <1>3, <2>1, Consts DEF Revs
  <1>9. Converged'
    BY <1>1, <1>8 DEF Converged, Revs
  <1>10. ConvergedMeansWritten'
    <2>1. ASSUME target.state = "active"
          PROVE  /\ \A n \in Contents[target'.rev] \ late : provider[n] = target'.rev
                 /\ \A n \in Name \ (Contents[target'.rev] \cup loose) : provider[n] \notin Revs
      <3>1. a.rev \in Revs /\ target'.rev = a.rev /\ Contents[a.rev] \subseteq Name /\ a.rev # 0
        BY <1>8, <2>1, Consts
      <3>. QED
        BY <1>5, <3>1 DEF Wanted
    <2>. QED
      BY <1>1, <2>1 DEF ConvergedMeansWritten, Revs
  <1>11. Scrubbed'
    BY <1>1 DEF Scrubbed
  <1>12. ScrubLeavesNothing'
    <2>1. ASSUME NEW g \in Gens, jobs'[g].kind = "scrub", jobs'[g].state = "succeeded"
          PROVE  \A n \in Name \ loose : provider[n] \notin Revs /\ ledger[n] \notin Held
      <3>1. jobs[g].kind = "scrub" /\ g = target.gen
        BY <1>0, <1>1, <2>1 DEF JobsOK
      <3>2. a.rev = 0
        BY <1>1, <1>3, <3>1
      <3>. QED
        BY <1>5, <3>2 DEF Wanted
    <2>. QED
      BY <1>1, <2>1 DEF ScrubLeavesNothing, Revs, Held
  <1>. QED
    BY <1>7, <1>9, <1>10, <1>11, <1>12 DEF GoalInv

LEMMA GoalGoal ==
    ASSUME FlightInv, GoalInv, NewGoal, SameGoods \/ Adopted \/ TornDown
    PROVE  GoalInv'
  <1>0. /\ Converged /\ ConvergedMeansWritten /\ JobsOK /\ RunsOK
        /\ target.gen \in Gens /\ target.gen \in Nat /\ target.state = "active"
        /\ target'.gen = target.gen + 1 /\ target'.gen \in Gens
        /\ UNCHANGED <<work, provider, loose, late>> /\ (lease' = lease \/ lease' = NoLease)
    BY Consts DEF GoalInv, FlightInv, TypeOK, NewGoal, Target, SameGoods, Adopted, TornDown
  <1>1. \A v \in Worker : ~Current(v)'
    <2>1. ASSUME NEW v \in Worker, Current(v)' PROVE FALSE
      <3>1. work[v].job = target.gen + 1 /\ work[v].pc # "idle"
        BY <1>0, <2>1 DEF Current, Loaded
      <3>2. work[v].job \in 1..target.gen
        BY <1>0, <3>1 DEF RunsOK, RunOK
      <3>. QED
        BY <1>0, <3>1, <3>2
    <2>. QED
      BY <2>1
  <1>2. DoneStays' /\ PredecessorApart'
    BY <1>1 DEF DoneStays, PredecessorApart
  <1>3. ASSUME target'.state = "active", target'.status = "converged"
        PROVE  /\ target.status = "converged" /\ target'.rev = target.rev
               /\ jobs'[target'.gen].state = "none" /\ lease'.effect = None /\ target.rev \in Revs
    <2>1. /\ target.status = "converged" /\ target'.rev = target.rev
          /\ jobs'[target'.gen].state = "none"
      BY <1>0, <1>3 DEF SameGoods, Adopted, TornDown
    <2>2. lease.effect = None /\ target.rev \in Revs
      BY <1>0, <2>1 DEF Converged
    <2>. QED
      BY <1>0, <2>1, <2>2 DEF NoLease
  <1>4. Converged'
    BY <1>3 DEF Converged, Revs
  <1>5. ConvergedMeansWritten'
    BY <1>0, <1>3 DEF ConvergedMeansWritten, Revs
  <1>6. \A g \in Gens : ~(jobs'[g].kind = "scrub" /\ jobs'[g].state = "succeeded")
    <2>1. \A g \in Gens : jobs[g].kind # "scrub"
      BY <1>0 DEF JobsOK
    <2>2. \A g \in Gens : g <= target.gen \/ g = target.gen + 1 \/ g > target.gen + 1
      <3>1. \A g \in Gens : g \in Nat
        BY Consts
      <3>2. ASSUME NEW g \in Nat, NEW h \in Nat PROVE g <= h \/ g = h + 1 \/ g > h + 1
        OBVIOUS
      <3>. QED
        BY <1>0, <3>1, <3>2
    <2>. QED
      BY <2>1, <2>2 DEF NewGoal
  <1>7. Scrubbed' /\ ScrubLeavesNothing'
    BY <1>6 DEF Scrubbed, ScrubLeavesNothing
  <1>. QED
    BY <1>2, <1>4, <1>5, <1>7 DEF GoalInv

LEMMA GoalPrepare ==
    ASSUME FlightInv, GoalInv, NEW w \in Worker, Prepares(w)
    PROVE  GoalInv'
  <1>. DEFINE n == Row(w)
  <1>0. /\ DoneStays /\ Converged /\ JobsOK /\ ledger \in [Name -> Rows]
    BY DEF GoalInv, FlightInv, TypeOK
  <1>1. /\ Moved(w) /\ SamePlan(work[w], work'[w]) /\ work[w].pc \in {"reserved", "delete"} /\ Gate(w)
        /\ UNCHANGED <<target, jobs, provider, late>> /\ loose \subseteq loose'
        /\ lease' = [effect |-> Own(w), live |-> TRUE]
        /\ \A m \in Name : ledger'[m] \in Held => ledger[m] \in Held \/ (m = n /\ work[w].phase = "write")
    BY <1>0 DEF Prepares, world, Held
  <1>2. /\ RunOK(w) /\ Loaded(work[w]) /\ n \in Name /\ Own(w).job = work[w].job
        /\ work[w].phase = "write" => Wanted(work[w], n)
    BY <1>1, RowFacts
  <1>3. jobs[target.gen].state = "running" /\ jobs[target.gen].owner = w
    BY <1>1, GateManaged DEF Gate
  <1>4. Written(work'[w]) = Written(work[w]) /\ Clean(work'[w]) = Clean(work[w])
    BY <1>1, SamePlanStep
  <1>5. \A v \in Worker : Current(v)' => v = w
    BY <1>1, <1>3 DEF Current, JobOf
  <1>6. Current(w)
    BY <1>1, <1>2 DEF Current, Gate
  <1>7. DoneStays'
    <2>1. \A m \in Written(work'[w]) \ late' : provider'[m] = work'[w].rev
      BY <1>0, <1>1, <1>4, <1>6 DEF DoneStays, SamePlan
    <2>2. ASSUME NEW m \in Clean(work'[w]) \ loose'
          PROVE  provider'[m] \notin Revs /\ ledger'[m] \notin Held
      <3>1. m \in Clean(work[w]) \ loose /\ m \in Name /\ ~Wanted(work[w], m)
        BY <1>1, <1>4, <2>2 DEF Clean
      <3>2. provider[m] \notin Revs /\ ledger[m] \notin Held
        BY <1>0, <1>6, <3>1 DEF DoneStays
      <3>. QED
        BY <1>1, <1>2, <3>1, <3>2
    <2>. QED
      BY <1>5, <2>1, <2>2 DEF DoneStays, Revs, Held
  <1>8. PredecessorApart'
    BY <1>1, <1>2, <1>5 DEF PredecessorApart, SamePlan
  <1>9. ~(target.state = "active" /\ target.status = "converged")
    BY <1>0, <1>3 DEF Converged
  <1>10. \A g \in Gens : ~(jobs[g].kind = "scrub" /\ jobs[g].state = "succeeded")
    BY <1>0, <1>3 DEF JobsOK
  <1>11. Converged' /\ ConvergedMeansWritten' /\ Scrubbed' /\ ScrubLeavesNothing'
    BY <1>1, <1>9, <1>10 DEF Converged, ConvergedMeansWritten, Scrubbed, ScrubLeavesNothing
  <1>. QED
    BY <1>7, <1>8, <1>11 DEF GoalInv

\* The name of a recorded request is not one that another job's attempt is done with.
LEMMA RecordedApart ==
    ASSUME FlightInv, GoalInv, NEW v \in Worker, Current(v), lease.effect # None,
           lease.effect.worker # v
    PROVE  /\ lease.effect.name \notin Written(work[v])
           /\ lease.effect.name \notin Clean(work[v]) \ loose
  <1>1. jobs[target.gen].state = "running" /\ jobs[target.gen].owner = v /\ work[v].job = target.gen
    BY GateManaged DEF Current
  <1>2. lease.effect.job # work[v].job
    BY <1>1 DEF FlightInv, LeaseOK
  <1>. QED
    BY <1>2 DEF GoalInv, PredecessorApart

LEMMA GoalFinish ==
    ASSUME FlightInv, LedgerInv, GoalInv, NEW w \in Worker, Finishes(w)
    PROVE  GoalInv'
  <1>. DEFINE n == Row(w)
  <1>. DEFINE a == work[w]
  <1>. DEFINE b == work'[w]
  <1>0. /\ DoneStays /\ Converged /\ ConvergedMeansWritten /\ Scrubbed /\ AnswerTells
        /\ ledger \in [Name -> Rows] /\ late \subseteq loose
    BY DEF GoalInv, LedgerInv, FlightInv, TypeOK
  <1>1. /\ Moved(w) /\ a.pc = "finish" /\ lease.effect = Own(w) /\ lease' = NoLease
        /\ UNCHANGED <<target, jobs, provider, loose, late>>
        /\ ledger' = [ledger EXCEPT ![n] = IF @ = "released" /\ Settled(a, n) # "absent"
                                           THEN @ ELSE Settled(a, n)]
    BY DEF Finishes, world
  <1>2. /\ a \in Run /\ RunOK(w) /\ Loaded(a) /\ n \in Name /\ n \in a.todo
        /\ Own(w) # None /\ Own(w).name = n /\ Own(w).worker = w
        /\ a.phase = "write" => Wanted(a, n)
        /\ a.phase = "delete" => ~Wanted(a, n) /\ a.seen[n] \in Held
    BY <1>1, RowFacts
  <1>3. a.phase \in {"write", "delete"}
    BY <1>1, <1>2 DEF RunOK, Fits, PhaseOK, Run
  <1>4. n \notin Clean(a)
    BY <1>2, <1>3 DEF Clean
  <1>5. \A m \in Name : m # n => ledger'[m] = ledger[m]
    BY <1>0, <1>1
  <1>6. ASSUME NEW v \in Worker, Current(v)'
        PROVE  /\ \A m \in Written(work'[v]) \ late : provider[m] = work'[v].rev
               /\ \A m \in Clean(work'[v]) \ loose : provider[m] \notin Revs /\ ledger'[m] \notin Held
    <2>1. CASE v # w
      <3>1. work'[v] = work[v] /\ Current(v)
        BY <1>1, <1>6, <2>1 DEF Moved, Current, JobOf
      <3>2. n \notin Clean(work[v]) \ loose
        BY <1>1, <1>2, <2>1, <3>1, RecordedApart
      <3>3. \A m \in Clean(work[v]) \ loose : m \in Name /\ ledger'[m] = ledger[m]
        BY <1>5, <3>2 DEF Clean
      <3>. QED
        BY <1>0, <3>1, <3>3 DEF DoneStays
    <2>2. CASE v = w
      <3>1. /\ Done(a) /\ b.job = a.job /\ b.rev = a.rev
            /\ Written(b) = Written(a) \cup (IF a.phase = "write" THEN {n} ELSE {})
            /\ Clean(b) = Clean(a) \cup (IF a.phase = "delete" THEN {n} ELSE {})
        BY <1>6, <2>2 DEF Finishes, GaveUp, Current
      <3>2. Current(w)
        BY <1>1, <1>2, <1>6, <2>2, <3>1 DEF Current, JobOf
      <3>3. a.phase = "write" /\ n \notin late => provider[n] = a.rev
        BY <1>0, <1>1, <3>1 DEF AnswerTells, Done
      <3>4. a.phase = "delete" /\ n \notin late => provider[n] \notin Revs /\ ledger'[n] \notin Held
        <4>1. a.phase = "delete" /\ n \notin late => provider[n] \notin Revs
          BY <1>0, <1>1, <3>1 DEF AnswerTells, Done
        <4>2. a.phase = "delete" => Settled(a, n) = "released"
          BY <3>1 DEF Settled, Done
        <4>. QED
          BY <1>0, <1>1, <1>2, <4>1, <4>2 DEF Held
      <3>5. \A m \in Clean(a) \ loose : provider[m] \notin Revs /\ ledger'[m] \notin Held
        <4>1. \A m \in Clean(a) : m \in Name /\ ledger'[m] = ledger[m]
          BY <1>4, <1>5 DEF Clean
        <4>. QED
          BY <1>0, <3>2, <4>1 DEF DoneStays
      <3>6. \A m \in Written(a) \ late : provider[m] = a.rev
        BY <1>0, <3>2 DEF DoneStays
      <3>. QED
        BY <1>0, <2>2, <3>1, <3>3, <3>4, <3>5, <3>6
    <2>. QED
      BY <2>1, <2>2
  <1>7. DoneStays'
    BY <1>1, <1>6 DEF DoneStays, Revs, Held
  <1>8. PredecessorApart'
    BY <1>1 DEF PredecessorApart, NoLease
  <1>9. Converged' /\ ConvergedMeansWritten'
    BY <1>0, <1>1 DEF Converged, ConvergedMeansWritten, NoLease
  <1>10. Scrubbed' /\ ScrubLeavesNothing'
    BY <1>0, <1>1, <1>2 DEF Scrubbed, ScrubLeavesNothing, NoLease
  <1>. QED
    BY <1>7, <1>8, <1>9, <1>10 DEF GoalInv

LEMMA GoalHandle ==
    ASSUME FlightInv, GoalInv, NEW q \in wire, Handled(q)
    PROVE  GoalInv'
  <1>. DEFINE n == q.effect.name
  <1>0. /\ DoneStays /\ PredecessorApart /\ Converged /\ Scrubbed /\ WireOK
    BY DEF GoalInv, FlightInv
  <1>1. /\ n \in Name /\ lease.effect = q.effect /\ lease.effect # None
        /\ UNCHANGED <<target, jobs, lease, ledger, loose, late>>
        /\ \A m \in Name : m # n => provider'[m] = provider[m]
    BY HandledFacts DEF store, history
  <1>2. ASSUME NEW v \in Worker, Current(v)'
        PROVE  /\ Current(v) /\ SameDone(v)
               /\ n \notin Written(work[v]) /\ n \notin Clean(work[v]) \ loose
    <2>1. /\ SamePlan(work[v], work'[v])
          /\ work'[v] = work[v] \/ (work[v].pc = "wait" /\ work'[v].pc = "finish")
      BY HandledFacts
    <2>2. Current(v) /\ SameDone(v)
      BY <1>1, <1>2, <2>1, SameDoneFacts DEF Current, Loaded, JobOf, SamePlan
    <2>3. CASE q.effect.worker # v
      BY <1>1, <2>2, <2>3, RecordedApart
    <2>4. CASE q.effect.worker = v
      <3>1. CASE q.effect.job # work[v].job
        BY <1>0, <1>1, <2>2, <3>1 DEF PredecessorApart
      <3>2. CASE q.effect.job = work[v].job
        <4>1. work[v].pc = "wait" /\ Own(v) = q.effect
          BY <1>0, <2>4, <3>2 DEF WireOK
        <4>2. /\ work[v] \in Run /\ RunOK(v) /\ Row(v) \in work[v].todo /\ Own(v).name = Row(v)
              /\ work[v].phase = "write" => Wanted(work[v], Row(v))
              /\ work[v].phase = "delete" => ~Wanted(work[v], Row(v)) /\ work[v].seen[Row(v)] \in Held
          BY <4>1, RowFacts
        <4>3. work[v].phase \in {"write", "delete"} /\ Row(v) = n
          BY <4>1, <4>2 DEF RunOK, Fits, PhaseOK, Run
        <4>. QED
          BY <2>2, <4>2, <4>3 DEF Written, Clean
      <3>. QED
        BY <3>1, <3>2
    <2>. QED
      BY <2>2, <2>3, <2>4
  <1>3. DoneStays'
    <2>1. ASSUME NEW v \in Worker, Current(v)'
          PROVE  /\ \A m \in Written(work'[v]) \ late : provider'[m] = work'[v].rev
                 /\ \A m \in Clean(work'[v]) \ loose : provider'[m] \notin Revs /\ ledger[m] \notin Held
      <3>1. /\ Current(v) /\ SameDone(v)
            /\ n \notin Written(work[v]) /\ n \notin Clean(work[v]) \ loose
        BY <1>2, <2>1
      <3>2. /\ \A m \in Written(work[v]) : m \in Name /\ provider'[m] = provider[m]
            /\ \A m \in Clean(work[v]) \ loose : m \in Name /\ provider'[m] = provider[m]
        BY <1>1, <3>1 DEF Written, Clean
      <3>. QED
        BY <1>0, <3>1, <3>2 DEF DoneStays, SameDone
    <2>. QED
      BY <1>1, <2>1 DEF DoneStays, Revs, Held
  <1>4. PredecessorApart'
    BY <1>0, <1>1, <1>2 DEF PredecessorApart, SameDone
  <1>5. ~(target.state = "active" /\ target.status = "converged")
    BY <1>0, <1>1 DEF Converged
  <1>6. \A g \in Gens : ~(jobs[g].kind = "scrub" /\ jobs[g].state = "succeeded")
    BY <1>0, <1>1 DEF Scrubbed
  <1>7. Converged' /\ ConvergedMeansWritten' /\ Scrubbed' /\ ScrubLeavesNothing'
    BY <1>1, <1>5, <1>6 DEF Converged, ConvergedMeansWritten, Scrubbed, ScrubLeavesNothing
  <1>. QED
    BY <1>3, <1>4, <1>7 DEF GoalInv

LEMMA GoalInit == ASSUME Init PROVE GoalInv
  <1>1. /\ \A w \in Worker : ~Loaded(work[w]) /\ target.status = "converging"
        /\ \A g \in Gens : jobs[g].kind = "converge"
    BY DEF Init, Idle, Loaded, NoJob
  <1>2. target.status = "converging"
    BY DEF Init
  <1>. QED
    BY <1>1, <1>2 DEF GoalInv, DoneStays, PredecessorApart, Current, Converged, ConvergedMeansWritten,
                      Scrubbed, ScrubLeavesNothing

LEMMA GoalNext ==
    ASSUME FlightInv, LedgerInv, GoalInv, [Next]_vars
    PROVE  GoalInv'
  <1>1. CASE Keeps
    <2>1. ASSUME NEW w \in Worker, Loads(w), Load(w) PROVE GoalInv'
      BY <2>1, GoalLoad
    <2>2. ASSUME NEW w \in Worker, Settles(w), SettleOK(w) PROVE GoalInv'
      BY <2>2, GoalSettle
    <2>3. CASE \A w \in Worker : ~(Loads(w) /\ Load(w)) /\ ~(Settles(w) /\ SettleOK(w))
      <3>1. GoalsKept
        BY <1>1, <2>3, KeepsGoals
      <3>2. StoreKept
        BY <1>1, KeepsStore
      <3>. QED
        BY <3>1, <3>2, GoalKept
    <2>. QED
      BY <2>1, <2>2, <2>3
  <1>2. CASE NewGoal /\ (SameGoods \/ Adopted \/ TornDown)
    BY <1>2, GoalGoal
  <1>3. ASSUME NEW w \in Worker, Prepares(w) PROVE GoalInv'
    BY <1>3, GoalPrepare
  <1>4. ASSUME NEW w \in Worker, Finishes(w) PROVE GoalInv'
    BY <1>4, GoalFinish
  <1>5. ASSUME NEW q \in wire, Handled(q) PROVE GoalInv'
    BY <1>5, GoalHandle
  <1>. QED
    BY <1>1, <1>2, <1>3, <1>4, <1>5, KindsOfSteps

-----------------------------------------------------------------------------
(* Somebody else's values *)

\* Steps after which an attempt on a name is still open or has licensed it.
DoubtsKept ==
    /\ licensed \subseteq licensed'
    /\ \A e \in open : e \in open' \/ e.name \in licensed'
    /\ open' \subseteq open

\* The attempts that serve the target's goal were at it before, beside the same request,
\* or nothing but the recorded request is open.
OthersKept ==
    \/ lease'.effect = lease.effect /\ \A v \in Worker : Serves(v)' => Serves(v)
    \/ \A e \in open' : e = lease'.effect

LEMMA InDoubtKept ==
    ASSUME InDoubt, StoreKept, DoubtsKept
    PROVE  InDoubt'
  <1>1. SUFFICES ASSUME NEW n \in Name, n \notin Secrets, n \notin loose',
                        ledger'[n] \in Held, provider'[n] \notin Revs
                 PROVE  n \in licensed' \/ \E e \in open' : e.name = n
    BY DEF InDoubt, StoreKept
  <1>2. ledger[n] \in Held /\ provider[n] \notin Revs /\ n \notin loose
    BY <1>1 DEF StoreKept
  <1>3. n \in licensed \/ \E e \in open : e.name = n
    BY <1>1, <1>2 DEF InDoubt
  <1>. QED
    BY <1>3 DEF DoubtsKept

LEMMA OthersStayLicensed ==
    ASSUME OthersLicensed, DoubtsKept, OthersKept
    PROVE  OthersLicensed'
  <1>1. SUFFICES ASSUME NEW v \in Worker, Serves(v)', NEW e \in open'
                 PROVE  e = lease'.effect \/ e.name \in licensed'
    BY DEF OthersLicensed
  <1>2. CASE lease'.effect = lease.effect /\ \A u \in Worker : Serves(u)' => Serves(u)
    <2>1. Serves(v) /\ e \in open
      BY <1>1, <1>2 DEF DoubtsKept
    <2>2. e = lease.effect \/ e.name \in licensed
      BY <2>1 DEF OthersLicensed
    <2>. QED
      BY <1>2, <2>2 DEF DoubtsKept
  <1>3. CASE \A d \in open' : d = lease'.effect
    BY <1>1, <1>3
  <1>. QED
    BY <1>2, <1>3 DEF OthersKept

LEMMA LicitKept ==
    ASSUME StoreKept, DoubtsKept, NEW n \in Name, Licit(n)
    PROVE  Licit(n)'
  BY DEF Licit, StoreKept, DoubtsKept

\* What is sent, and what is answered, was licit before the step.
SentLicit ==
    \A r \in wire' : /\ r.effect.name \in Name
                     /\ r.method \in {"patch", "delete"} => Licit(r.effect.name)
AnsweredLicit ==
    \A v \in Worker : /\ work[v].pc = "wait" /\ work'[v].pc \in {"prepared", "finish"}
                      /\ lease.effect = Own(v) /\ work[v].seen[Row(v)] \in Held
                      => Licit(Row(v))

LEMMA RequestsKept ==
    ASSUME FlightInv, RequestsLicit, StoreKept, RunsKept, DoubtsKept, SentLicit, AnsweredLicit
    PROVE  RequestsLicit'
  <1>1. ASSUME NEW r \in wire', r.method \in {"patch", "delete"}
        PROVE  Licit(r.effect.name)'
    <2>1. r.effect.name \in Name /\ Licit(r.effect.name)
      BY <1>1 DEF SentLicit
    <2>2. PICK n \in Name : n = r.effect.name
      BY <2>1
    <2>3. Licit(n)'
      BY <2>1, <2>2, LicitKept
    <2>. QED
      BY <2>2, <2>3 DEF Licit
  <1>2. ASSUME NEW v \in Worker, work'[v].pc \in {"prepared", "finish"},
               work'[v].pc = "finish" => work'[v].answer \in {"unsent", "refused", "denied"},
               lease'.effect = Own(v)', work'[v].seen[Row(v)'] \in Held
        PROVE  Licit(Row(v))'
    <2>1. /\ Intends(v) /\ SamePlan(work[v], work'[v]) /\ Row(v)' = Row(v) /\ Own(v)' = Own(v)
          /\ Row(v) \in Name /\ Own(v) # None
          /\ work'[v] = work[v] \/ Advances(v)
      BY <1>2, SameRow
    <2>2. lease.effect = Own(v) /\ work[v].seen[Row(v)] \in Held
      BY <1>2, <2>1 DEF StoreKept, SamePlan
    <2>5. Licit(Row(v))
      <3>1. CASE work'[v] = work[v] \/ work[v].pc = "prepared"
        BY <1>2, <2>1, <2>2, <3>1 DEF RequestsLicit
      <3>2. CASE work[v].pc = "wait"
        BY <1>2, <2>2, <3>2 DEF AnsweredLicit
      <3>. QED
        BY <2>1, <3>1, <3>2 DEF Advances
    <2>6. PICK n \in Name : n = Row(v)
      BY <2>1
    <2>7. Licit(n)'
      BY <2>5, <2>6, LicitKept
    <2>. QED
      BY <2>1, <2>6, <2>7 DEF Licit
  <1>. QED
    BY <1>1, <1>2 DEF RequestsLicit

\* One attempt moves under the same rows.
LEMMA MovedDoubts ==
    ASSUME NEW w \in Worker, Moved(w), UNCHANGED <<target, jobs, lease, open, licensed>>,
           work'[w].pc # "idle" => work[w].pc # "idle" /\ work'[w].job = work[w].job
    PROVE  DoubtsKept /\ OthersKept
  <1>1. ASSUME NEW v \in Worker, Serves(v)' PROVE Serves(v)
    <2>1. CASE v = w
      BY <1>1, <2>1 DEF Serves, JobOf
    <2>2. CASE v # w
      BY <1>1, <2>2 DEF Serves, JobOf, Moved
    <2>. QED
      BY <2>1, <2>2
  <1>. QED
    BY <1>1 DEF DoubtsKept, OthersKept

LEMMA SettleDoubts ==
    ASSUME FlightInv, NEW w \in Worker, Settles(w)
    PROVE  DoubtsKept /\ OthersKept
  <1>1. /\ Moved(w) /\ work'[w] = Idle /\ UNCHANGED <<lease, open, licensed>>
        /\ UNCHANGED <<jobs, target>> \/ \E s : JobEnds(w, s)
    BY DEF Settles, SettleAborts, SettleFails, SettleOK, history
  <1>2. work'[w].pc = "idle"
    BY <1>1 DEF Idle
  <1>3. CASE UNCHANGED <<jobs, target>>
    BY <1>1, <1>2, <1>3, MovedDoubts
  <1>4. CASE \E s : JobEnds(w, s)
    <2>1. ASSUME NEW v \in Worker, Serves(v)' PROVE Serves(v)
      <3>1. v # w /\ work'[v] = work[v]
        BY <1>1, <1>2, <2>1 DEF Serves, Moved
      <3>2. /\ work[v].pc # "idle" /\ work[v].job \in Gens /\ v # None
        BY <2>1, <3>1, RunFacts, Consts DEF Serves
      <3>3. /\ target'.gen = target.gen /\ jobs'[work[w].job].owner = None
            /\ \A h \in Gens : h # work[w].job => jobs'[h] = jobs[h]
        BY <1>4 DEF JobEnds
      <3>4. target.gen = work[v].job /\ jobs'[work[v].job].owner = v
        BY <2>1, <3>1, <3>3 DEF Serves, JobOf
      <3>5. jobs'[work[v].job] = jobs[work[v].job]
        BY <3>2, <3>3, <3>4
      <3>. QED
        BY <3>2, <3>4, <3>5 DEF Serves, JobOf
    <2>. QED
      BY <1>1, <2>1 DEF DoubtsKept, OthersKept
  <1>. QED
    BY <1>1, <1>3, <1>4

LEMMA ClaimDoubts ==
    ASSUME FlightInv, NEW w \in Worker, NEW g \in Gens, Claims(w, g)
    PROVE  DoubtsKept /\ OthersKept
  <1>1. /\ open' = open \ Closed /\ licensed' = licensed \cup {e.name : e \in Closed}
        /\ \/ lease' = NoLease /\ ~(lease.effect # None /\ lease.live)
           \/ lease' = lease
        /\ open \subseteq Effect
    BY DEF Claims, FlightInv, TypeOK
  <1>2. DoubtsKept
    BY <1>1 DEF DoubtsKept
  <1>3. ASSUME NEW e \in open' PROVE e = lease'.effect
    <2>1. e \in open /\ e \notin Closed /\ e # None
      BY <1>1, Consts
    <2>2. lease.effect = e /\ lease.live
      BY <2>1 DEF Closed
    <2>. QED
      BY <1>1, <2>1, <2>2
  <1>. QED
    BY <1>2, <1>3 DEF OthersKept

LEMMA LapseDoubts ==
    ASSUME FlightInv, Lapses
    PROVE  DoubtsKept /\ OthersKept
  <1>1. /\ UNCHANGED <<target, open, work, licensed>> /\ lease'.effect = lease.effect
        /\ \A g \in Gens : jobs'[g].owner = jobs[g].owner
    BY DEF Lapses, history
  <1>2. ASSUME NEW v \in Worker, Serves(v)' PROVE Serves(v)
    <2>1. work[v].pc # "idle" /\ work[v].job \in Gens
      BY <1>1, <1>2, RunFacts DEF Serves
    <2>. QED
      BY <1>1, <1>2, <2>1 DEF Serves, JobOf
  <1>. QED
    BY <1>1, <1>2 DEF DoubtsKept, OthersKept

LEMMA KeepsDoubts ==
    ASSUME FlightInv, Keeps
    PROVE  DoubtsKept /\ OthersKept
  <1>1. CASE UNCHANGED <<target, jobs, lease, ledger, open, world, work, history>>
    BY <1>1 DEF DoubtsKept, OthersKept, Serves, JobOf, history
  <1>2. ASSUME NEW w \in Worker, Quiet(w) PROVE DoubtsKept /\ OthersKept
    <2>1. /\ Moved(w) /\ work[w].pc # "idle" /\ work'[w].job = work[w].job
          /\ UNCHANGED <<target, jobs, lease, open, licensed>>
      BY <1>2 DEF Quiet, GaveUp, GoesOn, history
    <2>. QED
      BY <2>1, MovedDoubts
  <1>3. ASSUME NEW w \in Worker, Loads(w), Load(w) PROVE DoubtsKept /\ OthersKept
    <2>1. /\ Moved(w) /\ work[w].pc # "idle" /\ work'[w].job = work[w].job
          /\ UNCHANGED <<target, jobs, lease, open, licensed>>
      BY <1>3 DEF Loads, Load, store, history
    <2>. QED
      BY <2>1, MovedDoubts
  <1>4. ASSUME NEW w \in Worker, Unsent(w) \/ Sends(w) PROVE DoubtsKept /\ OthersKept
    <2>1. /\ Moved(w) /\ work[w].pc # "idle" /\ work'[w].job = work[w].job
          /\ UNCHANGED <<target, jobs, lease, open, licensed>>
      BY <1>4 DEF Unsent, Sends, SamePlan, store, history
    <2>. QED
      BY <2>1, MovedDoubts
  <1>5. ASSUME NEW w \in Worker, Crashes(w) PROVE DoubtsKept /\ OthersKept
    <2>1. /\ Moved(w) /\ work'[w].pc = "idle"
          /\ UNCHANGED <<target, jobs, lease, open, licensed>>
      BY <1>5 DEF Crashes, Idle, store, history
    <2>. QED
      BY <2>1, MovedDoubts
  <1>6. ASSUME NEW q \in wire, Missed(q) PROVE DoubtsKept /\ OthersKept
    <2>1. /\ UNCHANGED <<target, jobs, lease, open, licensed>>
          /\ \E answer \in {"unknown", "refused", "denied"} : Answered(q, answer)
      BY <1>6 DEF Missed, Leaves, store, history
    <2>2. q.effect.worker \in Worker
      BY WireBusy DEF Effect
    <2>3. CASE q.awaited
      <3>1. /\ Moved(q.effect.worker) /\ work[q.effect.worker].pc # "idle"
            /\ work'[q.effect.worker].job = work[q.effect.worker].job
        BY <2>1, <2>3 DEF Answered, SamePlan
      <3>. QED
        BY <2>1, <2>2, <3>1, MovedDoubts
    <2>4. CASE ~q.awaited
      <3>1. work' = work
        BY <2>1, <2>4 DEF Answered
      <3>. QED
        BY <2>1, <3>1 DEF DoubtsKept, OthersKept, Serves, JobOf
    <2>. QED
      BY <2>3, <2>4
  <1>7. ASSUME NEW n \in Name, Intrude(n) PROVE DoubtsKept /\ OthersKept
    BY <1>7 DEF Intrude, DoubtsKept, OthersKept, Serves, JobOf, store, history
  <1>8. ASSUME NEW q \in adrift, Landed(q) PROVE DoubtsKept /\ OthersKept
    BY <1>8 DEF Landed, DoubtsKept, OthersKept, Serves, JobOf, store
  <1>. QED
    BY <1>1, <1>2, <1>3, <1>4, <1>5, <1>6, <1>7, <1>8, SettleDoubts, ClaimDoubts, LapseDoubts DEF Keeps

\* A request that is on the wire stays as licit as it was.
LEMMA SameWire ==
    ASSUME FlightInv, RequestsLicit,
           \A r \in wire' : \E q \in wire : r.effect = q.effect /\ r.method = q.method
    PROVE  SentLicit
  <1>1. ASSUME NEW r \in wire'
        PROVE  /\ r.effect.name \in Name
               /\ r.method \in {"patch", "delete"} => Licit(r.effect.name)
    <2>1. PICK q \in wire : r.effect = q.effect /\ r.method = q.method
      OBVIOUS
    <2>2. q.effect.name \in Name
      BY WireBusy DEF Effect
    <2>. QED
      BY <2>1, <2>2 DEF RequestsLicit
  <1>. QED
    BY <1>1 DEF SentLicit

\* A prepared request that updates or deletes is one for a name the attempt found held.
LEMMA MethodOfHeld ==
    ASSUME FlightInv, NEW w \in Worker, Intends(w)
    PROVE  /\ Method(work[w], Row(w)) \in {"patch", "delete"} => work[w].seen[Row(w)] \in Held
           /\ work[w].seen[Row(w)] \in Held =>
                Row(w) \in Secrets \/ Method(work[w], Row(w)) \in {"patch", "delete"}
  <1>1. work[w].phase = "delete" => work[w].seen[Row(w)] \in Held
    BY RowFacts DEF Intends
  <1>. QED
    BY <1>1 DEF Method, Held

LEMMA SendLicit ==
    ASSUME FlightInv, RequestsLicit, NEW w \in Worker, Sends(w)
    PROVE  SentLicit
  <1>1. /\ work[w].pc = "prepared" /\ lease.effect = Own(w) /\ wire' = {RequestOf(w)}
    BY DEF Sends
  <1>2. Row(w) \in Name /\ Own(w).name = Row(w)
    BY <1>1, RowFacts
  <1>3. Method(work[w], Row(w)) \in {"patch", "delete"} => Licit(Row(w))
    BY <1>1, MethodOfHeld DEF RequestsLicit, Intends
  <1>4. /\ RequestOf(w).effect = Own(w) /\ RequestOf(w).method = Method(work[w], Row(w))
    BY DEF RequestOf
  <1>. QED
    BY <1>1, <1>2, <1>3, <1>4 DEF SentLicit

LEMMA MissLicit ==
    ASSUME FlightInv, RequestsLicit, NEW q \in wire, Missed(q)
    PROVE  SentLicit /\ AnsweredLicit
  <1>1. wire' = {} /\ \E answer \in {"unknown", "refused", "denied"} : Answered(q, answer)
    BY DEF Missed, Leaves
  <1>2. SentLicit
    BY <1>1 DEF SentLicit
  <1>3. ASSUME NEW v \in Worker, work[v].pc = "wait", work'[v].pc \in {"prepared", "finish"},
               work[v].seen[Row(v)] \in Held
        PROVE  Licit(Row(v))
    <2>1. q.awaited /\ v = q.effect.worker
      BY <1>1, <1>3 DEF Answered, Moved
    <2>2. Own(v) = q.effect /\ q.method = Method(work[v], q.effect.name)
      BY <2>1 DEF FlightInv, WireOK
    <2>3. q.effect.name = Row(v)
      BY <1>3, <2>2, RowFacts
    <2>4. Row(v) \in Secrets \/ q.method \in {"patch", "delete"}
      BY <1>3, <2>2, <2>3, MethodOfHeld DEF Intends
    <2>. QED
      BY <2>3, <2>4 DEF RequestsLicit, Licit
  <1>. QED
    BY <1>2, <1>3 DEF AnsweredLicit

LEMMA KeepsRequests ==
    ASSUME FlightInv, RequestsLicit, Keeps
    PROVE  SentLicit /\ AnsweredLicit
  <1>0. ASSUME NEW w \in Worker, Moved(w),
               work[w].pc # "wait" \/ work'[w].pc \notin {"prepared", "finish"}
        PROVE  AnsweredLicit
    BY <1>0 DEF AnsweredLicit, Moved
  <1>1. CASE UNCHANGED <<target, jobs, lease, ledger, open, world, work, history>>
    <2>1. wire' = wire /\ work' = work
      BY <1>1 DEF world
    <2>2. SentLicit
      BY <2>1, SameWire
    <2>. QED
      BY <2>1, <2>2 DEF AnsweredLicit
  <1>2. ASSUME NEW w \in Worker, Quiet(w) PROVE SentLicit /\ AnsweredLicit
    <2>1. Moved(w) /\ work[w].pc # "wait" /\ wire' = wire
      BY <1>2 DEF Quiet, GaveUp, GoesOn, world
    <2>. QED
      BY <2>1, <1>0, SameWire
  <1>3. ASSUME NEW w \in Worker, Loads(w), Load(w) PROVE SentLicit /\ AnsweredLicit
    <2>1. Moved(w) /\ work[w].pc # "wait" /\ wire' = wire
      BY <1>3 DEF Loads, Load, world
    <2>. QED
      BY <2>1, <1>0, SameWire
  <1>4. ASSUME NEW w \in Worker, Unsent(w) PROVE SentLicit /\ AnsweredLicit
    <2>1. Moved(w) /\ work[w].pc # "wait" /\ wire' = wire
      BY <1>4 DEF Unsent, world
    <2>. QED
      BY <2>1, <1>0, SameWire
  <1>5. ASSUME NEW w \in Worker, Sends(w) PROVE SentLicit /\ AnsweredLicit
    <2>1. Moved(w) /\ work[w].pc # "wait"
      BY <1>5 DEF Sends
    <2>. QED
      BY <1>5, <2>1, <1>0, SendLicit
  <1>6. ASSUME NEW w \in Worker, Settles(w) PROVE SentLicit /\ AnsweredLicit
    <2>1. Moved(w) /\ work[w].pc # "wait" /\ wire' = wire
      BY <1>6 DEF Settles, world
    <2>. QED
      BY <2>1, <1>0, SameWire
  <1>7. ASSUME NEW w \in Worker, Crashes(w) PROVE SentLicit /\ AnsweredLicit
    <2>1. Moved(w) /\ work'[w].pc = "idle"
      BY <1>7 DEF Crashes, Idle
    <2>2. \A r \in wire' : \E q \in wire : r.effect = q.effect /\ r.method = q.method
      BY <1>7, CrashWire
    <2>. QED
      BY <2>1, <2>2, <1>0, SameWire
  <1>8. ASSUME NEW w \in Worker, NEW g \in Gens, Claims(w, g) PROVE SentLicit /\ AnsweredLicit
    <2>1. Moved(w) /\ work'[w].pc = "claimed" /\ wire' = wire
      BY <1>8 DEF Claims, world
    <2>. QED
      BY <2>1, <1>0, SameWire
  <1>9. ASSUME wire' = wire, work' = work PROVE SentLicit /\ AnsweredLicit
    <2>2. SentLicit
      BY <1>9, SameWire
    <2>. QED
      BY <1>9, <2>2 DEF AnsweredLicit
  <1>10. ASSUME NEW n \in Name, Intrude(n) PROVE SentLicit /\ AnsweredLicit
    BY <1>10, <1>9 DEF Intrude
  <1>11. CASE Lapses
    BY <1>11, <1>9 DEF Lapses, world
  <1>12. ASSUME NEW q \in adrift, Landed(q) PROVE SentLicit /\ AnsweredLicit
    BY <1>12, <1>9 DEF Landed
  <1>. QED
    BY <1>1, <1>2, <1>3, <1>4, <1>5, <1>6, <1>7, <1>8, <1>10, <1>11, <1>12, MissLicit DEF Keeps

LEMMA ForeignKeeps ==
    ASSUME FlightInv, ForeignInv, Keeps
    PROVE  ForeignInv'
  <1>1. InDoubt /\ OthersLicensed /\ RequestsLicit
    BY DEF ForeignInv
  <1>2. StoreKept /\ RunsKept
    BY KeepsStore
  <1>3. DoubtsKept /\ OthersKept
    BY KeepsDoubts
  <1>4. SentLicit /\ AnsweredLicit
    BY <1>1, KeepsRequests
  <1>5. InDoubt'
    BY <1>1, <1>2, <1>3, InDoubtKept
  <1>6. OthersLicensed'
    BY <1>1, <1>3, OthersStayLicensed
  <1>7. RequestsLicit'
    BY <1>1, <1>2, <1>3, <1>4, RequestsKept
  <1>. QED
    BY <1>5, <1>6, <1>7 DEF ForeignInv

\* An act of the operators leaves the provider and the attempts alone, and takes over only
\* the name it licenses.
LEMMA ForeignGoal ==
    ASSUME FlightInv, ForeignInv, NewGoal, SameGoods \/ Adopted \/ TornDown
    PROVE  ForeignInv'
  <1>0. InDoubt /\ OthersLicensed /\ RequestsLicit
    BY DEF ForeignInv
  <1>1. /\ UNCHANGED <<work, wire, open, provider>> /\ target'.gen = target.gen + 1
        /\ target.gen \in Nat
    BY Consts DEF NewGoal, FlightInv, TypeOK
  <1>2. licensed \subseteq licensed' /\ loose' = loose
    BY DEF SameGoods, Adopted, TornDown
  <1>3. ASSUME NEW n \in Name, ledger'[n] \in Held PROVE ledger[n] \in Held \/ n \in licensed'
    <2>1. ledger \in [Name -> Rows]
      BY DEF FlightInv, TypeOK
    <2>2. CASE SameGoods
      BY <1>3, <2>2 DEF SameGoods
    <2>3. CASE Adopted
      BY <1>3, <2>1, <2>3 DEF Adopted
    <2>4. CASE TornDown
      BY <1>3, <2>1, <2>4 DEF TornDown, Released, Held
    <2>. QED
      BY <2>2, <2>3, <2>4
  <1>4. InDoubt'
    <2>1. SUFFICES ASSUME NEW n \in Name, n \notin Secrets, n \notin loose,
                          ledger'[n] \in Held, provider[n] \notin Revs
                   PROVE  n \in licensed' \/ \E e \in open : e.name = n
      BY <1>1, <1>2 DEF InDoubt
    <2>2. ledger[n] \in Held => n \in licensed \/ \E e \in open : e.name = n
      BY <1>0, <2>1 DEF InDoubt
    <2>. QED
      BY <1>2, <1>3, <2>1, <2>2
  <1>5. OthersLicensed'
    <2>1. ASSUME NEW v \in Worker PROVE ~Serves(v)'
      <3>1. CASE work[v].pc = "idle"
        BY <1>1, <3>1 DEF Serves
      <3>2. CASE work[v].pc # "idle"
        <4>1. work[v].job \in 1..target.gen
          BY <3>2, RunFacts DEF RunOK
        <4>2. work[v].job # target.gen + 1
          BY <1>1, <4>1
        <4>. QED
          BY <1>1, <4>2 DEF Serves
      <3>. QED
        BY <3>1, <3>2
    <2>. QED
      BY <2>1 DEF OthersLicensed
  <1>6. \A n : Licit(n) => Licit(n)'
    BY <1>1, <1>2 DEF Licit
  <1>7. ASSUME NEW v \in Worker, work[v].pc \in {"prepared", "finish"},
               work[v].pc = "finish" => work[v].answer \in {"unsent", "refused", "denied"},
               lease'.effect = Own(v), work[v].seen[Row(v)] \in Held
        PROVE  Licit(Row(v))
    <2>1. lease' = lease
      BY <1>7, GoalRows DEF Intends
    <2>. QED
      BY <1>0, <1>7, <2>1 DEF RequestsLicit
  <1>8. \A v \in Worker : Row(v)' = Row(v) /\ Own(v)' = Own(v)
    BY <1>1 DEF Row, Own, EffectOf
  <1>9. RequestsLicit'
    <2>1. ASSUME NEW r \in wire', r.method \in {"patch", "delete"} PROVE Licit(r.effect.name)'
      <3>1. Licit(r.effect.name)
        BY <1>0, <1>1, <2>1 DEF RequestsLicit
      <3>. QED
        BY <1>1, <1>2, <3>1 DEF Licit
    <2>2. ASSUME NEW v \in Worker, work'[v].pc \in {"prepared", "finish"},
                 work'[v].pc = "finish" => work'[v].answer \in {"unsent", "refused", "denied"},
                 lease'.effect = Own(v)', work'[v].seen[Row(v)'] \in Held
          PROVE  Licit(Row(v))'
      <3>1. Licit(Row(v))
        BY <1>1, <1>7, <1>8, <2>2
      <3>. QED
        BY <1>1, <1>2, <1>8, <3>1 DEF Licit
    <2>. QED
      BY <2>1, <2>2 DEF RequestsLicit
  <1>. QED
    BY <1>4, <1>5, <1>9 DEF ForeignInv

\* A prepared request is the only one, and the name of the lease it takes over is licensed.
LEMMA ForeignPrepare ==
    ASSUME FlightInv, ForeignInv, NEW w \in Worker, Prepares(w)
    PROVE  ForeignInv'
  <1>. DEFINE n == Row(w)
              new == work[w].phase = "write" /\ work[w].seen[n] = "reserved"
  <1>0. InDoubt /\ OthersLicensed /\ RequestsLicit
    BY DEF ForeignInv
  <1>1. /\ Moved(w) /\ work[w].pc \in {"reserved", "delete"} /\ SamePlan(work[w], work'[w])
        /\ Gate(w) /\ lease' = [effect |-> Own(w), live |-> TRUE]
        /\ open' = open \cup {Own(w)}
        /\ licensed' = IF lease.effect = None THEN licensed
                       ELSE licensed \cup {lease.effect.name}
        /\ UNCHANGED <<target, jobs, provider, wire>>
        /\ work'[w].pc = "prepared"
    BY DEF Prepares, world
  <1>2. /\ IF new THEN ledger[n] = "reserved" /\ ledger' = [ledger EXCEPT ![n] = "dispatched"]
                  ELSE ledger' = ledger
        /\ loose' = IF ~new /\ ledger[n] \notin Held THEN loose \cup {n} ELSE loose
    BY DEF Prepares
  <1>. HIDE DEF n, new
  <1>3. /\ wire = {} /\ n \in Name /\ Own(w).name = n /\ lease'.effect = Own(w)
        /\ Row(w)' = n /\ Own(w)' = Own(w) /\ n = Row(w)
        /\ \A v \in Worker : v # w => Row(v)' = Row(v) /\ Own(v)' = Own(v)
    BY <1>1, PrepareFlight, RowFacts, SamePlanStep DEF n
  <1>4. /\ ledger \in [Name -> Rows] /\ open \subseteq Effect
    BY DEF FlightInv, TypeOK
  <1>5. licensed \subseteq licensed' /\ loose \subseteq loose'
    BY <1>1, <1>2
  <1>6. /\ target.gen = work[w].job /\ JobOf(w).owner = w /\ Serves(w)
    BY <1>1 DEF Gate, Serves
  <1>7. \A e \in open : e.name \in licensed'
    <2>1. \A e \in open : e # None /\ (e = lease.effect \/ e.name \in licensed)
      BY <1>0, <1>4, <1>6, Consts DEF OthersLicensed
    <2>. QED
      BY <1>1, <2>1
  <1>8. InDoubt'
    <2>1. SUFFICES ASSUME NEW m \in Name, m \notin Secrets, m \notin loose',
                          ledger'[m] \in Held, provider[m] \notin Revs
                   PROVE  m \in licensed' \/ \E e \in open' : e.name = m
      BY <1>1 DEF InDoubt
    <2>2. CASE m = n
      BY <1>1, <1>3, <2>2
    <2>3. CASE m # n
      <3>1. ledger[m] \in Held
        BY <1>2, <1>4, <2>1, <2>3
      <3>. QED
        BY <1>0, <1>1, <1>5, <2>1, <3>1 DEF InDoubt
    <2>. QED
      BY <2>2, <2>3
  <1>9. OthersLicensed'
    BY <1>1, <1>3, <1>7 DEF OthersLicensed
  <1>10. ASSUME work[w].seen[n] \in Held PROVE n \in Secrets \cup loose' \cup licensed' \/ provider'[n] \in Revs
    <2>1. ~new
      BY <1>10 DEF new, Held
    <2>2. CASE ledger[n] \notin Held
      BY <1>2, <2>1, <2>2
    <2>3. CASE ledger[n] \in Held
      <3>1. \/ n \in Secrets \cup loose \/ provider[n] \in Revs \/ n \in licensed
            \/ \E e \in open : e.name = n
        BY <1>0, <1>3, <2>3 DEF InDoubt
      <3>. QED
        BY <1>1, <1>5, <1>7, <3>1
    <2>. QED
      BY <2>2, <2>3
  <1>11. RequestsLicit'
    <2>1. wire' = {}
      BY <1>1, <1>3
    <2>2. ASSUME NEW v \in Worker, work'[v].pc \in {"prepared", "finish"},
                 work'[v].pc = "finish" => work'[v].answer \in {"unsent", "refused", "denied"},
                 lease'.effect = Own(v)', work'[v].seen[Row(v)'] \in Held
          PROVE  Licit(Row(v))'
      <3>1. v = w
        <4>1. CASE v # w
          <5>1. work'[v] = work[v] /\ Own(v)' = Own(v)
            BY <1>1, <1>3, <4>1 DEF Moved
          <5>2. Own(v).worker = v /\ Own(w).worker = w
            BY <1>1, <2>2, <5>1, RowFacts
          <5>. QED
            BY <1>3, <2>2, <4>1, <5>1, <5>2
        <4>. QED
          BY <4>1
      <3>2. work[w].seen[n] \in Held
        BY <1>1, <1>3, <2>2, <3>1 DEF SamePlan
      <3>3. n \in Secrets \cup loose' \cup licensed' \/ provider'[n] \in Revs
        BY <1>10, <3>2
      <3>. QED
        BY <1>3, <3>1, <3>3 DEF Licit
    <2>. QED
      BY <2>1, <2>2 DEF RequestsLicit
  <1>. QED
    BY <1>8, <1>9, <1>11 DEF ForeignInv

\* A row that is still held when its outcome is recorded is the target's at the provider,
\* or its answer never came, or the request was licit.
LEMMA FinishedLicensed ==
    ASSUME FlightInv, LedgerInv, RequestsLicit, NEW w \in Worker, Finishes(w),
           Row(w) \notin Secrets \cup loose, ledger'[Row(w)] \in Held,
           provider[Row(w)] \notin Revs
    PROVE  Row(w) \in licensed'
  <1>. DEFINE a == work[w]
              n == Row(w)
  <1>1. /\ a.pc = "finish" /\ lease.effect = Own(w)
        /\ ledger' = [ledger EXCEPT ![n] = IF @ = "released" /\ Settled(a, n) # "absent"
                                           THEN @ ELSE Settled(a, n)]
        /\ licensed' = IF a.answer = "unknown" THEN licensed \cup {n} ELSE licensed
    BY DEF Finishes
  <1>2. /\ a \in Run /\ n \in Name /\ RunOK(w) /\ a.seen[n] \in Rows
        /\ a.phase = "write" => Wanted(a, n)
    BY <1>1, RowFacts
  <1>3. a.answer \in Answer /\ a.phase \in {"write", "delete"}
    BY <1>1, <1>2 DEF RunOK, Fits, EndOK, PhaseOK, Run
  <1>4. a.answer = "ok" /\ a.phase = "write" => provider[n] = a.rev
    BY <1>1 DEF LedgerInv, AnswerTells, FlightInv, TypeOK
  <1>5. a.phase = "write" => a.rev \in Revs
    BY <1>2, WrittenRev
  <1>6. a.answer \in {"unsent", "refused", "denied"} /\ a.seen[n] \in Held => Licit(n)
    BY <1>1 DEF RequestsLicit
  <1>7. Licit(n) => n \in licensed
    BY DEF Licit
  <1>. HIDE DEF a, n
  <1>8. ledger'[n] = "released" \/ ledger'[n] = Settled(a, n)
    <2>1. ledger \in [Name -> Rows]
      BY DEF FlightInv, TypeOK
    <2>. QED
      BY <1>1, <1>2, <2>1
  <1>9. Settled(a, n) \in Held
    BY <1>8 DEF n, Held
  <1>10. ~(a.answer = "ok" /\ a.phase = "write")
    BY <1>4, <1>5 DEF n
  <1>11. a.answer = "unknown" \/ (a.answer \in {"unsent", "refused", "denied"} /\ a.seen[n] \in Held)
    BY <1>3, <1>9, <1>10 DEF Settled, Held, Answer
  <1>12. n \in licensed'
    BY <1>1, <1>6, <1>7, <1>11
  <1>. QED
    BY <1>12 DEF n

LEMMA ForeignFinish ==
    ASSUME FlightInv, LedgerInv, ForeignInv, NEW w \in Worker, Finishes(w)
    PROVE  ForeignInv'
  <1>0. InDoubt /\ OthersLicensed /\ RequestsLicit
    BY DEF ForeignInv
  <1>1. /\ Moved(w) /\ work[w].pc = "finish" /\ lease.effect = Own(w) /\ lease' = NoLease
        /\ open' = open \ {Own(w)} /\ wire = {} /\ wire' = wire
        /\ UNCHANGED <<target, jobs, provider, loose>>
    BY DEF Finishes, world
  <1>2. /\ work'[w].pc \in {"row", "release", "delete", "settle"} /\ work'[w].job = work[w].job
    BY DEF Finishes, GaveUp
  <1>3. licensed \subseteq licensed'
    BY DEF Finishes
  <1>4. Own(w).name = Row(w) /\ Row(w) \in Name
    BY <1>1, RowFacts
  <1>5. \A m \in Name : m # Row(w) => ledger'[m] = ledger[m]
    <2>1. ledger \in [Name -> Rows]
      BY DEF FlightInv, TypeOK
    <2>. QED
      BY <2>1 DEF Finishes
  <1>6. InDoubt'
    <2>1. SUFFICES ASSUME NEW m \in Name, m \notin Secrets, m \notin loose,
                          ledger'[m] \in Held, provider[m] \notin Revs
                   PROVE  m \in licensed' \/ \E e \in open' : e.name = m
      BY <1>1 DEF InDoubt
    <2>2. CASE m = Row(w)
      BY <1>0, <2>1, <2>2, FinishedLicensed
    <2>3. CASE m # Row(w)
      <3>1. m \in licensed \/ \E e \in open : e.name = m
        BY <1>0, <1>5, <2>1, <2>3 DEF InDoubt
      <3>. QED
        BY <1>1, <1>3, <1>4, <2>3, <3>1
    <2>. QED
      BY <2>2, <2>3
  <1>7. OthersLicensed'
    <2>1. SUFFICES ASSUME NEW v \in Worker, Serves(v)', NEW e \in open'
                   PROVE  e.name \in licensed'
      BY DEF OthersLicensed
    <2>2. Serves(v)
      <3>1. CASE v = w
        BY <1>1, <1>2, <2>1, <3>1 DEF Serves, JobOf
      <3>2. CASE v # w
        BY <1>1, <2>1, <3>2 DEF Serves, JobOf, Moved
      <3>. QED
        BY <3>1, <3>2
    <2>3. e \in open /\ e # lease.effect
      BY <1>1, <2>1
    <2>. QED
      BY <1>0, <1>3, <2>2, <2>3 DEF OthersLicensed
  <1>8. RequestsLicit'
    <2>1. ASSUME NEW v \in Worker, work'[v].pc \in {"prepared", "finish"} PROVE lease'.effect # Own(v)'
      <3>1. v # w /\ work'[v] = work[v]
        BY <1>1, <1>2, <2>1 DEF Moved
      <3>2. Own(v)' = Own(v) /\ Own(v) # None
        <4>1. Own(v) # None
          BY <2>1, <3>1, RowFacts
        <4>. QED
          BY <3>1, <4>1 DEF Own, EffectOf, Row
      <3>. QED
        BY <1>1, <3>2 DEF NoLease
    <2>2. wire' = {}
      BY <1>1
    <2>. QED
      BY <2>1, <2>2 DEF RequestsLicit
  <1>. QED
    BY <1>6, <1>7, <1>8 DEF ForeignInv

\* The provider's answer ends the doubt about no other name.
LEMMA ForeignHandle ==
    ASSUME FlightInv, ForeignInv, NEW q \in wire, Handled(q)
    PROVE  ForeignInv'
  <1>0. InDoubt /\ OthersLicensed /\ RequestsLicit
    BY DEF ForeignInv
  <1>1. /\ q.effect.name \in Name /\ q.effect \in open
        /\ UNCHANGED <<target, jobs, lease, ledger, open, licensed, loose>> /\ wire' = {}
        /\ \A m \in Name : m # q.effect.name => provider'[m] = provider[m]
    BY HandledFacts DEF store, history
  <1>2. \A v \in Worker : /\ SamePlan(work[v], work'[v]) /\ Row(v)' = Row(v) /\ Own(v)' = Own(v)
                          /\ work'[v] = work[v] \/ work[v].pc = "wait"
    BY HandledFacts
  <1>3. InDoubt'
    <2>1. SUFFICES ASSUME NEW m \in Name, m \notin Secrets, m \notin loose,
                          ledger[m] \in Held, provider'[m] \notin Revs
                   PROVE  m \in licensed \/ \E e \in open : e.name = m
      BY <1>1 DEF InDoubt
    <2>2. CASE m = q.effect.name
      BY <1>1, <2>2
    <2>3. CASE m # q.effect.name
      BY <1>0, <1>1, <2>1, <2>3 DEF InDoubt
    <2>. QED
      BY <2>2, <2>3
  <1>4. OthersLicensed'
    <2>1. ASSUME NEW v \in Worker, Serves(v)' PROVE Serves(v)
      <3>1. work[v].pc # "idle" /\ work'[v].job = work[v].job
        BY <1>2, <2>1 DEF Serves, SamePlan
      <3>. QED
        BY <1>1, <2>1, <3>1 DEF Serves, JobOf
    <2>. QED
      BY <1>0, <1>1, <2>1 DEF OthersLicensed
  <1>5. RequestsLicit'
    <2>1. ASSUME NEW v \in Worker, work'[v].pc \in {"prepared", "finish"}, lease.effect = Own(v)
          PROVE  work'[v].pc = "finish" /\ work'[v].answer \in {"ok", "unknown", "conflict", "notfound"}
      <3>1. v = q.effect.worker /\ q.awaited /\ work'[v].pc = "finish"
        BY <2>1, HandledOwn
      <3>2. \E answer \in {"ok", "unknown", "conflict", "notfound"} : Answered(q, answer)
        BY DEF Handled
      <3>. QED
        BY <3>1, <3>2 DEF Answered
    <2>2. ASSUME NEW v \in Worker,
                 \/ work'[v].pc = "prepared"
                 \/ work'[v].pc = "finish" /\ work'[v].answer \in {"unsent", "refused", "denied"}
          PROVE  lease'.effect # Own(v)'
      BY <1>1, <1>2, <2>1, <2>2
    <2>. QED
      BY <1>1, <2>2 DEF RequestsLicit
  <1>. QED
    BY <1>3, <1>4, <1>5 DEF ForeignInv

LEMMA ForeignInit == ASSUME Init PROVE ForeignInv
  <1>1. /\ open = {} /\ wire = {} /\ \A n \in Name : ledger[n] = "absent"
        /\ \A w \in Worker : work[w].pc = "idle"
    BY DEF Init, Idle
  <1>. QED
    BY <1>1 DEF ForeignInv, InDoubt, OthersLicensed, RequestsLicit, Serves, Held

LEMMA ForeignNext ==
    ASSUME FlightInv, LedgerInv, ForeignInv, [Next]_vars
    PROVE  ForeignInv'
  BY KindsOfSteps, ForeignKeeps, ForeignGoal, ForeignPrepare, ForeignFinish, ForeignHandle

\* ForeignKept, as a fact of a step.
LEMMA ForeignStep ==
    ASSUME FlightInv, RequestsLicit, [Next]_vars, NEW n \in Name \ (Secrets \cup loose'),
           provider[n] = Foreign, provider'[n] # Foreign
    PROVE  n \in licensed
  <1>0. Foreign \notin Revs /\ Foreign # 0
    BY Consts
  <1>1. ASSUME NEW m \in Name, Intrude(m) PROVE FALSE
    <2>1. provider[m] = 0 /\ provider' = [provider EXCEPT ![m] = Foreign]
          /\ provider \in [Name -> 0..Foreign]
      BY <1>1 DEF Intrude, FlightInv, TypeOK
    <2>. QED
      BY <1>0, <2>1
  <1>2. ASSUME NEW q \in wire, Handled(q) PROVE n \in licensed
    <2>1. q.effect.name = n
      BY <1>2, HandledFacts
    <2>a. n \notin loose
      BY <1>2, HandledFacts DEF history
    <2>2. q.method = "put" => n \in Secrets
      BY <2>1 DEF FlightInv, WireOK
    <2>3. q.method \in {"patch", "delete"}
      BY <1>0, <1>2, <2>1, <2>2 DEF Handled
    <2>. QED
      BY <1>0, <2>1, <2>a, <2>3 DEF RequestsLicit, Licit
  <1>3. ASSUME NEW q \in adrift, Landed(q) PROVE FALSE
    BY <1>3 DEF Landed
  <1>. QED
    BY <1>1, <1>2, <1>3, WhoWrites

-----------------------------------------------------------------------------
(* The theorems *)

\* The outbox keeps its inductive invariant through every act, attempt, answer, crash and
\* lapse.
THEOREM OutboxInductive == Spec => []OutboxInv
  <1>1. Init => OutboxInv
    BY FlightInit, LedgerInit, GoalInit, ForeignInit DEF OutboxInv
  <1>2. OutboxInv /\ [Next]_vars => OutboxInv'
    <2>1. SUFFICES ASSUME OutboxInv, [Next]_vars PROVE OutboxInv'
      OBVIOUS
    <2>2. FlightInv /\ LedgerInv /\ GoalInv /\ ForeignInv
      BY <2>1 DEF OutboxInv
    <2>3. FlightInv' /\ LedgerInv'
      BY <2>1, <2>2, FlightNext, LedgerNext
    <2>4. GoalInv' /\ ForeignInv'
      BY <2>1, <2>2, GoalNext, ForeignNext
    <2>. QED
      BY <2>3, <2>4 DEF OutboxInv
  <1>. QED
    BY <1>1, <1>2, PTL DEF Spec

\* TypeOK: every row, request and attempt of the outbox keeps its shape.
THEOREM TypeCorrect == Spec => []TypeOK
  <1>1. OutboxInv => TypeOK
    BY DEF OutboxInv, FlightInv
  <1>. QED
    BY <1>1, OutboxInductive, PTL

\* OneWriteInFlight: whatever publishes, reclaims and second workers do, the request on
\* the wire, neither handled nor given up on, is the one the live provider lease records.
THEOREM OneWrite == Spec => []OneWriteInFlight
  <1>1. OutboxInv => OneWriteInFlight
    BY DEF OutboxInv, FlightInv, WireOK
  <1>. QED
    BY <1>1, OutboxInductive, PTL

\* NewestWins: a request of an older goal changes nothing after one of a newer goal was
\* applied, unless its client had given up on it.
THEOREM OldGoalsLose == Spec => NewestWins
  <1>1. OutboxInv /\ [Next]_vars =>
          [\A n \in Name : provider'[n] # provider[n] =>
             \/ provider'[n] = Foreign
             \/ \E q \in wire \ wire' : q.effect.name = n /\ q.effect.job >= applied
             \/ \E q \in adrift \ adrift' : q.effect.name = n]_vars
    BY NewestStep DEF OutboxInv
  <1>. QED
    BY <1>1, OutboxInductive, PTL DEF Spec, NewestWins

\* ConvergedMeansWritten: a converged target has delivered its revision but under the
\* names to which a request given up on was applied, and left nothing else of its own but
\* under those and the names written by a row that was gone.
THEOREM ConvergedIsWritten == Spec => []ConvergedMeansWritten
  <1>1. OutboxInv => ConvergedMeansWritten
    BY DEF OutboxInv, GoalInv
  <1>. QED
    BY <1>1, OutboxInductive, PTL

\* NeverDisowned: through lost answers, crashes and supersedes the ledger of an active
\* target holds what the target wrote, if it held the name when the write was prepared and
\* no request given up on was applied to it.
THEOREM WrittenStaysHeld == Spec => []NeverDisowned
  <1>1. OutboxInv => NeverDisowned
    BY DEF OutboxInv, LedgerInv, WrittenIsHeld, Managed, NeverDisowned
  <1>. QED
    BY <1>1, OutboxInductive, PTL

\* ScrubLeavesNothing: a scrub that succeeded is the end of the target at the provider,
\* under the same provisos.
THEOREM ScrubIsClean == Spec => []ScrubLeavesNothing
  <1>1. OutboxInv => ScrubLeavesNothing
    BY DEF OutboxInv, GoalInv
  <1>. QED
    BY <1>1, OutboxInductive, PTL

\* ForeignKept: a variable somebody else created is changed only once its name is licensed,
\* under the same provisos.
THEOREM ForeignIsKept == Spec => ForeignKept
  <1>1. OutboxInv /\ [Next]_vars =>
          [\A n \in Name \ (Secrets \cup loose') :
             provider[n] = Foreign /\ provider'[n] # Foreign => n \in licensed]_vars
    BY ForeignStep DEF OutboxInv, ForeignInv
  <1>. QED
    BY <1>1, OutboxInductive, PTL DEF Spec, ForeignKept
=============================================================================
