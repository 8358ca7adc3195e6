-------------------------- MODULE SelfConfigProofs --------------------------
(***************************************************************************)
(* Proofs about SelfConfig, for every set of nodes and every instance.     *)
(***************************************************************************)
EXTENDS SelfConfig, TLAPS

\* The jobs of a table that are open.
Unsettled(js) == {j \in js : j.status \in {"preparing", "applying", "partial"}}

TablesTyped(b, js, rs, sl, pl) ==
    /\ b \in Binding /\ js \subseteq Job /\ rs \in [Node -> Row \cup {None}]
    /\ sl \in [Slot -> Rev \cup {0}] /\ pl \subseteq Rev
    /\ b.gen # 0

\* The retention rows name what is in use, and their payloads are there.
SlotsHold(b, sl, pl) ==
    /\ sl["desired"] = b.desired /\ sl["previous"] = b.prev
    /\ \A s \in Slot : sl[s] # 0 => sl[s] \in pl

\* There is one open job.  It holds its candidate or is the job of the target, and
\* the rows are those of its participants.
OpenJobs(b, js, rs, sl) ==
    \A j \in Unsettled(js) :
        /\ \A k \in Unsettled(js) : k = j
        /\ j.status = "preparing" => sl["candidate"] = j.rev
        /\ j.status # "preparing" => j.gen = b.gen /\ j.rev = b.desired
        /\ \A n \in j.members : rs[n] # None
        /\ \A n \in Node : rs[n] # None => rs[n].job = j.id

\* What a row says the node has done.
RowEarned(n, r) ==
    /\ r.prepared /\ r.job # 0 => [node |-> n, job |-> r.job] \in prepares
    /\ r.gen # 0 => \E i \in installs : i.node = n /\ i.what.gen = r.gen /\ i.what.rev = r.rev

RowsEarned(rs) == \A n \in Node : rs[n] # None => RowEarned(n, rs[n])

JobEarned(j) ==
    \A n \in j.members :
        /\ j.status \in {"applying", "partial", "applied", "superseded"}
            => [node |-> n, job |-> j.id] \in prepares
        /\ j.status = "applied"
            => \E i \in installs : i.node = n /\ i.what.gen = j.gen /\ i.what.rev = j.rev

JobsEarned(js) == \A j \in js : JobEarned(j)

GensPast(b, js) ==
    \A j \in js : j.status # "preparing" => j.gen <= b.gen \/ j.status = "aborted"

TablesOK(b, js, rs, sl, pl) ==
    /\ TablesTyped(b, js, rs, sl, pl) /\ SlotsHold(b, sl, pl) /\ OpenJobs(b, js, rs, sl)
    /\ RowsEarned(rs) /\ JobsEarned(js) /\ GensPast(b, js)
    /\ b.inc <= incarnation

\* What a process has of the running incarnation was read from the binding, which has
\* not gone back since.
ReadHere(i, g, r) ==
    /\ i <= incarnation
    /\ i = incarnation =>
        /\ binding.inc = incarnation /\ g <= binding.gen
        /\ g = binding.gen => r = binding.desired

View == [b : Binding, row : Row \cup {None}, job : Nat, status : Status \cup {""}]

ViewOK(n, v) ==
    /\ v \in View
    /\ ReadHere(v.b.inc, v.b.gen, v.b.desired)
    /\ v.row # None => RowEarned(n, v.row)
    /\ v.row # None /\ v.status = "preparing" => v.row.job = v.job

ProcessOK(n) ==
    /\ view[n] # None => ViewOK(n, view[n])
    /\ active[n] # None => ReadHere(active[n].inc, active[n].gen, active[n].rev)

WorldTyped ==
    /\ size \in Sizes /\ incarnation \in 1..size.incs /\ issued \in 0..size.jobs
    /\ admitted \in [Node -> 0..size.incs] /\ active \in [Node -> Installed \cup {None}]
    /\ DOMAIN view = Node

BackupOK ==
    backup # None =>
        TablesOK(backup.binding, backup.jobs, backup.rows, backup.slots, backup.payload)

Fenced == unconfirmed => binding.suspended \/ binding.inc # incarnation

SInv ==
    /\ WorldTyped /\ Fenced /\ BackupOK
    /\ TablesOK(binding, jobs, rows, slots, payload)
    /\ \A n \in Node : ProcessOK(n)

-----------------------------------------------------------------------------
(* What every step keeps *)

LEMMA SizeKept ==
    ASSUME size' = size
    PROVE  /\ Rev' = Rev /\ Binding' = Binding /\ Job' = Job
           /\ Installed' = Installed /\ View' = View
  BY DEF Rev, Binding, Job, Installed, View, Status

\* History only grows.
HistoryGrows == size' = size /\ prepares \subseteq prepares' /\ installs \subseteq installs'

LEMMA RowStaysEarned ==
    ASSUME NEW n, NEW r, RowEarned(n, r), HistoryGrows
    PROVE  RowEarned(n, r)'
  BY DEF RowEarned, HistoryGrows

LEMMA JobStaysEarned ==
    ASSUME NEW j, JobEarned(j), HistoryGrows
    PROVE  JobEarned(j)'
  BY DEF JobEarned, HistoryGrows

\* Tables that nothing writes, those of a backup too, stay good.
LEMMA TablesStayOK ==
    ASSUME NEW b, NEW js, NEW rs, NEW sl, NEW pl, TablesOK(b, js, rs, sl, pl), HistoryGrows,
           incarnation \in Nat, incarnation' \in Nat, incarnation <= incarnation'
    PROVE  TablesOK(b, js, rs, sl, pl)'
  <1>0. /\ TablesTyped(b, js, rs, sl, pl) /\ SlotsHold(b, sl, pl) /\ OpenJobs(b, js, rs, sl)
        /\ RowsEarned(rs) /\ JobsEarned(js) /\ GensPast(b, js) /\ b.inc <= incarnation
    BY DEF TablesOK
  <1>1. TablesTyped(b, js, rs, sl, pl)'
    BY <1>0, SizeKept DEF TablesTyped, HistoryGrows, Slot
  <1>2. SlotsHold(b, sl, pl)' /\ OpenJobs(b, js, rs, sl)' /\ GensPast(b, js)'
    BY <1>0 DEF SlotsHold, OpenJobs, Unsettled, GensPast
  <1>3. RowsEarned(rs)'
    BY <1>0, RowStaysEarned DEF RowsEarned
  <1>4. JobsEarned(js)'
    BY <1>0, JobStaysEarned DEF JobsEarned
  <1>5. b.inc \in Nat
    BY <1>0 DEF TablesTyped, Binding
  <1>6. b.inc <= incarnation'
    BY <1>0, <1>5
  <1>. QED
    BY <1>1, <1>2, <1>3, <1>4, <1>6 DEF TablesOK

\* How the binding moves: to the next generation, or into the running incarnation, or the
\* incarnation moves away from it.
Moves ==
    \/ binding' = binding /\ incarnation' = incarnation
    \/ binding'.inc = binding.inc /\ binding'.gen = binding.gen + 1 /\ incarnation' = incarnation
    \/ binding.inc # incarnation /\ incarnation' = incarnation
    \/ incarnation' = incarnation + 1

LEMMA StillReadHere ==
    ASSUME NEW i \in Nat, NEW g \in Nat, NEW r, ReadHere(i, g, r), Moves,
           incarnation \in Nat, binding.gen \in Nat
    PROVE  ReadHere(i, g, r)'
  <1>1. CASE binding' = binding /\ incarnation' = incarnation
    BY <1>1 DEF ReadHere
  <1>2. CASE binding'.inc = binding.inc /\ binding'.gen = binding.gen + 1
             /\ incarnation' = incarnation
    <2>1. ASSUME i = incarnation PROVE binding'.inc = incarnation /\ g < binding'.gen
      BY <1>2, <2>1 DEF ReadHere
    <2>. QED
      BY <1>2, <2>1 DEF ReadHere
  <1>3. CASE binding.inc # incarnation /\ incarnation' = incarnation
    BY <1>3 DEF ReadHere
  <1>4. CASE incarnation' = incarnation + 1
    BY <1>4 DEF ReadHere
  <1>. QED
    BY <1>1, <1>2, <1>3, <1>4 DEF Moves

LEMMA SInvFacts ==
    ASSUME SInv
    PROVE  /\ WorldTyped /\ TablesOK(binding, jobs, rows, slots, payload)
           /\ incarnation \in Nat /\ incarnation # 0 /\ issued \in Nat
           /\ binding \in Binding /\ binding.gen \in Nat /\ binding.inc \in Nat
           /\ binding.inc <= incarnation /\ binding.gen # 0
           /\ jobs \subseteq Job /\ rows \in [Node -> Row \cup {None}]
           /\ slots \in [Slot -> Rev \cup {0}] /\ payload \subseteq Rev
           /\ SlotsHold(binding, slots, payload) /\ OpenJobs(binding, jobs, rows, slots)
           /\ RowsEarned(rows) /\ JobsEarned(jobs) /\ GensPast(binding, jobs)
           /\ \A n \in Node : ProcessOK(n)
  <1>1. /\ WorldTyped /\ TablesOK(binding, jobs, rows, slots, payload)
        /\ \A n \in Node : ProcessOK(n)
    BY DEF SInv
  <1>2. /\ TablesTyped(binding, jobs, rows, slots, payload)
        /\ SlotsHold(binding, slots, payload) /\ OpenJobs(binding, jobs, rows, slots)
        /\ RowsEarned(rows) /\ JobsEarned(jobs) /\ GensPast(binding, jobs)
        /\ binding.inc <= incarnation
    BY <1>1 DEF TablesOK
  <1>3. size.incs \in Nat /\ size.jobs \in Nat
    BY <1>1, SelfConfigAssumption DEF WorldTyped
  <1>4. incarnation \in Nat /\ incarnation # 0 /\ issued \in Nat
    BY <1>1, <1>3 DEF WorldTyped
  <1>5. /\ binding \in Binding /\ jobs \subseteq Job /\ rows \in [Node -> Row \cup {None}]
        /\ slots \in [Slot -> Rev \cup {0}] /\ payload \subseteq Rev /\ binding.gen # 0
    BY <1>2 DEF TablesTyped
  <1>6. binding.gen \in Nat /\ binding.inc \in Nat
    BY <1>5 DEF Binding
  <1>. QED
    BY <1>1, <1>2, <1>4, <1>5, <1>6

\* A process whose view and configuration a step leaves, or drops, keeps them good.
LEMMA ProcessesStay ==
    ASSUME SInv, HistoryGrows, Moves, NEW n \in Node,
           view'[n] = view[n] \/ view'[n] = None,
           active'[n] = active[n] \/ active'[n] = None
    PROVE  ProcessOK(n)'
  <1>0. incarnation \in Nat /\ binding.gen \in Nat /\ ProcessOK(n) /\ WorldTyped
    BY SInvFacts
  <1>1. ASSUME view'[n] # None PROVE ViewOK(n, view[n])'
    <2>. DEFINE v == view[n]
    <2>1. ViewOK(n, v) /\ view'[n] = v
      BY <1>0, <1>1 DEF ProcessOK
    <2>2. v \in View /\ v.b.inc \in Nat /\ v.b.gen \in Nat
      BY <2>1 DEF ViewOK, View, Binding
    <2>3. PICK w : w = v
      OBVIOUS
    <2>4. ViewOK(n, w)'
      <3>1. ReadHere(w.b.inc, w.b.gen, w.b.desired)'
        BY <1>0, <2>1, <2>2, <2>3, StillReadHere DEF ViewOK
      <3>2. w.row # None => RowEarned(n, w.row)'
        BY <2>1, <2>3, RowStaysEarned DEF ViewOK
      <3>. QED
        BY <2>1, <2>2, <2>3, <3>1, <3>2, SizeKept DEF ViewOK, HistoryGrows
    <2>. QED
      BY <2>1, <2>3, <2>4
  <1>2. ASSUME active'[n] # None PROVE ReadHere(active[n].inc, active[n].gen, active[n].rev)'
    <2>1. /\ active'[n] = active[n] /\ active[n] # None
          /\ ReadHere(active[n].inc, active[n].gen, active[n].rev)
      BY <1>0, <1>2 DEF ProcessOK
    <2>2. active[n] \in Installed
      BY <1>0, <2>1 DEF WorldTyped
    <2>3. PICK a : a = active[n]
      OBVIOUS
    <2>4. a.inc \in Nat /\ a.gen \in Nat
      BY <2>2, <2>3 DEF Installed
    <2>5. ReadHere(a.inc, a.gen, a.rev)'
      BY <1>0, <2>1, <2>3, <2>4, StillReadHere
    <2>. QED
      BY <2>1, <2>3, <2>5
  <1>. QED
    BY <1>1, <1>2 DEF ProcessOK

LEMMA BackupStays ==
    ASSUME SInv, HistoryGrows, backup' = backup, incarnation' = incarnation
    PROVE  BackupOK'
  <1>. SUFFICES ASSUME backup # None
                PROVE  TablesOK(backup.binding, backup.jobs, backup.rows, backup.slots,
                                backup.payload)'
    BY DEF BackupOK
  <1>1. TablesOK(backup.binding, backup.jobs, backup.rows, backup.slots, backup.payload)
    BY DEF SInv, BackupOK
  <1>2. PICK c : c = backup
    OBVIOUS
  <1>3. TablesOK(c.binding, c.jobs, c.rows, c.slots, c.payload)
    BY <1>1, <1>2
  <1>4. incarnation \in Nat
    BY SInvFacts
  <1>5. TablesOK(c.binding, c.jobs, c.rows, c.slots, c.payload)'
    BY <1>3, <1>4, TablesStayOK
  <1>. QED
    BY <1>2, <1>5

\* The tables after a step that leaves them.
LEMMA TablesStay ==
    ASSUME SInv, HistoryGrows, UNCHANGED tables, incarnation' = incarnation
    PROVE  TablesOK(binding, jobs, rows, slots, payload)'
  <1>1. TablesOK(binding, jobs, rows, slots, payload) /\ incarnation \in Nat
    BY SInvFacts
  <1>2. PICK b, js, rs, sl, pl : b = binding /\ js = jobs /\ rs = rows /\ sl = slots /\ pl = payload
    OBVIOUS
  <1>3. TablesOK(b, js, rs, sl, pl)
    BY <1>1, <1>2
  <1>4. TablesOK(b, js, rs, sl, pl)'
    BY <1>1, <1>3, TablesStayOK
  <1>. QED
    BY <1>2, <1>4 DEF tables

\* The jobs after some of them got another status.
LEMMA SetStatusFacts ==
    ASSUME jobs \subseteq Job, NEW js \in SUBSET jobs, NEW s \in Status
    PROVE  /\ SetStatus(js, s) \subseteq Job
           /\ \A k \in SetStatus(js, s) :
                \/ k \in jobs \ js
                \/ \E j \in js : /\ k.id = j.id /\ k.rev = j.rev /\ k.gen = j.gen
                                 /\ k.members = j.members /\ k.status = s
  <1>. DEFINE with(j) == [j EXCEPT !.status = s, !.late = FALSE]
  <1>1. ASSUME NEW j \in js
        PROVE  /\ with(j) \in Job /\ with(j).id = j.id /\ with(j).rev = j.rev
               /\ with(j).gen = j.gen /\ with(j).members = j.members /\ with(j).status = s
    <2>1. j \in Job
      OBVIOUS
    <2>2. with(j) \in Job
      BY <2>1 DEF Job
    <2>3. with(j).id = j.id /\ with(j).rev = j.rev /\ with(j).gen = j.gen
      BY <2>1 DEF Job
    <2>4. with(j).members = j.members /\ with(j).status = s
      BY <2>1 DEF Job
    <2>. HIDE DEF with
    <2>. QED
      BY <2>2, <2>3, <2>4
  <1>2. SetStatus(js, s) = (jobs \ js) \cup {with(j) : j \in js}
    BY DEF SetStatus
  <1>. HIDE DEF with
  <1>. QED
    BY <1>1, <1>2

\* Among the open jobs there is at most one to change.
LEMMA SetStatusCases ==
    ASSUME SInv, NEW js \in SUBSET Open, NEW s \in Status
    PROVE  \/ js = {} /\ SetStatus(js, s) = jobs
           \/ \E f \in Open, g \in Job :
                /\ js = {f} /\ SetStatus(js, s) = (jobs \ {f}) \cup {g}
                /\ g.id = f.id /\ g.rev = f.rev /\ g.gen = f.gen /\ g.members = f.members
                /\ g.status = s
  <1>1. CASE js = {}
    BY <1>1 DEF SetStatus
  <1>2. CASE js # {}
    <2>1. PICK f \in Open : js = {f} /\ f \in Job
      BY <1>2, SInvFacts DEF OpenJobs, Open, Unsettled
    <2>. DEFINE g == [f EXCEPT !.status = s, !.late = FALSE]
    <2>2. /\ g \in Job /\ g.id = f.id /\ g.rev = f.rev /\ g.gen = f.gen
          /\ g.members = f.members /\ g.status = s
      BY <2>1 DEF Job
    <2>3. SetStatus(js, s) = (jobs \ {f}) \cup {g}
      BY <2>1 DEF SetStatus
    <2>. HIDE DEF g
    <2>. QED
      BY <2>1, <2>2, <2>3
  <1>. QED
    BY <1>1, <1>2

\* While a job is open, rows come and go with nobody.
RowsKept ==
    \A n \in Node : /\ rows'[n] # None <=> rows[n] # None
                    /\ rows[n] # None => rows'[n].job = rows[n].job

\* The open job is replaced by a later stage of itself.
LEMMA ReplaceStep ==
    ASSUME SInv, HistoryGrows, NEW f \in Open, NEW g \in Job,
           g.id = f.id, g.rev = f.rev, g.gen = f.gen, g.members = f.members,
           jobs' = (jobs \ {f}) \cup {g},
           binding'.gen \in Nat, binding.gen <= binding'.gen,
           JobEarned(g)',
           g.status \notin {"preparing", "aborted"} => g.gen <= binding'.gen,
           g.status \in {"preparing", "applying", "partial"} => RowsKept,
           g.status = "preparing" => (f.status = "preparing" /\ slots'["candidate"] = slots["candidate"]),
           g.status \in {"applying", "partial"} => (g.gen = binding'.gen /\ g.rev = binding'.desired)
    PROVE  /\ jobs' \subseteq Job /\ OpenJobs(binding, jobs, rows, slots)'
           /\ JobsEarned(jobs)' /\ GensPast(binding, jobs)'
  <1>0. /\ jobs \subseteq Job /\ OpenJobs(binding, jobs, rows, slots) /\ JobsEarned(jobs)
        /\ GensPast(binding, jobs) /\ binding.gen \in Nat
    BY SInvFacts
  <1>1. /\ \A k \in Unsettled(jobs) : k = f
        /\ f.status = "preparing" => slots["candidate"] = f.rev
        /\ \A n \in f.members : rows[n] # None
        /\ \A n \in Node : rows[n] # None => rows[n].job = f.id
    BY <1>0 DEF OpenJobs, Open, Unsettled
  <1>2. \A k \in Unsettled(jobs') : k = g
    BY <1>1 DEF Unsettled
  <1>3. g.members \subseteq Node
    BY DEF Job
  <1>4. OpenJobs(binding, jobs, rows, slots)'
    <2>. SUFFICES ASSUME g \in Unsettled(jobs')
                  PROVE  /\ g.status = "preparing" => slots'["candidate"] = g.rev
                         /\ g.status # "preparing" => g.gen = binding'.gen /\ g.rev = binding'.desired
                         /\ \A n \in g.members : rows'[n] # None
                         /\ \A n \in Node : rows'[n] # None => rows'[n].job = g.id
      BY <1>2 DEF OpenJobs, Unsettled
    <2>1. g.status \in {"preparing", "applying", "partial"}
      BY DEF Unsettled
    <2>. QED
      BY <1>1, <1>3, <2>1 DEF RowsKept
  <1>5. JobsEarned(jobs)'
    BY <1>0, JobStaysEarned DEF JobsEarned
  <1>6. GensPast(binding, jobs)'
    <2>. SUFFICES ASSUME NEW k \in jobs', k.status # "preparing", k.status # "aborted"
                  PROVE  k.gen <= binding'.gen
      BY DEF GensPast
    <2>1. CASE k = g
      BY <2>1
    <2>2. CASE k \in jobs
      <3>1. k.gen <= binding.gen /\ k.gen \in Nat
        BY <1>0, <2>2 DEF GensPast, Job
      <3>. QED
        BY <1>0, <3>1
    <2>. QED
      BY <2>1, <2>2
  <1>. QED
    BY <1>0, <1>4, <1>5, <1>6

\* The jobs are left.
LEMMA SameJobs ==
    ASSUME SInv, HistoryGrows, jobs' = jobs, binding' = binding,
           Open # {} => (RowsKept /\ slots'["candidate"] = slots["candidate"])
    PROVE  /\ jobs' \subseteq Job /\ OpenJobs(binding, jobs, rows, slots)'
           /\ JobsEarned(jobs)' /\ GensPast(binding, jobs)'
  <1>0. /\ jobs \subseteq Job /\ OpenJobs(binding, jobs, rows, slots) /\ JobsEarned(jobs)
        /\ GensPast(binding, jobs)
    BY SInvFacts
  <1>1. \A j \in jobs : j.members \subseteq Node
    BY <1>0 DEF Job
  <1>2. OpenJobs(binding, jobs, rows, slots)'
    BY <1>0, <1>1 DEF OpenJobs, Unsettled, Open, RowsKept
  <1>3. JobsEarned(jobs)'
    BY <1>0, JobStaysEarned DEF JobsEarned
  <1>4. GensPast(binding, jobs)'
    BY <1>0 DEF GensPast
  <1>. QED
    BY <1>0, <1>2, <1>3, <1>4

\* Every open job is aborted.
LEMMA AbortAll ==
    ASSUME SInv, HistoryGrows, jobs' = SetStatus(Open, "aborted"),
           binding'.gen \in Nat, binding.gen <= binding'.gen
    PROVE  /\ jobs' \subseteq Job /\ OpenJobs(binding, jobs, rows, slots)'
           /\ JobsEarned(jobs)' /\ GensPast(binding, jobs)'
  <1>0. /\ jobs \subseteq Job /\ JobsEarned(jobs) /\ GensPast(binding, jobs) /\ binding.gen \in Nat
    BY SInvFacts
  <1>1. "aborted" \in Status
    BY DEF Status
  <1>2. CASE Open = {} /\ jobs' = jobs
    <2>1. OpenJobs(binding, jobs, rows, slots)'
      BY <1>2 DEF OpenJobs, Open, Unsettled
    <2>2. JobsEarned(jobs)'
      BY <1>0, <1>2, JobStaysEarned DEF JobsEarned
    <2>3. GensPast(binding, jobs)'
      <3>1. \A k \in jobs : k.gen \in Nat
        BY <1>0 DEF Job
      <3>. QED
        BY <1>0, <1>2, <3>1 DEF GensPast
    <2>. QED
      BY <1>0, <1>2, <2>1, <2>2, <2>3
  <1>3. ASSUME NEW f \in Open, NEW g \in Job, jobs' = (jobs \ {f}) \cup {g},
               g.id = f.id, g.rev = f.rev, g.gen = f.gen, g.members = f.members,
               g.status = "aborted"
        PROVE  /\ jobs' \subseteq Job /\ OpenJobs(binding, jobs, rows, slots)'
               /\ JobsEarned(jobs)' /\ GensPast(binding, jobs)'
    <2>1. JobEarned(g)'
      BY <1>3 DEF JobEarned
    <2>. QED
      BY <1>3, <2>1, ReplaceStep
  <1>. QED
    BY <1>1, <1>2, <1>3, SetStatusCases

-----------------------------------------------------------------------------
(* Processes *)

LEMMA ObserveStep ==
    ASSUME SInv, size' = size, NEW n \in Node, Observe(n)
    PROVE  SInv'
  <1>0. /\ WorldTyped /\ incarnation \in Nat /\ binding \in Binding /\ jobs \subseteq Job
        /\ rows \in [Node -> Row \cup {None}] /\ RowsEarned(rows)
        /\ OpenJobs(binding, jobs, rows, slots) /\ binding.inc <= incarnation
        /\ binding.gen \in Nat /\ binding.inc \in Nat
    BY SInvFacts
  <1>. DEFINE v == [b |-> binding, row |-> rows[n],
                    job |-> IF Open = {} THEN 0 ELSE (CHOOSE j \in Open : TRUE).id,
                    status |-> IF Open = {} THEN "" ELSE (CHOOSE j \in Open : TRUE).status]
  <1>1. view' = [view EXCEPT ![n] = v]
    BY DEF Observe
  <1>2. UNCHANGED <<tables, admitted, active, world, history>>
    BY DEF Observe
  <1>3. /\ HistoryGrows /\ Moves
        /\ UNCHANGED <<binding, jobs, rows, slots, payload, admitted, active, incarnation,
                       backup, issued, unconfirmed, prepares, installs>>
    BY <1>2 DEF HistoryGrows, Moves, tables, world, history
  <1>4. v.job \in Nat /\ v.status \in Status \cup {""}
        /\ (rows[n] # None /\ v.status = "preparing" => rows[n].job = v.job)
    <2>1. CASE Open = {}
      BY <2>1
    <2>2. CASE Open # {}
      <3>1. PICK j \in Open : v.job = j.id /\ v.status = j.status
        BY <2>2
      <3>2. j \in Job
        BY <1>0 DEF Open
      <3>3. size.jobs \in Nat
        BY <1>0, SelfConfigAssumption DEF WorldTyped
      <3>4. j.id \in Nat /\ j.status \in Status
        BY <3>2, <3>3 DEF Job
      <3>5. rows[n] # None => rows[n].job = j.id
        BY <1>0 DEF OpenJobs, Open, Unsettled
      <3>. QED
        BY <3>1, <3>4, <3>5
    <2>. QED
      BY <2>1, <2>2
  <1>5. v.b = binding /\ v.row = rows[n]
    OBVIOUS
  <1>6. v \in View
    <2>. DEFINE jb == v.job
                st == v.status
    <2>1. v = [b |-> binding, row |-> rows[n], job |-> jb, status |-> st]
      OBVIOUS
    <2>2. jb \in Nat /\ st \in Status \cup {""}
      BY <1>4
    <2>. HIDE DEF v, jb, st
    <2>. QED
      BY <1>0, <2>1, <2>2 DEF View
  <1>. HIDE DEF v
  <1>7. ReadHere(v.b.inc, v.b.gen, v.b.desired)
    BY <1>0, <1>5 DEF ReadHere
  <1>8. v.row # None => RowEarned(n, v.row)
    BY <1>0, <1>5 DEF RowsEarned
  <1>9. PICK w : w = v
    OBVIOUS
  <1>10. ViewOK(n, w)
    BY <1>4, <1>5, <1>6, <1>7, <1>8, <1>9 DEF ViewOK
  <1>11. ViewOK(n, w)'
    <2>1. ReadHere(w.b.inc, w.b.gen, w.b.desired)'
      BY <1>3, <1>10 DEF ReadHere, ViewOK
    <2>2. w.row # None => RowEarned(n, w.row)'
      BY <1>3, <1>10, RowStaysEarned DEF ViewOK
    <2>. QED
      BY <1>10, <2>1, <2>2, SizeKept DEF ViewOK
  <1>12. ASSUME NEW m \in Node PROVE ProcessOK(m)'
    <2>1. CASE m = n
      <3>1. view'[n] = w
        BY <1>0, <1>1, <1>9 DEF WorldTyped
      <3>2. active[n] # None => ReadHere(active[n].inc, active[n].gen, active[n].rev)'
        BY <1>3, SInvFacts DEF ProcessOK, ReadHere
      <3>. QED
        BY <1>3, <1>11, <2>1, <3>1, <3>2 DEF ProcessOK
    <2>2. CASE m # n
      <3>1. view'[m] = view[m]
        BY <1>0, <1>1, <2>2 DEF WorldTyped
      <3>. QED
        BY <1>3, <3>1, ProcessesStay
    <2>. QED
      BY <2>1, <2>2
  <1>13. WorldTyped'
    BY <1>0, <1>1, <1>3, SizeKept DEF WorldTyped
  <1>14. Fenced'
    BY <1>3 DEF SInv, Fenced
  <1>15. BackupOK' /\ TablesOK(binding, jobs, rows, slots, payload)'
    BY <1>2, <1>3, BackupStays, TablesStay
  <1>. QED
    BY <1>12, <1>13, <1>14, <1>15 DEF SInv

LEMMA StopStep ==
    ASSUME SInv, size' = size, NEW n \in Node, Stop(n) \/ Start(n)
    PROVE  SInv'
  <1>0. WorldTyped /\ incarnation \in Nat
    BY SInvFacts
  <1>1. /\ admitted' = [admitted EXCEPT ![n] = 0] \/ admitted' = [admitted EXCEPT ![n] = incarnation]
        /\ active' = [active EXCEPT ![n] = None] \/ active' = active
        /\ view' = [view EXCEPT ![n] = None] \/ view' = view
        /\ UNCHANGED <<tables, incarnation, backup, issued, history>>
    BY DEF Stop, Start, world
  <1>2. HistoryGrows /\ Moves /\ UNCHANGED <<binding, unconfirmed>>
    BY <1>1 DEF HistoryGrows, Moves, history, tables
  <1>3. WorldTyped'
    <2>1. incarnation \in 0..size.incs /\ 0 \in 0..size.incs
      BY <1>0, SelfConfigAssumption DEF WorldTyped
    <2>. QED
      BY <1>0, <1>1, <2>1, SizeKept DEF WorldTyped
  <1>4. ASSUME NEW m \in Node PROVE ProcessOK(m)'
    <2>1. /\ view'[m] = view[m] \/ view'[m] = None
          /\ active'[m] = active[m] \/ active'[m] = None
      BY <1>0, <1>1 DEF WorldTyped
    <2>. QED
      BY <1>2, <2>1, ProcessesStay
  <1>5. Fenced'
    BY <1>1, <1>2 DEF SInv, Fenced
  <1>6. BackupOK' /\ TablesOK(binding, jobs, rows, slots, payload)'
    BY <1>1, <1>2, BackupStays, TablesStay
  <1>. QED
    BY <1>3, <1>4, <1>5, <1>6 DEF SInv

\* A step that changes the tables and lets processes be: what is left to show.
LEMMA TableStep ==
    ASSUME SInv, HistoryGrows, Moves, incarnation' = incarnation,
           TablesOK(binding, jobs, rows, slots, payload)', Fenced',
           UNCHANGED <<process, backup>>, issued' \in 0..size.jobs
    PROVE  SInv'
  <1>0. WorldTyped
    BY SInvFacts
  <1>1. UNCHANGED <<admitted, active, view>> /\ size' = size
    BY DEF process, HistoryGrows
  <1>2. WorldTyped'
    BY <1>0, <1>1, SizeKept DEF WorldTyped
  <1>3. \A n \in Node : ProcessOK(n)'
    BY <1>1, ProcessesStay
  <1>4. BackupOK'
    BY BackupStays
  <1>. QED
    BY <1>2, <1>3, <1>4 DEF SInv

LEMMA QuietStep ==
    ASSUME SInv, size' = size, NEW n \in Node, Quiet(n)
    PROVE  SInv'
  <1>0. /\ WorldTyped /\ binding \in Binding /\ rows \in [Node -> Row \cup {None}]
        /\ slots \in [Slot -> Rev \cup {0}] /\ payload \subseteq Rev /\ binding.gen # 0
        /\ SlotsHold(binding, slots, payload) /\ RowsEarned(rows) /\ binding.inc <= incarnation
    BY SInvFacts
  <1>1. /\ rows[n] # None /\ rows' = [rows EXCEPT ![n].fresh = FALSE]
        /\ UNCHANGED <<binding, jobs, slots, payload, process, world, history>>
    BY DEF Quiet
  <1>2. /\ HistoryGrows /\ Moves
        /\ UNCHANGED <<incarnation, backup, issued, prepares, installs, unconfirmed>>
    BY <1>1 DEF HistoryGrows, Moves, history, world
  <1>. DEFINE r == [rows[n] EXCEPT !.fresh = FALSE]
  <1>3. /\ r \in Row /\ r.job = rows[n].job /\ r.prepared = rows[n].prepared
        /\ r.gen = rows[n].gen /\ r.rev = rows[n].rev
    <2>1. rows[n] \in Row
      BY <1>0, <1>1
    <2>. QED
      BY <2>1 DEF Row
  <1>4. rows' = [rows EXCEPT ![n] = r]
    BY <1>1
  <1>. HIDE DEF r
  <1>5. r # None
    BY <1>3, SelfConfigAssumption
  <1>6. RowsKept /\ rows' \in [Node -> Row \cup {None}]
    BY <1>0, <1>1, <1>3, <1>4, <1>5 DEF RowsKept
  <1>7. RowsEarned(rows)'
    <2>. SUFFICES ASSUME NEW m \in Node, rows'[m] # None PROVE RowEarned(m, rows[m])'
      BY DEF RowsEarned
    <2>1. PICK q : q = rows'[m]
      OBVIOUS
    <2>2. RowEarned(m, q)
      BY <1>0, <1>1, <1>3, <1>4, <2>1 DEF RowsEarned, RowEarned
    <2>3. RowEarned(m, q)'
      BY <1>2, <2>2, RowStaysEarned
    <2>. QED
      BY <2>1, <2>3
  <1>8. /\ jobs' \subseteq Job /\ OpenJobs(binding, jobs, rows, slots)'
        /\ JobsEarned(jobs)' /\ GensPast(binding, jobs)'
    BY <1>1, <1>2, <1>6, SameJobs
  <1>9. TablesOK(binding, jobs, rows, slots, payload)'
    <2>1. SlotsHold(binding, slots, payload)'
      BY <1>0, <1>1 DEF SlotsHold
    <2>2. TablesTyped(binding, jobs, rows, slots, payload)'
      BY <1>0, <1>1, <1>6, <1>8, SizeKept DEF TablesTyped
    <2>. QED
      BY <1>0, <1>1, <1>2, <1>7, <1>8, <2>1, <2>2 DEF TablesOK
  <1>10. Fenced'
    BY <1>1, <1>2 DEF SInv, Fenced
  <1>. QED
    BY <1>0, <1>1, <1>2, <1>9, <1>10, TableStep DEF WorldTyped

LEMMA CollectStep ==
    ASSUME SInv, size' = size, NEW r \in Rev, Collect(r)
    PROVE  SInv'
  <1>0. /\ WorldTyped /\ binding \in Binding /\ rows \in [Node -> Row \cup {None}]
        /\ slots \in [Slot -> Rev \cup {0}] /\ payload \subseteq Rev /\ binding.gen # 0
        /\ SlotsHold(binding, slots, payload) /\ RowsEarned(rows) /\ binding.inc <= incarnation
    BY SInvFacts
  <1>1. /\ \A s \in Slot : slots[s] # r
        /\ payload' = payload \ {r}
        /\ UNCHANGED <<binding, jobs, rows, slots, process, world, history>>
    BY DEF Collect, Held
  <1>2. /\ HistoryGrows /\ Moves
        /\ UNCHANGED <<incarnation, backup, issued, prepares, installs, unconfirmed>>
    BY <1>1 DEF HistoryGrows, Moves, history, world
  <1>3. SlotsHold(binding, slots, payload)'
    BY <1>0, <1>1 DEF SlotsHold
  <1>4. RowsKept
    BY <1>1 DEF RowsKept
  <1>5. /\ jobs' \subseteq Job /\ OpenJobs(binding, jobs, rows, slots)'
        /\ JobsEarned(jobs)' /\ GensPast(binding, jobs)'
    BY <1>1, <1>2, <1>4, SameJobs
  <1>6. RowsEarned(rows)'
    BY <1>0, <1>1, <1>2, RowStaysEarned DEF RowsEarned
  <1>7. TablesTyped(binding, jobs, rows, slots, payload)'
    BY <1>0, <1>1, <1>5, SizeKept DEF TablesTyped
  <1>8. TablesOK(binding, jobs, rows, slots, payload)'
    BY <1>0, <1>1, <1>2, <1>3, <1>5, <1>6, <1>7 DEF TablesOK
  <1>9. Fenced'
    BY <1>1, <1>2 DEF SInv, Fenced
  <1>. QED
    BY <1>0, <1>1, <1>2, <1>8, <1>9, TableStep DEF WorldTyped

LEMMA TimePassesStep ==
    ASSUME SInv, size' = size, TimePasses
    PROVE  SInv'
  <1>0. /\ WorldTyped /\ binding \in Binding /\ rows \in [Node -> Row \cup {None}]
        /\ slots \in [Slot -> Rev \cup {0}] /\ payload \subseteq Rev /\ binding.gen # 0
        /\ SlotsHold(binding, slots, payload) /\ RowsEarned(rows) /\ binding.inc <= incarnation
        /\ jobs \subseteq Job /\ OpenJobs(binding, jobs, rows, slots) /\ JobsEarned(jobs)
        /\ GensPast(binding, jobs) /\ binding.gen \in Nat
    BY SInvFacts
  <1>1. UNCHANGED <<binding, rows, slots, payload, process, world, history>>
    BY DEF TimePasses
  <1>2. PICK f \in jobs : /\ f.status \in {"preparing", "applying"}
                          /\ jobs' = (jobs \ {f}) \cup {[f EXCEPT !.late = TRUE]}
    BY DEF TimePasses
  <1>3. /\ HistoryGrows /\ Moves
        /\ UNCHANGED <<incarnation, backup, issued, prepares, installs, unconfirmed>>
    BY <1>1 DEF HistoryGrows, Moves, history, world
  <1>. DEFINE g == [f EXCEPT !.late = TRUE]
  <1>4. /\ g \in Job /\ g.id = f.id /\ g.rev = f.rev /\ g.gen = f.gen
        /\ g.members = f.members /\ g.status = f.status
    <2>1. f \in Job
      BY <1>0
    <2>. QED
      BY <2>1 DEF Job
  <1>5. jobs' = (jobs \ {f}) \cup {g}
    BY <1>2
  <1>. HIDE DEF g
  <1>6. JobEarned(f)'
    BY <1>0, <1>3, JobStaysEarned DEF JobsEarned
  <1>7. PICK h : h = g
    OBVIOUS
  <1>8. JobEarned(h)'
    BY <1>4, <1>6, <1>7 DEF JobEarned
  <1>9. f \in Open /\ f \in Unsettled(jobs)
    BY <1>2 DEF Open, Unsettled
  <1>10. f.status # "preparing" => f.gen = binding.gen /\ f.rev = binding.desired
    BY <1>0, <1>9 DEF OpenJobs
  <1>11. RowsKept
    BY <1>1 DEF RowsKept
  <1>12. /\ jobs' \subseteq Job /\ OpenJobs(binding, jobs, rows, slots)'
         /\ JobsEarned(jobs)' /\ GensPast(binding, jobs)'
    <2>1. h \in Job /\ h.id = f.id /\ h.rev = f.rev /\ h.gen = f.gen
          /\ h.members = f.members /\ h.status = f.status /\ jobs' = (jobs \ {f}) \cup {h}
      BY <1>4, <1>5, <1>7
    <2>2. binding' = binding /\ slots' = slots /\ binding'.gen \in Nat /\ binding.gen <= binding'.gen
      BY <1>0, <1>1
    <2>3. f.status \in {"preparing", "applying"}
      BY <1>2
    <2>. QED
      BY <1>0, <1>3, <1>8, <1>9, <1>10, <1>11, <2>1, <2>2, <2>3, ReplaceStep
  <1>13. SlotsHold(binding, slots, payload)'
    BY <1>0, <1>1 DEF SlotsHold
  <1>14. RowsEarned(rows)'
    BY <1>0, <1>1, <1>3, RowStaysEarned DEF RowsEarned
  <1>15. TablesTyped(binding, jobs, rows, slots, payload)'
    BY <1>0, <1>1, <1>12, SizeKept DEF TablesTyped
  <1>16. TablesOK(binding, jobs, rows, slots, payload)'
    BY <1>0, <1>1, <1>3, <1>12, <1>13, <1>14, <1>15 DEF TablesOK
  <1>17. Fenced'
    BY <1>1, <1>3 DEF SInv, Fenced
  <1>. QED
    BY <1>0, <1>1, <1>3, <1>16, <1>17, TableStep DEF WorldTyped

LEMMA BackupStep ==
    ASSUME SInv, size' = size, Backup
    PROVE  SInv'
  <1>0. WorldTyped /\ TablesOK(binding, jobs, rows, slots, payload)
    BY SInvFacts
  <1>1. /\ backup' = [binding |-> binding, jobs |-> jobs, rows |-> rows, slots |-> slots,
                      payload |-> payload]
        /\ UNCHANGED <<tables, process, incarnation, issued, faults, history>>
    BY DEF Backup
  <1>2. /\ HistoryGrows /\ Moves
        /\ UNCHANGED <<binding, jobs, rows, slots, payload, admitted, active, view, unconfirmed>>
    BY <1>1 DEF HistoryGrows, Moves, history, tables, process
  <1>3. TablesOK(binding, jobs, rows, slots, payload)'
    BY <1>1, <1>2, TablesStay
  <1>4. BackupOK'
    <2>1. /\ backup'.binding = binding' /\ backup'.jobs = jobs' /\ backup'.rows = rows'
          /\ backup'.slots = slots' /\ backup'.payload = payload'
      BY <1>1, <1>2
    <2>. QED
      BY <1>3, <2>1 DEF BackupOK
  <1>5. WorldTyped'
    BY <1>0, <1>1, <1>2, SizeKept DEF WorldTyped
  <1>6. \A n \in Node : ProcessOK(n)'
    BY <1>2, ProcessesStay
  <1>7. Fenced'
    BY <1>1, <1>2 DEF SInv, Fenced
  <1>. QED
    BY <1>3, <1>4, <1>5, <1>6, <1>7 DEF SInv

LEMMA RestoreStep ==
    ASSUME SInv, size' = size, Restore
    PROVE  SInv'
  <1>0. WorldTyped /\ incarnation \in Nat
    BY SInvFacts
  <1>1. /\ backup # None /\ incarnation < size.incs
        /\ binding' = backup.binding /\ jobs' = backup.jobs /\ rows' = backup.rows
        /\ slots' = backup.slots /\ payload' = backup.payload
        /\ incarnation' = incarnation + 1 /\ backup' = None
        /\ UNCHANGED <<process, issued, prepares, installs>>
    BY DEF Restore
  <1>2. HistoryGrows /\ Moves /\ UNCHANGED <<admitted, active, view>>
    BY <1>1 DEF HistoryGrows, Moves, process
  <1>3. PICK c : c = backup
    OBVIOUS
  <1>4. TablesOK(c.binding, c.jobs, c.rows, c.slots, c.payload)
    BY <1>1, <1>3 DEF SInv, BackupOK
  <1>5. TablesOK(c.binding, c.jobs, c.rows, c.slots, c.payload)'
    BY <1>0, <1>1, <1>2, <1>4, TablesStayOK
  <1>6. TablesOK(binding, jobs, rows, slots, payload)'
    BY <1>1, <1>3, <1>5
  <1>7. c.binding.inc \in Nat /\ c.binding.inc <= incarnation
    BY <1>4 DEF TablesOK, TablesTyped, Binding
  <1>8. Fenced'
    <2>1. binding'.inc # incarnation'
      BY <1>0, <1>1, <1>3, <1>7
    <2>. QED
      BY <2>1 DEF Fenced
  <1>9. WorldTyped'
    <2>1. size.incs \in Nat
      BY <1>0, SelfConfigAssumption DEF WorldTyped
    <2>2. incarnation + 1 \in 1..size.incs
      BY <1>0, <1>1, <2>1
    <2>. QED
      BY <1>0, <1>1, <1>2, <2>2, SizeKept DEF WorldTyped
  <1>10. \A n \in Node : ProcessOK(n)'
    BY <1>2, ProcessesStay
  <1>11. BackupOK'
    BY <1>1 DEF BackupOK
  <1>. QED
    BY <1>6, <1>8, <1>9, <1>10, <1>11 DEF SInv

-----------------------------------------------------------------------------
(* Jobs *)

\* No node is left with a row.
LEMMA NoRows ==
    ASSUME rows' = [n \in Node |-> None]
    PROVE  rows' \in [Node -> Row \cup {None}] /\ RowsEarned(rows)'
  BY DEF RowsEarned

LEMMA BeginStep ==
    ASSUME SInv, size' = size, NEW n \in size.nodes, NEW r \in Rev, NEW confirm \in BOOLEAN,
           NEW beating \in SUBSET size.nodes, Begin(n, r, confirm, beating)
    PROVE  SInv'
  <1>0. /\ WorldTyped /\ binding \in Binding /\ rows \in [Node -> Row \cup {None}]
        /\ slots \in [Slot -> Rev \cup {0}] /\ payload \subseteq Rev /\ binding.gen # 0
        /\ SlotsHold(binding, slots, payload) /\ RowsEarned(rows) /\ binding.inc <= incarnation
        /\ jobs \subseteq Job /\ OpenJobs(binding, jobs, rows, slots) /\ JobsEarned(jobs)
        /\ GensPast(binding, jobs) /\ binding.gen \in Nat /\ binding.inc \in Nat /\ issued \in Nat
    BY SInvFacts
  <1>. DEFINE ms == IF beating = {} THEN {n} ELSE beating
              row == [job |-> issued + 1, prepared |-> FALSE, gen |-> 0, rev |-> 0,
                      inc |-> binding.inc, error |-> FALSE, fresh |-> TRUE]
              new == [id |-> issued + 1, rev |-> r, gen |-> binding.gen + 1,
                      confirm |-> confirm, status |-> "preparing", members |-> ms,
                      late |-> FALSE]
  <1>1. /\ issued < size.jobs /\ r \in payload /\ Open = Superseded
        /\ jobs' = SetStatus(Superseded, "superseded") \cup {new}
        /\ rows' = [m \in Node |-> IF m \in ms THEN row ELSE None]
        /\ issued' = issued + 1
        /\ slots' = [slots EXCEPT !["candidate"] = r]
        /\ UNCHANGED <<binding, payload, process, incarnation, backup, faults, history>>
    BY DEF Begin, NoneUnresolved
  <1>2. size.nodes \subseteq Node /\ size.jobs \in Nat
    BY <1>0, SelfConfigAssumption DEF WorldTyped
  <1>3. ms \in SUBSET Node /\ issued + 1 \in 1..size.jobs /\ issued + 1 \in 0..size.jobs
    BY <1>0, <1>1, <1>2
  <1>4. row \in Row /\ row.job = issued + 1 /\ row.prepared = FALSE /\ row.gen = 0
    BY <1>0 DEF Row
  <1>. HIDE DEF ms, row
  <1>5. /\ new \in Job /\ new.id = issued + 1 /\ new.rev = r /\ new.status = "preparing"
        /\ new.members = ms
    BY <1>0, <1>3 DEF Job, Status
  <1>. HIDE DEF new
  <1>6. row # None
    BY <1>4, SelfConfigAssumption
  <1>7. HistoryGrows /\ Moves /\ UNCHANGED <<prepares, installs, unconfirmed>>
    BY <1>1 DEF HistoryGrows, Moves, history
  <1>8. Superseded \in SUBSET jobs /\ \A j \in Superseded : j.status = "partial" /\ j.gen = binding.gen
    BY DEF Superseded, Open
  <1>9. /\ SetStatus(Superseded, "superseded") \subseteq Job
        /\ \A k \in SetStatus(Superseded, "superseded") :
             \/ k \in jobs \ Superseded
             \/ \E j \in Superseded : /\ k.id = j.id /\ k.gen = j.gen /\ k.members = j.members
                                      /\ k.status = "superseded"
    BY <1>0, <1>8, SetStatusFacts DEF Status
  <1>10. jobs' \subseteq Job
    BY <1>1, <1>5, <1>9
  <1>11. \A k \in Unsettled(jobs') : k = new
    BY <1>1, <1>9 DEF Unsettled, Open
  <1>12. rows' \in [Node -> Row \cup {None}] /\ RowsEarned(rows)'
    <2>1. rows' \in [Node -> Row \cup {None}]
      BY <1>1, <1>4
    <2>2. \A m \in Node : rows'[m] # None => rows'[m] = row
      BY <1>1
    <2>3. PICK q : q = row
      OBVIOUS
    <2>4. \A m \in Node : RowEarned(m, q)'
      BY <1>4, <2>3 DEF RowEarned
    <2>. QED
      BY <2>1, <2>2, <2>3, <2>4 DEF RowsEarned
  <1>13. OpenJobs(binding, jobs, rows, slots)'
    <2>1. slots'["candidate"] = r
      BY <1>0, <1>1 DEF Slot
    <2>2. \A m \in ms : rows'[m] # None
      BY <1>1, <1>3, <1>6
    <2>3. \A m \in Node : rows'[m] # None => rows'[m].job = issued + 1
      BY <1>1, <1>4
    <2>. QED
      BY <1>5, <1>11, <2>1, <2>2, <2>3 DEF OpenJobs
  <1>14. JobsEarned(jobs)'
    <2>. SUFFICES ASSUME NEW k \in jobs' PROVE JobEarned(k)'
      BY DEF JobsEarned
    <2>1. CASE k = new
      BY <1>5, <2>1 DEF JobEarned
    <2>2. CASE k \in jobs
      BY <1>0, <1>7, <2>2, JobStaysEarned DEF JobsEarned
    <2>3. ASSUME NEW j \in Superseded, k.id = j.id, k.members = j.members,
                 k.status = "superseded"
          PROVE  JobEarned(k)'
      <3>1. JobEarned(j)' /\ j.status = "partial"
        BY <1>0, <1>7, <1>8, JobStaysEarned DEF JobsEarned
      <3>. QED
        BY <2>3, <3>1 DEF JobEarned
    <2>. QED
      BY <1>1, <1>9, <2>1, <2>2, <2>3
  <1>15. GensPast(binding, jobs)'
    <2>. SUFFICES ASSUME NEW k \in jobs', k.status # "preparing", k.status # "aborted"
                  PROVE  k.gen <= binding.gen
      BY <1>1 DEF GensPast
    <2>1. CASE k \in jobs
      BY <1>0, <2>1 DEF GensPast
    <2>2. CASE \E j \in Superseded : k.gen = j.gen
      BY <1>0, <1>8, <2>2
    <2>. QED
      BY <1>1, <1>5, <1>9, <2>1, <2>2
  <1>16. SlotsHold(binding, slots, payload)'
    <2>1. slots'["desired"] = slots["desired"] /\ slots'["previous"] = slots["previous"]
      BY <1>0, <1>1 DEF Slot
    <2>2. \A s \in Slot : slots'[s] = slots[s] \/ slots'[s] = r
      BY <1>0, <1>1
    <2>. QED
      BY <1>0, <1>1, <2>1, <2>2 DEF SlotsHold
  <1>17. slots' \in [Slot -> Rev \cup {0}]
    BY <1>0, <1>1
  <1>18. TablesTyped(binding, jobs, rows, slots, payload)'
    BY <1>0, <1>1, <1>10, <1>12, <1>17, SizeKept DEF TablesTyped
  <1>19. TablesOK(binding, jobs, rows, slots, payload)'
    BY <1>0, <1>1, <1>12, <1>13, <1>14, <1>15, <1>16, <1>18 DEF TablesOK
  <1>20. Fenced'
    BY <1>1, <1>7 DEF SInv, Fenced
  <1>. QED
    BY <1>1, <1>3, <1>7, <1>19, <1>20, TableStep

LEMMA CommitStep ==
    ASSUME SInv, size' = size, NEW n \in Node, NEW j \in jobs, Commit(n, j)
    PROVE  SInv'
  <1>0. /\ WorldTyped /\ binding \in Binding /\ rows \in [Node -> Row \cup {None}]
        /\ slots \in [Slot -> Rev \cup {0}] /\ payload \subseteq Rev /\ binding.gen # 0
        /\ SlotsHold(binding, slots, payload) /\ RowsEarned(rows) /\ binding.inc <= incarnation
        /\ jobs \subseteq Job /\ OpenJobs(binding, jobs, rows, slots)
        /\ binding.gen \in Nat /\ binding.inc \in Nat
    BY SInvFacts
  <1>. DEFINE prev == IF KeepsPrevious THEN binding.desired ELSE binding.prev
              next == binding.gen + 1
              b == [binding EXCEPT !.gen = next, !.desired = j.rev, !.suspended = FALSE,
                                   !.prev = prev]
              slot == IF KeepsPrevious THEN binding.desired ELSE slots["previous"]
  <1>1. /\ j.status = "preparing" /\ binding.gen + 1 = j.gen
        /\ binding.suspended = j.confirm /\ AllPrepared(j)
        /\ jobs' = SetStatus({j}, "applying")
        /\ unconfirmed' = (unconfirmed /\ ~j.confirm)
        /\ UNCHANGED <<rows, payload, process, world, prepares, installs>>
    BY DEF Commit
  <1>2. binding' = b /\ slots' = [slots EXCEPT !["desired"] = j.rev, !["previous"] = slot]
    BY DEF Commit
  <1>3. /\ HistoryGrows
        /\ UNCHANGED <<incarnation, backup, issued, process>>
    BY <1>1 DEF HistoryGrows, world
  <1>4. j \in Job /\ j.rev \in Rev /\ j.members \in SUBSET Node
    BY <1>0 DEF Job
  <1>5. prev \in Rev \cup {0} /\ slot = prev
    BY <1>0 DEF Binding, SlotsHold
  <1>. HIDE DEF prev, slot
  <1>6. /\ b \in Binding /\ b.gen = binding.gen + 1 /\ b.desired = j.rev /\ b.prev = prev
        /\ b.inc = binding.inc /\ b.suspended = FALSE
    <2>1. next \in Nat /\ next = binding.gen + 1
      BY <1>0
    <2>. HIDE DEF next
    <2>. QED
      BY <1>0, <1>4, <1>5, <2>1 DEF Binding
  <1>. HIDE DEF b
  <1>7. Moves
    BY <1>2, <1>3, <1>6 DEF Moves
  <1>8. j \in Open /\ j \in Unsettled(jobs)
    BY <1>1 DEF Open, Unsettled
  <1>9. /\ slots["candidate"] = j.rev /\ \A m \in j.members : rows[m] # None
    BY <1>0, <1>1, <1>8 DEF OpenJobs
  <1>10. \A m \in j.members : [node |-> m, job |-> j.id] \in prepares
    <2>. SUFFICES ASSUME NEW m \in j.members PROVE [node |-> m, job |-> j.id] \in prepares
      OBVIOUS
    <2>1. m \in Node /\ m \in Members
      BY <1>4, <1>9 DEF Members
    <2>2. rows[m].job = j.id /\ rows[m].prepared
      BY <1>1, <2>1 DEF AllPrepared
    <2>3. j.id # 0
      <3>1. size.jobs \in Nat
        BY <1>0, SelfConfigAssumption DEF WorldTyped
      <3>. QED
        BY <1>4, <3>1 DEF Job
    <2>. QED
      BY <1>0, <1>9, <2>1, <2>2, <2>3 DEF RowsEarned, RowEarned
  <1>11. PICK g \in Job : /\ jobs' = (jobs \ {j}) \cup {g}
           /\ g.id = j.id /\ g.rev = j.rev /\ g.gen = j.gen /\ g.members = j.members
           /\ g.status = "applying"
    <2>1. {j} \in SUBSET Open /\ "applying" \in Status
      BY <1>8 DEF Status
    <2>. QED
      BY <1>1, <2>1, SetStatusCases
  <1>12. JobEarned(g)'
    BY <1>1, <1>10, <1>11 DEF JobEarned
  <1>13. RowsKept
    BY <1>1 DEF RowsKept
  <1>14. /\ jobs' \subseteq Job /\ OpenJobs(binding, jobs, rows, slots)'
         /\ JobsEarned(jobs)' /\ GensPast(binding, jobs)'
    <2>1. /\ binding'.gen \in Nat /\ binding.gen <= binding'.gen /\ g.gen = binding'.gen
          /\ g.rev = binding'.desired /\ g.gen <= binding'.gen
      BY <1>0, <1>1, <1>2, <1>6, <1>11
    <2>. QED
      BY <1>3, <1>8, <1>11, <1>12, <1>13, <2>1, ReplaceStep
  <1>15. slots' \in [Slot -> Rev \cup {0}]
    BY <1>0, <1>2, <1>4, <1>5
  <1>16. SlotsHold(binding, slots, payload)'
    <2>1. slots'["desired"] = j.rev /\ slots'["previous"] = prev /\ slots'["candidate"] = j.rev
      BY <1>0, <1>2, <1>5, <1>9 DEF Slot
    <2>2. /\ j.rev # 0 => j.rev \in payload
          /\ prev # 0 => prev \in payload
      BY <1>0, <1>9 DEF SlotsHold, Slot, prev
    <2>. QED
      BY <1>1, <1>2, <1>6, <2>1, <2>2 DEF SlotsHold, Slot
  <1>17. RowsEarned(rows)'
    BY <1>0, <1>1, <1>3, RowStaysEarned DEF RowsEarned
  <1>18. TablesTyped(binding, jobs, rows, slots, payload)'
    <2>1. binding' \in Binding /\ binding'.gen # 0
      BY <1>0, <1>2, <1>6
    <2>. QED
      BY <1>0, <1>1, <1>14, <1>15, <2>1, SizeKept DEF TablesTyped
  <1>19. TablesOK(binding, jobs, rows, slots, payload)'
    BY <1>0, <1>2, <1>3, <1>6, <1>14, <1>16, <1>17, <1>18 DEF TablesOK
  <1>20. Fenced'
    <2>1. ASSUME unconfirmed' PROVE unconfirmed /\ ~binding.suspended
      BY <1>1, <2>1
    <2>2. unconfirmed => binding.suspended \/ binding.inc # incarnation
      BY DEF SInv, Fenced
    <2>3. binding'.inc = binding.inc
      BY <1>2, <1>6
    <2>. QED
      BY <1>3, <2>1, <2>2, <2>3 DEF Fenced
  <1>. QED
    BY <1>0, <1>3, <1>7, <1>19, <1>20, TableStep DEF WorldTyped

LEMMA RecoverStep ==
    ASSUME SInv, size' = size, NEW r \in Rev, NEW beating, Recover(r, beating)
    PROVE  SInv'
  <1>0. /\ WorldTyped /\ binding \in Binding /\ payload \subseteq Rev /\ binding.gen # 0
        /\ SlotsHold(binding, slots, payload) /\ binding.inc <= incarnation
        /\ binding.gen \in Nat /\ binding.inc \in Nat
    BY SInvFacts
  <1>. DEFINE next == binding.gen + 1
              b == [binding EXCEPT !.gen = next, !.desired = r, !.prev = binding.desired]
              sl == [desired |-> r, previous |-> binding.desired, candidate |-> 0]
  <1>1. /\ r \in payload /\ jobs' = SetStatus(Open, "aborted") /\ binding' = b
        /\ slots' = sl /\ rows' = [n \in Node |-> None]
        /\ UNCHANGED <<payload, process, incarnation, backup, issued, history>>
    BY DEF Recover, Recovered
  <1>2. binding.desired \in Rev /\ binding.desired \in payload
    <2>1. binding.desired \in Rev
      BY <1>0 DEF Binding
    <2>2. binding.desired # 0
      <3>1. size.revisions \in Nat
        BY <1>0, SelfConfigAssumption DEF WorldTyped
      <3>. QED
        BY <2>1, <3>1 DEF Rev
    <2>. QED
      BY <1>0, <2>1, <2>2 DEF SlotsHold, Slot
  <1>3. /\ b \in Binding /\ b.gen = binding.gen + 1 /\ b.desired = r /\ b.prev = binding.desired
        /\ b.inc = binding.inc /\ b.suspended = binding.suspended
    <2>1. next \in Nat /\ next = binding.gen + 1
      BY <1>0
    <2>. HIDE DEF next
    <2>. QED
      BY <1>0, <1>2, <2>1 DEF Binding
  <1>4. /\ sl \in [Slot -> Rev \cup {0}] /\ sl["desired"] = r
        /\ sl["previous"] = binding.desired /\ sl["candidate"] = 0
    <2>1. DOMAIN sl = Slot
      BY DEF Slot
    <2>2. sl["desired"] = r /\ sl["previous"] = binding.desired /\ sl["candidate"] = 0
      OBVIOUS
    <2>3. sl = [s \in Slot |-> sl[s]]
      BY <2>1
    <2>4. \A s \in Slot : sl[s] \in Rev \cup {0}
      BY <1>2, <2>2 DEF Slot
    <2>. HIDE DEF sl
    <2>. QED
      BY <2>2, <2>3, <2>4
  <1>. HIDE DEF b, sl
  <1>5. HistoryGrows /\ Moves /\ UNCHANGED <<prepares, installs, unconfirmed>>
    BY <1>1, <1>3 DEF HistoryGrows, Moves, history
  <1>6. /\ jobs' \subseteq Job /\ OpenJobs(binding, jobs, rows, slots)'
        /\ JobsEarned(jobs)' /\ GensPast(binding, jobs)'
    <2>1. binding'.gen \in Nat /\ binding.gen <= binding'.gen
      BY <1>0, <1>1, <1>3
    <2>. QED
      BY <1>1, <1>5, <2>1, AbortAll
  <1>7. rows' \in [Node -> Row \cup {None}] /\ RowsEarned(rows)'
    BY <1>1, NoRows
  <1>8. SlotsHold(binding, slots, payload)'
    BY <1>1, <1>2, <1>3, <1>4 DEF SlotsHold, Slot
  <1>9. TablesTyped(binding, jobs, rows, slots, payload)'
    <2>1. binding' \in Binding /\ binding'.gen # 0
      BY <1>0, <1>1, <1>3
    <2>. QED
      BY <1>0, <1>1, <1>4, <1>6, <1>7, <2>1, SizeKept DEF TablesTyped
  <1>10. TablesOK(binding, jobs, rows, slots, payload)'
    BY <1>0, <1>1, <1>3, <1>6, <1>7, <1>8, <1>9 DEF TablesOK
  <1>11. Fenced'
    BY <1>1, <1>3, <1>5 DEF SInv, Fenced
  <1>. QED
    BY <1>0, <1>1, <1>5, <1>10, <1>11, TableStep DEF WorldTyped

-----------------------------------------------------------------------------
(* Reconciliation *)

\* A reconciliation ends with what the view showed installed, or with nothing.
LEMMA FinishStep ==
    ASSUME SInv, size' = size, Moves, NEW n \in Node, NEW a, Finish(n, a),
           prepares \subseteq prepares',
           a = None \/ a = active[n] \/ (view[n] # None /\ a = Target(view[n].b))
    PROVE  /\ HistoryGrows /\ WorldTyped' /\ \A m \in Node : ProcessOK(m)'
           /\ a # None => [node |-> n, what |-> a] \in installs'
           /\ UNCHANGED <<backup, incarnation, unconfirmed>>
  <1>0. /\ WorldTyped /\ incarnation \in Nat /\ binding.gen \in Nat /\ ProcessOK(n)
    BY SInvFacts
  <1>1. /\ view' = [view EXCEPT ![n] = None] /\ active' = [active EXCEPT ![n] = a]
        /\ installs' = installs \cup (IF a = None THEN {} ELSE {[node |-> n, what |-> a]})
        /\ UNCHANGED <<admitted, world, unconfirmed>>
    BY DEF Finish
  <1>2. UNCHANGED <<incarnation, backup, issued, unconfirmed>>
    BY <1>1 DEF world
  <1>3. HistoryGrows
    BY <1>1 DEF HistoryGrows
  <1>4. a # None => a \in Installed /\ ReadHere(a.inc, a.gen, a.rev)
    <2>1. CASE a = active[n]
      BY <1>0, <2>1 DEF WorldTyped, ProcessOK
    <2>2. CASE view[n] # None /\ a = Target(view[n].b)
      <3>1. view[n].b \in Binding /\ ReadHere(view[n].b.inc, view[n].b.gen, view[n].b.desired)
        BY <1>0, <2>2 DEF ProcessOK, ViewOK, View
      <3>. QED
        BY <2>2, <3>1 DEF Target, Installed, Binding
    <2>. QED
      BY <2>1, <2>2
  <1>5. WorldTyped'
    BY <1>0, <1>1, <1>2, <1>4, SizeKept DEF WorldTyped
  <1>6. ASSUME NEW m \in Node PROVE ProcessOK(m)'
    <2>1. CASE m # n
      <3>1. view'[m] = view[m] /\ active'[m] = active[m]
        BY <1>0, <1>1, <2>1 DEF WorldTyped
      <3>. QED
        BY <1>3, <3>1, ProcessesStay
    <2>2. CASE m = n
      <3>1. view'[n] = None /\ active'[n] = a
        BY <1>0, <1>1 DEF WorldTyped
      <3>2. a # None => a.inc \in Nat /\ a.gen \in Nat
        BY <1>4 DEF Installed
      <3>3. a # None => ReadHere(a.inc, a.gen, a.rev)'
        BY <1>0, <1>4, <3>2, StillReadHere
      <3>. QED
        BY <2>2, <3>1, <3>3 DEF ProcessOK
    <2>. QED
      BY <2>1, <2>2
  <1>. QED
    BY <1>1, <1>2, <1>3, <1>5, <1>6

LEMMA RestStep ==
    ASSUME SInv, size' = size, NEW n \in Node, Rest(n)
    PROVE  SInv'
  <1>1. Finish(n, None) /\ UNCHANGED <<tables, prepares>>
    BY DEF Rest
  <1>2. Moves /\ UNCHANGED binding
    BY <1>1 DEF Finish, world, tables, Moves
  <1>3. /\ HistoryGrows /\ WorldTyped' /\ \A m \in Node : ProcessOK(m)'
        /\ UNCHANGED <<backup, incarnation, unconfirmed>>
    BY <1>1, <1>2, FinishStep
  <1>4. BackupOK' /\ TablesOK(binding, jobs, rows, slots, payload)'
    BY <1>1, <1>3, BackupStays, TablesStay
  <1>5. Fenced'
    BY <1>2, <1>3 DEF SInv, Fenced
  <1>. QED
    BY <1>3, <1>4, <1>5 DEF SInv

LEMMA FenceStep ==
    ASSUME SInv, size' = size, NEW n \in Node, Fence(n)
    PROVE  SInv'
  <1>0. /\ WorldTyped /\ binding \in Binding /\ payload \subseteq Rev /\ binding.gen # 0
        /\ SlotsHold(binding, slots, payload) /\ binding.inc <= incarnation
        /\ slots \in [Slot -> Rev \cup {0}]
        /\ binding.gen \in Nat /\ binding.inc \in Nat /\ incarnation \in Nat
    BY SInvFacts
  <1>1. Finish(n, None) /\ UNCHANGED <<payload, prepares>>
    BY DEF Fence
  <1>2. UNCHANGED <<incarnation, backup, unconfirmed>>
    BY <1>1 DEF Finish, world
  <1>3. CASE Admitted(n) /\ binding.inc # admitted[n]
    <2>. DEFINE b == [binding EXCEPT !.inc = admitted[n], !.suspended = TRUE]
    <2>1. /\ binding' = b /\ rows' = [m \in Node |-> None]
          /\ jobs' = SetStatus(Open, "aborted")
          /\ slots' = [slots EXCEPT !["candidate"] = 0]
      BY <1>3 DEF Fence, FencedBinding
    <2>2. admitted[n] = incarnation /\ binding.inc # incarnation
      BY <1>3 DEF Admitted
    <2>3. /\ b \in Binding /\ b.gen = binding.gen /\ b.desired = binding.desired
          /\ b.prev = binding.prev /\ b.inc = incarnation /\ b.suspended = TRUE
      BY <1>0, <2>2 DEF Binding
    <2>. HIDE DEF b
    <2>4. Moves
      BY <1>2, <2>2 DEF Moves
    <2>5. /\ HistoryGrows /\ WorldTyped' /\ \A m \in Node : ProcessOK(m)'
      BY <1>1, <2>4, FinishStep
    <2>6. /\ jobs' \subseteq Job /\ OpenJobs(binding, jobs, rows, slots)'
          /\ JobsEarned(jobs)' /\ GensPast(binding, jobs)'
      <3>1. binding'.gen \in Nat /\ binding.gen <= binding'.gen
        BY <1>0, <2>1, <2>3
      <3>. QED
        BY <2>1, <2>5, <3>1, AbortAll
    <2>7. rows' \in [Node -> Row \cup {None}] /\ RowsEarned(rows)'
      BY <2>1, NoRows
    <2>8. SlotsHold(binding, slots, payload)' /\ slots' \in [Slot -> Rev \cup {0}]
      <3>1. /\ slots'["desired"] = slots["desired"] /\ slots'["previous"] = slots["previous"]
            /\ slots'["candidate"] = 0 /\ slots' \in [Slot -> Rev \cup {0}]
        BY <1>0, <2>1 DEF Slot
      <3>. QED
        BY <1>0, <1>1, <2>1, <2>3, <3>1 DEF SlotsHold, Slot
    <2>9. TablesTyped(binding, jobs, rows, slots, payload)'
      <3>1. binding' \in Binding /\ binding'.gen # 0
        BY <1>0, <2>1, <2>3
      <3>. QED
        BY <1>0, <1>1, <2>6, <2>7, <2>8, <3>1, SizeKept DEF TablesTyped
    <2>10. binding'.inc <= incarnation'
      BY <1>0, <1>2, <2>1, <2>3
    <2>11. TablesOK(binding, jobs, rows, slots, payload)'
      BY <2>6, <2>7, <2>8, <2>9, <2>10 DEF TablesOK
    <2>12. Fenced'
      BY <2>1, <2>3 DEF Fenced
    <2>13. BackupOK'
      BY <1>2, <2>5, BackupStays
    <2>. QED
      BY <2>5, <2>11, <2>12, <2>13 DEF SInv
  <1>4. CASE ~(Admitted(n) /\ binding.inc # admitted[n])
    <2>1. UNCHANGED <<binding, rows, jobs, slots>>
      BY <1>4 DEF Fence
    <2>2. Moves
      BY <1>2, <2>1 DEF Moves
    <2>3. /\ HistoryGrows /\ WorldTyped' /\ \A m \in Node : ProcessOK(m)'
      BY <1>1, <2>2, FinishStep
    <2>4. BackupOK' /\ TablesOK(binding, jobs, rows, slots, payload)'
      BY <1>1, <1>2, <2>1, <2>3, BackupStays, TablesStay DEF tables
    <2>5. Fenced'
      BY <1>2, <2>1 DEF SInv, Fenced
    <2>. QED
      BY <2>3, <2>4, <2>5 DEF SInv
  <1>. QED
    BY <1>3, <1>4

\* PutNode accepts a row of node n.
LEMMA RowStep ==
    ASSUME SInv, HistoryGrows, NEW n \in Node, NEW row \in Row, NEW beating,
           Accepts(n, row, beating), RowEarned(n, row)', rows' = [rows EXCEPT ![n] = row]
    PROVE  /\ Open # {} => RowsKept
           /\ rows' \in [Node -> Row \cup {None}] /\ RowsEarned(rows)'
  <1>0. rows \in [Node -> Row \cup {None}] /\ RowsEarned(rows)
    BY SInvFacts
  <1>1. row # None
    BY SelfConfigAssumption
  <1>2. Open # {} => rows[n] # None /\ rows[n].job = row.job
    BY DEF Accepts
  <1>3. Open # {} => RowsKept
    BY <1>0, <1>1, <1>2 DEF RowsKept
  <1>4. ASSUME NEW m \in Node, rows'[m] # None PROVE RowEarned(m, rows[m])'
    <2>1. CASE m = n
      BY <1>0, <2>1
    <2>2. CASE m # n
      <3>1. PICK q : q = rows[m] /\ rows'[m] = q
        BY <1>0, <2>2
      <3>2. RowEarned(m, q)'
        BY <1>0, <1>4, <3>1, RowStaysEarned DEF RowsEarned
      <3>. QED
        BY <3>1, <3>2
    <2>. QED
      BY <2>1, <2>2
  <1>. QED
    BY <1>0, <1>3, <1>4 DEF RowsEarned

\* Applying becomes partial.
LEMMA PartialStep ==
    ASSUME SInv, HistoryGrows, UNCHANGED binding, Open # {} => RowsKept,
           NEW js \in SUBSET jobs, \A j \in js : j.status = "applying",
           jobs' = SetStatus(js, "partial"),
           js = {} => slots'["candidate"] = slots["candidate"]
    PROVE  /\ jobs' \subseteq Job /\ OpenJobs(binding, jobs, rows, slots)'
           /\ JobsEarned(jobs)' /\ GensPast(binding, jobs)'
  <1>0. /\ OpenJobs(binding, jobs, rows, slots) /\ JobsEarned(jobs) /\ binding.gen \in Nat
    BY SInvFacts
  <1>1. js \in SUBSET Open /\ "partial" \in Status
    BY DEF Open, Status
  <1>2. CASE js = {} /\ jobs' = jobs
    BY <1>2, SameJobs
  <1>3. ASSUME NEW f \in Open, NEW g \in Job, js = {f}, jobs' = (jobs \ {f}) \cup {g},
               g.id = f.id, g.rev = f.rev, g.gen = f.gen, g.members = f.members,
               g.status = "partial"
        PROVE  /\ jobs' \subseteq Job /\ OpenJobs(binding, jobs, rows, slots)'
               /\ JobsEarned(jobs)' /\ GensPast(binding, jobs)'
    <2>1. f.status = "applying" /\ f \in jobs /\ f \in Unsettled(jobs)
      BY <1>1, <1>3 DEF Unsettled, Open
    <2>2. JobEarned(f)'
      BY <1>0, <2>1, JobStaysEarned DEF JobsEarned
    <2>3. JobEarned(g)'
      BY <1>3, <2>1, <2>2 DEF JobEarned
    <2>4. f.gen = binding.gen /\ f.rev = binding.desired
      BY <1>0, <2>1 DEF OpenJobs
    <2>5. RowsKept
      BY <1>3
    <2>6. binding'.gen \in Nat /\ binding.gen <= binding'.gen /\ g.gen <= binding'.gen
          /\ g.gen = binding'.gen /\ g.rev = binding'.desired
      BY <1>0, <1>3, <2>4
    <2>. QED
      BY <1>3, <2>3, <2>5, <2>6, ReplaceStep
  <1>. QED
    BY <1>1, <1>2, <1>3, SetStatusCases

\* The open job is aborted or applied.
LEMMA SettledStep ==
    ASSUME SInv, HistoryGrows, UNCHANGED binding, Open # {} => RowsKept, RowsEarned(rows)',
           NEW js \in SUBSET Open, js # {},
           \/ jobs' = SetStatus(js, "aborted")
           \/ /\ jobs' = SetStatus(js, "applied") /\ Complete(js)
              /\ \A j \in js : j.status \in {"applying", "partial"}
    PROVE  /\ jobs' \subseteq Job /\ OpenJobs(binding, jobs, rows, slots)'
           /\ JobsEarned(jobs)' /\ GensPast(binding, jobs)'
  <1>0. /\ OpenJobs(binding, jobs, rows, slots) /\ JobsEarned(jobs) /\ binding.gen \in Nat
        /\ binding.gen # 0 /\ jobs \subseteq Job
    BY SInvFacts
  <1>1. "aborted" \in Status /\ "applied" \in Status
    BY DEF Status
  <1>2. PICK f \in Open, g \in Job :
           /\ js = {f} /\ jobs' = (jobs \ {f}) \cup {g}
           /\ g.id = f.id /\ g.rev = f.rev /\ g.gen = f.gen /\ g.members = f.members
           /\ \/ g.status = "aborted"
              \/ /\ g.status = "applied" /\ Complete(js)
                 /\ f.status \in {"applying", "partial"}
    BY <1>1, SetStatusCases
  <1>3. f \in jobs /\ f \in Unsettled(jobs) /\ JobEarned(f)'
    BY <1>0, JobStaysEarned DEF JobsEarned, Open, Unsettled
  <1>4. g.status # "aborted" => f.gen = binding.gen /\ f.rev = binding.desired
    BY <1>0, <1>2, <1>3 DEF OpenJobs
  <1>5. JobEarned(g)'
    <2>1. CASE g.status = "aborted"
      BY <2>1 DEF JobEarned
    <2>2. CASE g.status = "applied" /\ Complete(js) /\ f.status \in {"applying", "partial"}
      <3>. SUFFICES ASSUME NEW n \in g.members
                    PROVE  /\ [node |-> n, job |-> g.id] \in prepares'
                           /\ \E i \in installs' : /\ i.node = n /\ i.what.gen = g.gen
                                                   /\ i.what.rev = g.rev
        BY DEF JobEarned
      <3>1. n \in f.members /\ n \in Node
        BY <1>0, <1>2, <1>3 DEF Job
      <3>2. [node |-> n, job |-> g.id] \in prepares'
        BY <1>2, <1>3, <2>2, <3>1 DEF JobEarned
      <3>3. rows[n] # None /\ rows'[n] # None
        BY <1>0, <1>3, <3>1 DEF OpenJobs, RowsKept
      <3>4. rows'[n].gen = binding.gen /\ rows'[n].rev = binding.desired
        BY <2>2, <3>1, <3>3 DEF Complete, Members
      <3>5. PICK r : r = rows'[n]
        OBVIOUS
      <3>6. RowEarned(n, r)'
        BY <3>1, <3>3, <3>5 DEF RowsEarned
      <3>7. \E i \in installs' : i.node = n /\ i.what.gen = r.gen /\ i.what.rev = r.rev
        BY <1>0, <3>4, <3>5, <3>6 DEF RowEarned
      <3>. QED
        BY <1>2, <1>4, <2>2, <3>2, <3>4, <3>5, <3>7
    <2>. QED
      BY <1>2, <2>1, <2>2
  <1>6. /\ binding'.gen \in Nat /\ binding.gen <= binding'.gen
        /\ g.status # "aborted" => g.gen <= binding'.gen
    BY <1>0, <1>2, <1>4
  <1>. QED
    BY <1>2, <1>5, <1>6, ReplaceStep

LEMMA SettleStep ==
    ASSUME SInv, HistoryGrows, UNCHANGED <<binding, payload>>, Open # {} => RowsKept,
           RowsEarned(rows)', NEW js \in SUBSET jobs, Settle(js)
    PROVE  /\ jobs' \subseteq Job /\ OpenJobs(binding, jobs, rows, slots)'
           /\ JobsEarned(jobs)' /\ GensPast(binding, jobs)'
           /\ slots' \in [Slot -> Rev \cup {0}] /\ SlotsHold(binding, slots, payload)'
  <1>0. slots \in [Slot -> Rev \cup {0}] /\ SlotsHold(binding, slots, payload)
    BY SInvFacts
  <1>. DEFINE preparing == {j \in js : j.status = "preparing"}
              applying == {j \in js : j.status \in {"applying", "partial"}}
              failed == Failed(preparing)
              done == IF Complete(js) THEN applying ELSE {}
              overdue == {j \in applying \ done : j.status = "applying" /\ j.late}
  <1>1. /\ jobs' = CASE failed # {} -> SetStatus(failed, "aborted")
                     [] done # {} -> SetStatus(done, "applied")
                     [] overdue # {} -> SetStatus(overdue, "partial")
                     [] OTHER -> jobs
        /\ slots' = IF failed \cup done # {} THEN [slots EXCEPT !["candidate"] = 0] ELSE slots
    BY DEF Settle
  <1>2. /\ failed \in SUBSET Open /\ done \in SUBSET Open
        /\ \A j \in done : j.status \in {"applying", "partial"}
        /\ done # {} => Complete(done)
        /\ overdue \in SUBSET jobs /\ \A j \in overdue : j.status = "applying"
    BY DEF Failed, Open, Complete
  <1>. HIDE DEF failed, done, overdue
  <1>3. slots' \in [Slot -> Rev \cup {0}] /\ SlotsHold(binding, slots, payload)'
    <2>1. CASE slots' = slots
      BY <1>0, <2>1 DEF SlotsHold
    <2>2. CASE slots' = [slots EXCEPT !["candidate"] = 0]
      <3>1. /\ slots'["desired"] = slots["desired"] /\ slots'["previous"] = slots["previous"]
            /\ slots'["candidate"] = 0 /\ slots' \in [Slot -> Rev \cup {0}]
        BY <1>0, <2>2 DEF Slot
      <3>. QED
        BY <1>0, <3>1 DEF SlotsHold, Slot
    <2>. QED
      BY <1>1, <2>1, <2>2
  <1>4. \/ failed # {} /\ jobs' = SetStatus(failed, "aborted")
        \/ done # {} /\ jobs' = SetStatus(done, "applied")
        \/ overdue # {} /\ jobs' = SetStatus(overdue, "partial")
        \/ failed = {} /\ done = {} /\ jobs' = jobs
    BY <1>1
  <1>5. CASE failed # {} /\ jobs' = SetStatus(failed, "aborted")
    BY <1>2, <1>3, <1>5, SettledStep
  <1>6. CASE done # {} /\ jobs' = SetStatus(done, "applied")
    BY <1>2, <1>3, <1>6, SettledStep
  <1>7. CASE overdue # {} /\ jobs' = SetStatus(overdue, "partial")
    BY <1>2, <1>3, <1>7, PartialStep
  <1>8. CASE failed = {} /\ done = {} /\ jobs' = jobs
    <2>1. slots' = slots
      BY <1>1, <1>8
    <2>. QED
      BY <1>3, <1>8, <2>1, SameJobs
  <1>. QED
    BY <1>4, <1>5, <1>6, <1>7, <1>8

\* What a reconciliation leaves to show once its process is settled.
LEMMA ReconciledStep ==
    ASSUME SInv, HistoryGrows, UNCHANGED <<binding, payload, backup, incarnation, unconfirmed>>,
           WorldTyped', \A m \in Node : ProcessOK(m)',
           rows' \in [Node -> Row \cup {None}], RowsEarned(rows)',
           jobs' \subseteq Job, OpenJobs(binding, jobs, rows, slots)',
           JobsEarned(jobs)', GensPast(binding, jobs)',
           slots' \in [Slot -> Rev \cup {0}], SlotsHold(binding, slots, payload)'
    PROVE  SInv'
  <1>0. binding \in Binding /\ payload \subseteq Rev /\ binding.gen # 0 /\ binding.inc <= incarnation
    BY SInvFacts
  <1>1. TablesTyped(binding, jobs, rows, slots, payload)'
    BY <1>0, SizeKept DEF TablesTyped, HistoryGrows
  <1>2. TablesOK(binding, jobs, rows, slots, payload)'
    BY <1>0, <1>1 DEF TablesOK
  <1>3. Fenced'
    BY DEF SInv, Fenced
  <1>4. BackupOK'
    BY BackupStays
  <1>. QED
    BY <1>2, <1>3, <1>4 DEF SInv

LEMMA RefuseStep ==
    ASSUME SInv, size' = size, NEW n \in Node, NEW beating, Refuse(n, beating)
    PROVE  SInv'
  <1>0. /\ slots \in [Slot -> Rev \cup {0}] /\ SlotsHold(binding, slots, payload) /\ ProcessOK(n)
    BY SInvFacts
  <1>. DEFINE v == view[n]
              row == [job |-> IF v.row = None THEN 0 ELSE v.row.job, prepared |-> FALSE,
                      gen |-> 0, rev |-> 0, inc |-> v.b.inc, error |-> TRUE, fresh |-> TRUE]
              js == {j \in jobs : /\ j.id = row.job /\ j.status = "applying"
                                  /\ j.gen = binding.gen}
  <1>1. /\ v # None /\ Finish(n, None) /\ UNCHANGED <<binding, slots, payload, prepares>>
    BY DEF Refuse, Ready
  <1>2. \/ /\ Accepts(n, row, beating) /\ rows' = [rows EXCEPT ![n] = row]
           /\ jobs' = SetStatus(js, "partial")
        \/ UNCHANGED <<rows, jobs>>
    BY DEF Refuse
  <1>3. v \in View /\ v.b \in Binding /\ v.row \in Row \cup {None}
    BY <1>0, <1>1 DEF ProcessOK, ViewOK, View
  <1>4. row \in Row /\ row.prepared = FALSE /\ row.gen = 0
    <2>. DEFINE jb == IF v.row = None THEN 0 ELSE v.row.job
                in == v.b.inc
    <2>1. jb \in Nat
      BY <1>3 DEF Row
    <2>2. in \in Nat
      BY <1>3 DEF Binding
    <2>3. row = [job |-> jb, prepared |-> FALSE, gen |-> 0, rev |-> 0, inc |-> in,
                 error |-> TRUE, fresh |-> TRUE]
      OBVIOUS
    <2>. HIDE DEF jb, in, row
    <2>. QED
      BY <2>1, <2>2, <2>3 DEF Row
  <1>5. js \in SUBSET jobs /\ \A j \in js : j.status = "applying"
    OBVIOUS
  <1>. HIDE DEF row, js
  <1>6. Moves
    BY <1>1 DEF Finish, world, Moves
  <1>7. /\ HistoryGrows /\ WorldTyped' /\ \A m \in Node : ProcessOK(m)'
        /\ UNCHANGED <<backup, incarnation, unconfirmed>>
    BY <1>1, <1>6, FinishStep
  <1>8. slots' \in [Slot -> Rev \cup {0}] /\ SlotsHold(binding, slots, payload)'
    BY <1>0, <1>1 DEF SlotsHold
  <1>9. CASE UNCHANGED <<rows, jobs>>
    <2>1. BackupOK' /\ TablesOK(binding, jobs, rows, slots, payload)'
      BY <1>1, <1>7, <1>9, BackupStays, TablesStay DEF tables
    <2>2. Fenced'
      BY <1>1, <1>7 DEF SInv, Fenced
    <2>. QED
      BY <1>7, <2>1, <2>2 DEF SInv
  <1>10. CASE /\ Accepts(n, row, beating) /\ rows' = [rows EXCEPT ![n] = row]
              /\ jobs' = SetStatus(js, "partial")
    <2>1. PICK q : q = row
      OBVIOUS
    <2>2. RowEarned(n, q)'
      BY <1>4, <2>1 DEF RowEarned
    <2>3. /\ Open # {} => RowsKept
          /\ rows' \in [Node -> Row \cup {None}] /\ RowsEarned(rows)'
      BY <1>4, <1>7, <1>10, <2>1, <2>2, RowStep
    <2>4. /\ jobs' \subseteq Job /\ OpenJobs(binding, jobs, rows, slots)'
          /\ JobsEarned(jobs)' /\ GensPast(binding, jobs)'
      BY <1>1, <1>5, <1>7, <1>10, <2>3, PartialStep
    <2>. QED
      BY <1>1, <1>7, <1>8, <2>3, <2>4, ReconciledStep
  <1>. QED
    BY <1>2, <1>9, <1>10

LEMMA ReportStep ==
    ASSUME SInv, size' = size, NEW n \in Node, NEW ok \in BOOLEAN, NEW beating,
           Report(n, ok, beating)
    PROVE  SInv'
  <1>0. ProcessOK(n)
    BY SInvFacts
  <1>. DEFINE v == view[n]
              a == IF v.b.suspended \/ (Preparing(v) /\ active[n] # Target(v.b))
                   THEN None ELSE Target(v.b)
              old == IF v.row # None THEN v.row
                     ELSE [job |-> 0, prepared |-> FALSE, inc |-> v.b.inc]
              row == [job |-> old.job, inc |-> old.inc, fresh |-> TRUE,
                      prepared |-> IF Preparing(v) THEN ok ELSE old.prepared,
                      error |-> Preparing(v) /\ ~ok,
                      gen |-> IF a = None THEN 0 ELSE a.gen,
                      rev |-> IF a = None THEN 0 ELSE a.rev]
              mine == {j \in jobs : j.id = v.job}
  <1>1. /\ v # None /\ Finish(n, a) /\ UNCHANGED <<binding, payload>>
        /\ prepares' = IF Preparing(v) /\ ok
                       THEN prepares \cup {[node |-> n, job |-> v.job]} ELSE prepares
        /\ Preparing(v) /\ ok => v.row # None
    BY DEF Report, Ready
  <1>2. \/ Accepts(n, row, beating) /\ rows' = [rows EXCEPT ![n] = row] /\ Settle(mine)
        \/ UNCHANGED <<rows, jobs, slots>>
    BY DEF Report
  <1>3. /\ v \in View /\ v.b \in Binding /\ v.row \in Row \cup {None}
        /\ v.row # None => RowEarned(n, v.row)
        /\ v.row # None /\ v.status = "preparing" => v.row.job = v.job
    BY <1>0, <1>1 DEF ProcessOK, ViewOK, View
  <1>4. a = None \/ a = Target(v.b)
    OBVIOUS
  <1>5. Moves
    BY <1>1 DEF Finish, world, Moves
  <1>6. /\ HistoryGrows /\ WorldTyped' /\ \A m \in Node : ProcessOK(m)'
        /\ a # None => [node |-> n, what |-> a] \in installs'
        /\ UNCHANGED <<backup, incarnation, unconfirmed>>
    <2>. HIDE DEF a
    <2>. QED
      BY <1>1, <1>4, <1>5, FinishStep
  <1>7. CASE UNCHANGED <<rows, jobs, slots>>
    <2>1. BackupOK' /\ TablesOK(binding, jobs, rows, slots, payload)'
      BY <1>1, <1>6, <1>7, BackupStays, TablesStay DEF tables
    <2>2. Fenced'
      BY <1>1, <1>6 DEF SInv, Fenced
    <2>. QED
      BY <1>6, <2>1, <2>2 DEF SInv
  <1>8. CASE Accepts(n, row, beating) /\ rows' = [rows EXCEPT ![n] = row] /\ Settle(mine)
    <2>. DEFINE jb == old.job
                in == old.inc
                pr == IF Preparing(v) THEN ok ELSE old.prepared
                er == Preparing(v) /\ ~ok
                gn == IF a = None THEN 0 ELSE a.gen
                rv == IF a = None THEN 0 ELSE a.rev
    <2>1. row = [job |-> jb, inc |-> in, fresh |-> TRUE, prepared |-> pr, error |-> er,
                 gen |-> gn, rev |-> rv]
      OBVIOUS
    <2>2. gn \in Nat /\ rv \in Nat
      <3>1. size.revisions \in Nat
        BY SInvFacts, SelfConfigAssumption DEF WorldTyped
      <3>2. v.b.gen \in Nat /\ v.b.desired \in Nat
        BY <1>3, <3>1 DEF Binding, Rev
      <3>3. a # None => a.gen = v.b.gen /\ a.rev = v.b.desired
        BY <1>4 DEF Target
      <3>. HIDE DEF a
      <3>. QED
        BY <3>2, <3>3
    <2>3. jb \in Nat /\ in \in Nat
      BY <1>3 DEF Row, Binding
    <2>4. pr \in BOOLEAN
      <3>1. v.row # None => v.row.prepared \in BOOLEAN
        BY <1>3 DEF Row
      <3>. QED
        BY <3>1
    <2>5. er \in BOOLEAN
      OBVIOUS
    <2>6. pr /\ jb # 0 => [node |-> n, job |-> jb] \in prepares'
      <3>1. CASE Preparing(v) /\ ok
        <4>1. v.row # None /\ v.row.job = v.job
          BY <1>1, <1>3, <3>1 DEF Preparing
        <4>2. jb = v.job
          BY <4>1
        <4>. QED
          BY <1>1, <3>1, <4>2
      <3>2. CASE ~Preparing(v) /\ v.row # None
        <4>1. jb = v.row.job /\ pr = v.row.prepared
          BY <3>2
        <4>2. v.row.prepared /\ v.row.job # 0 => [node |-> n, job |-> v.row.job] \in prepares
          BY <1>3, <3>2 DEF RowEarned
        <4>3. prepares \subseteq prepares'
          BY <1>6 DEF HistoryGrows
        <4>. QED
          BY <4>1, <4>2, <4>3
      <3>3. CASE (Preparing(v) /\ ~ok) \/ (~Preparing(v) /\ v.row = None)
        <4>1. ~pr
          BY <3>3
        <4>. QED
          BY <4>1
      <3>. QED
        BY <3>1, <3>2, <3>3
    <2>7. gn # 0 => \E i \in installs' : i.node = n /\ i.what.gen = gn /\ i.what.rev = rv
      <3>. SUFFICES ASSUME gn # 0
                    PROVE  \E i \in installs' : i.node = n /\ i.what.gen = gn /\ i.what.rev = rv
        OBVIOUS
      <3>1. a # None
        OBVIOUS
      <3>. DEFINE i == [node |-> n, what |-> a]
      <3>2. i \in installs' /\ gn = a.gen /\ rv = a.rev
        BY <1>6, <3>1
      <3>3. i.node = n /\ i.what.gen = gn /\ i.what.rev = rv
        BY <3>2
      <3>. QED
        BY <3>2, <3>3
    <2>8. mine \in SUBSET jobs
      OBVIOUS
    <2>. HIDE DEF jb, in, pr, er, gn, rv, row, mine
    <2>9. row \in Row
      BY <2>1, <2>2, <2>3, <2>4, <2>5 DEF Row
    <2>10. row.job = jb /\ row.prepared = pr /\ row.gen = gn /\ row.rev = rv
      BY <2>1
    <2>11. PICK q : q = row
      OBVIOUS
    <2>12. RowEarned(n, q)'
      BY <2>6, <2>7, <2>10, <2>11 DEF RowEarned
    <2>13. /\ Open # {} => RowsKept
           /\ rows' \in [Node -> Row \cup {None}] /\ RowsEarned(rows)'
      BY <1>6, <1>8, <2>9, <2>11, <2>12, RowStep
    <2>14. /\ jobs' \subseteq Job /\ OpenJobs(binding, jobs, rows, slots)'
           /\ JobsEarned(jobs)' /\ GensPast(binding, jobs)'
           /\ slots' \in [Slot -> Rev \cup {0}] /\ SlotsHold(binding, slots, payload)'
      BY <1>1, <1>6, <1>8, <2>8, <2>13, SettleStep
    <2>. QED
      BY <1>1, <1>6, <2>13, <2>14, ReconciledStep
  <1>. QED
    BY <1>2, <1>7, <1>8

-----------------------------------------------------------------------------
(* The invariant and what it gives *)

LEMMA InitSInv == Init => SInv
  <1>. SUFFICES ASSUME Init PROVE SInv
    OBVIOUS
  <1>. DEFINE b == [gen |-> 1, desired |-> 1, prev |-> 0, inc |-> 1, suspended |-> FALSE]
  <1>1. /\ size \in Sizes /\ binding = b /\ jobs = {} /\ rows = [n \in Node |-> None]
        /\ payload = Rev /\ slots = [s \in Slot |-> IF s = "desired" THEN 1 ELSE 0]
        /\ incarnation = 1 /\ backup = None
        /\ admitted = [n \in Node |-> 1] /\ active = [n \in Node |-> None]
        /\ view = [n \in Node |-> None] /\ issued = 0 /\ unconfirmed = FALSE
    BY DEF Init
  <1>2. size.revisions \in Nat \ {0} /\ size.incs \in Nat \ {0} /\ size.jobs \in Nat
    BY <1>1, SelfConfigAssumption
  <1>3. 1 \in Rev
    BY <1>2 DEF Rev
  <1>4. b \in Binding /\ b.gen = 1 /\ b.desired = 1 /\ b.prev = 0 /\ b.inc = 1
    BY <1>3 DEF Binding
  <1>. HIDE DEF b
  <1>5. TablesTyped(binding, jobs, rows, slots, payload)
    <2>1. slots \in [Slot -> Rev \cup {0}]
      BY <1>1, <1>3
    <2>2. rows \in [Node -> Row \cup {None}]
      BY <1>1
    <2>. QED
      BY <1>1, <1>4, <2>1, <2>2 DEF TablesTyped
  <1>6. SlotsHold(binding, slots, payload)
    BY <1>1, <1>3, <1>4 DEF SlotsHold, Slot
  <1>7. /\ OpenJobs(binding, jobs, rows, slots) /\ RowsEarned(rows) /\ JobsEarned(jobs)
        /\ GensPast(binding, jobs)
    BY <1>1 DEF OpenJobs, Unsettled, RowsEarned, JobsEarned, GensPast
  <1>8. TablesOK(binding, jobs, rows, slots, payload)
    BY <1>1, <1>4, <1>5, <1>6, <1>7 DEF TablesOK
  <1>9. WorldTyped
    <2>1. 1 \in 1..size.incs /\ 1 \in 0..size.incs /\ 0 \in 0..size.jobs
      BY <1>2
    <2>. QED
      BY <1>1, <2>1 DEF WorldTyped
  <1>10. Fenced /\ BackupOK /\ \A n \in Node : ProcessOK(n)
    BY <1>1 DEF Fenced, BackupOK, ProcessOK
  <1>. QED
    BY <1>8, <1>9, <1>10 DEF SInv

LEMMA NextSInv == SInv /\ [Next]_vars => SInv'
  <1>. SUFFICES ASSUME SInv, [Next]_vars PROVE SInv'
    OBVIOUS
  <1>0. WorldTyped /\ size.nodes \subseteq Node
    BY SInvFacts, SelfConfigAssumption DEF WorldTyped
  <1>1. CASE UNCHANGED vars
    <2>1. /\ UNCHANGED <<tables, process, backup, incarnation, issued, unconfirmed>>
          /\ HistoryGrows /\ Moves /\ UNCHANGED binding
      BY <1>1 DEF vars, state, HistoryGrows, history, world, Moves, tables, process
    <2>2. TablesOK(binding, jobs, rows, slots, payload)'
      BY <2>1, TablesStay
    <2>3. Fenced'
      BY <2>1 DEF SInv, Fenced
    <2>. QED
      BY <1>0, <2>1, <2>2, <2>3, TableStep DEF WorldTyped
  <1>2. CASE Step /\ size' = size
    <2>1. ASSUME NEW n \in size.nodes, Act(n) PROVE SInv'
      <3>1. n \in Node
        BY <1>0
      <3>. QED
        BY <1>2, <2>1, <3>1, FenceStep, RestStep, RefuseStep, ReportStep DEF Act
    <2>2. ASSUME NEW n \in size.nodes, Observe(n) \/ Stop(n) \/ Start(n) \/ Quiet(n)
          PROVE  SInv'
      <3>1. n \in Node
        BY <1>0
      <3>. QED
        BY <1>2, <2>2, <3>1, ObserveStep, StopStep, QuietStep
    <2>3. ASSUME NEW n \in size.nodes, NEW j \in jobs, Commit(n, j) PROVE SInv'
      <3>1. n \in Node
        BY <1>0
      <3>. QED
        BY <1>2, <2>3, <3>1, CommitStep
    <2>4. ASSUME NEW n \in size.nodes, NEW r \in Rev, NEW confirm \in BOOLEAN,
                 NEW beating \in SUBSET size.nodes, Begin(n, r, confirm, beating)
          PROVE  SInv'
      BY <1>2, <2>4, BeginStep
    <2>5. ASSUME NEW r \in Rev,
                 Collect(r) \/ \E beating \in SUBSET size.nodes : Recover(r, beating)
          PROVE  SInv'
      BY <1>2, <2>5, CollectStep, RecoverStep
    <2>6. CASE TimePasses \/ Backup \/ Restore
      BY <1>2, <2>6, TimePassesStep, BackupStep, RestoreStep
    <2>. QED
      BY <1>2, <2>1, <2>2, <2>3, <2>4, <2>5, <2>6 DEF Step
  <1>. QED
    BY <1>1, <1>2 DEF Next

\* Whatever nodes, operators, timers, backups and restores do in whatever order, the tables
\* keep naming what is in use and done, and a process what it read in its incarnation.
THEOREM SelfConfigInvariant == Spec => []SInv
  <1>. QED
    BY InitSInv, NextSInv, PTL DEF Spec

\* TypeOK: the shape of the binding, the jobs, the rows and the processes.
THEOREM SelfConfigTyped == Spec => []TypeOK
  <1>1. SInv => TypeOK
    BY SInvFacts DEF TypeOK, WorldTyped, GensPast
  <1>. QED
    BY <1>1, SelfConfigInvariant, PTL

\* ServesTarget: SelfConfig.Capture serves with the revision that is the target now.
THEOREM AlwaysServesTarget == Spec => []ServesTarget
  <1>1. SInv => ServesTarget
    <2>. SUFFICES ASSUME SInv, NEW n \in Node, Captures(n) PROVE active[n].rev = binding.desired
      BY DEF ServesTarget
    <2>1. ReadHere(active[n].inc, active[n].gen, active[n].rev)
      BY SInvFacts DEF ProcessOK, Captures
    <2>2. /\ active[n].inc = incarnation /\ active[n].gen = binding.gen
      BY DEF Captures, Admitted
    <2>. QED
      BY <2>1, <2>2 DEF ReadHere
  <1>. QED
    BY <1>1, SelfConfigInvariant, PTL

\* ConfirmedBeforeUse: FenceRestored keeps restored credentials out of use until a commit
\* that confirms them.
THEOREM RestoredIsConfirmedFirst == Spec => []ConfirmedBeforeUse
  <1>1. SInv => ConfirmedBeforeUse
    BY DEF SInv, Fenced, ConfirmedBeforeUse, Captures, Admitted
  <1>. QED
    BY <1>1, SelfConfigInvariant, PTL

\* NeededPayloads: the retention rows hold the target, the previous target and the
\* candidate, against every interleaving of jobs and sweeps.
THEOREM NeededIsNeverCollected == Spec => []NeededPayloads
  <1>1. SInv => NeededPayloads
    <2>. SUFFICES ASSUME SInv PROVE NeededPayloads
      OBVIOUS
    <2>1. /\ SlotsHold(binding, slots, payload) /\ OpenJobs(binding, jobs, rows, slots)
          /\ binding \in Binding /\ WorldTyped /\ jobs \subseteq Job
      BY SInvFacts
    <2>2. size.revisions \in Nat
      BY <2>1, SelfConfigAssumption DEF WorldTyped
    <2>3. binding.desired \in payload
      <3>1. binding.desired # 0
        BY <2>1, <2>2 DEF Binding, Rev
      <3>. QED
        BY <2>1, <3>1 DEF SlotsHold, Slot
    <2>4. binding.prev # 0 => binding.prev \in payload
      BY <2>1 DEF SlotsHold, Slot
    <2>5. ASSUME NEW j \in Open PROVE j.rev \in payload
      <3>1. j \in Unsettled(jobs) /\ j \in Job
        BY <2>1 DEF Open, Unsettled
      <3>2. j.rev # 0
        BY <2>2, <3>1 DEF Job, Rev
      <3>3. j.status = "preparing" => slots["candidate"] = j.rev
        BY <2>1, <3>1 DEF OpenJobs
      <3>4. j.status # "preparing" => j.rev = binding.desired
        BY <2>1, <3>1 DEF OpenJobs
      <3>. QED
        BY <2>1, <2>3, <3>2, <3>3, <3>4 DEF SlotsHold, Slot
    <2>. QED
      BY <2>3, <2>4, <2>5 DEF NeededPayloads
  <1>. QED
    BY <1>1, SelfConfigInvariant, PTL

\* StatusIsEarned: CommitJob and the settling of a job count only what the participants of
\* that job did.
THEOREM StatusesAreEarned == Spec => []StatusIsEarned
  <1>1. SInv => StatusIsEarned
    BY SInvFacts DEF JobsEarned, JobEarned, StatusIsEarned
  <1>. QED
    BY <1>1, SelfConfigInvariant, PTL
=============================================================================
