------------------------- MODULE DynamicLeaseProofs -------------------------
(***************************************************************************)
(* Proofs about DynamicLease, for every set of leases and workers and      *)
(* every bound.  Both results rest on the claim: while a worker holds a    *)
(* row nobody else moves it (ClaimFreezesRow), so what the worker decided  *)
(* from the row it claimed still fits when it settles.                     *)
(***************************************************************************)
EXTENDS DynamicLease, TLAPS

\* A password is handed out by the last step of its request.
DisclosedWhenDone ==
    \A l \in Lease : disclosed[l] => req[l] = "done" /\ row[l].state # "absent"

\* The row a worker holds is in the state the worker claimed it in.
ClaimFreezesRow ==
    \A w \in Worker : wk[w].pc # "idle" /\ Held(w) =>
        /\ row[wk[w].lease].state = wk[w].state
        /\ wk[w].state \in Transient \cup {"active"}

\* The worker of a row that is being revoked carries out a revocation.
KindFollowsRow ==
    \A w \in Worker : wk[w].pc \in {"opened", "intent", "answered"} /\ Held(w) =>
        (Revoking(wk[w].lease) => wk[w].kind = "revoke")

\* A provider call is preceded by the effect row that names it.
IntentRecorded ==
    \A w \in Worker : wk[w].pc \in {"intent", "answered"} /\ Held(w) =>
        effect[wk[w].lease] = wk[w].kind

\* A drop that succeeded under a claim is not followed by a disclosed role.
DropIsFinal ==
    \A w \in Worker :
        /\ wk[w].pc = "answered" /\ Held(w)
        /\ wk[w].kind # "renew" /\ wk[w].res = "success"
        => ~(disclosed[wk[w].lease] /\ role[wk[w].lease])

DInv == /\ TypeOK
        /\ DisclosedWhenDone
        /\ ClaimFreezesRow
        /\ KindFollowsRow
        /\ IntentRecorded
        /\ DropIsFinal
        /\ DisclosedRoleIsTracked

\* A worker with nothing in hand is well typed.
LEMMA IdleType == Idle \in Job
  <1>1. (CHOOSE l \in Lease : TRUE) \in Lease
    BY DynamicAssumption
  <1>. QED
    BY <1>1 DEF Idle, Job, State, Kind, Answer, Transient, Terminal

\* A row without a claim, in any state and with any next attempt, is a row.
LEMMA ReleasedType ==
    ASSUME NEW r \in Row, NEW s \in State, NEW x \in {"due", "waiting", "expiry", "parked"}
    PROVE  /\ Released(r, s, x) \in Row
           /\ Released(r, s, x).state = s
           /\ Released(r, s, x).owner = NoWorker
           /\ ~Released(r, s, x).live
           /\ [Released(r, s, x) EXCEPT !.expires = "ahead"] \in Row
           /\ [Released(r, s, x) EXCEPT !.expires = "ahead"].state = s
           /\ [Released(r, s, x) EXCEPT !.expires = "ahead"].owner = NoWorker
  BY DEF Released, Row

\* What a settled attempt leaves: no claim, and a state that only a successful drop
\* makes terminal.  A revocation stays one.
LEMMA OutcomeFacts ==
    ASSUME NEW r \in Row, NEW kind \in Kind, NEW res \in Answer \cup {"denied"}
    PROVE  /\ Outcome(r, kind, res) \in Row
           /\ Outcome(r, kind, res).owner = NoWorker
           /\ Outcome(r, kind, res).state # "absent"
           /\ Outcome(r, kind, res).state \in Terminal => kind # "renew" /\ res = "success"
           /\ kind = "revoke" => Outcome(r, kind, res).state \in {"revoking", "revoked", "unknown"}
  <1>1. /\ Dropped(kind) \in State /\ Kept(kind) \in State \ Terminal
        /\ Dropped(kind) # "absent" /\ Kept(kind) # "absent"
        /\ "active" \in State /\ "unknown" \in State
        /\ "active" \notin Terminal /\ "unknown" \notin Terminal
        /\ kind = "revoke" => Dropped(kind) = "revoked" /\ Kept(kind) = "revoking"
    BY DEF Dropped, Kept, Kind, State, Transient, Terminal
  <1>2. CASE kind = "renew" /\ res = "success"
    <2>1. Outcome(r, kind, res) = [Released(r, "active", "expiry") EXCEPT !.expires = "ahead"]
      BY <1>2 DEF Outcome
    <2>. QED
      BY <1>1, <1>2, <2>1 DEF Released, Row
  <1>3. CASE kind = "renew" /\ res \in {"denied", "refused"}
    <2>1. Outcome(r, kind, res) = Released(r, "active", "parked")
      BY <1>3 DEF Outcome
    <2>. QED
      BY <1>1, <1>3, <2>1 DEF Released, Row
  <1>4. CASE kind # "renew" /\ res = "success"
    <2>1. Outcome(r, kind, res) = Released(r, Dropped(kind), "parked")
      BY <1>4 DEF Outcome
    <2>. QED
      BY <1>1, <1>4, <2>1 DEF Released, Row
  <1>5. CASE res = "unreachable"
    <2>1. Outcome(r, kind, res) = Released(r, Kept(kind), "waiting")
      BY <1>5 DEF Outcome
    <2>. QED
      BY <1>1, <2>1 DEF Released, Row
  <1>6. CASE res = "ambiguous" \/ (kind # "renew" /\ res \in {"denied", "refused"})
    <2>1. Outcome(r, kind, res) = Released(r, "unknown", "waiting")
      BY <1>6 DEF Outcome
    <2>. QED
      BY <1>1, <2>1 DEF Released, Row
  <1>. QED
    BY <1>2, <1>3, <1>4, <1>5, <1>6 DEF Answer

\* Every step of the requests, the workers and the clock keeps the types.
LEMMA TypeStep == TypeOK /\ [Next]_vars => TypeOK'
  <1>. SUFFICES ASSUME TypeOK, [Next]_vars PROVE TypeOK'
    OBVIOUS
  <1>. USE DynamicAssumption
  <1>0. ASSUME NEW l \in Lease PROVE row[l] \in Row
    BY DEF TypeOK
  <1>1. ASSUME NEW l \in Lease, MintIntent(l) PROVE TypeOK'
    <2>1. [row[l] EXCEPT !.state = "minting", !.next = "waiting"] \in Row
      BY <1>0 DEF Row, State, Transient
    <2>2. row' \in [Lease -> Row]
      BY <1>1, <2>1 DEF TypeOK, MintIntent
    <2>. QED
      BY <1>1, <2>2 DEF TypeOK, MintIntent
  <1>2. ASSUME NEW l \in Lease, CreateRole(l) PROVE TypeOK'
    <2>1. role' \in [Lease -> BOOLEAN]
      <3>1. \/ UNCHANGED role
            \/ \E took \in BOOLEAN : role' = [role EXCEPT ![l] = took]
        BY <1>2 DEF CreateRole
      <3>. QED
        BY <3>1, Zenon DEF TypeOK
    <2>. QED
      BY <1>2, <2>1 DEF TypeOK, CreateRole
  <1>3. ASSUME NEW l \in Lease, FinishMint(l) PROVE TypeOK'
    <2>1. ASSUME NEW s \in {"revoking", "failed", "unknown"}
          PROVE  Released(row[l], s, "due") \in Row
      BY <1>0, ReleasedType DEF State, Transient, Terminal
    <2>2. [Released(row[l], "active", "expiry") EXCEPT !.expires = "ahead"] \in Row
      BY <1>0, ReleasedType DEF State
    <2>3. row' \in [Lease -> Row] /\ disclosed' \in [Lease -> BOOLEAN]
      <3>1. CASE ~MayFinish(l)
        BY <1>3, <3>1 DEF TypeOK, FinishMint
      <3>2. CASE MayFinish(l)
        <4>1. PICK gate \in BOOLEAN :
                LET state == CASE req[l] = "success" /\ gate -> "active"
                               [] req[l] = "success" /\ ~gate -> "revoking"
                               [] req[l] = "failure" -> "failed"
                               [] req[l] = "unknown" -> "unknown"
                IN /\ row' = [row EXCEPT ![l] =
                          IF state = "active"
                          THEN [Released(@, state, "expiry") EXCEPT !.expires = "ahead"]
                          ELSE Released(@, state, "due")]
                   /\ disclosed' = [disclosed EXCEPT ![l] = (state = "active")]
          BY <1>3, <3>2 DEF FinishMint
        <4>2. /\ row' \in [Lease -> Row]
              /\ disclosed' = [disclosed EXCEPT ![l] = TRUE] \/ disclosed' = [disclosed EXCEPT ![l] = FALSE]
          BY <1>3, <4>1, <2>1, <2>2 DEF TypeOK, FinishMint
        <4>. QED
          BY <4>2 DEF TypeOK
      <3>. QED
        BY <3>1, <3>2
    <2>. QED
      BY <1>3, <2>3 DEF TypeOK, FinishMint
  <1>4. ASSUME NEW l \in Lease, MintAbandoned(l) PROVE TypeOK'
    BY <1>4 DEF TypeOK, MintAbandoned, Disturb
  <1>5. ASSUME NEW l \in Lease, RevokeLease(l) \/ RenewLease(l) \/ SettleLease(l) PROVE TypeOK'
    <2>1. PICK s \in {"revoking", "renewing", "unknown"} : EnqueueTransition(l, s)
      BY <1>5 DEF RevokeLease, RenewLease, SettleLease
    <2>2. Enqueued(row[l], s) \in Row
      BY <1>0, ReleasedType DEF Enqueued, State, Transient
    <2>. QED
      BY <2>1, <2>2 DEF TypeOK, EnqueueTransition, Disturb
  <1>6. ASSUME NEW l \in Lease, Elapse(l) \/ Expire(l) \/ YearPasses(l) \/ Lapse(l) PROVE TypeOK'
    <2>1. disturb' \in 0..MaxDisturb
      BY <1>6 DEF TypeOK, Elapse, Expire, YearPasses, Lapse, Disturb
    <2>2. row' \in [Lease -> Row]
      <3>1. /\ [row[l] EXCEPT !.next = "due"] \in Row
            /\ [row[l] EXCEPT !.expires = "past",
                              !.next = IF @ = "expiry" THEN "due" ELSE @] \in Row
            /\ [row[l] EXCEPT !.live = FALSE] \in Row
        BY <1>0 DEF Row
      <3>. QED
        BY <1>6, <3>1 DEF TypeOK, Elapse, Expire, YearPasses, Lapse
    <2>. QED
      BY <1>6, <2>1, <2>2 DEF TypeOK, Elapse, Expire, YearPasses, Lapse
  <1>7. CASE ReplaceCredential \/ RevokeCredential
    <2>1. provider' \in [active : BOOLEAN, credential : BOOLEAN]
      BY <1>7 DEF TypeOK, ReplaceCredential, RevokeCredential
    <2>2. disturb' \in 0..MaxDisturb
      BY <1>7 DEF TypeOK, ReplaceCredential, RevokeCredential, Disturb
    <2>. QED
      BY <1>7, <2>1, <2>2 DEF TypeOK, ReplaceCredential, RevokeCredential
  <1>8. CASE DeleteProvider
    <2>1. ASSUME NEW l \in Lease PROVE Enqueued(row[l], "revoking") \in Row
      BY <1>0, ReleasedType DEF Enqueued, State, Transient
    <2>. QED
      <3>1. provider' \in [active : BOOLEAN, credential : BOOLEAN]
        BY <1>8 DEF TypeOK, DeleteProvider
      <3>2. row' \in [Lease -> Row] /\ disturb' \in 0..MaxDisturb
        BY <1>8, <2>1 DEF TypeOK, DeleteProvider, Disturb
      <3>. QED
        BY <1>8, <3>1, <3>2 DEF TypeOK, DeleteProvider
  <1>9. ASSUME NEW w \in Worker, WorkerStep(w) \/ Crash(w) PROVE TypeOK'
    <2>0. wk[w] \in Job /\ wk[w].lease \in Lease /\ row[wk[w].lease] \in Row
      BY <1>0 DEF TypeOK, Job
    <2>1. ASSUME NEW l \in Lease, ClaimDueLease(w, l) PROVE TypeOK'
      <3>1. [row[l] EXCEPT !.owner = w, !.live = TRUE] \in Row
        BY <1>0 DEF Row
      <3>2. [Idle EXCEPT !.pc = "claimed", !.lease = l, !.state = row[l].state] \in Job
        BY <1>0, IdleType DEF Job, Row
      <3>. QED
        BY <2>1, <3>1, <3>2 DEF TypeOK, ClaimDueLease
    <2>2. CASE OpenProvider(w)
      <3>1. DeriveKind(wk[w].state, effect[wk[w].lease]) \in Kind
        BY <2>0 DEF TypeOK, DeriveKind, Kind
      <3>. QED
        BY <2>0, <2>2, <3>1 DEF TypeOK, OpenProvider, Job
    <2>3. CASE OpenFails(w)
      BY <2>0, <2>3 DEF TypeOK, OpenFails, Job
    <2>4. CASE Retry(w)
      <3>0. row[wk[w].lease] \in Row
        BY <2>0 DEF TypeOK
      <3>1. Released(row[wk[w].lease], row[wk[w].lease].state, "waiting") \in Row
        <4>1. row[wk[w].lease].state \in State
          BY <3>0 DEF Row
        <4>. QED
          BY <3>0, <4>1, ReleasedType
      <3>2. row' \in [Lease -> Row]
        BY <2>0, <2>4, <3>1 DEF TypeOK, Retry
      <3>3. wk' \in [Worker -> Job]
        BY <2>0, <2>4, IdleType DEF TypeOK, Retry
      <3>4. UNCHANGED <<effect, provider, role, req, disclosed, disturb>>
        BY <2>4 DEF Retry
      <3>. QED
        BY <2>0, <3>2, <3>3, <3>4 DEF TypeOK
    <2>5. CASE RecordIntent(w)
      BY <2>0, <2>5, IdleType DEF TypeOK, RecordIntent, Job
    <2>6. CASE ReauthorizeFails(w)
      BY <2>0, <2>6 DEF TypeOK, ReauthorizeFails, Job
    <2>7. ASSUME NEW res \in Answer, ExtendRole(w, res) PROVE TypeOK'
      BY <2>0, <2>7 DEF TypeOK, ExtendRole, Job
    <2>8. ASSUME NEW res \in Answer, DropRole(w, res) PROVE TypeOK'
      <3>1. role' \in [Lease -> BOOLEAN]
        BY <2>0, <2>8 DEF TypeOK, DropRole
      <3>. QED
        BY <2>0, <2>8, <3>1 DEF TypeOK, DropRole, Job
    <2>9. CASE Settle(w)
      <3>1. Outcome(row[wk[w].lease], wk[w].kind, wk[w].res) \in Row
        BY <2>0, OutcomeFacts DEF Job
      <3>. QED
        BY <2>0, <2>9, <3>1, IdleType DEF TypeOK, Settle
    <2>10. CASE Crash(w)
      BY <2>10, IdleType DEF TypeOK, Crash, Disturb
    <2>. QED
      BY <1>9, <2>1, <2>2, <2>3, <2>4, <2>5, <2>6, <2>7, <2>8, <2>9, <2>10 DEF WorkerStep
  <1>10. CASE UNCHANGED vars
    BY <1>10 DEF TypeOK, vars
  <1>. QED
    BY <1>1, <1>2, <1>3, <1>4, <1>5, <1>6, <1>7, <1>8, <1>9, <1>10 DEF Next

\* Claims are kept by any step of somebody else: one that leaves the workers and the
\* effects alone and moves a row only by taking the claim on it away.
LEMMA ClaimsKept ==
    ASSUME TypeOK, ClaimFreezesRow, KindFollowsRow, IntentRecorded, UNCHANGED <<effect, wk>>,
           \A l \in Lease :
              \/ row'[l].owner = NoWorker \/ ~row'[l].live
              \/ /\ row'[l].owner = row[l].owner /\ row[l].live
                 /\ row'[l].state = row[l].state
    PROVE  /\ ClaimFreezesRow' /\ KindFollowsRow' /\ IntentRecorded'
           /\ \A w \in Worker : Held(w)' => Held(w)
  <1>1. ASSUME NEW w \in Worker, Held(w)'
        PROVE  Held(w) /\ row'[wk[w].lease].state = row[wk[w].lease].state
    BY <1>1, DynamicAssumption DEF TypeOK, Job, Held
  <1>. QED
    BY <1>1 DEF ClaimFreezesRow, KindFollowsRow, IntentRecorded, Revoking

\* Disclosure is kept by a step that creates no role, discloses nothing, settles no row
\* and gives no worker a claim.
LEMMA DisclosureKept ==
    ASSUME TypeOK, DisclosedWhenDone, DropIsFinal, DisclosedRoleIsTracked, UNCHANGED wk,
           \A l \in Lease :
              /\ role'[l] => role[l]
              /\ disclosed'[l] => disclosed[l] /\ req'[l] = req[l]
              /\ row'[l].state \in Terminal \cup {"absent"} => row'[l].state = row[l].state,
           \A w \in Worker : Held(w)' => Held(w)
    PROVE  DisclosedWhenDone' /\ DropIsFinal' /\ DisclosedRoleIsTracked'
  <1>1. DisclosedWhenDone'
    BY DEF DisclosedWhenDone
  <1>2. DropIsFinal'
    BY DEF DropIsFinal, TypeOK, Job
  <1>3. DisclosedRoleIsTracked'
    BY DEF DisclosedRoleIsTracked
  <1>. QED
    BY <1>1, <1>2, <1>3

\* The passing of time moves no row to another state and gives no worker a row.
LEMMA ClockKeeps ==
    ASSUME TypeOK, NEW l \in Lease, Elapse(l) \/ Expire(l) \/ YearPasses(l) \/ Lapse(l)
    PROVE  \A k \in Lease : /\ row'[k].state = row[k].state /\ row'[k].owner = row[k].owner
                            /\ ~row'[k].live \/ row[k].live
  <1>1. row \in [Lease -> Row]
    BY DEF TypeOK
  <1>2. row[l] \in Row
    BY <1>1
  <1>3. CASE Elapse(l) \/ YearPasses(l)
    <2>1. row' = [row EXCEPT ![l].next = "due"]
      BY <1>3 DEF Elapse, YearPasses
    <2>. QED
      BY <1>1, <1>2, <2>1 DEF Row
  <1>4. CASE Expire(l)
    <2>1. row' = [row EXCEPT ![l].expires = "past",
                             ![l].next = IF @ = "expiry" THEN "due" ELSE @]
      BY <1>4 DEF Expire
    <2>. QED
      BY <1>1, <1>2, <2>1 DEF Row
  <1>5. CASE Lapse(l)
    <2>1. row' = [row EXCEPT ![l].live = FALSE]
      BY <1>5 DEF Lapse
    <2>. QED
      BY <1>1, <1>2, <2>1 DEF Row
  <1>. QED
    BY <1>3, <1>4, <1>5

\* A queued transition takes the claim away and ends no lease.
LEMMA EnqueuedFacts ==
    ASSUME NEW r \in Row, NEW s \in {"revoking", "renewing", "unknown"}
    PROVE  /\ Enqueued(r, s).owner = NoWorker
           /\ Enqueued(r, s).state = s
           /\ s \notin Terminal \cup {"absent"}
  BY DEF Enqueued, Released, Row, Terminal

\* Each action keeps the claim discipline and both results.
LEMMA InvStep == DInv /\ [Next]_vars => DInv'
  <1>. SUFFICES ASSUME DInv, [Next]_vars PROVE DInv'
    OBVIOUS
  <1>. USE DynamicAssumption
  <1>0. /\ TypeOK /\ DisclosedWhenDone /\ ClaimFreezesRow /\ KindFollowsRow
        /\ IntentRecorded /\ DropIsFinal /\ DisclosedRoleIsTracked /\ TypeOK'
    BY TypeStep DEF DInv
  <1>a. ASSUME NEW l \in Lease PROVE row[l] \in Row
    BY <1>0 DEF TypeOK
  <1>b. ASSUME NEW w \in Worker PROVE wk[w] \in Job /\ wk[w].lease \in Lease /\ w # NoWorker
    BY <1>0 DEF TypeOK, Job
  <1>1. ASSUME NEW l \in Lease, MintIntent(l) PROVE DInv'
    <2>1. /\ \A k \in Lease : row'[k].owner = row[k].owner /\ row'[k].live = row[k].live
          /\ \A k \in Lease : k # l => row'[k].state = row[k].state
          /\ row[l].state = "absent" /\ row'[l].state = "minting"
          /\ UNCHANGED <<effect, role, disclosed, wk>>
          /\ \A k \in Lease : k # l => req'[k] = req[k]
      BY <1>0, <1>1, <1>a DEF TypeOK, MintIntent, Row
    <2>2. ASSUME NEW w \in Worker, Held(w)'
          PROVE  Held(w) /\ (wk[w].pc # "idle" => wk[w].lease # l)
      BY <1>0, <1>b, <2>1, <2>2 DEF Held, ClaimFreezesRow, Transient
    <2>3. ~disclosed[l]
      BY <1>0, <2>1 DEF DisclosedWhenDone
    <2>4. ClaimFreezesRow' /\ KindFollowsRow' /\ IntentRecorded'
      BY <1>0, <1>b, <2>1, <2>2 DEF ClaimFreezesRow, KindFollowsRow, IntentRecorded, Revoking
    <2>5. DisclosedWhenDone' /\ DropIsFinal' /\ DisclosedRoleIsTracked'
      BY <1>0, <2>1, <2>2, <2>3, DisclosureKept DEF Terminal
    <2>. QED
      BY <1>0, <2>4, <2>5 DEF DInv
  <1>2. ASSUME NEW l \in Lease, CreateRole(l) PROVE DInv'
    <2>1. /\ ~disclosed[l]
          /\ \A k \in Lease \ {l} : role'[k] = role[k] /\ req'[k] = req[k]
      BY <1>0, <1>2 DEF TypeOK, CreateRole, DisclosedWhenDone
    <2>2. UNCHANGED <<row, effect, wk, disclosed>>
      BY <1>2 DEF CreateRole
    <2>3. DisclosedWhenDone' /\ DropIsFinal' /\ DisclosedRoleIsTracked'
      BY <1>0, <1>b, <2>1, <2>2 DEF DisclosedWhenDone, DropIsFinal, DisclosedRoleIsTracked, Held
    <2>. QED
      BY <1>0, <2>2, <2>3 DEF DInv, ClaimFreezesRow, KindFollowsRow, IntentRecorded, Held, Revoking
  <1>3. ASSUME NEW l \in Lease, FinishMint(l) PROVE DInv'
    <2>1. /\ UNCHANGED <<effect, role, wk>>
          /\ req' = [req EXCEPT ![l] = "done"]
      BY <1>3 DEF FinishMint
    <2>2. CASE ~MayFinish(l)
      <3>1. UNCHANGED <<row, disclosed>>
        BY <1>3, <2>2 DEF FinishMint
      <3>2. DisclosedWhenDone' /\ DropIsFinal' /\ DisclosedRoleIsTracked'
        BY <1>0, <2>1, <3>1 DEF TypeOK, DisclosedWhenDone, DropIsFinal, DisclosedRoleIsTracked, Held
      <3>. QED
        BY <1>0, <2>1, <3>1, <3>2 DEF DInv, ClaimFreezesRow, KindFollowsRow, IntentRecorded, Held, Revoking
    <2>3. CASE MayFinish(l)
      <3>1. /\ \A k \in Lease : k # l => row'[k] = row[k] /\ disclosed'[k] = disclosed[k]
            /\ row'[l].owner = NoWorker
            /\ row'[l].state \in {"active", "revoking", "failed", "unknown"}
            /\ disclosed'[l] => row'[l].state = "active"
        <4>0. /\ \A t \in {"revoking", "failed", "unknown"} :
                    /\ Released(row[l], t, "due").owner = NoWorker
                    /\ Released(row[l], t, "due").state = t
              /\ [Released(row[l], "active", "expiry") EXCEPT !.expires = "ahead"].owner = NoWorker
              /\ [Released(row[l], "active", "expiry") EXCEPT !.expires = "ahead"].state = "active"
          BY <1>a DEF Released, Row
        <4>1. PICK gate \in BOOLEAN :
                LET state == CASE req[l] = "success" /\ gate -> "active"
                               [] req[l] = "success" /\ ~gate -> "revoking"
                               [] req[l] = "failure" -> "failed"
                               [] req[l] = "unknown" -> "unknown"
                IN /\ row' = [row EXCEPT ![l] =
                          IF state = "active"
                          THEN [Released(@, state, "expiry") EXCEPT !.expires = "ahead"]
                          ELSE Released(@, state, "due")]
                   /\ disclosed' = [disclosed EXCEPT ![l] = (state = "active")]
          BY <1>3, <2>3 DEF FinishMint
        <4>2. PICK t \in {"active", "revoking", "failed", "unknown"} :
                /\ row' = [row EXCEPT ![l] =
                        IF t = "active"
                        THEN [Released(row[l], "active", "expiry") EXCEPT !.expires = "ahead"]
                        ELSE Released(row[l], t, "due")]
                /\ disclosed' = [disclosed EXCEPT ![l] = (t = "active")]
          BY <1>3, <4>1 DEF FinishMint
        <4>3. /\ \A k \in Lease : k # l => row'[k] = row[k]
              /\ row'[l].owner = NoWorker /\ row'[l].state = t
          BY <1>0, <4>0, <4>2 DEF TypeOK
        <4>4. /\ \A k \in Lease : k # l => disclosed'[k] = disclosed[k]
              /\ disclosed'[l] => t = "active"
          BY <1>0, <4>2 DEF TypeOK
        <4>. QED
          BY <4>3, <4>4
      <3>2. ASSUME NEW w \in Worker, Held(w)' PROVE Held(w) /\ wk[w].lease # l
        BY <1>b, <2>1, <3>1, <3>2 DEF Held
      <3>3. ClaimFreezesRow' /\ KindFollowsRow' /\ IntentRecorded'
        BY <1>0, <1>b, <2>1, <3>1, <3>2 DEF ClaimFreezesRow, KindFollowsRow, IntentRecorded, Revoking
      <3>4. DisclosedWhenDone'
        BY <1>0, <2>1, <3>1 DEF TypeOK, DisclosedWhenDone
      <3>5. DropIsFinal'
        BY <1>0, <1>b, <2>1, <3>1, <3>2 DEF DropIsFinal
      <3>6. DisclosedRoleIsTracked'
        BY <1>0, <2>1, <3>1 DEF DisclosedRoleIsTracked, Terminal
      <3>. QED
        BY <1>0, <3>3, <3>4, <3>5, <3>6 DEF DInv
    <2>. QED
      BY <2>2, <2>3
  <1>4. ASSUME NEW l \in Lease, MintAbandoned(l) PROVE DInv'
    <2>1. /\ UNCHANGED <<row, effect, role, disclosed, wk>>
          /\ req' = [req EXCEPT ![l] = "done"]
      BY <1>4 DEF MintAbandoned
    <2>2. DisclosedWhenDone' /\ DropIsFinal' /\ DisclosedRoleIsTracked'
      BY <1>0, <2>1 DEF TypeOK, DisclosedWhenDone, DropIsFinal, DisclosedRoleIsTracked, Held
    <2>. QED
      BY <1>0, <2>1, <2>2 DEF DInv, ClaimFreezesRow, KindFollowsRow, IntentRecorded, Held, Revoking
  \* Requests, the clock and the provider only move rows.
  <1>5. ASSUME UNCHANGED <<effect, role, req, disclosed, wk>>,
               \A l \in Lease :
                  /\ \/ row'[l].owner = NoWorker \/ ~row'[l].live
                     \/ /\ row'[l].owner = row[l].owner /\ row[l].live
                        /\ row'[l].state = row[l].state
                  /\ row'[l].state \in Terminal \cup {"absent"} => row'[l].state = row[l].state
        PROVE  DInv'
    <2>1. /\ ClaimFreezesRow' /\ KindFollowsRow' /\ IntentRecorded'
          /\ \A w \in Worker : Held(w)' => Held(w)
      BY <1>0, <1>5, ClaimsKept
    <2>2. DisclosedWhenDone' /\ DropIsFinal' /\ DisclosedRoleIsTracked'
      BY <1>0, <1>5, <2>1, DisclosureKept
    <2>. QED
      BY <1>0, <2>1, <2>2 DEF DInv
  <1>6. ASSUME NEW l \in Lease, RevokeLease(l) \/ RenewLease(l) \/ SettleLease(l) PROVE DInv'
    <2>1. PICK s \in {"revoking", "renewing", "unknown"} : EnqueueTransition(l, s)
      BY <1>6 DEF RevokeLease, RenewLease, SettleLease
    <2>2. /\ Enqueued(row[l], s).owner = NoWorker
          /\ Enqueued(row[l], s).state \notin Terminal \cup {"absent"}
      BY <1>a, EnqueuedFacts
    <2>3. \A k \in Lease : row'[k] = IF k = l THEN Enqueued(row[l], s) ELSE row[k]
      BY <1>0, <2>1 DEF TypeOK, EnqueueTransition
    <2>4. UNCHANGED <<effect, role, req, disclosed, wk>>
      BY <2>1 DEF EnqueueTransition
    <2>5. \A k \in Lease :
             /\ row'[k].owner = NoWorker \/ row'[k] = row[k]
             /\ row'[k].state \in Terminal \cup {"absent"} => row'[k].state = row[k].state
      BY <2>2, <2>3
    <2>. QED
      BY <1>5, <2>4, <2>5
  <1>7. CASE DeleteProvider
    <2>1. ASSUME NEW k \in Lease
          PROVE  /\ row'[k].owner = NoWorker \/ row'[k] = row[k]
                 /\ row'[k].state \in Terminal \cup {"absent"} => row'[k].state = row[k].state
      <3>1. \/ row'[k] = row[k]
            \/ row'[k] = Enqueued(row[k], "revoking")
        BY <1>7 DEF DeleteProvider
      <3>2. /\ Enqueued(row[k], "revoking").owner = NoWorker
            /\ Enqueued(row[k], "revoking").state \notin Terminal \cup {"absent"}
        BY <1>a, EnqueuedFacts
      <3>. QED
        BY <3>1, <3>2
    <2>2. UNCHANGED <<effect, role, req, disclosed, wk>>
      BY <1>7 DEF DeleteProvider
    <2>. QED
      BY <1>5, <2>1, <2>2
  <1>8. ASSUME NEW l \in Lease, Elapse(l) \/ Expire(l) \/ YearPasses(l) \/ Lapse(l) PROVE DInv'
    <2>1. UNCHANGED <<effect, role, req, disclosed, wk>>
      BY <1>8 DEF Elapse, Expire, YearPasses, Lapse
    <2>2. \A k \in Lease : /\ row'[k].state = row[k].state /\ row'[k].owner = row[k].owner
                           /\ ~row'[k].live \/ row[k].live
      BY <1>0, <1>8, ClockKeeps
    <2>. QED
      BY <1>5, <2>1, <2>2
  <1>9. CASE ReplaceCredential \/ RevokeCredential \/ UNCHANGED vars
    <2>1. UNCHANGED <<row, effect, role, req, disclosed, wk>>
      BY <1>9 DEF ReplaceCredential, RevokeCredential, vars
    <2>. QED
      BY <1>5, <2>1
  <1>10. ASSUME NEW w \in Worker, WorkerStep(w) \/ Crash(w) PROVE DInv'
    <2>a. PICK l \in Lease : l = wk[w].lease
      BY <1>b
    <2>0. wk[w].lease = l /\ l \in Lease /\ wk[w] \in Job /\ row[l] \in Row
      BY <1>a, <1>b, <2>a
    <2>. USE <2>0
    \* The worker gives up: it is idle, and its row is as it was or without a claim.
    <2>1. ASSUME UNCHANGED <<effect, role, req, disclosed>>,
                 wk' = [wk EXCEPT ![w] = Idle],
                 \A k \in Lease : k # l => row'[k] = row[k],
                 row'[l] = row[l] \/ row'[l].owner = NoWorker,
                 row'[l].state = "absent" => row[l].state = "absent",
                 row'[l].state \in Terminal =>
                    row[l].state \in Terminal \/ ~(disclosed[l] /\ role[l])
          PROVE  DInv'
      <3>1. wk'[w].pc = "idle"
        BY <1>0, <2>1 DEF TypeOK, Idle
      <3>2. ASSUME NEW v \in Worker, wk'[v].pc # "idle"
            PROVE  v # w /\ wk'[v] = wk[v]
        BY <1>0, <2>1, <3>1, <3>2 DEF TypeOK
      <3>3. ASSUME NEW v \in Worker, wk'[v].pc # "idle", Held(v)'
            PROVE  Held(v) /\ row'[wk[v].lease] = row[wk[v].lease]
        BY <1>b, <2>1, <3>2, <3>3 DEF Held
      <3>4. ClaimFreezesRow' /\ KindFollowsRow' /\ IntentRecorded'
        BY <1>0, <2>1, <3>2, <3>3 DEF ClaimFreezesRow, KindFollowsRow, IntentRecorded, Revoking
      <3>5. DropIsFinal'
        BY <1>0, <2>1, <3>2, <3>3 DEF DropIsFinal
      <3>6. DisclosedWhenDone' /\ DisclosedRoleIsTracked'
        BY <1>0, <2>0, <2>1 DEF DisclosedWhenDone, DisclosedRoleIsTracked
      <3>. QED
        BY <1>0, <3>4, <3>5, <3>6 DEF DInv
    \* The worker goes on, and holds the claim it held.
    <2>2. ASSUME NEW job \in Job, wk' = [wk EXCEPT ![w] = job], job.lease = l,
                 job.pc # "idle", wk[w].pc # "idle", job.state = wk[w].state,
                 UNCHANGED <<row, req, disclosed>>,
                 \A k \in Lease : k # l => effect'[k] = effect[k],
                 effect'[l] = effect[l] \/ (Held(w) /\ effect'[l] = job.kind),
                 job.pc \in {"intent", "answered"} /\ Held(w) => effect'[l] = job.kind,
                 job.pc \in {"opened", "intent", "answered"} /\ Held(w) =>
                    (Revoking(l)' => job.kind = "revoke"),
                 \A k \in Lease : role'[k] => role[k],
                 job.pc = "answered" /\ job.kind # "renew" /\ job.res = "success" => ~role'[l]
          PROVE  DInv'
      <3>1. /\ wk'[w] = job
            /\ \A v \in Worker : v # w => wk'[v] = wk[v]
        BY <1>0, <2>2 DEF TypeOK
      <3>2. ASSUME NEW v \in Worker PROVE Held(v)' <=> Held(v)
        BY <2>2, <3>1 DEF Held
      <3>3. ASSUME NEW v \in Worker, v # w, Held(v)
            PROVE  effect'[wk[v].lease] = effect[wk[v].lease]
        BY <1>b, <2>2, <3>3 DEF Held
      <3>4. ClaimFreezesRow'
        BY <1>0, <2>2, <3>1, <3>2 DEF ClaimFreezesRow
      <3>5. KindFollowsRow'
        BY <1>0, <2>2, <3>1, <3>2, <3>3 DEF KindFollowsRow, Revoking
      <3>6. IntentRecorded'
        BY <1>0, <2>2, <3>1, <3>2, <3>3 DEF IntentRecorded
      <3>7. DropIsFinal'
        BY <1>0, <1>b, <2>2, <3>1, <3>2 DEF DropIsFinal
      <3>8. DisclosedWhenDone' /\ DisclosedRoleIsTracked'
        BY <1>0, <2>2 DEF DisclosedWhenDone, DisclosedRoleIsTracked
      <3>. QED
        BY <1>0, <3>4, <3>5, <3>6, <3>7, <3>8 DEF DInv
    <2>3. ASSUME NEW k \in Lease, ClaimDueLease(w, k) PROVE DInv'
      <3>1. /\ UNCHANGED <<effect, role, req, disclosed>>
            /\ \A j \in Lease : j # k => row'[j] = row[j]
            /\ \A j \in Lease : row'[j].state = row[j].state
            /\ row'[k].owner = w
        BY <1>0, <1>a, <2>3 DEF TypeOK, ClaimDueLease, Row
      <3>2. /\ wk'[w].pc = "claimed" /\ wk'[w].lease = k /\ wk'[w].state = row[k].state
            /\ \A v \in Worker : v # w => wk'[v] = wk[v]
        BY <1>0, <2>3, IdleType DEF TypeOK, ClaimDueLease, Job
      <3>3. row[k].state \in Transient \cup {"active"}
        BY <2>3 DEF ClaimDueLease, Due
      <3>4. ASSUME NEW v \in Worker, v # w, Held(v)' PROVE Held(v) /\ wk[v].lease # k
        BY <1>b, <3>1, <3>2, <3>4 DEF Held
      <3>5. ClaimFreezesRow' /\ KindFollowsRow' /\ IntentRecorded'
        <4>1. ASSUME NEW v \in Worker, v # w, wk[v].pc # "idle", Held(v)'
              PROVE  row'[wk[v].lease] = row[wk[v].lease]
          BY <1>b, <3>1, <3>4, <4>1
        <4>2. ClaimFreezesRow'
          BY <1>0, <3>1, <3>2, <3>3, <3>4, <4>1 DEF ClaimFreezesRow
        <4>3. KindFollowsRow'
          BY <1>0, <3>1, <3>2, <3>4, <4>1 DEF KindFollowsRow, Revoking
        <4>4. IntentRecorded'
          BY <1>0, <3>1, <3>2, <3>4 DEF IntentRecorded
        <4>. QED
          BY <4>2, <4>3, <4>4
      <3>6. DropIsFinal'
        BY <1>0, <3>1, <3>2, <3>4 DEF DropIsFinal
      <3>7. DisclosedWhenDone' /\ DisclosedRoleIsTracked'
        BY <1>0, <3>1 DEF DisclosedWhenDone, DisclosedRoleIsTracked
      <3>. QED
        BY <1>0, <3>5, <3>6, <3>7 DEF DInv
    <2>4. CASE OpenProvider(w)
      <3>. DEFINE kind == DeriveKind(wk[w].state, effect[l])
                  job == [wk[w] EXCEPT !.pc = "opened", !.kind = kind]
      <3>1. Held(w) /\ wk[w].pc = "claimed" /\ UNCHANGED <<row, effect, role, req, disclosed>>
        BY <2>4 DEF OpenProvider
      <3>2. kind \in Kind /\ (Revoking(l) => kind = "revoke")
        <4>1. row[l].state = wk[w].state /\ wk[w].state \in Transient \cup {"active"}
          BY <1>0, <3>1 DEF ClaimFreezesRow
        <4>. QED
          BY <1>0, <2>0, <4>1 DEF TypeOK, DeriveKind, Kind, Revoking, Transient
      <3>3. /\ job \in Job /\ job.lease = l /\ job.pc = "opened" /\ job.kind = kind
            /\ job.state = wk[w].state
        BY <2>0, <3>2 DEF Job
      <3>4. wk' = [wk EXCEPT ![w] = job]
        BY <1>0, <2>4 DEF TypeOK, OpenProvider
      <3>5. Revoking(l)' <=> Revoking(l)
        BY <3>1 DEF Revoking
      <3>. HIDE DEF kind, job
      <3>. QED
        BY <2>2, <3>1, <3>2, <3>3, <3>4, <3>5
    <2>5. CASE OpenFails(w)
      <3>. DEFINE job == [wk[w] EXCEPT !.pc = "release"]
      <3>1. wk[w].pc = "claimed" /\ UNCHANGED <<row, effect, role, req, disclosed>>
        BY <2>5 DEF OpenFails
      <3>2. /\ job \in Job /\ job.lease = l /\ job.pc = "release" /\ job.state = wk[w].state
        BY <2>0 DEF Job
      <3>3. wk' = [wk EXCEPT ![w] = job]
        BY <1>0, <2>5 DEF TypeOK, OpenFails
      <3>. HIDE DEF job
      <3>. QED
        BY <2>2, <3>1, <3>2, <3>3
    <2>6. CASE Retry(w)
      <3>1. /\ Released(row[l], row[l].state, "waiting").owner = NoWorker
            /\ Released(row[l], row[l].state, "waiting").state = row[l].state
        BY <2>0 DEF Released, Row
      <3>2. /\ \A k \in Lease : k # l => row'[k] = row[k]
            /\ row'[l] = row[l] \/ row'[l].owner = NoWorker
            /\ row'[l].state = row[l].state
        BY <1>0, <2>0, <2>6, <3>1 DEF TypeOK, Retry
      <3>3. UNCHANGED <<effect, role, req, disclosed>> /\ wk' = [wk EXCEPT ![w] = Idle]
        BY <2>6 DEF Retry
      <3>. QED
        BY <2>1, <3>2, <3>3
    <2>7. CASE RecordIntent(w)
      <3>1. CASE ~Held(w)
        <4>1. UNCHANGED <<row, effect, role, req, disclosed>> /\ wk' = [wk EXCEPT ![w] = Idle]
          BY <2>7, <3>1 DEF RecordIntent
        <4>. QED
          BY <2>1, <4>1
      <3>2. CASE Held(w)
        <4>. DEFINE job == [wk[w] EXCEPT !.pc = "intent"]
        <4>1. /\ job \in Job /\ job.lease = l /\ job.pc = "intent" /\ job.state = wk[w].state
              /\ job.kind = wk[w].kind /\ wk[w].pc = "opened"
          BY <2>0, <2>7 DEF Job, RecordIntent
        <4>2. wk' = [wk EXCEPT ![w] = job] /\ UNCHANGED <<row, role, req, disclosed>>
          BY <1>0, <2>7, <3>2 DEF TypeOK, RecordIntent
        <4>3. \A k \in Lease : effect'[k] = IF k = l THEN wk[w].kind ELSE effect[k]
          BY <1>0, <2>7, <3>2 DEF TypeOK, RecordIntent
        <4>4. Revoking(l)' => wk[w].kind = "revoke"
          BY <1>0, <2>0, <3>2, <4>1, <4>2, <4>3 DEF KindFollowsRow, Revoking
        <4>. HIDE DEF job
        <4>. QED
          BY <2>0, <2>2, <3>2, <4>1, <4>2, <4>3, <4>4
      <3>. QED
        BY <3>1, <3>2
    <2>8. ASSUME NEW res \in Answer \cup {"denied"},
                 wk[w].pc = "intent", wk' = [wk EXCEPT ![w].pc = "answered", ![w].res = res],
                 UNCHANGED <<row, effect, req, disclosed>>,
                 \A k \in Lease : role'[k] => role[k],
                 wk[w].kind # "renew" /\ res = "success" => ~role'[l]
          PROVE  DInv'
      <3>. DEFINE job == [wk[w] EXCEPT !.pc = "answered", !.res = res]
      <3>1. /\ job \in Job /\ job.lease = l /\ job.pc = "answered" /\ job.state = wk[w].state
            /\ job.kind = wk[w].kind /\ job.res = res
        BY <2>0 DEF Job
      <3>2. wk' = [wk EXCEPT ![w] = job]
        BY <1>0, <2>8 DEF TypeOK
      <3>3. Held(w) => effect[l] = wk[w].kind /\ (Revoking(l)' => wk[w].kind = "revoke")
        BY <1>0, <2>8 DEF IntentRecorded, KindFollowsRow, Revoking
      <3>. HIDE DEF job
      <3>. QED
        BY <2>2, <2>8, <3>1, <3>2, <3>3
    <2>9. CASE ReauthorizeFails(w)
      BY <2>8, <2>9 DEF ReauthorizeFails
    <2>10. ASSUME NEW res \in Answer, ExtendRole(w, res) PROVE DInv'
      BY <2>8, <2>10 DEF ExtendRole
    <2>11. ASSUME NEW res \in Answer, DropRole(w, res) PROVE DInv'
      <3>1. /\ \A k \in Lease : role'[k] => role[k]
            /\ res = "success" => ~role'[l]
        BY <1>0, <2>0, <2>11 DEF TypeOK, DropRole
      <3>. QED
        BY <2>8, <2>11, <3>1 DEF DropRole
    <2>12. CASE Settle(w)
      <3>. DEFINE o == Outcome(row[l], wk[w].kind, wk[w].res)
      <3>1. /\ o \in Row /\ o.owner = NoWorker /\ o.state # "absent"
            /\ o.state \in Terminal => wk[w].kind # "renew" /\ wk[w].res = "success"
        BY <2>0, OutcomeFacts DEF Job
      <3>2. CASE Held(w)
        <4>1. /\ \A k \in Lease : row'[k] = IF k = l THEN o ELSE row[k]
              /\ UNCHANGED <<effect, role, req, disclosed>> /\ wk' = [wk EXCEPT ![w] = Idle]
              /\ wk[w].pc = "answered"
          BY <1>0, <2>12, <3>2 DEF TypeOK, Settle
        <4>2. o.state \in Terminal => ~(disclosed[l] /\ role[l])
          BY <1>0, <3>1, <3>2, <4>1 DEF DropIsFinal
        <4>. HIDE DEF o
        <4>. QED
          BY <2>0, <2>1, <3>1, <4>1, <4>2
      <3>3. CASE ~Held(w)
        <4>1. UNCHANGED <<row, effect, role, req, disclosed>> /\ wk' = [wk EXCEPT ![w] = Idle]
          BY <2>12, <3>3 DEF Settle
        <4>. QED
          BY <2>1, <4>1
      <3>. QED
        BY <3>2, <3>3
    <2>13. CASE Crash(w)
      BY <2>1, <2>13 DEF Crash
    <2>. QED
      BY <1>10, <2>3, <2>4, <2>5, <2>6, <2>7, <2>9, <2>10, <2>11, <2>12, <2>13 DEF WorkerStep
  <1>. QED
    BY <1>1, <1>2, <1>3, <1>4, <1>6, <1>7, <1>8, <1>9, <1>10 DEF Next

\* No step undoes a revocation: whoever moves the row either may not take it or works
\* under the claim that named the revocation.
LEMMA RevokingStep ==
    ASSUME DInv, [Next]_vars, NEW l \in Lease, Revoking(l)
    PROVE  Revoking(l)'
  <1>. USE DynamicAssumption
  <1>0. /\ TypeOK /\ ClaimFreezesRow /\ KindFollowsRow /\ IntentRecorded
        /\ row[l] \in Row
        /\ row[l].state \in {"revoking", "revoked", "unknown"}
        /\ row[l].state = "unknown" => effect[l] = "revoke"
    BY DEF DInv, TypeOK, Revoking
  <1>1. ASSUME row'[l].state = row[l].state, effect'[l] = effect[l] PROVE Revoking(l)'
    BY <1>0, <1>1 DEF Revoking
  <1>2. ASSUME NEW k \in Lease, MintIntent(k) \/ FinishMint(k) PROVE Revoking(l)'
    <2>1. CASE k = l
      BY <1>0, <1>1, <1>2, <2>1 DEF MintIntent, FinishMint, MayFinish
    <2>2. CASE k # l
      BY <1>0, <1>1, <1>2, <2>2 DEF TypeOK, MintIntent, FinishMint
    <2>. QED
      BY <2>1, <2>2
  <1>3. ASSUME NEW k \in Lease, CreateRole(k) \/ MintAbandoned(k) PROVE Revoking(l)'
    BY <1>1, <1>3 DEF CreateRole, MintAbandoned
  <1>4. ASSUME NEW k \in Lease, RevokeLease(k) \/ RenewLease(k) \/ SettleLease(k) PROVE Revoking(l)'
    <2>1. PICK s \in {"revoking", "renewing", "unknown"} : EnqueueTransition(k, s)
      BY <1>4 DEF RevokeLease, RenewLease, SettleLease
    <2>2. CASE k = l
      <3>1. Enqueued(row[l], s).state = s
        BY <1>0, EnqueuedFacts
      <3>2. row'[l] = Enqueued(row[l], s) /\ UNCHANGED effect
        BY <1>0, <2>1, <2>2 DEF TypeOK, EnqueueTransition
      <3>3. s # "renewing" /\ (s = "unknown" => row[l].state = "unknown")
        BY <1>0, <2>1, <2>2 DEF EnqueueTransition, MayEnqueue
      <3>. QED
        BY <1>0, <3>1, <3>2, <3>3 DEF Revoking
    <2>3. CASE k # l
      BY <1>0, <1>1, <2>1, <2>3 DEF TypeOK, EnqueueTransition
    <2>. QED
      BY <2>2, <2>3
  <1>5. CASE DeleteProvider
    <2>1. Enqueued(row[l], "revoking").state = "revoking"
      BY <1>0, EnqueuedFacts
    <2>. QED
      BY <1>1, <1>5, <2>1 DEF DeleteProvider, Revoking
  <1>6. ASSUME NEW k \in Lease, Elapse(k) \/ Expire(k) \/ YearPasses(k) \/ Lapse(k)
        PROVE  Revoking(l)'
    <2>1. row'[l].state = row[l].state
      BY <1>0, <1>6, ClockKeeps
    <2>2. UNCHANGED effect
      BY <1>6 DEF Elapse, Expire, YearPasses, Lapse
    <2>. QED
      BY <1>1, <2>1, <2>2
  <1>7. CASE ReplaceCredential \/ RevokeCredential \/ UNCHANGED vars
    BY <1>1, <1>7 DEF ReplaceCredential, RevokeCredential, vars
  <1>8. ASSUME NEW w \in Worker, WorkerStep(w) \/ Crash(w) PROVE Revoking(l)'
    <2>0. wk[w] \in Job /\ wk[w].lease \in Lease
      BY <1>0 DEF TypeOK, Job
    <2>1. ASSUME NEW k \in Lease, ClaimDueLease(w, k) PROVE Revoking(l)'
      BY <1>0, <1>1, <2>1 DEF TypeOK, ClaimDueLease, Row
    <2>2. CASE OpenProvider(w) \/ OpenFails(w) \/ ReauthorizeFails(w) \/ Crash(w)
      BY <1>1, <2>2 DEF OpenProvider, OpenFails, ReauthorizeFails, Crash
    <2>3. ASSUME NEW res \in Answer, ExtendRole(w, res) \/ DropRole(w, res) PROVE Revoking(l)'
      BY <1>1, <2>3 DEF ExtendRole, DropRole
    <2>4. CASE Retry(w)
      <3>1. Released(row[l], row[l].state, "waiting").state = row[l].state
        BY <1>0 DEF Released, Row
      <3>2. row'[l].state = row[l].state /\ UNCHANGED effect
        BY <1>0, <2>4, <3>1 DEF TypeOK, Retry
      <3>. QED
        BY <1>1, <3>2
    <2>5. CASE RecordIntent(w)
      <3>1. UNCHANGED row /\ wk[w].pc = "opened"
        BY <2>5 DEF RecordIntent
      <3>2. CASE Held(w) /\ wk[w].lease = l
        <4>1. wk[w].kind = "revoke"
          BY <1>0, <3>1, <3>2 DEF KindFollowsRow
        <4>2. effect'[l] = "revoke"
          BY <1>0, <2>5, <3>2, <4>1 DEF TypeOK, RecordIntent
        <4>. QED
          BY <1>0, <3>1, <4>2 DEF Revoking
      <3>3. CASE ~(Held(w) /\ wk[w].lease = l)
        BY <1>0, <1>1, <2>5, <3>3 DEF TypeOK, RecordIntent
      <3>. QED
        BY <3>2, <3>3
    <2>6. CASE Settle(w)
      <3>1. UNCHANGED effect /\ wk[w].pc = "answered"
        BY <2>6 DEF Settle
      <3>2. CASE Held(w) /\ wk[w].lease = l
        <4>1. wk[w].kind = "revoke" /\ effect[l] = "revoke"
          BY <1>0, <3>1, <3>2 DEF KindFollowsRow, IntentRecorded
        <4>2. row'[l] = Outcome(row[l], "revoke", wk[w].res)
          BY <1>0, <2>6, <3>2, <4>1 DEF TypeOK, Settle
        <4>3. row'[l].state \in {"revoking", "revoked", "unknown"}
          BY <1>0, <2>0, <4>1, <4>2, OutcomeFacts DEF Job
        <4>. QED
          BY <3>1, <4>1, <4>3 DEF Revoking
      <3>3. CASE ~(Held(w) /\ wk[w].lease = l)
        BY <1>0, <1>1, <2>6, <3>3 DEF TypeOK, Settle
      <3>. QED
        BY <3>2, <3>3
    <2>. QED
      BY <1>8, <2>1, <2>2, <2>3, <2>4, <2>5, <2>6 DEF WorkerStep
  <1>. QED
    BY <1>2, <1>3, <1>4, <1>5, <1>6, <1>7, <1>8 DEF Next

\* The invariant holds in every behaviour, with or without fairness.
LEMMA Invariance == Spec => []DInv
  <1>1. Init => DInv
    <2>1. Init => TypeOK
      <3>1. Absent \in Row
        BY DEF Absent, Row, State
      <3>. QED
        BY <3>1, IdleType, DynamicAssumption DEF Init, TypeOK
    <2>2. Init => \A w \in Worker : wk[w].pc = "idle"
      BY IdleType DEF Init, Idle
    <2>3. Init => DisclosedWhenDone /\ DisclosedRoleIsTracked
      BY DEF Init, DisclosedWhenDone, DisclosedRoleIsTracked
    <2>. QED
      BY <2>1, <2>2, <2>3 DEF DInv, ClaimFreezesRow, KindFollowsRow, IntentRecorded, DropIsFinal
  <1>. QED
    BY <1>1, InvStep, PTL DEF Spec

\* THEOREM: a role whose password was handed out never outlives its row unnoticed:
\* whatever the provider answered and whichever claim lapsed, a terminal row has no
\* working disclosed role behind it (settleDrop, settleMintRecovery, FinishMint).
THEOREM DisclosedRolesAreTracked == Spec => []DisclosedRoleIsTracked
  <1>1. DInv => DisclosedRoleIsTracked
    BY DEF DInv
  <1>. QED
    BY <1>1, Invariance, PTL

\* THEOREM: a queued revocation is never undone by what was under way when
\* EnqueueTransition took the row.
THEOREM RevocationSticks == Spec => RevokeSticks
  <1>1. DInv /\ [Next]_vars => [\A l \in Lease : Revoking(l) => Revoking(l)']_vars
    BY RevokingStep
  <1>. QED
    BY <1>1, Invariance, PTL DEF Spec, RevokeSticks
=============================================================================
