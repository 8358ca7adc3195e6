---------------------------- MODULE DynamicLease ----------------------------
(***************************************************************************)
(* Dynamic secrets: database roles leased to workloads                     *)
(* (internal/service/dynamic.go, dynamic_worker.go, internal/store/        *)
(* dynamic.go, dynamic_runtime.go).  A request mints a role at an external *)
(* provider between two transactions; every later transition of the lease  *)
(* is queued on its row and carried out by the lease workers, one per      *)
(* node, each of which claims a due row for a term, records its intent,    *)
(* calls the provider outside any transaction and settles the row only if  *)
(* it still holds the claim.                                               *)
(*                                                                         *)
(* Time is abstracted to what the code compares it with: a row's           *)
(* next_attempt_at is due, waiting, at the lease's expiry, or parked a     *)
(* year ahead; expires_at is unset, ahead or past; a claim is live or has  *)
(* lapsed.  A worker id is unique to a process, so lease_owner names the   *)
(* latest claim and stands for the claim token as well.  Requests, crashes *)
(* and pauses are disturbances, and MaxDisturb bounds their number.        *)
(***************************************************************************)
EXTENDS Naturals, FiniteSets

CONSTANTS Lease,      \* lease ids, all of one provider
          Worker,     \* lease-worker processes
          NoWorker,   \* the NULL lease_owner
          MayPause,   \* may a worker be paused for longer than its claim?
          MaxClaims,  \* live claims per organization: 4 in the code
          MaxDisturb  \* bound on requests, crashes and pauses

ASSUME DynamicAssumption ==
    /\ Lease # {}
    /\ NoWorker \notin Worker
    /\ MayPause \in BOOLEAN
    /\ MaxClaims \in Nat
    /\ MaxDisturb \in Nat

VARIABLES row,        \* the dynamic_leases rows
          effect,     \* kind of each lease's latest dynamic_effects row
          provider,   \* the dynamic_providers row
          role,       \* does the lease's role exist at the provider?
          req,        \* the mint request of each lease
          disclosed,  \* was the lease's password handed out?
          wk,         \* the lease workers
          disturb     \* disturbances so far

vars == <<row, effect, provider, role, req, disclosed, wk, disturb>>

Terminal == {"revoked", "expired", "failed"}
Transient == {"minting", "renewing", "revoking", "unknown"}
State == {"absent", "active"} \cup Transient \cup Terminal
Kind == {"mint", "renew", "revoke", "expire"}
Answer == {"success", "unreachable", "refused", "ambiguous"}

Row == [state : State, next : {"due", "waiting", "expiry", "parked"},
        expires : {"unset", "ahead", "past"},
        owner : Worker \cup {NoWorker}, live : BOOLEAN]
Job == [pc : {"idle", "claimed", "release", "opened", "intent", "answered"},
        lease : Lease, state : State, kind : Kind, res : Answer \cup {"denied"}]

\* TypeOK: rows, effects, requests and workers keep their shape.
TypeOK ==
    /\ row \in [Lease -> Row]
    /\ effect \in [Lease -> Kind \cup {"none"}]
    /\ provider \in [active : BOOLEAN, credential : BOOLEAN]
    /\ role \in [Lease -> BOOLEAN]
    /\ req \in [Lease -> {"none", "calling", "success", "failure", "unknown", "done"}]
    /\ disclosed \in [Lease -> BOOLEAN]
    /\ wk \in [Worker -> Job]
    /\ disturb \in 0..MaxDisturb

Absent == [state |-> "absent", next |-> "parked", expires |-> "unset",
           owner |-> NoWorker, live |-> FALSE]
Idle == [pc |-> "idle", lease |-> CHOOSE l \in Lease : TRUE, state |-> "absent",
         kind |-> "mint", res |-> "success"]

Init ==
    /\ row = [l \in Lease |-> Absent]
    /\ effect = [l \in Lease |-> "none"]
    /\ provider = [active |-> TRUE, credential |-> TRUE]
    /\ role = [l \in Lease |-> FALSE]
    /\ req = [l \in Lease |-> "none"]
    /\ disclosed = [l \in Lease |-> FALSE]
    /\ wk = [w \in Worker |-> Idle]
    /\ disturb = 0

-----------------------------------------------------------------------------
(* Rows *)

\* A row in a new state with a new next_attempt_at and no claim on it.
Released(r, state, next) ==
    [r EXCEPT !.state = state, !.next = next, !.owner = NoWorker, !.live = FALSE]

\* Mutant: a transition is queued without clearing the claim on the row.
EnqueuedUnderClaim(r, state) == [r EXCEPT !.state = state, !.next = "due"]

\* EnqueueTransition: the queued row is due now and its claim is cleared.
Enqueued(r, state) == Released(r, state, "due")

\* The states each queued transition may start from.
MayEnqueue(r, state) ==
    CASE state = "revoking" -> r.state \notin Terminal \cup {"absent", "revoking"}
      [] state = "renewing" -> r.state = "active"
      [] OTHER -> r.state = "unknown"

Disturb == disturb < MaxDisturb /\ disturb' = disturb + 1

\* assertLeased: the worker still holds its claim on the row.
Held(w) == LET r == row[wk[w].lease] IN r.owner = w /\ r.live

-----------------------------------------------------------------------------
(* The mint request *)

\* Mutant: a minting row whose request dies is never due.
MintIntentParked(l) ==
    /\ row[l].state = "absent" /\ provider.active /\ provider.credential
    /\ row' = [row EXCEPT ![l].state = "minting", ![l].next = "parked"]
    /\ req' = [req EXCEPT ![l] = "calling"]
    /\ UNCHANGED <<effect, provider, role, disclosed, wk, disturb>>

\* Phase 1: the intent commits, claimable only after the recovery grace.
MintIntent(l) ==
    /\ row[l].state = "absent" /\ provider.active /\ provider.credential
    /\ row' = [row EXCEPT ![l].state = "minting", ![l].next = "waiting"]
    /\ req' = [req EXCEPT ![l] = "calling"]
    /\ UNCHANGED <<effect, provider, role, disclosed, wk, disturb>>

\* Phase 2: CreateRole at the provider.  Only an ambiguous answer leaves open
\* whether the statement took effect.
CreateRole(l) ==
    /\ req[l] = "calling"
    /\ \/ req' = [req EXCEPT ![l] = "success"] /\ role' = [role EXCEPT ![l] = TRUE]
       \/ req' = [req EXCEPT ![l] = "failure"] /\ UNCHANGED role
       \/ /\ req' = [req EXCEPT ![l] = "unknown"]
          /\ \E took \in BOOLEAN : role' = [role EXCEPT ![l] = took]
    /\ UNCHANGED <<row, effect, provider, disclosed, wk, disturb>>

\* FinishMint's WHERE: a row the recovery claimed, even long ago, is left to it.
MayFinish(l) == row[l].state = "minting" /\ row[l].owner = NoWorker

\* Phase 3: settle the mint, disclosing the password only with an active row.
\* gate: does the caller still hold disclosure authority?
FinishMint(l) ==
    /\ req[l] \in {"success", "failure", "unknown"}
    /\ req' = [req EXCEPT ![l] = "done"]
    /\ \/ /\ MayFinish(l)
          /\ \E gate \in BOOLEAN :
              LET state == CASE req[l] = "success" /\ gate -> "active"
                             [] req[l] = "success" /\ ~gate -> "revoking"
                             [] req[l] = "failure" -> "failed"
                             [] req[l] = "unknown" -> "unknown"
              IN /\ row' = [row EXCEPT ![l] =
                        IF state = "active"
                        THEN [Released(@, state, "expiry") EXCEPT !.expires = "ahead"]
                        ELSE Released(@, state, "due")]
                 /\ disclosed' = [disclosed EXCEPT ![l] = (state = "active")]
       \/ ~MayFinish(l) /\ UNCHANGED <<row, disclosed>>
    /\ UNCHANGED <<effect, provider, role, wk, disturb>>

\* The request dies, or its settling transaction is refused, after phase 1.
MintAbandoned(l) ==
    /\ req[l] \in {"calling", "success", "failure", "unknown"}
    /\ Disturb
    /\ req' = [req EXCEPT ![l] = "done"]
    /\ UNCHANGED <<row, effect, provider, role, disclosed, wk>>

-----------------------------------------------------------------------------
(* Requests against a lease and its provider *)

\* RevokeLease, RenewLease and SettleLease queue a transition.
EnqueueTransition(l, state) ==
    /\ MayEnqueue(row[l], state)
    /\ Disturb
    /\ row' = [row EXCEPT ![l] = Enqueued(@, state)]
    /\ UNCHANGED <<effect, provider, role, req, disclosed, wk>>

RevokeLease(l) == EnqueueTransition(l, "revoking")
RenewLease(l) == EnqueueTransition(l, "renewing")
SettleLease(l) == EnqueueTransition(l, "unknown")

\* Set or replace the admin credential; a tombstoned provider has no row to set.
ReplaceCredential ==
    /\ provider.active
    /\ Disturb
    /\ provider' = [provider EXCEPT !.credential = TRUE]
    /\ UNCHANGED <<row, effect, role, req, disclosed, wk>>

RevokeCredential ==
    /\ provider.active
    /\ Disturb
    /\ provider' = [provider EXCEPT !.credential = FALSE]
    /\ UNCHANGED <<row, effect, role, req, disclosed, wk>>

\* Delete with revoke_all: every open lease is queued for revocation and the
\* provider is tombstoned with whatever credential it has.
DeleteProvider ==
    /\ provider.active
    /\ Disturb
    /\ provider' = [provider EXCEPT !.active = FALSE]
    /\ row' = [l \in Lease |-> IF MayEnqueue(row[l], "revoking")
                               THEN Enqueued(row[l], "revoking") ELSE row[l]]
    /\ UNCHANGED <<effect, role, req, disclosed, wk>>

-----------------------------------------------------------------------------
(* The lease worker: RunLeaseSweep *)

Due(r) == /\ r.next = "due"
          /\ r.state \in Transient \/ (r.state = "active" /\ r.expires = "past")
          /\ r.owner = NoWorker \/ ~r.live

LiveClaims == {l \in Lease : row[l].owner # NoWorker /\ row[l].live}

ClaimDueLease(w, l) ==
    /\ wk[w].pc = "idle"
    /\ Due(row[l])
    /\ Cardinality(LiveClaims) < MaxClaims
    /\ row' = [row EXCEPT ![l].owner = w, ![l].live = TRUE]
    /\ wk' = [wk EXCEPT ![w] = [Idle EXCEPT !.pc = "claimed", !.lease = l,
                                            !.state = row[l].state]]
    /\ UNCHANGED <<effect, provider, role, req, disclosed, disturb>>

\* deriveKind: the transition a claimed state asks for.
DeriveKind(state, latest) ==
    CASE state = "renewing" -> "renew"
      [] state = "revoking" -> "revoke"
      [] state = "active" -> "expire"
      [] state = "unknown" /\ latest # "none" -> latest
      [] OTHER -> "mint"

\* deriveKind and openProvider, which reads the credential under the claim.
OpenProvider(w) ==
    /\ wk[w].pc = "claimed"
    /\ Held(w) /\ provider.credential
    /\ wk' = [wk EXCEPT ![w].pc = "opened",
                        ![w].kind = DeriveKind(wk[w].state, effect[wk[w].lease])]
    /\ UNCHANGED <<row, effect, provider, role, req, disclosed, disturb>>

\* The claim is lost, the credential is gone, or it cannot be read or opened.
OpenFails(w) ==
    /\ wk[w].pc = "claimed"
    /\ wk' = [wk EXCEPT ![w].pc = "release"]
    /\ UNCHANGED <<row, effect, provider, role, req, disclosed, disturb>>

\* Retry: give the row back for a later attempt, if it is still held.
Retry(w) ==
    /\ wk[w].pc = "release"
    /\ row' = IF Held(w)
              THEN [row EXCEPT ![wk[w].lease] = Released(@, @.state, "waiting")]
              ELSE row
    /\ wk' = [wk EXCEPT ![w] = Idle]
    /\ UNCHANGED <<effect, provider, role, req, disclosed, disturb>>

\* RecordIntent: the effect row commits before the provider is called.
RecordIntent(w) ==
    /\ wk[w].pc = "opened"
    /\ IF Held(w)
       THEN /\ effect' = [effect EXCEPT ![wk[w].lease] = wk[w].kind]
            /\ wk' = [wk EXCEPT ![w].pc = "intent"]
       ELSE /\ wk' = [wk EXCEPT ![w] = Idle]
            /\ UNCHANGED effect
    /\ UNCHANGED <<row, provider, role, req, disclosed, disturb>>

\* reauthorizeLease refuses a renewal.
ReauthorizeFails(w) ==
    /\ wk[w].pc = "intent" /\ wk[w].kind = "renew"
    /\ wk' = [wk EXCEPT ![w].pc = "answered", ![w].res = "denied"]
    /\ UNCHANGED <<row, effect, provider, role, req, disclosed, disturb>>

\* ExtendRole: a missing role is refused, and no role is created.
ExtendRole(w, res) ==
    /\ wk[w].pc = "intent" /\ wk[w].kind = "renew"
    /\ res = "success" => role[wk[w].lease]
    /\ wk' = [wk EXCEPT ![w].pc = "answered", ![w].res = res]
    /\ UNCHANGED <<row, effect, provider, role, req, disclosed, disturb>>

\* DropRole: idempotent; an ambiguous answer may have dropped the role or not.
DropRole(w, res) ==
    /\ wk[w].pc = "intent" /\ wk[w].kind # "renew"
    /\ \E took \in BOOLEAN :
        /\ res = "success" => took
        /\ res \in {"unreachable", "refused"} => ~took
        /\ role' = [role EXCEPT ![wk[w].lease] = @ /\ ~took]
    /\ wk' = [wk EXCEPT ![w].pc = "answered", ![w].res = res]
    /\ UNCHANGED <<row, effect, provider, req, disclosed, disturb>>

Dropped(kind) == CASE kind = "revoke" -> "revoked" [] kind = "expire" -> "expired"
                   [] OTHER -> "failed"
Kept(kind) == CASE kind = "revoke" -> "revoking" [] kind = "expire" -> "active"
                [] kind = "renew" -> "renewing" [] OTHER -> "minting"

\* Mutant: an ambiguous drop is settled as a completed one.
OutcomeTrusting(r, kind, res) ==
    CASE kind = "renew" /\ res = "success" ->
            [Released(r, "active", "expiry") EXCEPT !.expires = "ahead"]
      [] kind = "renew" /\ res \in {"denied", "refused"} -> Released(r, "active", "parked")
      [] kind # "renew" /\ res \in {"success", "ambiguous"} -> Released(r, Dropped(kind), "parked")
      [] res = "unreachable" -> Released(r, Kept(kind), "waiting")
      [] OTHER -> Released(r, "unknown", "waiting")

\* Mutant: an uncertain outcome is parked like a settled one.
OutcomeParked(r, kind, res) ==
    CASE kind = "renew" /\ res = "success" ->
            [Released(r, "active", "expiry") EXCEPT !.expires = "ahead"]
      [] kind = "renew" /\ res \in {"denied", "refused"} -> Released(r, "active", "parked")
      [] kind # "renew" /\ res = "success" -> Released(r, Dropped(kind), "parked")
      [] res = "unreachable" -> Released(r, Kept(kind), "waiting")
      [] OTHER -> Released(r, "unknown", "parked")

\* RecordOutcome, RecordOutcomeRetry and EnterUnknown as settleRenew, settleDrop
\* and settleMintRecovery call them.
Outcome(r, kind, res) ==
    CASE kind = "renew" /\ res = "success" ->
            [Released(r, "active", "expiry") EXCEPT !.expires = "ahead"]
      [] kind = "renew" /\ res \in {"denied", "refused"} -> Released(r, "active", "parked")
      [] kind # "renew" /\ res = "success" -> Released(r, Dropped(kind), "parked")
      [] res = "unreachable" -> Released(r, Kept(kind), "waiting")
      [] OTHER -> Released(r, "unknown", "waiting")

\* settle: the outcome is written only under the claim.
Settle(w) ==
    /\ wk[w].pc = "answered"
    /\ row' = IF Held(w)
              THEN [row EXCEPT ![wk[w].lease] = Outcome(@, wk[w].kind, wk[w].res)]
              ELSE row
    /\ wk' = [wk EXCEPT ![w] = Idle]
    /\ UNCHANGED <<effect, provider, role, req, disclosed, disturb>>

\* The process dies, or a datastore error ends the sweep; a restarted process
\* is a new worker with nothing in hand.
Crash(w) ==
    /\ wk[w].pc # "idle"
    /\ Disturb
    /\ wk' = [wk EXCEPT ![w] = Idle]
    /\ UNCHANGED <<row, effect, provider, role, req, disclosed>>

-----------------------------------------------------------------------------
(* Time *)

\* A retry delay or the mint-recovery grace ends.
Elapse(l) ==
    /\ row[l].next = "waiting"
    /\ row' = [row EXCEPT ![l].next = "due"]
    /\ UNCHANGED <<effect, provider, role, req, disclosed, wk, disturb>>

\* The lease's expires_at passes.
Expire(l) ==
    /\ row[l].expires = "ahead" /\ row[l].state \notin Terminal
    /\ row' = [row EXCEPT ![l].expires = "past",
                          ![l].next = IF @ = "expiry" THEN "due" ELSE @]
    /\ UNCHANGED <<effect, provider, role, req, disclosed, wk, disturb>>

\* The year a parked row waits for ends.
YearPasses(l) ==
    /\ row[l].state = "active" /\ row[l].next = "parked"
    /\ row' = [row EXCEPT ![l].next = "due"]
    /\ UNCHANGED <<effect, provider, role, req, disclosed, wk, disturb>>

\* The term of a claim ends.  The provider deadline is far shorter than the
\* term, so a worker that is still on the row has been paused.
Lapse(l) ==
    /\ row[l].owner # NoWorker /\ row[l].live
    /\ LET w == row[l].owner
       IN IF wk[w].pc # "idle" /\ wk[w].lease = l
          THEN MayPause /\ Disturb ELSE UNCHANGED disturb
    /\ row' = [row EXCEPT ![l].live = FALSE]
    /\ UNCHANGED <<effect, provider, role, req, disclosed, wk>>

-----------------------------------------------------------------------------

WorkerStep(w) ==
    \/ \E l \in Lease : ClaimDueLease(w, l)
    \/ OpenProvider(w) \/ OpenFails(w) \/ Retry(w)
    \/ RecordIntent(w) \/ ReauthorizeFails(w)
    \/ \E res \in Answer : ExtendRole(w, res) \/ DropRole(w, res)
    \/ Settle(w)

Next ==
    \/ \E l \in Lease :
        \/ MintIntent(l) \/ CreateRole(l) \/ FinishMint(l) \/ MintAbandoned(l)
        \/ RevokeLease(l) \/ RenewLease(l) \/ SettleLease(l)
        \/ Elapse(l) \/ Expire(l) \/ YearPasses(l) \/ Lapse(l)
    \/ ReplaceCredential \/ RevokeCredential \/ DeleteProvider
    \/ \E w \in Worker : WorkerStep(w) \/ Crash(w)

Spec == Init /\ [][Next]_vars

(***************************************************************************)
(* Fairness.  dynamicWorker.Run polls for ever, so a worker keeps taking   *)
(* steps; retry delays and terms end.  A provider is not down for ever:    *)
(* where an attempt is made again and again, one of them succeeds.         *)
(***************************************************************************)
Fairness ==
    /\ \A w \in Worker :
        /\ WF_vars(WorkerStep(w))
        /\ SF_vars(OpenProvider(w))
        /\ SF_vars(DropRole(w, "success"))
    /\ \A l \in Lease : WF_vars(Elapse(l)) /\ WF_vars(Lapse(l))

FairSpec == Spec /\ Fairness

-----------------------------------------------------------------------------
(* Properties *)

\* A role whose password was handed out is dropped before its row is settled:
\* no terminal row hides a credential that still works, whatever the provider
\* answered and whichever worker's claim lapsed.
DisclosedRoleIsTracked ==
    \A l \in Lease : disclosed[l] /\ role[l] => row[l].state \notin Terminal

\* The lease is being, or has been, revoked: an unknown row resumes its latest
\* effect, so a revocation in doubt is still a revocation.
Revoking(l) ==
    \/ row[l].state \in {"revoking", "revoked"}
    \/ /\ row[l].state = "unknown"
       /\ effect[l] = "revoke"

\* A queued revocation is never undone: no renewal, recovery or expiry that was
\* under way when EnqueueTransition took the row can settle it another way.
RevokeSticks == [][\A l \in Lease : Revoking(l) => Revoking(l)']_vars

\* With a credential to work with, a queued revocation completes: through
\* crashes, lapsed claims, unreachable providers and lost answers.
RevokeCompletes ==
    (<>[](provider.credential)) =>
        \A l \in Lease : Revoking(l) ~> row[l].state = "revoked"

\* A role whose request died before disclosing it is dropped, once the row is
\* left to the workers with no claim on it.
AbandonedMintIsDropped ==
    (<>[](provider.credential)) =>
        \A l \in Lease :
            (/\ req[l] = "done" /\ role[l] /\ ~disclosed[l]
             /\ row[l].state \notin Terminal /\ row[l].owner = NoWorker)
            ~> ~role[l]
=============================================================================
