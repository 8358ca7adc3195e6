--------------------------- MODULE SingletonLease ---------------------------
(***************************************************************************)
(* The fenced singleton lease of an HA installation                        *)
(* (internal/store/coordination*.go) and the scheduler loop that competes  *)
(* for it on every node (internal/app/scheduler.go, runHA).  The lease is  *)
(* one datastore row; every lease time is datastore time, read by a node   *)
(* at the start of a heartbeat and used by the calls that follow.  Each    *)
(* datastore call is one step and may fail before or after it took effect. *)
(* A leadership term is a goroutine whose jobs run guarded transactions:   *)
(* the guard locks the lease row until the transaction ends.               *)
(***************************************************************************)
EXTENDS Naturals

CONSTANTS Node,      \* serving nodes, by NodeID
          NoNode,    \* owner of the row before the first claim
          LeaseTTL,  \* lease lifetime, in clock ticks
          MaxClock,  \* bound on the datastore clock
          MaxFence   \* bound on the number of acquisitions

ASSUME LeaseAssumption ==
    /\ NoNode \notin Node
    /\ LeaseTTL \in Nat \ {0}
    /\ MaxClock \in Nat
    /\ MaxFence \in Nat

VARIABLES clock,        \* the datastore clock
          lease,        \* the singleton_leases row
          pc,           \* where runHA stands on each node
          now,          \* the instant this heartbeat read
          leader,       \* Scheduler.leader
          fence,        \* runHA's fence
          unconfirmed,  \* runHA's unconfirmedClaim
          expiresAt,    \* runHA's expiresAt
          stopping,     \* the node's context was cancelled
          terms,        \* leadership-term goroutines that have not exited
          lastCommit    \* history: term of the latest committed job write

local == <<pc, now, leader, fence, unconfirmed, expiresAt, stopping>>
vars == <<clock, lease, local, terms, lastCommit>>

Lease == [owner : Node \cup {NoNode}, fence : Nat, expires : Nat]
Term == [node : Node, fence : Nat, live : BOOLEAN,
         tx : {"idle", "begun", "locked"}]

TypeOK ==
    /\ clock \in Nat
    /\ lease \in Lease
    /\ pc \in [Node -> {"tick", "renew", "acquire", "joining", "release", "done"}]
    /\ now \in [Node -> Nat]
    /\ leader \in [Node -> BOOLEAN]
    /\ fence \in [Node -> Nat]
    /\ unconfirmed \in [Node -> BOOLEAN]
    /\ expiresAt \in [Node -> Nat]
    /\ stopping \in [Node -> BOOLEAN]
    /\ terms \subseteq Term
    /\ lastCommit \in [node : Node \cup {NoNode}, fence : Nat]

Init ==
    /\ clock = 0
    /\ lease = [owner |-> NoNode, fence |-> 0, expires |-> 0]
    /\ pc = [n \in Node |-> "tick"]
    /\ now = [n \in Node |-> 0]
    /\ leader = [n \in Node |-> FALSE]
    /\ fence = [n \in Node |-> 0]
    /\ unconfirmed = [n \in Node |-> FALSE]
    /\ expiresAt = [n \in Node |-> 0]
    /\ stopping = [n \in Node |-> FALSE]
    /\ terms = {}
    /\ lastCommit = [node |-> NoNode, fence |-> 0]

-----------------------------------------------------------------------------
(* Helpers *)

TermsOf(n) == {t \in terms : t.node = n}

\* Mutant: a cancelled term counts as gone.
DrainingLive(n) == \E t \in TermsOf(n) : t.live

\* termDraining: the previous term goroutine has not exited yet.
Draining(n) == TermsOf(n) # {}

\* Mutant: the guard reads the row without locking it.
NeverLocked == TRUE

\* A guarded transaction holds the row lock, so every other writer of the
\* lease row waits for it (or times out, which is the failing outcome).
Unlocked == \A t \in terms : t.tx # "locked"

\* termCancel(): the term's context is cancelled, its goroutine drains.
Cancel(n) == {IF t.node = n THEN [t EXCEPT !.live = FALSE] ELSE t : t \in terms}

DropLeadership(n) ==
    /\ leader' = [leader EXCEPT ![n] = FALSE]
    /\ terms' = Cancel(n)

\* startTerm: the confirmed fence travels in the context of the new term.
StartTerm(n, f) ==
    /\ unconfirmed' = [unconfirmed EXCEPT ![n] = FALSE]
    /\ expiresAt' = [expiresAt EXCEPT ![n] = now[n] + LeaseTTL]
    /\ leader' = [leader EXCEPT ![n] = TRUE]
    /\ terms' = terms \cup {[node |-> n, fence |-> f, live |-> TRUE, tx |-> "idle"]}

Goto(n, l) == pc' = [pc EXCEPT ![n] = l]

\* Mutant: a live holder's lease is claimable too.
ClaimableAnytime(n) == lease.fence < MaxFence

\* ClaimLease: taken when unheld or expired at the caller's instant.
Claimable(n) == lease.expires <= now[n] /\ lease.fence < MaxFence

\* Mutant: the deadline is computed with the wrong sign.
ClaimLeaseBackwards(n) ==
    lease' = [owner |-> n, fence |-> lease.fence + 1, expires |-> now[n] - LeaseTTL]

ClaimLease(n) ==
    lease' = [owner |-> n, fence |-> lease.fence + 1, expires |-> now[n] + LeaseTTL]

\* Mutant: the renewal matches the fence alone.
RenewableByFence(n) == lease.fence = fence[n] /\ lease.expires > now[n]

\* RenewLease: exact owner and fence, still live at the caller's instant.
Renewable(n) ==
    /\ lease.owner = n
    /\ lease.fence = fence[n]
    /\ lease.expires > now[n]
RenewLease(n) == lease' = [lease EXCEPT !.expires = now[n] + LeaseTTL]

-----------------------------------------------------------------------------
(* One heartbeat of runHA *)

\* Lease.Now fails: a leader lost coordination and stops.
ClockUnreachable(n) ==
    /\ pc[n] = "tick"
    /\ DropLeadership(n)
    /\ UNCHANGED <<clock, lease, pc, now, fence, unconfirmed, expiresAt, stopping, lastCommit>>

\* Lease.Now succeeds; a leader past its last good deadline stops first.
ReadClock(n) ==
    /\ pc[n] = "tick" /\ ~stopping[n]
    /\ now' = [now EXCEPT ![n] = clock]
    /\ IF leader[n] /\ clock >= expiresAt[n]
         THEN DropLeadership(n)
         ELSE UNCHANGED <<leader, terms>>
    /\ Goto(n, IF leader'[n] THEN "renew" ELSE "acquire")
    /\ UNCHANGED <<clock, lease, fence, unconfirmed, expiresAt, stopping, lastCommit>>

RenewHeld(n) ==
    /\ pc[n] = "renew"
    /\ Unlocked /\ Renewable(n)
    /\ RenewLease(n)
    /\ expiresAt' = [expiresAt EXCEPT ![n] = now[n] + LeaseTTL]
    /\ Goto(n, "tick")
    /\ UNCHANGED <<clock, now, leader, fence, unconfirmed, stopping, terms, lastCommit>>

\* The renewal errs or finds the lease lost.  An error may hide a commit.
RenewDropped(n) ==
    /\ pc[n] = "renew"
    /\ \/ UNCHANGED lease
       \/ Unlocked /\ Renewable(n) /\ RenewLease(n)
    /\ DropLeadership(n)
    /\ Goto(n, IF stopping[n] THEN "tick" ELSE "acquire")
    /\ UNCHANGED <<clock, now, fence, unconfirmed, expiresAt, stopping, lastCommit>>

\* No claim and no confirmation while the previous term drains.
AwaitDrain(n) ==
    /\ pc[n] = "acquire" /\ Draining(n)
    /\ Goto(n, "tick")
    /\ UNCHANGED <<clock, lease, now, leader, fence, unconfirmed, expiresAt, stopping, terms, lastCommit>>

\* A provisional claim is confirmed by a fenced renewal before a term starts.
ConfirmHeld(n) ==
    /\ pc[n] = "acquire" /\ ~Draining(n) /\ unconfirmed[n]
    /\ Unlocked /\ Renewable(n)
    /\ RenewLease(n)
    /\ IF stopping[n]
         THEN UNCHANGED <<leader, unconfirmed, expiresAt, terms>>
         ELSE StartTerm(n, fence[n])
    /\ Goto(n, "tick")
    /\ UNCHANGED <<clock, now, fence, stopping, lastCommit>>

ConfirmFailed(n) ==
    /\ pc[n] = "acquire" /\ ~Draining(n) /\ unconfirmed[n]
    /\ \/ UNCHANGED lease
       \/ Unlocked /\ Renewable(n) /\ RenewLease(n)
    /\ Goto(n, "tick")
    /\ UNCHANGED <<clock, now, leader, fence, unconfirmed, expiresAt, stopping, terms, lastCommit>>

ConfirmNotHeld(n) ==
    /\ pc[n] = "acquire" /\ ~Draining(n) /\ unconfirmed[n]
    /\ ~Renewable(n)
    /\ unconfirmed' = [unconfirmed EXCEPT ![n] = FALSE]
    /\ fence' = [fence EXCEPT ![n] = 0]
    /\ Goto(n, IF stopping[n] THEN "tick" ELSE "acquire")
    /\ UNCHANGED <<clock, lease, now, leader, expiresAt, stopping, terms, lastCommit>>

Claiming(n) == pc[n] = "acquire" /\ ~Draining(n) /\ ~unconfirmed[n]

ClaimHeld(n) ==
    /\ Claiming(n)
    /\ Unlocked /\ Claimable(n)
    /\ ClaimLease(n)
    /\ fence' = [fence EXCEPT ![n] = lease.fence + 1]
    /\ IF stopping[n]
         THEN /\ unconfirmed' = [unconfirmed EXCEPT ![n] = TRUE]
              /\ UNCHANGED <<leader, expiresAt, terms>>
         ELSE StartTerm(n, lease.fence + 1)
    /\ Goto(n, "tick")
    /\ UNCHANGED <<clock, now, stopping, lastCommit>>

\* The claim errs after its INSERT ran: it may or may not have committed, and
\* the returned fence (when the response carried one) is provisional.
ClaimAmbiguous(n) ==
    /\ Claiming(n)
    /\ Unlocked /\ Claimable(n)
    /\ ClaimLease(n) \/ UNCHANGED lease
    /\ \/ /\ fence' = [fence EXCEPT ![n] = lease.fence + 1]
          /\ unconfirmed' = [unconfirmed EXCEPT ![n] = TRUE]
       \/ UNCHANGED <<fence, unconfirmed>>
    /\ Goto(n, "tick")
    /\ UNCHANGED <<clock, now, leader, expiresAt, stopping, terms, lastCommit>>

\* A live holder still owns the lease, or the call failed without effect.
ClaimRefused(n) ==
    /\ Claiming(n)
    /\ Goto(n, "tick")
    /\ UNCHANGED <<clock, lease, now, leader, fence, unconfirmed, expiresAt, stopping, terms, lastCommit>>

-----------------------------------------------------------------------------
(* Shutdown, crash and restart *)

\* The node's context is cancelled; a term's context is its child.
Stop(n) ==
    /\ pc[n] \in {"tick", "renew", "acquire"} /\ ~stopping[n]
    /\ stopping' = [stopping EXCEPT ![n] = TRUE]
    /\ terms' = Cancel(n)
    /\ UNCHANGED <<clock, lease, pc, now, leader, fence, unconfirmed, expiresAt, lastCommit>>

Shutdown(n) ==
    /\ pc[n] = "tick" /\ stopping[n]
    /\ DropLeadership(n)
    /\ Goto(n, "joining")
    /\ UNCHANGED <<clock, lease, now, fence, unconfirmed, expiresAt, stopping, lastCommit>>

\* The term is joined, or the two-second wait for it gives up.
Joined(n) ==
    /\ pc[n] = "joining"
    /\ \/ ~Draining(n) /\ Goto(n, IF fence[n] # 0 THEN "release" ELSE "done")
       \/ Draining(n) /\ Goto(n, "done")
    /\ UNCHANGED <<clock, lease, now, leader, fence, unconfirmed, expiresAt, stopping, terms, lastCommit>>

\* ReleaseLease expires the row the caller still holds and keeps its fence.
ReleaseLease(n) ==
    /\ pc[n] = "release"
    /\ \/ /\ Unlocked /\ lease.owner = n /\ lease.fence = fence[n]
          /\ lease' = [lease EXCEPT !.expires = 0]
       \/ UNCHANGED lease
    /\ Goto(n, "done")
    /\ UNCHANGED <<clock, now, leader, fence, unconfirmed, expiresAt, stopping, terms, lastCommit>>

\* The process dies at any point (its open transaction rolls back) and a new
\* one starts under the same NodeID.
Restart(n) ==
    /\ pc' = [pc EXCEPT ![n] = "tick"]
    /\ now' = [now EXCEPT ![n] = 0]
    /\ leader' = [leader EXCEPT ![n] = FALSE]
    /\ fence' = [fence EXCEPT ![n] = 0]
    /\ unconfirmed' = [unconfirmed EXCEPT ![n] = FALSE]
    /\ expiresAt' = [expiresAt EXCEPT ![n] = 0]
    /\ stopping' = [stopping EXCEPT ![n] = FALSE]
    /\ terms' = terms \ TermsOf(n)
    /\ UNCHANGED <<clock, lease, lastCommit>>

-----------------------------------------------------------------------------
(* A leadership term: runLoop's jobs, each write in a guarded transaction *)

SetTx(t, s) == terms' = (terms \ {t}) \cup {[t EXCEPT !.tx = s]}

\* tx.Write opens a transaction; a cancelled context opens none.
Begin(t) ==
    /\ t.tx = "idle" /\ t.live
    /\ SetTx(t, "begun")
    /\ UNCHANGED <<clock, lease, local, lastCommit>>

\* The guard's predicate: this term's row, live by the datastore clock.
GuardPasses(t) ==
    /\ lease.owner = t.node
    /\ lease.fence = t.fence
    /\ lease.expires > clock

\* GuardPGSingletonLease: lock the live matching row or refuse the work.
Guard(t) ==
    /\ t.tx = "begun" /\ Unlocked
    /\ SetTx(t, IF GuardPasses(t) THEN "locked" ELSE "idle")
    /\ UNCHANGED <<clock, lease, local, lastCommit>>

CommitWork(t) ==
    /\ t.tx = "locked"
    /\ SetTx(t, "idle")
    /\ lastCommit' = [node |-> t.node, fence |-> t.fence]
    /\ UNCHANGED <<clock, lease, local>>

Rollback(t) ==
    /\ t.tx \in {"begun", "locked"}
    /\ SetTx(t, "idle")
    /\ UNCHANGED <<clock, lease, local, lastCommit>>

\* runLoop returns once its context is cancelled.
ExitTerm(t) ==
    /\ ~t.live /\ t.tx = "idle"
    /\ terms' = terms \ {t}
    /\ UNCHANGED <<clock, lease, local, lastCommit>>

Tick ==
    /\ clock < MaxClock
    /\ clock' = clock + 1
    /\ UNCHANGED <<lease, local, terms, lastCommit>>

-----------------------------------------------------------------------------
Heartbeat(n) ==
    \/ ClockUnreachable(n) \/ ReadClock(n)
    \/ RenewHeld(n) \/ RenewDropped(n)
    \/ AwaitDrain(n)
    \/ ConfirmHeld(n) \/ ConfirmFailed(n) \/ ConfirmNotHeld(n)
    \/ ClaimHeld(n) \/ ClaimAmbiguous(n) \/ ClaimRefused(n)

Lifecycle(n) ==
    Stop(n) \/ Shutdown(n) \/ Joined(n) \/ ReleaseLease(n) \/ Restart(n)

Work(t) == Begin(t) \/ Guard(t) \/ CommitWork(t) \/ Rollback(t) \/ ExitTerm(t)

Next ==
    \/ \E n \in Node : Heartbeat(n) \/ Lifecycle(n)
    \/ \E t \in terms : Work(t)
    \/ Tick

Spec == Init /\ [][Next]_vars

-----------------------------------------------------------------------------
(* Properties *)

\* A node that believes it leads, and whose last good deadline has not passed
\* on the datastore clock, really holds the row at its fence and for at least
\* that long: no pause, lost answer, restart or hand-over makes two nodes lead
\* inside their deadlines (scheduler.go runHA, coordination.go ClaimLease).
LeaseBacksLeader ==
    \A n \in Node : leader[n] /\ clock < expiresAt[n] =>
        /\ lease.owner = n
        /\ lease.fence = fence[n]
        /\ lease.expires >= expiresAt[n]

\* A new term never starts on a node while its cancelled predecessor is still
\* winding down (scheduler.go termDraining).
NoTermOverlap == \A s, t \in terms : s.node = t.node => s = t

\* No two terms that still run jobs, on any nodes, carry the same fence:
\* a provisional fence whose claim rolled back and was then issued to another
\* node never reaches a term (scheduler.go unconfirmedClaim).
FenceNamesOneTerm == \A s, t \in terms : s.fence = t.fence => s.node = t.node

\* While a claim is provisional no term exists on the node and it does not
\* claim to lead ("no term has started and no jobs may run").
ProvisionalClaimIdles ==
    \A n \in Node : unconfirmed[n] => ~leader[n] /\ TermsOf(n) = {}

\* Job writes are committed only by the owner of the newest term, and terms
\* are numbered without gaps or reuse: a paused leader cannot commit after a
\* takeover (coordination_fence.go, tx.go).
Singleton == INSTANCE SingletonWork
                 WITH term <- lease.fence, holder <- lease.owner, last <- lastCommit
FencedWork == Singleton!AbsSpec
=============================================================================
