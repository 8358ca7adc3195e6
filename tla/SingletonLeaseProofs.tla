------------------------ MODULE SingletonLeaseProofs ------------------------
(***************************************************************************)
(* Proofs about SingletonLease, for every set of nodes, lease lifetime and *)
(* bound.                                                                  *)
(***************************************************************************)
EXTENDS SingletonLease, TLAPS

\* Cancelling a term changes neither its node, its fence nor its transaction.
LEMMA CancelFacts ==
    ASSUME TypeOK, NEW n \in Node
    PROVE  /\ Cancel(n) \subseteq Term
           /\ \A u \in Cancel(n) : \E t \in terms :
                u.node = t.node /\ u.fence = t.fence /\ u.tx = t.tx
           /\ NoTermOverlap =>
                \A u, v \in Cancel(n) : u.node = v.node => u = v
  <1>. DEFINE cancelled(t) == IF t.node = n THEN [t EXCEPT !.live = FALSE] ELSE t
  <1>1. ASSUME NEW t \in terms
        PROVE  /\ cancelled(t) \in Term
               /\ cancelled(t).node = t.node
               /\ cancelled(t).fence = t.fence
               /\ cancelled(t).tx = t.tx
    <2>1. t \in Term
      BY DEF TypeOK
    <2>. QED
      BY <2>1 DEF Term
  <1>2. Cancel(n) = {cancelled(t) : t \in terms}
    BY DEF Cancel
  <1>. HIDE DEF cancelled
  <1>. QED
    BY <1>1, <1>2 DEF NoTermOverlap

\* startTerm adds one well-typed idle term and no other.
LEMMA StartTermFacts ==
    ASSUME TypeOK, NEW n \in Node, NEW f \in Nat, StartTerm(n, f)
    PROVE  /\ terms' \subseteq Term
           /\ \A u \in terms' : \/ u \in terms
                                \/ u.node = n /\ u.fence = f /\ u.tx = "idle"
           /\ \A u, v \in terms' : u \notin terms /\ v \notin terms => u = v
           /\ unconfirmed' = [unconfirmed EXCEPT ![n] = FALSE]
           /\ expiresAt' = [expiresAt EXCEPT ![n] = now[n] + LeaseTTL]
           /\ leader' = [leader EXCEPT ![n] = TRUE]
  <1>. DEFINE new == [node |-> n, fence |-> f, live |-> TRUE, tx |-> "idle"]
  <1>1. /\ new \in Term
        /\ new.node = n /\ new.fence = f /\ new.tx = "idle"
    BY DEF Term
  <1>2. terms' = terms \cup {new} /\ terms \subseteq Term
    BY DEF TypeOK, StartTerm
  <1>. HIDE DEF new
  <1>3. /\ unconfirmed' = [unconfirmed EXCEPT ![n] = FALSE]
        /\ expiresAt' = [expiresAt EXCEPT ![n] = now[n] + LeaseTTL]
        /\ leader' = [leader EXCEPT ![n] = TRUE]
    BY DEF StartTerm
  <1>. QED
    BY <1>1, <1>2, <1>3

\* The state of a term's transaction is all that SetTx changes.
LEMMA SetTxFacts ==
    ASSUME TypeOK, NEW t \in terms, NEW s \in {"idle", "begun", "locked"}, SetTx(t, s)
    PROVE  /\ terms' \subseteq Term
           /\ \A u \in terms' : \/ u \in terms
                                \/ u.node = t.node /\ u.fence = t.fence /\ u.tx = s
           /\ \A u \in terms' : u \in terms \ {t} \/ u = [t EXCEPT !.tx = s]
           /\ [t EXCEPT !.tx = s].node = t.node
  BY DEF TypeOK, SetTx, Term

\* Every step of the lease, of runHA and of the guarded jobs keeps the types.
LEMMA TypeStep == TypeOK /\ [Next]_vars => TypeOK'
  <1>. SUFFICES ASSUME TypeOK, [Next]_vars PROVE TypeOK'
    OBVIOUS
  <1>. USE LeaseAssumption
  <1>0. ASSUME NEW n \in Node PROVE Cancel(n) \subseteq Term
    BY CancelFacts
  <1>1. ASSUME NEW n \in Node, Heartbeat(n) PROVE TypeOK'
    <2>1. CASE ClockUnreachable(n)
      BY <2>1, <1>0 DEF TypeOK, ClockUnreachable, DropLeadership
    <2>2. CASE ReadClock(n)
      BY <2>2, <1>0 DEF TypeOK, ReadClock, DropLeadership, Goto
    <2>3. CASE RenewHeld(n)
      BY <2>3 DEF TypeOK, Lease, RenewHeld, RenewLease, Goto
    <2>4. CASE RenewDropped(n)
      BY <2>4, <1>0 DEF TypeOK, Lease, RenewDropped, RenewLease, DropLeadership, Goto
    <2>5. CASE AwaitDrain(n)
      BY <2>5 DEF TypeOK, AwaitDrain, Goto
    <2>6. CASE ConfirmHeld(n)
      <3>1. lease' \in Lease /\ fence[n] \in Nat
        BY <2>6 DEF TypeOK, Lease, ConfirmHeld, RenewLease
      <3>2. CASE stopping[n]
        BY <2>6, <3>1, <3>2 DEF TypeOK, ConfirmHeld, Goto
      <3>3. CASE ~stopping[n]
        <4>1. StartTerm(n, fence[n])
          BY <2>6, <3>3 DEF ConfirmHeld
        <4>2. /\ terms' \subseteq Term
              /\ unconfirmed' = [unconfirmed EXCEPT ![n] = FALSE]
              /\ expiresAt' = [expiresAt EXCEPT ![n] = now[n] + LeaseTTL]
              /\ leader' = [leader EXCEPT ![n] = TRUE]
          BY <3>1, <4>1, StartTermFacts
        <4>. QED
          BY <2>6, <3>1, <4>2 DEF TypeOK, ConfirmHeld, Goto
      <3>. QED
        BY <3>2, <3>3
    <2>7. CASE ConfirmFailed(n)
      BY <2>7 DEF TypeOK, Lease, ConfirmFailed, RenewLease, Goto
    <2>8. CASE ConfirmNotHeld(n)
      BY <2>8 DEF TypeOK, ConfirmNotHeld, Goto
    <2>9. CASE ClaimHeld(n)
      <3>1. lease' \in Lease /\ lease.fence + 1 \in Nat
        BY <2>9 DEF TypeOK, Lease, ClaimHeld, ClaimLease
      <3>2. CASE stopping[n]
        BY <2>9, <3>1, <3>2 DEF TypeOK, ClaimHeld, Goto
      <3>3. CASE ~stopping[n]
        <4>1. StartTerm(n, lease.fence + 1)
          BY <2>9, <3>3 DEF ClaimHeld
        <4>2. /\ terms' \subseteq Term
              /\ unconfirmed' = [unconfirmed EXCEPT ![n] = FALSE]
              /\ expiresAt' = [expiresAt EXCEPT ![n] = now[n] + LeaseTTL]
              /\ leader' = [leader EXCEPT ![n] = TRUE]
          BY <3>1, <4>1, StartTermFacts
        <4>. QED
          BY <2>9, <3>1, <4>2 DEF TypeOK, ClaimHeld, Goto
      <3>. QED
        BY <3>2, <3>3
    <2>10. CASE ClaimAmbiguous(n)
      <3>1. lease' \in Lease /\ lease.fence + 1 \in Nat
        BY <2>10 DEF TypeOK, Lease, ClaimAmbiguous, ClaimLease
      <3>2. fence' \in [Node -> Nat] /\ unconfirmed' \in [Node -> BOOLEAN]
        <4>1. CASE UNCHANGED <<fence, unconfirmed>>
          BY <4>1 DEF TypeOK
        <4>2. CASE /\ fence' = [fence EXCEPT ![n] = lease.fence + 1]
                   /\ unconfirmed' = [unconfirmed EXCEPT ![n] = TRUE]
          BY <3>1, <4>2 DEF TypeOK
        <4>. QED
          BY <2>10, <4>1, <4>2 DEF ClaimAmbiguous
      <3>. QED
        BY <2>10, <3>1, <3>2 DEF TypeOK, ClaimAmbiguous, Goto
    <2>11. CASE ClaimRefused(n)
      BY <2>11 DEF TypeOK, ClaimRefused, Goto
    <2>. QED
      BY <1>1, <2>1, <2>2, <2>3, <2>4, <2>5, <2>6, <2>7, <2>8, <2>9, <2>10, <2>11 DEF Heartbeat
  <1>2. ASSUME NEW n \in Node, Lifecycle(n) PROVE TypeOK'
    <2>1. CASE Stop(n)
      BY <2>1, <1>0 DEF TypeOK, Stop
    <2>2. CASE Shutdown(n)
      BY <2>2, <1>0 DEF TypeOK, Shutdown, DropLeadership, Goto
    <2>3. CASE Joined(n)
      BY <2>3 DEF TypeOK, Joined, Goto
    <2>4. CASE ReleaseLease(n)
      BY <2>4 DEF TypeOK, Lease, ReleaseLease, Goto
    <2>5. CASE Restart(n)
      BY <2>5 DEF TypeOK, Restart, TermsOf
    <2>. QED
      BY <1>2, <2>1, <2>2, <2>3, <2>4, <2>5 DEF Lifecycle
  <1>3. ASSUME NEW t \in terms, Work(t) PROVE TypeOK'
    <2>1. ASSUME NEW s \in {"idle", "begun", "locked"}, SetTx(t, s)
          PROVE terms' \subseteq Term
      BY <2>1, SetTxFacts
    <2>2. t.node \in Node /\ t.fence \in Nat
      BY DEF TypeOK, Term
    <2>. QED
      BY <1>3, <2>1, <2>2
      DEF TypeOK, Work, Begin, Guard, CommitWork, Rollback, ExitTerm, local
  <1>4. CASE Tick
    BY <1>4 DEF TypeOK, Tick, local
  <1>5. CASE UNCHANGED vars
    BY <1>5 DEF TypeOK, vars, local
  <1>. QED
    BY <1>1, <1>2, <1>3, <1>4, <1>5 DEF Next

\* THEOREM: every reachable state of the lease protocol is well typed.
THEOREM TypeCorrect == Spec => []TypeOK
  <1>1. Init => TypeOK
    BY LeaseAssumption DEF Init, TypeOK, Lease
  <1>. QED
    BY <1>1, TypeStep, PTL DEF Spec

-----------------------------------------------------------------------------
(* The inductive invariant *)

\* The instant a node works with is never ahead of the datastore clock.
ClockBehind == \A n \in Node : now[n] <= clock

\* A node leads only between heartbeats and while it renews.
LeadsInLoop == \A n \in Node : leader[n] => pc[n] \in {"tick", "renew"}

\* No term runs ahead of the row, and the row's fence is its owner's.
TermsOwned ==
    \A t \in terms : /\ t.fence <= lease.fence
                     /\ t.fence = lease.fence => t.node = lease.owner

\* A transaction that holds the row lock belongs to the row's owner and fence.
LockHoldsRow ==
    \A t \in terms : t.tx = "locked" => t.node = lease.owner /\ t.fence = lease.fence

IInv ==
    /\ TypeOK
    /\ ClockBehind
    /\ LeadsInLoop
    /\ LeaseBacksLeader
    /\ TermsOwned
    /\ LockHoldsRow
    /\ FenceNamesOneTerm
    /\ NoTermOverlap
    /\ ProvisionalClaimIdles

\* What the terms promise survives a step that moves neither the row's owner
\* nor its fence and adds no term and no lock.
LEMMA TermsKept ==
    ASSUME IInv,
           lease'.owner = lease.owner, lease'.fence = lease.fence,
           \A u \in terms' : \E t \in terms :
               u.node = t.node /\ u.fence = t.fence /\ u.tx = t.tx
    PROVE  TermsOwned' /\ LockHoldsRow' /\ FenceNamesOneTerm'
  BY DEF IInv, TermsOwned, LockHoldsRow, FenceNamesOneTerm

\* What a leader relies on survives a step of another node, or of the same
\* node while it does not lead, that respects the row of a leader in time.
LEMMA LeaderKept ==
    ASSUME IInv, clock' >= clock, clock' \in Nat,
           \A n \in Node : leader'[n] => /\ leader[n]
                                         /\ fence'[n] = fence[n]
                                         /\ expiresAt'[n] = expiresAt[n],
           \A n \in Node : leader'[n] /\ clock < expiresAt[n] => lease' = lease
    PROVE  LeaseBacksLeader'
  BY DEF IInv, TypeOK, LeaseBacksLeader

\* A renewal by n disturbs no other leader that is in time.
LEMMA RenewRespects ==
    ASSUME IInv, NEW n \in Node, Renewable(n), NEW m \in Node, m # n,
           leader[m], clock < expiresAt[m]
    PROVE  FALSE
  BY DEF IInv, Renewable, LeaseBacksLeader

\* A claim by n is admitted only when no leader is in time.
LEMMA ClaimRespects ==
    ASSUME IInv, NEW n \in Node, Claimable(n), NEW m \in Node,
           leader[m], clock < expiresAt[m]
    PROVE  FALSE
  BY DEF IInv, TypeOK, Lease, Claimable, LeaseBacksLeader, ClockBehind

\* Every step preserves the inductive invariant.
LEMMA InvStep == IInv /\ [Next]_vars => IInv'
  <1>. SUFFICES ASSUME IInv, [Next]_vars PROVE IInv'
    OBVIOUS
  <1>. USE LeaseAssumption
  <1>1. TypeOK /\ TypeOK'
    BY TypeStep DEF IInv
  <1>2. ASSUME NEW n \in Node, ClockUnreachable(n) PROVE IInv'
    <2>1. ClockBehind' /\ LeadsInLoop'
      BY <1>1, <1>2 DEF IInv, TypeOK, ClockBehind, LeadsInLoop, ClockUnreachable, DropLeadership
    <2>2. LeaseBacksLeader'
      BY <1>1, <1>2, LeaderKept DEF IInv, TypeOK, ClockUnreachable, DropLeadership
    <2>3. \A u \in terms' : \E t \in terms : u.node = t.node /\ u.fence = t.fence /\ u.tx = t.tx
      BY <1>1, <1>2, CancelFacts DEF ClockUnreachable, DropLeadership
    <2>4. NoTermOverlap'
      BY <1>1, <1>2, CancelFacts DEF IInv, NoTermOverlap, ClockUnreachable, DropLeadership
    <2>5. TermsOwned' /\ LockHoldsRow' /\ FenceNamesOneTerm'
      <3>1. lease'.owner = lease.owner /\ lease'.fence = lease.fence
        BY <1>1, <1>2 DEF TypeOK, Lease, ClockUnreachable, DropLeadership
      <3>. QED
        BY <2>3, <3>1, TermsKept
    <2>6. ProvisionalClaimIdles'
      BY <1>1, <1>2, <2>3 DEF IInv, TypeOK, ProvisionalClaimIdles, LeadsInLoop, TermsOf, Draining, ClockUnreachable, DropLeadership
    <2>. QED
      BY <1>1, <2>1, <2>2, <2>4, <2>5, <2>6 DEF IInv
  <1>3. ASSUME NEW n \in Node, ReadClock(n) PROVE IInv'
    <2>1. ClockBehind' /\ LeadsInLoop'
      BY <1>1, <1>3 DEF IInv, TypeOK, ClockBehind, LeadsInLoop, ReadClock, DropLeadership, Goto
    <2>2. LeaseBacksLeader'
      BY <1>1, <1>3, LeaderKept DEF IInv, TypeOK, ReadClock, DropLeadership, Goto
    <2>3. \A u \in terms' : \E t \in terms : u.node = t.node /\ u.fence = t.fence /\ u.tx = t.tx
      BY <1>1, <1>3, CancelFacts DEF ReadClock, DropLeadership, Goto
    <2>4. NoTermOverlap'
      BY <1>1, <1>3, CancelFacts DEF IInv, NoTermOverlap, ReadClock, DropLeadership, Goto
    <2>5. TermsOwned' /\ LockHoldsRow' /\ FenceNamesOneTerm'
      <3>1. lease'.owner = lease.owner /\ lease'.fence = lease.fence
        BY <1>1, <1>3 DEF TypeOK, Lease, ReadClock, DropLeadership, Goto
      <3>. QED
        BY <2>3, <3>1, TermsKept
    <2>6. ProvisionalClaimIdles'
      BY <1>1, <1>3, <2>3 DEF IInv, TypeOK, ProvisionalClaimIdles, LeadsInLoop, TermsOf, Draining, ReadClock, DropLeadership, Goto
    <2>. QED
      BY <1>1, <2>1, <2>2, <2>4, <2>5, <2>6 DEF IInv
  <1>4. ASSUME NEW n \in Node, RenewDropped(n) PROVE IInv'
    <2>1. ClockBehind' /\ LeadsInLoop'
      BY <1>1, <1>4 DEF IInv, TypeOK, ClockBehind, LeadsInLoop, RenewDropped, RenewLease, DropLeadership, Goto
    <2>2. LeaseBacksLeader'
      <3>1. ~leader'[n]
        BY <1>1, <1>4 DEF IInv, TypeOK, LeadsInLoop, RenewDropped, RenewLease, DropLeadership, Goto
      <3>2. ASSUME NEW m \in Node, leader'[m], clock < expiresAt[m] PROVE lease' = lease
        BY <1>1, <1>4, <3>1, <3>2, RenewRespects DEF IInv, TypeOK, RenewDropped, RenewLease, DropLeadership, Goto
      <3>. QED
        BY <1>1, <1>4, <3>2, LeaderKept DEF IInv, TypeOK, RenewDropped, RenewLease, DropLeadership, Goto
    <2>3. \A u \in terms' : \E t \in terms : u.node = t.node /\ u.fence = t.fence /\ u.tx = t.tx
      BY <1>1, <1>4, CancelFacts DEF RenewDropped, RenewLease, DropLeadership, Goto
    <2>4. NoTermOverlap'
      BY <1>1, <1>4, CancelFacts DEF IInv, NoTermOverlap, RenewDropped, RenewLease, DropLeadership, Goto
    <2>5. TermsOwned' /\ LockHoldsRow' /\ FenceNamesOneTerm'
      <3>1. lease'.owner = lease.owner /\ lease'.fence = lease.fence
        BY <1>1, <1>4 DEF TypeOK, Lease, RenewDropped, RenewLease, DropLeadership, Goto
      <3>. QED
        BY <2>3, <3>1, TermsKept
    <2>6. ProvisionalClaimIdles'
      BY <1>1, <1>4, <2>3 DEF IInv, TypeOK, ProvisionalClaimIdles, LeadsInLoop, TermsOf, Draining, RenewDropped, RenewLease, DropLeadership, Goto
    <2>. QED
      BY <1>1, <2>1, <2>2, <2>4, <2>5, <2>6 DEF IInv
  <1>5. ASSUME NEW n \in Node, AwaitDrain(n) PROVE IInv'
    <2>1. ClockBehind' /\ LeadsInLoop'
      BY <1>1, <1>5 DEF IInv, TypeOK, ClockBehind, LeadsInLoop, AwaitDrain, Goto
    <2>2. LeaseBacksLeader'
      BY <1>1, <1>5, LeaderKept DEF IInv, TypeOK, AwaitDrain, Goto
    <2>3. \A u \in terms' : \E t \in terms : u.node = t.node /\ u.fence = t.fence /\ u.tx = t.tx
      BY <1>5 DEF TermsOf, AwaitDrain, Goto
    <2>4. NoTermOverlap'
      BY <1>5 DEF IInv, NoTermOverlap, TermsOf, AwaitDrain, Goto
    <2>5. TermsOwned' /\ LockHoldsRow' /\ FenceNamesOneTerm'
      <3>1. lease'.owner = lease.owner /\ lease'.fence = lease.fence
        BY <1>1, <1>5 DEF TypeOK, Lease, AwaitDrain, Goto
      <3>. QED
        BY <2>3, <3>1, TermsKept
    <2>6. ProvisionalClaimIdles'
      BY <1>1, <1>5, <2>3 DEF IInv, TypeOK, ProvisionalClaimIdles, LeadsInLoop, TermsOf, Draining, AwaitDrain, Goto
    <2>. QED
      BY <1>1, <2>1, <2>2, <2>4, <2>5, <2>6 DEF IInv
  <1>6. ASSUME NEW n \in Node, ConfirmFailed(n) PROVE IInv'
    <2>1. ClockBehind' /\ LeadsInLoop'
      BY <1>1, <1>6 DEF IInv, TypeOK, ClockBehind, LeadsInLoop, ConfirmFailed, RenewLease, Goto
    <2>2. LeaseBacksLeader'
      <3>1. ~leader'[n]
        BY <1>1, <1>6 DEF IInv, TypeOK, LeadsInLoop, ConfirmFailed, RenewLease, Goto
      <3>2. ASSUME NEW m \in Node, leader'[m], clock < expiresAt[m] PROVE lease' = lease
        BY <1>1, <1>6, <3>1, <3>2, RenewRespects DEF IInv, TypeOK, ConfirmFailed, RenewLease, Goto
      <3>. QED
        BY <1>1, <1>6, <3>2, LeaderKept DEF IInv, TypeOK, ConfirmFailed, RenewLease, Goto
    <2>3. \A u \in terms' : \E t \in terms : u.node = t.node /\ u.fence = t.fence /\ u.tx = t.tx
      BY <1>6 DEF TermsOf, ConfirmFailed, RenewLease, Goto
    <2>4. NoTermOverlap'
      BY <1>6 DEF IInv, NoTermOverlap, TermsOf, ConfirmFailed, RenewLease, Goto
    <2>5. TermsOwned' /\ LockHoldsRow' /\ FenceNamesOneTerm'
      <3>1. lease'.owner = lease.owner /\ lease'.fence = lease.fence
        BY <1>1, <1>6 DEF TypeOK, Lease, ConfirmFailed, RenewLease, Goto
      <3>. QED
        BY <2>3, <3>1, TermsKept
    <2>6. ProvisionalClaimIdles'
      BY <1>1, <1>6, <2>3 DEF IInv, TypeOK, ProvisionalClaimIdles, LeadsInLoop, TermsOf, Draining, ConfirmFailed, RenewLease, Goto
    <2>. QED
      BY <1>1, <2>1, <2>2, <2>4, <2>5, <2>6 DEF IInv
  <1>7. ASSUME NEW n \in Node, ConfirmNotHeld(n) PROVE IInv'
    <2>1. ClockBehind' /\ LeadsInLoop'
      BY <1>1, <1>7 DEF IInv, TypeOK, ClockBehind, LeadsInLoop, ConfirmNotHeld, Goto
    <2>2. LeaseBacksLeader'
      BY <1>1, <1>7, LeaderKept DEF IInv, TypeOK, LeadsInLoop, ConfirmNotHeld, Goto
    <2>3. \A u \in terms' : \E t \in terms : u.node = t.node /\ u.fence = t.fence /\ u.tx = t.tx
      BY <1>7 DEF TermsOf, ConfirmNotHeld, Goto
    <2>4. NoTermOverlap'
      BY <1>7 DEF IInv, NoTermOverlap, TermsOf, ConfirmNotHeld, Goto
    <2>5. TermsOwned' /\ LockHoldsRow' /\ FenceNamesOneTerm'
      <3>1. lease'.owner = lease.owner /\ lease'.fence = lease.fence
        BY <1>1, <1>7 DEF TypeOK, Lease, ConfirmNotHeld, Goto
      <3>. QED
        BY <2>3, <3>1, TermsKept
    <2>6. ProvisionalClaimIdles'
      BY <1>1, <1>7, <2>3 DEF IInv, TypeOK, ProvisionalClaimIdles, LeadsInLoop, TermsOf, Draining, ConfirmNotHeld, Goto
    <2>. QED
      BY <1>1, <2>1, <2>2, <2>4, <2>5, <2>6 DEF IInv
  <1>8. ASSUME NEW n \in Node, ClaimRefused(n) PROVE IInv'
    <2>1. ClockBehind' /\ LeadsInLoop'
      BY <1>1, <1>8 DEF IInv, TypeOK, ClockBehind, LeadsInLoop, ClaimRefused, Claiming, Goto
    <2>2. LeaseBacksLeader'
      BY <1>1, <1>8, LeaderKept DEF IInv, TypeOK, ClaimRefused, Claiming, Goto
    <2>3. \A u \in terms' : \E t \in terms : u.node = t.node /\ u.fence = t.fence /\ u.tx = t.tx
      BY <1>8 DEF TermsOf, ClaimRefused, Claiming, Goto
    <2>4. NoTermOverlap'
      BY <1>8 DEF IInv, NoTermOverlap, TermsOf, ClaimRefused, Claiming, Goto
    <2>5. TermsOwned' /\ LockHoldsRow' /\ FenceNamesOneTerm'
      <3>1. lease'.owner = lease.owner /\ lease'.fence = lease.fence
        BY <1>1, <1>8 DEF TypeOK, Lease, ClaimRefused, Claiming, Goto
      <3>. QED
        BY <2>3, <3>1, TermsKept
    <2>6. ProvisionalClaimIdles'
      BY <1>1, <1>8, <2>3 DEF IInv, TypeOK, ProvisionalClaimIdles, LeadsInLoop, TermsOf, Draining, ClaimRefused, Claiming, Goto
    <2>. QED
      BY <1>1, <2>1, <2>2, <2>4, <2>5, <2>6 DEF IInv
  <1>9. ASSUME NEW n \in Node, Stop(n) PROVE IInv'
    <2>1. ClockBehind' /\ LeadsInLoop'
      BY <1>1, <1>9 DEF IInv, TypeOK, ClockBehind, LeadsInLoop, Stop
    <2>2. LeaseBacksLeader'
      BY <1>1, <1>9, LeaderKept DEF IInv, TypeOK, Stop
    <2>3. \A u \in terms' : \E t \in terms : u.node = t.node /\ u.fence = t.fence /\ u.tx = t.tx
      BY <1>1, <1>9, CancelFacts DEF Stop
    <2>4. NoTermOverlap'
      BY <1>1, <1>9, CancelFacts DEF IInv, NoTermOverlap, Stop
    <2>5. TermsOwned' /\ LockHoldsRow' /\ FenceNamesOneTerm'
      <3>1. lease'.owner = lease.owner /\ lease'.fence = lease.fence
        BY <1>1, <1>9 DEF TypeOK, Lease, Stop
      <3>. QED
        BY <2>3, <3>1, TermsKept
    <2>6. ProvisionalClaimIdles'
      BY <1>1, <1>9, <2>3 DEF IInv, TypeOK, ProvisionalClaimIdles, LeadsInLoop, TermsOf, Draining, Stop
    <2>. QED
      BY <1>1, <2>1, <2>2, <2>4, <2>5, <2>6 DEF IInv
  <1>10. ASSUME NEW n \in Node, Shutdown(n) PROVE IInv'
    <2>1. ClockBehind' /\ LeadsInLoop'
      BY <1>1, <1>10 DEF IInv, TypeOK, ClockBehind, LeadsInLoop, Shutdown, DropLeadership, Goto
    <2>2. LeaseBacksLeader'
      BY <1>1, <1>10, LeaderKept DEF IInv, TypeOK, Shutdown, DropLeadership, Goto
    <2>3. \A u \in terms' : \E t \in terms : u.node = t.node /\ u.fence = t.fence /\ u.tx = t.tx
      BY <1>1, <1>10, CancelFacts DEF Shutdown, DropLeadership, Goto
    <2>4. NoTermOverlap'
      BY <1>1, <1>10, CancelFacts DEF IInv, NoTermOverlap, Shutdown, DropLeadership, Goto
    <2>5. TermsOwned' /\ LockHoldsRow' /\ FenceNamesOneTerm'
      <3>1. lease'.owner = lease.owner /\ lease'.fence = lease.fence
        BY <1>1, <1>10 DEF TypeOK, Lease, Shutdown, DropLeadership, Goto
      <3>. QED
        BY <2>3, <3>1, TermsKept
    <2>6. ProvisionalClaimIdles'
      BY <1>1, <1>10, <2>3 DEF IInv, TypeOK, ProvisionalClaimIdles, LeadsInLoop, TermsOf, Draining, Shutdown, DropLeadership, Goto
    <2>. QED
      BY <1>1, <2>1, <2>2, <2>4, <2>5, <2>6 DEF IInv
  <1>11. ASSUME NEW n \in Node, Joined(n) PROVE IInv'
    <2>1. ClockBehind' /\ LeadsInLoop'
      BY <1>1, <1>11 DEF IInv, TypeOK, ClockBehind, LeadsInLoop, Joined, Goto
    <2>2. LeaseBacksLeader'
      BY <1>1, <1>11, LeaderKept DEF IInv, TypeOK, Joined, Goto
    <2>3. \A u \in terms' : \E t \in terms : u.node = t.node /\ u.fence = t.fence /\ u.tx = t.tx
      BY <1>11 DEF TermsOf, Joined, Goto
    <2>4. NoTermOverlap'
      BY <1>11 DEF IInv, NoTermOverlap, TermsOf, Joined, Goto
    <2>5. TermsOwned' /\ LockHoldsRow' /\ FenceNamesOneTerm'
      <3>1. lease'.owner = lease.owner /\ lease'.fence = lease.fence
        BY <1>1, <1>11 DEF TypeOK, Lease, Joined, Goto
      <3>. QED
        BY <2>3, <3>1, TermsKept
    <2>6. ProvisionalClaimIdles'
      BY <1>1, <1>11, <2>3 DEF IInv, TypeOK, ProvisionalClaimIdles, LeadsInLoop, TermsOf, Draining, Joined, Goto
    <2>. QED
      BY <1>1, <2>1, <2>2, <2>4, <2>5, <2>6 DEF IInv
  <1>12. ASSUME NEW n \in Node, ReleaseLease(n) PROVE IInv'
    <2>1. ClockBehind' /\ LeadsInLoop'
      BY <1>1, <1>12 DEF IInv, TypeOK, ClockBehind, LeadsInLoop, ReleaseLease, Goto
    <2>2. LeaseBacksLeader'
      <3>1. ~leader'[n]
        BY <1>1, <1>12 DEF IInv, TypeOK, LeadsInLoop, ReleaseLease, Goto
      <3>2. ASSUME NEW m \in Node, leader'[m], clock < expiresAt[m] PROVE lease' = lease
        BY <1>1, <1>12, <3>1, <3>2 DEF IInv, TypeOK, LeaseBacksLeader, ReleaseLease, Goto
      <3>. QED
        BY <1>1, <1>12, <3>2, LeaderKept DEF IInv, TypeOK, ReleaseLease, Goto
    <2>3. \A u \in terms' : \E t \in terms : u.node = t.node /\ u.fence = t.fence /\ u.tx = t.tx
      BY <1>12 DEF TermsOf, ReleaseLease, Goto
    <2>4. NoTermOverlap'
      BY <1>12 DEF IInv, NoTermOverlap, TermsOf, ReleaseLease, Goto
    <2>5. TermsOwned' /\ LockHoldsRow' /\ FenceNamesOneTerm'
      <3>1. lease'.owner = lease.owner /\ lease'.fence = lease.fence
        BY <1>1, <1>12 DEF TypeOK, Lease, ReleaseLease, Goto
      <3>. QED
        BY <2>3, <3>1, TermsKept
    <2>6. ProvisionalClaimIdles'
      BY <1>1, <1>12, <2>3 DEF IInv, TypeOK, ProvisionalClaimIdles, LeadsInLoop, TermsOf, Draining, ReleaseLease, Goto
    <2>. QED
      BY <1>1, <2>1, <2>2, <2>4, <2>5, <2>6 DEF IInv
  <1>13. ASSUME NEW n \in Node, Restart(n) PROVE IInv'
    <2>1. ClockBehind' /\ LeadsInLoop'
      BY <1>1, <1>13 DEF IInv, TypeOK, ClockBehind, LeadsInLoop, Restart, TermsOf
    <2>2. LeaseBacksLeader'
      BY <1>1, <1>13, LeaderKept DEF IInv, TypeOK, Restart, TermsOf
    <2>3. \A u \in terms' : \E t \in terms : u.node = t.node /\ u.fence = t.fence /\ u.tx = t.tx
      BY <1>13 DEF TermsOf, Restart, TermsOf
    <2>4. NoTermOverlap'
      BY <1>13 DEF IInv, NoTermOverlap, TermsOf, Restart, TermsOf
    <2>5. TermsOwned' /\ LockHoldsRow' /\ FenceNamesOneTerm'
      <3>1. lease'.owner = lease.owner /\ lease'.fence = lease.fence
        BY <1>1, <1>13 DEF TypeOK, Lease, Restart, TermsOf
      <3>. QED
        BY <2>3, <3>1, TermsKept
    <2>6. ProvisionalClaimIdles'
      BY <1>1, <1>13, <2>3 DEF IInv, TypeOK, ProvisionalClaimIdles, LeadsInLoop, TermsOf, Draining, Restart, TermsOf
    <2>. QED
      BY <1>1, <2>1, <2>2, <2>4, <2>5, <2>6 DEF IInv
  <1>14. ASSUME NEW n \in Node, RenewHeld(n) PROVE IInv'
    <2>1. ClockBehind' /\ LeadsInLoop'
      BY <1>1, <1>14 DEF IInv, TypeOK, ClockBehind, LeadsInLoop, RenewHeld, Goto
    <2>2. LeaseBacksLeader'
      <3>1. /\ lease.owner = n /\ lease.fence = fence[n]
            /\ lease'.owner = n /\ lease'.fence = fence[n]
            /\ lease'.expires = expiresAt'[n]
        BY <1>1, <1>14 DEF TypeOK, Lease, RenewHeld, Renewable, RenewLease
      <3>2. ASSUME NEW m \in Node, m # n, leader[m], clock < expiresAt[m] PROVE FALSE
        BY <1>14, <3>2, RenewRespects DEF RenewHeld
      <3>. QED
        BY <1>1, <1>14, <3>1, <3>2 DEF IInv, TypeOK, Lease, LeaseBacksLeader, RenewHeld
    <2>3. TermsOwned' /\ LockHoldsRow' /\ FenceNamesOneTerm'
      <3>1. lease'.owner = lease.owner /\ lease'.fence = lease.fence
        BY <1>1, <1>14 DEF TypeOK, Lease, RenewHeld, RenewLease
      <3>. QED
        BY <1>14, <3>1, TermsKept DEF RenewHeld
    <2>4. NoTermOverlap' /\ ProvisionalClaimIdles'
      BY <1>14 DEF IInv, NoTermOverlap, ProvisionalClaimIdles, TermsOf, RenewHeld
    <2>. QED
      BY <1>1, <2>1, <2>2, <2>3, <2>4 DEF IInv
  <1>15. ASSUME NEW n \in Node, ConfirmHeld(n) PROVE IInv'
    <2>1. ~leader[n] /\ TermsOf(n) = {} /\ fence[n] \in Nat
      BY <1>1, <1>15 DEF IInv, TypeOK, LeadsInLoop, Draining, ConfirmHeld
    <2>2. /\ lease.owner = n /\ lease.fence = fence[n]
          /\ lease'.owner = n /\ lease'.fence = fence[n]
          /\ lease'.expires = now[n] + LeaseTTL
      BY <1>1, <1>15 DEF TypeOK, Lease, ConfirmHeld, Renewable, RenewLease
    <2>3. ClockBehind'
      BY <1>15 DEF IInv, ClockBehind, ConfirmHeld
    <2>4. \A m \in Node : m # n /\ leader[m] => expiresAt[m] <= clock
      <3>. SUFFICES ASSUME NEW m \in Node, m # n, leader[m], clock < expiresAt[m] PROVE FALSE
        BY <1>1 DEF TypeOK
      <3>. QED
        BY <1>15, RenewRespects DEF ConfirmHeld
    <2>5. CASE stopping[n]
      <3>1. UNCHANGED <<leader, unconfirmed, expiresAt, terms, fence, clock>> /\ Goto(n, "tick")
        BY <1>15, <2>5 DEF ConfirmHeld
      <3>2. LeadsInLoop'
        BY <1>1, <2>1, <3>1 DEF IInv, TypeOK, LeadsInLoop, Goto
      <3>3. LeaseBacksLeader'
        BY <1>1, <2>1, <2>4, <3>1 DEF TypeOK, LeaseBacksLeader
      <3>4. TermsOwned' /\ LockHoldsRow' /\ FenceNamesOneTerm'
        BY <2>2, <3>1, TermsKept
      <3>5. NoTermOverlap' /\ ProvisionalClaimIdles'
        BY <3>1 DEF IInv, NoTermOverlap, ProvisionalClaimIdles, TermsOf
      <3>. QED
        BY <1>1, <2>3, <3>2, <3>3, <3>4, <3>5 DEF IInv
    <2>6. CASE ~stopping[n]
      <3>1. StartTerm(n, fence[n]) /\ UNCHANGED <<fence, clock>> /\ Goto(n, "tick")
        BY <1>15, <2>6 DEF ConfirmHeld
      <3>2. /\ \A u \in terms' : u \in terms \/ (u.node = n /\ u.fence = fence[n] /\ u.tx = "idle")
            /\ \A u, v \in terms' : u \notin terms /\ v \notin terms => u = v
            /\ unconfirmed' = [unconfirmed EXCEPT ![n] = FALSE]
            /\ expiresAt' = [expiresAt EXCEPT ![n] = now[n] + LeaseTTL]
            /\ leader' = [leader EXCEPT ![n] = TRUE]
        <4>1. TypeOK /\ fence[n] \in Nat /\ StartTerm(n, fence[n])
          BY <1>1, <2>1, <3>1
        <4>. QED
          BY <4>1, StartTermFacts
      <3>3. LeadsInLoop'
        BY <1>1, <3>1, <3>2 DEF IInv, TypeOK, LeadsInLoop, Goto
      <3>4. LeaseBacksLeader'
        <4>. SUFFICES ASSUME NEW m \in Node, leader'[m], clock' < expiresAt'[m]
                      PROVE  /\ lease'.owner = m /\ lease'.fence = fence'[m]
                             /\ lease'.expires >= expiresAt'[m]
          BY DEF LeaseBacksLeader
        <4>1. CASE m = n
          BY <1>1, <2>2, <3>1, <3>2, <4>1 DEF TypeOK, Lease
        <4>2. CASE m # n
          BY <1>1, <2>4, <3>1, <3>2, <4>2 DEF TypeOK
        <4>. QED
          BY <4>1, <4>2
      <3>5. TermsOwned' /\ LockHoldsRow' /\ FenceNamesOneTerm'
        BY <1>1, <2>1, <2>2, <3>2
        DEF IInv, TypeOK, TermsOwned, LockHoldsRow, FenceNamesOneTerm
      <3>6. NoTermOverlap'
        BY <2>1, <3>2 DEF IInv, NoTermOverlap, TermsOf
      <3>7. ProvisionalClaimIdles'
        BY <1>1, <3>2 DEF IInv, TypeOK, ProvisionalClaimIdles, TermsOf
      <3>. QED
        BY <1>1, <2>3, <3>3, <3>4, <3>5, <3>6, <3>7 DEF IInv
    <2>. QED
      BY <2>5, <2>6
  <1>16. ASSUME NEW n \in Node, Claiming(n), Unlocked, Claimable(n), ClaimLease(n),
                UNCHANGED <<clock, now>>, Goto(n, "tick")
         PROVE  /\ ~leader[n] /\ TermsOf(n) = {}
                /\ lease.fence \in Nat
                /\ lease' = [owner |-> n, fence |-> lease.fence + 1, expires |-> now[n] + LeaseTTL]
                /\ \A m \in Node : leader[m] => expiresAt[m] <= clock
                /\ \A t \in terms : t.fence < lease'.fence /\ t.tx # "locked"
                /\ ClockBehind'
    <2>1. ~leader[n] /\ TermsOf(n) = {}
      BY <1>1, <1>16 DEF IInv, TypeOK, LeadsInLoop, Draining, Claiming
    <2>2. lease.fence \in Nat /\ lease' = [owner |-> n, fence |-> lease.fence + 1, expires |-> now[n] + LeaseTTL]
      BY <1>1, <1>16 DEF TypeOK, Lease, ClaimLease
    <2>3. \A m \in Node : leader[m] => expiresAt[m] <= clock
      <3>. SUFFICES ASSUME NEW m \in Node, leader[m], clock < expiresAt[m] PROVE FALSE
        BY <1>1 DEF TypeOK
      <3>. QED
        BY <1>16, ClaimRespects
    <2>4. \A t \in terms : t.fence < lease'.fence /\ t.tx # "locked"
      BY <1>1, <1>16, <2>2 DEF IInv, TypeOK, Term, TermsOwned, Unlocked
    <2>5. ClockBehind'
      BY <1>16 DEF IInv, ClockBehind
    <2>. QED
      BY <2>1, <2>2, <2>3, <2>4, <2>5
  <1>17. ASSUME NEW n \in Node, Claiming(n), Unlocked, Claimable(n), ClaimLease(n),
                UNCHANGED <<clock, now, leader, expiresAt, terms>>, Goto(n, "tick"),
                \A m \in Node : leader[m] => fence'[m] = fence[m],
                \A m \in Node : unconfirmed'[m] => unconfirmed[m] \/ m = n
         PROVE  IInv'
    <2>1. LeadsInLoop'
      BY <1>1, <1>17 DEF IInv, TypeOK, LeadsInLoop, Goto
    <2>2. LeaseBacksLeader'
      BY <1>1, <1>16, <1>17 DEF TypeOK, LeaseBacksLeader
    <2>3. TermsOwned' /\ LockHoldsRow' /\ FenceNamesOneTerm'
      BY <1>1, <1>16, <1>17 DEF IInv, TypeOK, Term, TermsOwned, LockHoldsRow, FenceNamesOneTerm
    <2>4. NoTermOverlap' /\ ProvisionalClaimIdles'
      BY <1>1, <1>16, <1>17 DEF IInv, TypeOK, NoTermOverlap, ProvisionalClaimIdles, TermsOf
    <2>. QED
      BY <1>1, <1>16, <1>17, <2>1, <2>2, <2>3, <2>4 DEF IInv
  <1>18. ASSUME NEW n \in Node, ClaimHeld(n) PROVE IInv'
    <2>1. CASE stopping[n]
      BY <1>1, <1>16, <1>17, <1>18, <2>1 DEF TypeOK, ClaimHeld
    <2>2. CASE ~stopping[n]
      <3>. DEFINE f == lease.fence + 1
      <3>1. /\ ~leader[n] /\ TermsOf(n) = {}
            /\ lease.fence \in Nat
            /\ lease' = [owner |-> n, fence |-> f, expires |-> now[n] + LeaseTTL]
            /\ \A m \in Node : leader[m] => expiresAt[m] <= clock
            /\ \A t \in terms : t.fence < lease'.fence /\ t.tx # "locked"
            /\ ClockBehind'
        BY <1>16, <1>18 DEF ClaimHeld
      <3>2. /\ StartTerm(n, f) /\ Goto(n, "tick")
            /\ fence' = [fence EXCEPT ![n] = f]
            /\ UNCHANGED clock
        BY <1>18, <2>2 DEF ClaimHeld
      <3>3. /\ \A u \in terms' : u \in terms \/ (u.node = n /\ u.fence = f /\ u.tx = "idle")
            /\ \A u, v \in terms' : u \notin terms /\ v \notin terms => u = v
            /\ unconfirmed' = [unconfirmed EXCEPT ![n] = FALSE]
            /\ expiresAt' = [expiresAt EXCEPT ![n] = now[n] + LeaseTTL]
            /\ leader' = [leader EXCEPT ![n] = TRUE]
        BY <1>1, <3>1, <3>2, StartTermFacts
      <3>4. LeadsInLoop'
        BY <1>1, <3>2, <3>3 DEF IInv, TypeOK, LeadsInLoop, Goto
      <3>5. LeaseBacksLeader'
        <4>. SUFFICES ASSUME NEW m \in Node, leader'[m], clock' < expiresAt'[m]
                      PROVE  /\ lease'.owner = m /\ lease'.fence = fence'[m]
                             /\ lease'.expires >= expiresAt'[m]
          BY DEF LeaseBacksLeader
        <4>1. CASE m = n
          BY <1>1, <3>1, <3>2, <3>3, <4>1 DEF TypeOK
        <4>2. CASE m # n
          BY <1>1, <3>1, <3>2, <3>3, <4>2 DEF TypeOK
        <4>. QED
          BY <4>1, <4>2
      <3>6. TermsOwned' /\ LockHoldsRow' /\ FenceNamesOneTerm'
        BY <1>1, <3>1, <3>3 DEF IInv, TypeOK, Term, TermsOwned, LockHoldsRow, FenceNamesOneTerm
      <3>7. NoTermOverlap'
        BY <3>1, <3>3 DEF IInv, NoTermOverlap, TermsOf
      <3>8. ProvisionalClaimIdles'
        BY <1>1, <3>3 DEF IInv, TypeOK, ProvisionalClaimIdles, TermsOf
      <3>. QED
        BY <1>1, <3>1, <3>4, <3>5, <3>6, <3>7, <3>8 DEF IInv
    <2>. QED
      BY <2>1, <2>2
  <1>19. ASSUME NEW n \in Node, ClaimAmbiguous(n) PROVE IInv'
    <2>1. /\ \A m \in Node : leader[m] => fence'[m] = fence[m]
          /\ \A m \in Node : unconfirmed'[m] => unconfirmed[m] \/ m = n
          /\ ~leader[n] /\ TermsOf(n) = {}
      BY <1>1, <1>19 DEF IInv, TypeOK, LeadsInLoop, Draining, Claiming, ClaimAmbiguous
    <2>2. CASE ClaimLease(n)
      BY <1>17, <1>19, <2>1, <2>2 DEF ClaimAmbiguous
    <2>3. CASE UNCHANGED lease
      <3>1. ClockBehind' /\ LeadsInLoop'
        BY <1>1, <1>19 DEF IInv, TypeOK, ClockBehind, LeadsInLoop, ClaimAmbiguous, Goto
      <3>2. LeaseBacksLeader'
        BY <1>19, <2>1, <2>3 DEF IInv, LeaseBacksLeader, ClaimAmbiguous
      <3>3. TermsOwned' /\ LockHoldsRow' /\ FenceNamesOneTerm'
        BY <1>19, <2>3, TermsKept DEF ClaimAmbiguous
      <3>4. NoTermOverlap' /\ ProvisionalClaimIdles'
        BY <1>19, <2>1 DEF IInv, NoTermOverlap, ProvisionalClaimIdles, TermsOf, ClaimAmbiguous
      <3>. QED
        BY <1>1, <3>1, <3>2, <3>3, <3>4 DEF IInv
    <2>. QED
      BY <1>19, <2>2, <2>3 DEF ClaimAmbiguous
  <1>20. ASSUME NEW t \in terms, Work(t) PROVE IInv'
    <2>1. UNCHANGED <<clock, lease, local>>
      BY <1>20 DEF Work, Begin, Guard, CommitWork, Rollback, ExitTerm, local
    <2>2. ClockBehind' /\ LeadsInLoop' /\ LeaseBacksLeader'
      BY <2>1 DEF IInv, ClockBehind, LeadsInLoop, LeaseBacksLeader, local
    <2>3. \/ terms' = terms \ {t}
          \/ \E s \in {"idle", "begun", "locked"} :
                SetTx(t, s) /\ (s = "locked" => GuardPasses(t))
      BY <1>20 DEF Work, Begin, Guard, CommitWork, Rollback, ExitTerm
    <2>4. CASE terms' = terms \ {t}
      BY <1>1, <2>1, <2>2, <2>4
      DEF IInv, TermsOwned, LockHoldsRow, FenceNamesOneTerm, NoTermOverlap, ProvisionalClaimIdles, TermsOf, local
    <2>5. ASSUME NEW s \in {"idle", "begun", "locked"}, SetTx(t, s), s = "locked" => GuardPasses(t)
          PROVE  IInv'
      <3>1. /\ \A u \in terms' : u \in terms \/ (u.node = t.node /\ u.fence = t.fence /\ u.tx = s)
            /\ \A u \in terms' : u \in terms \ {t} \/ u = [t EXCEPT !.tx = s]
            /\ [t EXCEPT !.tx = s].node = t.node
        BY <1>1, <2>5, SetTxFacts
      <3>2. TermsOwned' /\ LockHoldsRow' /\ FenceNamesOneTerm'
        BY <2>1, <2>5, <3>1 DEF IInv, TermsOwned, LockHoldsRow, FenceNamesOneTerm, GuardPasses
      <3>3. NoTermOverlap'
        BY <3>1 DEF IInv, NoTermOverlap
      <3>4. ProvisionalClaimIdles'
        BY <2>1, <3>1 DEF IInv, ProvisionalClaimIdles, TermsOf, local
      <3>. QED
        BY <1>1, <2>2, <3>2, <3>3, <3>4 DEF IInv
    <2>. QED
      BY <2>3, <2>4, <2>5
  <1>21. CASE Tick
    BY <1>1, <1>21
    DEF IInv, TypeOK, Tick, local, ClockBehind, LeadsInLoop, LeaseBacksLeader, TermsOwned, LockHoldsRow,
        FenceNamesOneTerm, NoTermOverlap, ProvisionalClaimIdles, TermsOf
  <1>22. CASE UNCHANGED vars
    BY <1>1, <1>22
    DEF IInv, vars, local, ClockBehind, LeadsInLoop, LeaseBacksLeader, TermsOwned, LockHoldsRow,
        FenceNamesOneTerm, NoTermOverlap, ProvisionalClaimIdles, TermsOf
  <1>. QED
    BY <1>2, <1>3, <1>4, <1>5, <1>6, <1>7, <1>8, <1>9, <1>10, <1>11, <1>12, <1>13, <1>14,
       <1>15, <1>18, <1>19, <1>20, <1>21, <1>22
    DEF Next, Heartbeat, Lifecycle

\* The invariant holds throughout every behaviour of the protocol.
LEMMA Invariance == Spec => []IInv
  <1>1. Init => IInv
    BY LeaseAssumption
    DEF Init, IInv, TypeOK, Lease, ClockBehind, LeadsInLoop, LeaseBacksLeader, TermsOwned, LockHoldsRow,
        FenceNamesOneTerm, NoTermOverlap, ProvisionalClaimIdles, TermsOf
  <1>. QED
    BY <1>1, InvStep, PTL DEF Spec

\* THEOREM: whatever is paused, lost or restarted, a leader inside its deadline
\* holds the row at its own fence for at least that long (runHA, ClaimLease).
THEOREM LeaderHoldsLease == Spec => []LeaseBacksLeader
  <1>1. IInv => LeaseBacksLeader
    BY DEF IInv
  <1>. QED
    BY <1>1, Invariance, PTL

\* THEOREM: two terms of one node never overlap, and a provisional claim runs
\* nothing (termDraining, startTerm).
THEOREM TermsAreExclusive == Spec => [](NoTermOverlap /\ ProvisionalClaimIdles)
  <1>1. IInv => NoTermOverlap /\ ProvisionalClaimIdles
    BY DEF IInv
  <1>. QED
    BY <1>1, Invariance, PTL

\* THEOREM: no two nodes ever run terms under one fence, also when the answer to a
\* claim was lost (unconfirmedClaim, ClaimLease).
THEOREM FencesAreDistinct == Spec => []FenceNamesOneTerm
  <1>1. IInv => FenceNamesOneTerm
    BY DEF IInv
  <1>. QED
    BY <1>1, Invariance, PTL

-----------------------------------------------------------------------------
(* The refinement *)

\* A claim is the only step that moves the row's owner or fence, and a commit
\* of guarded work the only one that moves lastCommit.
LEMMA RefinementStep ==
    IInv /\ IInv' /\ [Next]_vars => [Singleton!AbsNext]_(Singleton!absVars)
  <1>. SUFFICES ASSUME IInv, IInv', [Next]_vars
                PROVE  Singleton!AbsNext \/ UNCHANGED <<lease.fence, lease.owner, lastCommit>>
    BY DEF Singleton!absVars
  <1>1. lease \in Lease /\ lease' \in Lease /\ terms \subseteq Term
    BY DEF IInv, TypeOK
  <1>2. ASSUME NEW n \in Node, Heartbeat(n)
        PROVE  Singleton!AbsNext \/ UNCHANGED <<lease.fence, lease.owner, lastCommit>>
    <2>1. CASE ClaimLease(n) /\ UNCHANGED lastCommit
      <3>1. Singleton!Elect(n)
        BY <1>1, <2>1 DEF ClaimLease, Lease, Singleton!Elect
      <3>. QED
        BY <3>1 DEF Singleton!AbsNext
    <2>2. CASE RenewLease(n) /\ UNCHANGED lastCommit
      BY <1>1, <2>2 DEF RenewLease, Lease
    <2>3. CASE UNCHANGED <<lease, lastCommit>>
      BY <2>3
    <2>. QED
      BY <1>2, <2>1, <2>2, <2>3
      DEF Heartbeat, ClockUnreachable, ReadClock, RenewHeld, RenewDropped, AwaitDrain, ConfirmHeld,
          ConfirmFailed, ConfirmNotHeld, ClaimHeld, ClaimAmbiguous, ClaimRefused
  <1>3. ASSUME NEW n \in Node, Lifecycle(n)
        PROVE  UNCHANGED <<lease.fence, lease.owner, lastCommit>>
    BY <1>1, <1>3 DEF Lease, Lifecycle, Stop, Shutdown, Joined, ReleaseLease, Restart
  <1>4. ASSUME NEW t \in terms, Work(t)
        PROVE  Singleton!AbsNext \/ UNCHANGED <<lease.fence, lease.owner, lastCommit>>
    <2>1. CASE CommitWork(t)
      <3>1. /\ lease.owner = t.node /\ lease.fence = t.fence /\ t.node \in Node
            /\ lastCommit' = [node |-> t.node, fence |-> t.fence]
            /\ UNCHANGED lease
        BY <1>1, <2>1 DEF IInv, LockHoldsRow, Term, CommitWork
      <3>2. Singleton!Commit
        BY <3>1 DEF Singleton!Commit
      <3>. QED
        BY <3>2 DEF Singleton!AbsNext
    <2>2. CASE UNCHANGED <<lease, lastCommit>>
      BY <2>2
    <2>. QED
      BY <1>4, <2>1, <2>2 DEF Work, Begin, Guard, Rollback, ExitTerm
  <1>5. CASE Tick
    BY <1>5 DEF Tick
  <1>6. CASE UNCHANGED vars
    BY <1>6 DEF vars
  <1>. QED
    BY <1>2, <1>3, <1>4, <1>5, <1>6 DEF Next

\* THEOREM: the lease, the scheduler loop and the guarded transactions
\* implement SingletonWork: only the owner of the newest term commits job
\* writes, and terms are numbered without gap or reuse (coordination_fence.go).
THEOREM LeaseImplementsSingletonWork == Spec => FencedWork
  <1>1. Init => Singleton!AbsInit
    BY DEF Init, Singleton!AbsInit
  <1>. QED
    BY <1>1, RefinementStep, Invariance, PTL DEF Spec, FencedWork, Singleton!AbsSpec

=============================================================================
