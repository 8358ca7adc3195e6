-------------------------- MODULE ApprovalsProofs --------------------------
(***************************************************************************)
(* Proofs about Approvals, for every finite set of principals, all keys,   *)
(* values and policies, and every bound.                                   *)
(***************************************************************************)
EXTENDS Approvals, FiniteSetTheorems, SequenceTheorems, TLAPS

\* The policy of a request's scope that still has the request's stamp is the one it was
\* reviewed under.
StampNamesRules(r) ==
    /\ r.stamp <= admin
    /\ policy[r.scope] # None /\ policy[r.scope].stamp = r.stamp =>
        policy[r.scope].input = r.rules

\* As long as the revision is the one the digest names, the reviewed content is what
\* applying the pinned draft gives.
BaseNamesContent(r) ==
    /\ r.digest.base <= revision
    /\ r.digest.base = revision => r.reviewed = Applied(r.digest.draft)

\* The votes MergedWithQuorum counts.
Votes(r) == {p \in Principal : r.votes[p] = "approve" /\ (p # r.by \/ r.rules.self)}

RequestOK(r) ==
    /\ StampNamesRules(r) /\ BaseNamesContent(r)
    /\ r.state = "merged" => Cardinality(Votes(r)) >= r.rules.min

StampsPast == \A s \in Scope : policy[s] # None => policy[s].stamp <= admin

AInv == TypeOK /\ StampsPast /\ \A i \in DOMAIN requests : RequestOK(requests[i])

-----------------------------------------------------------------------------
(* Requests and policies *)

\* A policy that covers the environment is there, with its rules.
LEMMA CoveringFacts ==
    ASSUME TypeOK
    PROVE  /\ Covering \in Scope
           /\ Covered => policy[Covering] # None
           /\ \A s \in Scope : policy[s] # None =>
                policy[s].stamp \in Nat /\ policy[s].input \in PolicyInput
  <1>1. Covering \in Scope
    BY DEF Covering, Scope
  <1>2. Covered => policy[Covering] # None
    BY DEF Covered, Covering, Enabled, Scope
  <1>3. ASSUME NEW s \in Scope, policy[s] # None
        PROVE  policy[s].stamp \in Nat /\ policy[s].input \in PolicyInput
    <2>1. policy[s] \in [stamp : Nat, input : PolicyInput]
      BY <1>3 DEF TypeOK
    <2>. QED
      BY <2>1
  <1>. QED
    BY <1>1, <1>2, <1>3

LEMMA RequestType ==
    ASSUME TypeOK, NEW i \in DOMAIN requests
    PROVE  /\ requests[i] \in Request
           /\ requests[i].by \in Principal /\ requests[i].scope \in Scope
           /\ requests[i].stamp \in Nat /\ requests[i].rules \in PolicyInput
           /\ requests[i].digest \in Digest /\ requests[i].digest.base \in Nat
           /\ requests[i].digest.draft \in Draft
  <1>0. requests \in Seq(Request)
    BY DEF TypeOK
  <1>1. requests[i] \in Request
    BY <1>0
  <1>2. requests[i].digest \in Digest
    BY <1>1 DEF Request
  <1>. QED
    BY <1>1, <1>2 DEF Request, Digest

\* One request is replaced.
LEMMA Replaced ==
    ASSUME requests \in Seq(Request), NEW i \in DOMAIN requests, NEW r \in Request,
           requests' = [requests EXCEPT ![i] = r]
    PROVE  /\ requests' \in Seq(Request) /\ Len(requests') = Len(requests)
           /\ DOMAIN requests' = DOMAIN requests /\ requests'[i] = r
           /\ \A j \in DOMAIN requests : j # i => requests'[j] = requests[j]
  <1>1. DOMAIN requests = 1..Len(requests) /\ requests \in [1..Len(requests) -> Request]
    OBVIOUS
  <1>2. requests' \in [1..Len(requests) -> Request] /\ DOMAIN requests' = DOMAIN requests
    BY <1>1
  <1>3. requests' \in Seq(Request) /\ Len(requests') = Len(requests)
    BY <1>2
  <1>. QED
    BY <1>1, <1>2, <1>3

\* What a step does to one request: it keeps what the request pinned, and merges it only
\* with its votes.
Kept(r, q) ==
    /\ q.scope = r.scope /\ q.stamp = r.stamp /\ q.rules = r.rules
    /\ q.digest = r.digest /\ q.reviewed = r.reviewed
    /\ q.state = "merged" => Cardinality(Votes(q)) >= q.rules.min

\* A step that writes neither a policy nor the environment.
LEMMA RequestStep ==
    ASSUME AInv, NEW i \in DOMAIN requests, NEW q \in Request, Kept(requests[i], q),
           requests' = [requests EXCEPT ![i] = q],
           UNCHANGED <<admins, contents, draft, lastDraft, preview>>
    PROVE  AInv'
  <1>0. TypeOK /\ StampsPast /\ \A j \in DOMAIN requests : RequestOK(requests[j])
    BY DEF AInv
  <1>1. /\ requests' \in Seq(Request) /\ Len(requests') = Len(requests)
        /\ DOMAIN requests' = DOMAIN requests /\ requests'[i] = q
        /\ \A j \in DOMAIN requests : j # i => requests'[j] = requests[j]
    BY <1>0, Replaced DEF TypeOK
  <1>2. UNCHANGED <<policy, publishers, generation, members, protected, admin, keys, cells,
                    revision, trigger, draft, lastDraft, preview>>
    BY DEF admins, contents
  <1>3. TypeOK'
    BY <1>0, <1>1, <1>2 DEF TypeOK
  <1>4. StampsPast'
    BY <1>0, <1>2 DEF StampsPast
  <1>5. ASSUME NEW r, RequestOK(r) PROVE RequestOK(r)'
    BY <1>2, <1>5 DEF RequestOK, StampNamesRules, BaseNamesContent, Applied, Content, Votes
  <1>6. RequestOK(q)
    BY <1>0 DEF RequestOK, StampNamesRules, BaseNamesContent, Kept, Votes
  <1>7. \A j \in DOMAIN requests' : RequestOK(requests[j])'
    BY <1>0, <1>1, <1>5, <1>6
  <1>. QED
    BY <1>3, <1>4, <1>7 DEF AInv

\* The steps that only move a request.
LEMMA InvalidateStep ==
    ASSUME AInv, NEW i \in DOMAIN requests,
           NEW cause \in {"policy_changed", "draft_edited", "env_advanced", "approver_removed"},
           Invalidate(i, cause)
    PROVE  AInv' /\ requests'[i].state = "invalidated" /\ UNCHANGED cells
           /\ \A j \in DOMAIN requests : j # i => requests'[j] = requests[j]
  <1>0. TypeOK /\ requests \in Seq(Request)
    BY DEF AInv, TypeOK
  <1>1. requests[i] \in Request
    BY <1>0, RequestType
  <1>. DEFINE q == [requests[i] EXCEPT !.state = "invalidated", !.cause = cause]
  <1>2. q \in Request /\ q.state = "invalidated"
    BY <1>1 DEF Request
  <1>3. Kept(requests[i], q)
    BY <1>1, <1>2 DEF Request, Kept
  <1>4. /\ requests' = [requests EXCEPT ![i] = q]
        /\ UNCHANGED <<admins, contents, draft, lastDraft, preview>>
    BY <1>0 DEF Invalidate
  <1>. HIDE DEF q
  <1>5. UNCHANGED cells
    BY <1>4 DEF contents
  <1>. QED
    BY <1>0, <1>2, <1>3, <1>4, <1>5, RequestStep, Replaced

LEMMA StaleSteps ==
    ASSUME AInv, NEW p \in Principal, NEW i \in DOMAIN requests,
           FindsStale(p, i) \/ MergeWithoutQuorum(p, i) \/ VoteFindsStale(p, i)
    PROVE  AInv' /\ requests'[i].state = "invalidated" /\ UNCHANGED cells
           /\ \A j \in DOMAIN requests : j # i => requests'[j] = requests[j]
  <1>1. \E cause \in {"policy_changed", "draft_edited", "env_advanced", "approver_removed"} :
          Invalidate(i, cause)
    BY DEF FindsStale, MergeWithoutQuorum, VoteFindsStale, DriftCause
  <1>. QED
    BY <1>1, InvalidateStep

\* A vote leaves a request open, approves or rejects it.
LEMMA AfterVoteFacts ==
    ASSUME NEW r \in Request, NEW p \in Principal, NEW decision \in {"approve", "reject"},
           Active(r)
    PROVE  LET q == AfterVote(r, p, decision)
           IN q \in Request /\ Kept(r, q) /\ q.state \in {"open", "approved", "rejected"}
  <1>. DEFINE voted == [r EXCEPT !.votes[p] = decision]
  <1>1. /\ voted \in Request /\ voted.state = r.state /\ voted.scope = r.scope
        /\ voted.stamp = r.stamp /\ voted.rules = r.rules /\ voted.digest = r.digest
        /\ voted.reviewed = r.reviewed
    BY DEF Request
  <1>. HIDE DEF voted
  <1>2. ASSUME NEW state \in {"approved", "rejected"}
        PROVE  LET q == [voted EXCEPT !.state = state]
               IN q \in Request /\ Kept(r, q) /\ q.state = state
    <2>. DEFINE q == [voted EXCEPT !.state = state]
    <2>1. /\ q \in Request /\ q.state = state /\ q.scope = r.scope /\ q.stamp = r.stamp
          /\ q.rules = r.rules /\ q.digest = r.digest /\ q.reviewed = r.reviewed
      BY <1>1 DEF Request
    <2>. QED
      BY <2>1 DEF Kept
  <1>3. voted \in Request /\ Kept(r, voted) /\ voted.state \in {"open", "approved"}
    BY <1>1 DEF Kept, Active
  <1>4. AfterVote(r, p, decision) \in
          {voted, [voted EXCEPT !.state = "approved"], [voted EXCEPT !.state = "rejected"]}
    BY DEF AfterVote, voted
  <1>. QED
    BY <1>2, <1>3, <1>4

LEMMA VoteStep ==
    ASSUME AInv, NEW p \in Principal, NEW i \in DOMAIN requests,
           NEW decision \in {"approve", "reject"}, Vote(p, i, decision)
    PROVE  AInv' /\ requests'[i].state \in {"open", "approved", "rejected"} /\ UNCHANGED cells
           /\ \A j \in DOMAIN requests : j # i => requests'[j] = requests[j]
  <1>0. TypeOK /\ requests \in Seq(Request)
    BY DEF AInv, TypeOK
  <1>1. requests[i] \in Request
    BY <1>0, RequestType
  <1>2. PICK q : q = AfterVote(requests[i], p, decision)
    OBVIOUS
  <1>3. q \in Request /\ Kept(requests[i], q) /\ q.state \in {"open", "approved", "rejected"}
    BY <1>1, <1>2, AfterVoteFacts DEF Vote, Votable
  <1>4. /\ requests' = [requests EXCEPT ![i] = q]
        /\ UNCHANGED <<admins, contents, draft, lastDraft, preview>>
    BY <1>2 DEF Vote
  <1>5. UNCHANGED cells
    BY <1>4 DEF contents
  <1>. QED
    BY <1>0, <1>3, <1>4, <1>5, RequestStep, Replaced

LEMMA PassExpiryStep ==
    ASSUME AInv, NEW i \in DOMAIN requests, PassExpiry(i)
    PROVE  AInv' /\ requests'[i].state \in {"open", "approved"} /\ UNCHANGED cells
           /\ \A j \in DOMAIN requests : j # i => requests'[j] = requests[j]
  <1>0. TypeOK /\ requests \in Seq(Request)
    BY DEF AInv, TypeOK
  <1>1. requests[i] \in Request /\ Active(requests[i])
    BY <1>0, RequestType DEF PassExpiry
  <1>. DEFINE q == [requests[i] EXCEPT !.past = TRUE]
  <1>2. q \in Request /\ q.state = requests[i].state
    BY <1>1 DEF Request
  <1>3. Kept(requests[i], q)
    BY <1>1, <1>2 DEF Request, Kept, Active
  <1>4. /\ requests' = [requests EXCEPT ![i] = q]
        /\ UNCHANGED <<admins, contents, draft, lastDraft, preview>>
    BY <1>0 DEF PassExpiry
  <1>. HIDE DEF q
  <1>5. UNCHANGED cells
    BY <1>4 DEF contents
  <1>. QED
    BY <1>0, <1>1, <1>2, <1>3, <1>4, <1>5, RequestStep, Replaced DEF Active

LEMMA ExpireDueStep ==
    ASSUME AInv, ExpireDue
    PROVE  AInv' /\ UNCHANGED cells
           /\ \A j \in DOMAIN requests :
                requests'[j] = requests[j] \/ requests'[j].state = "expired"
  <1>0. TypeOK /\ StampsPast /\ \A j \in DOMAIN requests : RequestOK(requests[j])
    BY DEF AInv
  <1>1. requests \in Seq(Request) /\ DOMAIN requests = 1..Len(requests) /\ Len(requests) \in Nat
    <2>1. requests \in Seq(Request)
      BY <1>0 DEF TypeOK
    <2>. QED
      BY <2>1
  <1>. DEFINE e(j) == IF Swept(requests[j]) THEN [requests[j] EXCEPT !.state = "expired"]
                      ELSE requests[j]
  <1>2. ASSUME NEW j \in DOMAIN requests
        PROVE  /\ e(j) \in Request /\ RequestOK(e(j))
               /\ e(j) = requests[j] \/ e(j).state = "expired"
    <2>1. requests[j] \in Request /\ RequestOK(requests[j])
      BY <1>0, <1>1, <1>2
    <2>2. LET q == [requests[j] EXCEPT !.state = "expired"]
          IN /\ q \in Request /\ q.state = "expired" /\ q.scope = requests[j].scope
             /\ q.stamp = requests[j].stamp /\ q.rules = requests[j].rules
             /\ q.digest = requests[j].digest /\ q.reviewed = requests[j].reviewed
      BY <2>1 DEF Request
    <2>. QED
      BY <2>1, <2>2 DEF RequestOK, StampNamesRules, BaseNamesContent
  <1>3. requests' = [j \in 1..Len(requests) |-> e(j)]
    BY <1>1 DEF ExpireDue
  <1>4. UNCHANGED <<policy, publishers, generation, members, protected, admin, keys, cells,
                    revision, trigger, draft, lastDraft, preview>>
    BY DEF ExpireDue, admins, contents
  <1>. HIDE DEF e
  <1>5. requests' \in Seq(Request) /\ Len(requests') = Len(requests)
    BY <1>1, <1>2, <1>3, IsASeq
  <1>6. \A j \in DOMAIN requests' : j \in DOMAIN requests /\ requests'[j] = e(j)
    BY <1>1, <1>3
  <1>7. TypeOK'
    BY <1>0, <1>4, <1>5 DEF TypeOK
  <1>8. StampsPast'
    BY <1>0, <1>4 DEF StampsPast
  <1>9. ASSUME NEW r, RequestOK(r) PROVE RequestOK(r)'
    BY <1>4, <1>9 DEF RequestOK, StampNamesRules, BaseNamesContent, Applied, Content, Votes
  <1>10. \A j \in DOMAIN requests' : RequestOK(requests[j])'
    <2>. SUFFICES ASSUME NEW j \in DOMAIN requests' PROVE RequestOK(requests[j])'
      OBVIOUS
    <2>1. PICK r : r = e(j) /\ r = requests'[j] /\ RequestOK(r)
      BY <1>2, <1>6
    <2>2. RequestOK(r)'
      BY <1>9, <2>1
    <2>. QED
      BY <2>1, <2>2
  <1>11. AInv'
    BY <1>7, <1>8, <1>10 DEF AInv
  <1>12. \A j \in DOMAIN requests :
            requests'[j] = requests[j] \/ requests'[j].state = "expired"
    BY <1>1, <1>2, <1>3
  <1>. QED
    BY <1>4, <1>11, <1>12

-----------------------------------------------------------------------------
(* Writes and administration *)

\* The environment is published: nothing pinned names the new revision.
LEMMA EnvironmentStep ==
    ASSUME AInv, TypeOK', UNCHANGED admins, revision' = revision + 1,
           DOMAIN requests' = DOMAIN requests,
           \A j \in DOMAIN requests : \E q : q = requests'[j] /\ Kept(requests[j], q)
    PROVE  AInv'
  <1>0. TypeOK /\ StampsPast /\ \A j \in DOMAIN requests : RequestOK(requests[j])
    BY DEF AInv
  <1>1. UNCHANGED <<policy, admin>>
    BY DEF admins
  <1>2. StampsPast'
    BY <1>0, <1>1 DEF StampsPast
  <1>3. ASSUME NEW j \in DOMAIN requests, NEW q, q = requests'[j], Kept(requests[j], q)
        PROVE  RequestOK(q)'
    <2>0. revision \in 0..MaxRevision
      BY <1>0 DEF TypeOK
    <2>1. RequestOK(requests[j]) /\ requests[j].digest.base \in Nat /\ revision \in Nat
      BY <1>0, <2>0, RequestType
    <2>2. StampNamesRules(q)'
      BY <1>1, <1>3, <2>1 DEF StampNamesRules, RequestOK, Kept
    <2>3. BaseNamesContent(q)'
      <3>1. q.digest.base <= revision /\ q.digest.base \in Nat
        BY <1>3, <2>1 DEF RequestOK, BaseNamesContent, Kept
      <3>. QED
        BY <2>1, <3>1 DEF BaseNamesContent
    <2>. QED
      BY <1>3, <2>2, <2>3 DEF RequestOK, Kept, Votes
  <1>4. \A j \in DOMAIN requests' : RequestOK(requests[j])'
    BY <1>3
  <1>. QED
    BY <1>2, <1>4 DEF AInv

LEMMA SelfKept ==
    ASSUME AInv
    PROVE  \A j \in DOMAIN requests : Kept(requests[j], requests[j])
  BY DEF AInv, RequestOK, Kept

\* A cell is written, and drafts may be consumed.
LEMMA WriteTyped ==
    ASSUME TypeOK, NEW k \in Key, NEW v \in Value, NEW why \in {"values", "copy", "declare"},
           Write(k, v, why), UNCHANGED <<admins, lastDraft, preview>>,
           draft' \in [Principal -> Draft \cup {None}],
           requests' \in Seq(Request), Len(requests') = Len(requests)
    PROVE  TypeOK' /\ revision' = revision + 1
           /\ cells' = [cells EXCEPT ![k] = [val |-> v, at |-> revision + 1]]
  <1>1. /\ revision < MaxRevision /\ revision' = revision + 1 /\ keys' = keys /\ trigger' = why
        /\ cells' = [cells EXCEPT ![k] = [val |-> v, at |-> revision + 1]]
    BY DEF Write, Republish
  <1>2. revision' \in 0..MaxRevision
    <2>1. revision \in 0..MaxRevision
      BY DEF TypeOK
    <2>2. MaxRevision \in Nat
      BY ApprovalsAssumption
    <2>. QED
      BY <1>1, <2>1, <2>2
  <1>3. [val |-> v, at |-> revision + 1] \in Cell
    BY <1>1, <1>2 DEF Cell
  <1>4. cells' \in [Key -> Cell]
    BY <1>1, <1>3 DEF TypeOK
  <1>. QED
    BY <1>1, <1>2, <1>4 DEF TypeOK, admins

\* The draft of p is committed; it may be what the request i pinned.
LEMMA MaterializeFacts ==
    ASSUME TypeOK, NEW p \in Principal, draft[p] # None, Materialize(p),
           requests' \in Seq(Request), Len(requests') = Len(requests)
    PROVE  /\ TypeOK' /\ revision' = revision + 1 /\ UNCHANGED admins
           /\ Content' = Applied(draft[p])
  <1>1. draft[p] \in Draft
    BY DEF TypeOK
  <1>2. PICK k \in Key, v \in Value : k = draft[p].key /\ v = draft[p].val
    BY <1>1 DEF Draft
  <1>3. /\ Write(k, v, "values") /\ draft' = [draft EXCEPT ![p] = None]
        /\ UNCHANGED <<admins, lastDraft, preview>>
    BY <1>2 DEF Materialize
  <1>4. draft' \in [Principal -> Draft \cup {None}]
    BY <1>3 DEF TypeOK
  <1>5. /\ TypeOK' /\ revision' = revision + 1
        /\ cells' = [cells EXCEPT ![k] = [val |-> v, at |-> revision + 1]]
    BY <1>3, <1>4, WriteTyped
  <1>6. Content' = Applied(draft[p])
    <2>1. cells \in [Key -> Cell]
      BY DEF TypeOK
    <2>2. \A j \in Key : cells'[j].val = IF j = k THEN v ELSE cells[j].val
      BY <1>5, <2>1
    <2>3. Content' = [j \in Key |-> IF j = k THEN v ELSE cells[j].val]
      BY <2>2 DEF Content
    <2>4. Applied(draft[p]) = [j \in Key |-> IF j = k THEN v ELSE cells[j].val]
      BY <1>2 DEF Applied, Content
    <2>. QED
      BY <2>3, <2>4
  <1>. QED
    BY <1>3, <1>5, <1>6

\* The quorum a merge counts is among the votes under the rules the request pinned.
LEMMA QuorumOfRules ==
    ASSUME TypeOK, NEW r \in Request, StampNamesRules(r), SamePolicy(r), Covered, Quorum(r)
    PROVE  Cardinality(Votes(r)) >= r.rules.min
  <1>1. policy[r.scope] # None /\ policy[r.scope].input = r.rules
    BY CoveringFacts DEF SamePolicy, StampNamesRules
  <1>2. Cardinality(Approvals(r, r.rules)) >= r.rules.min
    BY <1>1 DEF Quorum
  <1>3. Approvals(r, r.rules) \subseteq Votes(r)
    BY DEF Approvals, Votes
  <1>4. IsFiniteSet(Votes(r))
    BY ApprovalsAssumption, FS_Subset DEF Votes
  <1>5. /\ Cardinality(Approvals(r, r.rules)) <= Cardinality(Votes(r))
        /\ Cardinality(Approvals(r, r.rules)) \in Nat /\ Cardinality(Votes(r)) \in Nat
    BY <1>3, <1>4, FS_Subset, FS_CardinalityType
  <1>6. r.rules.min \in Nat
    BY ApprovalsAssumption DEF Request
  <1>. QED
    BY <1>2, <1>5, <1>6

\* Merge and bypass: the request is resolved and delivers what was reviewed.
LEMMA ResolveStep ==
    ASSUME AInv, NEW p \in Principal, NEW i \in DOMAIN requests,
           Merge(p, i) \/ Bypass(p, i)
    PROVE  /\ AInv' /\ Content' = requests[i].reviewed /\ Resolved(i)
           /\ \A j \in DOMAIN requests : j # i => requests'[j] = requests[j]
  <1>0. TypeOK /\ requests \in Seq(Request) /\ RequestOK(requests[i]) /\ requests[i] \in Request
    BY RequestType DEF AInv, TypeOK
  <1>1. PICK state \in {"merged", "bypassed"} :
          /\ requests' = [requests EXCEPT ![i].state = state]
          /\ state = "merged" => Quorum(requests[i])
    BY DEF Merge, Bypass
  <1>2. Passable(p, requests[i]) /\ Materialize(p)
    BY DEF Merge, Bypass
  <1>. DEFINE q == [requests[i] EXCEPT !.state = state]
  <1>3. /\ q \in Request /\ q.state = state /\ q.scope = requests[i].scope
        /\ q.stamp = requests[i].stamp /\ q.rules = requests[i].rules /\ q.by = requests[i].by
        /\ q.votes = requests[i].votes
        /\ q.digest = requests[i].digest /\ q.reviewed = requests[i].reviewed
    BY <1>0 DEF Request
  <1>4. Kept(requests[i], q)
    <2>1. Votes(q) = Votes(requests[i])
      BY <1>3 DEF Votes
    <2>2. state = "merged" => Cardinality(Votes(requests[i])) >= requests[i].rules.min
      BY <1>0, <1>1, <1>2, QuorumOfRules DEF RequestOK, Passable
    <2>. QED
      BY <1>3, <2>1, <2>2 DEF Kept
  <1>5. requests' = [requests EXCEPT ![i] = q]
    BY <1>0, <1>1
  <1>. HIDE DEF q
  <1>6. /\ requests' \in Seq(Request) /\ Len(requests') = Len(requests)
        /\ DOMAIN requests' = DOMAIN requests /\ requests'[i] = q
        /\ \A j \in DOMAIN requests : j # i => requests'[j] = requests[j]
    BY <1>0, <1>3, <1>5, Replaced
  <1>7. draft[p] # None /\ draft[p] = requests[i].digest.draft /\ revision = requests[i].digest.base
    BY <1>2 DEF Passable, Resolves, DigestOf, DigestFor
  <1>8. TypeOK' /\ revision' = revision + 1 /\ UNCHANGED admins /\ Content' = Applied(draft[p])
    BY <1>0, <1>2, <1>6, <1>7, MaterializeFacts
  <1>9. Content' = requests[i].reviewed
    BY <1>0, <1>7, <1>8 DEF RequestOK, BaseNamesContent
  <1>10. \A j \in DOMAIN requests : \E x : x = requests'[j] /\ Kept(requests[j], x)
    BY <1>4, <1>6, SelfKept
  <1>11. AInv'
    BY <1>6, <1>8, <1>10, EnvironmentStep
  <1>12. Resolved(i)
    BY <1>2, <1>3, <1>6 DEF Resolved, Passable
  <1>. QED
    BY <1>6, <1>9, <1>11, <1>12

\* The other writes, with the requests as they are.
LEMMA OtherWrites ==
    ASSUME AInv,
           \/ \E p \in Principal : ~Covered /\ draft[p] # None /\ Materialize(p) /\ UNCHANGED requests
           \/ \E k \in Key, v \in Value : OutOfBand(k, v) \/ Declare(k, v)
    PROVE  AInv' /\ UNCHANGED requests
  <1>0. TypeOK /\ requests \in Seq(Request)
    BY DEF AInv, TypeOK
  <1>1. TypeOK' /\ UNCHANGED admins /\ revision' = revision + 1 /\ UNCHANGED requests
    <2>1. ASSUME NEW p \in Principal, draft[p] # None, Materialize(p), UNCHANGED requests
          PROVE  TypeOK' /\ UNCHANGED admins /\ revision' = revision + 1 /\ UNCHANGED requests
      BY <1>0, <2>1, MaterializeFacts
    <2>2. ASSUME NEW k \in Key, NEW v \in Value, OutOfBand(k, v) \/ Declare(k, v)
          PROVE  TypeOK' /\ UNCHANGED admins /\ revision' = revision + 1 /\ UNCHANGED requests
      <3>1. PICK why \in {"copy", "declare"} :
              Write(k, v, why) /\ UNCHANGED <<admins, draft, lastDraft, preview, requests>>
        BY <2>2 DEF OutOfBand, Declare
      <3>2. draft' \in [Principal -> Draft \cup {None}]
        BY <1>0, <3>1 DEF TypeOK
      <3>. QED
        BY <1>0, <3>1, <3>2, WriteTyped
    <2>. QED
      BY <2>1, <2>2
  <1>2. \A j \in DOMAIN requests : \E q : q = requests'[j] /\ Kept(requests[j], q)
    BY <1>1, SelfKept
  <1>. QED
    BY <1>1, <1>2, EnvironmentStep

\* Schema changes and the deletion of a key publish the same content.
LEMMA SchemaSteps ==
    ASSUME AInv, SchemaChange \/ \E k \in Key : DeleteKey(k)
    PROVE  AInv' /\ UNCHANGED <<requests, cells>>
  <1>0. TypeOK /\ revision \in 0..MaxRevision
    BY DEF AInv, TypeOK
  <1>1. /\ revision < MaxRevision /\ revision' = revision + 1 /\ trigger' = "schema"
        /\ UNCHANGED <<admins, cells, lastDraft, preview, requests>>
    BY DEF SchemaChange, DeleteKey, Republish
  <1>2. keys' \subseteq Key /\ draft' \in [Principal -> Draft \cup {None}]
    <2>1. CASE SchemaChange
      BY <1>0, <2>1 DEF SchemaChange, TypeOK
    <2>2. ASSUME NEW k \in Key, DeleteKey(k)
          PROVE  keys' \subseteq Key /\ draft' \in [Principal -> Draft \cup {None}]
      BY <1>0, <2>2 DEF DeleteKey, DropKeys, TypeOK
    <2>. QED
      BY <2>1, <2>2
  <1>3. revision' \in 0..MaxRevision
    BY <1>0, <1>1, ApprovalsAssumption
  <1>4. TypeOK'
    BY <1>0, <1>1, <1>2, <1>3 DEF TypeOK, admins
  <1>5. \A j \in DOMAIN requests : \E q : q = requests'[j] /\ Kept(requests[j], q)
    BY <1>1, SelfKept
  <1>. QED
    BY <1>1, <1>4, <1>5, EnvironmentStep

\* An apply that deletes keys clears their values and no other.
LEMMA ApplyStep ==
    ASSUME AInv, NEW ks \in SUBSET Key, ApplyDelete(ks)
    PROVE  AInv' /\ UNCHANGED requests /\ Exempt
  <1>0. TypeOK /\ revision \in 0..MaxRevision /\ cells \in [Key -> Cell]
    BY DEF AInv, TypeOK
  <1>1. /\ revision < MaxRevision /\ revision' = revision + 1 /\ trigger' = "definitions-apply"
        /\ UNCHANGED <<admins, lastDraft, preview, requests>>
        /\ ks \subseteq keys /\ keys' = keys \ ks
        /\ cells' = [k \in Key |-> IF k \in ks THEN [cells[k] EXCEPT !.val = NoValue] ELSE cells[k]]
    BY DEF ApplyDelete, DropKeys, Republish
  <1>2. keys' \subseteq Key /\ draft' \in [Principal -> Draft \cup {None}]
    BY <1>0 DEF ApplyDelete, DropKeys, TypeOK
  <1>3. revision' \in 0..MaxRevision
    BY <1>0, <1>1, ApprovalsAssumption
  <1>4. \A k \in Key : /\ [cells[k] EXCEPT !.val = NoValue] \in Cell
                       /\ [cells[k] EXCEPT !.val = NoValue].val = NoValue
    BY <1>0 DEF Cell
  <1>5. cells' \in [Key -> Cell]
    BY <1>0, <1>1, <1>4
  <1>6. TypeOK'
    BY <1>0, <1>1, <1>2, <1>3, <1>5 DEF TypeOK, admins
  <1>7. \A j \in DOMAIN requests : \E q : q = requests'[j] /\ Kept(requests[j], q)
    BY <1>1, SelfKept
  <1>8. AInv'
    BY <1>1, <1>6, <1>7, EnvironmentStep
  <1>9. ASSUME NEW k \in Key, Content'[k] # Content[k]
        PROVE  k \in keys \ keys' /\ Content'[k] = NoValue
    <2>1. Content[k] = cells[k].val /\ Content'[k] = cells'[k].val
      BY <1>9 DEF Content
    <2>2. k \in ks
      BY <1>1, <1>9, <2>1
    <2>. QED
      BY <1>1, <1>4, <2>1, <2>2
  <1>. QED
    BY <1>1, <1>8, <1>9 DEF Exempt

\* A step that leaves requests, revision and content alone; a policy that is written gets
\* a stamp no request has.
LEMMA SettledStep ==
    ASSUME AInv, TypeOK', UNCHANGED <<requests, revision, cells>>,
           admin' = admin \/ admin' = admin + 1,
           \A s \in Scope : policy'[s] # None =>
             (policy'[s] = policy[s] \/ (policy'[s].stamp = admin + 1 /\ admin' = admin + 1))
    PROVE  AInv'
  <1>0. TypeOK /\ StampsPast /\ \A j \in DOMAIN requests : RequestOK(requests[j])
    BY DEF AInv
  <1>1. admin \in 0..MaxAdmin
    BY <1>0 DEF TypeOK
  <1>2. StampsPast'
    <2>1. \A s \in Scope : policy[s] # None => policy[s].stamp \in Nat /\ policy[s].stamp <= admin
      BY <1>0, CoveringFacts DEF StampsPast
    <2>. QED
      BY <1>1, <2>1 DEF StampsPast
  <1>3. ASSUME NEW j \in DOMAIN requests, NEW r, r = requests[j] PROVE RequestOK(r)'
    <2>1. RequestOK(r) /\ r.stamp \in Nat /\ r.scope \in Scope
      BY <1>0, <1>3, RequestType
    <2>2. StampNamesRules(r)'
      BY <1>1, <2>1 DEF RequestOK, StampNamesRules
    <2>. QED
      BY <2>1, <2>2 DEF RequestOK, BaseNamesContent, Applied, Content, Votes
  <1>4. \A j \in DOMAIN requests' : RequestOK(requests[j])'
    BY <1>3
  <1>. QED
    BY <1>2, <1>4 DEF AInv

LEMMA AdminSteps ==
    ASSUME AInv,
           \/ \E s \in Scope : DeletePolicy(s) \/ \E input \in PolicyInput : WritePolicy(s, input)
           \/ \E p \in Principal : ChangeGrant(p) \/ ChangeMember(p)
           \/ ChangeProtection
    PROVE  AInv' /\ UNCHANGED <<requests, cells>>
  <1>0. TypeOK /\ admin \in 0..MaxAdmin
    BY DEF AInv, TypeOK
  <1>1. /\ admin < MaxAdmin /\ admin' = admin + 1
        /\ UNCHANGED <<contents, draft, lastDraft, preview, requests>>
    BY DEF DeletePolicy, WritePolicy, ChangeGrant, ChangeMember, ChangeProtection, Administer
  <1>2. UNCHANGED <<keys, cells, revision, trigger>>
    BY <1>1 DEF contents
  <1>3. admin' \in 0..MaxAdmin /\ admin + 1 \in Nat
    BY <1>0, <1>1, ApprovalsAssumption
  <1>4. /\ policy' \in [Scope -> [stamp : Nat, input : PolicyInput] \cup {None}]
        /\ \A s \in Scope : policy'[s] # None =>
             (policy'[s] = policy[s] \/ policy'[s].stamp = admin + 1)
    <2>1. ASSUME NEW s \in Scope, DeletePolicy(s) PROVE <1>4!:
      BY <1>0, <2>1 DEF DeletePolicy, TypeOK
    <2>2. ASSUME NEW s \in Scope, NEW input \in PolicyInput, WritePolicy(s, input) PROVE <1>4!:
      <3>. DEFINE q == [stamp |-> admin + 1, input |-> input]
      <3>1. q \in [stamp : Nat, input : PolicyInput] /\ q.stamp = admin + 1
        BY <1>3
      <3>. HIDE DEF q
      <3>2. policy' = [policy EXCEPT ![s] = q]
        BY <2>2 DEF WritePolicy, q
      <3>. QED
        BY <1>0, <3>1, <3>2 DEF TypeOK
    <2>3. CASE UNCHANGED policy
      BY <1>0, <2>3 DEF TypeOK
    <2>. QED
      BY <2>1, <2>2, <2>3 DEF ChangeGrant, ChangeMember, ChangeProtection
  <1>5. /\ publishers' \subseteq Principal /\ members' \subseteq Principal
        /\ generation' \in [Principal -> Nat] /\ protected' \in BOOLEAN
    <2>1. ASSUME NEW p \in Principal, ChangeGrant(p)
          PROVE  publishers' \subseteq Principal /\ UNCHANGED <<members, protected>>
      BY <1>0, <2>1 DEF ChangeGrant, TypeOK
    <2>2. ASSUME NEW p \in Principal, ChangeGrant(p) PROVE generation' \in [Principal -> Nat]
      BY <1>0, <1>3, <2>2 DEF ChangeGrant, TypeOK
    <2>3. ASSUME NEW p \in Principal, ChangeMember(p)
          PROVE  members' \subseteq Principal /\ UNCHANGED <<publishers, generation, protected>>
      BY <1>0, <2>3 DEF ChangeMember, TypeOK
    <2>4. CASE ChangeProtection
      BY <1>0, <2>4 DEF ChangeProtection, TypeOK
    <2>5. ASSUME NEW s \in Scope, NEW input, DeletePolicy(s) \/ WritePolicy(s, input)
          PROVE  UNCHANGED <<publishers, generation, members, protected>>
      BY <2>5 DEF DeletePolicy, WritePolicy
    <2>. QED
      BY <1>0, <2>1, <2>2, <2>3, <2>4, <2>5 DEF TypeOK
  <1>6. TypeOK'
    BY <1>0, <1>1, <1>2, <1>3, <1>4, <1>5 DEF TypeOK
  <1>. QED
    BY <1>1, <1>2, <1>4, <1>6, SettledStep

LEMMA StageStep ==
    ASSUME AInv, NEW p \in Principal, NEW k \in Key, NEW v \in Value, NEW src \in Source[p],
           Stage(p, k, v, src)
    PROVE  AInv' /\ UNCHANGED <<requests, cells>>
  <1>0. /\ TypeOK /\ lastDraft \in 0..MaxDraft /\ cells[k] \in Cell
        /\ revision \in 0..MaxRevision /\ generation[p] \in Nat /\ protected \in BOOLEAN
    BY DEF AInv, TypeOK
  <1>1. src \in {"value", "restore"}
    BY ApprovalsAssumption
  <1>. DEFINE d == [id |-> lastDraft + 1, key |-> k, val |-> v, from |-> cells[k].at,
                    source |-> src]
  <1>2. d \in Draft
    BY <1>0, <1>1 DEF Draft, Cell
  <1>. HIDE DEF d
  <1>3. DigestFor(p, d) \in Digest
    BY <1>0, <1>2 DEF DigestFor, Digest
  <1>4. /\ lastDraft < MaxDraft /\ lastDraft' = lastDraft + 1
        /\ draft' = [draft EXCEPT ![p] = d]
        /\ preview' = IF src = "restore" THEN [preview EXCEPT ![p] = DigestFor(p, d)] ELSE preview
        /\ UNCHANGED <<admins, contents, requests>>
    BY DEF Stage, d
  <1>5. lastDraft' \in 0..MaxDraft
    BY <1>0, <1>4, ApprovalsAssumption
  <1>6. draft' \in [Principal -> Draft \cup {None}] /\ preview' \in [Principal -> Digest \cup {None}]
    BY <1>0, <1>2, <1>3, <1>4 DEF TypeOK
  <1>7. UNCHANGED <<policy, publishers, generation, members, protected, admin, keys, cells,
                    revision, trigger>>
    BY <1>4 DEF admins, contents
  <1>8. TypeOK'
    BY <1>0, <1>4, <1>5, <1>6, <1>7 DEF TypeOK
  <1>. QED
    BY <1>4, <1>7, <1>8, SettledStep

\* A publish that a policy covers pins what its owner's draft would give.
LEMMA ProposeStep ==
    ASSUME AInv, NEW p \in Principal, Covered, draft[p] # None, Len(requests) < MaxRequest,
           requests' = Append(requests, NewRequest(p)),
           UNCHANGED <<admins, contents, draft, lastDraft, preview>>
    PROVE  AInv' /\ UNCHANGED cells /\ \A j \in DOMAIN requests : requests'[j] = requests[j]
  <1>0. /\ TypeOK /\ StampsPast /\ \A j \in DOMAIN requests : RequestOK(requests[j])
        /\ requests \in Seq(Request)
    BY DEF AInv, TypeOK
  <1>1. /\ draft[p] \in Draft /\ revision \in 0..MaxRevision /\ generation[p] \in Nat
        /\ protected \in BOOLEAN /\ cells \in [Key -> Cell]
    BY <1>0 DEF TypeOK
  <1>2. /\ Covering \in Scope /\ policy[Covering] # None /\ policy[Covering].stamp \in Nat
        /\ policy[Covering].input \in PolicyInput /\ policy[Covering].stamp <= admin
    BY <1>0, CoveringFacts DEF StampsPast
  <1>3. PICK g \in Digest : g = DigestOf(p) /\ g.base = revision /\ g.draft = draft[p]
    <2>1. DigestOf(p) \in Digest
      BY <1>1 DEF DigestOf, DigestFor, Digest
    <2>2. DigestOf(p).base = revision /\ DigestOf(p).draft = draft[p]
      BY DEF DigestOf, DigestFor
    <2>. QED
      BY <2>1, <2>2
  <1>4. PICK c \in [Key -> Value \cup {NoValue}] : c = Applied(draft[p])
    BY <1>1 DEF Applied, Content, Cell, Draft
  <1>5. PICK r \in Request : /\ r = NewRequest(p) /\ r.scope = Covering /\ r.state = "open"
          /\ r.stamp = policy[Covering].stamp /\ r.rules = policy[Covering].input
          /\ r.digest = g /\ r.reviewed = c
    <2>. DEFINE r == NewRequest(p)
               votes == [q \in Principal |-> "none"]
    <2>1. votes \in [Principal -> {"none", "approve", "reject"}]
      OBVIOUS
    <2>. HIDE DEF votes
    <2>2. r = [state |-> "open", cause |-> "", by |-> p, scope |-> Covering,
               stamp |-> policy[Covering].stamp, rules |-> policy[Covering].input,
               digest |-> g, past |-> FALSE, votes |-> votes, reviewed |-> c]
      BY <1>3, <1>4 DEF NewRequest, votes
    <2>. HIDE DEF r
    <2>3. r \in Request
      BY <1>2, <1>3, <1>4, <2>1, <2>2 DEF Request
    <2>4. /\ r.scope = Covering /\ r.state = "open" /\ r.digest = g /\ r.reviewed = c
          /\ r.stamp = policy[Covering].stamp /\ r.rules = policy[Covering].input
      BY <2>2
    <2>5. r = NewRequest(p)
      BY DEF r
    <2>. QED
      BY <2>3, <2>4, <2>5
  <1>6. RequestOK(r)
    BY <1>1, <1>2, <1>3, <1>4, <1>5 DEF RequestOK, StampNamesRules, BaseNamesContent
  <1>7. UNCHANGED <<policy, publishers, generation, members, protected, admin, keys, cells,
                    revision, trigger, draft, lastDraft, preview>>
    BY DEF admins, contents
  <1>8. /\ requests' \in Seq(Request) /\ Len(requests') = Len(requests) + 1
        /\ \A j \in DOMAIN requests' :
             (j \in DOMAIN requests /\ requests'[j] = requests[j]) \/ requests'[j] = r
        /\ \A j \in DOMAIN requests : requests'[j] = requests[j]
    BY <1>0, <1>5
  <1>9. Len(requests') <= MaxRequest
    BY <1>0, <1>8, ApprovalsAssumption
  <1>10. TypeOK'
    BY <1>0, <1>7, <1>8, <1>9 DEF TypeOK
  <1>11. StampsPast'
    BY <1>0, <1>7 DEF StampsPast
  <1>12. ASSUME NEW q, RequestOK(q) PROVE RequestOK(q)'
    BY <1>7, <1>12 DEF RequestOK, StampNamesRules, BaseNamesContent, Applied, Content, Votes
  <1>13. \A j \in DOMAIN requests' : RequestOK(requests[j])'
    BY <1>0, <1>6, <1>8, <1>12
  <1>. QED
    BY <1>7, <1>8, <1>10, <1>11, <1>13 DEF AInv

-----------------------------------------------------------------------------
(* The invariant *)

LEMMA InitAInv == Init => AInv
  <1>. SUFFICES ASSUME Init PROVE AInv
    OBVIOUS
  <1>1. /\ policy \in [Scope -> [stamp : {0}, input : PolicyInput] \cup {None}]
        /\ publishers = Principal /\ members = {}
        /\ generation = [p \in Principal |-> 0]
        /\ protected = FALSE /\ admin = 0 /\ keys = Key
        /\ cells = [k \in Key |-> [val |-> NoValue, at |-> 0]]
        /\ revision = 0 /\ trigger = "" /\ lastDraft = 0 /\ requests = <<>>
        /\ draft = [p \in Principal |-> None] /\ preview = [p \in Principal |-> None]
    BY DEF Init
  <1>2. policy \in [Scope -> [stamp : Nat, input : PolicyInput] \cup {None}]
    <2>1. [stamp : {0}, input : PolicyInput] \subseteq [stamp : Nat, input : PolicyInput]
      OBVIOUS
    <2>. QED
      BY <1>1, <2>1
  <1>3. cells \in [Key -> Cell]
    BY <1>1 DEF Cell
  <1>4. requests \in Seq(Request) /\ Len(requests) = 0 /\ DOMAIN requests = {}
    <2>1. requests = <<>>
      BY <1>1
    <2>2. DOMAIN requests = 1..Len(requests)
      BY <2>1
    <2>. QED
      BY <2>1, <2>2
  <1>5. TypeOK
    <2>1. 0 \in 0..MaxAdmin /\ 0 \in 0..MaxRevision /\ 0 \in 0..MaxDraft /\ 0 <= MaxRequest
      BY ApprovalsAssumption
    <2>2. /\ publishers \subseteq Principal /\ members \subseteq Principal
          /\ protected \in BOOLEAN /\ keys \subseteq Key
          /\ trigger \in {"", "values", "copy", "declare", "schema", "definitions-apply"}
      BY <1>1
    <2>3. /\ generation \in [Principal -> Nat] /\ draft \in [Principal -> Draft \cup {None}]
          /\ preview \in [Principal -> Digest \cup {None}]
      BY <1>1
    <2>. QED
      BY <1>1, <1>2, <1>3, <1>4, <2>1, <2>2, <2>3 DEF TypeOK
  <1>6. StampsPast
    <2>. SUFFICES ASSUME NEW s \in Scope, policy[s] # None PROVE policy[s].stamp <= admin
      BY DEF StampsPast
    <2>1. policy[s] \in [stamp : {0}, input : PolicyInput]
      BY <1>1
    <2>2. policy[s].stamp = 0 /\ admin = 0
      BY <1>1, <2>1
    <2>. QED
      BY <2>2
  <1>. QED
    BY <1>4, <1>5, <1>6 DEF AInv

\* What a step does to the invariant, to the requests and to the content.
LEMMA NextFacts ==
    ASSUME AInv, [Next]_vars
    PROVE  /\ AInv'
           /\ \A i \in DOMAIN requests : Resolved(i) => Content' = requests[i].reviewed
           /\ Covered /\ Content' # Content =>
                ((\E i \in DOMAIN requests : Resolved(i)) \/ Exempt)
  <1>. DEFINE Facts ==
           /\ AInv'
           /\ \A i \in DOMAIN requests : Resolved(i) => Content' = requests[i].reviewed
           /\ Covered /\ Content' # Content =>
                ((\E i \in DOMAIN requests : Resolved(i)) \/ Exempt)
  <1>. SUFFICES Facts
    OBVIOUS
  <1>1. ASSUME AInv', UNCHANGED cells,
               \A j \in DOMAIN requests :
                 requests'[j] = requests[j] \/ requests'[j].state \notin {"merged", "bypassed"}
        PROVE  Facts
    <2>1. Content' = Content
      BY <1>1 DEF Content
    <2>2. ASSUME NEW i \in DOMAIN requests PROVE ~Resolved(i)
      BY <1>1, <2>2 DEF Resolved, Active
    <2>. QED
      BY <1>1, <2>1, <2>2
  <1>2. ASSUME AInv', UNCHANGED requests, ~Covered \/ Exempt
        PROVE  Facts
    <2>1. ASSUME NEW i \in DOMAIN requests PROVE ~Resolved(i)
      BY <1>2, <2>1 DEF Resolved, Active
    <2>. QED
      BY <1>2, <2>1
  <1>3. CASE UNCHANGED vars
    <2>1. TypeOK'
      BY <1>3 DEF vars, TypeOK, AInv
    <2>2. AInv'
      BY <1>3, <2>1, SettledStep DEF vars
    <2>. QED
      BY <1>1, <1>3, <2>2 DEF vars
  <1>4. CASE \/ \E s \in Scope : DeletePolicy(s) \/ \E input \in PolicyInput : WritePolicy(s, input)
             \/ \E p \in Principal : ChangeGrant(p) \/ ChangeMember(p)
             \/ ChangeProtection
    BY <1>1, <1>4, AdminSteps
  <1>5. ASSUME NEW p \in Principal, NEW k \in Key, NEW v \in Value, NEW src \in Source[p],
               Stage(p, k, v, src)
        PROVE  Facts
    BY <1>1, <1>5, StageStep
  <1>6. ASSUME NEW p \in Principal, Publish(p) PROVE Facts
    <2>1. CASE Covered
      <3>1. /\ draft[p] # None /\ Len(requests) < MaxRequest
            /\ requests' = Append(requests, NewRequest(p))
            /\ UNCHANGED <<admins, contents, draft, lastDraft, preview>>
        BY <1>6, <2>1 DEF Publish
      <3>. QED
        BY <1>1, <2>1, <3>1, ProposeStep
    <2>2. CASE ~Covered
      <3>1. draft[p] # None /\ Materialize(p) /\ UNCHANGED requests
        BY <1>6, <2>2 DEF Publish
      <3>. QED
        BY <1>2, <2>2, <3>1, OtherWrites
    <2>. QED
      BY <2>1, <2>2
  <1>7. CASE SchemaChange \/ \E k \in Key : DeleteKey(k)
    BY <1>1, <1>7, SchemaSteps
  <1>a. ASSUME NEW ks \in SUBSET Key, ApplyDelete(ks) PROVE Facts
    BY <1>2, <1>a, ApplyStep
  <1>8. ASSUME NEW k \in Key, NEW v \in Value, OutOfBand(k, v) \/ Declare(k, v)
        PROVE  Facts
    <2>1. ~Covered \/ Exempt
      BY <1>8 DEF OutOfBand, Declare, Write, Republish, Exempt
    <2>2. AInv' /\ UNCHANGED requests
      BY <1>8, OtherWrites
    <2>. QED
      BY <1>2, <2>1, <2>2
  <1>9. ASSUME NEW p \in Principal, NEW i \in DOMAIN requests,
               FindsStale(p, i) \/ MergeWithoutQuorum(p, i) \/ VoteFindsStale(p, i)
        PROVE  Facts
    <2>1. /\ AInv' /\ requests'[i].state = "invalidated" /\ UNCHANGED cells
          /\ \A j \in DOMAIN requests : j # i => requests'[j] = requests[j]
      BY <1>9, StaleSteps
    <2>. QED
      BY <1>1, <2>1
  <1>10. ASSUME NEW p \in Principal, NEW i \in DOMAIN requests, Merge(p, i) \/ Bypass(p, i)
         PROVE  Facts
    <2>1. /\ AInv' /\ Content' = requests[i].reviewed /\ Resolved(i)
          /\ \A j \in DOMAIN requests : j # i => requests'[j] = requests[j]
      BY <1>10, ResolveStep
    <2>2. ASSUME NEW j \in DOMAIN requests, j # i PROVE ~Resolved(j)
      BY <2>1, <2>2 DEF Resolved, Active
    <2>. QED
      BY <2>1, <2>2
  <1>11. ASSUME NEW p \in Principal, NEW i \in DOMAIN requests, MergeUngoverned(p, i)
         PROVE  Facts
    <2>1. ~Covered /\ draft[p] # None /\ Materialize(p) /\ UNCHANGED requests
      BY <1>11 DEF MergeUngoverned, Resolves
    <2>. QED
      BY <1>2, <2>1, OtherWrites
  <1>12. ASSUME NEW p \in Principal, NEW i \in DOMAIN requests,
                NEW decision \in {"approve", "reject"}, Vote(p, i, decision)
         PROVE  Facts
    <2>1. /\ AInv' /\ requests'[i].state \in {"open", "approved", "rejected"} /\ UNCHANGED cells
          /\ \A j \in DOMAIN requests : j # i => requests'[j] = requests[j]
      BY <1>12, VoteStep
    <2>. QED
      BY <1>1, <2>1
  <1>13. ASSUME NEW i \in DOMAIN requests, PassExpiry(i) PROVE Facts
    <2>1. /\ AInv' /\ requests'[i].state \in {"open", "approved"} /\ UNCHANGED cells
          /\ \A j \in DOMAIN requests : j # i => requests'[j] = requests[j]
      BY <1>13, PassExpiryStep
    <2>. QED
      BY <1>1, <2>1
  <1>14. CASE ExpireDue
    BY <1>1, <1>14, ExpireDueStep
  <1>. HIDE DEF Facts
  <1>15. CASE \E p \in Principal, i \in DOMAIN requests :
                 \/ FindsStale(p, i) \/ Merge(p, i) \/ MergeWithoutQuorum(p, i)
                 \/ Bypass(p, i) \/ MergeUngoverned(p, i) \/ VoteFindsStale(p, i)
                 \/ \E decision \in {"approve", "reject"} : Vote(p, i, decision)
    BY <1>9, <1>10, <1>11, <1>12, <1>15
  <1>. QED
    BY <1>3, <1>4, <1>5, <1>6, <1>7, <1>a, <1>8, <1>13, <1>14, <1>15 DEF Next

\* Requests keep naming the rules and the content they pinned, and a merged one its votes,
\* whatever policies, grants, drafts and environments do in between.
THEOREM ApprovalsInvariant == Spec => []AInv
  <1>1. Init => AInv
    BY InitAInv
  <1>2. AInv /\ [Next]_vars => AInv'
    BY NextFacts
  <1>. QED
    BY <1>1, <1>2, PTL DEF Spec

\* MergedWithQuorum, for every set of principals and every policy: mergeGate's count under the
\* policy of the request's stamp is a count under the rules the request was reviewed with.
THEOREM MergesHaveQuorum == Spec => []MergedWithQuorum
  <1>1. AInv => MergedWithQuorum
    BY DEF AInv, RequestOK, Votes, MergedWithQuorum
  <1>. QED
    BY <1>1, ApprovalsInvariant, PTL

\* MergedAsReviewed: mergeGate and bypassGate let through only the content that reviewers saw.
THEOREM MergesAsReviewed == Spec => MergedAsReviewed
  <1>1. AInv /\ [Next]_vars =>
          \A i \in DOMAIN requests : Resolved(i) => Content' = requests[i].reviewed
    BY NextFacts
  <1>. QED
    BY <1>1, ApprovalsInvariant, PTL DEF Spec, MergedAsReviewed

\* GateHolds: under a covering policy content changes in PublishPlanned, with a request, by a
\* Declare, or by a definitions apply that deletes the changed keys, and in no other way.
THEOREM GateStaysShut == Spec => GateHolds
  <1>1. AInv /\ [Next]_vars =>
          (Covered /\ Content' # Content =>
            ((\E i \in DOMAIN requests : Resolved(i)) \/ Exempt))
    BY NextFacts
  <1>. QED
    BY <1>1, ApprovalsInvariant, PTL DEF Spec, GateHolds
=============================================================================
