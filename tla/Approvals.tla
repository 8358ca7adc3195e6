----------------------------- MODULE Approvals -----------------------------
(***************************************************************************)
(* Secret-change approvals (internal/service/approvals.go) and the publish *)
(* they gate (publish.go, PublishPlanned), for one environment.  Where an  *)
(* enabled policy covers the environment, a publish of drafts stages a     *)
(* request that pins the exact change set by its digest; approvers vote,   *)
(* the proposer merges, or a named bypasser commits without a quorum.      *)
(*                                                                         *)
(* Every operation is one serializable transaction, so it is one action.   *)
(* An owner has one draft at a time: key-group closure is the business of  *)
(* module Revisions, and widens a selection without changing what is       *)
(* pinned.  A policy write gets a stamp that stands for (id, version), and *)
(* a principal's generation is the stamp of its latest grant change.       *)
(* Ceremonies and rate limits only refuse.                                 *)
(***************************************************************************)
EXTENDS Naturals, Sequences, FiniteSets

CONSTANTS Principal, Key, Value,
          NoValue,      \* an unset cell
          None,         \* no policy, draft or preview
          PolicyInput,  \* the policies an administrator may write
          Source,       \* where each principal's drafts come from: "value", "restore"
          MaxAdmin,     \* bound on policy, grant, group and protection changes
          MaxDraft,     \* bound on staged drafts
          MaxRequest,   \* bound on requests
          MaxRevision   \* bound on published revisions

Scope == {"env", "project"}

ASSUME ApprovalsAssumption ==
    /\ IsFiniteSet(Principal)
    /\ \A i \in PolicyInput :
        /\ i.min \in Nat \ {0} /\ i.self \in BOOLEAN /\ i.enabled \in BOOLEAN
        /\ i.approvers \subseteq Principal /\ i.group \in BOOLEAN
        /\ i.bypassers \subseteq Principal
    /\ Source \in [Principal -> SUBSET {"value", "restore"}]
    /\ {MaxAdmin, MaxDraft, MaxRequest, MaxRevision} \subseteq Nat
    /\ NoValue \notin Value /\ None \notin PolicyInput

VARIABLES policy,      \* the policy of each scope
          publishers,  \* principals holding publish on the environment
          generation,  \* each principal's authorization generation
          members,     \* the members of the approvers' SCIM group
          protected,   \* the environment's protection setting
          admin,       \* stamp of the latest administrative change
          keys,        \* the keys the schema declares
          cells,       \* published cells: value and the revision that wrote it
          revision,    \* the environment's revision
          trigger,     \* what recordPublish says the latest revision came from
          draft,       \* each principal's draft
          lastDraft,   \* version ids of drafts minted so far
          preview,     \* the impact preview of each principal's latest restore
          requests     \* the approval requests, in order of creation

vars == <<policy, publishers, generation, members, protected, admin,
          keys, cells, revision, trigger, draft, lastDraft, preview, requests>>
admins == <<policy, publishers, generation, members, protected, admin>>
contents == <<keys, cells, revision, trigger>>

Cell == [val : Value \cup {NoValue}, at : Nat]
Draft == [id : Nat, key : Key, val : Value, from : Nat, source : {"value", "restore"}]
Digest == [generation : Nat, base : Nat, protected : BOOLEAN, draft : Draft]
Request == [state : {"open", "approved", "rejected", "merged", "bypassed",
                     "invalidated", "expired"},
            cause : {"", "policy_changed", "draft_edited", "env_advanced",
                     "approver_removed"},
            by : Principal, scope : Scope, stamp : Nat, rules : PolicyInput,
            digest : Digest, past : BOOLEAN,
            votes : [Principal -> {"none", "approve", "reject"}],
            reviewed : [Key -> Value \cup {NoValue}]]

\* TypeOK: the shape of policies, cells, drafts and requests.
TypeOK ==
    /\ policy \in [Scope -> [stamp : Nat, input : PolicyInput] \cup {None}]
    /\ publishers \subseteq Principal /\ members \subseteq Principal
    /\ generation \in [Principal -> Nat]
    /\ protected \in BOOLEAN /\ admin \in 0..MaxAdmin
    /\ keys \subseteq Key
    /\ cells \in [Key -> Cell] /\ revision \in 0..MaxRevision
    /\ trigger \in {"", "values", "copy", "declare", "schema", "definitions-apply"}
    /\ draft \in [Principal -> Draft \cup {None}] /\ lastDraft \in 0..MaxDraft
    /\ preview \in [Principal -> Digest \cup {None}]
    /\ requests \in Seq(Request) /\ Len(requests) <= MaxRequest

\* A policy may have been written before the first draft.
Init ==
    /\ policy \in [Scope -> [stamp : {0}, input : PolicyInput] \cup {None}]
    /\ \E s \in Scope : policy[s] = None
    /\ publishers = Principal /\ members = {}
    /\ generation = [p \in Principal |-> 0]
    /\ protected = FALSE /\ admin = 0
    /\ keys = Key
    /\ cells = [k \in Key |-> [val |-> NoValue, at |-> 0]]
    /\ revision = 0 /\ trigger = ""
    /\ draft = [p \in Principal |-> None] /\ lastDraft = 0
    /\ preview = [p \in Principal |-> None]
    /\ requests = <<>>

-----------------------------------------------------------------------------
(* Helpers *)

Active(r) == r.state \in {"open", "approved"}
Enabled(s) == policy[s] # None /\ policy[s].input.enabled

\* CoveringPolicy: the environment's own policy before the project's.
Covered == \E s \in Scope : Enabled(s)
Covering == IF Enabled("env") THEN "env" ELSE "project"

Content == [k \in Key |-> cells[k].val]
Applied(d) == [Content EXCEPT ![d.key] = d.val]

\* Mutant: the digest does not name the revision it was computed on.
DigestWithoutBase(p, d) ==
    [generation |-> generation[p], base |-> 0, protected |-> protected, draft |-> d]

\* publishPreviewToken.  A schema change moves the revision of every
\* environment, so base stands for the schema revision too.
DigestFor(p, d) ==
    [generation |-> generation[p], base |-> revision, protected |-> protected, draft |-> d]

DigestOf(p) == DigestFor(p, draft[p])

\* approverEligible
Eligible(p, input) == p \in input.approvers \/ (input.group /\ p \in members)

\* countEligibleApprovals
Approvals(r, input) ==
    {p \in Principal : /\ r.votes[p] = "approve"
                       /\ p # r.by \/ input.self
                       /\ Eligible(p, input) /\ p \in publishers}

\* driftCause
DriftCause(r) == IF revision # r.digest.base THEN "env_advanced" ELSE "draft_edited"

\* commitInvalidation: committed although the operation refuses.
Invalidate(i, cause) ==
    /\ requests' = [requests EXCEPT ![i].state = "invalidated", ![i].cause = cause]
    /\ UNCHANGED <<admins, contents, draft, lastDraft, preview>>

\* The environment is materialized and the publish recorded with its trigger.
Republish(why) ==
    /\ revision < MaxRevision
    /\ revision' = revision + 1
    /\ trigger' = why

\* One cell is written on the way.
Write(k, v, why) ==
    /\ k \in keys
    /\ Republish(why)
    /\ UNCHANGED keys
    /\ cells' = [cells EXCEPT ![k] = [val |-> v, at |-> revision + 1]]

\* materialize with checkFreshness: the draft is committed and consumed.
Materialize(p) ==
    /\ draft[p].from = cells[draft[p].key].at
    /\ Write(draft[p].key, draft[p].val, "values")
    /\ draft' = [draft EXCEPT ![p] = None]
    /\ UNCHANGED <<admins, lastDraft, preview>>

-----------------------------------------------------------------------------
(* Administration *)

Administer == admin < MaxAdmin /\ admin' = admin + 1

\* CreatePolicy and UpdatePolicy: a new id or a new version.
WritePolicy(s, input) ==
    /\ Administer
    /\ policy' = [policy EXCEPT ![s] = [stamp |-> admin + 1, input |-> input]]
    /\ UNCHANGED <<publishers, generation, members, protected, contents, draft,
                   lastDraft, preview, requests>>

DeletePolicy(s) ==
    /\ policy[s] # None
    /\ Administer
    /\ policy' = [policy EXCEPT ![s] = None]
    /\ UNCHANGED <<publishers, generation, members, protected, contents, draft,
                   lastDraft, preview, requests>>

\* Publish is granted to or revoked from a principal.
ChangeGrant(p) ==
    /\ Administer
    /\ publishers' = IF p \in publishers THEN publishers \ {p} ELSE publishers \cup {p}
    /\ generation' = [generation EXCEPT ![p] = admin + 1]
    /\ UNCHANGED <<policy, members, protected, contents, draft, lastDraft,
                   preview, requests>>

\* SCIM adds a member to the approvers' group or removes it.
ChangeMember(p) ==
    /\ Administer
    /\ members' = IF p \in members THEN members \ {p} ELSE members \cup {p}
    /\ UNCHANGED <<policy, publishers, generation, protected, contents, draft,
                   lastDraft, preview, requests>>

ChangeProtection ==
    /\ Administer
    /\ protected' = ~protected
    /\ UNCHANGED <<policy, publishers, generation, members, contents, draft,
                   lastDraft, preview, requests>>

-----------------------------------------------------------------------------
(* Drafts and writes around them *)

\* Set or Restore: a new version id supersedes the owner's draft.  A restore
\* shows its impact and hands out the token of that preview.
Stage(p, k, v, src) ==
    LET d == [id |-> lastDraft + 1, key |-> k, val |-> v, from |-> cells[k].at,
              source |-> src]
    IN /\ lastDraft < MaxDraft /\ k \in keys
       /\ lastDraft' = lastDraft + 1
       /\ draft' = [draft EXCEPT ![p] = d]
       /\ preview' = IF src = "restore" THEN [preview EXCEPT ![p] = DigestFor(p, d)]
                     ELSE preview
       /\ UNCHANGED <<admins, contents, requests>>

\* Keys leave the schema, and everybody's drafts of them with them.
DropKeys(ks) ==
    /\ ks \subseteq keys
    /\ keys' = keys \ ks
    /\ draft' = [p \in Principal |->
            IF draft[p] # None /\ draft[p].key \in ks THEN None ELSE draft[p]]

\* Keys.Delete: a key without values.
DeleteKey(k) ==
    /\ cells[k].val = NoValue
    /\ DropKeys({k})
    /\ Republish("schema")
    /\ UNCHANGED <<admins, cells, lastDraft, preview, requests>>

\* Definitions.Apply of a bundle without these keys, deletions allowed: their live values
\* are cleared first.  Its trigger is not one of the gated ones.
ApplyDelete(ks) ==
    /\ DropKeys(ks)
    /\ cells' = [k \in Key |-> IF k \in ks THEN [cells[k] EXCEPT !.val = NoValue] ELSE cells[k]]
    /\ Republish("definitions-apply")
    /\ UNCHANGED <<admins, lastDraft, preview, requests>>

\* Mutant: only the environment's own policy stops an out-of-band write.
OutOfBandEnvOnly(k, v) ==
    /\ ~Enabled("env")
    /\ Write(k, v, "copy")
    /\ UNCHANGED <<admins, draft, lastDraft, preview, requests>>

\* Copy, bulk-apply, clone and import: refused where a policy covers.
OutOfBand(k, v) ==
    /\ ~Covered
    /\ Write(k, v, "copy")
    /\ UNCHANGED <<admins, draft, lastDraft, preview, requests>>

\* Values.Declare: its trigger is not one of the gated ones.
Declare(k, v) ==
    /\ Write(k, v, "declare")
    /\ UNCHANGED <<admins, draft, lastDraft, preview, requests>>

\* A schema change materializes the environment again, with the same values.
SchemaChange ==
    /\ Republish("schema")
    /\ UNCHANGED <<admins, keys, cells, draft, lastDraft, preview, requests>>

-----------------------------------------------------------------------------
(* Publish, merge and bypass: PublishPlanned *)

\* approvalCreateGate
NewRequest(p) ==
    [state |-> "open", cause |-> "", by |-> p, scope |-> Covering,
     stamp |-> policy[Covering].stamp, rules |-> policy[Covering].input,
     digest |-> DigestOf(p), past |-> FALSE,
     votes |-> [q \in Principal |-> "none"], reviewed |-> Applied(draft[p])]

\* Restore drafts carry the token of the preview their owner saw.
TokenFits(p) == draft[p].source = "restore" => preview[p] = DigestOf(p)

\* A publish that names drafts: staged as a request where a policy covers.
Publish(p) ==
    /\ p \in publishers /\ draft[p] # None
    /\ TokenFits(p)
    /\ \/ /\ Covered
          /\ Len(requests) < MaxRequest
          /\ requests' = Append(requests, NewRequest(p))
          /\ UNCHANGED <<admins, contents, draft, lastDraft, preview>>
       \/ /\ ~Covered
          /\ Materialize(p)
          /\ UNCHANGED requests

\* The pinned version is a live draft of the caller.
Resolves(p, r) == draft[p] # None /\ draft[p].id = r.digest.draft.id

\* Mutant: the policy's version is not compared.
SamePolicyById(r) == Covering = r.scope

SamePolicy(r) == Covering = r.scope /\ policy[Covering].stamp = r.stamp

\* A merge or a bypass names a request, and finds what it pinned gone, edited or
\* overtaken: the request is invalidated.
FindsStale(p, i) ==
    LET r == requests[i]
    IN /\ p \in publishers /\ Active(r)
       /\ \/ ~Resolves(p, r) /\ Invalidate(i, "draft_edited")
          \/ /\ Resolves(p, r) /\ ~Covered
             /\ Invalidate(i, "policy_changed")
          \/ /\ Resolves(p, r) /\ Covered /\ ~r.past /\ p = r.by
             /\ ~SamePolicy(r)
             /\ Invalidate(i, "policy_changed")
          \/ /\ Resolves(p, r) /\ Covered /\ ~r.past /\ p = r.by
             /\ SamePolicy(r) /\ DigestOf(p) # r.digest
             /\ Invalidate(i, DriftCause(r))

\* What mergeGate and bypassGate have in common before they let a request pass.
Passable(p, r) ==
    /\ p \in publishers /\ Active(r) /\ Resolves(p, r)
    /\ Covered /\ ~r.past /\ p = r.by
    /\ SamePolicy(r) /\ DigestOf(p) = r.digest

Quorum(r) ==
    Cardinality(Approvals(r, policy[r.scope].input)) >= policy[r.scope].input.min

Merge(p, i) ==
    /\ Passable(p, requests[i])
    /\ Quorum(requests[i])
    /\ Materialize(p)
    /\ requests' = [requests EXCEPT ![i].state = "merged"]

\* A quorum that was reached and has since been lost.
MergeWithoutQuorum(p, i) ==
    /\ Passable(p, requests[i])
    /\ ~Quorum(requests[i])
    /\ requests[i].state = "approved"
    /\ Invalidate(i, "approver_removed")

Bypass(p, i) ==
    /\ Passable(p, requests[i])
    /\ p \in policy[requests[i].scope].input.bypassers
    /\ Materialize(p)
    /\ requests' = [requests EXCEPT ![i].state = "bypassed"]

\* A resolved request named where no policy covers: an ordinary publish of the
\* drafts it pinned, for which no preview token is asked.
MergeUngoverned(p, i) ==
    /\ p \in publishers /\ ~Active(requests[i]) /\ ~Covered
    /\ Resolves(p, requests[i])
    /\ Materialize(p)
    /\ UNCHANGED requests

-----------------------------------------------------------------------------
(* Votes and expiry *)

\* The request is live.
Votable(p, i) ==
    /\ p \in publishers
    /\ Active(requests[i]) /\ ~requests[i].past

PolicyPinned(r) == policy[r.scope] # None /\ policy[r.scope].stamp = r.stamp

VoteFindsStale(p, i) ==
    LET r == requests[i]
    IN /\ Votable(p, i)
       /\ \/ ~PolicyPinned(r) /\ Invalidate(i, "policy_changed")
          \/ /\ PolicyPinned(r) /\ Eligible(p, policy[r.scope].input)
             /\ ~Resolves(r.by, r) \/ DigestOf(r.by) # r.digest
             /\ Invalidate(i, DriftCause(r))

\* A reject resolves the request; an approve counts the eligible approvals.
AfterVote(r, p, decision) ==
    LET voted == [r EXCEPT !.votes[p] = decision]
        rules == policy[r.scope].input
    IN CASE decision = "reject" -> [voted EXCEPT !.state = "rejected"]
         [] Cardinality(Approvals(voted, rules)) >= rules.min ->
                [voted EXCEPT !.state = "approved"]
         [] OTHER -> voted

Vote(p, i, decision) ==
    LET r == requests[i]
    IN /\ Votable(p, i)
       /\ PolicyPinned(r) /\ Eligible(p, policy[r.scope].input)
       /\ decision = "approve" /\ p = r.by => policy[r.scope].input.self
       /\ Resolves(r.by, r) /\ DigestOf(r.by) = r.digest
       /\ r.votes[p] = "none"
       /\ requests' = [requests EXCEPT ![i] = AfterVote(r, p, decision)]
       /\ UNCHANGED <<admins, contents, draft, lastDraft, preview>>

\* The time to live of a request ends.
PassExpiry(i) ==
    /\ Active(requests[i]) /\ ~requests[i].past
    /\ requests' = [requests EXCEPT ![i].past = TRUE]
    /\ UNCHANGED <<admins, contents, draft, lastDraft, preview>>

\* SelectExpired: unresolved and past its expiry.
Swept(r) == Active(r) /\ r.past

\* ExpireDue, one batch of the scheduler.
ExpireDue ==
    /\ \E i \in DOMAIN requests : Swept(requests[i])
    /\ requests' = [i \in DOMAIN requests |->
            IF Swept(requests[i]) THEN [requests[i] EXCEPT !.state = "expired"]
            ELSE requests[i]]
    /\ UNCHANGED <<admins, contents, draft, lastDraft, preview>>

-----------------------------------------------------------------------------

Next ==
    \/ \E s \in Scope : DeletePolicy(s) \/ \E input \in PolicyInput : WritePolicy(s, input)
    \/ \E p \in Principal : ChangeGrant(p) \/ ChangeMember(p)
    \/ ChangeProtection
    \/ \E p \in Principal, k \in Key, v \in Value : \E src \in Source[p] : Stage(p, k, v, src)
    \/ \E p \in Principal : Publish(p)
    \/ \E k \in Key : DeleteKey(k)
    \/ \E ks \in (SUBSET Key) \ {{}} : ApplyDelete(ks)
    \/ \E k \in Key, v \in Value : OutOfBand(k, v) \/ Declare(k, v)
    \/ SchemaChange
    \/ \E p \in Principal, i \in DOMAIN requests :
        \/ FindsStale(p, i) \/ Merge(p, i) \/ MergeWithoutQuorum(p, i)
        \/ Bypass(p, i) \/ MergeUngoverned(p, i) \/ VoteFindsStale(p, i)
        \/ \E decision \in {"approve", "reject"} : Vote(p, i, decision)
    \/ \E i \in DOMAIN requests : PassExpiry(i)
    \/ ExpireDue

Spec == Init /\ [][Next]_vars

-----------------------------------------------------------------------------
(* Properties *)

Resolved(i) == i \in DOMAIN requests /\ Active(requests[i])
                   /\ requests'[i].state \in {"merged", "bypassed"}

\* A merge or a bypass delivers exactly the content the request showed its
\* reviewers: no draft edit, no write of another cell and no schema change in
\* between goes unnoticed by the pinned digest.
MergedAsReviewed ==
    [][\A i \in DOMAIN requests : Resolved(i) => Content' = requests[i].reviewed]_vars

\* The two writes no policy stops: a Declare, and a definitions apply, which takes
\* away the values of the keys it deletes and of no other.
Exempt ==
    \/ trigger' = "declare"
    \/ /\ trigger' = "definitions-apply"
       /\ \A k \in Key : Content'[k] # Content[k] =>
            k \in keys \ keys' /\ Content'[k] = NoValue

\* What a covered environment delivers changes only with a request that is
\* merged or bypassed, or by a write that the gate exempts.
GateHolds ==
    [][Covered /\ Content' # Content =>
        (\E i \in DOMAIN requests : Resolved(i)) \/ Exempt]_vars

\* A merged request has the quorum of the policy it was reviewed under, without
\* its requester's own vote unless that policy allows it: no later or weaker
\* policy is applied to votes cast under an earlier one.
MergedWithQuorum ==
    \A i \in DOMAIN requests :
        LET r == requests[i]
        IN r.state = "merged" =>
            Cardinality({p \in Principal : r.votes[p] = "approve"
                                           /\ (p # r.by \/ r.rules.self)}) >= r.rules.min
=============================================================================
