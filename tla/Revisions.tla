----------------------------- MODULE Revisions -----------------------------
(***************************************************************************)
(* The configuration of one project: its key catalogue, the published      *)
(* value of every (environment, key) cell, the drafts principals stage     *)
(* against those cells, and the snapshots that delivery reads              *)
(* (internal/service: publish.go, values.go, rollback.go, group_index.go,  *)
(* keys.go, hierarchy.go).  Every operation is one serializable            *)
(* transaction that takes the project lock before it reads what it         *)
(* decides on, so it is one action; a refused operation changes nothing.   *)
(* Authorization, re-authentication and size limits only refuse.  No       *)
(* approval policy covers the environments of this module.                 *)
(***************************************************************************)
EXTENDS Naturals, Sequences, FiniteSets

CONSTANTS Env, Key, Principal,
          Group, NoGroup,     \* key groups; NoGroup: an ungrouped key
          Value, NoValue,     \* stored values; NoValue: nothing
          Declaration,        \* the declarations a key may be given
          InitEnv, InitKey,   \* what the project starts with
          InitGroups,         \* the initial memberships of its keys
          MaxPending,         \* MaxPendingPerProject
          MaxRevision,        \* bound on the revisions of an environment
          MaxSchema,          \* bound on the schema revision
          MaxVersion          \* bound on the versions of one draft

\* `accepts' stands for the value rules of a declaration.  A presence rule is
\* the set of environments it covers; the mode `all' is the whole of Env.
Declarations == [required : SUBSET Env, forbidden : SUBSET Env,
                 accepts : SUBSET Value]

Optional == [required |-> {}, forbidden |-> {}, accepts |-> Value]

ASSUME RevisionsAssumption ==
    /\ NoValue \notin Value
    /\ NoGroup \notin Group
    /\ Declaration \subseteq Declarations
    /\ Optional \in Declaration
    /\ InitEnv \subseteq Env
    /\ InitKey \subseteq Key
    /\ InitGroups \subseteq [Key -> Group \cup {NoGroup}]
    /\ MaxPending \in Nat
    /\ MaxRevision \in Nat \ {0}
    /\ MaxSchema \in Nat
    /\ MaxVersion \in Nat

VARIABLES live,       \* environments that exist
          spent,      \* environment and key ids already minted
          schema,     \* the catalogue at its current revision
          cells,      \* value_entries: the published cell of each key
          pending,    \* pending_changes: one row per owner and cell
          lastVer,    \* versions minted so far for an owner's cell
          snapshots,  \* the published revisions of each environment
          previews,   \* impact previews issued by Restore
          written     \* history: how often each cell has changed

vars == <<live, spent, schema, cells, pending, lastVer, snapshots, previews,
          written>>

\* A cell holds a value under the row id it was written with; ids of one cell
\* are never reused.  Id 0 stands for the empty string.
Absent == [id |-> 0, val |-> NoValue]
Entry == {Absent} \cup [id : Nat \ {0}, val : Value]
IsSet(entry) == entry.id # 0

Schema == [rev : Nat, keys : SUBSET Key, rule : [Key -> Declarations],
           group : [Key -> Group \cup {NoGroup}]]

\* A draft that unsets a cell has the value NoValue.  `base' is
\* StagedFromEntry; `seen' is history, the cell's write count at staging.
Draft == [owner : Principal, env : Env, key : Key, ver : Nat,
          val : Value \cup {NoValue}, base : Nat, seen : Nat,
          source : {"values", "restore"}]

Snapshot == [schema : Nat, cells : [Key -> Entry], changed : SUBSET Key,
             payload : BOOLEAN]

TypeOK ==
    /\ live \subseteq Env
    /\ spent \subseteq Env \cup Key
    /\ schema \in Schema
    /\ cells \in [Env -> [Key -> Entry]]
    /\ pending \subseteq Draft
    /\ lastVer \in [Principal -> [Env -> [Key -> Nat]]]
    /\ snapshots \in [Env -> Seq(Snapshot)]
    /\ \A p \in previews :
          /\ p.token.changes \subseteq Draft
          /\ p.after \in [Key -> Value \cup {NoValue}]
    /\ written \in [Env -> [Key -> Nat]]

-----------------------------------------------------------------------------
(* Validation and materialization.                                         *)

SameGroup(s, j, k) == s.group[j] = s.group[k] /\ s.group[j] # NoGroup

\* groupIndex.validateResolvedPublish: what an environment may resolve to.
Valid(s, e, c) ==
    /\ \A k \in s.keys :
          /\ e \in s.rule[k].required => IsSet(c[k])
          /\ e \in s.rule[k].forbidden => ~IsSet(c[k])
          /\ IsSet(c[k]) => c[k].val \in s.rule[k].accepts
    /\ \A j, k \in s.keys : SameGroup(s, j, k) => (IsSet(c[j]) <=> IsSet(c[k]))

Revision(e) == Len(snapshots[e])
Latest(e) == snapshots[e][Revision(e)]

\* Mutant: only keys that appear or vanish are recorded.
LineageByPresence(e, c) ==
    {k \in Key : Revision(e) = 0 \/ (IsSet(c[k]) <=> ~IsSet(Latest(e).cells[k]))}

\* The keys a new revision records as added, edited or removed: by the row
\* id the snapshot pins, never by value.
Lineage(e, c) ==
    LET before == IF Revision(e) = 0 THEN [k \in Key |-> Absent]
                                     ELSE Latest(e).cells
    IN  {k \in Key : c[k].id # before[k].id}

NewSnapshot(s, e, c) ==
    [schema |-> s.rev, cells |-> c, changed |-> Lineage(e, c), payload |-> TRUE]

\* materialize, for every environment of E in one transaction: validate what
\* it resolves to under schema s, move the cells, append the snapshot.
Materialize(s, E, c) ==
    /\ \A e \in E : Valid(s, e, c[e]) /\ Revision(e) < MaxRevision
    /\ cells' = c
    /\ written' = [e \in Env |-> [k \in Key |->
                     written[e][k] + (IF c[e][k] = cells[e][k] THEN 0 ELSE 1)]]
    /\ snapshots' = [e \in Env |->
                       IF e \in E
                       THEN Append(snapshots[e], NewSnapshot(s, e, c[e]))
                       ELSE snapshots[e]]

\* Mutant: a write updates the row in place and mints no id.
EntryInPlace(e, k, v) ==
    IF v = NoValue THEN Absent ELSE [id |-> cells[e][k].id, val |-> v]

\* putCell, writeCell and Clear: what a write of v leaves in a cell.
EntryOf(e, k, v) ==
    IF v = NoValue THEN Absent ELSE [id |-> written[e][k] + 1, val |-> v]

\* The cells once v[k] is written to every key of K in every environment of E.
Wrote(E, K, v) ==
    [e \in Env |-> [k \in Key |-> IF e \in E /\ k \in K
                                  THEN EntryOf(e, k, v[k])
                                  ELSE cells[e][k]]]

\* The cells once the selected drafts are applied.
Applied(sel) ==
    [e \in Env |-> [k \in Key |->
        IF \E d \in sel : d.env = e /\ d.key = k
        THEN EntryOf(e, k, (CHOOSE d \in sel : d.env = e /\ d.key = k).val)
        ELSE cells[e][k]]]

-----------------------------------------------------------------------------
(* Drafts and publish.                                                     *)

RowsOf(o, e, K) == {d \in pending : d.owner = o /\ d.env = e /\ d.key \in K}

NewDraft(o, e, k, v, src) ==
    [owner |-> o, env |-> e, key |-> k, ver |-> lastVer[o][e][k] + 1,
     val |-> v, base |-> cells[e][k].id, seen |-> written[e][k],
     source |-> src]

Minted(o, e, K) ==
    [lastVer EXCEPT ![o][e] =
        [k \in Key |-> @[k] + (IF k \in K THEN 1 ELSE 0)]]

\* Values.Set and, with NoValue, Values.Unset: replace the owner's draft of
\* the cell.  The cap counts every row of the project but that one.
Stage(o, e, k, v) ==
    /\ e \in live /\ k \in schema.keys
    /\ lastVer[o][e][k] < MaxVersion
    /\ Cardinality(pending \ RowsOf(o, e, {k})) < MaxPending
    /\ pending' = (pending \ RowsOf(o, e, {k}))
                  \cup {NewDraft(o, e, k, v, "values")}
    /\ lastVer' = Minted(o, e, {k})
    /\ UNCHANGED <<live, spent, schema, cells, snapshots, previews, written>>

\* Mutant: the closure sees the publisher's own drafts only.
ClosureOfOwner(P, S) ==
    S \cup {d \in P : \E s \in S : /\ d.owner = s.owner /\ d.env = s.env
                                   /\ SameGroup(schema, d.key, s.key)}

\* selectVersions: key-group closure of a selection S over the rows P, within
\* each environment.
Closure(P, S) ==
    S \cup {d \in P : \E s \in S : d.env = s.env /\ SameGroup(schema, d.key, s.key)}

\* Mutant: the token does not bind the revision the preview was computed on.
TokenWithoutBase(sel) == [changes |-> sel, schema |-> schema.rev, base |-> <<>>]

\* The input of publishPreviewToken.
Token(sel) ==
    [changes |-> sel, schema |-> schema.rev,
     base |-> [e \in {d.env : d \in sel} |-> Revision(e)]]

\* Mutant: only the presence of the cell is compared.
FreshByPresence(d) == (cells[d.env][d.key].id = 0) <=> (d.base = 0)

\* checkFreshness: the cell still holds the row the draft was staged against.
Fresh(d) == cells[d.env][d.key].id = d.base

\* What PublishPlanned requires of a selection before anything moves: every
\* draft is the publisher's own, restored drafts come with the token of a
\* preview of exactly this selection, and nothing is stale.
Publishable(o, sel) ==
    /\ \A d \in sel : d.owner = o
    /\ (\E d \in sel : d.source = "restore")
          => \E p \in previews : p.token = Token(sel)
    /\ \A d \in sel : Fresh(d)

\* PublishPlanned, naming the drafts S: a version that is no longer live is
\* refused, and closure may add drafts but never splits a group.
Publish(o, S) ==
    LET sel == Closure(pending, S)
    IN  /\ S # {}
        /\ Publishable(o, sel)
        /\ Materialize(schema, {d.env : d \in sel}, Applied(sel))
        /\ pending' = pending \ sel
        /\ UNCHANGED <<live, spent, schema, lastVer, previews>>

\* What Restore may be asked for: a revision whose payload is present, of all
\* keys (which must still be declared) or of one.
Restorable(target, K) ==
    /\ target.payload
    /\ K = schema.keys \/ \E k \in schema.keys : K = {k}
    /\ K = schema.keys => \A k \in Key : IsSet(target.cells[k]) => k \in K

\* Revisions.Restore of revision r: a two-way diff by value staged as drafts,
\* and the preview of publishing them.  `after' is history: the content that
\* preview showed.
Restore(o, e, r, K) ==
    LET target == snapshots[e][r]
        changed == {k \in K : target.cells[k].val # cells[e][k].val}
        new == {NewDraft(o, e, k, target.cells[k].val, "restore") : k \in changed}
        rows == (pending \ RowsOf(o, e, changed)) \cup new
        sel == Closure(rows, new)
    IN  /\ Restorable(target, K)
        /\ changed # {}
        /\ \A k \in changed : lastVer[o][e][k] < MaxVersion
        /\ \A d \in sel : d.owner = o
        /\ pending' = rows
        /\ lastVer' = Minted(o, e, changed)
        /\ previews' = previews \cup
             {[token |-> Token(sel),
               after |-> [k \in Key |-> Applied(sel)[e][k].val]]}
        /\ UNCHANGED <<live, spent, schema, cells, snapshots, written>>

-----------------------------------------------------------------------------
(* Direct writes: they publish without drafts.                             *)

\* Mutant: the value is written and no snapshot is materialized.
DeclareUnpublished(E, k, v) ==
    /\ E # {} /\ E \subseteq live /\ k \in schema.keys
    /\ Materialize(schema, {}, Wrote(E, {k}, [j \in {k} |-> v]))
    /\ UNCHANGED <<live, spent, schema, pending, lastVer, previews>>

\* Values.Declare: one value into several environments.
Declare(E, k, v) ==
    /\ E # {} /\ E \subseteq live /\ k \in schema.keys
    /\ Materialize(schema, E, Wrote(E, {k}, [j \in {k} |-> v]))
    /\ UNCHANGED <<live, spent, schema, pending, lastVer, previews>>

\* Values.Copy: set cells of a source into other environments.
Copy(src, K, E) ==
    /\ src \in live
    /\ E # {} /\ E \subseteq live \ {src}
    /\ K # {} /\ K \subseteq {k \in schema.keys : IsSet(cells[src][k])}
    /\ Materialize(schema, E, Wrote(E, K, [k \in K |-> cells[src][k].val]))
    /\ UNCHANGED <<live, spent, schema, pending, lastVer, previews>>

-----------------------------------------------------------------------------
(* Schema changes: a new schema revision, every environment materialized.  *)

Overlap(r, f) == r \cap f # {}

\* checkClassifiedDeclaration and the presence rows' foreign keys.
Declarable(d) ==
    /\ ~Overlap(d.required, d.forbidden)
    /\ \A rule \in {d.required, d.forbidden} : rule = Env \/ rule \subseteq live

\* groupIndex.validateStaticMembership: members must not rule each other out.
Compatible(s, k) ==
    \A j \in s.keys \ {k} : SameGroup(s, j, k) =>
        /\ ~Overlap(s.rule[j].required, s.rule[k].forbidden)
        /\ ~Overlap(s.rule[k].required, s.rule[j].forbidden)

\* Mutant: the fan-out narrows to environments whose content moves (none).
FanOutNarrowed(s) ==
    /\ schema.rev < MaxSchema
    /\ schema' = [s EXCEPT !.rev = schema.rev + 1]
    /\ Materialize([s EXCEPT !.rev = schema.rev + 1], {}, cells)

\* bumpSchemaRevision, then fanOutSchemaPublish.
FanOut(s) ==
    /\ schema.rev < MaxSchema
    /\ schema' = [s EXCEPT !.rev = schema.rev + 1]
    /\ Materialize([s EXCEPT !.rev = schema.rev + 1], live, cells)

\* Keys.Create.
CreateKey(k, d, g) ==
    LET s == [schema EXCEPT !.keys = @ \cup {k}, !.rule[k] = d, !.group[k] = g]
    IN  /\ k \notin spent
        /\ Declarable(d) /\ Compatible(s, k)
        /\ FanOut(s)
        /\ spent' = spent \cup {k}
        /\ UNCHANGED <<live, pending, lastVer, previews>>

\* Keys.UpdateDeclaration; re-saving the same declaration does nothing.
UpdateDeclaration(k, d) ==
    LET s == [schema EXCEPT !.rule[k] = d]
    IN  /\ k \in schema.keys /\ d # schema.rule[k]
        /\ Declarable(d) /\ Compatible(s, k)
        /\ FanOut(s)
        /\ UNCHANGED <<live, spent, pending, lastVer, previews>>

\* Keys.SetGroup.
SetGroup(k, g) ==
    LET s == [schema EXCEPT !.group[k] = g]
    IN  /\ k \in schema.keys /\ g # schema.group[k]
        /\ Compatible(s, k)
        /\ FanOut(s)
        /\ UNCHANGED <<live, spent, pending, lastVer, previews>>

\* Mutant: the drafts of the deleted key stay.
DeleteKeyKeepsDrafts(k) ==
    /\ k \in schema.keys
    /\ \A e \in live : ~IsSet(cells[e][k])
    /\ FanOut([schema EXCEPT !.keys = @ \ {k}])
    /\ UNCHANGED <<live, spent, pending, lastVer, previews>>

\* Keys.Delete: refused while a value of the key remains; every draft of the
\* key is discarded.
DeleteKey(k) ==
    LET s == [schema EXCEPT !.keys = @ \ {k}, !.rule[k] = Optional,
                            !.group[k] = NoGroup]
    IN  /\ k \in schema.keys
        /\ \A e \in live : ~IsSet(cells[e][k])
        /\ pending' = {d \in pending : d.key # k}
        /\ FanOut(s)
        /\ UNCHANGED <<live, spent, lastVer, previews>>

-----------------------------------------------------------------------------
(* Environments and retention.                                             *)

\* Environments.create, empty or (K not empty) cloned from src: the copied
\* keys are those the caller may read there.  Revision 1 is materialized
\* before the environment can be fetched; the others are left alone.
CreateEnv(e, src, K) ==
    LET s == [schema EXCEPT !.rev = @ + 1]
    IN  /\ e \notin spent
        /\ src \in live \cup {e}
        /\ K \subseteq {k \in schema.keys : src # e /\ IsSet(cells[src][k])}
        /\ schema.rev < MaxSchema
        /\ live' = live \cup {e}
        /\ spent' = spent \cup {e}
        /\ schema' = s
        /\ Materialize(s, {e}, Wrote({e}, K, [k \in K |-> cells[src][k].val]))
        /\ UNCHANGED <<pending, lastVer, previews>>

\* cascadeEnvironmentPresence: `all' stays symbolic.
Without(rule, e) == IF rule = Env THEN Env ELSE rule \ {e}

Cascaded(d, e) == [d EXCEPT !.required = Without(@, e), !.forbidden = Without(@, e)]

\* Environments.Delete: presence rows, values, drafts and history go with it.
DeleteEnv(e) ==
    /\ e \in live
    /\ schema.rev < MaxSchema
    /\ live' = live \ {e}
    /\ schema' = [schema EXCEPT !.rev = @ + 1,
                    !.rule = [k \in Key |-> Cascaded(@[k], e)]]
    /\ cells' = [cells EXCEPT ![e] = [k \in Key |-> Absent]]
    /\ pending' = {d \in pending : d.env # e}
    /\ snapshots' = [snapshots EXCEPT ![e] = <<>>]
    /\ UNCHANGED <<spent, lastVer, previews, written>>

Collected(snap) == [snap EXCEPT !.cells = [k \in Key |-> Absent], !.payload = FALSE]

\* Mutant: the newest revision is eligible too.
CollectNewest(e, r) ==
    /\ snapshots[e][r].payload
    /\ snapshots' = [snapshots EXCEPT ![e][r] = Collected(@)]
    /\ UNCHANGED <<live, spent, schema, cells, pending, lastVer, previews, written>>

\* Retention.Sweep of one revision.  Ages, counts and pins select among the
\* revisions; a retention count is positive, so the newest always stays.
Collect(e, r) ==
    /\ r < Revision(e)
    /\ snapshots[e][r].payload
    /\ snapshots' = [snapshots EXCEPT ![e][r] = Collected(@)]
    /\ UNCHANGED <<live, spent, schema, cells, pending, lastVer, previews, written>>

-----------------------------------------------------------------------------
Init ==
    /\ live = InitEnv
    /\ spent = InitEnv \cup InitKey
    /\ \E membership \in InitGroups :
          schema = [rev |-> 1, keys |-> InitKey, rule |-> [k \in Key |-> Optional],
                    group |-> membership]
    /\ cells = [e \in Env |-> [k \in Key |-> Absent]]
    /\ pending = {}
    /\ lastVer = [o \in Principal |-> [e \in Env |-> [k \in Key |-> 0]]]
    /\ snapshots = [e \in Env |->
          IF e \in InitEnv
          THEN <<[schema |-> 1, cells |-> cells[e], changed |-> {}, payload |-> TRUE]>>
          ELSE <<>>]
    /\ previews = {}
    /\ written = [e \in Env |-> [k \in Key |-> 0]]

Next ==
    \/ \E o \in Principal, e \in Env, k \in Key, v \in Value \cup {NoValue} :
          Stage(o, e, k, v)
    \/ \E o \in Principal, S \in SUBSET pending : Publish(o, S)
    \/ \E o \in Principal, e \in live, K \in SUBSET Key :
          \E r \in 1 .. Revision(e) - 1 : Restore(o, e, r, K)
    \/ \E E \in SUBSET Env, k \in Key, v \in Value : Declare(E, k, v)
    \/ \E src \in Env, K \in SUBSET Key, E \in SUBSET Env : Copy(src, K, E)
    \/ \E k \in Key, d \in Declaration, g \in Group \cup {NoGroup} :
          CreateKey(k, d, g)
    \/ \E k \in Key, d \in Declaration : UpdateDeclaration(k, d)
    \/ \E k \in Key, g \in Group \cup {NoGroup} : SetGroup(k, g)
    \/ \E k \in Key : DeleteKey(k)
    \/ \E e, src \in Env, K \in SUBSET Key : CreateEnv(e, src, K)
    \/ \E e \in Env : DeleteEnv(e)
    \/ \E e \in live : \E r \in 1 .. Revision(e) : Collect(e, r)

Spec == Init /\ [][Next]_vars

-----------------------------------------------------------------------------
(* Properties.                                                             *)

\* Delivery reads snapshots, operators edit cells: after every operation that
\* writes a cell (publish, declare, copy, clone, schema fan-out) the newest
\* snapshot of the environment, whose payload is never collected, holds
\* exactly the published cells.
SnapshotIsPublishedState ==
    \A e \in live : Revision(e) > 0 /\ Latest(e).payload /\ Latest(e).cells = cells[e]

\* What delivery serves satisfies the schema as it stands now, not only the
\* one it was published under: a declaration, presence or group change that
\* some environment does not meet is refused as a whole.
DeliveredContentIsValid ==
    \A e \in live : Valid(schema, e, Latest(e).cells)

\* No draft survives the deletion of its key or of its environment, and an
\* owner holds one draft per cell: nothing can publish a key the schema no
\* longer declares (Keys.Delete, Environments.Delete, Pending.Stage).
DraftsNameLiveCells ==
    \A d \in pending :
        /\ d.env \in live /\ d.key \in schema.keys
        /\ \A x \in pending : (x.owner = d.owner /\ x.env = d.env /\ x.key = d.key)
                               => x = d

\* The recorded lineage explains the history: a key that a revision does not
\* list as changed holds in it the value of the revision before (lineage
\* compares row ids, never values).
LineageExplainsHistory ==
    \A e \in live : \A r \in 2 .. Revision(e) :
        (snapshots[e][r - 1].payload /\ snapshots[e][r].payload) =>
            \A k \in Key \ snapshots[e][r].changed :
                snapshots[e][r].cells[k] = snapshots[e][r - 1].cells[k]

\* The drafts a publish commits in this step.
Consumed == {d \in pending \ pending' : /\ Revision(d.env) < Len(snapshots'[d.env])
                                         /\ d.key \in schema'.keys}

\* A draft staged on a cell that held a value is published only if nobody has
\* written that cell since, whatever value it holds by now (checkFreshness).
NoBlindOverwrite ==
    [][\A d \in Consumed : d.base # 0 => written[d.env][d.key] = d.seen]_vars

\* A publish never commits a part of what is pending on a key group in an
\* environment, whoever owns it (selectVersions).
GroupsPublishWhole ==
    [][\A d \in Consumed : \A x \in pending :
          (x.env = d.env /\ SameGroup(schema, x.key, d.key)) => x \notin pending']_vars

\* A publish that commits a restored draft delivers exactly the content that
\* some preview of exactly these drafts showed, however the environment
\* moved in between (publishPreviewToken).
RestoreAsPreviewed ==
    [][\A d \in Consumed : d.source = "restore" =>
          \E p \in previews :
              /\ p.token.changes = Consumed
              /\ \A k \in Key : cells'[d.env][k].val = p.after[k]]_vars

\* The published history is append-only: a step neither drops nor rewrites a
\* revision of a live environment, except that a sweep may erase the payload
\* of one that is not the newest.
HistoryIsAppendOnly ==
    [][\A e \in live \cap live' :
          /\ Revision(e) <= Len(snapshots'[e])
          /\ \A r \in 1 .. Revision(e) :
                \/ snapshots'[e][r] = snapshots[e][r]
                \/ r < Revision(e) /\ snapshots'[e][r] = Collected(snapshots[e][r])]_vars
=============================================================================
