-------------------------- MODULE RevisionsProofs --------------------------
(***************************************************************************)
(* Proofs about Revisions, for every project: any environments, keys,      *)
(* principals, groups, values, declarations and bounds.  RInv is the       *)
(* inductive invariant; every operation that moves a cell or changes the   *)
(* schema goes through Materialize, so the argument is made once, in       *)
(* MaterializeKeeps, and each action only shows what it hands to it.       *)
(***************************************************************************)
EXTENDS Revisions, TLAPS

RInv == /\ TypeOK
        /\ SnapshotIsPublishedState
        /\ DeliveredContentIsValid
        /\ DraftsNameLiveCells

\* What a write leaves in a cell is a well-formed entry (putCell, Clear).
LEMMA EntryOfType ==
    ASSUME TypeOK, NEW e \in Env, NEW k \in Key, NEW v \in Value \cup {NoValue}
    PROVE  EntryOf(e, k, v) \in Entry
  BY RevisionsAssumption DEF TypeOK, EntryOf, Entry

\* Direct writes touch the environments they name and nothing else.
LEMMA WroteFacts ==
    ASSUME TypeOK, NEW E \in SUBSET Env, NEW K \in SUBSET Key,
           NEW v \in [K -> Value]
    PROVE  /\ Wrote(E, K, v) \in [Env -> [Key -> Entry]]
           /\ \A e \in Env \ E : Wrote(E, K, v)[e] = cells[e]
<1>1. ASSUME NEW e \in Env, NEW k \in Key
      PROVE  (IF e \in E /\ k \in K THEN EntryOf(e, k, v[k]) ELSE cells[e][k]) \in Entry
  <2>1. CASE e \in E /\ k \in K
    BY <2>1, EntryOfType
  <2>2. CASE ~(e \in E /\ k \in K)
    BY <2>2 DEF TypeOK
  <2> QED BY <2>1, <2>2
<1>2. ASSUME NEW e \in Env \ E PROVE Wrote(E, K, v)[e] = cells[e]
  <2>1. Wrote(E, K, v)[e] = [k \in Key |-> cells[e][k]]
    BY DEF Wrote
  <2>2. cells[e] \in [Key -> Entry]
    BY DEF TypeOK
  <2> QED BY <2>1, <2>2
<1> QED BY <1>1, <1>2 DEF Wrote

\* Applying drafts touches the environments they name and nothing else.
LEMMA AppliedFacts ==
    ASSUME TypeOK, NEW sel \in SUBSET Draft
    PROVE  /\ Applied(sel) \in [Env -> [Key -> Entry]]
           /\ \A e \in Env \ {d.env : d \in sel} : Applied(sel)[e] = cells[e]
<1>1. ASSUME NEW e \in Env, NEW k \in Key
      PROVE  (IF \E d \in sel : d.env = e /\ d.key = k
              THEN EntryOf(e, k, (CHOOSE d \in sel : d.env = e /\ d.key = k).val)
              ELSE cells[e][k]) \in Entry
  <2>1. CASE \E d \in sel : d.env = e /\ d.key = k
    <3>1. (CHOOSE d \in sel : d.env = e /\ d.key = k) \in Draft
      BY <2>1
    <3>2. (CHOOSE d \in sel : d.env = e /\ d.key = k).val \in Value \cup {NoValue}
      BY <3>1 DEF Draft
    <3> QED BY <2>1, <3>2, EntryOfType
  <2>2. CASE ~\E d \in sel : d.env = e /\ d.key = k
    BY <2>2 DEF TypeOK
  <2> QED BY <2>1, <2>2
<1>2. ASSUME NEW e \in Env \ {d.env : d \in sel} PROVE Applied(sel)[e] = cells[e]
  <2>1. ~\E d \in sel : d.env = e
    OBVIOUS
  <2>2. Applied(sel)[e] = [k \in Key |-> cells[e][k]]
    BY <2>1 DEF Applied
  <2>3. cells[e] \in [Key -> Entry]
    BY DEF TypeOK
  <2> QED BY <2>2, <2>3
<1> QED BY <1>1, <1>2 DEF Applied

\* materialize under schema s: what it must be handed so that afterwards
\* every environment delivers its published cells, and validly so.
LEMMA MaterializeKeeps ==
    ASSUME TypeOK, SnapshotIsPublishedState,
           NEW s \in Schema, NEW E \in SUBSET Env,
           NEW c \in [Env -> [Key -> Entry]],
           \A e \in Env \ E : c[e] = cells[e],
           \A e \in live \ E : Valid(s, e, cells[e]),
           Materialize(s, E, c),
           schema' = s, live' \subseteq live \cup E
    PROVE  /\ cells' \in [Env -> [Key -> Entry]]
           /\ written' \in [Env -> [Key -> Nat]]
           /\ snapshots' \in [Env -> Seq(Snapshot)]
           /\ SnapshotIsPublishedState'
           /\ DeliveredContentIsValid'
<1>1. cells' = c
  BY DEF Materialize
<1>2. written' \in [Env -> [Key -> Nat]]
  <2>1. \A e \in Env : \A k \in Key :
          written[e][k] + (IF c[e][k] = cells[e][k] THEN 0 ELSE 1) \in Nat
    BY DEF TypeOK
  <2> QED BY <2>1 DEF Materialize
<1>3. ASSUME NEW e \in Env PROVE NewSnapshot(s, e, c[e]) \in Snapshot
  BY DEF NewSnapshot, Snapshot, Schema, Lineage
<1>4. ASSUME NEW e \in E
      PROVE  /\ snapshots'[e] = Append(snapshots[e], NewSnapshot(s, e, c[e]))
             /\ snapshots'[e] \in Seq(Snapshot)
             /\ Len(snapshots'[e]) > 0
             /\ snapshots'[e][Len(snapshots'[e])] = NewSnapshot(s, e, c[e])
  <2>1. snapshots'[e] = Append(snapshots[e], NewSnapshot(s, e, c[e]))
    BY DEF Materialize
  <2>2. snapshots[e] \in Seq(Snapshot)
    BY DEF TypeOK
  <2> QED BY <1>3, <2>1, <2>2
<1>5. ASSUME NEW e \in Env \ E PROVE snapshots'[e] = snapshots[e]
  BY DEF Materialize
<1>6. snapshots' \in [Env -> Seq(Snapshot)]
  <2>1. \A e \in Env : snapshots'[e] \in Seq(Snapshot)
    BY <1>4, <1>5 DEF TypeOK
  <2>2. snapshots' = [e \in Env |-> snapshots'[e]]
    BY DEF Materialize
  <2> QED BY <2>1, <2>2
<1>7. ASSUME NEW e \in live'
      PROVE  /\ Len(snapshots'[e]) > 0
             /\ snapshots'[e][Len(snapshots'[e])].payload
             /\ snapshots'[e][Len(snapshots'[e])].cells = cells'[e]
             /\ Valid(s, e, snapshots'[e][Len(snapshots'[e])].cells)
  <2>1. CASE e \in E
    <3>1. Valid(s, e, c[e])
      BY <2>1 DEF Materialize
    <3>2. /\ NewSnapshot(s, e, c[e]).payload = TRUE
          /\ NewSnapshot(s, e, c[e]).cells = c[e]
      BY DEF NewSnapshot
    <3> QED BY <1>1, <1>4, <2>1, <3>1, <3>2
  <2>2. CASE e \in live \ E
    <3>1. e \in Env \ E
      BY <2>2 DEF TypeOK
    <3> QED BY <1>1, <1>5, <2>2, <3>1 DEF SnapshotIsPublishedState, Revision, Latest
  <2> QED BY <2>1, <2>2
<1>8. SnapshotIsPublishedState'
  BY <1>7 DEF SnapshotIsPublishedState, Revision, Latest
<1>9. DeliveredContentIsValid'
  BY <1>7 DEF DeliveredContentIsValid, Revision, Latest
<1> QED BY <1>1, <1>2, <1>6, <1>8, <1>9

\* The published cells of an environment that an operation leaves alone are
\* valid under any schema with the same keys, rules and groups.
LEMMA CellsValid ==
    ASSUME RInv, NEW e \in live,
           NEW s, s.keys = schema.keys, s.rule = schema.rule, s.group = schema.group
    PROVE  Valid(s, e, cells[e])
<1>1. Valid(schema, e, cells[e])
  BY DEF RInv, SnapshotIsPublishedState, DeliveredContentIsValid
<1> QED BY <1>1 DEF Valid, SameGroup

LEMMA InitRInv == Init => RInv
<1> SUFFICES ASSUME Init PROVE RInv
  OBVIOUS
<1> DEFINE blank == [k \in Key |-> Absent]
           first == [schema |-> 1, cells |-> blank, changed |-> {}, payload |-> TRUE]
<1>1. /\ cells \in [Env -> [Key -> Entry]]
      /\ \A e \in Env : cells[e] = blank
  BY DEF Init, Entry
<1>2. first \in Snapshot
  BY DEF Snapshot, Entry
<1>3. \A e \in Env : snapshots[e] = IF e \in InitEnv THEN <<first>> ELSE <<>>
  BY <1>1 DEF Init
<1>4. snapshots \in [Env -> Seq(Snapshot)]
  <2> HIDE DEF first
  <2>1. <<first>> \in Seq(Snapshot) /\ <<>> \in Seq(Snapshot)
    BY <1>2
  <2>2. \A e \in Env : snapshots[e] \in Seq(Snapshot)
    BY <1>3, <2>1
  <2>3. snapshots = [e \in Env |-> snapshots[e]]
    BY DEF Init
  <2> QED BY <2>2, <2>3
<1>5. Optional \in Declarations
  BY RevisionsAssumption
<1>6. schema \in Schema
  BY <1>5, RevisionsAssumption DEF Init, Schema
<1>7. TypeOK
  BY <1>1, <1>4, <1>6, RevisionsAssumption DEF Init, TypeOK
<1>8. ASSUME NEW e \in live
      PROVE  Revision(e) = 1 /\ Latest(e) = first
  <2> HIDE DEF first
  <2>1. e \in Env /\ e \in InitEnv
    BY RevisionsAssumption DEF Init
  <2>2. snapshots[e] = <<first>>
    BY <1>3, <2>1
  <2> QED BY <2>2 DEF Revision, Latest
<1>9. SnapshotIsPublishedState
  <2>1. first.payload = TRUE /\ first.cells = blank
    OBVIOUS
  <2>2. \A e \in live : cells[e] = blank
    BY <1>1, RevisionsAssumption DEF Init
  <2> HIDE DEF first, blank
  <2> QED BY <1>8, <2>1, <2>2 DEF SnapshotIsPublishedState
<1>10. DeliveredContentIsValid
  <2>1. ASSUME NEW e \in live PROVE Valid(schema, e, blank)
    <3>1. \A k \in Key : ~IsSet(blank[k])
      BY DEF IsSet, Absent
    <3>2. schema.keys \subseteq Key
      BY <1>6 DEF Schema
    <3>3. \A k \in schema.keys : schema.rule[k] = Optional
      BY <3>2 DEF Init
    <3>4. \A k \in schema.keys : schema.rule[k].required = {}
      BY <3>3 DEF Optional
    <3> HIDE DEF blank
    <3> QED BY <3>1, <3>2, <3>4 DEF Valid
  <2>2. first.cells = blank
    OBVIOUS
  <2> HIDE DEF first, blank
  <2> QED BY <1>8, <2>1, <2>2 DEF DeliveredContentIsValid
<1>11. DraftsNameLiveCells
  BY DEF Init, DraftsNameLiveCells
<1> QED BY <1>7, <1>9, <1>10, <1>11 DEF RInv

\* A new draft, and the versions it mints, are well formed.
LEMMA NewDraftType ==
    ASSUME TypeOK, NEW o \in Principal, NEW e \in Env, NEW k \in Key,
           NEW v \in Value \cup {NoValue}, NEW src \in {"values", "restore"}
    PROVE  /\ NewDraft(o, e, k, v, src) \in Draft
           /\ NewDraft(o, e, k, v, src).owner = o
           /\ NewDraft(o, e, k, v, src).env = e
           /\ NewDraft(o, e, k, v, src).key = k
           /\ NewDraft(o, e, k, v, src).base = cells[e][k].id
           /\ NewDraft(o, e, k, v, src).seen = written[e][k]
<1>1. cells[e][k].id \in Nat
  BY DEF TypeOK, Entry, Absent
<1>2. written[e][k] \in Nat /\ lastVer[o][e][k] + 1 \in Nat
  BY DEF TypeOK
<1> QED BY <1>1, <1>2 DEF NewDraft, Draft

LEMMA MintedType ==
    ASSUME TypeOK, NEW o \in Principal, NEW e \in Env, NEW K \in SUBSET Key
    PROVE  Minted(o, e, K) \in [Principal -> [Env -> [Key -> Nat]]]
<1>1. \A k \in Key : lastVer[o][e][k] + (IF k \in K THEN 1 ELSE 0) \in Nat
  BY DEF TypeOK
<1> QED BY <1>1 DEF TypeOK, Minted

\* The rows once an owner's drafts of the cells K of e are replaced.
Restaged(o, e, K, v, src) ==
    (pending \ RowsOf(o, e, K)) \cup {NewDraft(o, e, k, v[k], src) : k \in K}

\* Values.stage and Restore: replacing an owner's drafts of some declared
\* cells of a live environment leaves one draft per owner and cell.
LEMMA RestageKeeps ==
    ASSUME RInv, NEW o \in Principal, NEW e \in live, NEW K \in SUBSET schema.keys,
           NEW v \in [K -> Value \cup {NoValue}], NEW src \in {"values", "restore"}
    PROVE  /\ Restaged(o, e, K, v, src) \subseteq Draft
           /\ \A d \in Restaged(o, e, K, v, src) :
                /\ d.env \in live /\ d.key \in schema.keys
                /\ \A x \in Restaged(o, e, K, v, src) :
                      (x.owner = d.owner /\ x.env = d.env /\ x.key = d.key) => x = d
<1>1. e \in Env /\ K \subseteq Key
  BY DEF RInv, TypeOK, Schema
<1>2. \A k \in K : /\ NewDraft(o, e, k, v[k], src) \in Draft
                   /\ NewDraft(o, e, k, v[k], src).owner = o
                   /\ NewDraft(o, e, k, v[k], src).env = e
                   /\ NewDraft(o, e, k, v[k], src).key = k
  BY <1>1, NewDraftType DEF RInv
<1>3. \A d \in pending \ RowsOf(o, e, K) :
          /\ d \in Draft /\ d.env \in live /\ d.key \in schema.keys
          /\ ~(d.owner = o /\ d.env = e /\ d.key \in K)
  BY DEF RInv, TypeOK, DraftsNameLiveCells, RowsOf
<1>4. \A d, x \in pending \ RowsOf(o, e, K) :
          (x.owner = d.owner /\ x.env = d.env /\ x.key = d.key) => x = d
  BY DEF RInv, DraftsNameLiveCells
<1> QED BY <1>2, <1>3, <1>4 DEF Restaged

LEMMA ClosureWithin ==
    ASSUME NEW P, NEW S
    PROVE  S \subseteq Closure(P, S) /\ Closure(P, S) \subseteq P \cup S
  BY DEF Closure

LEMMA StageKeeps ==
    ASSUME RInv, NEW o \in Principal, NEW e \in Env, NEW k \in Key,
           NEW v \in Value \cup {NoValue}, Stage(o, e, k, v)
    PROVE  RInv'
<1> DEFINE w == [j \in {k} |-> v]
<1>1. /\ e \in live /\ k \in schema.keys
      /\ UNCHANGED <<live, spent, schema, cells, snapshots, previews, written>>
  BY DEF Stage
<1>2. pending' = Restaged(o, e, {k}, w, "values")
  BY DEF Stage, Restaged
<1>3. /\ pending' \subseteq Draft
      /\ DraftsNameLiveCells'
  <2>1. w \in [{k} -> Value \cup {NoValue}] /\ {k} \in SUBSET schema.keys
    BY <1>1
  <2> HIDE DEF w
  <2> QED BY <1>1, <1>2, <2>1, RestageKeeps DEF DraftsNameLiveCells
<1>4. lastVer' \in [Principal -> [Env -> [Key -> Nat]]]
  BY MintedType DEF RInv, Stage
<1>5. TypeOK'
  BY <1>1, <1>3, <1>4 DEF RInv, TypeOK
<1>6. SnapshotIsPublishedState' /\ DeliveredContentIsValid'
  BY <1>1 DEF RInv, SnapshotIsPublishedState, DeliveredContentIsValid, Revision,
              Latest, Valid, SameGroup
<1> QED BY <1>3, <1>5, <1>6 DEF RInv

LEMMA RestoreKeeps ==
    ASSUME RInv, NEW o \in Principal, NEW e \in live, NEW K \in SUBSET Key,
           NEW r \in 1 .. Revision(e) - 1, Restore(o, e, r, K)
    PROVE  RInv'
<1> DEFINE target == snapshots[e][r]
           changed == {k \in K : target.cells[k].val # cells[e][k].val}
           w == [k \in changed |-> target.cells[k].val]
           sel == Closure(pending', {NewDraft(o, e, k, target.cells[k].val, "restore") :
                                      k \in changed})
           preview == [token |-> Token(sel),
                       after |-> [k \in Key |-> Applied(sel)[e][k].val]]
<1>1. UNCHANGED <<live, spent, schema, cells, snapshots, written>>
  BY DEF Restore
<1>2. e \in Env /\ target \in Snapshot
  <2>1. e \in Env /\ snapshots[e] \in Seq(Snapshot)
    BY DEF RInv, TypeOK
  <2>2. r \in 1 .. Len(snapshots[e])
    BY <2>1 DEF Revision
  <2> QED BY <2>1, <2>2
<1>3. changed \subseteq schema.keys
  BY DEF Restore, Restorable
<1>4. w \in [changed -> Value \cup {NoValue}]
  <2>1. \A k \in Key : target.cells[k] \in Entry
    BY <1>2 DEF Snapshot
  <2>2. \A k \in Key : target.cells[k].val \in Value \cup {NoValue}
    BY <2>1 DEF Entry, Absent
  <2> QED BY <2>2
<1>5. pending' = Restaged(o, e, changed, w, "restore")
  BY DEF Restore, Restaged
<1>6. /\ pending' \subseteq Draft
      /\ DraftsNameLiveCells'
  <2> HIDE DEF w, changed
  <2> QED BY <1>1, <1>3, <1>4, <1>5, RestageKeeps DEF DraftsNameLiveCells
<1>7. lastVer' \in [Principal -> [Env -> [Key -> Nat]]]
  <2>1. lastVer' = Minted(o, e, changed) /\ changed \in SUBSET Key
    BY DEF Restore
  <2> HIDE DEF changed
  <2> QED BY <1>2, <2>1, MintedType DEF RInv
<1>8. previews' = previews \cup {preview}
  BY DEF Restore
<1>9. preview.token.changes \subseteq Draft /\ preview.after \in [Key -> Value \cup {NoValue}]
  <2>1. sel \in SUBSET Draft
    <3>1. {NewDraft(o, e, k, target.cells[k].val, "restore") : k \in changed} \subseteq pending'
      BY <1>5 DEF Restaged
    <3> QED BY <1>6, <3>1, ClosureWithin
  <2> HIDE DEF sel
  <2>2. Applied(sel) \in [Env -> [Key -> Entry]]
    BY <2>1, AppliedFacts DEF RInv
  <2>3. \A k \in Key : Applied(sel)[e][k] \in Entry
    BY <1>2, <2>2
  <2>4. \A k \in Key : Applied(sel)[e][k].val \in Value \cup {NoValue}
    BY <2>3 DEF Entry, Absent
  <2> QED BY <2>1, <2>4 DEF Token
<1>10. TypeOK'
  <2> HIDE DEF preview
  <2> QED BY <1>1, <1>6, <1>7, <1>8, <1>9 DEF RInv, TypeOK
<1>11. SnapshotIsPublishedState' /\ DeliveredContentIsValid'
  BY <1>1 DEF RInv, SnapshotIsPublishedState, DeliveredContentIsValid, Revision,
              Latest, Valid, SameGroup
<1> QED BY <1>6, <1>10, <1>11 DEF RInv

\* A step that keeps what every direct write keeps: drafts, catalogue and
\* environments stay, cells move through Materialize.
LEMMA WriteKeeps ==
    ASSUME RInv, NEW E \in SUBSET Env, NEW c \in [Env -> [Key -> Entry]],
           \A e \in Env \ E : c[e] = cells[e],
           Materialize(schema, E, c),
           pending' \subseteq pending,
           UNCHANGED <<live, spent, schema, lastVer, previews>>
    PROVE  RInv'
<1>1. schema \in Schema
  BY DEF RInv, TypeOK
<1>2. \A e \in live \ E : Valid(schema, e, cells[e])
  BY CellsValid
<1>3. /\ cells' \in [Env -> [Key -> Entry]]
      /\ written' \in [Env -> [Key -> Nat]]
      /\ snapshots' \in [Env -> Seq(Snapshot)]
      /\ SnapshotIsPublishedState'
      /\ DeliveredContentIsValid'
  BY <1>1, <1>2, MaterializeKeeps DEF RInv
<1>4. TypeOK'
  BY <1>3 DEF RInv, TypeOK
<1>5. DraftsNameLiveCells'
  BY DEF RInv, DraftsNameLiveCells
<1> QED BY <1>3, <1>4, <1>5 DEF RInv

LEMMA PublishKeeps ==
    ASSUME RInv, NEW o \in Principal, NEW S \in SUBSET pending, Publish(o, S)
    PROVE  RInv'
<1> DEFINE sel == Closure(pending, S)
           E == {d.env : d \in sel}
<1>1. /\ Materialize(schema, E, Applied(sel))
      /\ pending' \subseteq pending
      /\ UNCHANGED <<live, spent, schema, lastVer, previews>>
  BY DEF Publish
<1>2. sel \in SUBSET Draft
  BY ClosureWithin DEF RInv, TypeOK
<1>3. E \in SUBSET Env
  BY <1>2 DEF Draft
<1>4. /\ Applied(sel) \in [Env -> [Key -> Entry]]
      /\ \A e \in Env \ E : Applied(sel)[e] = cells[e]
  <2> HIDE DEF sel
  <2> QED BY <1>2, AppliedFacts DEF RInv
<1> HIDE DEF sel, E
<1> QED BY <1>1, <1>3, <1>4, WriteKeeps

LEMMA DeclareKeeps ==
    ASSUME RInv, NEW E \in SUBSET Env, NEW k \in Key, NEW v \in Value, Declare(E, k, v)
    PROVE  RInv'
<1> DEFINE w == [j \in {k} |-> v]
<1>1. /\ Materialize(schema, E, Wrote(E, {k}, w))
      /\ pending' \subseteq pending
      /\ UNCHANGED <<live, spent, schema, lastVer, previews>>
  BY DEF Declare
<1>2. w \in [{k} -> Value] /\ {k} \in SUBSET Key
  OBVIOUS
<1> HIDE DEF w
<1>3. /\ Wrote(E, {k}, w) \in [Env -> [Key -> Entry]]
      /\ \A e \in Env \ E : Wrote(E, {k}, w)[e] = cells[e]
  BY <1>2, WroteFacts DEF RInv
<1> QED BY <1>1, <1>3, WriteKeeps

\* A cell that is set holds a value.
LEMMA SetCellHasValue ==
    ASSUME TypeOK, NEW e \in Env, NEW k \in Key, IsSet(cells[e][k])
    PROVE  cells[e][k].val \in Value
<1>1. cells[e][k] \in Entry
  BY DEF TypeOK
<1> QED BY <1>1 DEF Entry, Absent, IsSet

LEMMA CopyKeeps ==
    ASSUME RInv, NEW src \in Env, NEW K \in SUBSET Key, NEW E \in SUBSET Env,
           Copy(src, K, E)
    PROVE  RInv'
<1> DEFINE w == [k \in K |-> cells[src][k].val]
<1>1. /\ Materialize(schema, E, Wrote(E, K, w))
      /\ pending' \subseteq pending
      /\ UNCHANGED <<live, spent, schema, lastVer, previews>>
  BY DEF Copy
<1>2. w \in [K -> Value]
  BY SetCellHasValue DEF Copy, RInv
<1> HIDE DEF w
<1>3. /\ Wrote(E, K, w) \in [Env -> [Key -> Entry]]
      /\ \A e \in Env \ E : Wrote(E, K, w)[e] = cells[e]
  BY <1>2, WroteFacts DEF RInv
<1> QED BY <1>1, <1>3, WriteKeeps

\* fanOutSchemaPublish: whatever the new catalogue is, each live environment
\* is validated against it, so a change some environment does not meet is
\* refused.
LEMMA FanOutKeeps ==
    ASSUME RInv, NEW s \in Schema, FanOut(s), live' = live
    PROVE  /\ schema' \in Schema
           /\ schema'.keys = s.keys
           /\ cells' = cells
           /\ written' \in [Env -> [Key -> Nat]]
           /\ snapshots' \in [Env -> Seq(Snapshot)]
           /\ SnapshotIsPublishedState'
           /\ DeliveredContentIsValid'
<1> DEFINE t == [s EXCEPT !.rev = schema.rev + 1]
<1>1. schema' = t /\ Materialize(t, live, cells)
  BY DEF FanOut
<1>2. t \in Schema /\ t.keys = s.keys
  <2>1. schema.rev + 1 \in Nat
    BY DEF RInv, TypeOK, Schema
  <2> QED BY <2>1 DEF Schema
<1> HIDE DEF t
<1>3. live \in SUBSET Env /\ cells \in [Env -> [Key -> Entry]]
  BY DEF RInv, TypeOK
<1>4. cells' = cells
  BY <1>1 DEF Materialize
<1>5. /\ \A e \in Env \ live : cells[e] = cells[e]
      /\ \A e \in live \ live : Valid(t, e, cells[e])
  OBVIOUS
<1>6. /\ written' \in [Env -> [Key -> Nat]]
      /\ snapshots' \in [Env -> Seq(Snapshot)]
      /\ SnapshotIsPublishedState'
      /\ DeliveredContentIsValid'
  BY <1>1, <1>2, <1>3, <1>5, MaterializeKeeps DEF RInv
<1> QED BY <1>1, <1>2, <1>4, <1>6

\* A schema change preserves RInv when the drafts it keeps name declared keys.
LEMMA SchemaChangeKeeps ==
    ASSUME RInv, NEW s \in Schema, FanOut(s),
           spent' \subseteq Env \cup Key,
           pending' \subseteq pending,
           \A d \in pending' : d.key \in s.keys,
           UNCHANGED <<live, lastVer, previews>>
    PROVE  RInv'
<1>1. /\ schema' \in Schema
      /\ schema'.keys = s.keys
      /\ cells' = cells
      /\ written' \in [Env -> [Key -> Nat]]
      /\ snapshots' \in [Env -> Seq(Snapshot)]
      /\ SnapshotIsPublishedState'
      /\ DeliveredContentIsValid'
  BY FanOutKeeps
<1>2. TypeOK'
  BY <1>1 DEF RInv, TypeOK
<1>3. DraftsNameLiveCells'
  BY <1>1 DEF RInv, DraftsNameLiveCells
<1> QED BY <1>1, <1>2, <1>3 DEF RInv

LEMMA CreateKeyKeeps ==
    ASSUME RInv, NEW k \in Key, NEW d \in Declaration, NEW g \in Group \cup {NoGroup},
           CreateKey(k, d, g)
    PROVE  RInv'
<1> DEFINE s == [schema EXCEPT !.keys = @ \cup {k}, !.rule[k] = d, !.group[k] = g]
<1>1. s \in Schema /\ s.keys = schema.keys \cup {k}
  BY RevisionsAssumption DEF RInv, TypeOK, Schema
<1>2. FanOut(s) /\ spent' = spent \cup {k} /\ UNCHANGED <<live, pending, lastVer, previews>>
  BY DEF CreateKey
<1> HIDE DEF s
<1>3. \A x \in pending' : x.key \in s.keys
  BY <1>1, <1>2 DEF RInv, DraftsNameLiveCells
<1>4. spent' \subseteq Env \cup Key
  BY <1>2 DEF RInv, TypeOK
<1> QED BY <1>1, <1>2, <1>3, <1>4, SchemaChangeKeeps

LEMMA UpdateDeclarationKeeps ==
    ASSUME RInv, NEW k \in Key, NEW d \in Declaration, UpdateDeclaration(k, d)
    PROVE  RInv'
<1> DEFINE s == [schema EXCEPT !.rule[k] = d]
<1>1. s \in Schema /\ s.keys = schema.keys
  BY RevisionsAssumption DEF RInv, TypeOK, Schema
<1>2. FanOut(s) /\ UNCHANGED <<live, spent, pending, lastVer, previews>>
  BY DEF UpdateDeclaration
<1> HIDE DEF s
<1>3. \A x \in pending' : x.key \in s.keys
  BY <1>1, <1>2 DEF RInv, DraftsNameLiveCells
<1>4. spent' \subseteq Env \cup Key
  BY <1>2 DEF RInv, TypeOK
<1> QED BY <1>1, <1>2, <1>3, <1>4, SchemaChangeKeeps

LEMMA SetGroupKeeps ==
    ASSUME RInv, NEW k \in Key, NEW g \in Group \cup {NoGroup}, SetGroup(k, g)
    PROVE  RInv'
<1> DEFINE s == [schema EXCEPT !.group[k] = g]
<1>1. s \in Schema /\ s.keys = schema.keys
  BY DEF RInv, TypeOK, Schema
<1>2. FanOut(s) /\ UNCHANGED <<live, spent, pending, lastVer, previews>>
  BY DEF SetGroup
<1> HIDE DEF s
<1>3. \A x \in pending' : x.key \in s.keys
  BY <1>1, <1>2 DEF RInv, DraftsNameLiveCells
<1>4. spent' \subseteq Env \cup Key
  BY <1>2 DEF RInv, TypeOK
<1> QED BY <1>1, <1>2, <1>3, <1>4, SchemaChangeKeeps

LEMMA DeleteKeyKeeps ==
    ASSUME RInv, NEW k \in Key, DeleteKey(k)
    PROVE  RInv'
<1> DEFINE s == [schema EXCEPT !.keys = @ \ {k}, !.rule[k] = Optional,
                               !.group[k] = NoGroup]
<1>1. s \in Schema /\ s.keys = schema.keys \ {k}
  <2>1. Optional \in Declarations
    BY RevisionsAssumption
  <2> QED BY <2>1 DEF RInv, TypeOK, Schema
<1>2. /\ FanOut(s)
      /\ pending' = {x \in pending : x.key # k}
      /\ UNCHANGED <<live, spent, lastVer, previews>>
  BY DEF DeleteKey
<1> HIDE DEF s
<1>3. pending' \subseteq pending /\ \A x \in pending' : x.key \in s.keys
  BY <1>1, <1>2 DEF RInv, DraftsNameLiveCells
<1>4. spent' \subseteq Env \cup Key
  BY <1>2 DEF RInv, TypeOK
<1> QED BY <1>1, <1>2, <1>3, <1>4, SchemaChangeKeeps

LEMMA CreateEnvKeeps ==
    ASSUME RInv, NEW e \in Env, NEW src \in Env, NEW K \in SUBSET Key, CreateEnv(e, src, K)
    PROVE  RInv'
<1> DEFINE s == [schema EXCEPT !.rev = @ + 1]
           w == [k \in K |-> cells[src][k].val]
<1>1. /\ schema' = s
      /\ live' = live \cup {e}
      /\ spent' = spent \cup {e}
      /\ Materialize(s, {e}, Wrote({e}, K, w))
      /\ UNCHANGED <<pending, lastVer, previews>>
  BY DEF CreateEnv
<1>2. /\ s \in Schema
      /\ s.keys = schema.keys /\ s.rule = schema.rule /\ s.group = schema.group
  <2>1. schema.rev + 1 \in Nat /\ schema \in Schema
    BY DEF RInv, TypeOK, Schema
  <2> QED BY <2>1 DEF Schema
<1>3. w \in [K -> Value]
  BY SetCellHasValue DEF CreateEnv, RInv
<1> HIDE DEF s, w
<1>4. /\ Wrote({e}, K, w) \in [Env -> [Key -> Entry]]
      /\ \A x \in Env \ {e} : Wrote({e}, K, w)[x] = cells[x]
  BY <1>3, WroteFacts DEF RInv
<1>5. \A x \in live \ {e} : Valid(s, x, cells[x])
  BY <1>2, CellsValid
<1>6. /\ cells' \in [Env -> [Key -> Entry]]
      /\ written' \in [Env -> [Key -> Nat]]
      /\ snapshots' \in [Env -> Seq(Snapshot)]
      /\ SnapshotIsPublishedState'
      /\ DeliveredContentIsValid'
  BY <1>1, <1>2, <1>4, <1>5, MaterializeKeeps DEF RInv
<1>7. TypeOK'
  BY <1>1, <1>2, <1>6 DEF RInv, TypeOK
<1>8. DraftsNameLiveCells'
  BY <1>1, <1>2 DEF RInv, DraftsNameLiveCells
<1> QED BY <1>6, <1>7, <1>8 DEF RInv

\* cascadeEnvironmentPresence only ever narrows a rule, and for the
\* environments that remain not at all.
LEMMA WithoutFacts ==
    ASSUME NEW rule \in SUBSET Env, NEW e \in Env
    PROVE  /\ Without(rule, e) \in SUBSET Env
           /\ \A x \in Env \ {e} : x \in Without(rule, e) <=> x \in rule
  BY DEF Without

LEMMA DeleteEnvKeeps ==
    ASSUME RInv, NEW e \in Env, DeleteEnv(e)
    PROVE  RInv'
<1> DEFINE blank == [k \in Key |-> Absent]
<1>1. /\ live' = live \ {e}
      /\ schema' = [schema EXCEPT !.rev = @ + 1, !.rule = [k \in Key |-> Cascaded(@[k], e)]]
      /\ cells' = [cells EXCEPT ![e] = blank]
      /\ pending' = {d \in pending : d.env # e}
      /\ snapshots' = [snapshots EXCEPT ![e] = <<>>]
      /\ UNCHANGED <<spent, lastVer, previews, written>>
  BY DEF DeleteEnv
<1>2. ASSUME NEW d \in Declarations
      PROVE  /\ Cascaded(d, e) \in Declarations
             /\ Cascaded(d, e).accepts = d.accepts
             /\ Cascaded(d, e).required = Without(d.required, e)
             /\ Cascaded(d, e).forbidden = Without(d.forbidden, e)
  BY WithoutFacts DEF Declarations, Cascaded
<1>3. schema \in Schema /\ schema.rev + 1 \in Nat /\ schema.rule \in [Key -> Declarations]
  BY DEF RInv, TypeOK, Schema
<1>4. /\ schema'.rev = schema.rev + 1
      /\ schema'.keys = schema.keys
      /\ schema'.group = schema.group
      /\ schema'.rule = [k \in Key |-> Cascaded(schema.rule[k], e)]
      /\ schema' \in Schema
  <2>1. [k \in Key |-> Cascaded(schema.rule[k], e)] \in [Key -> Declarations]
    BY <1>2, <1>3
  <2> QED BY <1>1, <1>3, <2>1 DEF Schema
<1>5. blank \in [Key -> Entry]
  BY DEF Entry
<1> HIDE DEF blank
<1>6. TypeOK'
  BY <1>1, <1>4, <1>5 DEF RInv, TypeOK
<1>7. ASSUME NEW x \in live'
      PROVE  /\ x \in live /\ x \in Env /\ x # e
             /\ snapshots'[x] = snapshots[x] /\ cells'[x] = cells[x]
  BY <1>1 DEF RInv, TypeOK
<1>8. SnapshotIsPublishedState'
  BY <1>7 DEF RInv, SnapshotIsPublishedState, Revision, Latest
<1>9. ASSUME NEW x \in live'
      PROVE  Valid(schema', x, cells[x])
  <2>1. Valid(schema, x, cells[x])
    BY <1>7, CellsValid
  <2>2. schema.keys \subseteq Key
    BY <1>3 DEF Schema
  <2>3. ASSUME NEW k \in schema.keys
        PROVE  /\ x \in schema'.rule[k].required <=> x \in schema.rule[k].required
               /\ x \in schema'.rule[k].forbidden <=> x \in schema.rule[k].forbidden
               /\ schema'.rule[k].accepts = schema.rule[k].accepts
    <3>1. schema.rule[k] \in Declarations /\ schema'.rule[k] = Cascaded(schema.rule[k], e)
      BY <1>3, <1>4, <2>2
    <3>2. schema.rule[k].required \in SUBSET Env /\ schema.rule[k].forbidden \in SUBSET Env
      BY <3>1 DEF Declarations
    <3> QED BY <1>2, <1>7, <3>1, <3>2, WithoutFacts
  <2> QED BY <1>4, <2>1, <2>3 DEF Valid, SameGroup
<1>10. DeliveredContentIsValid'
  BY <1>7, <1>8, <1>9 DEF DeliveredContentIsValid, SnapshotIsPublishedState
<1>11. DraftsNameLiveCells'
  BY <1>1, <1>4 DEF RInv, DraftsNameLiveCells
<1> QED BY <1>6, <1>8, <1>10, <1>11 DEF RInv

LEMMA CollectKeeps ==
    ASSUME RInv, NEW e \in live, NEW r \in 1 .. Revision(e), Collect(e, r)
    PROVE  RInv'
<1>1. /\ r < Revision(e)
      /\ snapshots' = [snapshots EXCEPT ![e][r] = Collected(@)]
      /\ UNCHANGED <<live, spent, schema, cells, pending, lastVer, previews, written>>
  BY DEF Collect
<1>2. e \in Env /\ snapshots[e] \in Seq(Snapshot) /\ Revision(e) = Len(snapshots[e])
  BY DEF RInv, TypeOK, Revision
<1>3. snapshots[e][r] \in Snapshot
  BY <1>2
<1>4. Collected(snapshots[e][r]) \in Snapshot
  <2>1. [k \in Key |-> Absent] \in [Key -> Entry]
    BY DEF Entry
  <2> QED BY <1>3, <2>1 DEF Collected, Snapshot
<1>5. /\ snapshots'[e] = [snapshots[e] EXCEPT ![r] = Collected(snapshots[e][r])]
      /\ \A x \in Env \ {e} : snapshots'[x] = snapshots[x]
      /\ snapshots' = [x \in Env |-> snapshots'[x]]
  BY <1>1, <1>2 DEF RInv, TypeOK
<1>6. /\ snapshots'[e] \in Seq(Snapshot)
      /\ Len(snapshots'[e]) = Len(snapshots[e])
      /\ snapshots'[e][Len(snapshots[e])] = snapshots[e][Len(snapshots[e])]
  BY <1>1, <1>2, <1>4, <1>5
<1>7. snapshots' \in [Env -> Seq(Snapshot)]
  <2>1. \A x \in Env : snapshots'[x] \in Seq(Snapshot)
    BY <1>5, <1>6 DEF RInv, TypeOK
  <2> QED BY <1>5, <2>1
<1>8. TypeOK'
  BY <1>1, <1>7 DEF RInv, TypeOK
<1>9. ASSUME NEW x \in live
      PROVE  /\ Len(snapshots'[x]) = Len(snapshots[x])
             /\ snapshots'[x][Len(snapshots[x])] = snapshots[x][Len(snapshots[x])]
  BY <1>5, <1>6 DEF RInv, TypeOK
<1>10. SnapshotIsPublishedState' /\ DeliveredContentIsValid'
  BY <1>1, <1>9 DEF RInv, SnapshotIsPublishedState, DeliveredContentIsValid, Revision,
                    Latest, Valid, SameGroup
<1>11. DraftsNameLiveCells'
  BY <1>1 DEF RInv, DraftsNameLiveCells
<1> QED BY <1>8, <1>10, <1>11 DEF RInv

LEMMA NextKeepsRInv == RInv /\ [Next]_vars => RInv'
<1> SUFFICES ASSUME RInv, [Next]_vars PROVE RInv'
  OBVIOUS
<1>1. CASE UNCHANGED vars
  BY <1>1 DEF RInv, TypeOK, SnapshotIsPublishedState, DeliveredContentIsValid,
              DraftsNameLiveCells, Revision, Latest, Valid, SameGroup, vars
<1>2. CASE \E o \in Principal, e \in Env, k \in Key, v \in Value \cup {NoValue} :
              Stage(o, e, k, v)
  BY <1>2, StageKeeps
<1>3. CASE \E o \in Principal, S \in SUBSET pending : Publish(o, S)
  BY <1>3, PublishKeeps
<1>4. CASE \E o \in Principal, e \in live, K \in SUBSET Key :
              \E r \in 1 .. Revision(e) - 1 : Restore(o, e, r, K)
  BY <1>4, RestoreKeeps
<1>5. CASE \E E \in SUBSET Env, k \in Key, v \in Value : Declare(E, k, v)
  BY <1>5, DeclareKeeps
<1>6. CASE \E src \in Env, K \in SUBSET Key, E \in SUBSET Env : Copy(src, K, E)
  BY <1>6, CopyKeeps
<1>7. CASE \E k \in Key, d \in Declaration, g \in Group \cup {NoGroup} : CreateKey(k, d, g)
  BY <1>7, CreateKeyKeeps
<1>8. CASE \E k \in Key, d \in Declaration : UpdateDeclaration(k, d)
  BY <1>8, UpdateDeclarationKeeps
<1>9. CASE \E k \in Key, g \in Group \cup {NoGroup} : SetGroup(k, g)
  BY <1>9, SetGroupKeeps
<1>10. CASE \E k \in Key : DeleteKey(k)
  BY <1>10, DeleteKeyKeeps
<1>11. CASE \E e, src \in Env, K \in SUBSET Key : CreateEnv(e, src, K)
  BY <1>11, CreateEnvKeeps
<1>12. CASE \E e \in Env : DeleteEnv(e)
  BY <1>12, DeleteEnvKeeps
<1>13. CASE \E e \in live : \E r \in 1 .. Revision(e) : Collect(e, r)
  BY <1>13, CollectKeeps
<1> QED BY <1>1, <1>2, <1>3, <1>4, <1>5, <1>6, <1>7, <1>8, <1>9, <1>10, <1>11, <1>12,
           <1>13 DEF Next

LEMMA RInvHolds == Spec => []RInv
  BY InitRInv, NextKeepsRInv, PTL DEF Spec

\* Every reachable state of the configuration store is well typed.
THEOREM RevisionsTypeCorrect == Spec => []TypeOK
<1>1. RInv => TypeOK
  BY DEF RInv
<1> QED BY <1>1, RInvHolds, PTL

\* Delivery and the published cells never disagree, whatever the operations
\* and their order: the newest snapshot of an environment holds its cells.
THEOREM DeliveryFollowsPublish == Spec => []SnapshotIsPublishedState
<1>1. RInv => SnapshotIsPublishedState
  BY DEF RInv
<1> QED BY <1>1, RInvHolds, PTL

\* Delivered content always satisfies the current schema, in projects of any
\* size.
THEOREM DeliveryIsValid == Spec => []DeliveredContentIsValid
<1>1. RInv => DeliveredContentIsValid
  BY DEF RInv
<1> QED BY <1>1, RInvHolds, PTL

\* Drafts name live cells, one per owner and cell, in every reachable state.
THEOREM DraftsStayLive == Spec => []DraftsNameLiveCells
<1>1. RInv => DraftsNameLiveCells
  BY DEF RInv
<1> QED BY <1>1, RInvHolds, PTL

-----------------------------------------------------------------------------
(* The history Revisions keeps: what snapshots, row ids, drafts and         *)
(* previews say about the writes that led to them.  HInv is inductive      *)
(* relative to RInv.                                                       *)

\* The id of a set cell tells how often the cell has been written.
CellIds ==
    \A e \in Env, k \in Key : IsSet(cells[e][k]) => cells[e][k].id = written[e][k]

\* So does the row a draft was staged against.
DraftBases ==
    \A d \in pending : d.base # 0 => d.base = d.seen

\* Nothing is published in an environment that is not live, and no id that is
\* live can be minted again.
UnbornIsEmpty ==
    /\ live \subseteq spent
    /\ \A e \in Env \ live : snapshots[e] = <<>>

HInv == CellIds /\ DraftBases /\ UnbornIsEmpty /\ LineageExplainsHistory

\* Cells as a write may leave them: as they were, empty, or under a new id.
NewCells(c) ==
    \A e \in Env, k \in Key :
        \/ c[e][k] = cells[e][k]
        \/ c[e][k] = Absent
        \/ c[e][k].id = written[e][k] + 1

LEMMA EntryOfNew ==
    ASSUME NEW e, NEW k, NEW v
    PROVE  EntryOf(e, k, v) = Absent \/ EntryOf(e, k, v).id = written[e][k] + 1
  BY DEF EntryOf

LEMMA WroteNew ==
    ASSUME NEW E, NEW K, NEW v PROVE NewCells(Wrote(E, K, v))
<1> SUFFICES ASSUME NEW e \in Env, NEW k \in Key
             PROVE  \/ Wrote(E, K, v)[e][k] = cells[e][k]
                    \/ Wrote(E, K, v)[e][k] = Absent
                    \/ Wrote(E, K, v)[e][k].id = written[e][k] + 1
  BY DEF NewCells
<1>1. Wrote(E, K, v)[e][k] = IF e \in E /\ k \in K THEN EntryOf(e, k, v[k])
                                                  ELSE cells[e][k]
  BY DEF Wrote
<1> QED BY <1>1, EntryOfNew

LEMMA AppliedNew ==
    ASSUME NEW sel PROVE NewCells(Applied(sel))
<1> SUFFICES ASSUME NEW e \in Env, NEW k \in Key
             PROVE  \/ Applied(sel)[e][k] = cells[e][k]
                    \/ Applied(sel)[e][k] = Absent
                    \/ Applied(sel)[e][k].id = written[e][k] + 1
  BY DEF NewCells
<1> DEFINE v == (CHOOSE d \in sel : d.env = e /\ d.key = k).val
<1>1. Applied(sel)[e][k] = cells[e][k] \/ Applied(sel)[e][k] = EntryOf(e, k, v)
  BY DEF Applied
<1> HIDE DEF v
<1> QED BY <1>1, EntryOfNew

\* Two entries a cell can hold across one write are equal when their ids are.
LEMMA IdTellsEntry ==
    ASSUME TypeOK, CellIds, NEW e \in Env, NEW k \in Key, NEW x \in Entry,
           \/ x = cells[e][k]
           \/ x = Absent
           \/ x.id = written[e][k] + 1,
           x.id = cells[e][k].id
    PROVE  x = cells[e][k]
<1>1. cells[e][k] \in Entry /\ written[e][k] \in Nat
  BY DEF TypeOK
<1>2. CASE x = Absent
  BY <1>1, <1>2 DEF Entry, Absent
<1>3. CASE x.id = written[e][k] + 1
  <2>1. cells[e][k].id = written[e][k] + 1 /\ cells[e][k].id # 0
    BY <1>1, <1>3
  <2>2. cells[e][k].id = written[e][k]
    BY <2>1 DEF CellIds, IsSet
  <2> QED BY <1>1, <2>1, <2>2
<1> QED BY <1>2, <1>3

\* materialize only ever appends (repos_revisions.go, CreateSnapshot).
LEMMA MaterializeAppends ==
    ASSUME TypeOK, NEW s, NEW E, NEW c, Materialize(s, E, c), NEW e \in Env
    PROVE  \/ e \notin E /\ snapshots'[e] = snapshots[e]
           \/ e \in E /\ snapshots'[e] = Append(snapshots[e], NewSnapshot(s, e, c[e]))
  BY DEF Materialize

LEMMA MaterializeHistory ==
    ASSUME RInv, HInv, NEW s, NEW E \in SUBSET Env,
           NEW c \in [Env -> [Key -> Entry]], NewCells(c), Materialize(s, E, c),
           live' = live \cup E, spent \cup E \subseteq spent',
           live' \subseteq spent'
    PROVE  CellIds' /\ UnbornIsEmpty' /\ LineageExplainsHistory'
<1>1. CellIds'
  <2> SUFFICES ASSUME NEW e \in Env, NEW k \in Key, IsSet(c[e][k])
               PROVE  c[e][k].id = written'[e][k]
    BY DEF CellIds, Materialize
  <2>1. written'[e][k] = written[e][k] + (IF c[e][k] = cells[e][k] THEN 0 ELSE 1)
    BY DEF Materialize
  <2>2. written[e][k] \in Nat
    BY DEF RInv, TypeOK
  <2>3. CASE c[e][k] = cells[e][k]
    BY <2>1, <2>2, <2>3 DEF HInv, CellIds
  <2>4. CASE c[e][k] # cells[e][k]
    <3>1. c[e][k].id = written[e][k] + 1
      BY <2>4 DEF NewCells, IsSet, Absent
    <3> QED BY <2>1, <2>2, <2>4, <3>1
  <2> QED BY <2>3, <2>4
<1>2. UnbornIsEmpty'
  <2>1. \A e \in Env \ live' : snapshots'[e] = <<>>
    BY DEF HInv, UnbornIsEmpty, Materialize
  <2> QED BY <2>1 DEF UnbornIsEmpty
<1>3. LineageExplainsHistory'
  <2> SUFFICES ASSUME NEW e \in live', NEW r \in 2 .. Len(snapshots'[e]),
                      snapshots'[e][r - 1].payload, snapshots'[e][r].payload,
                      NEW k \in Key \ snapshots'[e][r].changed
               PROVE  snapshots'[e][r].cells[k] = snapshots'[e][r - 1].cells[k]
    BY DEF LineageExplainsHistory, Revision
  <2>0. e \in Env /\ snapshots[e] \in Seq(Snapshot)
    BY DEF RInv, TypeOK
  <2>1. CASE e \notin E
    <3>1. e \in live /\ snapshots'[e] = snapshots[e]
      BY <2>0, <2>1 DEF Materialize
    <3> QED BY <3>1 DEF HInv, LineageExplainsHistory, Revision
  <2>2. CASE e \in E
    <3> DEFINE n == NewSnapshot(s, e, c[e])
    <3>1. snapshots'[e] = Append(snapshots[e], n)
      BY <2>0, <2>2 DEF Materialize
    <3>2. n.cells = c[e] /\ n.changed = Lineage(e, c[e])
      BY DEF NewSnapshot
    <3> HIDE DEF n
    <3>3. Len(snapshots'[e]) = Len(snapshots[e]) + 1
      BY <2>0, <3>1
    <3>4. Len(snapshots[e]) > 0
      BY <2>0, <3>3
    <3>5. e \in live
      BY <2>0, <3>4 DEF HInv, UnbornIsEmpty
    <3>6. \A i \in 1 .. Len(snapshots[e]) : snapshots'[e][i] = snapshots[e][i]
      BY <2>0, <3>1
    <3>7. CASE r <= Len(snapshots[e])
      <4>1. snapshots'[e][r] = snapshots[e][r] /\ snapshots'[e][r - 1] = snapshots[e][r - 1]
        BY <2>0, <3>6, <3>7
      <4>2. r \in 2 .. Revision(e)
        BY <2>0, <3>7 DEF Revision
      <4> QED BY <3>5, <4>1, <4>2 DEF HInv, LineageExplainsHistory
    <3>8. CASE r = Len(snapshots[e]) + 1
      <4>1. snapshots'[e][r] = n
        BY <2>0, <3>1, <3>8
      <4>2. snapshots'[e][r - 1].cells = cells[e] /\ Latest(e).cells = cells[e]
        BY <2>0, <3>4, <3>5, <3>6, <3>8 DEF RInv, SnapshotIsPublishedState, Latest, Revision
      <4>3. Revision(e) # 0
        BY <2>0, <3>4 DEF Revision
      <4>4. c[e][k].id = cells[e][k].id
        BY <3>2, <4>1, <4>2, <4>3 DEF Lineage
      <4>5. c[e][k] = cells[e][k]
        BY <2>0, <4>4, IdTellsEntry DEF RInv, HInv, NewCells
      <4> QED BY <3>2, <4>1, <4>2, <4>5
    <3> QED BY <2>0, <3>3, <3>7, <3>8
  <2> QED BY <2>1, <2>2
<1> QED BY <1>1, <1>2, <1>3

LEMMA InitHInv == Init => HInv
<1> SUFFICES ASSUME Init PROVE HInv
  OBVIOUS
<1>1. CellIds
  BY DEF Init, CellIds, IsSet, Absent
<1>2. DraftBases
  BY DEF Init, DraftBases
<1>3. UnbornIsEmpty
  BY DEF Init, UnbornIsEmpty
<1>4. LineageExplainsHistory
  <2>1. \A e \in live : Len(snapshots[e]) = 1
    BY RevisionsAssumption DEF Init
  <2>2. \A r \in 2 .. 1 : FALSE
    OBVIOUS
  <2> QED BY <2>1, <2>2 DEF LineageExplainsHistory, Revision
<1> QED BY <1>1, <1>2, <1>3, <1>4 DEF HInv

\* Staging and restoring write no cell; the drafts they add name the row the
\* cell holds.
LEMMA RestageHistory ==
    ASSUME RInv, HInv, NEW o \in Principal, NEW e \in live, NEW K \in SUBSET schema.keys,
           NEW v \in [K -> Value \cup {NoValue}], NEW src \in {"values", "restore"},
           pending' = Restaged(o, e, K, v, src),
           UNCHANGED <<live, spent, schema, cells, snapshots, written>>
    PROVE  HInv'
<1>1. e \in Env /\ K \subseteq Key
  BY DEF RInv, TypeOK, Schema
<1>2. ASSUME NEW k \in K
      PROVE  LET d == NewDraft(o, e, k, v[k], src) IN d.base # 0 => d.base = d.seen
  <2>1. /\ NewDraft(o, e, k, v[k], src).base = cells[e][k].id
        /\ NewDraft(o, e, k, v[k], src).seen = written[e][k]
    BY <1>1, NewDraftType DEF RInv
  <2> QED BY <1>1, <2>1 DEF HInv, CellIds, IsSet
<1>3. DraftBases'
  BY <1>2 DEF HInv, DraftBases, Restaged
<1>4. CellIds' /\ UnbornIsEmpty' /\ LineageExplainsHistory'
  BY DEF HInv, CellIds, UnbornIsEmpty, LineageExplainsHistory, Revision
<1> QED BY <1>3, <1>4 DEF HInv

LEMMA FewerDrafts ==
    ASSUME HInv, pending' \subseteq pending PROVE DraftBases'
  BY DEF HInv, DraftBases

\* Schema changes rewrite no cell.
LEMMA FanOutHistory ==
    ASSUME RInv, HInv, NEW s, FanOut(s), pending' \subseteq pending,
           live' = live, spent \subseteq spent'
    PROVE  HInv'
<1> DEFINE t == [s EXCEPT !.rev = schema.rev + 1]
<1>1. Materialize(t, live, cells)
  BY DEF FanOut
<1> HIDE DEF t
<1>2. live \in SUBSET Env /\ cells \in [Env -> [Key -> Entry]] /\ NewCells(cells)
  BY DEF RInv, TypeOK, NewCells
<1>3. live' = live \cup live /\ spent \cup live \subseteq spent' /\ live' \subseteq spent'
  BY DEF HInv, UnbornIsEmpty
<1>4. CellIds' /\ UnbornIsEmpty' /\ LineageExplainsHistory'
  BY <1>1, <1>2, <1>3, MaterializeHistory
<1> QED BY <1>4, FewerDrafts DEF HInv

\* Erasing the payload of a revision explains nothing and hides nothing else.
LEMMA CollectHistory ==
    ASSUME RInv, HInv, NEW e \in live, NEW r \in 1 .. Revision(e), Collect(e, r)
    PROVE  HInv'
<1>1. /\ snapshots' = [snapshots EXCEPT ![e][r] = Collected(@)]
      /\ UNCHANGED <<live, spent, schema, cells, pending, lastVer, previews, written>>
  BY DEF Collect
<1>2. e \in Env /\ snapshots[e] \in Seq(Snapshot) /\ Revision(e) = Len(snapshots[e])
  BY DEF RInv, TypeOK, Revision
<1>3. /\ snapshots'[e] = [snapshots[e] EXCEPT ![r] = Collected(snapshots[e][r])]
      /\ \A x \in Env \ {e} : snapshots'[x] = snapshots[x]
  BY <1>1, <1>2 DEF RInv, TypeOK
<1>4. CellIds' /\ DraftBases'
  BY <1>1 DEF HInv, CellIds, DraftBases
<1>5. UnbornIsEmpty'
  BY <1>1, <1>3 DEF HInv, UnbornIsEmpty
<1>6. LineageExplainsHistory'
  <2> SUFFICES ASSUME NEW x \in live, NEW i \in 2 .. Len(snapshots'[x]),
                      snapshots'[x][i - 1].payload, snapshots'[x][i].payload,
                      NEW k \in Key \ snapshots'[x][i].changed
               PROVE  snapshots'[x][i].cells[k] = snapshots'[x][i - 1].cells[k]
    BY <1>1 DEF LineageExplainsHistory, Revision
  <2>1. x \in Env
    BY DEF RInv, TypeOK
  <2>2. CASE x # e
    BY <1>3, <2>1, <2>2 DEF HInv, LineageExplainsHistory, Revision
  <2>3. CASE x = e
    <3>1. snapshots[e][r] \in Snapshot
      BY <1>2
    <3>2. Collected(snapshots[e][r]).payload = FALSE
      BY <3>1 DEF Collected, Snapshot
    <3>3. Len(snapshots'[e]) = Len(snapshots[e])
      BY <1>2, <1>3
    <3>4. \A j \in 1 .. Len(snapshots[e]) :
            snapshots'[e][j] = IF j = r THEN Collected(snapshots[e][r]) ELSE snapshots[e][j]
      BY <1>2, <1>3
    <3>5. i \in 1 .. Len(snapshots[e]) /\ i - 1 \in 1 .. Len(snapshots[e]) /\ i \in 2 .. Revision(e)
      BY <1>2, <2>3, <3>3
    <3>6. i # r /\ i - 1 # r
      BY <2>3, <3>2, <3>4, <3>5
    <3>7. snapshots'[e][i] = snapshots[e][i] /\ snapshots'[e][i - 1] = snapshots[e][i - 1]
      BY <3>4, <3>5, <3>6
    <3> QED BY <2>3, <3>5, <3>7 DEF HInv, LineageExplainsHistory
  <2> QED BY <2>2, <2>3
<1> QED BY <1>4, <1>5, <1>6 DEF HInv

LEMMA DeleteEnvHistory ==
    ASSUME RInv, HInv, NEW e \in Env, DeleteEnv(e)
    PROVE  HInv'
<1>1. /\ live' = live \ {e}
      /\ cells' = [cells EXCEPT ![e] = [k \in Key |-> Absent]]
      /\ pending' \subseteq pending
      /\ snapshots' = [snapshots EXCEPT ![e] = <<>>]
      /\ UNCHANGED <<spent, written>>
  BY DEF DeleteEnv
<1>2. cells \in [Env -> [Key -> Entry]] /\ snapshots \in [Env -> Seq(Snapshot)]
  BY DEF RInv, TypeOK
<1>3. CellIds'
  BY <1>1, <1>2 DEF HInv, CellIds, IsSet, Absent
<1>4. UnbornIsEmpty'
  BY <1>1, <1>2 DEF HInv, UnbornIsEmpty
<1>5. LineageExplainsHistory'
  <2>1. \A x \in live' : x \in live /\ snapshots'[x] = snapshots[x]
    BY <1>1, <1>2 DEF RInv, TypeOK
  <2> QED BY <2>1 DEF HInv, LineageExplainsHistory, Revision
<1> QED BY <1>1, <1>3, <1>4, <1>5, FewerDrafts DEF HInv

\* Publish, Declare and Copy, seen as one write of the cells c.
LEMMA WriteHistory ==
    ASSUME RInv, HInv, NEW E \in SUBSET live, NEW c \in [Env -> [Key -> Entry]],
           NewCells(c), Materialize(schema, E, c), pending' \subseteq pending,
           UNCHANGED <<live, spent>>
    PROVE  HInv'
<1>1. E \in SUBSET Env
  BY DEF RInv, TypeOK
<1>2. live' = live \cup E /\ spent \cup E \subseteq spent' /\ live' \subseteq spent'
  BY DEF HInv, UnbornIsEmpty
<1>3. CellIds' /\ UnbornIsEmpty' /\ LineageExplainsHistory'
  BY <1>1, <1>2, MaterializeHistory
<1> QED BY <1>3, FewerDrafts DEF HInv

\* What a publish selects: pending drafts of declared keys of live
\* environments.
LEMMA SelectionFacts ==
    ASSUME RInv, NEW S \in SUBSET pending
    PROVE  /\ Closure(pending, S) \in SUBSET pending
           /\ Closure(pending, S) \in SUBSET Draft
           /\ {d.env : d \in Closure(pending, S)} \in SUBSET live
           /\ Applied(Closure(pending, S)) \in [Env -> [Key -> Entry]]
<1>1. Closure(pending, S) \in SUBSET pending
  BY ClosureWithin
<1>2. Closure(pending, S) \in SUBSET Draft
  BY <1>1 DEF RInv, TypeOK
<1>3. {d.env : d \in Closure(pending, S)} \in SUBSET live
  BY <1>1 DEF RInv, DraftsNameLiveCells
<1> QED BY <1>1, <1>2, <1>3, AppliedFacts DEF RInv

LEMMA NextKeepsHInv == RInv /\ HInv /\ [Next]_vars => HInv'
<1> SUFFICES ASSUME RInv, HInv, [Next]_vars PROVE HInv'
  OBVIOUS
<1>1. CASE UNCHANGED vars
  BY <1>1 DEF HInv, CellIds, DraftBases, UnbornIsEmpty, LineageExplainsHistory, Revision, vars
<1>2. ASSUME NEW o \in Principal, NEW e \in Env, NEW k \in Key,
             NEW v \in Value \cup {NoValue}, Stage(o, e, k, v)
      PROVE  HInv'
  <2> DEFINE w == [j \in {k} |-> v]
  <2>1. /\ e \in live /\ {k} \in SUBSET schema.keys
        /\ UNCHANGED <<live, spent, schema, cells, snapshots, written>>
        /\ pending' = Restaged(o, e, {k}, w, "values")
    BY <1>2 DEF Stage, Restaged
  <2>2. w \in [{k} -> Value \cup {NoValue}]
    OBVIOUS
  <2> HIDE DEF w
  <2> QED BY <2>1, <2>2, RestageHistory
<1>3. ASSUME NEW o \in Principal, NEW S \in SUBSET pending, Publish(o, S)
      PROVE  HInv'
  <2> DEFINE sel == Closure(pending, S)
  <2>1. /\ Materialize(schema, {d.env : d \in sel}, Applied(sel))
        /\ pending' \subseteq pending /\ UNCHANGED <<live, spent>>
    BY <1>3 DEF Publish
  <2>2. {d.env : d \in sel} \in SUBSET live /\ Applied(sel) \in [Env -> [Key -> Entry]]
    BY SelectionFacts
  <2> HIDE DEF sel
  <2> QED BY <2>1, <2>2, AppliedNew, WriteHistory
<1>4. ASSUME NEW o \in Principal, NEW e \in live, NEW K \in SUBSET Key,
             NEW r \in 1 .. Revision(e) - 1, Restore(o, e, r, K)
      PROVE  HInv'
  <2> DEFINE changed == {k \in K : snapshots[e][r].cells[k].val # cells[e][k].val}
             w == [k \in changed |-> snapshots[e][r].cells[k].val]
  <2>1. /\ changed \in SUBSET schema.keys
        /\ UNCHANGED <<live, spent, schema, cells, snapshots, written>>
        /\ pending' = Restaged(o, e, changed, w, "restore")
    BY <1>4 DEF Restore, Restorable, Restaged
  <2>2. w \in [changed -> Value \cup {NoValue}]
    <3>1. e \in Env /\ snapshots[e] \in Seq(Snapshot)
      BY DEF RInv, TypeOK
    <3>2. snapshots[e][r] \in Snapshot
      BY <3>1 DEF Revision
    <3>3. \A k \in Key : snapshots[e][r].cells[k] \in Entry
      BY <3>2 DEF Snapshot
    <3>4. \A k \in Key : snapshots[e][r].cells[k].val \in Value \cup {NoValue}
      BY <3>3 DEF Entry, Absent
    <3> QED BY <3>4
  <2> HIDE DEF changed, w
  <2> QED BY <2>1, <2>2, RestageHistory
<1>5. ASSUME NEW E \in SUBSET Env, NEW k \in Key, NEW v \in Value, Declare(E, k, v)
      PROVE  HInv'
  <2> DEFINE w == [j \in {k} |-> v]
  <2>1. /\ Materialize(schema, E, Wrote(E, {k}, w))
        /\ E \in SUBSET live /\ pending' \subseteq pending /\ UNCHANGED <<live, spent>>
    BY <1>5 DEF Declare
  <2>2. w \in [{k} -> Value] /\ {k} \in SUBSET Key
    OBVIOUS
  <2> HIDE DEF w
  <2>3. Wrote(E, {k}, w) \in [Env -> [Key -> Entry]]
    BY <2>2, WroteFacts DEF RInv
  <2> QED BY <2>1, <2>3, WroteNew, WriteHistory
<1>6. ASSUME NEW src \in Env, NEW K \in SUBSET Key, NEW E \in SUBSET Env, Copy(src, K, E)
      PROVE  HInv'
  <2> DEFINE w == [k \in K |-> cells[src][k].val]
  <2>1. /\ Materialize(schema, E, Wrote(E, K, w))
        /\ E \in SUBSET live /\ pending' \subseteq pending /\ UNCHANGED <<live, spent>>
    BY <1>6 DEF Copy
  <2>2. w \in [K -> Value]
    BY <1>6, SetCellHasValue DEF Copy, RInv
  <2> HIDE DEF w
  <2>3. Wrote(E, K, w) \in [Env -> [Key -> Entry]]
    BY <2>2, WroteFacts DEF RInv
  <2> QED BY <2>1, <2>3, WroteNew, WriteHistory
<1>7. ASSUME NEW k \in Key, NEW d \in Declaration, NEW g \in Group \cup {NoGroup},
             CreateKey(k, d, g)
      PROVE  HInv'
  BY <1>7, FanOutHistory DEF CreateKey
<1>8. ASSUME NEW k \in Key, NEW d \in Declaration, UpdateDeclaration(k, d)
      PROVE  HInv'
  BY <1>8, FanOutHistory DEF UpdateDeclaration
<1>9. ASSUME NEW k \in Key, NEW g \in Group \cup {NoGroup}, SetGroup(k, g)
      PROVE  HInv'
  BY <1>9, FanOutHistory DEF SetGroup
<1>10. ASSUME NEW k \in Key, DeleteKey(k)
       PROVE  HInv'
  BY <1>10, FanOutHistory DEF DeleteKey
<1>11. ASSUME NEW e \in Env, NEW src \in Env, NEW K \in SUBSET Key, CreateEnv(e, src, K)
       PROVE  HInv'
  <2> DEFINE s == [schema EXCEPT !.rev = @ + 1]
             w == [k \in K |-> cells[src][k].val]
  <2>1. /\ Materialize(s, {e}, Wrote({e}, K, w))
        /\ live' = live \cup {e} /\ spent' = spent \cup {e} /\ pending' \subseteq pending
    BY <1>11 DEF CreateEnv
  <2>2. w \in [K -> Value]
    BY <1>11, SetCellHasValue DEF CreateEnv, RInv
  <2> HIDE DEF w, s
  <2>3. Wrote({e}, K, w) \in [Env -> [Key -> Entry]]
    BY <2>2, WroteFacts DEF RInv
  <2>4. spent \cup {e} \subseteq spent' /\ live' \subseteq spent'
    BY <2>1 DEF HInv, UnbornIsEmpty
  <2>5. CellIds' /\ UnbornIsEmpty' /\ LineageExplainsHistory'
    BY <2>1, <2>3, <2>4, WroteNew, MaterializeHistory
  <2> QED BY <2>1, <2>5, FewerDrafts DEF HInv
<1> QED BY <1>1, <1>2, <1>3, <1>4, <1>5, <1>6, <1>7, <1>8, <1>9, <1>10, <1>11,
           DeleteEnvHistory, CollectHistory DEF Next

LEMMA HInvHolds == Spec => [](RInv /\ HInv)
  BY InitRInv, InitHInv, NextKeepsRInv, NextKeepsHInv, PTL DEF Spec

\* A key a revision does not list as changed kept its value, in every history
\* of any length.
THEOREM LineageIsComplete == Spec => []LineageExplainsHistory
<1>1. HInv => LineageExplainsHistory
  BY DEF HInv
<1> QED BY <1>1, HInvHolds, PTL

-----------------------------------------------------------------------------
(* Action properties.                                                      *)

\* A publish commits its whole selection.
LEMMA PublishConsumes ==
    ASSUME RInv, NEW o \in Principal, NEW S \in SUBSET pending, Publish(o, S)
    PROVE  Consumed = Closure(pending, S)
<1> DEFINE sel == Closure(pending, S)
<1>1. sel \in SUBSET pending /\ sel \in SUBSET Draft
  BY SelectionFacts
<1>2. /\ pending' = pending \ sel
      /\ schema' = schema
      /\ Materialize(schema, {d.env : d \in sel}, Applied(sel))
  BY DEF Publish
<1> HIDE DEF sel
<1>3. pending \ pending' = sel
  BY <1>1, <1>2
<1>4. ASSUME NEW d \in sel
      PROVE  Revision(d.env) < Len(snapshots'[d.env]) /\ d.key \in schema'.keys
  <2>1. d.env \in Env /\ snapshots[d.env] \in Seq(Snapshot)
    BY <1>1 DEF Draft, RInv, TypeOK
  <2>2. snapshots'[d.env]
          = Append(snapshots[d.env], NewSnapshot(schema, d.env, Applied(sel)[d.env]))
    BY <1>2, <2>1 DEF Materialize
  <2>3. Len(snapshots'[d.env]) = Len(snapshots[d.env]) + 1
    BY <2>1, <2>2
  <2>4. d.key \in schema.keys
    BY <1>1 DEF RInv, DraftsNameLiveCells
  <2> QED BY <1>2, <2>1, <2>3, <2>4 DEF Revision
<1>5. Consumed = sel
  BY <1>3, <1>4 DEF Consumed
<1> QED BY <1>5 DEF sel

\* Nothing but a publish commits drafts.
LEMMA OnlyPublishConsumes ==
    ASSUME RInv, [Next]_vars
    PROVE  \/ Consumed = {}
           \/ \E o \in Principal : \E S \in SUBSET pending : Publish(o, S)
<1>0. /\ \A d \in pending : d.env \in Env
      /\ \A e \in Env : Len(snapshots[e]) \in Nat
  BY DEF RInv, TypeOK, Draft
<1>1. CASE snapshots' = snapshots
  BY <1>0, <1>1 DEF Consumed, Revision
<1>2. CASE pending' = pending
  BY <1>2 DEF Consumed
<1>3. ASSUME NEW k \in Key, DeleteKey(k) PROVE Consumed = {}
  <2>1. pending' = {d \in pending : d.key # k} /\ schema'.keys = schema.keys \ {k}
    BY <1>3 DEF DeleteKey, FanOut, RInv, TypeOK, Schema
  <2> QED BY <2>1 DEF Consumed
<1>4. ASSUME NEW e \in Env, DeleteEnv(e) PROVE Consumed = {}
  <2>1. pending' = {d \in pending : d.env # e} /\ snapshots'[e] = <<>>
    BY <1>4 DEF DeleteEnv, RInv, TypeOK
  <2>2. Len(snapshots'[e]) = 0
    BY <2>1
  <2> QED BY <1>0, <2>1, <2>2 DEF Consumed, Revision
<1>5. \A o \in Principal, e \in Env, k \in Key, v \in Value \cup {NoValue} :
         Stage(o, e, k, v) => snapshots' = snapshots
  BY DEF Stage
<1>6. ASSUME NEW o \in Principal, NEW e \in live, NEW K \in SUBSET Key,
             NEW r \in 1 .. Revision(e) - 1, Restore(o, e, r, K)
      PROVE  snapshots' = snapshots
  BY <1>6 DEF Restore
<1>7. /\ \A E \in SUBSET Env, k \in Key, v \in Value : Declare(E, k, v) => pending' = pending
      /\ \A src \in Env, K \in SUBSET Key, E \in SUBSET Env :
            Copy(src, K, E) => pending' = pending
  BY DEF Declare, Copy
<1>8. /\ \A k \in Key, d \in Declaration, g \in Group \cup {NoGroup} :
            CreateKey(k, d, g) => pending' = pending
      /\ \A k \in Key, d \in Declaration : UpdateDeclaration(k, d) => pending' = pending
      /\ \A k \in Key, g \in Group \cup {NoGroup} : SetGroup(k, g) => pending' = pending
  BY DEF CreateKey, UpdateDeclaration, SetGroup
<1>9. /\ \A e, src \in Env, K \in SUBSET Key : CreateEnv(e, src, K) => pending' = pending
      /\ \A e \in live : \A r \in 1 .. Revision(e) : Collect(e, r) => pending' = pending
      /\ UNCHANGED vars => pending' = pending
  BY DEF CreateEnv, Collect, vars
<1> QED BY <1>1, <1>2, <1>3, <1>4, <1>5, <1>6, <1>7, <1>8, <1>9 DEF Next

\* A draft of a set cell is never published over a write its owner has not
\* seen, in projects with any number of principals, environments and keys.
THEOREM NoBlindOverwriteEver == Spec => NoBlindOverwrite
<1>1. ASSUME RInv, HInv, [Next]_vars
      PROVE  \A d \in Consumed : d.base # 0 => written[d.env][d.key] = d.seen
  <2>1. ASSUME NEW o \in Principal, NEW S \in SUBSET pending, Publish(o, S),
               NEW d \in Consumed, d.base # 0
        PROVE  written[d.env][d.key] = d.seen
    <3>1. d \in Closure(pending, S) /\ d \in pending /\ d \in Draft
      BY <1>1, <2>1, PublishConsumes, SelectionFacts
    <3>2. cells[d.env][d.key].id = d.base
      BY <2>1, <3>1 DEF Publish, Publishable, Fresh
    <3>3. d.base = d.seen
      BY <1>1, <2>1, <3>1 DEF HInv, DraftBases
    <3>4. d.env \in Env /\ d.key \in Key
      BY <3>1 DEF Draft
    <3>5. cells[d.env][d.key].id = written[d.env][d.key]
      BY <1>1, <2>1, <3>2, <3>4 DEF HInv, CellIds, IsSet
    <3> QED BY <3>2, <3>3, <3>5
  <2> QED BY <1>1, <2>1, OnlyPublishConsumes
<1> QED BY <1>1, HInvHolds, PTL DEF Spec, NoBlindOverwrite

\* A publish takes all that is pending on a key group, for any groups.
THEOREM GroupsNeverSplit == Spec => GroupsPublishWhole
<1>1. ASSUME RInv, [Next]_vars
      PROVE  \A d \in Consumed : \A x \in pending :
                (x.env = d.env /\ SameGroup(schema, x.key, d.key)) => x \notin pending'
  <2>1. ASSUME NEW o \in Principal, NEW S \in SUBSET pending, Publish(o, S),
               NEW d \in Consumed, NEW x \in pending,
               x.env = d.env, SameGroup(schema, x.key, d.key)
        PROVE  x \notin pending'
    <3>1. d \in Closure(pending, S)
      BY <1>1, <2>1, PublishConsumes
    <3>2. x \in Closure(pending, S)
      BY <2>1, <3>1 DEF Closure, SameGroup
    <3> QED BY <2>1, <3>2 DEF Publish
  <2> QED BY <1>1, <2>1, OnlyPublishConsumes
<1> QED BY <1>1, RInvHolds, PTL DEF Spec, GroupsPublishWhole

\* What one step may do to the history of an environment that survives it:
\* nothing, append a revision, or erase the payload of an older one; cells
\* move only with an append.
Untouched(e) == snapshots'[e] = snapshots[e] /\ cells'[e] = cells[e]
Appended(e) == \E x : snapshots'[e] = Append(snapshots[e], x)
Swept(e) == /\ cells'[e] = cells[e]
            /\ \E r \in 1 .. Revision(e) - 1 :
                  snapshots'[e] = [snapshots[e] EXCEPT ![r] = Collected(snapshots[e][r])]

StepShape ==
    /\ spent \subseteq spent'
    /\ \A e \in Env \cap spent : e \in live' => e \in live
    /\ \A e \in Env \cap live \cap live' : Untouched(e) \/ Appended(e) \/ Swept(e)

LEMMA MaterializeShape ==
    ASSUME RInv, NEW s, NEW E, NEW c, \A e \in Env \ E : c[e] = cells[e],
           Materialize(s, E, c), NEW e \in Env
    PROVE  Untouched(e) \/ Appended(e)
<1>1. cells' = c
  BY DEF Materialize
<1>2. CASE e \in E
  <2>1. snapshots'[e] = Append(snapshots[e], NewSnapshot(s, e, c[e]))
    BY <1>2, MaterializeAppends DEF RInv
  <2>2. Appended(e)
    BY <2>1, Zenon DEF Appended
  <2> QED BY <2>2
<1>3. CASE e \notin E
  BY <1>1, <1>3, MaterializeAppends DEF RInv, Untouched
<1> QED BY <1>2, <1>3

LEMMA NextHasShape ==
    ASSUME RInv, [Next]_vars PROVE StepShape
<1>1. CASE UNCHANGED <<live, spent, cells, snapshots>>
  BY <1>1 DEF StepShape, Untouched
<1>2. ASSUME NEW s, FanOut(s), live' = live, spent \subseteq spent' PROVE StepShape
  <2> DEFINE t == [s EXCEPT !.rev = schema.rev + 1]
  <2>1. Materialize(t, live, cells)
    BY <1>2 DEF FanOut
  <2> HIDE DEF t
  <2>2. \A e \in Env : Untouched(e) \/ Appended(e)
    BY <2>1, MaterializeShape
  <2> QED BY <1>2, <2>2 DEF StepShape
<1>3. ASSUME NEW o \in Principal, NEW S \in SUBSET pending, Publish(o, S) PROVE StepShape
  <2> DEFINE sel == Closure(pending, S)
  <2>1. /\ Materialize(schema, {d.env : d \in sel}, Applied(sel))
        /\ UNCHANGED <<live, spent>>
    BY <1>3 DEF Publish
  <2>2. \A e \in Env \ {d.env : d \in sel} : Applied(sel)[e] = cells[e]
    BY SelectionFacts, AppliedFacts DEF RInv
  <2> HIDE DEF sel
  <2>3. \A e \in Env : Untouched(e) \/ Appended(e)
    BY <2>1, <2>2, MaterializeShape
  <2> QED BY <2>1, <2>3 DEF StepShape
<1>4. ASSUME NEW E \in SUBSET Env, NEW k \in Key, NEW v \in Value, Declare(E, k, v)
      PROVE  StepShape
  <2> DEFINE w == [j \in {k} |-> v]
  <2>1. Materialize(schema, E, Wrote(E, {k}, w)) /\ UNCHANGED <<live, spent>>
    BY <1>4 DEF Declare
  <2>2. w \in [{k} -> Value] /\ {k} \in SUBSET Key
    OBVIOUS
  <2> HIDE DEF w
  <2>3. \A e \in Env \ E : Wrote(E, {k}, w)[e] = cells[e]
    BY <2>2, WroteFacts DEF RInv
  <2>4. \A e \in Env : Untouched(e) \/ Appended(e)
    BY <2>1, <2>3, MaterializeShape
  <2> QED BY <2>1, <2>4 DEF StepShape
<1>5. ASSUME NEW src \in Env, NEW K \in SUBSET Key, NEW E \in SUBSET Env, Copy(src, K, E)
      PROVE  StepShape
  <2> DEFINE w == [k \in K |-> cells[src][k].val]
  <2>1. Materialize(schema, E, Wrote(E, K, w)) /\ UNCHANGED <<live, spent>>
    BY <1>5 DEF Copy
  <2>2. w \in [K -> Value]
    BY <1>5, SetCellHasValue DEF Copy, RInv
  <2> HIDE DEF w
  <2>3. \A e \in Env \ E : Wrote(E, K, w)[e] = cells[e]
    BY <2>2, WroteFacts DEF RInv
  <2>4. \A e \in Env : Untouched(e) \/ Appended(e)
    BY <2>1, <2>3, MaterializeShape
  <2> QED BY <2>1, <2>4 DEF StepShape
<1>6. ASSUME NEW e \in Env, NEW src \in Env, NEW K \in SUBSET Key, CreateEnv(e, src, K)
      PROVE  StepShape
  <2> DEFINE w == [k \in K |-> cells[src][k].val]
  <2>1. /\ Materialize([schema EXCEPT !.rev = @ + 1], {e}, Wrote({e}, K, w))
        /\ e \notin spent /\ live' = live \cup {e} /\ spent' = spent \cup {e}
    BY <1>6 DEF CreateEnv
  <2>2. w \in [K -> Value]
    BY <1>6, SetCellHasValue DEF CreateEnv, RInv
  <2> HIDE DEF w
  <2>3. \A x \in Env \ {e} : Wrote({e}, K, w)[x] = cells[x]
    BY <2>2, WroteFacts DEF RInv
  <2>4. \A x \in Env : Untouched(x) \/ Appended(x)
    BY <2>1, <2>3, MaterializeShape
  <2> QED BY <2>1, <2>4 DEF StepShape
<1>7. ASSUME NEW e \in Env, DeleteEnv(e) PROVE StepShape
  <2>1. /\ live' = live \ {e} /\ spent' = spent
        /\ \A x \in Env \ {e} : snapshots'[x] = snapshots[x] /\ cells'[x] = cells[x]
    BY <1>7 DEF DeleteEnv, RInv, TypeOK
  <2> QED BY <2>1 DEF StepShape, Untouched
<1>8. ASSUME NEW e \in live, NEW r \in 1 .. Revision(e), Collect(e, r) PROVE StepShape
  <2>1. e \in Env /\ snapshots[e] \in Seq(Snapshot) /\ snapshots \in [Env -> Seq(Snapshot)]
    BY DEF RInv, TypeOK
  <2>2. /\ UNCHANGED <<live, spent, cells>>
        /\ r < Revision(e)
        /\ snapshots' = [snapshots EXCEPT ![e][r] = Collected(@)]
    BY <1>8 DEF Collect
  <2>3. /\ snapshots'[e] = [snapshots[e] EXCEPT ![r] = Collected(snapshots[e][r])]
        /\ \A x \in Env \ {e} : snapshots'[x] = snapshots[x]
    BY <2>1, <2>2
  <2>4. r \in 1 .. Revision(e) - 1
    BY <2>1, <2>2 DEF Revision
  <2>5. Swept(e)
    BY <2>2, <2>3, <2>4 DEF Swept
  <2> QED BY <2>2, <2>3, <2>5 DEF StepShape, Untouched
<1>9. ASSUME NEW o \in Principal, NEW e \in live, NEW K \in SUBSET Key,
             NEW r \in 1 .. Revision(e) - 1, Restore(o, e, r, K)
      PROVE  StepShape
  BY <1>1, <1>9 DEF Restore
<1>10. ASSUME NEW o \in Principal, NEW e \in Env, NEW k \in Key,
              NEW v \in Value \cup {NoValue}, Stage(o, e, k, v)
       PROVE  StepShape
  BY <1>1, <1>10 DEF Stage
<1>11. ASSUME NEW k \in Key, NEW d \in Declaration, NEW g \in Group \cup {NoGroup},
              \/ CreateKey(k, d, g)
              \/ UpdateDeclaration(k, d)
              \/ SetGroup(k, g)
              \/ DeleteKey(k)
       PROVE  StepShape
  BY <1>2, <1>11 DEF CreateKey, UpdateDeclaration, SetGroup, DeleteKey
<1>12. (UNCHANGED vars) => StepShape
  BY <1>1 DEF vars
<1>13. NoGroup \in Group \cup {NoGroup} /\ Optional \in Declaration
  BY RevisionsAssumption
<1> QED BY <1>3, <1>4, <1>5, <1>6, <1>7, <1>8, <1>9, <1>10, <1>11, <1>12, <1>13 DEF Next

\* The published history is append-only for every history and every sweep.
THEOREM HistoryNeverRewritten == Spec => HistoryIsAppendOnly
<1>1. ASSUME RInv, [Next]_vars
      PROVE  \A e \in live \cap live' :
                /\ Revision(e) <= Len(snapshots'[e])
                /\ \A r \in 1 .. Revision(e) :
                      \/ snapshots'[e][r] = snapshots[e][r]
                      \/ r < Revision(e) /\ snapshots'[e][r] = Collected(snapshots[e][r])
  <2> TAKE e \in live \cap live'
  <2>1. e \in Env /\ snapshots[e] \in Seq(Snapshot) /\ Revision(e) = Len(snapshots[e])
    BY <1>1 DEF RInv, TypeOK, Revision
  <2>2. Untouched(e) \/ Appended(e) \/ Swept(e)
    BY <1>1, <2>1, NextHasShape DEF StepShape
  <2>3. CASE Untouched(e)
    BY <2>1, <2>3 DEF Untouched
  <2>4. CASE Appended(e)
    BY <2>1, <2>4 DEF Appended
  <2>5. CASE Swept(e)
    BY <2>1, <2>5 DEF Swept
  <2> QED BY <2>2, <2>3, <2>4, <2>5
<1> QED BY <1>1, RInvHolds, PTL DEF Spec, HistoryIsAppendOnly

-----------------------------------------------------------------------------
(* Restore previews.                                                       *)

\* The value key k of e would have once the drafts sel are applied on top of
\* the published cells c: what drafts give depends on published values only.
Shown(c, sel, e, k) ==
    IF \E d \in sel : d.env = e /\ d.key = k
    THEN (CHOOSE d \in sel : d.env = e /\ d.key = k).val
    ELSE c[k].val

\* A preview was computed at a revision the environment has since reached,
\* and while the environment is still there it shows what its drafts give.
PreviewsHold ==
    \A p \in previews : \A d \in p.token.changes :
        /\ d.env \in Env \cap spent
        /\ p.token.base[d.env] \in Nat
        /\ d.env \in live => p.token.base[d.env] <= Revision(d.env)
        /\ (d.env \in live /\ p.token.base[d.env] = Revision(d.env))
              => \A k \in Key : Shown(cells[d.env], p.token.changes, d.env, k) = p.after[k]

LEMMA AppliedShows ==
    ASSUME NEW sel, NEW e \in Env, NEW k \in Key
    PROVE  Applied(sel)[e][k].val = Shown(cells[e], sel, e, k)
  BY DEF Shown, Applied, EntryOf, Absent

\* A step of that shape that issues no preview keeps the old ones honest.
LEMMA ShapeKeepsPreviews ==
    ASSUME RInv, PreviewsHold, StepShape,
           NEW p \in previews, NEW d \in p.token.changes
    PROVE  /\ d.env \in Env \cap spent'
           /\ p.token.base[d.env] \in Nat
           /\ d.env \in live' => p.token.base[d.env] <= Len(snapshots'[d.env])
           /\ (d.env \in live' /\ p.token.base[d.env] = Len(snapshots'[d.env]))
                 => \A k \in Key : Shown(cells'[d.env], p.token.changes, d.env, k) = p.after[k]
<1> DEFINE e == d.env
           b == p.token.base[d.env]
<1>1. /\ e \in Env /\ e \in spent' /\ b \in Nat
      /\ e \in live' => e \in live
      /\ e \in live => b <= Len(snapshots[e])
      /\ (e \in live /\ b = Len(snapshots[e]))
            => \A k \in Key : Shown(cells[e], p.token.changes, e, k) = p.after[k]
  BY DEF PreviewsHold, StepShape, Revision
<1>2. snapshots[e] \in Seq(Snapshot)
  BY <1>1 DEF RInv, TypeOK
<1> HIDE DEF e, b
<1>3. ASSUME e \in live'
      PROVE  /\ b <= Len(snapshots'[e])
             /\ b = Len(snapshots'[e])
                   => \A k \in Key : Shown(cells'[e], p.token.changes, e, k) = p.after[k]
  <2>1. Untouched(e) \/ Appended(e) \/ Swept(e)
    BY <1>1, <1>3 DEF StepShape
  <2>2. CASE Appended(e)
    <3>1. Len(snapshots'[e]) = Len(snapshots[e]) + 1
      BY <1>2, <2>2 DEF Appended
    <3> QED BY <1>1, <1>2, <1>3, <3>1
  <2>3. CASE Untouched(e) \/ Swept(e)
    <3>1. cells'[e] = cells[e]
      BY <2>3 DEF Untouched, Swept
    <3>2. Len(snapshots'[e]) = Len(snapshots[e])
      <4>1. ASSUME NEW r \in 1 .. Revision(e) - 1,
                   snapshots'[e] = [snapshots[e] EXCEPT ![r] = Collected(snapshots[e][r])]
            PROVE  Len(snapshots'[e]) = Len(snapshots[e])
        BY <1>2, <4>1
      <4> QED BY <2>3, <4>1 DEF Untouched, Swept
    <3> QED BY <1>1, <1>3, <3>1, <3>2
  <2> QED BY <2>1, <2>2, <2>3
<1> QED BY <1>1, <1>3 DEF e, b

\* Nothing but Restore issues previews.
LEMMA PreviewsOnlyFromRestore ==
    ASSUME [Next]_vars
    PROVE  \/ previews' = previews
           \/ \E o \in Principal, e \in live, K \in SUBSET Key :
                 \E r \in 1 .. Revision(e) - 1 : Restore(o, e, r, K)
<1>1. \A o \in Principal, e \in Env, k \in Key, v \in Value \cup {NoValue} :
         Stage(o, e, k, v) => previews' = previews
  BY DEF Stage
<1>2. \A o \in Principal, S \in SUBSET pending : Publish(o, S) => previews' = previews
  BY DEF Publish
<1>3. /\ \A E \in SUBSET Env, k \in Key, v \in Value : Declare(E, k, v) => previews' = previews
      /\ \A src \in Env, K \in SUBSET Key, E \in SUBSET Env :
            Copy(src, K, E) => previews' = previews
  BY DEF Declare, Copy
<1>4. /\ \A k \in Key, d \in Declaration, g \in Group \cup {NoGroup} :
            CreateKey(k, d, g) => previews' = previews
      /\ \A k \in Key, d \in Declaration : UpdateDeclaration(k, d) => previews' = previews
      /\ \A k \in Key, g \in Group \cup {NoGroup} : SetGroup(k, g) => previews' = previews
      /\ \A k \in Key : DeleteKey(k) => previews' = previews
  BY DEF CreateKey, UpdateDeclaration, SetGroup, DeleteKey
<1>5. /\ \A e, src \in Env, K \in SUBSET Key : CreateEnv(e, src, K) => previews' = previews
      /\ \A e \in Env : DeleteEnv(e) => previews' = previews
      /\ \A e \in live : \A r \in 1 .. Revision(e) : Collect(e, r) => previews' = previews
      /\ UNCHANGED vars => previews' = previews
  BY DEF CreateEnv, DeleteEnv, Collect, vars
<1> QED BY <1>1, <1>2, <1>3, <1>4, <1>5 DEF Next

LEMMA RestorePreview ==
    ASSUME RInv, HInv, PreviewsHold, NEW o \in Principal, NEW e \in live,
           NEW K \in SUBSET Key, NEW r \in 1 .. Revision(e) - 1, Restore(o, e, r, K)
    PROVE  PreviewsHold'
<1> DEFINE new == {NewDraft(o, e, k, snapshots[e][r].cells[k].val, "restore") :
                     k \in {k \in K : snapshots[e][r].cells[k].val # cells[e][k].val}}
           sel == Closure(pending', new)
           q == [token |-> Token(sel), after |-> [k \in Key |-> Applied(sel)[e][k].val]]
<1>1. /\ previews' = previews \cup {q}
      /\ UNCHANGED <<live, spent, cells, snapshots>>
  BY DEF Restore
<1>2. e \in Env /\ e \in spent /\ snapshots[e] \in Seq(Snapshot)
  BY DEF RInv, TypeOK, HInv, UnbornIsEmpty
<1>3. \A d \in sel : d.env = e
  <2>1. \A d \in new : d.env = e
    BY DEF NewDraft
  <2> HIDE DEF new
  <2> QED BY <2>1 DEF Closure
<1>4. /\ q.token.changes = sel
      /\ \A d \in sel : q.token.base[d.env] = Revision(d.env)
      /\ \A k \in Key : q.after[k] = Shown(cells[e], sel, e, k)
  <2> HIDE DEF sel
  <2> QED BY <1>2, AppliedShows DEF Token
<1> HIDE DEF new, sel, q
<1>5. Revision(e) \in Nat
  BY <1>2 DEF Revision
<1>6. StepShape
  BY <1>1 DEF StepShape, Untouched
<1>7. ASSUME NEW d \in q.token.changes
      PROVE  /\ d.env \in Env \cap spent'
             /\ q.token.base[d.env] \in Nat
             /\ d.env \in live' => q.token.base[d.env] <= Len(snapshots'[d.env])
             /\ (d.env \in live' /\ q.token.base[d.env] = Len(snapshots'[d.env]))
                   => \A k \in Key : Shown(cells'[d.env], q.token.changes, d.env, k) = q.after[k]
  <2>1. d.env = e /\ q.token.base[e] = Revision(e)
    BY <1>3, <1>4
  <2> QED BY <1>1, <1>2, <1>4, <1>5, <2>1 DEF Revision
<1> QED BY <1>1, <1>6, <1>7, ShapeKeepsPreviews DEF PreviewsHold, Revision

LEMMA NextKeepsPreviews == RInv /\ HInv /\ PreviewsHold /\ [Next]_vars => PreviewsHold'
<1> SUFFICES ASSUME RInv, HInv, PreviewsHold, [Next]_vars PROVE PreviewsHold'
  OBVIOUS
<1>1. CASE previews' = previews
  BY <1>1, NextHasShape, ShapeKeepsPreviews DEF PreviewsHold, Revision
<1> QED BY <1>1, PreviewsOnlyFromRestore, RestorePreview

\* A publish of restored drafts delivers what its preview showed, whatever
\* happened between the two.
THEOREM RestoreMatchesPreview == Spec => RestoreAsPreviewed
<1>1. Init => PreviewsHold
  BY DEF Init, PreviewsHold
<1>2. Spec => [](RInv /\ PreviewsHold)
  BY <1>1, HInvHolds, NextKeepsPreviews, PTL DEF Spec
<1>3. ASSUME RInv, PreviewsHold, [Next]_vars
      PROVE  \A d \in Consumed : d.source = "restore" =>
                \E p \in previews :
                    /\ p.token.changes = Consumed
                    /\ \A k \in Key : cells'[d.env][k].val = p.after[k]
  <2>1. ASSUME NEW o \in Principal, NEW S \in SUBSET pending, Publish(o, S),
               NEW d \in Consumed, d.source = "restore"
        PROVE  \E p \in previews :
                    /\ p.token.changes = Consumed
                    /\ \A k \in Key : cells'[d.env][k].val = p.after[k]
    <3> DEFINE sel == Closure(pending, S)
    <3>1. Consumed = sel /\ sel \in SUBSET pending
      BY <1>3, <2>1, PublishConsumes, SelectionFacts
    <3>2. Publishable(o, sel) /\ cells' = Applied(sel)
      BY <2>1 DEF Publish, Materialize
    <3> HIDE DEF sel
    <3>3. PICK p \in previews : p.token = Token(sel)
      BY <2>1, <3>1, <3>2 DEF Publishable
    <3>4. p.token.changes = sel /\ p.token.base[d.env] = Revision(d.env)
      BY <2>1, <3>1, <3>3 DEF Token
    <3>5. d.env \in live /\ d \in p.token.changes
      BY <1>3, <2>1, <3>1, <3>4 DEF RInv, DraftsNameLiveCells
    <3>6. \A k \in Key : Shown(cells[d.env], sel, d.env, k) = p.after[k]
      BY <1>3, <3>4, <3>5 DEF PreviewsHold
    <3>7. d.env \in Env
      BY <1>3, <3>5 DEF RInv, TypeOK
    <3> QED BY <3>1, <3>2, <3>4, <3>6, <3>7, AppliedShows
  <2> QED BY <1>3, <2>1, OnlyPublishConsumes
<1> QED BY <1>2, <1>3, PTL DEF Spec, RestoreAsPreviewed
=============================================================================
