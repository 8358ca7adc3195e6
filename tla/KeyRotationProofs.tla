------------------------- MODULE KeyRotationProofs -------------------------
(***************************************************************************)
(* Proofs about KeyRotation, for every set of processes and rows and every *)
(* instance.  A version names one master key as long as it is the stored   *)
(* one (Known): that is what every prepared operation relies on when it    *)
(* compares versions only.                                                 *)
(***************************************************************************)
EXTENDS KeyRotation, FiniteSetTheorems, TLAPS

\* A key of the stored version, or of a later one, is the stored key.
Known(k) == \A w \in wrappers : k.ver <= w.ver /\ (k.ver = w.ver => k = w.key)

\* One master under at most two roots.
OneHierarchy ==
    /\ IsFiniteSet(wrappers) /\ OneMaster
    /\ \A w, x \in wrappers : w.ver = x.ver
    /\ \A w \in wrappers : w.key.ver = w.ver /\ w.epoch \in 1..size.epochs

\* The masters that processes work with were stored once.
KeysKnown ==
    /\ \A n \in Process : mem[n] # None => Known(mem[n].active)
    /\ \A n \in Process : ops[n]["mint"] # None => Known(ops[n]["mint"].master)
    /\ \A n \in Process : ops[n]["dek"] # None => Known(ops[n]["dek"].master)
    /\ \A n \in Process : LET op == ops[n]["hierarchy"] IN
        /\ op \in MasterOp =>
            /\ op.epoch \in 1..size.epochs
            /\ op.stage = "committed" => Known(op.key)
        /\ op \in RootOp =>
            /\ op.wrapper.epoch \in 1..size.epochs
            /\ op.wrapper.key.ver = op.wrapper.ver /\ Known(op.wrapper.key)

\* A process that is down has nothing under way.
DownIsIdle == \A n \in Process : mem[n] = None => \A s \in Slot : ops[n][s] = None

\* The active DEK has the highest version.
OneActive ==
    /\ deks # {} => \E d \in deks : d.state = "active"
    /\ \A d, e \in deks : e.state = "active" =>
        d.ver <= e.ver /\ (d.state = "active" => d = e)

\* A version that some process sealed with is not ahead of the active one.
Reached(v) == deks # {} /\ \A d \in deks : d.state = "active" => v <= d.ver

SealedVersions ==
    \A n \in Process :
        /\ mem[n] # None /\ mem[n].cache # None => Reached(mem[n].cache.active)
        /\ ops[n]["write"] # None => Reached(ops[n]["write"].ver)
        /\ ops[n]["walk"] # None => Reached(ops[n]["walk"].sealer.active)

\* A single process finds the hierarchy as it left it.
HierarchyAsLeft(n) ==
    LET op == ops[n]["hierarchy"]
    IN /\ op \in MasterOp /\ op.stage = "prepared" =>
           /\ op.epoch = root /\ op.key \in mem[n].held
           /\ \A w \in wrappers : w.epoch = root /\ op.key.ver = w.ver + 1
       /\ op \in FinalizeOp => \A w \in wrappers : w.epoch <= root

AloneInHierarchy == ~HA => \A n \in size.nodes : HierarchyAsLeft(n)

\* ... and, unless it lost an answer, holds the stored master.
HoldsMaster(n) == \A w \in wrappers : w.key \in mem[n].held

AloneKnowsMaster == ~HA => \A n \in Running \ unsure : HoldsMaster(n)

\* The process rotated the DEK and has not evicted its version set yet: nothing names
\* the new version.
Behind(n) ==
    LET v == ops[n]["dek"].ver
    IN /\ ops[n]["dek"] # None /\ ops[n]["dek"].stage = "committed" /\ ActiveDEK(v)
       /\ mem[n].cache.active # v /\ Openable \ {v} \subseteq mem[n].cache.held
       /\ ops[n]["write"] # None => ops[n]["write"].ver # v
       /\ ops[n]["walk"] # None => ops[n]["walk"].sealer.active # v
       /\ \A r \in Row : rows[r] # v

\* ... and a version set that covers every stored ciphertext.
Covers(n) == mem[n].cache # None => Openable \subseteq mem[n].cache.held \/ Behind(n)

AloneCovers == ~HA => \A n \in Running \ unsure : Covers(n)

KInv == /\ TypeOK /\ OneHierarchy /\ KeysKnown /\ DownIsIdle /\ NothingStranded
        /\ OneActive /\ SealedVersions
        /\ InstalledRootOpens /\ AloneInHierarchy /\ AloneKnowsMaster /\ AloneCovers

-----------------------------------------------------------------------------
(* Finite sets and operations *)

\* A set has at least as many elements as it is shown to have, up to three.
LEMMA AtLeast ==
    ASSUME NEW S, IsFiniteSet(S), NEW a \in S, NEW b \in S, a # b
    PROVE  /\ Cardinality(S) \in Nat /\ Cardinality(S) >= 2
           /\ \A c \in S : c # a /\ c # b => Cardinality(S) >= 3
  <1>. DEFINE A == {a}
              B == A \cup {b}
  <1>1. IsFiniteSet(A) /\ Cardinality(A) = 1 /\ b \notin A /\ a \in A /\ A \subseteq S
    BY FS_Singleton
  <1>2. \A c : c # a => c \notin A
    OBVIOUS
  <1>. HIDE DEF A
  <1>3. IsFiniteSet(B) /\ Cardinality(B) = 2 /\ B \subseteq S
    BY <1>1, FS_AddElement
  <1>4. \A c : c # a /\ c # b => c \notin B
    BY <1>2
  <1>. HIDE DEF B
  <1>5. Cardinality(S) \in Nat /\ Cardinality(S) >= 2
    BY <1>3, FS_Subset, FS_CardinalityType
  <1>6. ASSUME NEW c \in S, c # a, c # b PROVE Cardinality(S) >= 3
    <2>. DEFINE D == B \cup {c}
    <2>1. Cardinality(D) = 3 /\ D \subseteq S
      BY <1>3, <1>4, <1>6, FS_AddElement
    <2>. HIDE DEF D
    <2>. QED
      BY <1>5, <2>1, FS_Subset
  <1>. QED
    BY <1>5, <1>6

\* Without HA there is one process.
LEMMA Alone ==
    ASSUME TypeOK, ~HA, NEW m \in size.nodes, NEW n \in size.nodes
    PROVE  m = n
  <1>1. size.nodes \subseteq Process /\ IsFiniteSet(size.nodes)
    BY KeyRotationAssumption, FS_Subset DEF TypeOK
  <1>2. Cardinality(size.nodes) \in Nat /\ Cardinality(size.nodes) <= 1
    BY <1>1, FS_CardinalityType DEF HA
  <1>. QED
    BY <1>1, <1>2, AtLeast

\* The stored wrappers are one or two, and Newest is one of them.
LEMMA NewestFacts ==
    ASSUME TypeOK, OneHierarchy
    PROVE  /\ Newest \in wrappers
           /\ \A w \in wrappers : w.epoch <= Newest.epoch
           /\ Cardinality(wrappers) = 1 => wrappers = {Newest}
  <1>. DEFINE C == Cardinality(wrappers)
  <1>0. /\ IsFiniteSet(wrappers) /\ C \in Nat /\ C <= 2
        /\ \A w \in wrappers : w.epoch \in Nat
    BY FS_CardinalityType DEF OneHierarchy, OneMaster, TypeOK, Wrapper
  <1>1. PICK a \in wrappers : TRUE
    BY DEF TypeOK
  <1>2. ASSUME NEW b \in wrappers, b # a, NEW c \in wrappers, c # a, c # b PROVE FALSE
    BY <1>0, <1>2, AtLeast
  <1>3. \E w \in wrappers : \A x \in wrappers : x.epoch <= w.epoch
    <2>1. CASE \E b \in wrappers : b # a
      <3>1. PICK b \in wrappers : b # a
        BY <2>1
      <3>2. \A x \in wrappers : x = a \/ x = b
        BY <1>2, <3>1
      <3>3. CASE a.epoch <= b.epoch
        BY <1>0, <3>2, <3>3
      <3>4. CASE b.epoch <= a.epoch
        BY <1>0, <3>2, <3>4
      <3>. QED
        BY <1>0, <3>3, <3>4
    <2>2. CASE \A b \in wrappers : b = a
      BY <1>0, <2>2
    <2>. QED
      BY <2>1, <2>2
  <1>4. Newest \in wrappers /\ \A w \in wrappers : w.epoch <= Newest.epoch
    BY <1>3 DEF Newest
  <1>5. ASSUME C = 1 PROVE wrappers = {Newest}
    <2>1. \E x : wrappers = {x}
      BY <1>0, <1>5, FS_Singleton
    <2>. QED
      BY <1>4, <2>1
  <1>. QED
    BY <1>4, <1>5

\* One slot of one process changes.
LEMMA SetOpFacts ==
    ASSUME TypeOK, NEW n \in Process, NEW s \in Slot, NEW op \in OpOf(s) \cup {None},
           SetOp(n, s, op)
    PROVE  /\ ops' \in [Process -> [Slot -> Op \cup {None}]]
           /\ \A m \in Process, t \in Slot : ops'[m][t] \in OpOf(t) \cup {None}
           /\ ops'[n][s] = op
           /\ \A m \in Process, t \in Slot : m # n \/ t # s => ops'[m][t] = ops[m][t]
  <1>1. op \in Op \cup {None}
    BY DEF Slot, OpOf, Op
  <1>2. ops' = [ops EXCEPT ![n] = [ops[n] EXCEPT ![s] = op]]
    BY DEF SetOp, TypeOK
  <1>. QED
    BY <1>1, <1>2 DEF TypeOK

\* Which rotation the hierarchy slot holds shows in its kind and stage.
LEMMA HierarchyOps ==
    ASSUME TypeOK, NEW n \in Process, ops[n]["hierarchy"] # None
    PROVE  LET op == ops[n]["hierarchy"]
           IN /\ op \in MasterOp <=> op.kind = "master"
              /\ op \in RootOp <=> op.kind = "root" /\ op.stage = "prepared"
              /\ op \in FinalizeOp <=> op.stage = "verified"
  <1>1. ops[n]["hierarchy"] \in MasterOp \cup RootOp \cup FinalizeOp
    BY DEF TypeOK, Slot, OpOf
  <1>. QED
    BY <1>1 DEF MasterOp, RootOp, FinalizeOp

\* What one slot may hold, as far as the store decides it.
Fits(s, op) ==
    /\ s \in {"mint", "dek"} => Known(op.master)
    /\ s = "hierarchy" /\ op \in MasterOp =>
        op.epoch \in 1..size.epochs /\ (op.stage = "committed" => Known(op.key))
    /\ s = "hierarchy" /\ op \in RootOp =>
        /\ op.wrapper.epoch \in 1..size.epochs
        /\ op.wrapper.key.ver = op.wrapper.ver /\ Known(op.wrapper.key)
    /\ s = "write" => Reached(op.ver)
    /\ s = "walk" => Reached(op.sealer.active)

\* ... and what a single process may, as far as its own keyring k decides it.
FitsAlone(n, s, op, k) ==
    /\ s = "hierarchy" /\ op \in MasterOp /\ op.stage = "prepared" =>
        /\ op.epoch = root /\ op.key \in k.held
        /\ \A w \in wrappers : w.epoch = root /\ op.key.ver = w.ver + 1
    /\ s = "hierarchy" /\ op \in FinalizeOp => \A w \in wrappers : w.epoch <= root
    /\ s # "hierarchy" => mem[n].held \subseteq k.held
    /\ \A w \in wrappers : w.key \in mem[n].held => w.key \in k.held

\* The version set a process has after a step of its own: rebuilt, or the one it had.
CacheFits(n, s, op, k) ==
    k.cache # None =>
        \/ Openable \subseteq k.cache.held
        \/ /\ mem[n].cache = k.cache /\ s # "dek"
           /\ s = "write" /\ op # None => op.ver = k.cache.active
           /\ s = "walk" /\ op # None => op.sealer.active = k.cache.active
        \/ /\ mem[n].cache = k.cache /\ s = "dek"
           /\ ~(ops[n]["dek"] # None /\ ops[n]["dek"].stage = "committed")

\* A process changes one of its operations and its own keyring, and nothing stored.
LEMMA PrivateStep ==
    ASSUME KInv, NEW n \in Running, NEW s \in Slot, NEW op \in OpOf(s) \cup {None},
           NEW k \in Keyring, SetOp(n, s, op), mem' = [mem EXCEPT ![n] = k],
           UNCHANGED <<size, store, chance>>,
           Known(k.active), k.cache # None => Reached(k.cache.active),
           op # None => Fits(s, op),
           ~HA => FitsAlone(n, s, op, k),
           ~HA => CacheFits(n, s, op, k)
    PROVE  KInv'
  <1>0. /\ TypeOK /\ OneHierarchy /\ KeysKnown /\ DownIsIdle /\ NothingStranded
        /\ OneActive /\ SealedVersions
        /\ InstalledRootOpens /\ AloneInHierarchy /\ AloneKnowsMaster /\ AloneCovers
    BY DEF KInv
  <1>1. n \in Process /\ n \in size.nodes /\ mem[n] # None /\ mem[n] \in Keyring
    BY <1>0, KeyRotationAssumption DEF Running, TypeOK
  <1>2. /\ UNCHANGED <<size, root, wrappers, deks, token, rows, faults, unsure>>
        /\ ops' \in [Process -> [Slot -> Op \cup {None}]]
        /\ \A m \in Process, t \in Slot : ops'[m][t] \in OpOf(t) \cup {None}
        /\ ops'[n][s] = op
        /\ \A m \in Process, t \in Slot : m # n \/ t # s => ops'[m][t] = ops[m][t]
    BY <1>0, <1>1, SetOpFacts DEF store, chance
  <1>3. /\ mem'[n] = k /\ k # None
        /\ \A m \in Process : m # n => mem'[m] = mem[m]
    BY <1>0, <1>1, KeyRotationAssumption DEF TypeOK
  <1>4. TypeOK'
    BY <1>0, <1>1, <1>2, <1>3 DEF TypeOK
  <1>5. OneHierarchy' /\ NothingStranded' /\ OneActive' /\ InstalledRootOpens'
    BY <1>0, <1>2 DEF OneHierarchy, OneMaster, NothingStranded, OneActive, InstalledRootOpens, HA, Openable
  <1>6. /\ \A key : Known(key)' <=> Known(key)
        /\ \A v : Reached(v)' <=> Reached(v)
        /\ HA' <=> HA
        /\ Running' = Running
        /\ Openable' = Openable
        /\ \A v : ActiveDEK(v)' <=> ActiveDEK(v)
    BY <1>1, <1>2, <1>3 DEF Known, Reached, HA, Running, Openable, ActiveDEK
  <1>7. KeysKnown'
    <2>. SUFFICES ASSUME NEW m \in Process
                  PROVE  /\ mem'[m] # None => Known(mem'[m].active)
                         /\ \A t \in {"mint", "dek", "hierarchy"} :
                              ops'[m][t] # None => Fits(t, ops'[m][t])
      BY <1>2, <1>6, KeyRotationAssumption DEF KeysKnown, Fits, Op
    <2>1. /\ mem[m] # None => Known(mem[m].active)
          /\ \A t \in {"mint", "dek", "hierarchy"} :
               ops[m][t] # None => Fits(t, ops[m][t])
      BY <1>0 DEF KeysKnown, Fits
    <2>2. mem'[m] # None => Known(mem'[m].active)
      BY <1>3, <2>1
    <2>. QED
      BY <1>2, <2>1, <2>2 DEF Slot
  <1>8. DownIsIdle'
    BY <1>0, <1>1, <1>2, <1>3 DEF DownIsIdle
  <1>9. SealedVersions'
    BY <1>0, <1>1, <1>2, <1>3, <1>6 DEF SealedVersions, Fits, Slot
  <1>10. AloneInHierarchy' /\ AloneKnowsMaster'
    BY <1>0, <1>1, <1>2, <1>3, <1>6, Alone DEF AloneInHierarchy, HierarchyAsLeft, AloneKnowsMaster, HoldsMaster, FitsAlone, Slot
  <1>11. AloneCovers'
    <2>. SUFFICES ASSUME ~HA, n \notin unsure, k.cache # None,
                         ~(Openable \subseteq k.cache.held)
                  PROVE  Behind(n)'
      BY <1>0, <1>1, <1>2, <1>3, <1>6, Alone DEF AloneCovers, Covers, Running
    <2>1. mem[n].cache = k.cache /\ Behind(n)
      BY <1>0 DEF AloneCovers, Covers, CacheFits
    <2>2. s # "dek"
      BY <2>1 DEF CacheFits, Behind
    <2>3. ops'[n]["dek"] = ops[n]["dek"]
      BY <1>1, <1>2, <2>2 DEF Slot
    <2>4. ops'[n]["write"] # None => ops'[n]["write"].ver # ops[n]["dek"].ver
      BY <1>1, <1>2, <2>1, <2>2 DEF Slot, CacheFits, Behind
    <2>5. ops'[n]["walk"] # None => ops'[n]["walk"].sealer.active # ops[n]["dek"].ver
      BY <1>1, <1>2, <2>1, <2>2 DEF Slot, CacheFits, Behind
    <2>. QED
      BY <1>2, <1>3, <1>6, <2>1, <2>3, <2>4, <2>5 DEF Behind
  <1>. QED
    BY <1>4, <1>5, <1>7, <1>8, <1>9, <1>10, <1>11 DEF KInv

-----------------------------------------------------------------------------
(* Steps that change nothing stored *)

\* A keyring with another version set.
LEMMA WithCache ==
    ASSUME TypeOK, NEW n \in Running, NEW c \in Sealer \cup {None}
    PROVE  LET k == [mem[n] EXCEPT !.cache = c]
           IN /\ n \in Process /\ mem[n] \in Keyring /\ k \in Keyring
              /\ k.active = mem[n].active /\ k.held = mem[n].held /\ k.cache = c
  <1>1. n \in Process /\ mem[n] \in Keyring
    BY KeyRotationAssumption DEF TypeOK, Running
  <1>. QED
    BY <1>1 DEF Keyring

\* What projectDEKSet hands out names the active version, or was cached.
LEMMA SealerFacts ==
    ASSUME KInv, NEW n \in Running, Sealable(n)
    PROVE  /\ SealerOf(n) \in Sealer
           /\ Reached(SealerOf(n).active)
           /\ SealerOf(n) = mem[n].cache \/ Openable \subseteq SealerOf(n).held
  <1>1. TypeOK /\ OneActive /\ SealedVersions
    BY DEF KInv
  <1>2. n \in Process /\ mem[n] \in Keyring /\ mem[n] # None
    BY <1>1, KeyRotationAssumption DEF TypeOK, Running
  <1>3. CASE Trusted(n)
    BY <1>1, <1>2, <1>3 DEF SealerOf, Trusted, SealedVersions, Keyring
  <1>4. CASE ~Trusted(n)
    <2>1. PICK d \in deks : d.state = "active" /\ \A e \in deks : e.ver <= d.ver
      BY <1>1, <1>4 DEF Sealable, OneActive
    <2>2. d.ver \in Openable /\ \A u \in Openable : u <= d.ver /\ Openable \subseteq Nat
      BY <1>1, <2>1 DEF Openable, TypeOK, Dek
    <2>3. MaxOf(Openable) \in Openable /\ \A u \in Openable : u <= MaxOf(Openable)
      BY <2>2 DEF MaxOf
    <2>4. MaxOf(Openable) = d.ver
      BY <2>2, <2>3
    <2>. DEFINE c == [active |-> MaxOf(Openable), held |-> Openable]
    <2>5. SealerOf(n) = c
      BY <1>4 DEF SealerOf
    <2>6. c \in Sealer /\ c.active = d.ver /\ c.held = Openable
      BY <2>2, <2>4 DEF Sealer
    <2>7. Reached(d.ver)
      BY <1>1, <2>1 DEF Reached, OneActive, TypeOK, Dek
    <2>. QED
      BY <2>5, <2>6, <2>7
  <1>. QED
    BY <1>3, <1>4

\* An operation is given up.
LEMMA DropStep ==
    ASSUME KInv, NEW n \in Running, NEW s \in Slot, Refused(n, s),
           s = "dek" => ops[n][s].stage # "committed"
    PROVE  KInv'
  <1>1. TypeOK /\ KeysKnown /\ SealedVersions
    BY DEF KInv
  <1>2. n \in Process /\ mem[n] \in Keyring /\ mem[n] # None
    BY <1>1, KeyRotationAssumption DEF TypeOK, Running
  <1>3. mem' = [mem EXCEPT ![n] = mem[n]]
    BY <1>1, <1>2 DEF TypeOK, Refused
  <1>4. Known(mem[n].active) /\ (mem[n].cache # None => Reached(mem[n].cache.active))
    BY <1>1, <1>2 DEF KeysKnown, SealedVersions
  <1>5. FitsAlone(n, s, None, mem[n]) /\ CacheFits(n, s, None, mem[n])
    BY KeyRotationAssumption DEF FitsAlone, CacheFits, Op
  <1>6. SetOp(n, s, None) /\ UNCHANGED <<size, store, chance>>
    BY DEF Refused
  <1>. QED
    BY <1>2, <1>3, <1>4, <1>5, <1>6, PrivateStep

LEMMA Refusals ==
    ASSUME KInv, NEW n \in Running,
           \/ RefuseCreate(n) \/ RefuseWrite(n) \/ RefuseDEK(n) \/ AbandonWalk(n)
           \/ RefuseToken(n) \/ RefuseRoot(n) \/ RefuseFinalize(n)
    PROVE  KInv'
  <1>1. PICK s \in Slot : Refused(n, s) /\ (s = "dek" => ops[n][s].stage = "prepared")
    BY DEF RefuseCreate, RefuseWrite, RefuseDEK, AbandonWalk, RefuseToken, RefuseRoot,
           RefuseFinalize, At, Slot
  <1>. QED
    BY <1>1, DropStep

\* An operation begins, with the keyring as it is.
LEMMA BeginStep ==
    ASSUME KInv, NEW n \in Running, NEW s \in Slot \ {"dek", "write", "walk"},
           NEW op \in OpOf(s), SetOp(n, s, op), UNCHANGED <<size, store, mem, chance>>,
           Fits(s, op), ~HA => FitsAlone(n, s, op, mem[n])
    PROVE  KInv'
  <1>1. TypeOK /\ KeysKnown /\ SealedVersions
    BY DEF KInv
  <1>2. n \in Process /\ mem[n] \in Keyring /\ mem[n] # None
    BY <1>1, KeyRotationAssumption DEF TypeOK, Running
  <1>3. mem' = [mem EXCEPT ![n] = mem[n]]
    BY <1>1, <1>2 DEF TypeOK
  <1>4. Known(mem[n].active) /\ (mem[n].cache # None => Reached(mem[n].cache.active))
    BY <1>1, <1>2 DEF KeysKnown, SealedVersions
  <1>5. CacheFits(n, s, op, mem[n])
    BY DEF CacheFits
  <1>. QED
    BY <1>2, <1>3, <1>4, <1>5, PrivateStep

LEMMA MintDEKStep ==
    ASSUME KInv, NEW n \in Running, MintDEK(n)
    PROVE  KInv'
  <1>. DEFINE op == [stage |-> "minted", master |-> mem[n].active]
  <1>1. TypeOK /\ KeysKnown
    BY DEF KInv
  <1>2. n \in Process /\ mem[n] \in Keyring /\ mem[n] # None
    BY <1>1, KeyRotationAssumption DEF TypeOK, Running
  <1>3. op \in OpOf("mint")
    BY <1>2 DEF OpOf, MintOp, Keyring
  <1>4. Fits("mint", op) /\ FitsAlone(n, "mint", op, mem[n])
    BY <1>1, <1>2 DEF KeysKnown, Fits, FitsAlone
  <1>5. SetOp(n, "mint", op) /\ UNCHANGED <<size, store, mem, chance>>
    BY DEF MintDEK
  <1>. QED
    BY <1>3, <1>4, <1>5, BeginStep DEF Slot

LEMMA PrepareTokenStep ==
    ASSUME KInv, NEW n \in Running, PrepareToken(n)
    PROVE  KInv'
  <1>. DEFINE op == [stage |-> "prepared", ver |-> mem[n].token + 1,
                     master |-> mem[n].active]
  <1>1. TypeOK /\ KeysKnown
    BY DEF KInv
  <1>2. n \in Process /\ mem[n] \in Keyring /\ mem[n] # None
    BY <1>1, KeyRotationAssumption DEF TypeOK, Running
  <1>3. op \in OpOf("token")
    BY <1>2 DEF OpOf, KeyOp, Keyring
  <1>4. Fits("token", op) /\ FitsAlone(n, "token", op, mem[n])
    BY DEF Fits, FitsAlone
  <1>5. SetOp(n, "token", op) /\ UNCHANGED <<size, store, mem, chance>>
    BY DEF PrepareToken
  <1>. QED
    BY <1>3, <1>4, <1>5, BeginStep DEF Slot

LEMMA PrepareRootStep ==
    ASSUME KInv, NEW n \in Running, PrepareRoot(n)
    PROVE  KInv'
  <1>1. TypeOK /\ KeysKnown /\ OneHierarchy
    BY DEF KInv
  <1>2. n \in Process /\ mem[n] \in Keyring /\ mem[n] # None
    BY <1>1, KeyRotationAssumption DEF TypeOK, Running
  <1>3. PICK w \in wrappers : w = Newest
    BY <1>1, NewestFacts
  <1>. DEFINE x == [ver |-> w.ver, epoch |-> w.epoch + 1, key |-> mem[n].active]
              op == [stage |-> "prepared", kind |-> "root", wrapper |-> x]
  <1>4. /\ SetOp(n, "hierarchy", op) /\ UNCHANGED <<size, store, mem, chance>>
        /\ mem[n].active.ver = w.ver /\ w.epoch < size.epochs
    BY <1>3 DEF PrepareRoot
  <1>5. w \in Wrapper /\ w.epoch \in 1..size.epochs /\ size.epochs \in Nat
    BY <1>1, KeyRotationAssumption DEF OneHierarchy, TypeOK
  <1>6. x \in Wrapper /\ x.epoch \in 1..size.epochs
    BY <1>2, <1>4, <1>5 DEF Wrapper, Keyring
  <1>7. x.ver = x.key.ver /\ Known(x.key)
    BY <1>1, <1>2, <1>4 DEF KeysKnown
  <1>. HIDE DEF x
  <1>8. op \in RootOp /\ op \in OpOf("hierarchy") /\ op \notin MasterOp /\ op \notin FinalizeOp
    BY <1>6 DEF OpOf, RootOp, MasterOp, FinalizeOp
  <1>9. Fits("hierarchy", op) /\ FitsAlone(n, "hierarchy", op, mem[n])
    BY <1>6, <1>7, <1>8 DEF Fits, FitsAlone
  <1>. QED
    BY <1>4, <1>8, <1>9, BeginStep DEF Slot

LEMMA BeginFinalizeStep ==
    ASSUME KInv, NEW n \in Running, BeginFinalize(n)
    PROVE  KInv'
  <1>. DEFINE op == [stage |-> "verified", kind |-> "root"]
  <1>1. TypeOK /\ OneHierarchy
    BY DEF KInv
  <1>2. \A w \in wrappers : w.epoch <= root
    BY <1>1, NewestFacts DEF BeginFinalize, Verified
  <1>3. op \in FinalizeOp /\ op \in OpOf("hierarchy") /\ op \notin MasterOp /\ op \notin RootOp
    BY DEF OpOf, FinalizeOp, MasterOp, RootOp
  <1>4. Fits("hierarchy", op) /\ FitsAlone(n, "hierarchy", op, mem[n])
    BY <1>2, <1>3 DEF Fits, FitsAlone
  <1>5. SetOp(n, "hierarchy", op) /\ UNCHANGED <<size, store, mem, chance>>
    BY DEF BeginFinalize
  <1>. QED
    BY <1>3, <1>4, <1>5, BeginStep DEF Slot

\* An operation begins with a sealer, which is cached.
LEMMA CachingStep ==
    ASSUME KInv, NEW n \in Running, NEW s \in {"write", "dek", "walk"}, NEW op \in OpOf(s),
           Sealable(n), Caching(n), SetOp(n, s, op), UNCHANGED <<size, store, chance>>,
           ops[n][s] = None, Fits(s, op),
           s = "write" => op.ver = SealerOf(n).active,
           s = "walk" => op.sealer = SealerOf(n)
    PROVE  KInv'
  <1>1. TypeOK /\ KeysKnown
    BY DEF KInv
  <1>2. PICK c \in Sealer : c = SealerOf(n)
    BY SealerFacts
  <1>3. PICK k \in Keyring : k = [mem[n] EXCEPT !.cache = c]
    BY <1>1, WithCache
  <1>4. /\ n \in Process /\ mem[n] \in Keyring /\ mem[n] # None
        /\ k.active = mem[n].active /\ k.held = mem[n].held /\ k.cache = c
    BY <1>1, <1>3, WithCache DEF Running
  <1>5. mem' = [mem EXCEPT ![n] = k]
    BY <1>2, <1>3 DEF Caching
  <1>6. Known(k.active) /\ Reached(k.cache.active)
    BY <1>1, <1>2, <1>4, SealerFacts DEF KeysKnown
  <1>7. FitsAlone(n, s, op, k)
    BY <1>4 DEF FitsAlone
  <1>8. CacheFits(n, s, op, k)
    BY <1>2, <1>4, SealerFacts DEF CacheFits
  <1>9. s \in Slot /\ op \in OpOf(s) \cup {None}
    BY DEF Slot
  <1>. QED
    BY <1>5, <1>6, <1>7, <1>8, <1>9, PrivateStep

LEMMA SealStep ==
    ASSUME KInv, NEW n \in Running, NEW r \in Row, Seal(n, r)
    PROVE  KInv'
  <1>. DEFINE op == [stage |-> "sealed", row |-> r, ver |-> SealerOf(n).active]
  <1>1. Sealable(n) /\ Caching(n) /\ SetOp(n, "write", op) /\ ops[n]["write"] = None
    BY DEF Seal, Free
  <1>2. SealerOf(n) \in Sealer /\ Reached(SealerOf(n).active)
    BY <1>1, SealerFacts
  <1>3. op \in OpOf("write")
    BY <1>2 DEF OpOf, WriteOp, Sealer
  <1>4. Fits("write", op) /\ op.ver = SealerOf(n).active
    BY <1>2 DEF Fits
  <1>5. UNCHANGED <<size, store, chance>>
    BY DEF Seal
  <1>. QED
    BY <1>1, <1>3, <1>4, <1>5, CachingStep

LEMMA PrepareDEKStep ==
    ASSUME KInv, NEW n \in Running, PrepareDEK(n)
    PROVE  KInv'
  <1>. DEFINE op == [stage |-> "prepared", ver |-> SealerOf(n).active + 1,
                     master |-> mem[n].active]
  <1>0. TypeOK /\ KeysKnown
    BY DEF KInv
  <1>1. Sealable(n) /\ Caching(n) /\ SetOp(n, "dek", op) /\ ops[n]["dek"] = None
    BY DEF PrepareDEK, Free
  <1>2. SealerOf(n) \in Sealer
    BY <1>1, SealerFacts
  <1>3. n \in Process /\ mem[n] \in Keyring /\ mem[n] # None
    BY <1>0, KeyRotationAssumption DEF TypeOK, Running
  <1>4. op \in OpOf("dek")
    BY <1>2, <1>3 DEF OpOf, KeyOp, Sealer, Keyring
  <1>5. Fits("dek", op)
    BY <1>0, <1>3 DEF Fits, KeysKnown
  <1>6. UNCHANGED <<size, store, chance>>
    BY DEF PrepareDEK
  <1>. QED
    BY <1>1, <1>4, <1>5, <1>6, CachingStep

LEMMA BeginWalkStep ==
    ASSUME KInv, NEW n \in Running, BeginWalk(n)
    PROVE  KInv'
  <1>. DEFINE op == [stage |-> "walking", sealer |-> SealerOf(n), left |-> Row]
  <1>1. Sealable(n) /\ Caching(n) /\ SetOp(n, "walk", op) /\ ops[n]["walk"] = None
    BY DEF BeginWalk, Free
  <1>2. SealerOf(n) \in Sealer /\ Reached(SealerOf(n).active)
    BY <1>1, SealerFacts
  <1>3. op \in OpOf("walk")
    BY <1>2 DEF OpOf, WalkOp
  <1>4. Fits("walk", op) /\ op.sealer = SealerOf(n)
    BY <1>2 DEF Fits
  <1>5. UNCHANGED <<size, store, chance>>
    BY DEF BeginWalk
  <1>. QED
    BY <1>1, <1>3, <1>4, <1>5, CachingStep

\* An operation ends with a change of the keyring.
LEMMA EndStep ==
    ASSUME KInv, NEW n \in Running, NEW s \in Slot, NEW k \in Keyring,
           SetOp(n, s, None), mem' = [mem EXCEPT ![n] = k], UNCHANGED <<size, store, chance>>,
           Known(k.active), s # "hierarchy" => mem[n].held \subseteq k.held,
           ~HA => \A w \in wrappers : w.key \in mem[n].held => w.key \in k.held,
           k.cache = None \/ (k.cache = mem[n].cache /\ s # "dek")
    PROVE  KInv'
  <1>1. TypeOK /\ SealedVersions
    BY DEF KInv
  <1>2. n \in Process /\ mem[n] # None
    BY <1>1, KeyRotationAssumption DEF TypeOK, Running
  <1>3. k.cache # None => Reached(k.cache.active)
    BY <1>1, <1>2 DEF SealedVersions
  <1>4. ~HA => FitsAlone(n, s, None, k)
    BY KeyRotationAssumption DEF FitsAlone, Op
  <1>5. CacheFits(n, s, None, k)
    BY DEF CacheFits
  <1>. QED
    BY <1>3, <1>4, <1>5, PrivateStep

LEMMA EvictStep ==
    ASSUME KInv, NEW n \in Running, NEW s \in Slot, Evict(n, s)
    PROVE  KInv'
  <1>1. TypeOK /\ KeysKnown
    BY DEF KInv
  <1>2. PICK k \in Keyring : k = [mem[n] EXCEPT !.cache = None]
    BY <1>1, WithCache
  <1>3. /\ n \in Process /\ mem[n] # None
        /\ k.active = mem[n].active /\ k.held = mem[n].held /\ k.cache = None
    BY <1>1, <1>2, WithCache DEF Running
  <1>4. mem' = [mem EXCEPT ![n] = k] /\ SetOp(n, s, None) /\ UNCHANGED <<size, store, chance>>
    BY <1>2 DEF Evict
  <1>5. Known(k.active)
    BY <1>1, <1>3 DEF KeysKnown
  <1>6. /\ s # "hierarchy" => mem[n].held \subseteq k.held
        /\ ~HA => \A w \in wrappers : w.key \in mem[n].held => w.key \in k.held
        /\ k.cache = None \/ (k.cache = mem[n].cache /\ s # "dek")
    BY <1>3
  <1>. QED
    BY <1>4, <1>5, <1>6, EndStep

LEMMA AdoptTokenStep ==
    ASSUME KInv, NEW n \in Running, AdoptToken(n)
    PROVE  KInv'
  <1>1. TypeOK /\ KeysKnown
    BY DEF KInv
  <1>2. n \in Process /\ mem[n] \in Keyring /\ mem[n] # None
    BY <1>1, KeyRotationAssumption DEF TypeOK, Running
  <1>3. ops[n]["token"] \in KeyOp
    BY <1>1, <1>2 DEF AdoptToken, At, TypeOK, Slot, OpOf
  <1>4. PICK v \in Nat : v = MaxOf({mem[n].token, ops[n]["token"].ver})
    <2>. DEFINE a == mem[n].token
                b == ops[n]["token"].ver
    <2>1. a \in Nat /\ b \in Nat
      BY <1>2, <1>3 DEF Keyring, KeyOp
    <2>. HIDE DEF a, b
    <2>2. \E v \in {a, b} : \A u \in {a, b} : u <= v
      BY <2>1
    <2>3. MaxOf({a, b}) \in {a, b}
      BY <2>2 DEF MaxOf
    <2>. QED
      BY <2>1, <2>3 DEF a, b
  <1>. DEFINE k == [mem[n] EXCEPT !.token = v]
  <1>5. /\ k \in Keyring
        /\ k.active = mem[n].active /\ k.held = mem[n].held /\ k.cache = mem[n].cache
    BY <1>2, <1>4 DEF Keyring
  <1>6. mem' = [mem EXCEPT ![n] = k] /\ SetOp(n, "token", None) /\ UNCHANGED <<size, store, chance>>
    BY <1>2, <1>4 DEF AdoptToken
  <1>7. Known(k.active)
    BY <1>1, <1>2, <1>5 DEF KeysKnown
  <1>. HIDE DEF k
  <1>. QED
    BY <1>5, <1>6, <1>7, EndStep DEF Slot

LEMMA AdoptMasterStep ==
    ASSUME KInv, NEW n \in Running, AdoptMaster(n)
    PROVE  KInv'
  <1>1. TypeOK /\ KeysKnown
    BY DEF KInv
  <1>2. n \in Process /\ mem[n] \in Keyring /\ mem[n] # None
    BY <1>1, KeyRotationAssumption DEF TypeOK, Running
  <1>3. /\ ops[n]["hierarchy"] \in MasterOp /\ ops[n]["hierarchy"].stage = "committed"
    BY <1>1, <1>2, HierarchyOps DEF AdoptMaster, At
  <1>4. PICK key \in MasterKey : key = ops[n]["hierarchy"].key /\ Known(key)
    BY <1>1, <1>2, <1>3 DEF KeysKnown, MasterOp
  <1>. DEFINE k == [mem[n] EXCEPT !.active = key]
  <1>5. /\ k \in Keyring
        /\ k.active = key /\ k.held = mem[n].held /\ k.cache = mem[n].cache
    BY <1>2, <1>4 DEF Keyring
  <1>6. mem' = [mem EXCEPT ![n] = k] /\ SetOp(n, "hierarchy", None) /\ UNCHANGED <<size, store, chance>>
    BY <1>2, <1>4 DEF AdoptMaster
  <1>. HIDE DEF k
  <1>. QED
    BY <1>4, <1>5, <1>6, EndStep DEF Slot

LEMMA AbortMasterStep ==
    ASSUME KInv, NEW n \in Running, AbortMaster(n)
    PROVE  KInv'
  <1>1. TypeOK /\ KeysKnown /\ OneHierarchy /\ AloneInHierarchy
    BY DEF KInv
  <1>2. n \in Process /\ n \in size.nodes /\ mem[n] \in Keyring /\ mem[n] # None
    BY <1>1, KeyRotationAssumption DEF TypeOK, Running
  <1>3. /\ ops[n]["hierarchy"] \in MasterOp /\ ops[n]["hierarchy"].stage = "prepared"
    BY <1>1, <1>2, HierarchyOps DEF AbortMaster, At
  <1>4. PICK key \in MasterKey : key = ops[n]["hierarchy"].key
    BY <1>3 DEF MasterOp
  <1>. DEFINE k == [mem[n] EXCEPT !.held = @ \ {key}]
  <1>5. /\ k \in Keyring
        /\ k.active = mem[n].active /\ k.held = mem[n].held \ {key} /\ k.cache = mem[n].cache
    BY <1>2, <1>4 DEF Keyring
  <1>6. mem' = [mem EXCEPT ![n] = k] /\ SetOp(n, "hierarchy", None) /\ UNCHANGED <<size, store, chance>>
    BY <1>2, <1>4 DEF AbortMaster, Forgotten
  <1>7. ~HA => \A w \in wrappers : w.key # key
    <2>. SUFFICES ASSUME ~HA, NEW w \in wrappers PROVE w.key # key
      OBVIOUS
    <2>1. key.ver = w.ver + 1
      BY <1>1, <1>2, <1>3, <1>4 DEF AloneInHierarchy, HierarchyAsLeft
    <2>2. w.key.ver = w.ver /\ w.ver \in Nat
      BY <1>1 DEF OneHierarchy, TypeOK, Wrapper
    <2>. QED
      BY <2>1, <2>2
  <1>8. Known(k.active)
    BY <1>1, <1>2, <1>5 DEF KeysKnown
  <1>. HIDE DEF k
  <1>. QED
    BY <1>5, <1>6, <1>7, <1>8, EndStep DEF Slot

LEMMA PrepareMasterStep ==
    ASSUME KInv, NEW n \in Running, PrepareMaster(n)
    PROVE  KInv'
  <1>1. TypeOK /\ KeysKnown /\ OneHierarchy /\ SealedVersions
    BY DEF KInv
  <1>2. n \in Process /\ mem[n] \in Keyring /\ mem[n] # None
    BY <1>1, KeyRotationAssumption DEF TypeOK, Running
  <1>3. PICK w \in wrappers : w = Newest /\ wrappers = {w}
    BY <1>1, NewestFacts DEF PrepareMaster
  <1>4. w \in Wrapper /\ w.epoch \in 1..size.epochs /\ w.epoch = root
    BY <1>1, <1>3 DEF OneHierarchy, TypeOK, PrepareMaster
  <1>5. PICK key \in MasterKey : key = [ver |-> w.ver + 1, by |-> n]
    <2>1. w.ver + 1 \in Nat
      BY <1>4 DEF Wrapper
    <2>2. [ver |-> w.ver + 1, by |-> n] \in MasterKey
      BY <1>2, <2>1 DEF MasterKey
    <2>. QED
      BY <2>2
  <1>. DEFINE k == [mem[n] EXCEPT !.held = @ \cup {key}]
              op == [stage |-> "prepared", kind |-> "master", key |-> key,
                     epoch |-> w.epoch, deks |-> Openable, token |-> token.ver]
  <1>6. /\ k \in Keyring
        /\ k.active = mem[n].active /\ k.held = mem[n].held \cup {key} /\ k.cache = mem[n].cache
    BY <1>2, <1>5 DEF Keyring
  <1>7. mem' = [mem EXCEPT ![n] = k] /\ SetOp(n, "hierarchy", op) /\ UNCHANGED <<size, store, chance>>
    BY <1>2, <1>3, <1>5 DEF PrepareMaster, Learn
  <1>8. Openable \subseteq Nat /\ token.ver \in Nat
    BY <1>1 DEF Openable, TypeOK, Dek
  <1>9. op \in MasterOp /\ op \in OpOf("hierarchy") /\ op \notin RootOp /\ op \notin FinalizeOp
    BY <1>4, <1>8 DEF OpOf, MasterOp, RootOp, FinalizeOp, Wrapper
  <1>10. Fits("hierarchy", op)
    BY <1>4, <1>9 DEF Fits
  <1>11. FitsAlone(n, "hierarchy", op, k)
    BY <1>3, <1>4, <1>5, <1>6, <1>9 DEF FitsAlone
  <1>12. Known(k.active) /\ (k.cache # None => Reached(k.cache.active))
    BY <1>1, <1>2, <1>6 DEF KeysKnown, SealedVersions
  <1>13. CacheFits(n, "hierarchy", op, k)
    BY <1>6 DEF CacheFits
  <1>. HIDE DEF k, op
  <1>. QED
    BY <1>6, <1>7, <1>9, <1>10, <1>11, <1>12, <1>13, PrivateStep DEF Slot

-----------------------------------------------------------------------------
(* Steps that change the store *)

StoreTyped ==
    /\ root \in 1..size.epochs /\ wrappers \subseteq Wrapper /\ wrappers # {}
    /\ deks \subseteq Dek /\ token \in [ver : Nat, master : MasterKey]
    /\ rows \in [Row -> Nat] /\ faults \in 0..size.faults /\ unsure \subseteq Process

\* A process changes the store and one of its operations: the stored versions only grow,
\* so that what was known and reached still is.
LEMMA StoreStep ==
    ASSUME KInv, NEW n \in Running, NEW s \in Slot, NEW op \in OpOf(s) \cup {None},
           NEW k \in Keyring, SetOp(n, s, op), mem' = [mem EXCEPT ![n] = k], size' = size,
           StoreTyped', OneHierarchy', NothingStranded', OneActive', InstalledRootOpens',
           \A key \in MasterKey : Known(key) => Known(key)',
           \A v \in Nat : Reached(v) => Reached(v)',
           op # None => Fits(s, op)',
           k.active = mem[n].active, k.cache # None => Reached(k.cache.active)',
           ~HA => HierarchyAsLeft(n)',
           ~HA /\ n \notin unsure' => HoldsMaster(n)' /\ Covers(n)'
    PROVE  KInv'
  <1>0. /\ TypeOK /\ OneHierarchy /\ KeysKnown /\ DownIsIdle /\ SealedVersions
        /\ AloneInHierarchy /\ AloneKnowsMaster /\ AloneCovers
    BY DEF KInv
  <1>1. n \in Process /\ n \in size.nodes /\ mem[n] # None /\ mem[n] \in Keyring
    BY <1>0, KeyRotationAssumption DEF Running, TypeOK
  <1>2. /\ ops' \in [Process -> [Slot -> Op \cup {None}]]
        /\ \A m \in Process, t \in Slot : ops'[m][t] \in OpOf(t) \cup {None}
        /\ ops'[n][s] = op
        /\ \A m \in Process, t \in Slot : m # n \/ t # s => ops'[m][t] = ops[m][t]
    BY <1>0, <1>1, SetOpFacts
  <1>3. /\ mem'[n] = k /\ k # None /\ mem' \in [Process -> Keyring \cup {None}]
        /\ \A m \in Process : m # n => mem'[m] = mem[m]
    BY <1>0, <1>1, KeyRotationAssumption DEF TypeOK
  <1>4. TypeOK'
    BY <1>0, <1>2, <1>3 DEF TypeOK, StoreTyped
  <1>5. /\ \A m \in Process : mem[m] # None => mem[m] \in Keyring
        /\ \A m \in Process, t \in Slot : ops[m][t] # None => ops[m][t] \in OpOf(t)
    BY <1>0 DEF TypeOK
  <1>6. ASSUME NEW m \in Process, NEW t \in Slot, NEW o, o = ops'[m][t], o # None
        PROVE  Fits(t, o)'
    <2>1. CASE m = n /\ t = s
      BY <1>2, <1>6, <2>1
    <2>2. CASE ~(m = n /\ t = s)
      <3>1. o = ops[m][t] /\ o \in OpOf(t)
        BY <1>2, <1>5, <1>6, <2>2
      <3>2. Fits(t, o)
        BY <1>0, <1>6, <3>1 DEF KeysKnown, SealedVersions, Fits
      <3>3. t \in {"mint", "dek"} => o.master \in MasterKey
        <4>1. CASE t = "mint"
          BY <3>1, <4>1 DEF OpOf, MintOp
        <4>2. CASE t = "dek"
          BY <3>1, <4>2 DEF OpOf, KeyOp
        <4>. QED
          BY <4>1, <4>2
      <3>4. o \in MasterOp => o.key \in MasterKey
        BY DEF MasterOp
      <3>5. o \in RootOp => o.wrapper.key \in MasterKey
        BY DEF RootOp, Wrapper
      <3>6. t = "write" => o.ver \in Nat
        BY <3>1 DEF OpOf, WriteOp
      <3>7. t = "walk" => o.sealer.active \in Nat
        BY <3>1 DEF OpOf, WalkOp, Sealer
      <3>. QED
        BY <3>2, <3>3, <3>4, <3>5, <3>6, <3>7 DEF Fits
    <2>. QED
      BY <2>1, <2>2
  <1>7. ASSUME NEW m \in Process, NEW q, q = mem'[m], q # None
        PROVE  Known(q.active)' /\ (q.cache # None => Reached(q.cache.active)')
    <2>1. CASE m = n
      <3>1. Known(k.active) /\ k.active \in MasterKey
        BY <1>0, <1>1 DEF KeysKnown, Keyring
      <3>. QED
        BY <1>3, <1>7, <2>1, <3>1
    <2>2. CASE m # n
      <3>1. q = mem[m] /\ q \in Keyring
        BY <1>3, <1>5, <1>7, <2>2
      <3>2. q.active \in MasterKey /\ (q.cache # None => q.cache.active \in Nat)
        BY <3>1 DEF Keyring, Sealer
      <3>3. Known(q.active) /\ (q.cache # None => Reached(q.cache.active))
        BY <1>0, <1>7, <3>1 DEF KeysKnown, SealedVersions
      <3>. QED
        BY <3>2, <3>3
    <2>. QED
      BY <2>1, <2>2
  <1>8. KeysKnown'
    BY <1>6, <1>7, KeyRotationAssumption DEF KeysKnown, Fits, Slot, Op
  <1>9. SealedVersions'
    BY <1>6, <1>7 DEF SealedVersions, Fits, Slot
  <1>10. DownIsIdle'
    BY <1>0, <1>1, <1>2, <1>3 DEF DownIsIdle
  <1>11. AloneInHierarchy' /\ AloneKnowsMaster' /\ AloneCovers'
    BY <1>0, <1>1, Alone DEF AloneInHierarchy, AloneKnowsMaster, AloneCovers, Running, HA
  <1>. QED
    BY <1>4, <1>8, <1>9, <1>10, <1>11 DEF KInv

LEMMA RunningFacts ==
    ASSUME TypeOK, NEW n \in Running
    PROVE  /\ n \in Process /\ n \in size.nodes /\ mem[n] \in Keyring /\ mem[n] # None
           /\ mem = [mem EXCEPT ![n] = mem[n]]
  BY KeyRotationAssumption DEF TypeOK, Running

\* The process reads the answer to its commit or loses it.
LEMMA Outcome ==
    ASSUME TypeOK, NEW n \in Running, NEW s \in {"dek", "token", "walk"},
           ops[n][s] # None, Answered(n, s) \/ Unanswered(n, s), size' = size
    PROVE  \E op \in OpOf(s) \cup {None} :
              /\ SetOp(n, s, op) /\ mem' = mem /\ unsure \subseteq unsure'
              /\ faults' \in 0..size.faults /\ unsure' \subseteq Process
              /\ op # None => op = [ops[n][s] EXCEPT !.stage = "committed"]
              /\ n \notin unsure' => op # None
  <1>0. n \in Process /\ ops[n][s] \in OpOf(s)
    BY RunningFacts DEF TypeOK, Slot
  <1>1. CASE Answered(n, s)
    <2>. DEFINE op == [ops[n][s] EXCEPT !.stage = "committed"]
    <2>1. op \in OpOf(s)
      <3>1. CASE s \in {"dek", "token"}
        BY <1>0, <3>1 DEF OpOf, KeyOp
      <3>2. CASE s = "walk"
        BY <1>0, <3>2 DEF OpOf, WalkOp
      <3>. QED
        BY <3>1, <3>2
    <2>2. op # None
      BY <2>1, KeyRotationAssumption DEF OpOf, Op
    <2>3. /\ SetOp(n, s, op) /\ mem' = mem /\ unsure' = unsure
          /\ faults' \in 0..size.faults /\ unsure' \subseteq Process
      BY <1>1 DEF Answered, chance, TypeOK
    <2>. HIDE DEF op
    <2>4. op = [ops[n][s] EXCEPT !.stage = "committed"]
      BY DEF op
    <2>. QED
      BY <2>1, <2>2, <2>3, <2>4
  <1>2. CASE Unanswered(n, s)
    <2>1. SetOp(n, s, None) /\ mem' = mem /\ unsure' = unsure \cup {n}
      BY <1>2 DEF Unanswered, Lose
    <2>2. size.faults \in Nat
      BY KeyRotationAssumption DEF TypeOK
    <2>3. faults' \in 0..size.faults /\ unsure' \subseteq Process
      BY <1>0, <1>2, <2>2 DEF Unanswered, Lose, TypeOK
    <2>. QED
      BY <2>1, <2>3
  <1>. QED
    BY <1>1, <1>2

\* The DEKs that can be opened, and the active one among them.
LEMMA DekFacts ==
    ASSUME TypeOK, OneActive
    PROVE  /\ Openable \subseteq Nat
           /\ \A d \in deks : d \in Dek /\ d.ver \in Openable
           /\ \A u \in Openable : \E d \in deks : d.ver = u
           /\ \A v : ActiveDEK(v) => v \in Openable /\ \A d \in deks : d.ver <= v
           /\ \A v : ActiveDEK(v) => \A d \in deks : d.state = "active" => d.ver = v
  <1>1. /\ Openable \subseteq Nat
        /\ \A d \in deks : d \in Dek /\ d.ver \in Openable
        /\ \A u \in Openable : \E d \in deks : d.ver = u
    BY DEF Openable, TypeOK, Dek
  <1>. QED
    BY <1>1 DEF OneActive, ActiveDEK

\* A step below the master: the wrappers and the keyrings stay.
LEMMA BelowMaster ==
    ASSUME KInv, NEW n \in Running, NEW s \in Slot \ {"hierarchy"},
           NEW op \in OpOf(s) \cup {None}, SetOp(n, s, op),
           UNCHANGED <<size, root, wrappers, mem>>, unsure \subseteq unsure',
           StoreTyped', NothingStranded', OneActive',
           \A v \in Nat : Reached(v) => Reached(v)',
           op # None => Fits(s, op)',
           ~HA /\ n \notin unsure' => Covers(n)'
    PROVE  KInv'
  <1>0. /\ TypeOK /\ OneHierarchy /\ SealedVersions
        /\ InstalledRootOpens /\ AloneInHierarchy /\ AloneKnowsMaster
    BY DEF KInv
  <1>1. n \in Process /\ n \in size.nodes /\ mem[n] \in Keyring /\ mem[n] # None
    BY <1>0, RunningFacts
  <1>2. OneHierarchy' /\ InstalledRootOpens'
    BY <1>0 DEF OneHierarchy, OneMaster, InstalledRootOpens, HA
  <1>3. \A key \in MasterKey : Known(key) => Known(key)'
    BY DEF Known
  <1>4. mem[n].cache # None => Reached(mem[n].cache.active)'
    <2>1. mem[n].cache # None => mem[n].cache.active \in Nat
      BY <1>1 DEF Keyring, Sealer
    <2>. QED
      BY <1>0, <1>1, <2>1 DEF SealedVersions
  <1>5. ops'[n]["hierarchy"] = ops[n]["hierarchy"]
    BY <1>0, <1>1, SetOpFacts DEF Slot
  <1>6. ~HA => HierarchyAsLeft(n)'
    BY <1>0, <1>1, <1>5 DEF AloneInHierarchy, HierarchyAsLeft
  <1>7. ~HA /\ n \notin unsure' => HoldsMaster(n)'
    BY <1>0 DEF AloneKnowsMaster, HoldsMaster
  <1>8. mem' = [mem EXCEPT ![n] = mem[n]] /\ size' = size /\ s \in Slot
    BY <1>0, RunningFacts
  <1>. QED
    BY <1>1, <1>2, <1>3, <1>4, <1>6, <1>7, <1>8, StoreStep

LEMMA CommitWriteStep ==
    ASSUME KInv, NEW n \in Running, CommitWrite(n)
    PROVE  KInv'
  <1>0. TypeOK /\ NothingStranded /\ OneActive /\ AloneCovers
    BY DEF KInv
  <1>1. n \in Process /\ ops[n]["write"] \in WriteOp /\ ops[n]["write"] # None
    BY <1>0, RunningFacts DEF TypeOK, Slot, OpOf, CommitWrite, At
  <1>2. PICK r \in Row, v \in Nat : r = ops[n]["write"].row /\ v = ops[n]["write"].ver
    BY <1>1 DEF WriteOp
  <1>3. /\ rows' = [rows EXCEPT ![r] = v] /\ ActiveDEK(v) /\ SetOp(n, "write", None)
        /\ UNCHANGED <<size, root, wrappers, deks, token, mem, faults, unsure>>
    BY <1>2 DEF CommitWrite, Fence, chance
  <1>4. /\ StoreTyped'
        /\ \A q \in Row : rows'[q] = rows[q] \/ rows'[q] = v
    BY <1>0, <1>2, <1>3 DEF TypeOK, StoreTyped
  <1>5. Openable' = Openable /\ v \in Openable
    BY <1>0, <1>3, DekFacts DEF Openable
  <1>6. OneActive' /\ \A u \in Nat : Reached(u) => Reached(u)'
    BY <1>0, <1>3 DEF OneActive, Reached
  <1>7. NothingStranded'
    BY <1>0, <1>3, <1>4, <1>5 DEF NothingStranded
  <1>8. ASSUME ~HA, n \notin unsure' PROVE Covers(n)'
    <2>. SUFFICES ASSUME mem[n].cache # None, Behind(n)
                  PROVE  Behind(n)'
      BY <1>0, <1>3, <1>5, <1>8 DEF AloneCovers, Covers
    <2>1. \A q \in Row : rows'[q] # ops[n]["dek"].ver
      BY <1>1, <1>2, <1>4 DEF Behind
    <2>2. /\ ops'[n]["dek"] = ops[n]["dek"] /\ ops'[n]["walk"] = ops[n]["walk"]
          /\ ops'[n]["write"] = None
      BY <1>0, <1>1, <1>3, SetOpFacts DEF Slot
    <2>3. ActiveDEK(ops[n]["dek"].ver)'
      BY <1>3, <2>2 DEF Behind, ActiveDEK
    <2>. QED
      BY <1>3, <1>5, <2>1, <2>2, <2>3 DEF Behind
  <1>. QED
    BY <1>3, <1>4, <1>6, <1>7, <1>8, BelowMaster DEF Slot

LEMMA ResealStep ==
    ASSUME KInv, NEW n \in Running, NEW r \in Row, Reseal(n, r)
    PROVE  KInv'
  <1>0. TypeOK /\ NothingStranded /\ OneActive /\ AloneCovers /\ SealedVersions
    BY DEF KInv
  <1>1. n \in Process /\ ops[n]["walk"] \in WalkOp /\ ops[n]["walk"] # None
    BY <1>0, RunningFacts DEF TypeOK, Slot, OpOf, Reseal, At
  <1>2. PICK v \in Nat : v = ops[n]["walk"].sealer.active
    BY <1>1 DEF WalkOp, Sealer
  <1>3. PICK op \in WalkOp : op = [ops[n]["walk"] EXCEPT !.left = @ \ {r}]
    BY <1>1 DEF WalkOp
  <1>4. op.sealer.active = v
    BY <1>1, <1>2, <1>3 DEF WalkOp
  <1>5. /\ ActiveDEK(v) /\ SetOp(n, "walk", op)
        /\ rows' = [rows EXCEPT ![r] = IF Settled(r, v) THEN @ ELSE v]
        /\ UNCHANGED <<size, root, wrappers, deks, token, mem, faults, unsure>>
    BY <1>2, <1>3 DEF Reseal, Fence, chance
  <1>6. /\ StoreTyped'
        /\ \A q \in Row : rows'[q] = rows[q] \/ rows'[q] = v
    BY <1>0, <1>2, <1>5 DEF TypeOK, StoreTyped
  <1>7. Openable' = Openable /\ v \in Openable
    BY <1>0, <1>5, DekFacts DEF Openable
  <1>8. OneActive' /\ \A u \in Nat : Reached(u) => Reached(u)'
    BY <1>0, <1>5 DEF OneActive, Reached
  <1>9. NothingStranded'
    BY <1>0, <1>5, <1>6, <1>7 DEF NothingStranded
  <1>10. Fits("walk", op)'
    BY <1>0, <1>1, <1>2, <1>4, <1>8 DEF SealedVersions, Fits
  <1>11. ASSUME ~HA, n \notin unsure' PROVE Covers(n)'
    <2>. SUFFICES ASSUME mem[n].cache # None, Behind(n)
                  PROVE  Behind(n)'
      BY <1>0, <1>5, <1>7, <1>11 DEF AloneCovers, Covers
    <2>1. v # ops[n]["dek"].ver /\ \A q \in Row : rows'[q] # ops[n]["dek"].ver
      BY <1>1, <1>2, <1>6 DEF Behind
    <2>2. /\ ops'[n]["dek"] = ops[n]["dek"] /\ ops'[n]["write"] = ops[n]["write"]
          /\ ops'[n]["walk"] = op
      BY <1>0, <1>1, <1>5, SetOpFacts DEF Slot, OpOf
    <2>3. ActiveDEK(ops[n]["dek"].ver)'
      BY <1>5, <2>2 DEF Behind, ActiveDEK
    <2>. QED
      BY <1>4, <1>5, <1>7, <2>1, <2>2, <2>3 DEF Behind
  <1>12. op \in OpOf("walk") \cup {None} /\ "walk" \in Slot \ {"hierarchy"}
    BY DEF OpOf, Slot
  <1>. QED
    BY <1>5, <1>6, <1>8, <1>9, <1>10, <1>11, <1>12, BelowMaster

LEMMA RetireStep ==
    ASSUME KInv, NEW n \in Running, Retire(n)
    PROVE  KInv'
  <1>0. TypeOK /\ NothingStranded /\ OneActive /\ AloneCovers /\ SealedVersions
    BY DEF KInv
  <1>1. n \in Process /\ ops[n]["walk"] \in WalkOp /\ ops[n]["walk"] # None
    BY <1>0, RunningFacts DEF TypeOK, Slot, OpOf, Retire, At
  <1>2. PICK v \in Nat : v = ops[n]["walk"].sealer.active
    BY <1>1 DEF WalkOp, Sealer
  <1>3. /\ ActiveDEK(v) /\ Dry(v) /\ deks' = {d \in deks : d.state = "active"}
        /\ UNCHANGED <<size, root, wrappers, token, rows>>
        /\ Answered(n, "walk") \/ Unanswered(n, "walk")
    BY <1>2 DEF Retire, Fence
  <1>4. PICK op \in OpOf("walk") \cup {None} :
              /\ SetOp(n, "walk", op) /\ mem' = mem /\ unsure \subseteq unsure'
              /\ faults' \in 0..size.faults /\ unsure' \subseteq Process
              /\ op # None => op = [ops[n]["walk"] EXCEPT !.stage = "committed"]
    BY <1>0, <1>1, <1>3, Outcome
  <1>5. op # None => op.sealer.active = v
    BY <1>1, <1>2, <1>4 DEF WalkOp
  <1>6. StoreTyped'
    BY <1>0, <1>3, <1>4 DEF TypeOK, StoreTyped
  <1>7. /\ Openable' \subseteq Openable /\ v \in Openable'
        /\ \A u : ActiveDEK(u) => ActiveDEK(u)'
    BY <1>3 DEF Openable, ActiveDEK
  <1>8. OneActive' /\ \A u \in Nat : Reached(u) => Reached(u)'
    BY <1>0, <1>3 DEF OneActive, Reached
  <1>9. NothingStranded'
    BY <1>0, <1>3, <1>7 DEF NothingStranded, Dry, Settled
  <1>10. op # None => Fits("walk", op)'
    BY <1>0, <1>1, <1>2, <1>5, <1>8 DEF SealedVersions, Fits
  <1>11. ASSUME ~HA, n \notin unsure' PROVE Covers(n)'
    <2>. SUFFICES ASSUME mem[n].cache # None, Behind(n)
                  PROVE  Behind(n)'
      BY <1>0, <1>4, <1>7, <1>11 DEF AloneCovers, Covers
    <2>1. v # ops[n]["dek"].ver
      BY <1>1, <1>2 DEF Behind
    <2>2. /\ ops'[n]["dek"] = ops[n]["dek"] /\ ops'[n]["write"] = ops[n]["write"]
          /\ ops'[n]["walk"] = op
      BY <1>0, <1>1, <1>4, SetOpFacts DEF Slot
    <2>3. ActiveDEK(ops[n]["dek"].ver)'
      BY <1>7, <2>2 DEF Behind
    <2>. QED
      BY <1>3, <1>4, <1>5, <1>7, <2>1, <2>2, <2>3 DEF Behind
  <1>. QED
    BY <1>3, <1>4, <1>6, <1>8, <1>9, <1>10, <1>11, BelowMaster DEF Slot

LEMMA CommitTokenStep ==
    ASSUME KInv, NEW n \in Running, CommitToken(n)
    PROVE  KInv'
  <1>0. TypeOK /\ NothingStranded /\ OneActive /\ AloneCovers
    BY DEF KInv
  <1>1. n \in Process /\ ops[n]["token"] \in KeyOp /\ ops[n]["token"] # None
    BY <1>0, RunningFacts DEF TypeOK, Slot, OpOf, CommitToken, At
  <1>2. /\ token' = [ver |-> ops[n]["token"].ver, master |-> ops[n]["token"].master]
        /\ UNCHANGED <<size, root, wrappers, deks, rows>>
        /\ Answered(n, "token") \/ Unanswered(n, "token")
    BY DEF CommitToken
  <1>3. PICK op \in OpOf("token") \cup {None} :
              /\ SetOp(n, "token", op) /\ mem' = mem /\ unsure \subseteq unsure'
              /\ faults' \in 0..size.faults /\ unsure' \subseteq Process
    BY <1>0, <1>1, <1>2, Outcome
  <1>4. token' \in [ver : Nat, master : MasterKey]
    BY <1>1, <1>2 DEF KeyOp
  <1>5. StoreTyped'
    BY <1>0, <1>2, <1>3, <1>4 DEF TypeOK, StoreTyped
  <1>6. OneActive' /\ NothingStranded' /\ \A u \in Nat : Reached(u) => Reached(u)'
    BY <1>0, <1>2 DEF OneActive, NothingStranded, Openable, Reached
  <1>7. Fits("token", op)'
    BY DEF Fits
  <1>8. ASSUME ~HA, n \notin unsure' PROVE Covers(n)'
    <2>1. \A t \in Slot : t # "token" => ops'[n][t] = ops[n][t]
      BY <1>0, <1>1, <1>3, SetOpFacts DEF Slot
    <2>2. Openable' = Openable /\ \A u : ActiveDEK(u) => ActiveDEK(u)'
      BY <1>2 DEF Openable, ActiveDEK
    <2>. SUFFICES ASSUME mem[n].cache # None, Behind(n)
                  PROVE  Behind(n)'
      BY <1>0, <1>3, <1>8, <2>2 DEF AloneCovers, Covers
    <2>3. ActiveDEK(ops[n]["dek"].ver)'
      BY <2>1, <2>2 DEF Behind, Slot
    <2>. QED
      BY <1>2, <1>3, <2>1, <2>2, <2>3 DEF Behind, Slot
  <1>. QED
    BY <1>2, <1>3, <1>5, <1>6, <1>7, <1>8, BelowMaster DEF Slot

\* A master of the stored version is the stored master.
LEMMA StoredMaster ==
    ASSUME TypeOK, OneHierarchy, NEW key, Known(key), MasterAt(key.ver)
    PROVE  \A w \in wrappers : w.key = key
  BY DEF Known, MasterAt

LEMMA CommitDEKStep ==
    ASSUME KInv, NEW n \in Running, CommitDEK(n)
    PROVE  KInv'
  <1>0. /\ TypeOK /\ OneHierarchy /\ KeysKnown /\ NothingStranded /\ OneActive
        /\ AloneCovers /\ SealedVersions
    BY DEF KInv
  <1>1. /\ n \in Process /\ ops[n]["dek"] \in KeyOp /\ ops[n]["dek"] # None
        /\ ops[n]["dek"].stage = "prepared" /\ mem[n] \in Keyring /\ mem[n] # None
    BY <1>0, RunningFacts DEF TypeOK, Slot, OpOf, CommitDEK, At
  <1>2. PICK v \in Nat \ {0}, key \in MasterKey :
          v = ops[n]["dek"].ver /\ key = ops[n]["dek"].master
    BY <1>1 DEF KeyOp
  <1>. DEFINE new == [ver |-> v, state |-> "active", master |-> key]
  <1>3. /\ ActiveDEK(v - 1) /\ MasterAt(key.ver)
        /\ deks' = {[d EXCEPT !.state = "retiring"] : d \in deks} \cup {new}
        /\ UNCHANGED <<size, root, wrappers, token, rows>>
        /\ Answered(n, "dek") \/ Unanswered(n, "dek")
    BY <1>2 DEF CommitDEK, DEKCommits
  <1>4. PICK op \in OpOf("dek") \cup {None} :
              /\ SetOp(n, "dek", op) /\ mem' = mem /\ unsure \subseteq unsure'
              /\ faults' \in 0..size.faults /\ unsure' \subseteq Process
              /\ op # None => op = [ops[n]["dek"] EXCEPT !.stage = "committed"]
              /\ n \notin unsure' => op # None
    BY <1>0, <1>1, <1>3, Outcome
  <1>5. op # None => op.ver = v /\ op.master = key /\ op.stage = "committed"
    BY <1>1, <1>2, <1>4 DEF KeyOp
  <1>6. /\ new \in Dek /\ new.ver = v /\ new.state = "active" /\ new.master = key
        /\ \A d \in deks : d \in Dek
    BY <1>0, <1>2 DEF Dek, TypeOK
  <1>7. \A d \in deks :
          LET e == [d EXCEPT !.state = "retiring"]
          IN e \in Dek /\ e.ver = d.ver /\ e.state = "retiring" /\ e.master = d.master
    BY <1>6 DEF Dek
  <1>. HIDE DEF new
  <1>8. /\ new \in deks'
        /\ \A e \in deks' : e = new \/ (e.state = "retiring" /\ \E d \in deks : e.ver = d.ver /\ e.master = d.master)
        /\ \A d \in deks : \E e \in deks' : e.ver = d.ver
    BY <1>3, <1>7
  <1>9. deks' \subseteq Dek
    BY <1>3, <1>6, <1>7
  <1>10. StoreTyped'
    BY <1>0, <1>3, <1>4, <1>9 DEF TypeOK, StoreTyped
  <1>11. \A d \in deks : d.ver \in Nat /\ d.ver <= v - 1
    BY <1>0, <1>3, <1>6, DekFacts DEF Dek
  <1>12. OneActive'
    <2>1. \A e \in deks' : e.ver <= v /\ (e.state = "active" => e = new)
      BY <1>2, <1>6, <1>8, <1>11
    <2>. QED
      BY <1>6, <1>8, <2>1 DEF OneActive
  <1>13. ASSUME NEW u \in Nat, Reached(u) PROVE Reached(u)' /\ u <= v - 1
    <2>1. u <= v - 1
      BY <1>3, <1>13 DEF Reached, ActiveDEK
    <2>2. \A e \in deks' : e.state = "active" => u <= e.ver
      BY <1>2, <1>6, <1>8, <2>1
    <2>. QED
      BY <1>8, <2>1, <2>2 DEF Reached
  <1>14. ActiveDEK(v)' /\ Openable' \ {v} \subseteq Openable /\ Openable \subseteq Openable'
    <2>1. ActiveDEK(v)'
      BY <1>6, <1>8 DEF ActiveDEK
    <2>2. \A u : u \in Openable' <=> \E e \in deks' : e.ver = u
      BY DEF Openable
    <2>3. \A u : u \in Openable <=> \E e \in deks : e.ver = u
      BY DEF Openable
    <2>. QED
      BY <1>6, <1>8, <2>1, <2>2, <2>3
  <1>15. \A w \in wrappers : w.key = key
    BY <1>0, <1>1, <1>2, <1>3, StoredMaster DEF KeysKnown
  <1>16. NothingStranded'
    <2>1. \A e \in deks', w \in wrappers : e.master = w.key
      BY <1>0, <1>6, <1>8, <1>15 DEF NothingStranded
    <2>. QED
      BY <1>0, <1>3, <1>14, <2>1 DEF NothingStranded
  <1>17. op # None => Fits("dek", op)'
    BY <1>0, <1>1, <1>2, <1>3, <1>5 DEF KeysKnown, Fits, Known
  <1>18. ASSUME ~HA, n \notin unsure' PROVE Covers(n)'
    <2>. SUFFICES ASSUME mem[n].cache # None PROVE Behind(n)'
      BY <1>4 DEF Covers
    <2>1. ~Behind(n) /\ n \notin unsure
      BY <1>1, <1>4, <1>18 DEF Behind
    <2>2. Openable \subseteq mem[n].cache.held
      BY <1>0, <1>18, <2>1 DEF AloneCovers, Covers
    <2>3. /\ mem[n].cache.active \in Nat /\ Reached(mem[n].cache.active)
      BY <1>0, <1>1 DEF SealedVersions, Keyring, Sealer
    <2>4. ops[n]["write"] # None => ops[n]["write"].ver \in Nat /\ Reached(ops[n]["write"].ver)
      BY <1>0, <1>1 DEF SealedVersions, TypeOK, Slot, OpOf, WriteOp
    <2>5. ops[n]["walk"] # None =>
            ops[n]["walk"].sealer.active \in Nat /\ Reached(ops[n]["walk"].sealer.active)
      BY <1>0, <1>1 DEF SealedVersions, TypeOK, Slot, OpOf, WalkOp, Sealer
    <2>6. \A r \in Row : rows'[r] # v
      <3>1. \A u \in Openable : u \in Nat /\ u <= v - 1
        BY <1>0, <1>11, DekFacts
      <3>. QED
        BY <1>0, <1>2, <1>3, <3>1 DEF NothingStranded
    <2>7. /\ ops'[n]["dek"] = op /\ ops'[n]["write"] = ops[n]["write"]
          /\ ops'[n]["walk"] = ops[n]["walk"]
      BY <1>0, <1>1, <1>4, SetOpFacts DEF Slot
    <2>8. \A u \in Nat : Reached(u) => u # v
      BY <1>2, <1>13
    <2>9. ops'[n]["dek"].ver = v /\ op # None /\ op.stage = "committed"
      BY <1>4, <1>5, <1>18, <2>7
    <2>. QED
      BY <1>4, <1>14, <2>2, <2>3, <2>4, <2>5, <2>6, <2>7, <2>8, <2>9 DEF Behind
  <1>. QED
    BY <1>3, <1>4, <1>10, <1>12, <1>13, <1>16, <1>17, <1>18, BelowMaster DEF Slot

LEMMA CreateDEKStep ==
    ASSUME KInv, NEW n \in Running, CreateDEK(n)
    PROVE  KInv'
  <1>0. /\ TypeOK /\ OneHierarchy /\ KeysKnown /\ NothingStranded /\ OneActive
        /\ InstalledRootOpens /\ AloneInHierarchy /\ AloneKnowsMaster
    BY DEF KInv
  <1>1. /\ n \in Process /\ n \in size.nodes /\ mem[n] \in Keyring /\ mem[n] # None
        /\ ops[n]["mint"] \in MintOp /\ ops[n]["mint"] # None
    BY <1>0, RunningFacts DEF TypeOK, Slot, OpOf, CreateDEK, At
  <1>2. PICK key \in MasterKey : key = ops[n]["mint"].master
    BY <1>1 DEF MintOp
  <1>. DEFINE new == [ver |-> 1, state |-> "active", master |-> key]
              c == [active |-> 1, held |-> {1}]
              k == [mem[n] EXCEPT !.cache = c]
  <1>3. /\ MasterAt(key.ver) /\ deks = {} /\ deks' = {new} /\ SetOp(n, "mint", None)
        /\ mem' = [mem EXCEPT ![n] = k]
        /\ UNCHANGED <<size, root, wrappers, token, rows, faults, unsure>>
    BY <1>2 DEF CreateDEK, chance
  <1>4. new \in Dek /\ new.ver = 1 /\ new.master = key /\ new.state = "active"
    BY <1>2 DEF Dek
  <1>5. c \in Sealer /\ c.active = 1 /\ c.held = {1}
    BY DEF Sealer
  <1>. HIDE DEF c
  <1>6. /\ k \in Keyring /\ k.active = mem[n].active /\ k.held = mem[n].held /\ k.cache = c
    BY <1>0, <1>5, WithCache
  <1>. HIDE DEF new, k
  <1>7. StoreTyped'
    BY <1>0, <1>3, <1>4 DEF TypeOK, StoreTyped
  <1>8. OneHierarchy' /\ InstalledRootOpens' /\ \A q \in MasterKey : Known(q) => Known(q)'
    BY <1>0, <1>3 DEF OneHierarchy, OneMaster, InstalledRootOpens, HA, Known
  <1>9. OneActive'
    BY <1>3, <1>4 DEF OneActive
  <1>10. Openable' = {1}
    BY <1>3, <1>4 DEF Openable
  <1>11. \A r \in Row : rows[r] = 0
    BY <1>0, <1>3 DEF NothingStranded, Openable
  <1>12. \A w \in wrappers : w.key = key
    BY <1>0, <1>1, <1>2, <1>3, StoredMaster DEF KeysKnown
  <1>13. NothingStranded'
    BY <1>3, <1>4, <1>11, <1>12 DEF NothingStranded
  <1>14. /\ \A v \in Nat : Reached(v) => Reached(v)'
         /\ Reached(c.active)'
    BY <1>3, <1>4, <1>5 DEF Reached
  <1>15. ops'[n]["hierarchy"] = ops[n]["hierarchy"]
    BY <1>0, <1>1, <1>3, SetOpFacts DEF Slot
  <1>16. mem'[n] = k
    BY <1>0, <1>1, <1>3 DEF TypeOK
  <1>17. ~HA => HierarchyAsLeft(n)'
    BY <1>0, <1>1, <1>3, <1>6, <1>15, <1>16 DEF AloneInHierarchy, HierarchyAsLeft
  <1>18. ~HA /\ n \notin unsure' => HoldsMaster(n)' /\ Covers(n)'
    BY <1>0, <1>3, <1>5, <1>6, <1>10, <1>16 DEF AloneKnowsMaster, HoldsMaster, Covers
  <1>. QED
    BY <1>3, <1>6, <1>7, <1>8, <1>9, <1>13, <1>14, <1>17, <1>18, StoreStep DEF Slot

\* A rotation of the root changes the wrappers of the stored master, and nothing else.
LEMMA SameMaster ==
    ASSUME KInv, NEW n \in Running, SetOp(n, "hierarchy", None),
           UNCHANGED <<size, root, deks, token, rows, mem, faults, unsure>>,
           wrappers' \subseteq Wrapper, wrappers' # {}, OneHierarchy', InstalledRootOpens',
           \A x \in wrappers' : \E w \in wrappers : x.ver = w.ver /\ x.key = w.key
    PROVE  KInv'
  <1>0. /\ TypeOK /\ OneHierarchy /\ KeysKnown /\ NothingStranded /\ OneActive
        /\ SealedVersions /\ AloneKnowsMaster /\ AloneCovers
    BY DEF KInv
  <1>1. n \in Process /\ mem[n] \in Keyring /\ mem[n] # None
    BY <1>0, RunningFacts
  <1>2. StoreTyped'
    BY <1>0 DEF TypeOK, StoreTyped
  <1>3. NothingStranded' /\ OneActive'
    BY <1>0 DEF NothingStranded, OneActive, Openable
  <1>4. /\ \A key \in MasterKey : Known(key) => Known(key)'
        /\ \A v \in Nat : Reached(v) => Reached(v)'
    BY DEF Known, Reached
  <1>5. mem[n].cache # None => Reached(mem[n].cache.active)'
    BY <1>0, <1>1 DEF SealedVersions, Reached
  <1>6. /\ ops'[n]["hierarchy"] = None
        /\ \A t \in Slot : t # "hierarchy" => ops'[n][t] = ops[n][t]
    BY <1>0, <1>1, SetOpFacts DEF Slot
  <1>7. HierarchyAsLeft(n)'
    BY <1>6, KeyRotationAssumption DEF HierarchyAsLeft, Op
  <1>8. ~HA /\ n \notin unsure' => HoldsMaster(n)'
    BY <1>0 DEF AloneKnowsMaster, HoldsMaster
  <1>9. ASSUME ~HA, n \notin unsure' PROVE Covers(n)'
    <2>1. Openable' = Openable /\ \A u : ActiveDEK(u) => ActiveDEK(u)'
      BY DEF Openable, ActiveDEK
    <2>. SUFFICES ASSUME mem[n].cache # None, Behind(n)
                  PROVE  Behind(n)'
      BY <1>0, <1>9, <2>1 DEF AloneCovers, Covers
    <2>2. ActiveDEK(ops[n]["dek"].ver)'
      BY <1>6, <2>1 DEF Behind, Slot
    <2>. QED
      BY <1>6, <2>1, <2>2 DEF Behind, Slot
  <1>10. mem' = [mem EXCEPT ![n] = mem[n]]
    BY <1>0, RunningFacts
  <1>. QED
    BY <1>1, <1>2, <1>3, <1>4, <1>5, <1>7, <1>8, <1>9, <1>10, StoreStep DEF Slot

LEMMA CommitRootStep ==
    ASSUME KInv, NEW n \in Running, CommitRoot(n)
    PROVE  KInv'
  <1>0. TypeOK /\ OneHierarchy /\ KeysKnown /\ InstalledRootOpens
    BY DEF KInv
  <1>1. n \in Process /\ ops[n]["hierarchy"] \in RootOp
    BY <1>0, RunningFacts, HierarchyOps DEF CommitRoot, At
  <1>2. PICK x \in Wrapper : x = ops[n]["hierarchy"].wrapper
    BY <1>1 DEF RootOp
  <1>3. x.epoch \in 1..size.epochs /\ x.key.ver = x.ver /\ Known(x.key)
    BY <1>0, <1>1, <1>2 DEF KeysKnown
  <1>4. /\ wrappers' = wrappers \cup {x} /\ SetOp(n, "hierarchy", None)
        /\ Cardinality(wrappers) = 1 /\ x.ver = Newest.ver
        /\ UNCHANGED <<size, root, deks, token, rows, mem, faults, unsure>>
    BY <1>2 DEF CommitRoot, RootCommits, chance
  <1>5. PICK w \in wrappers : w = Newest /\ wrappers = {w}
    BY <1>0, <1>4, NewestFacts
  <1>6. x.ver = w.ver /\ x.key = w.key
    BY <1>3, <1>4, <1>5 DEF Known
  <1>7. IsFiniteSet(wrappers') /\ Cardinality(wrappers') <= 2
    <2>1. IsFiniteSet(wrappers)
      BY <1>0 DEF OneHierarchy
    <2>2. CASE x \in wrappers
      <3>1. wrappers' = wrappers
        BY <1>4, <2>2
      <3>. QED
        BY <1>4, <2>1, <3>1
    <2>3. CASE x \notin wrappers
      <3>1. Cardinality(wrappers \cup {x}) = Cardinality(wrappers) + 1
        BY <2>1, <2>3, FS_AddElement
      <3>2. IsFiniteSet(wrappers \cup {x})
        BY <2>1, FS_AddElement
      <3>. QED
        BY <1>4, <3>1, <3>2
    <2>. QED
      BY <2>2, <2>3
  <1>8. \A y \in wrappers' : y = x \/ y = w
    BY <1>4, <1>5
  <1>9. OneHierarchy'
    BY <1>0, <1>3, <1>4, <1>6, <1>7, <1>8 DEF OneHierarchy, OneMaster
  <1>10. InstalledRootOpens'
    BY <1>0, <1>4 DEF InstalledRootOpens, HA
  <1>11. wrappers' \subseteq Wrapper /\ wrappers' # {}
    BY <1>0, <1>4 DEF TypeOK
  <1>. QED
    BY <1>4, <1>6, <1>8, <1>9, <1>10, <1>11, SameMaster

LEMMA CommitFinalizeStep ==
    ASSUME KInv, NEW n \in Running, CommitFinalize(n)
    PROVE  KInv'
  <1>0. TypeOK /\ OneHierarchy /\ InstalledRootOpens /\ AloneInHierarchy
    BY DEF KInv
  <1>1. n \in Process /\ n \in size.nodes /\ ops[n]["hierarchy"] \in FinalizeOp
    BY <1>0, RunningFacts, HierarchyOps DEF CommitFinalize, At
  <1>2. PICK w \in wrappers : w = Newest /\ \A x \in wrappers : x.epoch <= w.epoch
    BY <1>0, NewestFacts
  <1>3. /\ wrappers' = {w} /\ SetOp(n, "hierarchy", None)
        /\ UNCHANGED <<size, root, deks, token, rows, mem, faults, unsure>>
    BY <1>2 DEF CommitFinalize, chance
  <1>4. IsFiniteSet(wrappers') /\ Cardinality(wrappers') = 1
    BY <1>3, FS_Singleton
  <1>5. OneHierarchy'
    BY <1>0, <1>3, <1>4 DEF OneHierarchy, OneMaster
  <1>6. ASSUME ~HA PROVE w.epoch = root
    <2>1. w.epoch <= root
      BY <1>0, <1>1, <1>6 DEF AloneInHierarchy, HierarchyAsLeft
    <2>2. PICK x \in wrappers : x.epoch = root
      BY <1>0, <1>6 DEF InstalledRootOpens
    <2>3. root \in Nat /\ w.epoch \in Nat
      BY <1>0 DEF TypeOK, Wrapper
    <2>. QED
      BY <1>2, <2>1, <2>2, <2>3
  <1>7. InstalledRootOpens'
    BY <1>3, <1>6 DEF InstalledRootOpens, HA
  <1>8. wrappers' \subseteq Wrapper /\ wrappers' # {}
    BY <1>0, <1>3 DEF TypeOK
  <1>. QED
    BY <1>3, <1>5, <1>7, <1>8, SameMaster

LEMMA CommitMasterStep ==
    ASSUME KInv, NEW n \in Running, CommitMaster(n)
    PROVE  KInv'
  <1>0. /\ TypeOK /\ OneHierarchy /\ KeysKnown /\ NothingStranded /\ OneActive
        /\ SealedVersions /\ AloneInHierarchy /\ AloneKnowsMaster /\ AloneCovers
    BY DEF KInv
  <1>1. /\ n \in Process /\ n \in size.nodes /\ mem[n] \in Keyring /\ mem[n] # None
        /\ ops[n]["hierarchy"] \in MasterOp /\ ops[n]["hierarchy"].stage = "prepared"
    BY <1>0, RunningFacts, HierarchyOps DEF CommitMaster, At
  <1>2. PICK key \in MasterKey, e \in 1..size.epochs :
          key = ops[n]["hierarchy"].key /\ e = ops[n]["hierarchy"].epoch
    BY <1>0, <1>1 DEF MasterOp, KeysKnown
  <1>. DEFINE x == [ver |-> key.ver, epoch |-> e, key |-> key]
              done == [ops[n]["hierarchy"] EXCEPT !.stage = "committed"]
              forgot == [mem[n] EXCEPT !.held = @ \ {key}]
  <1>3. /\ wrappers' = {x}
        /\ deks' = {[d EXCEPT !.master = key] : d \in deks}
        /\ token' = [token EXCEPT !.master = key]
        /\ size' = size /\ root' = root /\ rows' = rows
        /\ Cardinality(wrappers) = 1 /\ \A w \in wrappers : key.ver = w.ver + 1
    BY <1>2 DEF CommitMaster, MasterCommits, NextMaster
  <1>4. x \in Wrapper /\ x.ver = key.ver /\ x.key = key /\ x.epoch = e
    BY <1>2 DEF Wrapper, MasterKey
  <1>5. /\ done \in MasterOp /\ done \in OpOf("hierarchy") /\ done # None
        /\ done.stage = "committed" /\ done.key = key /\ done.epoch = e
    BY <1>1, <1>2, KeyRotationAssumption DEF MasterOp, OpOf, Op
  <1>6. /\ forgot \in Keyring /\ forgot.active = mem[n].active
        /\ forgot.cache = mem[n].cache /\ forgot.held = mem[n].held \ {key}
    BY <1>1 DEF Keyring
  <1>7. \/ /\ SetOp(n, "hierarchy", done) /\ mem' = [mem EXCEPT ![n] = mem[n]]
           /\ faults' = faults /\ unsure' = unsure
        \/ /\ SetOp(n, "hierarchy", None) /\ mem' = [mem EXCEPT ![n] = forgot]
           /\ faults < size.faults /\ faults' = faults + 1 /\ unsure' = unsure \cup {n}
    BY <1>0, <1>1, <1>2, RunningFacts DEF CommitMaster, Answered, Lose, Forgotten, chance
  <1>. HIDE DEF x, done, forgot
  <1>8. PICK op \in OpOf("hierarchy") \cup {None}, k \in Keyring :
          /\ SetOp(n, "hierarchy", op) /\ mem' = [mem EXCEPT ![n] = k]
          /\ k.active = mem[n].active /\ k.cache = mem[n].cache
          /\ op = None \/ op = done
          /\ unsure \subseteq unsure'
          /\ n \notin unsure' => op = done /\ k = mem[n]
    BY <1>1, <1>5, <1>6, <1>7
  <1>9. faults' \in 0..size.faults /\ unsure' \subseteq Process
    <2>1. size.faults \in Nat
      BY <1>0, KeyRotationAssumption DEF TypeOK
    <2>. QED
      BY <1>0, <1>1, <1>7, <2>1 DEF TypeOK
  <1>10. \A d \in deks : LET f == [d EXCEPT !.master = key]
                          IN /\ f \in Dek /\ f.ver = d.ver /\ f.state = d.state
                             /\ f.master = key
    BY <1>0, <1>2 DEF TypeOK, Dek
  <1>11. /\ deks' \subseteq Dek
         /\ \A f \in deks' : f.master = key /\ \E d \in deks :
               f = [d EXCEPT !.master = key] /\ f.ver = d.ver /\ f.state = d.state
         /\ \A d \in deks : \E f \in deks' : f.ver = d.ver /\ f.state = d.state
    BY <1>3, <1>10
  <1>12. token' \in [ver : Nat, master : MasterKey]
    BY <1>0, <1>2, <1>3 DEF TypeOK
  <1>13. StoreTyped'
    BY <1>0, <1>3, <1>4, <1>9, <1>11, <1>12 DEF TypeOK, StoreTyped
  <1>14. IsFiniteSet(wrappers') /\ Cardinality(wrappers') = 1
    BY <1>3, FS_Singleton
  <1>15. OneHierarchy'
    BY <1>2, <1>3, <1>4, <1>14 DEF OneHierarchy, OneMaster
  <1>16. Openable' = Openable
    <2>1. \A u : u \in Openable' <=> \E f \in deks' : f.ver = u
      BY DEF Openable
    <2>2. \A u : u \in Openable <=> \E f \in deks : f.ver = u
      BY DEF Openable
    <2>3. \A u : u \in Openable' <=> u \in Openable
      BY <1>11, <2>1, <2>2
    <2>. QED
      BY <2>3
  <1>17. NothingStranded'
    BY <1>0, <1>3, <1>4, <1>11, <1>16 DEF NothingStranded
  <1>18. OneActive'
    BY <1>0, <1>11 DEF OneActive
  <1>19. InstalledRootOpens'
    <2>1. ~HA => e = root
      BY <1>0, <1>1, <1>2 DEF AloneInHierarchy, HierarchyAsLeft
    <2>. QED
      BY <1>3, <1>4, <2>1 DEF InstalledRootOpens, HA
  <1>20. ASSUME NEW q \in MasterKey, Known(q) PROVE Known(q)'
    <2>1. PICK w \in wrappers : w \in Wrapper
      BY <1>0 DEF TypeOK
    <2>2. q.ver <= w.ver /\ key.ver = w.ver + 1 /\ w.ver \in Nat /\ q.ver \in Nat
      BY <1>3, <1>20, <2>1 DEF Known, Wrapper, MasterKey
    <2>3. q.ver <= x.ver /\ q.ver # x.ver
      BY <1>4, <2>2
    <2>. QED
      BY <1>3, <2>3 DEF Known
  <1>21. \A v : (Reached(v) => Reached(v)') /\ (ActiveDEK(v) => ActiveDEK(v)')
    BY <1>11 DEF Reached, ActiveDEK
  <1>22. op # None => Fits("hierarchy", op)'
    <2>1. Known(key)'
      BY <1>2, <1>3, <1>4 DEF Known, MasterKey
    <2>2. done \notin RootOp
      BY <1>5 DEF RootOp
    <2>. QED
      BY <1>2, <1>3, <1>5, <1>8, <2>1, <2>2 DEF Fits
  <1>23. k.cache # None => Reached(k.cache.active)'
    BY <1>0, <1>1, <1>8, <1>21 DEF SealedVersions
  <1>24. /\ ops'[n]["hierarchy"] = op /\ mem'[n] = k
         /\ \A t \in Slot : t # "hierarchy" => ops'[n][t] = ops[n][t]
    BY <1>0, <1>1, <1>8, SetOpFacts DEF Slot, TypeOK
  <1>25. HierarchyAsLeft(n)'
    <2>1. done \notin FinalizeOp /\ None \notin MasterOp /\ None \notin FinalizeOp
      BY <1>5, KeyRotationAssumption DEF FinalizeOp, Op
    <2>. QED
      BY <1>5, <1>8, <1>24, <2>1 DEF HierarchyAsLeft
  <1>26. ASSUME ~HA, n \notin unsure' PROVE HoldsMaster(n)' /\ Covers(n)'
    <2>1. key \in mem[n].held
      BY <1>0, <1>1, <1>2, <1>26 DEF AloneInHierarchy, HierarchyAsLeft
    <2>2. HoldsMaster(n)'
      BY <1>3, <1>4, <1>8, <1>24, <1>26, <2>1 DEF HoldsMaster
    <2>3. ASSUME mem[n].cache # None, Behind(n) PROVE Behind(n)'
      <3>1. ActiveDEK(ops[n]["dek"].ver)'
        BY <1>21, <1>24, <2>3 DEF Behind, Slot
      <3>. QED
        BY <1>3, <1>8, <1>16, <1>24, <2>3, <3>1 DEF Behind, Slot
    <2>4. Covers(n)'
      BY <1>0, <1>8, <1>16, <1>24, <1>26, <2>3 DEF AloneCovers, Covers
    <2>. QED
      BY <2>2, <2>4
  <1>. QED
    BY <1>3, <1>8, <1>13, <1>15, <1>17, <1>18, <1>19, <1>20, <1>21, <1>22, <1>23, <1>25,
       <1>26, StoreStep DEF Slot

-----------------------------------------------------------------------------
(* Steps from outside, and the whole specification *)

LEMMA InstallRootStep ==
    ASSUME KInv, InstallRoot
    PROVE  KInv'
  <1>0. /\ TypeOK /\ OneHierarchy /\ KeysKnown /\ DownIsIdle /\ NothingStranded
        /\ OneActive /\ SealedVersions /\ AloneInHierarchy /\ AloneKnowsMaster /\ AloneCovers
    BY DEF KInv
  <1>1. PICK w \in wrappers : w = Newest /\ \A x \in wrappers : x.epoch <= w.epoch
    BY <1>0, NewestFacts
  <1>2. /\ root' = w.epoch
        /\ UNCHANGED <<size, wrappers, deks, token, rows, mem, ops, faults, unsure>>
    BY <1>1 DEF InstallRoot, chance
  <1>3. w.epoch \in 1..size.epochs
    BY <1>0 DEF OneHierarchy
  <1>4. TypeOK'
    BY <1>0, <1>2, <1>3 DEF TypeOK
  <1>5. OneHierarchy' /\ NothingStranded' /\ OneActive' /\ DownIsIdle'
    BY <1>0, <1>2 DEF OneHierarchy, OneMaster, NothingStranded, OneActive, DownIsIdle, Openable
  <1>6. /\ \A key : Known(key) => Known(key)'
        /\ \A v : (Reached(v) => Reached(v)') /\ (ActiveDEK(v) => ActiveDEK(v)')
        /\ Openable' = Openable /\ (HA' <=> HA) /\ Running' = Running
    BY <1>2 DEF Known, Reached, ActiveDEK, Openable, HA, Running
  <1>7. KeysKnown'
    BY <1>0, <1>2, <1>6 DEF KeysKnown
  <1>8. SealedVersions'
    BY <1>0, <1>2, <1>6 DEF SealedVersions
  <1>9. InstalledRootOpens'
    BY <1>1, <1>2 DEF InstalledRootOpens
  <1>10. AloneInHierarchy'
    BY <1>0, <1>1, <1>2, <1>6 DEF AloneInHierarchy, HierarchyAsLeft
  <1>11. AloneKnowsMaster'
    BY <1>0, <1>2, <1>6 DEF AloneKnowsMaster, HoldsMaster
  <1>12. \A n \in Running : Covers(n) => Covers(n)'
    <2>. SUFFICES ASSUME NEW n \in Running, Behind(n) PROVE Behind(n)'
      BY <1>2, <1>6 DEF Covers
    <2>1. ActiveDEK(ops[n]["dek"].ver)'
      BY <1>2, <1>6 DEF Behind
    <2>. QED
      BY <1>2, <1>6, <2>1 DEF Behind
  <1>13. AloneCovers'
    BY <1>0, <1>2, <1>6, <1>12 DEF AloneCovers
  <1>. QED
    BY <1>4, <1>5, <1>7, <1>8, <1>9, <1>10, <1>11, <1>13 DEF KInv

\* A process starts, or stops: the others do not notice.
LEMMA UpAndDown ==
    ASSUME KInv, NEW n \in size.nodes, NEW k \in Keyring \cup {None},
           \A s \in Slot : ops'[n][s] = None,
           ops' \in [Process -> [Slot -> Op \cup {None}]],
           \A m \in Process : m # n => ops'[m] = ops[m],
           mem' = [mem EXCEPT ![n] = k], UNCHANGED <<size, store>>,
           faults' \in 0..size.faults, unsure \ {n} \subseteq unsure', unsure' \subseteq Process,
           k # None => k.cache = None /\ Known(k.active) /\ \A w \in wrappers : w.key \in k.held
    PROVE  KInv'
  <1>0. /\ TypeOK /\ OneHierarchy /\ KeysKnown /\ DownIsIdle /\ NothingStranded
        /\ OneActive /\ SealedVersions /\ InstalledRootOpens
        /\ AloneInHierarchy /\ AloneKnowsMaster /\ AloneCovers
    BY DEF KInv
  <1>1. n \in Process
    BY <1>0, KeyRotationAssumption DEF TypeOK
  <1>2. UNCHANGED <<size, root, wrappers, deks, token, rows>>
    BY DEF store
  <1>3. /\ mem' \in [Process -> Keyring \cup {None}] /\ mem'[n] = k
        /\ \A m \in Process : m # n => mem'[m] = mem[m]
    BY <1>0, <1>1 DEF TypeOK
  <1>4. TypeOK'
    BY <1>0, <1>2, <1>3 DEF TypeOK
  <1>5. OneHierarchy' /\ NothingStranded' /\ OneActive' /\ InstalledRootOpens'
    BY <1>0, <1>2 DEF OneHierarchy, OneMaster, NothingStranded, OneActive, InstalledRootOpens,
                      Openable, HA
  <1>6. /\ \A key : Known(key) => Known(key)'
        /\ \A v : (Reached(v) => Reached(v)') /\ (ActiveDEK(v) => ActiveDEK(v)')
        /\ Openable' = Openable /\ (HA' <=> HA)
    BY <1>2 DEF Known, Reached, ActiveDEK, Openable, HA
  <1>7. None \notin MasterOp /\ None \notin RootOp /\ None \notin FinalizeOp
    BY KeyRotationAssumption DEF Op
  <1>8. KeysKnown'
    <2>1. ASSUME NEW m \in Process, mem'[m] # None PROVE Known(mem[m].active)'
      <3>1. CASE m = n
        BY <1>2, <1>3, <2>1, <3>1 DEF Known
      <3>2. CASE m # n
        BY <1>0, <1>2, <1>3, <2>1, <3>2 DEF KeysKnown, Known
      <3>. QED
        BY <3>1, <3>2
    <2>. QED
      BY <1>0, <1>1, <1>2, <1>6, <1>7, <2>1 DEF KeysKnown, Slot
  <1>9. DownIsIdle'
    BY <1>0, <1>3 DEF DownIsIdle
  <1>10. SealedVersions'
    BY <1>0, <1>3, <1>6 DEF SealedVersions, Slot
  <1>11. AloneInHierarchy'
    BY <1>0, <1>1, <1>2, <1>6, <1>7, Alone DEF AloneInHierarchy, HierarchyAsLeft, Slot
  <1>12. AloneKnowsMaster' /\ AloneCovers'
    <2>. SUFFICES ASSUME ~HA, k # None PROVE HoldsMaster(n)' /\ Covers(n)'
      BY <1>0, <1>2, <1>3, <1>6, Alone DEF AloneKnowsMaster, AloneCovers, Running
    <2>. QED
      BY <1>2, <1>3 DEF HoldsMaster, Covers
  <1>. QED
    BY <1>4, <1>5, <1>8, <1>9, <1>10, <1>11, <1>12 DEF KInv

LEMMA BootStep ==
    ASSUME KInv, NEW n \in size.nodes, Boot(n)
    PROVE  KInv'
  <1>0. TypeOK /\ OneHierarchy /\ DownIsIdle
    BY DEF KInv
  <1>1. n \in Process /\ mem[n] = None
    BY <1>0, KeyRotationAssumption DEF TypeOK, Boot, Running
  <1>2. PICK w \in wrappers :
          mem' = [mem EXCEPT ![n] = [active |-> w.key, held |-> {w.key},
                                     token |-> token.ver, cache |-> None]]
    BY DEF Boot
  <1>. DEFINE k == [active |-> w.key, held |-> {w.key}, token |-> token.ver, cache |-> None]
  <1>3. w.key \in MasterKey /\ token.ver \in Nat
    BY <1>0 DEF TypeOK, Wrapper
  <1>4. k \in Keyring
    BY <1>3 DEF Keyring
  <1>5. k.cache = None /\ Known(k.active) /\ \A x \in wrappers : x.key \in k.held
    <2>1. \A x \in wrappers : x.key = w.key /\ x.key.ver = x.ver /\ x.ver \in Nat
      BY <1>0 DEF OneHierarchy, OneMaster, TypeOK, Wrapper
    <2>. QED
      BY <2>1 DEF Known
  <1>6. \A s \in Slot : ops[n][s] = None
    BY <1>0, <1>1 DEF DownIsIdle
  <1>7. ops' = ops /\ faults' = faults /\ unsure' = unsure /\ UNCHANGED <<size, store>>
    BY DEF Boot, chance
  <1>8. /\ ops' \in [Process -> [Slot -> Op \cup {None}]]
        /\ faults' \in 0..size.faults /\ unsure' \subseteq Process
    BY <1>0, <1>7 DEF TypeOK
  <1>. HIDE DEF k
  <1>9. mem' = [mem EXCEPT ![n] = k]
    BY <1>2 DEF k
  <1>. QED
    BY <1>4, <1>5, <1>6, <1>7, <1>8, <1>9, UpAndDown

LEMMA CrashStep ==
    ASSUME KInv, NEW n \in size.nodes, Crash(n)
    PROVE  KInv'
  <1>0. TypeOK
    BY DEF KInv
  <1>1. n \in Process /\ size.faults \in Nat
    BY <1>0, KeyRotationAssumption DEF TypeOK
  <1>2. /\ mem' = [mem EXCEPT ![n] = None] /\ ops' = [ops EXCEPT ![n] = Idle]
        /\ faults < size.faults /\ faults' = faults + 1 /\ unsure' = unsure \ {n}
        /\ UNCHANGED <<size, store>>
    BY DEF Crash
  <1>3. Idle \in [Slot -> Op \cup {None}] /\ \A s \in Slot : Idle[s] = None
    BY DEF Idle
  <1>4. /\ ops' \in [Process -> [Slot -> Op \cup {None}]]
        /\ \A s \in Slot : ops'[n][s] = None
        /\ \A m \in Process : m # n => ops'[m] = ops[m]
    BY <1>0, <1>1, <1>2, <1>3 DEF TypeOK
  <1>5. faults' \in 0..size.faults /\ unsure' \subseteq Process /\ unsure \ {n} \subseteq unsure'
    BY <1>0, <1>1, <1>2 DEF TypeOK
  <1>. QED
    BY <1>2, <1>4, <1>5, UpAndDown

LEMMA InitKInv == ASSUME Init PROVE KInv
  <1>1. PICK first \in size.nodes :
          LET key == [ver |-> 1, by |-> first]
          IN /\ wrappers = {[ver |-> 1, epoch |-> 1, key |-> key]}
             /\ token = [ver |-> 1, master |-> key]
             /\ mem = [n \in Process |->
                  IF n \in size.nodes
                  THEN [active |-> key, held |-> {key}, token |-> 1, cache |-> None]
                  ELSE None]
    BY DEF Init
  <1>. DEFINE key == [ver |-> 1, by |-> first]
              w == [ver |-> 1, epoch |-> 1, key |-> key]
              k == [active |-> key, held |-> {key}, token |-> 1, cache |-> None]
  <1>2. /\ size \in Sizes /\ root = 1 /\ deks = {} /\ rows = [r \in Row |-> 0]
        /\ ops = [n \in Process |-> Idle] /\ faults = 0 /\ unsure = {}
    BY DEF Init
  <1>3. /\ size.nodes \subseteq Process /\ size.epochs \in Nat \ {0} /\ size.faults \in Nat
    BY <1>2, KeyRotationAssumption
  <1>4. key \in MasterKey /\ key.ver = 1
    BY <1>3 DEF MasterKey
  <1>5. wrappers = {w} /\ mem = [n \in Process |-> IF n \in size.nodes THEN k ELSE None]
    BY <1>1
  <1>6. token \in [ver : Nat, master : MasterKey]
    BY <1>1, <1>4
  <1>. HIDE DEF key
  <1>7. w \in Wrapper /\ w.ver = 1 /\ w.epoch = 1 /\ w.key = key
    BY <1>4 DEF Wrapper
  <1>8. k \in Keyring /\ k.active = key /\ k.held = {key} /\ k.cache = None
    BY <1>4 DEF Keyring
  <1>. HIDE DEF w, k
  <1>9. Idle \in [Slot -> Op \cup {None}] /\ \A s \in Slot : Idle[s] = None
    BY DEF Idle
  <1>10. \A n \in Process, s \in Slot : ops[n][s] = None
    BY <1>2, <1>9
  <1>11. \A n \in Process : mem[n] = None \/ mem[n] = k
    BY <1>5
  <1>12. TypeOK
    <2>1. root \in 1..size.epochs /\ faults \in 0..size.faults /\ unsure \subseteq Process
      BY <1>2, <1>3
    <2>2. wrappers \subseteq Wrapper /\ wrappers # {} /\ deks \subseteq Dek /\ rows \in [Row -> Nat]
      BY <1>2, <1>5, <1>7
    <2>3. mem \in [Process -> Keyring \cup {None}]
      BY <1>5, <1>8
    <2>4. ops \in [Process -> [Slot -> Op \cup {None}]]
      BY <1>2, <1>9
    <2>. QED
      BY <1>2, <1>6, <1>10, <2>1, <2>2, <2>3, <2>4 DEF TypeOK
  <1>13. OneHierarchy /\ InstalledRootOpens
    <2>1. IsFiniteSet(wrappers) /\ Cardinality(wrappers) = 1
      BY <1>5, FS_Singleton
    <2>. QED
      BY <1>2, <1>3, <1>4, <1>5, <1>7, <2>1 DEF OneHierarchy, OneMaster, InstalledRootOpens
  <1>14. NothingStranded /\ OneActive
    BY <1>2 DEF NothingStranded, OneActive
  <1>15. None \notin MasterOp /\ None \notin RootOp /\ None \notin FinalizeOp
    BY KeyRotationAssumption DEF Op
  <1>16. Known(key)
    BY <1>4, <1>5, <1>7 DEF Known
  <1>17. KeysKnown
    BY <1>8, <1>10, <1>11, <1>15, <1>16 DEF KeysKnown, Slot
  <1>18. DownIsIdle /\ SealedVersions
    BY <1>8, <1>10, <1>11 DEF DownIsIdle, SealedVersions, Slot
  <1>19. AloneInHierarchy
    BY <1>3, <1>10, <1>15 DEF AloneInHierarchy, HierarchyAsLeft, Slot
  <1>20. AloneKnowsMaster /\ AloneCovers
    BY <1>3, <1>5, <1>7, <1>8, <1>11 DEF AloneKnowsMaster, HoldsMaster, AloneCovers, Covers, Running
  <1>. QED
    BY <1>12, <1>13, <1>14, <1>17, <1>18, <1>19, <1>20 DEF KInv

LEMMA NextKInv == ASSUME KInv, [Next]_vars PROVE KInv'
  <1>1. CASE InstallRoot
    BY <1>1, InstallRootStep
  <1>2. ASSUME NEW n \in size.nodes, Boot(n) \/ Crash(n) PROVE KInv'
    BY <1>2, BootStep, CrashStep
  <1>3. ASSUME NEW n \in size.nodes, DEKStep(n) PROVE KInv'
    <2>1. n \in Running
      BY <1>3 DEF DEKStep, MintDEK, CreateDEK, RefuseCreate, Seal, Reseal, CommitWrite,
        RefuseWrite, PrepareDEK, CommitDEK, RefuseDEK, BeginWalk, Retire, AbandonWalk, Evict,
        Free, At
    <2>. QED
      BY <1>3, <2>1, MintDEKStep, CreateDEKStep, Refusals, SealStep, ResealStep,
         CommitWriteStep, PrepareDEKStep, CommitDEKStep, BeginWalkStep, RetireStep, EvictStep
      DEF DEKStep
  <1>4. ASSUME NEW n \in size.nodes, TokenStep(n) PROVE KInv'
    <2>1. n \in Running
      BY <1>4 DEF TokenStep, PrepareToken, CommitToken, RefuseToken, AdoptToken, Free, At
    <2>. QED
      BY <1>4, <2>1, PrepareTokenStep, CommitTokenStep, Refusals, AdoptTokenStep DEF TokenStep
  <1>5. ASSUME NEW n \in size.nodes, HierarchyStep(n) PROVE KInv'
    <2>1. n \in Running
      BY <1>5 DEF HierarchyStep, PrepareMaster, CommitMaster, AbortMaster, AdoptMaster,
        PrepareRoot, CommitRoot, RefuseRoot, BeginFinalize, CommitFinalize, RefuseFinalize,
        Free, At
    <2>. QED
      BY <1>5, <2>1, PrepareMasterStep, CommitMasterStep, AbortMasterStep, AdoptMasterStep,
         PrepareRootStep, CommitRootStep, Refusals, BeginFinalizeStep, CommitFinalizeStep
      DEF HierarchyStep
  <1>6. CASE UNCHANGED vars
    <2>1. UNCHANGED <<size, root, wrappers, deks, token, rows, mem, ops, faults, unsure>>
      BY <1>6 DEF vars, store, chance
    <2>2. /\ TypeOK /\ OneHierarchy /\ KeysKnown /\ DownIsIdle /\ NothingStranded
          /\ OneActive /\ SealedVersions
      BY DEF KInv
    <2>3. InstalledRootOpens /\ AloneInHierarchy /\ AloneKnowsMaster /\ AloneCovers
      BY DEF KInv
    <2>4. TypeOK' /\ OneHierarchy'
      BY <2>1, <2>2 DEF TypeOK, OneHierarchy, OneMaster
    <2>5. KeysKnown' /\ DownIsIdle'
      BY <2>1, <2>2 DEF KeysKnown, Known, DownIsIdle
    <2>6. NothingStranded' /\ OneActive' /\ SealedVersions'
      BY <2>1, <2>2 DEF NothingStranded, Openable, OneActive, SealedVersions, Reached
    <2>7. InstalledRootOpens' /\ AloneInHierarchy'
      BY <2>1, <2>3 DEF InstalledRootOpens, HA, AloneInHierarchy, HierarchyAsLeft
    <2>8. AloneKnowsMaster' /\ AloneCovers'
      <3>1. Running' = Running /\ (HA <=> HA') /\ unsure' = unsure
        BY <2>1 DEF Running, HA
      <3>2. \A n : HoldsMaster(n)' <=> HoldsMaster(n)
        BY <2>1 DEF HoldsMaster
      <3>3. \A n : Behind(n)' <=> Behind(n)
        BY <2>1 DEF Behind, ActiveDEK, Openable
      <3>4. \A n : Covers(n)' <=> Covers(n)
        BY <2>1, <3>3 DEF Covers, Openable
      <3>. QED
        BY <2>3, <3>1, <3>2, <3>4 DEF AloneKnowsMaster, AloneCovers
    <2>. QED
      BY <2>4, <2>5, <2>6, <2>7, <2>8 DEF KInv
  <1>. QED
    BY <1>1, <1>2, <1>3, <1>4, <1>5, <1>6 DEF Next

\* The invariant holds of every instance, however many processes, versions and crashes it
\* allows: in particular every operation under way and every keyring has its type.
THEOREM KeyRotationInvariant == Spec => []KInv
  BY InitKInv, NextKInv, PTL DEF Spec

\* Root and master rotation exclude each other for every number of processes: the two
\* wrappers of a root rotation are never of two masters, although each transaction
\* compares the version of the master and not the key (service/rotation.go).
THEOREM NeverTwoMasters == Spec => []OneMaster
  <1>1. KInv => OneMaster
    BY DEF KInv, OneHierarchy
  <1>. QED
    BY <1>1, KeyRotationInvariant, PTL

\* No ciphertext and no DEK is ever stranded: the write fence, the straggler check of
\* reencrypt and the count of keys not yet rewrapped are enough for every interleaving.
THEOREM NothingIsStranded == Spec => []NothingStranded
  <1>1. KInv => NothingStranded
    BY DEF KInv
  <1>. QED
    BY <1>1, KeyRotationInvariant, PTL

\* A single process can be stopped in any phase of a root rotation: the root that is
\* installed opens a wrapper of the stored master.
THEOREM RootAlwaysOpens == Spec => []InstalledRootOpens
  <1>1. KInv => InstalledRootOpens
    BY DEF KInv
  <1>. QED
    BY <1>1, KeyRotationInvariant, PTL

\* A single process that lost no answer reads every stored ciphertext through every
\* rotation: addMaster before the commit and the eviction after it leave no gap.
THEOREM ReadsNeverBreak == Spec => []ReadsThroughRotation
  <1>1. ASSUME KInv PROVE ReadsThroughRotation
    <2>. SUFFICES ASSUME NEW n \in Running, NEW r \in Row, ~HA, n \notin unsure, rows[r] # 0
                  PROVE  IF mem[n].cache # None THEN rows[r] \in mem[n].cache.held
                         ELSE CanUnwrap(n)
      BY DEF ReadsThroughRotation
    <2>1. /\ TypeOK /\ NothingStranded /\ AloneKnowsMaster /\ AloneCovers
      BY <1>1 DEF KInv
    <2>2. CASE mem[n].cache # None
      <3>1. Covers(n) /\ rows[r] \in Openable
        BY <2>1 DEF AloneCovers, NothingStranded
      <3>. QED
        BY <2>2, <3>1 DEF Covers, Behind
    <2>3. CASE mem[n].cache = None
      <3>1. PICK w \in wrappers : TRUE
        BY <2>1 DEF TypeOK
      <3>2. \A d \in deks : d.master \in mem[n].held
        BY <2>1, <3>1 DEF AloneKnowsMaster, HoldsMaster, NothingStranded
      <3>. QED
        BY <2>3, <3>2 DEF CanUnwrap
    <2>. QED
      BY <2>2, <2>3
  <1>. QED
    BY <1>1, KeyRotationInvariant, PTL
=============================================================================
