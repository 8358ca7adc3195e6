---------------------------- MODULE KeyRotation ----------------------------
(***************************************************************************)
(* The key hierarchy and its rotations: the root key held by the operator, *)
(* the master key wrapped by it, and below the master the data key (DEK)   *)
(* of one project and the token key (crypto/keyring.go,                    *)
(* service/rotation.go, service/reencrypt.go, service/fence.go,            *)
(* store/keys_mutations.go, store/keyring/keyring.go).                     *)
(*                                                                         *)
(* Every rotation prepares its keys from what the process holds in memory  *)
(* and from reads outside its transaction (taken together here), commits   *)
(* the transaction, and only then adopts what was committed: three         *)
(* actions.  A transaction is one action; its answer may be lost.  Key     *)
(* material is named by the version and the process that minted it, a root *)
(* key by its epoch.  The scanning key is rotated like the token key, and  *)
(* the instance DEK, held by every process from its boot, is left out.     *)
(***************************************************************************)
EXTENDS Naturals, FiniteSets

CONSTANTS Process, Row,
          Sizes,      \* the instances considered: their processes and bounds
          None

MasterKey == [ver : Nat, by : Process]
Wrapper == [ver : Nat, epoch : Nat, key : MasterKey]
Dek == [ver : Nat, state : {"active", "retiring"}, master : MasterKey]
Sealer == [active : Nat, held : SUBSET Nat]
Keyring == [active : MasterKey, held : SUBSET MasterKey, token : Nat,
            cache : Sealer \cup {None}]

\* What a process may have under way: a write, a mint, the rotation of a DEK or a token
\* key, a walk, the rotation of the master, the two halves of a root rotation.
WriteOp == [stage : {"sealed"}, row : Row, ver : Nat]
MintOp == [stage : {"minted"}, master : MasterKey]
KeyOp == [stage : {"prepared", "committed"}, ver : Nat \ {0}, master : MasterKey]
WalkOp == [stage : {"walking", "committed"}, sealer : Sealer, left : SUBSET Row]
MasterOp == [stage : {"prepared", "committed"}, kind : {"master"}, key : MasterKey,
             epoch : Nat, deks : SUBSET Nat, token : Nat]
RootOp == [stage : {"prepared"}, kind : {"root"}, wrapper : Wrapper]
FinalizeOp == [stage : {"verified"}, kind : {"root"}]
OpOf(s) == CASE s = "write" -> WriteOp
             [] s = "mint" -> MintOp
             [] s \in {"dek", "token"} -> KeyOp
             [] s = "walk" -> WalkOp
             [] s = "hierarchy" -> MasterOp \cup RootOp \cup FinalizeOp
Op == WriteOp \cup MintOp \cup KeyOp \cup WalkOp \cup MasterOp \cup RootOp \cup FinalizeOp

ASSUME KeyRotationAssumption ==
    /\ None \notin Process \cup Row \cup Nat \cup Keyring \cup Op
    /\ IsFiniteSet(Process)
    /\ Sizes \subseteq [nodes : SUBSET Process, deks : Nat, masters : Nat, tokens : Nat,
                        epochs : Nat \ {0}, faults : Nat]

VARIABLES size,
          root,       \* the epoch of the root key at the primary source
          wrappers,   \* active rows of master_keys
          deks,       \* active and retiring rows of tier3_keys, for the project
          token,      \* the active token key
          rows,       \* the DEK version each stored ciphertext names, 0: none
          mem,        \* the keyring of each process, None when it is down
          ops,        \* the operations each process has under way, by slot
          faults, unsure  \* crashes and lost answers; processes that lost one

store == <<root, wrappers, deks, token, rows>>
chance == <<faults, unsure>>
vars == <<size, store, mem, ops, chance>>

\* A process runs one operation of each kind at a time; hierarchyRotationMu makes
\* master and root rotation one kind.
Slot == {"write", "mint", "dek", "token", "hierarchy", "walk"}
Idle == [s \in Slot |-> None]

HA == Cardinality(size.nodes) > 1
Running == {n \in size.nodes : mem[n] # None}
Newest == CHOOSE w \in wrappers : \A x \in wrappers : x.epoch <= w.epoch
MasterAt(v) == \A w \in wrappers : w.ver = v
ActiveDEK(v) == \E d \in deks : d.state = "active" /\ d.ver = v
Openable == {d.ver : d \in deks}
MaxOf(S) == CHOOSE v \in S : \A u \in S : u <= v

\* TypeOK: the shape of the stored hierarchy, of the keyrings and of the operations.
TypeOK ==
    /\ size \in Sizes /\ root \in 1..size.epochs
    /\ wrappers \subseteq Wrapper /\ wrappers # {}
    /\ deks \subseteq Dek /\ token \in [ver : Nat, master : MasterKey]
    /\ rows \in [Row -> Nat]
    /\ mem \in [Process -> Keyring \cup {None}]
    /\ ops \in [Process -> [Slot -> Op \cup {None}]]
    /\ \A n \in Process, s \in Slot : ops[n][s] \in OpOf(s) \cup {None}
    /\ faults \in 0..size.faults /\ unsure \subseteq Process

\* A booted instance whose project has not sealed anything yet.
Init ==
    /\ size \in Sizes
    /\ root = 1
    /\ \E first \in size.nodes :
        LET key == [ver |-> 1, by |-> first]
        IN /\ wrappers = {[ver |-> 1, epoch |-> 1, key |-> key]}
           /\ token = [ver |-> 1, master |-> key]
           /\ mem = [n \in Process |->
                IF n \in size.nodes
                THEN [active |-> key, held |-> {key}, token |-> 1, cache |-> None]
                ELSE None]
    /\ deks = {} /\ rows = [r \in Row |-> 0]
    /\ ops = [n \in Process |-> Idle]
    /\ faults = 0 /\ unsure = {}

-----------------------------------------------------------------------------
(* Steps of a process *)

Free(n, s) == n \in Running /\ ops[n][s] = None
At(n, s, stage) == n \in Running /\ ops[n][s] # None /\ ops[n][s].stage = stage
SetOp(n, s, op) == ops' = [ops EXCEPT ![n][s] = op]

\* The process reads the answer to its commit and goes on to adopt, or does not
\* and gives up.
Answered(n, s) ==
    /\ SetOp(n, s, [ops[n][s] EXCEPT !.stage = "committed"])
    /\ UNCHANGED <<mem, chance>>

Lose(n) == faults < size.faults /\ faults' = faults + 1 /\ unsure' = unsure \cup {n}

Unanswered(n, s) == Lose(n) /\ SetOp(n, s, None) /\ UNCHANGED mem

Refused(n, s) == SetOp(n, s, None) /\ UNCHANGED <<size, store, mem, chance>>

\* LoadKeyring: the root must open a wrapper, and the token key must be wrapped
\* under that master.
Boot(n) ==
    /\ n \in size.nodes \ Running
    /\ \E w \in wrappers :
        /\ w.epoch = root /\ token.master = w.key
        /\ mem' = [mem EXCEPT ![n] = [active |-> w.key, held |-> {w.key},
                                      token |-> token.ver, cache |-> None]]
    /\ UNCHANGED <<size, store, ops, chance>>

Crash(n) ==
    /\ n \in Running
    /\ faults < size.faults /\ faults' = faults + 1
    /\ mem' = [mem EXCEPT ![n] = None] /\ ops' = [ops EXCEPT ![n] = Idle]
    /\ unsure' = unsure \ {n}
    /\ UNCHANGED <<size, store>>

-----------------------------------------------------------------------------
(* The project's DEK *)

\* A cached version set is trusted as it is on a single node; with several it must
\* still name the active version.
Trusted(n) == mem[n].cache # None /\ (HA => ActiveDEK(mem[n].cache.active))

CanUnwrap(n) == \A d \in deks : d.master \in mem[n].held

\* projectDEKSet, once the project has a key: the cached set or a rebuilt one.
Sealable(n) == Free(n, "mint") /\ (Trusted(n) \/ (deks # {} /\ CanUnwrap(n)))
SealerOf(n) == IF Trusted(n) THEN mem[n].cache
               ELSE [active |-> MaxOf(Openable), held |-> Openable]
Caching(n) == mem' = [mem EXCEPT ![n].cache = SealerOf(n)]

\* projectDEKSet for a project without a key: version 1 is minted under the
\* process's master, and created later.
MintDEK(n) ==
    /\ Free(n, "mint") /\ ~Trusted(n) /\ deks = {} /\ size.deks > 0
    /\ SetOp(n, "mint", [stage |-> "minted", master |-> mem[n].active])
    /\ UNCHANGED <<size, store, mem, chance>>

\* CreateTier3, with the fence's check of the wrapping master.
CreateDEK(n) ==
    /\ At(n, "mint", "minted")
    /\ MasterAt(ops[n]["mint"].master.ver) /\ deks = {}
    /\ deks' = {[ver |-> 1, state |-> "active", master |-> ops[n]["mint"].master]}
    /\ SetOp(n, "mint", None)
    /\ mem' = [mem EXCEPT ![n].cache = [active |-> 1, held |-> {1}]]
    /\ UNCHANGED <<size, root, wrappers, token, rows, chance>>

RefuseCreate(n) ==
    /\ At(n, "mint", "minted")
    /\ ~MasterAt(ops[n]["mint"].master.ver) \/ deks # {}
    /\ Refused(n, "mint")

\* A writer obtains a sealer and seals; its transaction comes later.
Seal(n, r) ==
    /\ Free(n, "write") /\ Sealable(n)
    /\ Caching(n)
    /\ SetOp(n, "write", [stage |-> "sealed", row |-> r, ver |-> SealerOf(n).active])
    /\ UNCHANGED <<size, store, chance>>

\* Mutant: a write is not fenced.
FenceDropped(v) == TRUE

\* AssertActiveDEKVersion
Fence(v) == ActiveDEK(v)

CommitWrite(n) ==
    /\ At(n, "write", "sealed") /\ Fence(ops[n]["write"].ver)
    /\ rows' = [rows EXCEPT ![ops[n]["write"].row] = ops[n]["write"].ver]
    /\ SetOp(n, "write", None)
    /\ UNCHANGED <<size, root, wrappers, deks, token, mem, chance>>

RefuseWrite(n) ==
    /\ At(n, "write", "sealed") /\ ~Fence(ops[n]["write"].ver)
    /\ Refused(n, "write")

\* RotateDEK
PrepareDEK(n) ==
    /\ Free(n, "dek") /\ Sealable(n)
    /\ SealerOf(n).active < size.deks
    /\ Caching(n)
    /\ SetOp(n, "dek", [stage |-> "prepared", ver |-> SealerOf(n).active + 1,
                        master |-> mem[n].active])
    /\ UNCHANGED <<size, store, chance>>

DEKCommits(op) == MasterAt(op.master.ver) /\ ActiveDEK(op.ver - 1)

CommitDEK(n) ==
    LET op == ops[n]["dek"]
    IN /\ At(n, "dek", "prepared") /\ DEKCommits(op)
       /\ deks' = {[d EXCEPT !.state = "retiring"] : d \in deks}
                    \cup {[ver |-> op.ver, state |-> "active", master |-> op.master]}
       /\ Answered(n, "dek") \/ Unanswered(n, "dek")
       /\ UNCHANGED <<size, root, wrappers, token, rows>>

RefuseDEK(n) ==
    /\ At(n, "dek", "prepared") /\ ~DEKCommits(ops[n]["dek"])
    /\ Refused(n, "dek")

\* evictProjectDEK, after rotate-dek and after reencrypt.
Evict(n, s) ==
    /\ s \in {"dek", "walk"} /\ At(n, s, "committed")
    /\ mem' = [mem EXCEPT ![n].cache = None]
    /\ SetOp(n, s, None)
    /\ UNCHANGED <<size, store, chance>>

\* ReencryptProject: one sealer for the whole walk.
BeginWalk(n) ==
    /\ Free(n, "walk") /\ Sealable(n)
    /\ Caching(n)
    /\ SetOp(n, "walk", [stage |-> "walking", sealer |-> SealerOf(n), left |-> Row])
    /\ UNCHANGED <<size, store, chance>>

Settled(r, v) == rows[r] \in {0, v}
CanMove(r, sealer) == Settled(r, sealer.active) \/ rows[r] \in sealer.held

\* One chunk: fenced, then each row is opened and sealed again.
Reseal(n, r) ==
    LET op == ops[n]["walk"]
    IN /\ At(n, "walk", "walking") /\ r \in op.left
       /\ Fence(op.sealer.active) /\ CanMove(r, op.sealer)
       /\ rows' = [rows EXCEPT ![r] = IF Settled(r, op.sealer.active) THEN @
                                      ELSE op.sealer.active]
       /\ SetOp(n, "walk", [op EXCEPT !.left = @ \ {r}])
       /\ UNCHANGED <<size, root, wrappers, deks, token, mem, chance>>

\* projectTableStraggler over every table.
Dry(v) == \A r \in Row : Settled(r, v)

\* retireProject
Retire(n) ==
    LET v == ops[n]["walk"].sealer.active
    IN /\ At(n, "walk", "walking") /\ ops[n]["walk"].left = {}
       /\ Fence(v) /\ Dry(v)
       /\ deks' = {d \in deks : d.state = "active"}
       /\ Answered(n, "walk") \/ Unanswered(n, "walk")
       /\ UNCHANGED <<size, root, wrappers, token, rows>>

AbandonWalk(n) ==
    LET op == ops[n]["walk"]
    IN /\ At(n, "walk", "walking")
       /\ \/ ~Fence(op.sealer.active)
          \/ \E r \in op.left : ~CanMove(r, op.sealer)
          \/ op.left = {} /\ ~Dry(op.sealer.active)
       /\ Refused(n, "walk")

-----------------------------------------------------------------------------
(* The token key *)

\* RotateTokenKey; RotateScanningKey is the same.
PrepareToken(n) ==
    /\ Free(n, "token") /\ mem[n].token < size.tokens
    /\ SetOp(n, "token", [stage |-> "prepared", ver |-> mem[n].token + 1,
                          master |-> mem[n].active])
    /\ UNCHANGED <<size, store, mem, chance>>

\* rotateRootScopedTier3: the predecessor's version is all it compares.
CommitToken(n) ==
    LET op == ops[n]["token"]
    IN /\ At(n, "token", "prepared") /\ token.ver = op.ver - 1
       /\ token' = [ver |-> op.ver, master |-> op.master]
       /\ Answered(n, "token") \/ Unanswered(n, "token")
       /\ UNCHANGED <<size, root, wrappers, deks, rows>>

RefuseToken(n) ==
    /\ At(n, "token", "prepared") /\ token.ver # ops[n]["token"].ver - 1
    /\ Refused(n, "token")

AdoptToken(n) ==
    /\ At(n, "token", "committed")
    /\ mem' = [mem EXCEPT ![n].token = MaxOf({@, ops[n]["token"].ver})]
    /\ SetOp(n, "token", None)
    /\ UNCHANGED <<size, store, chance>>

-----------------------------------------------------------------------------
(* The master key *)

\* Mutant: the new master becomes known to the process when it is adopted.
LearnLater(n, key) == mem[n].held

\* addMaster
Learn(n, key) == mem[n].held \cup {key}

\* PrepareMasterKeyRotation: every key that can be opened is wrapped again under a
\* new master, which is resolvable from here on.
PrepareMaster(n) ==
    /\ Free(n, "hierarchy") /\ Cardinality(wrappers) = 1
    /\ Newest.epoch = root /\ Newest.ver < size.masters
    /\ CanUnwrap(n) /\ token.master \in mem[n].held
    /\ LET key == [ver |-> Newest.ver + 1, by |-> n]
       IN /\ mem' = [mem EXCEPT ![n].held = Learn(n, key)]
          /\ SetOp(n, "hierarchy", [stage |-> "prepared", kind |-> "master", key |-> key,
                     epoch |-> Newest.epoch, deks |-> Openable, token |-> token.ver])
    /\ UNCHANGED <<size, store, chance>>

\* rotateMasterKey: one wrapper, the next version.
NextMaster(op) == Cardinality(wrappers) = 1 /\ \A w \in wrappers : op.key.ver = w.ver + 1

\* CountOpenableTier3NotAtMaster
AllRewrapped(op) == Openable \subseteq op.deks /\ token.ver = op.token

MasterCommits(op) == NextMaster(op) /\ AllRewrapped(op)

\* removeMaster: abort forgets the new master.
Forgotten(n, key) == [mem EXCEPT ![n].held = @ \ {key}]

CommitMaster(n) ==
    LET op == ops[n]["hierarchy"]
    IN /\ At(n, "hierarchy", "prepared") /\ op.kind = "master"
       /\ MasterCommits(op)
       /\ wrappers' = {[ver |-> op.key.ver, epoch |-> op.epoch, key |-> op.key]}
       /\ deks' = {[d EXCEPT !.master = op.key] : d \in deks}
       /\ token' = [token EXCEPT !.master = op.key]
       /\ \/ Answered(n, "hierarchy")
          \/ Lose(n) /\ SetOp(n, "hierarchy", None) /\ mem' = Forgotten(n, op.key)
       /\ UNCHANGED <<size, root, rows>>

AbortMaster(n) ==
    LET op == ops[n]["hierarchy"]
    IN /\ At(n, "hierarchy", "prepared") /\ op.kind = "master"
       /\ ~MasterCommits(op)
       /\ mem' = Forgotten(n, op.key)
       /\ SetOp(n, "hierarchy", None)
       /\ UNCHANGED <<size, store, chance>>

\* activateMaster
AdoptMaster(n) ==
    LET op == ops[n]["hierarchy"]
    IN /\ At(n, "hierarchy", "committed") /\ op.kind = "master"
       /\ mem' = [mem EXCEPT ![n].active = op.key]
       /\ SetOp(n, "hierarchy", None)
       /\ UNCHANGED <<size, store, chance>>

-----------------------------------------------------------------------------
(* The root key *)

\* PrepareRootKeyRotation: the master this process holds is sealed under the new
\* root, which must be the stored one.
PrepareRoot(n) ==
    /\ Free(n, "hierarchy") /\ Cardinality(wrappers) = 1
    /\ mem[n].active.ver = Newest.ver /\ Newest.epoch < size.epochs
    /\ SetOp(n, "hierarchy",
         [stage |-> "prepared", kind |-> "root",
          wrapper |-> [ver |-> Newest.ver, epoch |-> Newest.epoch + 1,
                       key |-> mem[n].active]])
    /\ UNCHANGED <<size, store, mem, chance>>

\* Mutant: the stored master may have moved on since the wrapper was sealed.
RootUnpinned(w) == Cardinality(wrappers) = 1 /\ w.epoch = Newest.epoch + 1

\* rootKeyRotatePrepare
RootCommits(w) ==
    Cardinality(wrappers) = 1 /\ w.ver = Newest.ver /\ w.epoch = Newest.epoch + 1

CommitRoot(n) ==
    LET op == ops[n]["hierarchy"]
    IN /\ At(n, "hierarchy", "prepared") /\ op.kind = "root"
       /\ RootCommits(op.wrapper)
       /\ wrappers' = wrappers \cup {op.wrapper}
       /\ SetOp(n, "hierarchy", None)
       /\ UNCHANGED <<size, root, deks, token, rows, mem, chance>>

RefuseRoot(n) ==
    LET op == ops[n]["hierarchy"]
    IN /\ At(n, "hierarchy", "prepared") /\ op.kind = "root"
       /\ ~RootCommits(op.wrapper)
       /\ Refused(n, "hierarchy")

\* The operator installs the new root at the primary source, once it is prepared.
InstallRoot ==
    /\ Cardinality(wrappers) = 2
    /\ root' = Newest.epoch
    /\ UNCHANGED <<size, wrappers, deks, token, rows, mem, ops, chance>>

\* Mutant: finalize trusts that verify was run.
Unverified(n) == Cardinality(wrappers) = 2

\* VerifyRootKeyRotation
Verified(n) == /\ Cardinality(wrappers) = 2
               /\ Newest.epoch = root /\ Newest.key = mem[n].active

\* rootRotateFinalize verifies first, and retires the old wrapper in a transaction
\* that only counts the wrappers.
BeginFinalize(n) ==
    /\ Free(n, "hierarchy") /\ Verified(n)
    /\ SetOp(n, "hierarchy", [stage |-> "verified", kind |-> "root"])
    /\ UNCHANGED <<size, store, mem, chance>>

CommitFinalize(n) ==
    /\ At(n, "hierarchy", "verified")
    /\ Cardinality(wrappers) = 2
    /\ wrappers' = {Newest}
    /\ SetOp(n, "hierarchy", None)
    /\ UNCHANGED <<size, root, deks, token, rows, mem, chance>>

RefuseFinalize(n) ==
    /\ At(n, "hierarchy", "verified")
    /\ Cardinality(wrappers) # 2
    /\ Refused(n, "hierarchy")

-----------------------------------------------------------------------------

DEKStep(n) ==
    \/ MintDEK(n) \/ CreateDEK(n) \/ RefuseCreate(n)
    \/ \E r \in Row : Seal(n, r) \/ Reseal(n, r)
    \/ CommitWrite(n) \/ RefuseWrite(n)
    \/ PrepareDEK(n) \/ CommitDEK(n) \/ RefuseDEK(n)
    \/ BeginWalk(n) \/ Retire(n) \/ AbandonWalk(n)
    \/ \E s \in Slot : Evict(n, s)

TokenStep(n) == PrepareToken(n) \/ CommitToken(n) \/ RefuseToken(n) \/ AdoptToken(n)

HierarchyStep(n) ==
    \/ PrepareMaster(n) \/ CommitMaster(n) \/ AbortMaster(n) \/ AdoptMaster(n)
    \/ PrepareRoot(n) \/ CommitRoot(n) \/ RefuseRoot(n)
    \/ BeginFinalize(n) \/ CommitFinalize(n) \/ RefuseFinalize(n)

Next ==
    \/ \E n \in size.nodes :
          Boot(n) \/ Crash(n) \/ DEKStep(n) \/ TokenStep(n) \/ HierarchyStep(n)
    \/ InstallRoot

Spec == Init /\ [][Next]_vars

-----------------------------------------------------------------------------
(* Properties *)

\* Nothing is stranded, however writers holding an old sealer, rotations and walks
\* interleave: no stored ciphertext names a DEK version that has been retired, and every
\* DEK that can be opened is wrapped under the stored master, one minted or rotated
\* while the master was rotated included.
NothingStranded ==
    /\ \A r \in Row : rows[r] # 0 => rows[r] \in Openable
    /\ \A d \in deks, w \in wrappers : d.master = w.key

\* Root and master rotation exclude each other: two wrappers are one master key
\* under two roots, and never two masters.
OneMaster == Cardinality(wrappers) <= 2 /\ \A w, x \in wrappers : w.key = x.key

\* With one process the root at the primary source opens a wrapper of the stored master
\* at any time: after a crash in any phase of a root rotation too, and when the operator
\* leaves a phase out.
InstalledRootOpens == HA \/ \E w \in wrappers : w.epoch = root

\* A single process that has lost no answer can open every stored ciphertext, also
\* between the commit of a rotation and its adoption.
ReadsThroughRotation ==
    \A n \in Running, r \in Row : ~HA /\ n \notin unsure /\ rows[r] # 0 =>
        IF mem[n].cache # None THEN rows[r] \in mem[n].cache.held ELSE CanUnwrap(n)

\* After rotate-master-key no tier-3 key references the retired master; one created
\* concurrently lands under the new master.
NothingUnderRetiredMaster ==
    \A w \in wrappers : token.master = w.key /\ \A d \in deks : d.master = w.key
=============================================================================
