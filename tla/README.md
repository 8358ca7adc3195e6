# Hikyo: TLA+ models, model-checking runs and proofs

Hikyo (the Go program under `src/`) stores configuration and secrets for the
environments of a project, publishes them as immutable snapshots and delivers
those snapshots to workloads. This directory holds TLA+ models of its core
logic, the TLC runs that check them on small instances, and TLAPS proofs of
the properties that matter most.

## 1. Inventory

Every operation of the service layer is one serializable datastore
transaction (`internal/store/tx`): SQLite has one writer, PostgreSQL runs
`SERIALIZABLE` with retries, and operations that decide on a project's state
take the project row lock first. The hard behaviour is therefore not inside a
transaction; it is in what a caller read *before* one (drafts, previews, lease
times), in work that spans several (background workers, external effects,
rotations), and in nodes that pause, crash or race one another.

| Component | State | Operations | Interacts with | What is hard | What makes it correct |
|---|---|---|---|---|---|
| Singleton lease and scheduler (`store/coordination*.go`, `app/scheduler.go`, `store/tx`) | one lease row (owner, fence, expiry); per node: leader flag, fence, provisional claim, running term | claim, renew, release, datastore clock; heartbeat, start/drop/join a term; guarded transactions | every background job runs inside a term; the transaction guard re-checks the lease | stale clock reads, a commit whose response is lost, pauses, two nodes, restart | at most one term per node, a fence names one term, only the owner of the newest term commits |
| Drafts, publish, snapshots, restore (`service/publish.go`, `values.go`, `rollback.go`, `group_index.go`, `store/repos_revisions.go`) | cells, drafts, snapshots, lineage, previews | Set/Unset, publish, restore, declare, copy | schema, approvals, retention, adapters (a publish enqueues jobs), delivery (reads snapshots) | drafts of several owners on one cell, stale drafts and previews, groups, several environments in one publish | what is delivered is what is published and is valid; no blind overwrite; groups move whole; a restore delivers what was previewed |
| Key catalogue and schema (`service/keys.go`, `schema/`) | keys, declarations, presence rules, groups, schema revision | create, update, group, delete, rename, reclassify | fans out into every environment; discards drafts | a rule change against values and drafts that already exist | the newest snapshot satisfies the current schema |
| Environments (`service/hierarchy.go`) | environments, presence cascade | create, clone, delete, rename | catalogue, snapshots, grants | born-invalid environments, dangling rules | revision 1 exists before the environment can be read |
| Pins and retention (`service/pins.go`, `retention.go`) | pins, policies, collected payloads | pin, release, sweep | snapshots, restore, delivery | a pin set while a sweep runs | a pinned or newest payload is never collected |
| Approvals (`service/approvals.go`) | policies, requests, votes | create/update policy, request, vote, expire, merge, bypass | publish | policy, drafts and membership change between request and merge | nothing reaches a covered environment unreviewed |
| Dynamic secret leases (`service/dynamic*.go`, `store/dynamic*.go`, `dynamic/`) | lease rows, intents, outcomes, database roles | mint, renew, revoke, sweep, recover | external database; scheduler | an external effect whose outcome is unknown | no live role without a lease row that will revoke it |
| Adapter outbox (`adapter/`, `store/adapter_runtime.go`) | jobs, effects, ledger, routes | enqueue, claim, gate, reserve, prepare, finish | publish, external targets | lease expiry mid-effect, superseded jobs, route moves | an effect is applied under one live claim and accounted for |
| Key hierarchy and rotation (`crypto/`, `service/rotation.go`, `reencrypt.go`, `fence.go`, `store/keys_mutations.go`) | root epoch, master wrappers, DEK versions, token and scanning keys, sealed rows; each process's keyring | mint, seal, rotate each tier, re-encrypt, retire, adopt | every sealing writer (the writer fence) | keys prepared outside the transaction that commits them; memory behind the datastore | nothing stored loses the key above it; one master; the installed root opens it |
| Human authentication (`service/auth*.go`, WebAuthn, TOTP, OIDC, SAML, CLI re-auth) | sessions, challenges, one-shot tokens, windows | login, step-up, enrol, recover | authz, budgets | one-shot tokens used twice, windows that expire mid-operation | a ceremony authorises one decision |
| Authorization and grants (`authz/`, `service/grants*.go`) | grants, proofs, denials | authorize, grant, revoke, settle denials | every operation | revocation racing a decision | a proof is only good inside its transaction |
| Machine identities, federation, SCIM | service accounts, tokens, bindings, provisioned users | mint, exchange, provision | authentication | replay, reactivation | tokens older than a reactivation are refused |
| Admission, budgets, backoff (`admission/`, `service/budget.go`) | buckets, slots | acquire, charge, release | every entry point | slots leaked on error paths | a bound is never exceeded |
| Self configuration and rollouts (`service/self_config*.go`, `configrollout/`) | generations, rollouts, acknowledgements | stage, apply, acknowledge, roll back | scheduler lease, server configuration | nodes on different generations | one generation converges or rolls back |
| Backup, restore, upgrade (`backupreceipt/`, `upgradegate/`, `hostupgrade/`, `selfupdate/`, `updater/`) | receipts, gates, phases | backup, restore, gate, upgrade | datastore, containers | a crash between phases | an upgrade runs only behind a verified backup |
| Compose delivery and Kubernetes operator (`compose/`, `operator/`, `delivery/`) | generations on disk, applied Secrets | fetch, render, swap, reconcile | snapshots | crash between render and swap | a reader sees one whole generation |
| Import, definitions, scanning, remotes, audit export, MCP, mail, CLI, server, web UI | plans, findings, cursors | parse, plan, apply, export | services above | mostly translation and I/O | covered by the services they call |

## 2. Plan

All planned modules are on disk.

| Module | Composes | Abstract specification | Runs | Theorems |
|---|---|---|---|---|
| `SingletonLease` | the lease row, the scheduler of each node, the guarded transactions | `SingletonWork` | `lease` | all five properties |
| `Revisions` | drafts, publish, restore, direct writes, schema changes, environments, collection | none: the properties are the promise | `publish`, `schema` | all nine properties |
| `DynamicLease` | mint request, lease row, workers, provider with lost answers | none | `dynamic_lease` | both safety properties |
| `Approvals` | policies, requests, votes, expiry, merge, bypass, over a reduced publish | none | `approvals` | all three properties |
| `Delivery` | snapshots, pins, grants, the conditional fetch, policies, holds and the sweep | none | `delivery` | all four properties |
| `SelfConfig` | binding, job, reconciliation of each node, recovery, restore of a backup, collection | none | `self_config`, `self_config_settle` | all safety properties |
| `AdapterOutbox` | outbox, ledger, journal, provider lease, workers, provider, operators | none | `adapter`, `adapter_blocked` | all six properties |
| `KeyRotation` | stored hierarchy, keyrings, writers, rotations, re-encryption, operator | none | `keys`, `token_key` | all four properties |

Left, in order of worth:

1. an abstract specification of the adapter's target (the goal a converged or
   scrubbed target has reached, as `SingletonWork` is for the lease) and the proof
   that `AdapterOutbox` implements it;
2. liveness of the adapter's outbox and of the expiry of approval requests, with
   TLC;
3. the generation swap of the Compose agent and the operator's reconciliation.

## 3. The models

### SingletonLease

One datastore row and one `runHA` loop per node.

| TLA+ | Code |
|---|---|
| `lease` | the `singleton_leases` row: owner, fence token, expiry |
| `clock`, `Tick` | the datastore clock (`Now`) |
| `pc`, `now`, `leader`, `fence`, `unconfirmed`, `expiresAt`, `stopping` | the locals of `runHA` and its context, per node |
| `terms` | the goroutines `startTerm` launched that have not exited, each with its current job transaction |
| `lastCommit` | history: which term committed the latest job write |
| `ReadClock`, `ClockUnreachable` | the start of a heartbeat, with the fail-closed deadline check |
| `RenewHeld`, `RenewDropped` | `RenewLease` and its two outcomes; an error may hide a commit |
| `ConfirmHeld`, `ConfirmFailed`, `ConfirmNotHeld` | the fenced renewal that turns a provisional claim into a term |
| `ClaimHeld`, `ClaimAmbiguous`, `ClaimRefused`, `AwaitDrain` | `ClaimLease`, its lost answers, and the drain check before it |
| `Stop`, `Shutdown`, `Joined`, `ReleaseLease` | context cancellation, the two-second join and the release |
| `Restart` | a crash at any point and a new process under the same node id |
| `Begin`, `Guard`, `CommitWork`, `Rollback`, `ExitTerm` | a job's transaction: open, `GuardPGSingletonLease`, commit or roll back; the end of a cancelled term |

A pause is an interleaving in which a node takes no step while `Tick` runs. The
guard's `UPDATE` holds the row lock to the end of the transaction, so every
other writer of the row waits (`Unlocked`). `Now` is monotonic here. What a job
does is one committed write. The in-process lease of a single-node
installation is not modelled.

### Revisions

One project. Every operation is one serializable transaction behind the
project lock, hence one action; a refused operation changes nothing and is no
step.

| TLA+ | Code |
|---|---|
| `live`, `spent` | the environments that exist; ids already minted (never reused) |
| `schema` | the catalogue: revision, keys, declarations, groups |
| `cells` | `value_entries`: row id and value of each (environment, key) |
| `pending`, `lastVer` | `pending_changes` and the version ids minted |
| `snapshots` | the revisions of an environment: pinned cells, recorded lineage, payload |
| `previews` | the impact previews `Restore` returned, with their token |
| `written`, a draft's `seen`, a preview's `after` | history only: no action reads them except to number a new row |
| `Stage` | `Values.Set`, `Values.Unset` |
| `Publish` (`Closure`, `Publishable`, `Fresh`, `Token`) | `PublishPlanned` with `selectVersions`, `checkFreshness`, `publishPreviewToken` |
| `Materialize` (`Valid`, `Lineage`, `NewSnapshot`) | `materialize`, `validateResolvedPublish`, `lineage` |
| `Restore` (`Restorable`) | `Revisions.Restore` |
| `Declare`, `Copy` | `Values.Declare`, `Values.Copy` |
| `CreateKey`, `UpdateDeclaration`, `SetGroup`, `DeleteKey` (`FanOut`) | the catalogue operations and `fanOutSchemaPublish` |
| `CreateEnv`, `DeleteEnv` (`Cascaded`) | `Environments.create` (empty and clone), `Environments.Delete` |
| `Collect` | what `Retention.Sweep` does to one eligible revision |

Abstractions. A value is its stored normal form and a declaration's value rules
are the set of values it accepts; a presence rule is the set of environments it
covers, `all` being the whole of `Env`. Row ids count the writes of a cell:
unique within the cell, and 0 is the empty string the code uses for an absent
row. Authorization, ceremonies, rate and size limits only refuse. A
classification decides what a clone may copy, so `CreateEnv` copies any subset
of the source's set keys. The token's principal generation and protected flag
are left out (they only make a token fail). No approval policy covers the
environments. `Collect` may take any revision but the newest: the code's
selection is a subset, since a retention count is positive. Rename, reclassify,
import and definitions apply are not modelled here (`Approvals` has the deletion
of keys by definitions apply).

### DynamicLease

One provider and its leases. A request mints a role at the provider between
two transactions; everything later is queued on the row and done by the worker
of each node.

| TLA+ | Code |
|---|---|
| `row`, `effect`, `provider` | `dynamic_leases`, the latest `dynamic_effects` row of each, `dynamic_providers` |
| `role` | the database role at the provider (outside the program) |
| `req`, `disclosed` | `MintLease` between its transactions; whether it handed out the password |
| `wk` | the worker of each node: what it claimed, what it is about to do, the answer |
| `MintIntent`, `CreateRole`, `FinishMint`, `MintAbandoned` | the three phases of `MintLease`, and its death |
| `RevokeLease`, `RenewLease`, `SettleLease`, `DeleteProvider`, `ReplaceCredential`, `RevokeCredential` | the requests, through `EnqueueTransition` |
| `ClaimDueLease` ... `Settle` (`DeriveKind`, `Outcome`) | `RunLeaseSweep` step by step |
| `Crash`, `Lapse`, `Elapse`, `Expire`, `YearPasses` | a dead or paused worker, and the comparisons of time |

Time is what the code compares it with: a row is due, waiting, at its expiry or
parked a year ahead; a claim is live or has lapsed.

### Approvals

One environment under an environment or project policy. A draft per principal
(grouping is `Revisions`' business). A policy write gets a stamp for its id and
version; a request records the policy and the content it was opened for.
`Publish` stages a request where a policy covers; `Merge`, `MergeWithoutQuorum`,
`Bypass`, `MergeUngoverned` and `FindsStale` are the outcomes of a publish that
names one; `Vote`, `VoteFindsStale` those of `Approvals.Vote`; `ExpireDue` is the
scheduler's job.

The writes that do not come from a draft differ in how the gate treats their
trigger (`approvalGatedTrigger`):

| TLA+ | Code |
|---|---|
| `OutOfBand` | copy, bulk apply, clone and import: refused where a policy covers |
| `Declare` | `Values.Declare`: not gated |
| `SchemaChange` | a catalogue change that fans out with the same values: not gated |
| `DeleteKey` | `Keys.Delete`: only a key without values; discards its drafts |
| `ApplyDelete` | `Definitions.Apply` with deletions allowed: clears the live values of the keys it deletes, discards their drafts and publishes with the trigger `definitions-apply`: not gated |

`GateHolds` exempts `Declare` and `ApplyDelete`, the latter only as far as it takes
away values of the keys it deletes. What else a definitions apply does to the
catalogue is a `SchemaChange` here. Ceremonies, rate limits and views are left out.

### Delivery

One environment, its workloads and the retention of its revisions.

| TLA+ | Code |
|---|---|
| `snaps`, `held` | revisions with their payloads; what the self configuration holds |
| `pins`, `pinGen`, `caps`, `authRev`, `optIn`, `authority`, `tokenKey` | all that decides what a machine fetch returns |
| `handed` | history: cursor and rows of each delivery made |
| `Fetch` (`Selected`, `MayFetch`, `RevealsSecret`, `Manifest`, `Projection`, `Cursor`) | `Delivery.FetchAs`, `deliveryRows`, `projectionOf`, `EncodeCursor` |
| `SetPin`, `Release` (`Consequence`) | `Pins.Set`, `Pins.Release` |
| `SetOrg`, `SetProject` (`Within`) | the policies of organization and project |
| `BeginSweep`, `SweepChunk` (`Candidates`, `LastChunk`), `SweepFails` | `Retention.Sweep`: a clock read, then one transaction per chunk |

A token or cursor is a keyed hash and stands for what it hashes.

### SelfConfig

| TLA+ | Code |
|---|---|
| `binding`, `jobs`, `rows`, `slots` | `self_config_binding`, `_jobs`, `_nodes`, `_retention` |
| `admitted`, `active`, `view` | a process's incarnation, the bundle it has installed, what its running reconciliation has read |
| `Begin`, `Commit` (`AllPrepared`, `KeepsPrevious`) | `Apply` with `BeginJob` and `CommitJob` |
| `Observe`, then `Rest`, `Fence`, `Refuse` or `Report` (`Settle`) | `ReconcileRuntime`: reads, then one write |
| `Captures` | `Capture`: may a request be served now |
| `Recover` | `RecoverTarget` by the host operator |
| `Backup`, `Restore`, `Fence` | a backup taken at any point, restored later; `FenceRestored` |
| `Collect` (`Held`) | the sweep's exemption of held snapshots |

Deployments that change the process's own bootstrap sources are left out.

### AdapterOutbox

One target of the Forgejo module.

| TLA+ | Code |
|---|---|
| `target`, `jobs`, `lease`, `ledger`, `open`, `conflicts` | `adapter_targets`, `adapter_outbox` (a job is known by its generation), the provider-write lease, `adapter_ledger`, effects without outcome, conflicts |
| `provider`, `wire`, `adrift` | the destination; requests it has not handled, and those of them their client has given up on |
| `work` | each worker's attempt, with the ledger it loaded |
| `Publish`, `Manual`, `Pause`, `Resume`, `Adopt`, `Teardown`, `ReplaceCredential`, `RevokeCredential` | the operators' acts; `Enqueue` supersedes |
| `Claim`, `Load`, `List`, `Reserve`, `Prepare`, `Send`, `Finish`, `ReleaseReservation`, `Settle` | `Worker.RunOnce`, `Module.Sync` and the journal, with a gate in front of each step (`GateFails`) |
| `Handle`, `Miss`, `Intrude`, `LapseJob`, `LapseProvider`, `Crash` | the provider, lost requests and answers, somebody else, lapsing leases, a dead worker |
| `Linger`, `Land` | the client's deadline passes, or the client is dead, while the request is still on its way; the provider handles such a request at any later time, or never |

`applied`, `licensed`, `loose` and `late` are history, read by no guard. `licensed`
has the names for which a foreign value is fair game: an operator adopted the
name, or an attempt of the target's own on it ended without an answer (unknown
outcome, intent closed by a claim, lapsed lease taken over by `Prepare`). `late`
has the names to which a request adrift was applied. `loose` has those too, and the
names `Prepare` dispatched although the ledger no longer held the row the attempt
had loaded; the code compares the row only for a reserved name. Both ways the
ledger loses hold of a name, and both are observations of section 5. The properties
about what the provider holds except these names and say everything about the
others; `NewestWins` has no excepted names and names the request adrift instead.

`Plans` says which acts a behaviour may contain. A client waits 15 seconds for an
answer and leases last two minutes (`NewClient` refuses a deadline as long as a
lease), so no lease lapses while its request is on the wire. That is all the timing
the properties rest on: when the provider handles a request whose client has given
up is left open.

### KeyRotation

| TLA+ | Code |
|---|---|
| `root` | the root key at the operator's primary source, by epoch |
| `wrappers`, `deks`, `token` | the active rows of `master_keys`; active and retiring rows of `tier3_keys` for one project; the token key |
| `rows` | the DEK version each stored ciphertext names |
| `mem` | a process's `Keyring`: active and held masters, token key, cached version set |
| `ops` | what each process has under way: a write, a mint, rotations, a walk |
| `Seal`, `CommitWrite` (`Fence`) | a sealer obtained before, and fenced in, the writing transaction |
| `PrepareX`, `CommitX`, `AdoptX` | each rotation: prepared from memory and reads, committed, adopted |
| `BeginWalk`, `Reseal`, `Retire` (`Dry`), `AbandonWalk` | `ReencryptProject` |
| `PrepareRoot`, `CommitRoot`, `InstallRoot`, `BeginFinalize`, `CommitFinalize` | the phases of `rotate-root-key`, and the operator's |

The write fence and the dry gate are two independent safeguards: dropping the
gate alone strands nothing while the fence holds. Left out: the instance DEK,
finalize's refusal during a configuration rollout, project deletion, the first
boot's mint. The scanning key is rotated by the code of the token key.

## 4. Runs

| Run | Instance | Why the bounds are enough |
|---|---|---|
| `lease` | 2 nodes (symmetric), time to live 2, clock to 4, 3 acquisitions | each node can lead, lose the lease to the other, and come back |
| `publish` | 1 environment, 2 keys in one group or none, 2 principals, 2 values, 4 revisions, 2 drafts, 1 version per cell and owner | a value is published, staged over, rewritten and published again; a restore is previewed and overtaken; two owners' drafts on one group |
| `schema` | 2 environments, 2 keys, 1 principal, 4 declarations (optional, required everywhere, forbidden in one environment, one value refused), 3 schema revisions | keys, declarations, groups and environments change around published values and drafts |
| `dynamic_lease` | 1 lease, 2 workers, 2 disturbances (requests, crashes, pauses); any number of failing calls | a request or a crash hits a worker paused past its claim |
| `approvals` | 2 principals, 2 keys, 3 policies (two approvals, one with a bypasser, disabled), 1 administrative change, 1 request, 2 drafts, 2 revisions | any one change between request, votes and merge; a vote by the proposer, a grant lost, a policy weakened, keys with values deleted |
| `delivery` | two instances: 2 workloads, 2 revisions, 2 administrative changes, 1 fetch; and 3 revisions, 3 policies, clock to 3, batches of 1, 1 hold | a cursor crosses two changes; a sweep of two chunks crosses a pin, a policy change or a hold |
| `self_config` | three instances: 2 nodes and 2 jobs; 1 node with 3 revisions, 2 jobs and 2 stops or recoveries; 1 node with a restored backup | an acknowledgement of the first job meets the second; a sweep and a recovery meet a job; a restore meets each of its stages |
| `self_config_settle` | 2 nodes, 1 job, 1 stop | a participant stops in each stage |
| `adapter` | 2 workers, 2 names (one secret), 2 revisions that rename a name, 3 generations, 1 fault, five plans of acts | a goal is superseded while its request is prepared, on the wire, answered or given up on, and the retry follows |
| `keys` | one process with 3 DEK versions, 2 masters, 2 token keys, 2 roots and a fault; with 3 roots and 2 faults; two processes with DEK and master; two with 3 masters, 3 roots and a fault | every rotation meets every other, and a root rotation is followed by another |
| `token_key`, `adapter_blocked` | one process; two workers without faults | the findings below |

Every bound is a constant or a field of `Sizes`, in the guards: `MaxClock`,
`MaxFence`, `MaxRevision`, `MaxSchema`, `MaxVersion`, `MaxDisturb`, `MaxAdmin`,
`MaxDraft`, `MaxRequest`, `MaxLife`, `MaxPins`, `MaxGen`, `MaxFaults`.
`MaxPending`, `MaxClaims`, `batch` and `quota` are limits of the code made small.
They are the smallest at which every mutant of section 6 is caught, that is, at
which the interesting sequence fits. For every safety property of every passing
run a proof removes them (section 7); the liveness properties have them. Symmetry is over nodes, workers, processes, workloads, keys,
principals and values that no constant names, and is not used with liveness.

All runs but `lease` say `CHECK_DEADLOCK FALSE`: the operations are decisions of
clients, operators and faults, all bounded, and a system nobody asks anything
of may rest. Where something must go on, it is a liveness property.

**Fairness.** `dynamic_lease` assumes that each worker's loop goes on
(`WF` of `WorkerStep`: `dynamicWorker.Run` ticks for ever and a supervisor
restarts it), that claims lapse and back-offs end (`WF` of `Lapse` and `Elapse`:
time), and that a worker that tries again and again reaches the provider and
gets an answer some time (`SF` of `OpenProvider` and of a successful
`DropRole`). Both liveness properties also suppose that a credential stays set:
without one the code can only wait for the operator. `self_config_settle`
assumes that nodes are restarted and reconcile (`WF` of `Start`, `Observe`,
`Act`: a supervisor and a two-second ticker) and that time passes.

## 5. Findings

Violated by what the code does, and kept as runs:

- **A token key under a retired master** (`token_key`). `RotateTokenKey` and
  `RotateScanningKey` mint under the process's master before their transaction,
  which compares only the predecessor's version. If a master rotation commits in
  between, the new key is stored under the retired master and the next start
  cannot load it. `docs/adr/encryption-model.md:312` says such a key "lands under
  the new master, never the retiring one". `rotate-dek` makes the missing
  comparison (`assertActiveMaster`).
- **A credential change blocks publishing** (`adapter_blocked`). Replacing or
  revoking a credential raises the target's generation and leaves its active
  job. The worker that has claimed this job, before the change or after it, fails
  at its next gate and ends the job as failed without clearing `active_job_id`, and
  every later publish of the environment is refused until an operator pauses and
  resumes the target. `docs/adr/deployment-adapter.md:55` says a publish enqueues
  the converge.

Further observations made while modelling. They are differences between the code
and a comment or document, or limits of what a document promises. Where a row says
"hence", a property is stated with the exception the row explains.

| Where | What |
|---|---|
| `app/scheduler.go:275` | `RenewLease` compares the expiry with the instant read at the start of the heartbeat, so a node that pauses in between revives a lapsed term under its old fence (against `store/coordination.go:114`). `FencedWork` holds: the guard uses the datastore's clock |
| `service/publish.go:1049` | every absent cell has the same baseline, so a draft staged on one is published after the cell was set and cleared (against `docs/adr/revision-model.md:132`). Hence `NoBlindOverwrite` speaks of cells that hold a value |
| `service/rollback.go:237` | a restore stages past the cap on pending drafts (against `docs/adr/ops-spec.md:181`) |
| `service/dynamic.go:505` | a revocation that completes while `CREATE ROLE` is in flight leaves a role, never disclosed, that no row leads to |
| `store/dynamic_runtime.go:292` | a refused renewal parks the active lease for a year, past its expiry (against `service/dynamic_worker.go:160`) |
| `store/dynamic.go:255` | a provider deleted after its credential was revoked can never have one again, so its leases' drops retry for ever |
| `store/dynamic.go:458` | a renewal queued while an expired role is being dropped can end as an active lease without a role |
| `store/dynamic.go:432` | after an interrupted recovery a late mint request discloses the password of a role already dropped |
| `service/values.go:740` | `Declare` delivers a value in a covered environment without a request (against `docs/adr/permission-model.md:116`); `GateHolds` names the exemption |
| `service/definitions_apply_exec.go:445` | a definitions apply with deletions allowed clears live values and publishes in a covered environment without a request (`docs/adr/source-of-truth.md:86` describes the deletion; `service/approvals.go:144` does not gate its trigger). Hence the exemption in `GateHolds` |
| `service/approvals.go:206` | a policy update leaves requests of its old version open (against `store/queries/postgres/approvals.sql:49`) |
| `service/publish.go:325` | a merge attempted by another publisher invalidates an intact request as `draft_edited` |
| `service/publish.go:403` | a merge refused because its policy is gone, called again, publishes a restore without its preview token (against `service/approvals.go:1003`) |
| `service/grants.go:1308` | reveal-history outlives the historical pin that justified it |
| `service/pins.go:122` | a release calls a payload `collection_eligible` although the self configuration holds it (against `api/openapi.yaml:13269`); `ReleaseTellsTruth` excepts held revisions |
| `store/repos_self_config.go:543`, `:523` | two recoveries in a row leave a previous target no node installed; a recovery aborts an open job instead of being refused by it |
| `store/adapter_runtime.go:741` | a publish during a first write that the provider then refuses ends the new job as failed, without a successor |
| `store/adapter_runtime.go:714` | a successor loads the ledger while its predecessor's request is on the wire, and `Prepare` compares the row with the loaded one only if that was reserved. If the predecessor's delete has released the row, the successor writes the name all the same and `Finish` leaves it released (`:783`): the target converges on a value it does not own (against `docs/adr/deployment-adapter.md:72`). If the predecessor met somebody else's variable and lost the row, the successor prunes that variable (against `:75`, "never deleted, ever"). Hence the names in `loose`; the attempt to prove `NeverDisowned` and `ForeignKept` without them led here |
| `store/adapter_runtime.go:509`, `:609` | a crash and a teardown that keeps the remote names leave an intent without outcome; a worker that lost its job reserves a name afterwards |
| `adapter/forgejo/client.go:115` | a request still on its way when its client's deadline passes ends as an unknown outcome, which frees the provider lease; it can then land after the write of a newer goal or after a scrub, the case the fence of `docs/adr/deployment-adapter.md:42` is meant to exclude. Hence the last disjunct of `NewestWins` and the names in `late` (`Linger`, `Land`) |
| `store/keys_mutations.go:163` | with several processes a master rotation prepared before and committed after another process's whole root rotation stores the new master under the old root: the version is compared, not the epoch. Finalize, too, counts wrappers without naming the epoch it verified. Hence `InstalledRootOpens` is stated for one process |
| `service/rotation.go:213` | a lost answer to rotate-master-key or rotate-dek leaves the process's memory behind the datastore until it restarts, and other processes cannot unwrap keys after a master rotation until they do. Hence `ReadsThroughRotation` is stated for one process that lost no answer |

## 6. Mutants

Each property of a passing run is paired in `PROJECT.json` with a mutated
definition (in the module, just before the original, marked `Mutant`) under
which TLC finds it violated: a drain check that ignores cancelled terms, a
freshness check by presence, a claim not cleared by a queued revocation, a
policy compared by id and not by version, a cursor without the historical flag,
a last chunk judged by a full batch, acknowledgements of nodes that are merely
alive, a provider lease taken from a superseded job, a write without its fence,
and so on.

## 7. Proofs

All proofs are for arbitrary constants, from the assumptions next to the
`CONSTANTS`: `LeaseAssumption`, `RevisionsAssumption`, `DynamicAssumption`,
`ApprovalsAssumption`, `DeliveryAssumption`, `SelfConfigAssumption`,
`AdapterOutboxAssumption` and `KeyRotationAssumption`. They give the types of the
parameters and the distinctness of the "none" values, and in particular: a
positive time to live, at least one revision, a lease, finite sets of principals
and processes (their votes and wrappers are counted), policies that ask for at
least one approval and retain at least one revision, and names that are numbers
(an attempt works in their order). TLC checked
each inductive invariant on small instances before its proof.

**`SingletonLeaseProofs`.** `IInv` is the type invariant, the properties and
four facts that make them inductive: a node's clock reading is never ahead of
the datastore (`ClockBehind`), a leader is inside its loop (`LeadsInLoop`), no
term's fence is newer than the row's and a term at the row's fence runs on the
row's owner (`TermsOwned`), and a term inside its guard owns the row
(`LockHoldsRow`). `LeaseBacksLeader` alone is not inductive: a claim with a
stale `now` could take a live lease unless `ClockBehind` is known, and a term
could commit after a takeover unless `LockHoldsRow` ties its lock to the row.
`LeaseImplementsSingletonWork` follows step by step: a claim is an `Elect`, a
commit a `Commit`, everything else a stutter.

**`RevisionsProofs`.** `RInv` is the conjunction of the type invariant,
`SnapshotIsPublishedState`, `DeliveredContentIsValid` and
`DraftsNameLiveCells`; they are inductive together and not singly (validity of
what is delivered is carried over a publish by knowing that the other
environments' newest snapshots equal their cells). `MaterializeKeeps` does the
work once; each action has a lemma that meets its hypotheses.

The second half of the module is about history. `HInv`, inductive relative to
`RInv`, says what row ids mean: the id of a set cell is its write count, and so is a draft's
baseline. From it follow `LineageExplainsHistory` and `NoBlindOverwrite`.
`GroupsPublishWhole` needs that only `Publish` consumes drafts.
`HistoryIsAppendOnly` comes from `StepShape`: a step leaves an environment
untouched, appends one revision, or sweeps one that is not the newest.
`RestoreAsPreviewed` needs `PreviewsHold`: as long as the environment is at the
revision a token names, applying its drafts still yields what was shown.

**`DynamicLeaseProofs`.** `DInv` rests on the claim: while a worker holds a row
nobody else moves it (`ClaimFreezesRow`), the worker of a row that is being
revoked carries out a revocation (`KindFollowsRow`) whose effect row is recorded
(`IntentRecorded`), and a drop that succeeded under the claim leaves no disclosed
role (`DropIsFinal`). `DisclosedRoleIsTracked` is not inductive without the last:
a settled drop makes the row terminal. `RevokeSticks` follows from the same
invariant: only the holder of the claim moves a revoking row, and it revokes.

**`KeyRotationProofs`.** Prepared operations compare versions, so the invariant
says that a version names one key: a master some process works with has a version
that is not ahead of the stored one, and if it is the stored version it is the
stored key (`Known`, `KeysKnown`). With `OneHierarchy` (one master under at most
two roots) this gives `OneMaster`. `NothingStranded` needs that the active DEK has
the highest version (`OneActive`) and that no sealer is ahead of it
(`SealedVersions`). `InstalledRootOpens` and `ReadsThroughRotation`, which are
about one process, need that it finds the hierarchy as it left it
(`AloneInHierarchy`) and that its cached version set covers every stored
ciphertext, but for the one version it has just made active and nothing names yet
(`Behind`).

**`DeliveryProofs`.** `CurrentIsCurrent` comes from `CursorsTell`: the rows of a
delivery are a function of its cursor. `HeldPayloads` is inductive with the type
invariant and `SweepBehind` (a sweep's instant has been): a chunk exempts the
newest, pinned and held revisions as they are in its own transaction. A short
batch is the last one: `SuccessMeansSwept` needs that a revision missed by a batch
would have a first one missed (`FirstOf`: numbers are well founded), which then
belonged in it (`ShortBatchIsAll`). `ReleaseTellsTruth` compares two computations
of the same rank (`RankCounts`).

**`ApprovalsProofs`.** `AInv` says what a request's stamp and base stand for: as
long as its policy has the stamp, the policy is the one it was reviewed under
(`StampNamesRules`); as long as the revision is its base, the reviewed content is
what its draft gives (`BaseNamesContent`). `MergedAsReviewed`, `MergedWithQuorum`
and `GateHolds` follow for the merge, whose checks compare just these; `ApplyStep`
shows that the deletion of keys changes what is delivered under these keys only,
which is all that `GateHolds` exempts.

**`SelfConfigProofs`.** `SInv` has three parts: the tables are consistent
(`TablesOK`: retention rows hold what is in use, one open job, rows and jobs that
claim only what was done), the same for the tables of a backup (`BackupOK`: they
come back by a restore), and what a process holds was read from a binding of its
incarnation that has not gone back since (`ReadHere`). Fencing changes the
incarnation, so nothing read before a restore counts after it (`Fenced`).

**`AdapterOutboxProofs`.** `OutboxInv` is proved in four layers, each using those
before it. `FlightInv`: an attempt's place fits its plan, one job is live, a
recorded request belongs to a job that is not due, and the request on the wire is
the recorded one and known to the attempt that waits for it; `OneWriteInFlight`
and `NewestWins` follow, the latter with the fact that a request adrift is of no newer
goal than one on the wire: its landing cannot raise `applied` past the request that is
to be handled. `LedgerInv`: what the ledger and an answer tell about the provider
(`WrittenIsHeld`, `NewIsUnwritten`, `AnswerTells`), but for the names a request adrift
has reached; it gives `NeverDisowned`. `GoalInv`: what the job of the
current generation has written or cleaned stays so (`DoneStays`), because a
predecessor's recorded request is for none of those names (`PredecessorApart`) and a
landing request makes its name `late`; it gives `ConvergedMeansWritten` and
`ScrubLeavesNothing`. `ForeignInv`: a held name the target has no value under is
licensed or has an open attempt (`InDoubt`), the attempts open beside the recorded
one are on licensed names (`OthersLicensed`), and every request that updates or
deletes is for a name that is the target's or licensed (`RequestsLicit`); it gives
`ForeignKept`. The actions are first reduced to kinds of steps (`Kind`: `Quiet`,
`Prepares`, `Sends`, `Finishes`, `Handled`, ...), once, in the first layer; the
others reason about kinds only.

Every invariant and every action property of a passing run has a theorem.

**Only model-checked:** the liveness properties `RevokeCompletes`,
`AbandonedMintIsDropped` and `JobsSettle`. TLAPS has no reasoning about fairness
or `ENABLED`.

## 8. Not modelled

Section 1 lists every part; `PROJECT.json` gives the reason for each that is
left out. In short:

- parts that only refuse inside the modelled operations: authorization,
  authentication ceremonies, admission and budgets;
- parts that are translation, rendering, transport or I/O around the modelled
  services: the generated API and query code (most of the repository's lines),
  the registries of operations and audit events, import, definitions (but for the
  deletion of keys, in `Approvals`), scanning, mail, MCP, CLI, HTTP server, web UI;
- backup, upgrade and host operations: sequences of files, containers and
  processes;
- the cryptography itself;
- inside the modelled parts: rename and reclassification of keys, route moves
  and the other provider modules of the adapter, configuration rollouts, the
  instance DEK, federated and human callers of delivery.
