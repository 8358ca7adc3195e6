------------------------------ MODULE Delivery ------------------------------
(***************************************************************************)
(* What a workload is delivered: the machine fetch with its conditional    *)
(* cursor (service/delivery.go, delivery/delivery.go), revision pins       *)
(* (service/pins.go), and the retention sweep that collects the payloads   *)
(* of old revisions (service/retention.go), for one environment.           *)
(*                                                                         *)
(* Every operation is one serializable transaction and one action; only    *)
(* the sweep is several, because it reads the clock before each of its     *)
(* chunks.  Tokens and cursors are keyed hashes and stand for what they    *)
(* hash.  One administrator sets every pin and is its recorded authority.  *)
(***************************************************************************)
EXTENDS Naturals, Sequences, FiniteSets

CONSTANTS Workload, Key, Value,
          Param,        \* parameter assignments a fetch may supply
          Mode,         \* delivery projections: "full", "config-only"
          MaxLife,      \* MaxPinLifetime
          MaxPins,      \* pin changes of a workload
          Sizes,        \* the instances considered, as below
          None

Content == [Key -> [val : Value, secret : BOOLEAN]]
RetentionPolicy == [unlimited : BOOLEAN, age : Nat \ {0}, count : Nat \ {0}]
Pin == [rev : Nat, expires : Nat]

\* An instance: what may be published, the retention policies an owner may write,
\* RetentionBatchSize and PinQuotaPerProject, and bounds on revisions, the clock,
\* administrative changes, fetches and the revisions the self configuration holds.
ASSUME DeliveryAssumption ==
    /\ Mode \subseteq {"full", "config-only"}
    /\ {MaxLife, MaxPins} \subseteq Nat
    /\ \A s \in Sizes :
        /\ s.contents \subseteq Content
        /\ s.org \cup s.project \subseteq RetentionPolicy
        /\ {s.quota, s.clock, s.admin, s.fetches, s.held} \subseteq Nat
        /\ {s.batch, s.revisions} \subseteq Nat \ {0}
    /\ None \notin Param \cup Value \cup Nat \cup Pin

VARIABLES size,           \* the instance
          clock,
          org, override,  \* retention policy of the organization, of the project
          snaps,          \* the environment's revisions
          held,           \* revisions the self configuration holds
          pins, pinGen,   \* each workload's pin, and its pin generation
          caps, authRev,  \* each workload's capabilities and authority revision
          optIn,          \* the project's machine-reveal opt-in and generation
          authority,      \* capabilities of the administrator
          tokenKey,       \* version of the key of the change tokens
          admin,          \* administrative changes so far
          sweepNow,       \* the instant the running sweep's chunk works with
          lastSuccess,    \* last_prune_success
          handed          \* deliveries made, with the cursor each handed out

settings == <<caps, authRev, optIn, authority, tokenKey, admin>>
policies == <<org, override, held>>
pinning == <<pins, pinGen>>
sweeping == <<sweepNow, lastSuccess>>
vars == <<size, clock, policies, snaps, pinning, settings, sweeping, handed>>

Cap == {"read", "reveal", "reveal-history"}
Snapshot == [content : Content, at : Nat, payload : BOOLEAN]
Latest == Len(snaps)

\* TypeOK: the shape of policies, revisions, pins and settings.
TypeOK ==
    /\ size \in Sizes /\ clock \in 0..size.clock
    /\ org \in RetentionPolicy /\ override \in size.project \cup {None}
    /\ held \subseteq 1..Latest
    /\ snaps \in Seq(Snapshot) /\ Latest \in 1..size.revisions
    /\ pins \in [Workload -> Pin \cup {None}]
    /\ \A w \in Workload : pins[w] # None => pins[w].rev \in 1..Latest
    /\ pinGen \in [Workload -> Nat]
    /\ caps \in [Workload -> SUBSET Cap] /\ authRev \in [Workload -> Nat]
    /\ optIn \in [enabled : BOOLEAN, generation : Nat]
    /\ authority \subseteq {"pin", "reveal-history"}
    /\ tokenKey \in Nat /\ admin \in 0..size.admin
    /\ sweepNow \in (0..size.clock) \cup {None} /\ lastSuccess \in 0..size.clock
    /\ Cardinality(handed) <= size.fetches

Init ==
    /\ size \in Sizes /\ clock = 0
    /\ org \in size.org /\ override = None /\ held = {}
    /\ \E c \in size.contents : snaps = <<[content |-> c, at |-> 0, payload |-> TRUE]>>
    /\ pins = [w \in Workload |-> None] /\ pinGen = [w \in Workload |-> 0]
    /\ caps = [w \in Workload |-> {"read"}] /\ authRev = [w \in Workload |-> 0]
    /\ optIn = [enabled |-> FALSE, generation |-> 0]
    /\ authority = {"pin", "reveal-history"}
    /\ tokenKey = 1 /\ admin = 0
    /\ sweepNow = None /\ lastSuccess = 0
    /\ handed = {}

-----------------------------------------------------------------------------
(* Retention *)

Policy == IF override # None THEN override ELSE org

\* The live pins of a revision, as seen at an instant.
Pinned(r, now) == \E w \in Workload : pins[w] # None /\ pins[w].rev = r
                                        /\ pins[w].expires > now

Rank(r) == Latest - r + 1

\* ListEligibleSnapshotPayloads
Eligible(now) ==
    {r \in 1..Latest : /\ ~Policy.unlimited /\ snaps[r].payload /\ r \notin held
                       /\ snaps[r].at + Policy.age < now
                       /\ Rank(r) > Policy.count
                       /\ ~Pinned(r, now)}

\* validateProjectRetention
Within(project, cap) ==
    /\ ~project.unlimited
    /\ cap.unlimited \/ (project.age <= cap.age /\ project.count <= cap.count)

\* Retention.SetOrg: unlimited keeps the dormant bounds; a bounded policy must
\* leave room for the project's override.
SetOrg(p) ==
    /\ ~p.unlimited /\ override # None => Within(override, p)
    /\ org' = IF p.unlimited THEN [org EXCEPT !.unlimited = TRUE] ELSE p
    /\ UNCHANGED <<size, clock, override, held, snaps, pinning, settings, sweeping, handed>>

\* Retention.SetProject: None resumes inheritance.
SetProject(p) ==
    /\ p # None => Within(p, org)
    /\ override' = p
    /\ UNCHANGED <<size, clock, org, held, snaps, pinning, settings, sweeping, handed>>

\* Mutant: the sweep rounds its clock up.
CandidatesRoundedUp(now) ==
    {r \in Eligible(now + 1) : Cardinality({q \in Eligible(now + 1) : q < r}) < size.batch}

\* selfConfigRepo.retain and release: the self configuration holds the revisions
\* it runs, ran before or is about to run.
Hold(r) ==
    /\ Cardinality(held) < size.held
    /\ snaps[r].payload
    /\ held' = held \cup {r}
    /\ UNCHANGED <<size, clock, org, override, snaps, pinning, settings, sweeping, handed>>

Unhold(r) ==
    /\ held' = held \ {r}
    /\ UNCHANGED <<size, clock, org, override, snaps, pinning, settings, sweeping, handed>>

\* The first batch of candidates in revision order.
Candidates(now) ==
    {r \in Eligible(now) : Cardinality({q \in Eligible(now) : q < r}) < size.batch}

\* Sweep begins, and reads the clock for its first chunk.
BeginSweep ==
    /\ sweepNow = None
    /\ sweepNow' = clock
    /\ UNCHANGED <<size, clock, policies, snaps, pinning, settings, lastSuccess, handed>>

\* Mutant: a full batch ends the sweep as well.
LastChunkFull(n) == n <= size.batch

LastChunk(n) == n < size.batch

\* One chunk: its candidates are marked and their entries deleted.  A batch that
\* was not full ends the sweep and records its success; another chunk reads the
\* clock again.
SweepChunk ==
    /\ sweepNow # None
    /\ LET rows == Candidates(sweepNow)
           last == LastChunk(Cardinality(rows))
       IN /\ snaps' = [r \in 1..Latest |->
                IF r \in rows THEN [snaps[r] EXCEPT !.payload = FALSE] ELSE snaps[r]]
          /\ sweepNow' = IF last THEN None ELSE clock
          /\ lastSuccess' = IF last THEN clock ELSE lastSuccess
    /\ UNCHANGED <<size, clock, policies, pinning, settings, handed>>

\* A chunk fails or the run's deadline passes: what was committed stays.
SweepFails ==
    /\ sweepNow # None
    /\ sweepNow' = None
    /\ UNCHANGED <<size, clock, policies, snaps, pinning, settings, lastSuccess, handed>>

-----------------------------------------------------------------------------
(* Publishing and pins *)

Publish(c) ==
    /\ Latest < size.revisions
    /\ snaps' = Append(snaps, [content |-> c, at |-> clock, payload |-> TRUE])
    /\ UNCHANGED <<size, clock, policies, pinning, settings, sweeping, handed>>

\* Pins.Set creates, reassigns or renews.  The expiry was checked against a clock
\* read before the transaction, and may just have passed.
SetPin(w, r, expires) ==
    /\ pinGen[w] < MaxPins
    /\ "pin" \in authority
    /\ r # Latest => "reveal-history" \in authority
    /\ snaps[r].payload
    /\ pins[w] = None => Cardinality({v \in Workload : pins[v] # None}) < size.quota
    /\ pins' = [pins EXCEPT ![w] = [rev |-> r, expires |-> expires]]
    /\ pinGen' = [pinGen EXCEPT ![w] = @ + 1]
    /\ UNCHANGED <<size, clock, policies, snaps, settings, sweeping, handed>>

\* Mutant: the pin being released is counted among those that remain.
ConsequenceOfAll(w, now) ==
    LET r == pins[w].rev
    IN CASE ~snaps[r].payload -> "already_collected"
         [] Policy.unlimited \/ snaps[r].at + Policy.age >= now -> "retained"
         [] Cardinality({q \in 1..Latest : q >= r}) <= Policy.count -> "retained"
         [] Pinned(r, now) -> "retained"
         [] OTHER -> "collection_eligible"

\* pinRetentionState.consequence: what Release answers.
Consequence(w, now) ==
    LET r == pins[w].rev
    IN CASE ~snaps[r].payload -> "already_collected"
         [] Policy.unlimited \/ snaps[r].at + Policy.age >= now -> "retained"
         [] Cardinality({q \in 1..Latest : q >= r}) <= Policy.count -> "retained"
         [] \E v \in Workload \ {w} : /\ pins[v] # None /\ pins[v].rev = r
                                      /\ pins[v].expires > now -> "retained"
         [] OTHER -> "collection_eligible"

\* Pins.Release
Release(w) ==
    /\ pins[w] # None
    /\ pins' = [pins EXCEPT ![w] = None]
    /\ pinGen' = [pinGen EXCEPT ![w] = @ + 1]
    /\ UNCHANGED <<size, clock, policies, snaps, settings, sweeping, handed>>

-----------------------------------------------------------------------------
(* Settings that decide what a fetch may see *)

Administer == admin < size.admin /\ admin' = admin + 1

\* lockAndClassify and checkPrincipalClass, for a workload.
MayHold(w, c) ==
    CASE c = "read" -> TRUE
      [] c = "reveal" -> optIn.enabled
      [] c = "reveal-history" -> /\ optIn.enabled /\ pins[w] # None
                                 /\ clock < pins[w].expires
                                 /\ pins[w].rev # Latest

\* Grants.Create and Grants.Revoke: the authority revision advances.
ChangeGrant(w, c) ==
    /\ Administer
    /\ c \notin caps[w] => MayHold(w, c)
    /\ caps' = [caps EXCEPT ![w] = IF c \in @ THEN @ \ {c} ELSE @ \cup {c}]
    /\ authRev' = [authRev EXCEPT ![w] = @ + 1]
    /\ UNCHANGED <<size, clock, policies, snaps, pinning, optIn, authority, tokenKey,
                   sweeping, handed>>

\* ProjectSettings.SetMachineReveal
SetMachineReveal ==
    /\ Administer
    /\ optIn' = [enabled |-> ~optIn.enabled, generation |-> optIn.generation + 1]
    /\ UNCHANGED <<size, clock, policies, snaps, pinning, caps, authRev, authority,
                   tokenKey, sweeping, handed>>

\* The administrator gains or loses a capability.
ChangeAuthority(c) ==
    /\ Administer
    /\ authority' = IF c \in authority THEN authority \ {c} ELSE authority \cup {c}
    /\ UNCHANGED <<size, clock, policies, snaps, pinning, caps, authRev, optIn, tokenKey,
                   sweeping, handed>>

\* Revisions.RotateTokenKey
RotateTokenKey ==
    /\ Administer
    /\ tokenKey' = tokenKey + 1
    /\ UNCHANGED <<size, clock, policies, snaps, pinning, caps, authRev, optIn, authority,
                   sweeping, handed>>

-----------------------------------------------------------------------------
(* The fetch *)

\* The pinned revision, expired pin or not, or the latest.
Selected(w) == IF pins[w] # None THEN pins[w].rev ELSE Latest

Historical(w) == Selected(w) # Latest

\* The conditions under which the fetch answers.
MayFetch(w) ==
    /\ "read" \in caps[w]
    /\ pins[w] # None =>
        /\ "pin" \in authority
        /\ Historical(w) => "reveal-history" \in authority
    /\ snaps[Selected(w)].payload

\* withoutReveal
Effective(w) ==
    IF optIn.enabled THEN caps[w] ELSE caps[w] \ {"reveal", "reveal-history"}

RevealsSecret(w) ==
    (IF Historical(w) THEN "reveal-history" ELSE "reveal") \in Effective(w)

\* deliveryRows: config values are rendered with the supplied parameters, and
\* config-only leaves secrets out.
Manifest(w, mode, param) ==
    LET content == snaps[Selected(w)].content
    IN {[key |-> k, secret |-> content[k].secret, val |-> content[k].val,
         param |-> IF content[k].secret THEN None ELSE param] :
            k \in {j \in Key : mode = "full" \/ ~content[j].secret}}

Rows(w, mode, param) ==
    {IF row.secret /\ ~RevealsSecret(w) THEN [row EXCEPT !.val = None] ELSE row :
        row \in Manifest(w, mode, param)}

\* projectionOf
Projection(w) == [caps |-> Effective(w), generation |-> optIn.generation]

\* Mutant: a pin that has become historical does not move the cursor.
CursorWithoutHistory(w, mode, param) ==
    [token |-> [key |-> tokenKey, rows |-> Manifest(w, mode, param), param |-> param],
     projection |-> Projection(w), authority |-> authRev[w], pin |-> pinGen[w],
     mode |-> mode, historical |-> 0]

\* EncodeCursor over the change token of the manifest.
Cursor(w, mode, param) ==
    [token |-> [key |-> tokenKey, rows |-> Manifest(w, mode, param), param |-> param],
     projection |-> Projection(w), authority |-> authRev[w], pin |-> pinGen[w],
     mode |-> mode, historical |-> IF Historical(w) THEN Selected(w) ELSE 0]

\* Delivery.FetchAs: what is delivered, and the cursor that says so.
Fetch(w, mode, param) ==
    /\ Cardinality(handed) < size.fetches
    /\ MayFetch(w)
    /\ handed' = handed \cup
         {[cursor |-> Cursor(w, mode, param), rows |-> Rows(w, mode, param)]}
    /\ UNCHANGED <<size, clock, policies, snaps, pinning, settings, sweeping>>

Tick ==
    /\ clock < size.clock
    /\ clock' = clock + 1
    /\ UNCHANGED <<size, policies, snaps, pinning, settings, sweeping, handed>>

-----------------------------------------------------------------------------

Next ==
    \/ \E p \in size.org : SetOrg(p)
    \/ \E p \in size.project \cup {None} : SetProject(p)
    \/ \E r \in 1..Latest : Hold(r)
    \/ \E r \in held : Unhold(r)
    \/ BeginSweep \/ SweepChunk \/ SweepFails
    \/ \E c \in size.contents : Publish(c)
    \/ \E w \in Workload, r \in 1..Latest, life \in 0..MaxLife :
          SetPin(w, r, clock + life)
    \/ \E w \in Workload : Release(w) \/ \E c \in Cap : ChangeGrant(w, c)
    \/ SetMachineReveal \/ RotateTokenKey
    \/ \E c \in {"pin", "reveal-history"} : ChangeAuthority(c)
    \/ \E w \in Workload, mode \in Mode, param \in Param : Fetch(w, mode, param)
    \/ Tick

Spec == Init /\ [][Next]_vars

-----------------------------------------------------------------------------
(* Properties *)

\* A cursor that still matches means that nothing the workload would be delivered
\* has changed: whoever presents it, whatever happened to content, pins, grants,
\* the opt-in, the projection or the token key in between.
CurrentIsCurrent ==
    \A h \in handed, w \in Workload, mode \in Mode, param \in Param :
        MayFetch(w) /\ Cursor(w, mode, param) = h.cursor
            => Rows(w, mode, param) = h.rows

\* No payload is collected while it is the environment's current revision, a live
\* pin refers to it or the self configuration holds it, although the sweep works
\* with an earlier clock.
HeldPayloads ==
    \A r \in 1..Latest :
        r = Latest \/ r \in held \/ Pinned(r, clock) => snaps[r].payload

\* A release that calls a payload retained, or already collected, is right: no sweep
\* at that instant would take it.  One that calls it eligible is right unless the self
\* configuration holds it.
ReleaseTellsTruth ==
    [][\A w \in Workload : pins[w] # None /\ pins'[w] = None =>
        pins[w].rev \in held
            \/ (Consequence(w, clock) = "collection_eligible")
                    = (pins[w].rev \in Eligible(clock)')]_vars

\* A sweep that records success leaves nothing behind that was eligible at the
\* instant it worked with.
SuccessMeansSwept ==
    [][sweepNow # None /\ lastSuccess' # lastSuccess
        => {r \in Eligible(sweepNow) : snaps'[r].payload} = {}]_vars
=============================================================================
