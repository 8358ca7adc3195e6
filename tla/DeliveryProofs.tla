--------------------------- MODULE DeliveryProofs ---------------------------
(***************************************************************************)
(* Proofs about Delivery, for every set of workloads, keys, values and     *)
(* parameters and every instance.                                          *)
(***************************************************************************)
EXTENDS Delivery, FiniteSetTheorems, SequenceTheorems, WellFoundedInduction, TLAPS

\* A sweep works with an instant that has been.
SweepBehind == sweepNow # None => sweepNow <= clock

\* What a cursor stands for: the rows follow from the manifest it hashes, the
\* projection and whether the revision was historical.
RowsOf(c) ==
    {IF row.secret /\ (IF c.historical # 0 THEN "reveal-history" ELSE "reveal")
                          \notin c.projection.caps
     THEN [row EXCEPT !.val = None] ELSE row : row \in c.token.rows}

CursorsTell == IsFiniteSet(handed) /\ \A h \in handed : h.rows = RowsOf(h.cursor)

DeliveryInv == TypeOK /\ SweepBehind /\ CursorsTell /\ HeldPayloads

-----------------------------------------------------------------------------
(* Revisions, policies and cursors *)

\* What the constants and TypeOK say about the numbers.
LEMMA SizeFacts ==
    ASSUME TypeOK
    PROVE  /\ size.contents \subseteq Content
           /\ size.org \subseteq RetentionPolicy /\ size.project \subseteq RetentionPolicy
           /\ size.revisions \in Nat /\ size.clock \in Nat /\ size.admin \in Nat
           /\ size.fetches \in Nat /\ size.batch \in Nat \ {0}
           /\ clock \in Nat /\ Latest \in Nat \ {0}
           /\ \A r \in 1..Latest : snaps[r] \in Snapshot
           /\ \A w \in Workload : pins[w] # None => pins[w] \in Pin /\ pins[w].rev \in 1..Latest
  <1>1. size \in Sizes /\ clock \in 0..size.clock
    BY DEF TypeOK
  <1>2. /\ size.contents \subseteq Content
        /\ size.org \subseteq RetentionPolicy /\ size.project \subseteq RetentionPolicy
        /\ size.revisions \in Nat /\ size.clock \in Nat /\ size.admin \in Nat
        /\ size.fetches \in Nat /\ size.batch \in Nat \ {0}
    BY <1>1, DeliveryAssumption
  <1>3. clock \in Nat
    BY <1>1, <1>2
  <1>4. /\ Latest \in Nat \ {0}
        /\ \A r \in 1..Latest : snaps[r] \in Snapshot
    BY DEF TypeOK, Latest
  <1>5. \A w \in Workload : pins[w] # None => pins[w] \in Pin /\ pins[w].rev \in 1..Latest
    BY DEF TypeOK
  <1>. QED
    BY <1>2, <1>3, <1>4, <1>5

LEMMA PolicyFacts ==
    ASSUME TypeOK
    PROVE  Policy \in RetentionPolicy /\ Policy.age \in Nat \ {0} /\ Policy.count \in Nat \ {0}
  <1>1. Policy \in RetentionPolicy
    BY SizeFacts DEF Policy, TypeOK
  <1>. QED
    BY <1>1 DEF RetentionPolicy

\* The rows of a fetch are the rows its cursor stands for.
LEMMA RowsFollowCursor ==
    ASSUME TypeOK, NEW w \in Workload, NEW mode, NEW param
    PROVE  Rows(w, mode, param) = RowsOf(Cursor(w, mode, param))
  <1>. DEFINE c == Cursor(w, mode, param)
  <1>1. /\ c.token.rows = Manifest(w, mode, param) /\ c.projection.caps = Effective(w)
        /\ c.historical = IF Historical(w) THEN Selected(w) ELSE 0
    BY DEF Cursor, Projection
  <1>2. Selected(w) # 0
    BY SizeFacts DEF Selected
  <1>3. c.historical # 0 <=> Historical(w)
    BY <1>1, <1>2
  <1>4. RevealsSecret(w) <=>
          (IF c.historical # 0 THEN "reveal-history" ELSE "reveal") \in c.projection.caps
    BY <1>1, <1>3 DEF RevealsSecret
  <1>. HIDE DEF c
  <1>. QED
    BY <1>1, <1>4 DEF Rows, RowsOf, c

\* The latest revision, a held one and one with a live pin are not eligible, also for a
\* sweep that works with an earlier instant.
LEMMA HeldNotEligible ==
    ASSUME TypeOK, NEW now \in Nat, now <= clock, NEW r \in Eligible(now)
    PROVE  r \in 1..Latest /\ r # Latest /\ r \notin held /\ ~Pinned(r, clock)
  <1>1. /\ r \in 1..Latest /\ r \notin held /\ Rank(r) > Policy.count /\ ~Pinned(r, now)
    BY DEF Eligible
  <1>2. r # Latest
    BY <1>1, PolicyFacts, SizeFacts DEF Rank
  <1>3. ~Pinned(r, clock)
    <2>. SUFFICES ASSUME NEW w \in Workload, pins[w] # None, pins[w].rev = r, pins[w].expires > clock
                  PROVE  FALSE
      BY DEF Pinned
    <2>1. pins[w].expires \in Nat
      BY SizeFacts DEF Pin
    <2>2. pins[w].expires > now
      BY <2>1, SizeFacts
    <2>. QED
      BY <1>1, <2>2 DEF Pinned
  <1>. QED
    BY <1>1, <1>2, <1>3

-----------------------------------------------------------------------------
(* The steps *)

\* What the four parts of the invariant need, for steps that leave the revisions, the
\* pins, the holds and what was handed out alone.
LEMMA Elsewhere ==
    ASSUME DeliveryInv, TypeOK', UNCHANGED <<clock, held, snaps, pins, handed>>,
           sweepNow' = None \/ sweepNow' = sweepNow \/ sweepNow' = clock
    PROVE  DeliveryInv'
  <1>1. clock \in Nat
    BY SizeFacts DEF DeliveryInv
  <1>2. SweepBehind'
    BY <1>1 DEF DeliveryInv, SweepBehind
  <1>3. CursorsTell'
    BY DEF DeliveryInv, CursorsTell
  <1>4. HeldPayloads'
    BY DEF DeliveryInv, HeldPayloads, Latest, Pinned
  <1>. QED
    BY <1>2, <1>3, <1>4 DEF DeliveryInv

LEMMA PolicyStep ==
    ASSUME DeliveryInv,
           (\E p \in size.org : SetOrg(p)) \/ (\E p \in size.project \cup {None} : SetProject(p))
    PROVE  DeliveryInv'
  <1>0. TypeOK
    BY DEF DeliveryInv
  <1>1. /\ UNCHANGED <<size, clock, held, snaps, pins, pinGen, caps, authRev, optIn,
                      authority, tokenKey, admin, sweepNow, lastSuccess, handed>>
        /\ org' \in RetentionPolicy
        /\ override' \in size.project \cup {None}
    <2>1. ASSUME NEW p \in size.org, SetOrg(p)
          PROVE  org' \in RetentionPolicy
      BY <1>0, <2>1, SizeFacts DEF SetOrg, TypeOK, RetentionPolicy
    <2>2. ASSUME NEW p \in size.org, SetOrg(p) PROVE override' = override
      BY <2>2 DEF SetOrg
    <2>3. ASSUME NEW p \in size.project \cup {None}, SetProject(p)
          PROVE  org' = org /\ override' = p
      BY <2>3 DEF SetProject
    <2>. QED
      BY <1>0, <2>1, <2>2, <2>3 DEF TypeOK, SetOrg, SetProject, pinning, settings, sweeping
  <1>2. TypeOK'
    BY <1>0, <1>1 DEF TypeOK, Latest
  <1>. QED
    BY <1>1, <1>2, Elsewhere

LEMMA SettingsStep ==
    ASSUME DeliveryInv,
           \/ \E w \in Workload, c \in Cap : ChangeGrant(w, c)
           \/ SetMachineReveal \/ RotateTokenKey
           \/ \E c \in {"pin", "reveal-history"} : ChangeAuthority(c)
    PROVE  DeliveryInv'
  <1>0. TypeOK
    BY DEF DeliveryInv
  <1>1. UNCHANGED <<size, clock, org, override, held, snaps, pins, pinGen, sweepNow,
                    lastSuccess, handed>>
    BY DEF ChangeGrant, SetMachineReveal, RotateTokenKey, ChangeAuthority, policies, pinning,
           sweeping
  <1>2. admin' \in 0..size.admin
    <2>1. Administer
      BY DEF ChangeGrant, SetMachineReveal, RotateTokenKey, ChangeAuthority
    <2>2. admin \in 0..size.admin
      BY <1>0 DEF TypeOK
    <2>3. size.admin \in Nat
      BY <1>0, SizeFacts
    <2>4. admin < size.admin /\ admin' = admin + 1
      BY <2>1 DEF Administer
    <2>. QED
      BY <2>2, <2>3, <2>4
  <1>3. /\ caps' \in [Workload -> SUBSET Cap] /\ authRev' \in [Workload -> Nat]
        /\ optIn' \in [enabled : BOOLEAN, generation : Nat]
        /\ authority' \subseteq {"pin", "reveal-history"} /\ tokenKey' \in Nat
    <2>1. ASSUME NEW w \in Workload, NEW c \in Cap, ChangeGrant(w, c)
          PROVE  caps' \in [Workload -> SUBSET Cap] /\ authRev' \in [Workload -> Nat]
      <3>1. caps[w] \subseteq Cap /\ authRev[w] + 1 \in Nat
        BY <1>0 DEF TypeOK
      <3>2. (IF c \in caps[w] THEN caps[w] \ {c} ELSE caps[w] \cup {c}) \subseteq Cap
        BY <3>1
      <3>3. /\ caps' = [caps EXCEPT ![w] = IF c \in caps[w] THEN caps[w] \ {c}
                                           ELSE caps[w] \cup {c}]
            /\ authRev' = [authRev EXCEPT ![w] = authRev[w] + 1]
        BY <2>1 DEF ChangeGrant
      <3>. QED
        BY <1>0, <3>1, <3>2, <3>3 DEF TypeOK
    <2>2. ASSUME NEW w \in Workload, NEW c \in Cap, ChangeGrant(w, c)
          PROVE  UNCHANGED <<optIn, authority, tokenKey>>
      BY <2>2 DEF ChangeGrant
    <2>3. CASE SetMachineReveal
      BY <1>0, <2>3 DEF SetMachineReveal, TypeOK
    <2>4. CASE RotateTokenKey
      BY <1>0, <2>4 DEF RotateTokenKey, TypeOK
    <2>5. ASSUME NEW c \in {"pin", "reveal-history"}, ChangeAuthority(c)
          PROVE  authority' \subseteq {"pin", "reveal-history"}
      BY <1>0, <2>5 DEF ChangeAuthority, TypeOK
    <2>6. ASSUME NEW c \in {"pin", "reveal-history"}, ChangeAuthority(c)
          PROVE  UNCHANGED <<caps, authRev, optIn, tokenKey>>
      BY <2>6 DEF ChangeAuthority
    <2>. QED
      BY <1>0, <2>1, <2>2, <2>3, <2>4, <2>5, <2>6 DEF TypeOK
  <1>4. TypeOK'
    BY <1>0, <1>1, <1>2, <1>3 DEF TypeOK, Latest
  <1>. QED
    BY <1>1, <1>4, Elsewhere

LEMMA SweepStartStop ==
    ASSUME DeliveryInv, BeginSweep \/ SweepFails
    PROVE  DeliveryInv'
  <1>0. TypeOK
    BY DEF DeliveryInv
  <1>1. /\ UNCHANGED <<size, clock, org, override, held, snaps, pins, pinGen, caps, authRev,
                      optIn, authority, tokenKey, admin, lastSuccess, handed>>
        /\ sweepNow' \in {clock, None}
    BY DEF BeginSweep, SweepFails, policies, pinning, settings
  <1>2. TypeOK'
    BY <1>0, <1>1 DEF TypeOK, Latest
  <1>. QED
    BY <1>1, <1>2, Elsewhere

\* Time passes: a pin that is live then was live before.
LEMMA TickStep ==
    ASSUME DeliveryInv, Tick
    PROVE  DeliveryInv'
  <1>0. TypeOK
    BY DEF DeliveryInv
  <1>1. /\ UNCHANGED <<size, org, override, held, snaps, pins, pinGen, caps, authRev,
                      optIn, authority, tokenKey, admin, sweepNow, lastSuccess, handed>>
        /\ clock < size.clock /\ clock' = clock + 1
    BY DEF Tick, policies, pinning, settings, sweeping
  <1>2. TypeOK'
    <2>1. size.clock \in Nat /\ clock \in 0..size.clock
      BY <1>0, SizeFacts DEF TypeOK
    <2>2. clock' \in 0..size.clock
      BY <1>1, <2>1
    <2>3. /\ sweepNow' = sweepNow /\ lastSuccess' = lastSuccess /\ size' = size
          /\ snaps' = snaps /\ Latest' = Latest
      BY <1>1 DEF Latest
    <2>. QED
      BY <1>0, <1>1, <2>2, <2>3 DEF TypeOK
  <1>3. SweepBehind'
    BY <1>0, <1>1, SizeFacts DEF DeliveryInv, SweepBehind, TypeOK
  <1>4. CursorsTell'
    BY <1>1 DEF DeliveryInv, CursorsTell
  <1>5. ASSUME NEW r, Pinned(r, clock)' PROVE Pinned(r, clock)
    <2>1. PICK w \in Workload : pins[w] # None /\ pins[w].rev = r /\ pins[w].expires > clock'
      BY <1>1, <1>5 DEF Pinned
    <2>2. pins[w].expires \in Nat
      BY <1>0, <2>1, SizeFacts DEF Pin
    <2>3. pins[w].expires > clock
      BY <1>0, <1>1, <2>1, <2>2, SizeFacts
    <2>. QED
      BY <2>1, <2>3 DEF Pinned
  <1>6. HeldPayloads'
    BY <1>1, <1>5 DEF DeliveryInv, HeldPayloads, Latest
  <1>. QED
    BY <1>2, <1>3, <1>4, <1>6 DEF DeliveryInv

\* One more revision, with its payload.
LEMMA PublishStep ==
    ASSUME DeliveryInv, NEW c \in size.contents, Publish(c)
    PROVE  DeliveryInv'
  <1>0. TypeOK
    BY DEF DeliveryInv
  <1>. DEFINE new == [content |-> c, at |-> clock, payload |-> TRUE]
  <1>1. /\ UNCHANGED <<size, clock, org, override, held, pins, pinGen, caps, authRev,
                      optIn, authority, tokenKey, admin, sweepNow, lastSuccess, handed>>
        /\ Latest < size.revisions /\ snaps' = Append(snaps, new)
    BY DEF Publish, policies, pinning, settings, sweeping
  <1>2. new \in Snapshot /\ new.payload
    BY <1>0, SizeFacts DEF Snapshot
  <1>. HIDE DEF new
  <1>3. /\ snaps' \in Seq(Snapshot) /\ Latest' = Latest + 1 /\ snaps'[Latest + 1] = new
        /\ \A r \in 1..Latest : snaps'[r] = snaps[r]
    BY <1>0, <1>1, <1>2 DEF TypeOK, Latest
  <1>4. TypeOK'
    <2>1. Latest' \in 1..size.revisions /\ 1..Latest \subseteq 1..Latest'
      BY <1>0, <1>1, <1>3, SizeFacts
    <2>. QED
      BY <1>0, <1>1, <1>3, <2>1 DEF TypeOK
  <1>5. SweepBehind' /\ CursorsTell'
    BY <1>1 DEF DeliveryInv, SweepBehind, CursorsTell
  <1>6. HeldPayloads'
    <2>1. \A r \in 1..Latest : r \in held \/ Pinned(r, clock) => snaps[r].payload
      BY DEF DeliveryInv, HeldPayloads
    <2>2. \A r : Pinned(r, clock)' <=> Pinned(r, clock)
      BY <1>1 DEF Pinned
    <2>3. \A r \in 1..Latest' : r = Latest + 1 \/ r \in 1..Latest
      BY <1>0, <1>3, SizeFacts
    <2>4. \A r \in 1..Latest : snaps'[r].payload = snaps[r].payload
      BY <1>3
    <2>5. snaps'[Latest'].payload
      BY <1>2, <1>3
    <2>. QED
      BY <1>0, <1>1, <1>3, <2>1, <2>2, <2>3, <2>4, <2>5, SizeFacts DEF HeldPayloads
  <1>. QED
    BY <1>4, <1>5, <1>6 DEF DeliveryInv

LEMMA SetPinStep ==
    ASSUME DeliveryInv, NEW w \in Workload, NEW r \in 1..Latest, NEW life \in 0..MaxLife,
           SetPin(w, r, clock + life)
    PROVE  DeliveryInv'
  <1>0. TypeOK
    BY DEF DeliveryInv
  <1>. DEFINE p == [rev |-> r, expires |-> clock + life]
  <1>1. /\ UNCHANGED <<size, clock, org, override, held, snaps, caps, authRev, optIn,
                      authority, tokenKey, admin, sweepNow, lastSuccess, handed>>
        /\ snaps[r].payload
        /\ pins' = [pins EXCEPT ![w] = p] /\ pinGen' = [pinGen EXCEPT ![w] = pinGen[w] + 1]
    BY DEF SetPin, policies, settings, sweeping
  <1>2. p \in Pin /\ p.rev = r
    BY <1>0, SizeFacts, DeliveryAssumption DEF Pin
  <1>. HIDE DEF p
  <1>3. /\ pins' \in [Workload -> Pin \cup {None}] /\ pins'[w] = p
        /\ \A v \in Workload : v # w => pins'[v] = pins[v]
        /\ pinGen' \in [Workload -> Nat]
    BY <1>0, <1>1, <1>2 DEF TypeOK
  <1>4. TypeOK'
    BY <1>0, <1>1, <1>2, <1>3 DEF TypeOK, Latest
  <1>5. SweepBehind' /\ CursorsTell'
    BY <1>1 DEF DeliveryInv, SweepBehind, CursorsTell
  <1>6. \A q : Pinned(q, clock)' => Pinned(q, clock) \/ q = r
    BY <1>1, <1>2, <1>3 DEF Pinned
  <1>7. HeldPayloads'
    BY <1>1, <1>6 DEF DeliveryInv, HeldPayloads, Latest
  <1>. QED
    BY <1>4, <1>5, <1>7 DEF DeliveryInv

LEMMA ReleaseStep ==
    ASSUME DeliveryInv, NEW w \in Workload, Release(w)
    PROVE  DeliveryInv'
  <1>0. TypeOK
    BY DEF DeliveryInv
  <1>1. /\ UNCHANGED <<size, clock, org, override, held, snaps, caps, authRev, optIn,
                      authority, tokenKey, admin, sweepNow, lastSuccess, handed>>
        /\ pins' = [pins EXCEPT ![w] = None] /\ pinGen' = [pinGen EXCEPT ![w] = pinGen[w] + 1]
    BY DEF Release, policies, settings, sweeping
  <1>2. /\ pins' \in [Workload -> Pin \cup {None}] /\ pins'[w] = None
        /\ \A v \in Workload : v # w => pins'[v] = pins[v]
        /\ pinGen' \in [Workload -> Nat]
    BY <1>0, <1>1 DEF TypeOK
  <1>3. TypeOK'
    BY <1>0, <1>1, <1>2 DEF TypeOK, Latest
  <1>4. SweepBehind' /\ CursorsTell'
    BY <1>1 DEF DeliveryInv, SweepBehind, CursorsTell
  <1>5. \A q : Pinned(q, clock)' => Pinned(q, clock)
    BY <1>1, <1>2 DEF Pinned
  <1>6. HeldPayloads'
    BY <1>1, <1>5 DEF DeliveryInv, HeldPayloads, Latest
  <1>. QED
    BY <1>3, <1>4, <1>6 DEF DeliveryInv

\* A revision is held only while its payload is there.
LEMMA HoldStep ==
    ASSUME DeliveryInv, (\E r \in 1..Latest : Hold(r)) \/ (\E r \in held : Unhold(r))
    PROVE  DeliveryInv'
  <1>0. TypeOK
    BY DEF DeliveryInv
  <1>1. /\ UNCHANGED <<size, clock, org, override, snaps, pins, pinGen, caps, authRev, optIn,
                      authority, tokenKey, admin, sweepNow, lastSuccess, handed>>
        /\ \A r \in held' : r \in held \/ (r \in 1..Latest /\ snaps[r].payload)
    BY DEF Hold, Unhold, pinning, settings, sweeping
  <1>2. TypeOK'
    BY <1>0, <1>1 DEF TypeOK, Latest
  <1>3. SweepBehind' /\ CursorsTell'
    BY <1>1 DEF DeliveryInv, SweepBehind, CursorsTell
  <1>4. HeldPayloads'
    BY <1>1 DEF DeliveryInv, HeldPayloads, Latest, Pinned
  <1>. QED
    BY <1>2, <1>3, <1>4 DEF DeliveryInv

\* A chunk takes candidates only, and they are not held.
LEMMA SweepChunkStep ==
    ASSUME DeliveryInv, SweepChunk
    PROVE  DeliveryInv'
  <1>0. TypeOK
    BY DEF DeliveryInv
  <1>1. PICK now \in Nat : now = sweepNow /\ now <= clock
    BY <1>0, SizeFacts DEF DeliveryInv, SweepBehind, SweepChunk, TypeOK
  <1>2. PICK C : C = Candidates(now)
    OBVIOUS
  <1>3. /\ UNCHANGED <<size, clock, org, override, held, pins, pinGen, caps, authRev, optIn,
                      authority, tokenKey, admin, handed>>
        /\ snaps' = [r \in 1..Latest |->
              IF r \in C THEN [snaps[r] EXCEPT !.payload = FALSE] ELSE snaps[r]]
        /\ sweepNow' \in {None, clock} /\ lastSuccess' \in {lastSuccess, clock}
    BY <1>1, <1>2 DEF SweepChunk, policies, pinning, settings
  <1>4. \A r \in 1..Latest : [snaps[r] EXCEPT !.payload = FALSE] \in Snapshot
    BY <1>0, SizeFacts DEF Snapshot
  <1>5. /\ snaps' \in Seq(Snapshot) /\ Latest' = Latest
        /\ \A r \in 1..Latest : r \notin C => snaps'[r] = snaps[r]
    <2>. DEFINE e(r) == IF r \in C THEN [snaps[r] EXCEPT !.payload = FALSE] ELSE snaps[r]
    <2>1. \A r \in 1..Latest : e(r) \in Snapshot
      BY <1>0, <1>4, SizeFacts
    <2>2. snaps' = [r \in 1..Latest |-> e(r)]
      BY <1>3
    <2>. HIDE DEF e
    <2>3. snaps' \in Seq(Snapshot)
      BY <1>0, <2>1, <2>2, SizeFacts, IsASeq
    <2>4. Len(snaps') = Latest
      BY <1>0, <2>2, <2>3, SizeFacts
    <2>. QED
      BY <2>2, <2>3, <2>4 DEF e, Latest
  <1>6. TypeOK'
    BY <1>0, <1>3, <1>5 DEF TypeOK
  <1>7. SweepBehind'
    BY <1>0, <1>3, SizeFacts DEF SweepBehind
  <1>8. CursorsTell'
    BY <1>3 DEF DeliveryInv, CursorsTell
  <1>9. \A r \in C : r # Latest /\ r \notin held /\ ~Pinned(r, clock)
    BY <1>0, <1>1, <1>2, HeldNotEligible DEF Candidates
  <1>10. \A r : Pinned(r, clock)' => Pinned(r, clock)
    BY <1>3 DEF Pinned
  <1>11. HeldPayloads'
    BY <1>3, <1>5, <1>9, <1>10 DEF DeliveryInv, HeldPayloads
  <1>. QED
    BY <1>6, <1>7, <1>8, <1>11 DEF DeliveryInv

LEMMA FetchStep ==
    ASSUME DeliveryInv, NEW w \in Workload, NEW mode, NEW param, Fetch(w, mode, param)
    PROVE  DeliveryInv'
  <1>0. TypeOK /\ CursorsTell
    BY DEF DeliveryInv
  <1>1. PICK h : h = [cursor |-> Cursor(w, mode, param), rows |-> Rows(w, mode, param)]
    OBVIOUS
  <1>2. /\ UNCHANGED <<size, clock, org, override, held, snaps, pins, pinGen, caps, authRev,
                      optIn, authority, tokenKey, admin, sweepNow, lastSuccess>>
        /\ Cardinality(handed) < size.fetches /\ handed' = handed \cup {h}
    BY <1>1 DEF Fetch, policies, pinning, settings, sweeping
  <1>3. h.rows = RowsOf(h.cursor)
    BY <1>0, <1>1, RowsFollowCursor
  <1>4. IsFiniteSet(handed') /\ Cardinality(handed') <= size.fetches
    <2>1. IsFiniteSet(handed) /\ Cardinality(handed) \in Nat
      BY <1>0, FS_CardinalityType DEF CursorsTell
    <2>2. /\ IsFiniteSet(handed \cup {h})
          /\ Cardinality(handed \cup {h}) \in {Cardinality(handed), Cardinality(handed) + 1}
      BY <2>1, FS_AddElement
    <2>. QED
      BY <1>0, <1>2, <2>1, <2>2, SizeFacts
  <1>5. TypeOK'
    BY <1>0, <1>2, <1>4 DEF TypeOK, Latest
  <1>6. CursorsTell'
    BY <1>0, <1>2, <1>3, <1>4 DEF CursorsTell
  <1>7. SweepBehind' /\ HeldPayloads'
    BY <1>2 DEF DeliveryInv, SweepBehind, HeldPayloads, Latest, Pinned
  <1>. QED
    BY <1>5, <1>6, <1>7 DEF DeliveryInv

LEMMA InitDelivery == ASSUME Init PROVE DeliveryInv
  <1>1. PICK c \in size.contents : snaps = <<[content |-> c, at |-> 0, payload |-> TRUE]>>
    BY DEF Init
  <1>. DEFINE s == [content |-> c, at |-> 0, payload |-> TRUE]
  <1>2. /\ size \in Sizes /\ size.contents \subseteq Content /\ size.org \subseteq RetentionPolicy
        /\ size.revisions \in Nat \ {0} /\ size.clock \in Nat /\ size.admin \in Nat
        /\ size.fetches \in Nat
    BY DeliveryAssumption DEF Init
  <1>3. s \in Snapshot /\ s.payload
    BY <1>2 DEF Snapshot
  <1>. HIDE DEF s
  <1>4. /\ snaps \in Seq(Snapshot) /\ Latest = 1 /\ snaps[1] = s
    BY <1>1, <1>3 DEF Latest, s
  <1>5. IsFiniteSet(handed) /\ Cardinality(handed) = 0
    BY FS_EmptySet DEF Init
  <1>6. TypeOK
    <2>1. /\ pins \in [Workload -> Pin \cup {None}] /\ \A w \in Workload : pins[w] = None
          /\ pinGen \in [Workload -> Nat]
          /\ caps \in [Workload -> SUBSET Cap] /\ authRev \in [Workload -> Nat]
      BY DEF Init, Cap
    <2>2. /\ optIn \in [enabled : BOOLEAN, generation : Nat]
          /\ authority \subseteq {"pin", "reveal-history"}
          /\ tokenKey \in Nat /\ admin \in 0..size.admin /\ lastSuccess \in 0..size.clock
      BY <1>2 DEF Init
    <2>3. /\ clock \in 0..size.clock /\ org \in RetentionPolicy /\ override = None
          /\ held = {} /\ sweepNow = None
      BY <1>2 DEF Init
    <2>. QED
      BY <1>2, <1>4, <1>5, <2>1, <2>2, <2>3 DEF TypeOK
  <1>7. SweepBehind /\ CursorsTell
    BY <1>5 DEF Init, SweepBehind, CursorsTell
  <1>8. HeldPayloads
    BY <1>3, <1>4 DEF HeldPayloads
  <1>. QED
    BY <1>6, <1>7, <1>8 DEF DeliveryInv

LEMMA NextDelivery == ASSUME DeliveryInv, [Next]_vars PROVE DeliveryInv'
  <1>1. CASE UNCHANGED vars
    <2>1. UNCHANGED <<size, clock, org, override, held, snaps, pins, pinGen, caps, authRev,
                      optIn, authority, tokenKey, admin, sweepNow, lastSuccess, handed>>
      BY <1>1 DEF vars, policies, pinning, settings, sweeping
    <2>2. TypeOK'
      BY <2>1 DEF DeliveryInv, TypeOK, Latest
    <2>. QED
      BY <2>1, <2>2, Elsewhere
  <1>. QED
    BY <1>1, PolicyStep, SettingsStep, SweepStartStop, TickStep, PublishStep, SetPinStep,
       ReleaseStep, HoldStep, SweepChunkStep, FetchStep DEF Next

\* The invariant holds of every instance.
THEOREM DeliveryInvariant == Spec => []DeliveryInv
  BY InitDelivery, NextDelivery, PTL DEF Spec

-----------------------------------------------------------------------------
(* Theorems *)

\* No payload that is current, pinned or held is collected, however the sweep's chunks,
\* its stale clock, pins, policy changes and publishing interleave.
THEOREM PayloadsStayHeld == Spec => []HeldPayloads
  <1>1. DeliveryInv => HeldPayloads
    BY DEF DeliveryInv
  <1>. QED
    BY <1>1, DeliveryInvariant, PTL

\* A conditional fetch that answers "current" is right: equal cursors mean equal rows,
\* across workloads and across every change of pins, grants, opt-in, mode and token key.
THEOREM CursorNeverLies == Spec => []CurrentIsCurrent
  <1>1. ASSUME DeliveryInv PROVE CurrentIsCurrent
    <2>. SUFFICES ASSUME NEW h \in handed, NEW w \in Workload, NEW mode \in Mode,
                         NEW param \in Param, Cursor(w, mode, param) = h.cursor
                  PROVE  Rows(w, mode, param) = h.rows
      BY DEF CurrentIsCurrent
    <2>1. Rows(w, mode, param) = RowsOf(h.cursor)
      BY <1>1, RowsFollowCursor DEF DeliveryInv
    <2>. QED
      BY <1>1, <2>1 DEF DeliveryInv, CursorsTell
  <1>. QED
    BY <1>1, DeliveryInvariant, PTL

\* A set of revisions has a first one.
LEMMA FirstOf ==
    ASSUME NEW T \in SUBSET Nat, T # {}
    PROVE  \E x \in T : \A y \in T : x <= y
  <1>. DEFINE R == OpToRel(<, Nat)
  <1>1. \A x, y \in Nat : x < y => <<x, y>> \in R
    BY DEF OpToRel
  <1>2. IsWellFoundedOn(R, Nat)
    BY NatLessThanWellFounded
  <1>. HIDE DEF R
  <1>3. PICK x \in T : \A y \in T : ~(<<y, x>> \in R)
    BY <1>2, WFMin
  <1>4. ASSUME NEW y \in T PROVE x <= y
    <2>1. x \in Nat /\ y \in Nat /\ ~(<<y, x>> \in R)
      BY <1>3
    <2>2. ~(y < x)
      BY <1>1, <2>1, Zenon
    <2>. QED
      BY <2>1, <2>2
  <1>. QED
    BY <1>4

\* A batch that is not full holds everything that is eligible.
LEMMA ShortBatchIsAll ==
    ASSUME TypeOK, NEW now, Cardinality(Candidates(now)) < size.batch
    PROVE  Candidates(now) = Eligible(now)
  <1>. DEFINE E == Eligible(now)
              C == Candidates(now)
              Before(r) == {q \in E : q < r}
  <1>1. E \subseteq 1..Latest /\ C \subseteq E /\ \A r \in E : r \notin C => ~(Cardinality(Before(r)) < size.batch)
    BY DEF Eligible, Candidates
  <1>2. IsFiniteSet(C) /\ C \subseteq Nat /\ E \subseteq Nat
    <2>1. IsFiniteSet(1..Latest) /\ 1..Latest \subseteq Nat
      BY SizeFacts, FS_Interval
    <2>. QED
      BY <1>1, <2>1, FS_Subset
  <1>3. Cardinality(C) < size.batch /\ size.batch \in Nat
    BY SizeFacts
  <1>. HIDE DEF E, C
  <1>4. ASSUME E \ C # {} PROVE FALSE
    <2>1. PICK r \in E \ C : \A q \in E \ C : r <= q
      BY <1>2, <1>4, FirstOf
    <2>2. Before(r) \subseteq C
      <3>1. ASSUME NEW q \in E, q < r, q \notin C PROVE FALSE
        <4>1. r <= q /\ q \in Nat /\ r \in Nat
          BY <1>2, <2>1, <3>1
        <4>. QED
          BY <3>1, <4>1
      <3>. QED
        BY <3>1
    <2>3. ~(Cardinality(Before(r)) < size.batch)
      BY <1>1, <2>1
    <2>. HIDE DEF Before
    <2>4. Cardinality(Before(r)) <= Cardinality(C) /\ Cardinality(Before(r)) \in Nat
          /\ Cardinality(C) \in Nat
      BY <1>2, <2>2, FS_Subset, FS_CardinalityType
    <2>. QED
      BY <1>3, <2>3, <2>4
  <1>. QED
    BY <1>1, <1>4 DEF E, C

\* A recorded success means that the sweep left nothing that was eligible at its instant:
\* no batch size and number of revisions makes the last, short batch miss one.
THEOREM SuccessIsComplete == Spec => SuccessMeansSwept
  <1>1. ASSUME DeliveryInv, [Next]_vars, sweepNow # None, lastSuccess' # lastSuccess
        PROVE  {r \in Eligible(sweepNow) : snaps'[r].payload} = {}
    <2>0. TypeOK
      BY <1>1 DEF DeliveryInv
    <2>1. SweepChunk
      BY <1>1 DEF Next, SetOrg, SetProject, Hold, Unhold, BeginSweep, SweepFails, Publish, SetPin,
        Release, ChangeGrant, SetMachineReveal, RotateTokenKey, ChangeAuthority, Fetch, Tick,
        vars, sweeping
    <2>2. PICK C : C = Candidates(sweepNow)
      OBVIOUS
    <2>3. Cardinality(C) < size.batch
      BY <1>1, <2>1, <2>2 DEF SweepChunk, LastChunk
    <2>4. C = Eligible(sweepNow)
      BY <2>0, <2>2, <2>3, ShortBatchIsAll
    <2>5. snaps' = [r \in 1..Latest |->
              IF r \in C THEN [snaps[r] EXCEPT !.payload = FALSE] ELSE snaps[r]]
      BY <2>1, <2>2 DEF SweepChunk
    <2>6. ASSUME NEW r \in C PROVE ~snaps'[r].payload
      <3>1. r \in 1..Latest
        BY <2>4, <2>6 DEF Eligible
      <3>2. snaps[r] \in Snapshot
        BY <2>0, <3>1, SizeFacts
      <3>3. snaps'[r] = [snaps[r] EXCEPT !.payload = FALSE]
        BY <2>5, <2>6, <3>1
      <3>. QED
        BY <3>2, <3>3 DEF Snapshot
    <2>. QED
      BY <2>4, <2>6
  <1>. QED
    BY <1>1, DeliveryInvariant, PTL DEF Spec, SuccessMeansSwept

\* The revisions at least as new as r are as many as its rank.
LEMMA RankCounts ==
    ASSUME TypeOK, NEW r \in 1..Latest
    PROVE  Cardinality({q \in 1..Latest : q >= r}) = Rank(r)
  <1>1. {q \in 1..Latest : q >= r} = r..Latest
    BY SizeFacts
  <1>2. Cardinality(r..Latest) = Latest - r + 1
    BY SizeFacts, FS_Interval
  <1>. QED
    BY <1>1, <1>2 DEF Rank

\* What Release answers agrees with what a sweep at that instant would do, although the
\* two are computed by different code.
THEOREM ReleaseIsTruthful == Spec => ReleaseTellsTruth
  <1>1. ASSUME DeliveryInv, [Next]_vars, NEW w \in Workload, pins[w] # None, pins'[w] = None,
               pins[w].rev \notin held
        PROVE  (Consequence(w, clock) = "collection_eligible")
                    = (pins[w].rev \in Eligible(clock)')
    <2>0. TypeOK /\ TypeOK'
      BY <1>1, NextDelivery DEF DeliveryInv
    <2>1. Release(w)
      <3>1. ASSUME NEW v \in Workload, NEW r \in 1..Latest, NEW life \in 0..MaxLife,
                   SetPin(v, r, clock + life)
            PROVE  FALSE
        <4>1. [rev |-> r, expires |-> clock + life] \in Pin
          BY <2>0, SizeFacts, DeliveryAssumption DEF Pin
        <4>2. pins' = [pins EXCEPT ![v] = [rev |-> r, expires |-> clock + life]]
          BY <3>1 DEF SetPin
        <4>3. pins'[w] # None
          BY <1>1, <2>0, <4>1, <4>2, DeliveryAssumption DEF TypeOK
        <4>. QED
          BY <1>1, <4>3
      <3>2. ASSUME NEW v \in Workload, Release(v) PROVE v = w
        BY <1>1, <2>0, <3>2 DEF Release, TypeOK
      <3>3. pins' # pins
        BY <1>1
      <3>. QED
        BY <1>1, <3>1, <3>2, <3>3 DEF Next, SetOrg, SetProject, Hold, Unhold, BeginSweep,
          SweepFails, SweepChunk, Publish, ChangeGrant, SetMachineReveal, RotateTokenKey,
          ChangeAuthority, Fetch, Tick, vars, pinning
    <2>2. /\ pins' = [pins EXCEPT ![w] = None]
          /\ UNCHANGED <<clock, org, override, held, snaps>>
      BY <2>1 DEF Release, policies
    <2>3. PICK r \in 1..Latest : r = pins[w].rev
      BY <1>1, <2>0, SizeFacts
    <2>4. Policy' = Policy /\ Latest' = Latest /\ Rank(r)' = Rank(r)
      BY <2>2 DEF Policy, Latest, Rank
    <2>5. Pinned(r, clock)' <=> \E v \in Workload \ {w} : /\ pins[v] # None /\ pins[v].rev = r
                                                         /\ pins[v].expires > clock
      BY <2>0, <2>2 DEF Pinned, TypeOK
    <2>6. r \in Eligible(clock)' <=>
            /\ ~Policy.unlimited /\ snaps[r].payload
            /\ snaps[r].at + Policy.age < clock /\ Rank(r) > Policy.count
            /\ ~Pinned(r, clock)'
      BY <1>1, <2>2, <2>3, <2>4 DEF Eligible
    <2>7. /\ snaps[r].at + Policy.age \in Nat /\ clock \in Nat
          /\ Rank(r) \in Nat /\ Policy.count \in Nat
      BY <2>0, SizeFacts, PolicyFacts DEF Snapshot, Rank
    <2>8. Consequence(w, clock) = "collection_eligible" <=>
            /\ ~Policy.unlimited /\ snaps[r].payload
            /\ snaps[r].at + Policy.age < clock /\ Rank(r) > Policy.count
            /\ ~Pinned(r, clock)'
      BY <2>0, <2>3, <2>5, <2>7, RankCounts DEF Consequence
    <2>. QED
      BY <2>3, <2>6, <2>8
  <1>2. DeliveryInv /\ [Next]_vars =>
          \A w \in Workload : pins[w] # None /\ pins'[w] = None =>
            pins[w].rev \in held
                \/ (Consequence(w, clock) = "collection_eligible")
                        = (pins[w].rev \in Eligible(clock)')
    BY <1>1
  <1>. QED
    BY <1>2, DeliveryInvariant, PTL DEF Spec, ReleaseTellsTruth
=============================================================================
