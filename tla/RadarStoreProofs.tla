-------------------------- MODULE RadarStoreProofs --------------------------
(***************************************************************************)
(* Theorems about RadarStore for every set of regions, horizon, window and  *)
(* grace: type correctness; that every retained frame keeps its files, that *)
(* a frame of the pass's window is never evicted and that content changes   *)
(* only under a new version; that neither reaper is early; and, in the      *)
(* first life of the process, that real data is kept and that stale copies  *)
(* stay on record.                                                          *)
(***************************************************************************)
EXTENDS RadarStore, FiniteSetTheorems, WellFoundedInduction, TLAPS

USE ConstantsAssumption DEF ConstantsAssumption, TS, Absent, Content, Tick

-----------------------------------------------------------------------------
(* Clock arithmetic and finite sets.                                        *)

\* The interval index is a member of TS while the clock is within bounds, and
\* it never decreases.
LEMMA ClockFacts ==
    ASSUME NEW c \in Nat, NEW T \in Nat \ {0}
    PROVE  /\ c \div T \in Nat
           /\ c \div T <= (c + 1) \div T
           /\ (c \div T + 1) * T \in Nat
           /\ \A h \in Nat : c < (h + 1) * T => c \div T <= h
  <1>1. c \div T \in Nat BY SMT
  <1>2. c \div T <= (c + 1) \div T BY SMT
  <1>3. (c \div T + 1) * T \in Nat BY SMT
  <1>4. \A h \in Nat : c < (h + 1) * T => c \div T <= h BY SMT
  <1> QED BY <1>1, <1>2, <1>3, <1>4

\* A nonempty set of timestamps has an oldest member.
LEMMA OldestFacts ==
    ASSUME NEW S \in SUBSET TS, S # {}
    PROVE  /\ Oldest(S) \in S
           /\ \A t \in S : Oldest(S) <= t
  <1>1. S \subseteq Nat
    OBVIOUS
  <1>2. \E t \in S : \A u \in S : t <= u
    <2> DEFINE R == {ss \in Nat \X Nat : ss[1] < ss[2]}
    <2>1. IsWellFoundedOn(R, Nat)
      BY NatLessThanWellFounded, Zenon DEF OpToRel
    <2>2. \E t \in S : \A u \in S : ~(<<u, t>> \in R)
      <3> HIDE DEF R
      <3> QED BY <1>1, <2>1, WFMin
    <2>3. PICK t \in S : \A u \in S : ~(<<u, t>> \in R)
      BY <2>2
    <2>4. \A u \in S : ~(u < t)
      BY <1>1, <2>3
    <2> QED BY <1>1, <2>4
  <1> QED BY <1>2 DEF Oldest

\* ... and a newest one: the set is bounded by the horizon.
LEMMA NewestMember ==
    ASSUME NEW S \in SUBSET TS, S # {}
    PROVE  \E p \in S : \A q \in S : q <= p
  <1> DEFINE R == {Horizon - t : t \in S}
  <1>1. R \in SUBSET TS /\ R # {}
    <2>1. \A t \in S : Horizon - t \in TS
      OBVIOUS
    <2> QED BY <2>1
  <1>2. Oldest(R) \in R /\ \A x \in R : Oldest(R) <= x
    BY <1>1, OldestFacts
  <1>3. PICK p \in S : Oldest(R) = Horizon - p
    BY <1>2
  <1>4. \A q \in S : Horizon - p <= Horizon - q
    BY <1>2, <1>3
  <1> QED BY <1>4

-----------------------------------------------------------------------------
(* Type correctness.                                                        *)

\* Values built by the helpers stay within their types.
LEMMA HelperTypes ==
    ASSUME TypeOK
    PROVE  /\ NextBoundary \in Nat
           /\ NowRounded \in Nat
           /\ EmptyFrame \in [Regions -> Content]
           /\ NoFrame \in [ts : TS, data : [Regions -> Content]]
           /\ EmptyFrames \in [TS -> [Regions -> Content]]
           /\ NoRegions \in [TS -> SUBSET Regions]
           /\ NoTicks \in [TS -> Nat \cup {-1}]
           /\ \A f \in [Regions -> Content] : Held(f) \subseteq Regions
           /\ \A S : Unlink(S) \in [TS -> [Regions -> Content]]
  <1>1. NextBoundary \in Nat /\ NowRounded \in Nat
    BY ClockFacts DEF TypeOK, NextBoundary, NowRounded
  <1>2. EmptyFrame \in [Regions -> Content]
    BY DEF EmptyFrame
  <1>3. 0 \in TS
    OBVIOUS
  <1>4. NoFrame \in [ts : TS, data : [Regions -> Content]]
    BY <1>2, <1>3 DEF NoFrame
  <1>5. \A S : Unlink(S) \in [TS -> [Regions -> Content]]
    BY <1>2 DEF Unlink, TypeOK
  <1> QED
    BY <1>1, <1>2, <1>4, <1>5 DEF EmptyFrames, NoRegions, NoTicks, Held

\* What a carry-forward lends is the content of a stored region.
LEMMA FrameDataType ==
    ASSUME TypeOK, NEW ts \in TS
    PROVE  FrameData(ts) \in [Regions -> Content]
  <1>1. \A r \in CarriedInto(ts) : Lent(ts, r) \in Content
    <2> SUFFICES ASSUME NEW r \in CarriedInto(ts)
                 PROVE  Lent(ts, r) \in Content
      OBVIOUS
    <2> DEFINE S == CarrySources(ts, r)
               newest == CHOOSE p \in S : \A q \in S : q <= p
    <2>1. S \subseteq TS /\ S # {} /\ r \in Regions
      BY DEF TypeOK, CarrySources, CarriedInto, Missing
    <2>2. \E p \in S : \A q \in S : q <= p
      BY <2>1, NewestMember
    <2>3. newest \in S
      BY <2>2
    <2> QED BY <2>1, <2>3 DEF Lent, TypeOK
  <1> QED BY <1>1 DEF FrameData

\* The initial state has the declared types.
LEMMA InitTypeOK == Init => TypeOK
  <1> SUFFICES ASSUME Init PROVE TypeOK
    OBVIOUS
  <1>1. /\ requested \in [TS -> SUBSET Regions] /\ skip \in [TS -> SUBSET Regions]
        /\ got \in [TS -> SUBSET Regions] /\ carried \in [TS -> SUBSET Regions]
    BY DEF Init, NoRegions
  <1>2. /\ evictPending \in [TS -> Nat \cup {-1}] /\ leftAt \in [TS -> Nat \cup {-1}]
        /\ inactiveSince \in [TS -> Nat \cup {-1}]
    BY DEF Init, NoTicks
  <1>3. adding \in [ts : TS, data : [Regions -> Content]]
    BY DEF Init, NoFrame, EmptyFrame
  <1>4. /\ region \in [TS -> [Regions -> Content]] /\ disk \in [TS -> [Regions -> Content]]
    BY DEF Init, EmptyFrames, EmptyFrame
  <1>5. /\ clock \in Nat /\ wakeAt \in Nat /\ passNow \in TS /\ version \in [TS -> Nat]
        /\ crashes \in Nat /\ failures \in Nat
    BY DEF Init
  <1>6. /\ phase \in {"boot", "idle", "fetch", "store", "write", "down"}
        /\ looping \in BOOLEAN /\ queue \in SUBSET TS /\ toWrite \in SUBSET Regions
        /\ frames \in SUBSET TS
    BY DEF Init
  <1> QED BY <1>1, <1>2, <1>3, <1>4, <1>5, <1>6 DEF TypeOK

\* Every step preserves the declared types.
LEMMA StepTypeOK == TypeOK /\ NowRounded \in TS /\ [Next]_vars => TypeOK'
  <1> SUFFICES ASSUME TypeOK, NowRounded \in TS, [Next]_vars
               PROVE  TypeOK'
    OBVIOUS
  <1> USE HelperTypes
  <1>1. CASE UNCHANGED vars
    BY <1>1 DEF TypeOK, vars, passVars, storeVars, bounds
  <1>2. CASE TimePasses
    <2>1. clock' = clock + 1
          /\ UNCHANGED <<phase, passVars, storeVars, inactiveSince, carried, disk,
                         leftAt, bounds>>
      BY <1>2 DEF TimePasses
    <2>2. clock' \in Nat
      BY <2>1 DEF TypeOK
    <2> QED BY <2>1, <2>2 DEF TypeOK, passVars, storeVars, bounds
  <1>3. CASE StartInitialPass
    BY <1>3 DEF TypeOK, StartInitialPass, storeVars, bounds
  <1>4. CASE StartPass
    <2>1. carried' \in [TS -> SUBSET Regions]
      BY <1>4 DEF StartPass, PrunedCarried, TypeOK
    <2>2. skip' \in [TS -> SUBSET Regions]
      BY <1>4 DEF StartPass, RegionKeys, TypeOK
    <2>3. queue' \in SUBSET TS
      BY <1>4 DEF StartPass, Incomplete, Window
    <2>4. requested' \in [TS -> SUBSET Regions]
      BY <1>4 DEF StartPass
    <2> QED BY <1>4, <2>1, <2>2, <2>3, <2>4 DEF TypeOK, StartPass, storeVars, bounds
  <1>5. CASE FetchResults
    <2>1. got' \in [TS -> SUBSET Regions]
      BY <1>5 DEF FetchResults, TypeOK
    <2>2. carried' \in [TS -> SUBSET Regions]
      BY <1>5, <2>1 DEF FetchResults, TypeOK
    <2> QED BY <1>5, <2>1, <2>2 DEF TypeOK, FetchResults, storeVars, bounds
  <1>6. CASE BeginAdd
    <2> DEFINE ts == Oldest(queue)
    <2>1. ts \in TS
      BY <1>6, OldestFacts DEF BeginAdd, TypeOK
    <2>2. FrameData(ts) \in [Regions -> Content]
      BY <2>1, FrameDataType
    <2>3. carried' \in [TS -> SUBSET Regions]
      BY <1>6, <2>1 DEF BeginAdd, CarriedInto, Missing, TypeOK
    <2>4. adding' \in [ts : TS, data : [Regions -> Content]]
      BY <1>6, <2>1, <2>2 DEF BeginAdd, TypeOK
    <2>5. toWrite' \in SUBSET Regions
      BY <1>6, <2>1, <2>2 DEF BeginAdd, NeedsWrite, Held, TypeOK
    <2>6. phase' \in {"store", "write"} /\ queue' \in SUBSET TS
      BY <1>6 DEF BeginAdd, TypeOK
    <2> QED BY <1>6, <2>3, <2>4, <2>5, <2>6 DEF TypeOK, BeginAdd, storeVars, bounds
  <1>7. ASSUME NEW r \in Regions, WriteRegion(r) PROVE TypeOK'
    <2>1. disk' \in [TS -> [Regions -> Content]]
      BY <1>7 DEF WriteRegion, TypeOK
    <2> QED BY <1>7, <2>1 DEF TypeOK, WriteRegion, storeVars, bounds
  <1>8. CASE CommitMerge
    <2>1. Merged(adding.ts, adding.data) \in [Regions -> Content]
      BY DEF Merged, TypeOK
    <2>2. region' \in [TS -> [Regions -> Content]]
      BY <1>8, <2>1 DEF CommitMerge, TypeOK
    <2>3. version' \in [TS -> Nat]
      <3>1. MergedVersion(adding.ts, adding.data) \in Nat
        <4>1. adding.ts \in TS /\ version \in [TS -> Nat]
          BY DEF TypeOK
        <4>2. version[adding.ts] \in Nat /\ version[adding.ts] + 1 \in Nat
          BY <4>1
        <4> QED BY <4>2 DEF MergedVersion
      <3>2. version' = [version EXCEPT ![adding.ts] = MergedVersion(adding.ts, adding.data)]
        BY <1>8 DEF CommitMerge
      <3> QED BY <3>1, <3>2 DEF TypeOK
    <2>4. evictPending' \in [TS -> Nat \cup {-1}]
      BY <1>8 DEF CommitMerge, TypeOK
    <2> QED BY <1>8, <2>2, <2>3, <2>4 DEF TypeOK, CommitMerge, bounds
  <1>9. CASE CommitAppend
    BY <1>9 DEF TypeOK, CommitAppend, bounds
  <1>10. CASE CommitEvict
    <2> DEFINE old == Oldest(frames)
    <2>1. evictPending' \in [TS -> Nat \cup {-1}]
      BY <1>10 DEF CommitEvict, TypeOK
    <2>2. version' \in [TS -> Nat]
      BY <1>10 DEF CommitEvict, TypeOK
    <2>3. region' \in [TS -> [Regions -> Content]]
      BY <1>10 DEF CommitEvict, TypeOK
    <2>4. leftAt' \in [TS -> Nat \cup {-1}]
      BY <1>10 DEF CommitEvict, TypeOK
    <2>5. frames' \in SUBSET TS /\ disk' \in [TS -> [Regions -> Content]]
      BY <1>10 DEF CommitEvict, TypeOK
    <2> QED BY <1>10, <2>1, <2>2, <2>3, <2>4, <2>5 DEF TypeOK, CommitEvict, bounds
  <1>11. CASE WriteRefused
    <2>1. failures' \in Nat
      BY <1>11 DEF WriteRefused, TypeOK
    <2>2. wakeAt' \in Nat
      BY <1>11 DEF WriteRefused
    <2> QED BY <1>11, <2>1, <2>2 DEF TypeOK, WriteRefused, storeVars
  <1>12. CASE EndPass
    <2>1. inactiveSince' \in [TS -> Nat \cup {-1}]
      BY <1>12 DEF EndPass, Inactive, TypeOK
    <2>2. disk' \in [TS -> [Regions -> Content]] /\ wakeAt' \in Nat
      BY <1>12 DEF EndPass, Inactive, TypeOK
    <2> QED BY <1>12, <2>1, <2>2 DEF TypeOK, EndPass, storeVars, bounds
  <1>13. CASE Crash
    <2>1. leftAt' \in [TS -> Nat \cup {-1}]
      BY <1>13 DEF Crash, TypeOK
    <2>2. version' \in [TS -> Nat] /\ crashes' \in Nat
      BY <1>13 DEF Crash, TypeOK
    <2>3. /\ requested' \in [TS -> SUBSET Regions] /\ skip' \in [TS -> SUBSET Regions]
          /\ got' \in [TS -> SUBSET Regions] /\ carried' \in [TS -> SUBSET Regions]
          /\ evictPending' \in [TS -> Nat \cup {-1}]
          /\ inactiveSince' \in [TS -> Nat \cup {-1}]
          /\ region' \in [TS -> [Regions -> Content]]
          /\ adding' \in [ts : TS, data : [Regions -> Content]]
      BY <1>13 DEF Crash
    <2>4. /\ clock' \in Nat /\ failures' \in Nat /\ disk' \in [TS -> [Regions -> Content]]
      BY <1>13 DEF Crash, TypeOK
    <2>5. /\ phase' = "down" /\ looping' = FALSE /\ wakeAt' = 0 /\ passNow' = 0
          /\ queue' = {} /\ toWrite' = {} /\ frames' = {}
      BY <1>13 DEF Crash
    <2>6. phase' \in {"boot", "idle", "fetch", "store", "write", "down"}
      BY <2>5
    <2>7. looping' \in BOOLEAN
      BY <2>5
    <2>8. wakeAt' \in Nat /\ passNow' \in TS
      BY <2>5
    <2>9. queue' \in SUBSET TS /\ toWrite' \in SUBSET Regions /\ frames' \in SUBSET TS
      BY <2>5
    <2> QED BY <2>1, <2>2, <2>3, <2>4, <2>6, <2>7, <2>8, <2>9 DEF TypeOK
  <1>14. CASE Restart
    <2>1. Newest(OnDisk, Cap) \subseteq TS
      BY DEF Newest, OnDisk
    <2> QED BY <1>14, <2>1 DEF TypeOK, Restart, passVars, bounds
  <1> QED
    BY <1>1, <1>2, <1>3, <1>4, <1>5, <1>6, <1>7, <1>8, <1>9, <1>10, <1>11,
       <1>12, <1>13, <1>14 DEF Next

-----------------------------------------------------------------------------
(* The inductive invariant, one lemma per part that a step can disturb.     *)

\* The steps that touch neither the store, its files, its eviction clocks nor
\* the frame being added.
Quiet ==
    /\ UNCHANGED <<frames, region, evictPending, disk>>
    /\ phase' # "write" \/ UNCHANGED <<phase, adding, toWrite>>

LEMMA InitIInv == Init => IInv
  <1> SUFFICES ASSUME Init PROVE IInv
    OBVIOUS
  <1>1. TypeOK
    BY InitTypeOK
  <1>2. RetainedFramesBacked /\ PendingAreGone /\ AddingBacked /\ SlotsInWindow
    BY DEF Init, RetainedFramesBacked, PendingAreGone, AddingBacked, SlotsInWindow
  <1>3. OnlyFramesHeld
    BY DEF Init, OnlyFramesHeld, EmptyFrames
  <1>4. NoFuture
    <2>1. NowRounded = 0
      <3>1. 0 \div TicksPerInterval <= 0
        BY ClockFacts
      <3>2. 0 \div TicksPerInterval \in Nat
        BY ClockFacts
      <3> QED BY <3>1, <3>2 DEF Init, NowRounded
    <2>2. OnDisk = {}
      BY DEF Init, OnDisk, EmptyFrames, EmptyFrame
    <2> QED BY <2>1, <2>2 DEF Init, NoFuture
  <1> QED BY <1>1, <1>2, <1>3, <1>4 DEF IInv

\* The memory-and-files part of the invariant.
Backing == RetainedFramesBacked /\ OnlyFramesHeld /\ PendingAreGone /\ AddingBacked

LEMMA QuietBacking == Backing /\ Quiet => Backing'
  BY DEF Backing, Quiet, RetainedFramesBacked, OnlyFramesHeld, PendingAreGone,
         AddingBacked, Held, EmptyFrame

LEMMA StepBacking == IInv /\ [Next]_vars => Backing'
  <1> SUFFICES ASSUME IInv, [Next]_vars PROVE Backing'
    OBVIOUS
  <1>0. TypeOK /\ Backing
    BY DEF IInv, Backing
  <1>1. CASE UNCHANGED vars
    BY <1>0, <1>1, QuietBacking DEF Quiet, vars, passVars, storeVars
  <1>2. CASE TimePasses
    BY <1>0, <1>2, QuietBacking DEF Quiet, TimePasses, passVars, storeVars
  <1>3. CASE StartInitialPass
    BY <1>0, <1>3, QuietBacking DEF Quiet, StartInitialPass, storeVars
  <1>4. CASE StartPass
    BY <1>0, <1>4, QuietBacking DEF Quiet, StartPass, storeVars
  <1>5. CASE FetchResults
    BY <1>0, <1>5, QuietBacking DEF Quiet, FetchResults, storeVars
  <1>6. CASE BeginAdd
    <2> DEFINE ts == Oldest(queue)
               data == FrameData(ts)
    <2>1. ts \in TS /\ data \in [Regions -> Content]
      BY <1>0, <1>6, OldestFacts, FrameDataType DEF BeginAdd, TypeOK
    <2>2. UNCHANGED <<frames, region, evictPending, disk>>
      BY <1>6 DEF BeginAdd, storeVars
    <2>3. CASE Held(data) = {}
      BY <1>0, <1>6, <2>2, <2>3, QuietBacking DEF Quiet, BeginAdd
    <2>4. CASE Held(data) # {}
      <3> HIDE DEF ts, data
      <3>1. /\ phase' = "write"
            /\ adding' = [ts |-> ts, data |-> data]
            /\ toWrite' = NeedsWrite(ts, data)
        BY <1>6, <2>4 DEF BeginAdd, ts, data
      <3>2. \A r \in Held(data) \ NeedsWrite(ts, data) : disk[ts][r] # Absent
        <4> SUFFICES ASSUME NEW r \in Held(data), region[ts][r] = data[r]
                     PROVE  disk[ts][r] # Absent
          BY DEF NeedsWrite
        <4>1. r \in Regions /\ region[ts][r] # Absent
          BY DEF Held
        <4>2. ts \in frames
          BY <1>0, <2>1, <4>1 DEF Backing, OnlyFramesHeld, EmptyFrame
        <4> QED BY <1>0, <4>1, <4>2 DEF Backing, RetainedFramesBacked, Held
      <3>3. AddingBacked'
        BY <2>2, <3>1, <3>2 DEF AddingBacked, NeedsWrite, Held
      <3> QED
        BY <1>0, <2>2, <3>3 DEF Backing, RetainedFramesBacked, OnlyFramesHeld,
           PendingAreGone, Held, EmptyFrame
    <2> QED BY <2>3, <2>4
  <1>7. ASSUME NEW r \in Regions, WriteRegion(r) PROVE Backing'
    <2>1. /\ UNCHANGED <<frames, region, evictPending, phase, adding>>
          /\ disk' = [disk EXCEPT ![adding.ts][r] = adding.data[r]]
          /\ toWrite' = toWrite \ {r}
          /\ phase = "write" /\ r \in toWrite
      BY <1>7 DEF WriteRegion, storeVars
    <2>2. adding.ts \in TS /\ adding.data[r] # Absent
      BY <1>0, <2>1 DEF TypeOK, Backing, AddingBacked, Held
    <2>3. \A t \in TS : \A q \in Regions : disk[t][q] # Absent => disk'[t][q] # Absent
      BY <1>0, <2>1, <2>2 DEF TypeOK
    <2>4. disk'[adding.ts][r] # Absent
      BY <1>0, <2>1, <2>2 DEF TypeOK
    <2>5. RetainedFramesBacked'
      BY <1>0, <2>1, <2>3 DEF Backing, RetainedFramesBacked, Held, TypeOK
    <2>6. AddingBacked'
      BY <1>0, <2>1, <2>2, <2>3, <2>4 DEF Backing, AddingBacked, Held
    <2>7. OnlyFramesHeld' /\ PendingAreGone'
      BY <1>0, <2>1 DEF Backing, OnlyFramesHeld, PendingAreGone, EmptyFrame
    <2> QED BY <2>5, <2>6, <2>7 DEF Backing
  <1>8. ASSUME phase = "write", toWrite = {}
        PROVE  \A q \in Held(adding.data) : disk[adding.ts][q] # Absent
    BY <1>0, <1>8 DEF Backing, AddingBacked
  <1>9. CASE CommitMerge
    <2> DEFINE ts == adding.ts
    <2>1. /\ ts \in frames /\ ts \in TS /\ adding.data \in [Regions -> Content]
          /\ UNCHANGED <<frames, disk>>
          /\ region' = [region EXCEPT ![ts] = Merged(ts, adding.data)]
          /\ evictPending' = [evictPending EXCEPT ![ts] = Absent]
          /\ phase' = "store"
      BY <1>0, <1>9 DEF CommitMerge, TypeOK
    <2>2. \A q \in Held(Merged(ts, adding.data)) : disk[ts][q] # Absent
      BY <1>0, <1>8, <1>9, <2>1 DEF CommitMerge, Merged, Held, Backing,
         RetainedFramesBacked
    <2>3. RetainedFramesBacked'
      BY <1>0, <2>1, <2>2 DEF Backing, RetainedFramesBacked, Held, TypeOK
    <2>4. OnlyFramesHeld' /\ PendingAreGone' /\ AddingBacked'
      BY <1>0, <2>1 DEF Backing, OnlyFramesHeld, PendingAreGone, AddingBacked,
         EmptyFrame, TypeOK
    <2> QED BY <2>3, <2>4 DEF Backing
  <1>10. CASE CommitAppend
    <2> DEFINE ts == adding.ts
    <2>1. /\ ts \in TS /\ adding.data \in [Regions -> Content]
          /\ frames' = frames \cup {ts} /\ UNCHANGED disk
          /\ region' = [region EXCEPT ![ts] = adding.data]
          /\ evictPending' = [evictPending EXCEPT ![ts] = Absent]
          /\ phase' = "store"
      BY <1>0, <1>10 DEF CommitAppend, TypeOK
    <2>2. \A q \in Held(adding.data) : disk[ts][q] # Absent
      BY <1>8, <1>10 DEF CommitAppend
    <2>3. RetainedFramesBacked'
      BY <1>0, <2>1, <2>2 DEF Backing, RetainedFramesBacked, Held, TypeOK
    <2>4. OnlyFramesHeld' /\ PendingAreGone' /\ AddingBacked'
      BY <1>0, <2>1 DEF Backing, OnlyFramesHeld, PendingAreGone, AddingBacked,
         EmptyFrame, TypeOK
    <2> QED BY <2>3, <2>4 DEF Backing
  <1>11. CASE CommitEvict
    <2> DEFINE ts == adding.ts
               old == Oldest(frames)
               reaped == Reapable(ts)
    <2>1. /\ ts \in TS /\ adding.data \in [Regions -> Content]
          /\ frames' = (frames \ {old}) \cup {ts}
          /\ region' = [region EXCEPT ![old] = EmptyFrame, ![ts] = adding.data]
          /\ evictPending' = [u \in TS |-> IF u = old THEN clock
                                           ELSE IF u \in reaped \cup {ts} THEN Absent
                                           ELSE evictPending[u]]
          /\ disk' = Unlink(reaped)
          /\ phase' = "store"
          /\ ts \notin frames /\ Cardinality(frames) >= Cap
      BY <1>0, <1>11 DEF CommitEvict, TypeOK
    <2>2. frames # {}
      BY <2>1, FS_EmptySet DEF Cap
    <2>3. old \in frames /\ old # ts /\ old \in TS
      <3>1. frames \in SUBSET TS
        BY <1>0 DEF TypeOK
      <3>2. old \in frames
        BY <2>2, <3>1, OldestFacts
      <3> QED BY <2>1, <3>1, <3>2
    <2>4. \A t \in frames \cup {ts} : t \notin reaped
      BY <1>0, <2>1 DEF Reapable, Elapsed, Backing, PendingAreGone
    <2>5. \A q \in Held(adding.data) : disk[ts][q] # Absent
      BY <1>8, <1>11 DEF CommitEvict
    <2> HIDE DEF ts, old, reaped
    <2>6. \A t \in (frames \ {old}) \cup {ts} : disk'[t] = disk[t]
      BY <1>0, <2>1, <2>4 DEF Unlink, TypeOK
    <2>7. \A t \in frames \ {old} : region'[t] = region[t]
      BY <1>0, <2>1, <2>3 DEF TypeOK, ts
    <2>8. region'[ts] = adding.data
      BY <1>0, <2>1, <2>3 DEF TypeOK
    <2>9. RetainedFramesBacked'
      BY <1>0, <2>1, <2>5, <2>6, <2>7, <2>8 DEF Backing, RetainedFramesBacked, Held
    <2>10. OnlyFramesHeld'
      <3> SUFFICES ASSUME NEW t \in TS \ frames' PROVE region'[t] = EmptyFrame
        BY DEF OnlyFramesHeld, EmptyFrame
      <3>1. CASE t = old
        BY <1>0, <2>1, <2>3, <3>1 DEF TypeOK
      <3>2. CASE t # old
        BY <1>0, <2>1, <2>3, <3>2 DEF TypeOK, Backing, OnlyFramesHeld
      <3> QED BY <3>1, <3>2
    <2>11. PendingAreGone'
      BY <1>0, <2>1, <2>3 DEF TypeOK, Backing, PendingAreGone
    <2>12. AddingBacked'
      BY <2>1 DEF AddingBacked
    <2> QED BY <2>9, <2>10, <2>11, <2>12 DEF Backing
  <1>12. CASE WriteRefused
    BY <1>0, <1>12, QuietBacking DEF Quiet, WriteRefused, storeVars
  <1>13. CASE EndPass
    <2> DEFINE reaped == {ts \in OnDisk \ frames : Elapsed(inactiveSince[ts])}
    <2>1. /\ UNCHANGED <<frames, region, evictPending>> /\ phase' = "idle"
          /\ disk' = Unlink(reaped)
      BY <1>13 DEF EndPass, Inactive, storeVars
    <2>2. \A t \in frames : disk'[t] = disk[t]
      BY <1>0, <2>1 DEF Unlink, TypeOK
    <2>3. RetainedFramesBacked'
      BY <1>0, <2>1, <2>2 DEF Backing, RetainedFramesBacked, Held
    <2> QED
      BY <1>0, <2>1, <2>3 DEF Backing, OnlyFramesHeld, PendingAreGone, AddingBacked,
         EmptyFrame
  <1>14. CASE Crash
    <2>1. frames' = {} /\ region' = EmptyFrames /\ phase' = "down"
      BY <1>14 DEF Crash
    <2> QED
      BY <2>1 DEF Backing, RetainedFramesBacked, OnlyFramesHeld, PendingAreGone,
         AddingBacked, EmptyFrames, EmptyFrame
  <1>15. CASE Restart
    <2> DEFINE kept == Newest(OnDisk, Cap)
    <2>1. kept \subseteq OnDisk /\ OnDisk \subseteq TS
      BY DEF Newest, OnDisk
    <2>2. /\ frames' = kept /\ UNCHANGED disk /\ phase' = "boot"
          /\ region' = [ts \in TS |-> IF ts \in kept THEN disk[ts] ELSE EmptyFrame]
          /\ evictPending' = [ts \in TS |-> IF ts \in OnDisk \ kept THEN clock ELSE Absent]
      BY <1>15 DEF Restart
    <2> HIDE DEF kept
    <2>3. RetainedFramesBacked'
      BY <2>1, <2>2 DEF RetainedFramesBacked, Held
    <2>4. OnlyFramesHeld' /\ PendingAreGone' /\ AddingBacked'
      BY <2>1, <2>2 DEF OnlyFramesHeld, PendingAreGone, AddingBacked, EmptyFrame
    <2> QED BY <2>3, <2>4 DEF Backing
  <1> QED
    BY <1>1, <1>2, <1>3, <1>4, <1>5, <1>6, <1>7, <1>9, <1>10, <1>11, <1>12,
       <1>13, <1>14, <1>15 DEF Next

\* The interval of the clock's next value: in range, and not an earlier one.
LEMMA NextInterval ==
    ASSUME TypeOK, TimePasses, NowRounded \in TS
    PROVE  NowRounded' \in TS /\ NowRounded <= NowRounded'
  <1>1. clock \in Nat /\ clock' = clock + 1 /\ clock' < (Horizon + 1) * TicksPerInterval
    BY DEF TypeOK, TimePasses
  <1>2. clock' \in Nat
    BY <1>1
  <1>3. NowRounded <= NowRounded'
    BY <1>1, ClockFacts DEF NowRounded
  <1>4. NowRounded' \in Nat /\ NowRounded' <= Horizon
    BY <1>1, <1>2, ClockFacts DEF NowRounded
  <1> QED BY <1>3, <1>4

LEMMA StepNoFuture == IInv /\ [Next]_vars => NoFuture' /\ SlotsInWindow'
  <1> SUFFICES ASSUME IInv, [Next]_vars PROVE NoFuture' /\ SlotsInWindow'
    OBVIOUS
  <1>0. TypeOK /\ NoFuture /\ SlotsInWindow /\ AddingBacked
    BY DEF IInv
  <1>1. NowRounded' = NowRounded \/ clock' # clock
    BY DEF NowRounded
  <1>2. frames \in SUBSET TS /\ OnDisk \in SUBSET TS /\ passNow \in Int /\ NowRounded \in TS
    BY <1>0 DEF TypeOK, OnDisk, NoFuture
  \* Unlinking only removes files.
  <1>3. ASSUME NEW S, disk' = Unlink(S) PROVE OnDisk' \subseteq OnDisk
    BY <1>0, <1>3 DEF OnDisk, Unlink, EmptyFrame, TypeOK
  <1>4. CASE UNCHANGED vars
    <2>1. OnDisk' = OnDisk /\ NowRounded' = NowRounded
      BY <1>4 DEF vars, OnDisk, NowRounded
    <2> QED
      BY <1>0, <1>4, <2>1 DEF vars, passVars, storeVars, NoFuture, SlotsInWindow, Window
  <1>5. CASE TimePasses
    <2>1. /\ UNCHANGED <<phase, passNow, queue, adding, frames>> /\ OnDisk' = OnDisk
      BY <1>5 DEF TimePasses, passVars, storeVars, OnDisk
    <2>2. NowRounded' \in TS /\ NowRounded <= NowRounded'
      BY <1>0, <1>2, <1>5, NextInterval
    <2>3. NoFuture'
      BY <1>0, <1>2, <2>1, <2>2 DEF NoFuture
    <2> QED BY <1>0, <2>1, <2>3 DEF SlotsInWindow, Window
  <1>6. CASE StartInitialPass
    <2>1. /\ UNCHANGED frames /\ OnDisk' = OnDisk /\ NowRounded' = NowRounded
          /\ passNow' = NowRounded /\ queue' = {NowRounded} /\ phase' = "fetch"
      BY <1>6 DEF StartInitialPass, storeVars, OnDisk, NowRounded
    <2>2. NoFuture'
      BY <1>0, <1>2, <2>1 DEF NoFuture
    <2> QED BY <1>2, <2>1, <2>2 DEF SlotsInWindow, Window
  <1>7. CASE StartPass
    <2>1. /\ UNCHANGED frames /\ OnDisk' = OnDisk /\ NowRounded' = NowRounded
          /\ passNow' = NowRounded /\ queue' = Incomplete /\ phase' \in {"idle", "fetch"}
      BY <1>7 DEF StartPass, storeVars, OnDisk, NowRounded
    <2>2. NoFuture'
      BY <1>0, <1>2, <2>1 DEF NoFuture
    <2> QED BY <2>1, <2>2 DEF SlotsInWindow, Incomplete, Window
  <1>8. CASE FetchResults
    <2>1. /\ UNCHANGED <<frames, passNow, queue>> /\ OnDisk' = OnDisk
          /\ NowRounded' = NowRounded /\ phase = "fetch" /\ phase' = "store"
      BY <1>8 DEF FetchResults, storeVars, OnDisk, NowRounded
    <2> QED BY <1>0, <2>1 DEF NoFuture, SlotsInWindow, Window
  <1>9. CASE BeginAdd
    <2>1. /\ UNCHANGED <<frames, passNow>> /\ OnDisk' = OnDisk
          /\ NowRounded' = NowRounded /\ phase = "store" /\ phase' \in {"store", "write"}
          /\ queue # {} /\ queue' = queue \ {Oldest(queue)}
          /\ phase' = "write" => adding'.ts = Oldest(queue)
      BY <1>9 DEF BeginAdd, storeVars, OnDisk, NowRounded
    <2>2. Oldest(queue) \in queue
      BY <1>0, <2>1, OldestFacts DEF TypeOK
    <2>3. SlotsInWindow'
      BY <1>0, <2>1, <2>2 DEF SlotsInWindow, Window
    <2> QED BY <1>0, <2>1, <2>3 DEF NoFuture
  <1>10. ASSUME NEW r \in Regions, WriteRegion(r) PROVE NoFuture' /\ SlotsInWindow'
    <2>1. /\ UNCHANGED <<frames, passNow, queue, adding, phase>> /\ phase = "write"
          /\ NowRounded' = NowRounded
          /\ disk' = [disk EXCEPT ![adding.ts][r] = adding.data[r]]
      BY <1>10 DEF WriteRegion, storeVars, NowRounded
    <2>2. OnDisk' \subseteq OnDisk \cup {adding.ts}
      BY <1>0, <2>1 DEF OnDisk, TypeOK
    <2>3. adding.ts \in TS /\ adding.ts <= passNow
      BY <1>0, <2>1 DEF SlotsInWindow, Window
    <2>4. \A t \in OnDisk' : t <= NowRounded
      BY <1>0, <1>2, <2>2, <2>3 DEF NoFuture
    <2> QED BY <1>0, <2>1, <2>4 DEF NoFuture, SlotsInWindow, Window
  <1>11. CASE CommitMerge
    <2>1. /\ UNCHANGED <<frames, passNow, queue>> /\ OnDisk' = OnDisk
          /\ NowRounded' = NowRounded /\ phase = "write" /\ phase' = "store"
      BY <1>11 DEF CommitMerge, OnDisk, NowRounded
    <2> QED BY <1>0, <2>1 DEF NoFuture, SlotsInWindow, Window
  <1>12. CASE CommitAppend
    <2>1. /\ UNCHANGED <<passNow, queue>> /\ frames' = frames \cup {adding.ts}
          /\ OnDisk' = OnDisk /\ NowRounded' = NowRounded
          /\ phase = "write" /\ phase' = "store"
      BY <1>12 DEF CommitAppend, OnDisk, NowRounded
    <2>2. adding.ts \in TS /\ adding.ts <= passNow
      BY <1>0, <2>1 DEF SlotsInWindow, Window
    <2> QED BY <1>0, <1>2, <2>1, <2>2 DEF NoFuture, SlotsInWindow, Window
  <1>13. CASE CommitEvict
    <2>1. /\ UNCHANGED <<passNow, queue>> /\ frames' \subseteq frames \cup {adding.ts}
          /\ NowRounded' = NowRounded /\ phase = "write" /\ phase' = "store"
      BY <1>13 DEF CommitEvict, NowRounded
    <2>2. OnDisk' \subseteq OnDisk
      BY <1>3, <1>13 DEF CommitEvict
    <2>3. adding.ts \in TS /\ adding.ts <= passNow
      BY <1>0, <2>1 DEF SlotsInWindow, Window
    <2> QED BY <1>0, <1>2, <2>1, <2>2, <2>3 DEF NoFuture, SlotsInWindow, Window
  <1>14. CASE WriteRefused
    <2>1. /\ UNCHANGED <<frames, passNow>> /\ OnDisk' = OnDisk
          /\ NowRounded' = NowRounded /\ phase' = "idle"
      BY <1>14 DEF WriteRefused, storeVars, OnDisk, NowRounded
    <2> QED BY <1>0, <2>1 DEF NoFuture, SlotsInWindow
  <1>15. CASE EndPass
    <2>1. /\ UNCHANGED <<frames, passNow>> /\ NowRounded' = NowRounded /\ phase' = "idle"
      BY <1>15 DEF EndPass, storeVars, NowRounded
    <2>2. OnDisk' \subseteq OnDisk
      BY <1>3, <1>15 DEF EndPass
    <2> QED BY <1>0, <2>1, <2>2 DEF NoFuture, SlotsInWindow
  <1>16. CASE Crash
    <2>1. /\ frames' = {} /\ passNow' = 0 /\ OnDisk' = OnDisk
          /\ NowRounded' = NowRounded /\ phase' = "down"
      BY <1>16 DEF Crash, OnDisk, NowRounded
    <2>2. passNow' <= NowRounded'
      BY <1>2, <2>1
    <2>3. NoFuture'
      BY <1>0, <2>1, <2>2 DEF NoFuture
    <2> QED BY <2>1, <2>3 DEF SlotsInWindow
  <1>17. CASE Restart
    <2>1. /\ frames' \subseteq OnDisk /\ UNCHANGED passNow /\ OnDisk' = OnDisk
          /\ NowRounded' = NowRounded /\ phase' = "boot"
      BY <1>17 DEF Restart, Newest, passVars, OnDisk, NowRounded
    <2> QED BY <1>0, <2>1 DEF NoFuture, SlotsInWindow
  <1> QED
    BY <1>4, <1>5, <1>6, <1>7, <1>8, <1>9, <1>10, <1>11, <1>12, <1>13, <1>14,
       <1>15, <1>16, <1>17 DEF Next

\* Every step preserves the inductive invariant.
LEMMA StepIInv == IInv /\ [Next]_vars => IInv'
  <1> SUFFICES ASSUME IInv, [Next]_vars PROVE IInv'
    OBVIOUS
  <1>1. TypeOK'
    BY StepTypeOK DEF IInv, NoFuture
  <1> QED
    BY <1>1, StepBacking, StepNoFuture DEF IInv, Backing

-----------------------------------------------------------------------------
(* The theorems.                                                            *)

\* The inductive invariant, hence type correctness, holds of every behaviour.
THEOREM Invariance == Spec => []IInv
  <1>1. Init => IInv
    BY InitIInv
  <1>2. IInv /\ [Next]_vars => IInv'
    BY StepIInv
  <1> QED BY <1>1, <1>2, PTL DEF Spec

\* FrameStore, RadarFrameCache and the fetcher keep every variable in its type,
\* across crashes and refused writes.
THEOREM TypeCorrectness == Spec => []TypeOK
  <1>1. IInv => TypeOK
    BY DEF IInv
  <1> QED BY <1>1, Invariance, PTL

\* No file of a retained frame is ever unlinked, by FrameStore's reaper or by
\* RadarFrameCache.cleanup, so every state.json names files that exist.
THEOREM RetainedFramesKeepFiles == Spec => []RetainedFramesBacked
  <1>1. IInv => RetainedFramesBacked
    BY DEF IInv
  <1> QED BY <1>1, Invariance, PTL

\* A window holds at most MaxFrames timestamps.
LEMMA WindowSize ==
    ASSUME NEW n \in TS
    PROVE  IsFiniteSet(Window(n)) /\ Cardinality(Window(n)) <= MaxFrames
  <1> DEFINE I == (n - MaxFrames + 1) .. n
  <1>1. IsFiniteSet(I) /\ Cardinality(I) = MaxFrames
    BY FS_Interval
  <1>2. Window(n) \subseteq I
    BY DEF Window
  <1> HIDE DEF I
  <1>3. IsFiniteSet(Window(n)) /\ Cardinality(Window(n)) <= Cardinality(I)
    BY <1>1, <1>2, FS_Subset
  <1> QED BY <1>1, <1>3

\* At capacity the evicted frame predates the window of the pass: the window
\* has no room for the whole store besides the frame being added.
LEMMA EvictedPredatesWindow ==
    ASSUME IInv, CommitEvict
    PROVE  Oldest(frames) \notin Window(passNow)
  <1> DEFINE old == Oldest(frames)
             W == Window(passNow)
  <1>1. /\ frames \in SUBSET TS /\ passNow \in TS /\ adding.ts \in W
        /\ \A t \in frames : t <= passNow
        /\ adding.ts \notin frames /\ Cardinality(frames) >= MaxFrames + GraceFrames
    BY DEF IInv, TypeOK, CommitEvict, NoFuture, SlotsInWindow, Cap
  <1>2. IsFiniteSet(W) /\ Cardinality(W) <= MaxFrames
    BY <1>1, WindowSize
  <1>3. IsFiniteSet(W \ {adding.ts}) /\ Cardinality(W \ {adding.ts}) = Cardinality(W) - 1
    BY <1>1, <1>2, FS_RemoveElement
  <1>4. SUFFICES ASSUME old \in W PROVE FALSE
    OBVIOUS
  <1>5. frames # {}
    BY <1>1, FS_EmptySet
  <1>6. \A t \in frames : old <= t
    BY <1>1, <1>5, OldestFacts
  <1>7. frames \subseteq W \ {adding.ts}
    BY <1>1, <1>4, <1>6 DEF Window
  <1> HIDE DEF W, old
  <1>8. Cardinality(frames) <= Cardinality(W) - 1
    BY <1>3, <1>7, FS_Subset
  <1>9. Cardinality(W) \in Nat /\ Cardinality(frames) \in Nat
    BY <1>2, <1>3, <1>7, FS_CardinalityType, FS_Subset
  <1> QED BY <1>1, <1>2, <1>8, <1>9

\* add_frame never sheds a frame the current pass still wants: no refill of an
\* old gap can push another frame out of the advertised window.
THEOREM WindowSafe == Spec => WindowNeverEvicted
  <1>1. IInv /\ [Next]_vars
          => [phase' # "down" => frames \cap Window(passNow) \subseteq frames']_vars
    <2> SUFFICES ASSUME IInv, Next, phase' # "down"
                 PROVE  frames \cap Window(passNow) \subseteq frames'
      OBVIOUS
    <2>1. CASE CommitEvict
      BY <2>1, EvictedPredatesWindow DEF CommitEvict
    <2>2. CASE Restart
      <3>1. frames = {}
        BY <2>2 DEF IInv, NoFuture, Restart
      <3> QED BY <3>1
    <2>3. CASE ~(CommitEvict \/ Restart \/ Crash)
      BY <2>3 DEF Next, TimePasses, StartInitialPass, StartPass, FetchResults, BeginAdd,
         WriteRegion, CommitMerge, CommitAppend, WriteRefused, EndPass, storeVars
    <2> QED BY <2>1, <2>2, <2>3 DEF Crash
  <1> QED BY <1>1, Invariance, PTL DEF Spec, WindowNeverEvicted

-----------------------------------------------------------------------------
(* Content changes under a version of its own.                              *)

\* A commit into a full store evicts a frame that is not the one it adds.
LEMMA EvictedIsAnother ==
    ASSUME IInv, CommitEvict
    PROVE  /\ Oldest(frames) \in frames /\ Oldest(frames) # adding.ts
           /\ \A t \in frames : Oldest(frames) <= t
  <1>1. frames \in SUBSET TS /\ adding.ts \notin frames /\ Cardinality(frames) >= Cap
    BY DEF IInv, TypeOK, CommitEvict
  <1>2. frames # {}
    BY <1>1, FS_EmptySet DEF Cap
  <1> QED BY <1>1, <1>2, OldestFacts

\* add_frame bumps the version of a frame whose content it changes, so what a
\* render worker compares tells every change of a frame that stays in the store.
THEOREM ChangesAreVersioned == Spec => ContentChangesBumpVersion
  <1>1. IInv /\ [Next]_vars
          => [\A ts \in frames \cap frames' :
                version'[ts] = version[ts] => region'[ts] = region[ts]]_vars
    <2> SUFFICES ASSUME IInv, Next, NEW ts \in frames \cap frames',
                        version'[ts] = version[ts]
                 PROVE  region'[ts] = region[ts]
      OBVIOUS
    <2>0. /\ ts \in TS /\ version \in [TS -> Nat] /\ region \in [TS -> [Regions -> Content]]
          /\ adding.ts \in TS /\ adding.data \in [Regions -> Content]
      BY DEF IInv, TypeOK
    <2>1. CASE CommitMerge
      <3>1. /\ region' = [region EXCEPT ![adding.ts] = Merged(adding.ts, adding.data)]
            /\ version' = [version EXCEPT ![adding.ts] = MergedVersion(adding.ts, adding.data)]
        BY <2>1 DEF CommitMerge
      <3>2. CASE ts # adding.ts
        BY <2>0, <3>1, <3>2
      <3>3. CASE ts = adding.ts
        <4>1. NeedsWrite(ts, adding.data) = {}
          BY <2>0, <3>1, <3>3 DEF MergedVersion
        <4>2. \A r \in Regions : adding.data[r] # Absent => adding.data[r] = region[ts][r]
          BY <4>1 DEF NeedsWrite, Held
        <4>3. Merged(ts, adding.data) = region[ts]
          BY <2>0, <4>2 DEF Merged
        <4> QED BY <2>0, <3>1, <3>3, <4>3
      <3> QED BY <3>2, <3>3
    <2>2. CASE CommitAppend
      BY <2>0, <2>2 DEF CommitAppend
    <2>3. CASE CommitEvict
      <3>1. ts # adding.ts /\ ts # Oldest(frames)
        BY <2>3, EvictedIsAnother DEF CommitEvict
      <3> QED BY <2>0, <2>3, <3>1 DEF CommitEvict
    <2>4. CASE Crash
      BY <2>4 DEF Crash
    <2>5. CASE Restart
      BY <2>5 DEF IInv, NoFuture, Restart
    <2>6. CASE ~(CommitMerge \/ CommitAppend \/ CommitEvict \/ Crash \/ Restart)
      BY <2>6 DEF Next, TimePasses, StartInitialPass, StartPass, FetchResults, BeginAdd,
         WriteRegion, WriteRefused, EndPass, storeVars
    <2> QED BY <2>1, <2>2, <2>3, <2>4, <2>5, <2>6
  <1> QED BY <1>1, Invariance, PTL DEF Spec, ContentChangesBumpVersion

-----------------------------------------------------------------------------
(* What of the store is visible, and what a restart adopts.                 *)

\* A timestamp that n others follow is n intervals back.
LEMMA FollowersCount ==
    ASSUME NEW S \in SUBSET TS, NEW t \in TS, NEW last \in TS,
           \A u \in S : u <= last
    PROVE  /\ IsFiniteSet({u \in S : u > t}) /\ Cardinality({u \in S : u > t}) \in Nat
           /\ t <= last => Cardinality({u \in S : u > t}) <= last - t
           /\ last < t => Cardinality({u \in S : u > t}) = 0
  <1> DEFINE I == (t + 1) .. last
             F == {u \in S : u > t}
  <1>1. IsFiniteSet(I) /\ Cardinality(I) = IF t + 1 > last THEN 0 ELSE last - t
    BY FS_Interval
  <1>2. F \subseteq I
    <2> SUFFICES ASSUME NEW u \in S, u > t PROVE u \in t + 1 .. last
      OBVIOUS
    <2>1. u \in Nat /\ t \in Nat /\ last \in Nat /\ u <= last
      OBVIOUS
    <2> QED BY <2>1
  <1> HIDE DEF I, F
  <1>3. IsFiniteSet(F) /\ Cardinality(F) <= Cardinality(I) /\ Cardinality(F) \in Nat
    BY <1>1, <1>2, FS_Subset, FS_CardinalityType
  <1> QED BY <1>1, <1>3 DEF F

\* Every frame of the clock's window is visible: only younger ones are counted.
LEMMA WindowVisible ==
    ASSUME IInv
    PROVE  frames \cap Window(NowRounded) \subseteq Visible
  <1> SUFFICES ASSUME NEW t \in frames, t \in Window(NowRounded) PROVE t \in Visible
    OBVIOUS
  <1>1. /\ frames \in SUBSET TS /\ t \in TS /\ NowRounded \in TS
        /\ \A u \in frames : u <= NowRounded
        /\ NowRounded - MaxFrames < t /\ t <= NowRounded
    BY DEF IInv, TypeOK, NoFuture, Window
  <1>2. /\ Cardinality({u \in frames : u > t}) <= NowRounded - t
        /\ Cardinality({u \in frames : u > t}) \in Nat
    BY <1>1, FollowersCount
  <1>3. Cardinality({u \in frames : u > t}) < MaxFrames
    BY <1>1, <1>2
  <1> QED BY <1>3 DEF Visible, Newest

\* A hidden frame stays hidden when another one is added.
LEMMA HiddenStaysHidden ==
    ASSUME IInv, CommitAppend \/ CommitEvict
    PROVE  Visible' \subseteq Visible \cup {adding.ts}
  <1> SUFFICES ASSUME NEW t \in Visible', t # adding.ts PROVE t \in Visible
    OBVIOUS
  <1> DEFINE F == {u \in frames : u > t}
             G == {u \in frames' : u > t}
  <1>1. /\ frames \in SUBSET TS /\ frames' \in SUBSET TS
        /\ t \in frames' /\ Cardinality(G) < MaxFrames
    <2>1. t \in frames' /\ Cardinality(G) < MaxFrames
      BY DEF Visible, Newest
    <2>2. frames \in SUBSET TS /\ adding.ts \in TS
      BY DEF IInv, TypeOK
    <2>3. frames' \subseteq frames \cup {adding.ts}
      BY DEF CommitAppend, CommitEvict
    <2> QED BY <2>1, <2>2, <2>3
  <1>2. t \in frames /\ F \subseteq G
    <2>1. CASE CommitAppend
      BY <1>1, <2>1 DEF CommitAppend
    <2>2. CASE CommitEvict
      <3>1. Oldest(frames) \in frames /\ \A u \in frames : Oldest(frames) <= u
        BY <2>2, EvictedIsAnother
      <3>2. frames' = (frames \ {Oldest(frames)}) \cup {adding.ts}
        BY <2>2 DEF CommitEvict
      <3>3. t \in frames
        BY <1>1, <3>2
      <3>4. \A u \in frames : u > t => u # Oldest(frames)
        BY <1>1, <3>1, <3>3
      <3> QED BY <3>2, <3>3, <3>4
    <2> QED BY <2>1, <2>2
  <1>3. IsFiniteSet(F) /\ Cardinality(F) \in Nat /\ IsFiniteSet(G) /\ Cardinality(G) \in Nat
    <2>1. Horizon \in TS /\ t \in TS /\ \A u \in TS : u <= Horizon
      BY <1>1
    <2>2. \A u \in frames \cup frames' : u <= Horizon
      BY <1>1, <2>1
    <2> QED BY <1>1, <2>1, <2>2, FollowersCount
  <1> HIDE DEF F, G
  <1>4. Cardinality(F) <= Cardinality(G)
    BY <1>2, <1>3, FS_Subset
  <1>5. Cardinality(F) < MaxFrames
    BY <1>1, <1>3, <1>4
  <1> QED BY <1>2, <1>5 DEF Visible, Newest, F

\* What a warm restart evicts of the files it finds predates the window.
LEMMA RestartEvictsOld ==
    ASSUME IInv, NEW t \in OnDisk \ Newest(OnDisk, Cap)
    PROVE  t + MaxFrames <= NowRounded
  <1>1. /\ OnDisk \in SUBSET TS /\ t \in TS /\ NowRounded \in TS
        /\ \A u \in OnDisk : u <= NowRounded
    BY DEF IInv, OnDisk, NoFuture
  <1>2. /\ Cardinality({u \in OnDisk : u > t}) <= NowRounded - t
        /\ Cardinality({u \in OnDisk : u > t}) \in Nat
    BY <1>1, FollowersCount
  <1>3. ~(Cardinality({u \in OnDisk : u > t}) < Cap)
    BY DEF Newest
  <1> QED BY <1>1, <1>2, <1>3 DEF Cap

-----------------------------------------------------------------------------
(* The grace window.                                                        *)

\* No step leaves an empty frame in the store or in add_frame.
LEMMA StepFramesHold == IInv /\ FramesHold /\ [Next]_vars => FramesHold'
  <1> SUFFICES ASSUME IInv, FramesHold, [Next]_vars PROVE FramesHold'
    OBVIOUS
  <1>0. /\ region \in [TS -> [Regions -> Content]] /\ frames \in SUBSET TS
        /\ adding.ts \in TS /\ adding.data \in [Regions -> Content]
    BY DEF IInv, TypeOK
  <1>1. ASSUME Quiet PROVE FramesHold'
    BY <1>1 DEF Quiet, FramesHold, Held
  <1>2. CASE UNCHANGED vars
    BY <1>1, <1>2 DEF Quiet, vars, passVars, storeVars
  <1>3. CASE TimePasses \/ StartInitialPass \/ StartPass \/ FetchResults \/ WriteRefused
    BY <1>1, <1>3 DEF Quiet, TimePasses, StartInitialPass, StartPass, FetchResults,
       WriteRefused, passVars, storeVars
  <1>4. CASE BeginAdd
    <2> DEFINE data == FrameData(Oldest(queue))
    <2>1. UNCHANGED <<frames, region>> /\ phase = "store"
      BY <1>4 DEF BeginAdd, storeVars
    <2>2. phase' = "write" => adding'.data = data /\ Held(data) # {}
      BY <1>4 DEF BeginAdd
    <2> QED BY <2>1, <2>2 DEF FramesHold, Held
  <1>5. ASSUME NEW r \in Regions, WriteRegion(r) PROVE FramesHold'
    BY <1>5 DEF FramesHold, Held, WriteRegion, storeVars
  <1>6. CASE CommitMerge
    <2>1. /\ frames' = frames /\ phase = "write" /\ phase' = "store"
          /\ region' = [region EXCEPT ![adding.ts] = Merged(adding.ts, adding.data)]
      BY <1>6 DEF CommitMerge
    <2>2. Held(adding.data) \subseteq Held(Merged(adding.ts, adding.data))
      BY DEF Held, Merged
    <2>3. Held(adding.data) # {}
      BY <2>1 DEF FramesHold
    <2> QED BY <1>0, <2>1, <2>2, <2>3 DEF FramesHold, Held
  <1>7. CASE CommitAppend
    BY <1>0, <1>7 DEF CommitAppend, FramesHold, Held
  <1>8. CASE CommitEvict
    <2>1. /\ frames' = (frames \ {Oldest(frames)}) \cup {adding.ts}
          /\ region' = [region EXCEPT ![Oldest(frames)] = EmptyFrame, ![adding.ts] = adding.data]
          /\ phase = "write" /\ phase' = "store"
      BY <1>8 DEF CommitEvict
    <2>2. \A t \in frames \ {Oldest(frames)} : t # adding.ts => region'[t] = region[t]
      BY <1>0, <2>1
    <2>3. region'[adding.ts] = adding.data
      BY <1>0, <2>1
    <2>4. \A t \in frames' : Held(region'[t]) # {}
      <3> SUFFICES ASSUME NEW t \in frames' PROVE Held(region'[t]) # {}
        OBVIOUS
      <3>1. CASE t = adding.ts
        BY <2>1, <2>3, <3>1 DEF FramesHold
      <3>2. CASE t # adding.ts
        <4>1. t \in frames \ {Oldest(frames)}
          BY <2>1, <3>2
        <4> QED BY <2>2, <3>2, <4>1 DEF FramesHold
      <3> QED BY <3>1, <3>2
    <2> QED BY <2>1, <2>4 DEF FramesHold, Held
  <1>9. CASE EndPass \/ Crash
    BY <1>9 DEF EndPass, Crash, FramesHold, Held, storeVars
  <1>10. CASE Restart
    <2>1. frames' = Newest(OnDisk, Cap) /\ phase' = "boot"
          /\ \A t \in frames' : region'[t] = disk[t]
      BY <1>10 DEF Restart, Newest, OnDisk
    <2>2. \A t \in frames' : \E r \in Regions : disk[t][r] # Absent
      BY <2>1 DEF Newest, OnDisk
    <2> QED BY <2>1, <2>2 DEF FramesHold, Held
  <1> QED
    BY <1>2, <1>3, <1>4, <1>5, <1>6, <1>7, <1>8, <1>9, <1>10 DEF Next

\* A file the eviction of a full store makes a stray was not clocked yet.
LEMMA EvictedUnclocked ==
    ASSUME IInv, ClocksDropped, CommitEvict, failures <= 1
    PROVE  inactiveSince[Oldest(frames)] = Absent
  <1>1. Oldest(frames) \in frames /\ Oldest(frames) \notin Window(passNow)
    BY EvictedIsAnother, EvictedPredatesWindow
  <1> QED BY <1>1 DEF ClocksDropped

\* No step starts a reaper's clock before its timestamp has left the store.
LEMMA StepClocksFollow ==
    IInv /\ ClocksFollowLeaving /\ ClocksDropped /\ [Next]_vars => ClocksFollowLeaving'
  <1> SUFFICES ASSUME IInv, ClocksFollowLeaving, ClocksDropped, [Next]_vars
               PROVE  ClocksFollowLeaving'
    OBVIOUS
  <1>0. /\ frames \in SUBSET TS /\ clock \in Nat /\ adding.ts \in TS /\ failures \in Nat
        /\ evictPending \in [TS -> Nat \cup {-1}] /\ leftAt \in [TS -> Nat \cup {-1}]
        /\ inactiveSince \in [TS -> Nat \cup {-1}]
    BY DEF IInv, TypeOK
  <1>2. CASE UNCHANGED vars
    BY <1>0, <1>2 DEF ClocksFollowLeaving, vars, storeVars, bounds
  <1>3. CASE TimePasses \/ StartInitialPass \/ StartPass \/ FetchResults \/ BeginAdd
    <2>1. /\ UNCHANGED <<frames, evictPending, inactiveSince, leftAt, failures>>
          /\ clock' \in Nat /\ clock <= clock'
      BY <1>0, <1>3 DEF TimePasses, StartInitialPass, StartPass, FetchResults, BeginAdd,
         storeVars, bounds
    <2>2. \A t \in TS : leftAt[t] \in Int /\ leftAt[t] <= clock
      BY <1>0 DEF ClocksFollowLeaving
    <2>3. \A t \in TS : leftAt[t] <= clock'
      BY <1>0, <2>1, <2>2
    <2> QED BY <2>1, <2>3 DEF ClocksFollowLeaving
  <1>4. ASSUME NEW r \in Regions, WriteRegion(r) PROVE ClocksFollowLeaving'
    BY <1>4 DEF WriteRegion, ClocksFollowLeaving, storeVars, bounds
  <1>5. CASE WriteRefused
    BY <1>0, <1>5 DEF WriteRefused, ClocksFollowLeaving, storeVars
  <1>6. CASE CommitMerge \/ CommitAppend
    <2>1. /\ frames \subseteq frames' /\ UNCHANGED <<clock, leftAt, inactiveSince, failures>>
          /\ evictPending' = [evictPending EXCEPT ![adding.ts] = Absent]
      BY <1>6 DEF CommitMerge, CommitAppend, bounds
    <2> QED BY <1>0, <2>1 DEF ClocksFollowLeaving
  <1>7. CASE CommitEvict
    <2> DEFINE old == Oldest(frames)
    <2>1. /\ frames' = (frames \ {old}) \cup {adding.ts}
          /\ UNCHANGED <<clock, inactiveSince, failures>>
          /\ leftAt' = [leftAt EXCEPT ![old] = clock]
          /\ evictPending' = [u \in TS |-> IF u = old THEN clock
                                           ELSE IF u \in Reapable(adding.ts) \cup {adding.ts}
                                                THEN Absent ELSE evictPending[u]]
      BY <1>7 DEF CommitEvict, bounds
    <2>2. old \in TS
      BY <1>0, <1>7, EvictedIsAnother
    <2>3. failures <= 1 => inactiveSince[old] = Absent
      BY <1>7, EvictedUnclocked
    <2> HIDE DEF old
    <2> QED BY <1>0, <2>1, <2>2, <2>3 DEF ClocksFollowLeaving
  <1>8. CASE EndPass
    <2>1. /\ UNCHANGED <<frames, clock, leftAt, evictPending, failures>>
          /\ \A t \in TS : inactiveSince'[t] \in {Absent, clock, inactiveSince[t]}
      BY <1>0, <1>8 DEF EndPass, storeVars, bounds
    <2> QED BY <1>0, <2>1 DEF ClocksFollowLeaving
  <1>9. CASE Crash
    <2>1. /\ frames' = {} /\ clock' = clock /\ evictPending' = NoTicks /\ inactiveSince' = NoTicks
          /\ leftAt' = [t \in TS |-> IF t \in frames THEN clock ELSE leftAt[t]]
      BY <1>9 DEF Crash
    <2> QED BY <1>0, <2>1 DEF ClocksFollowLeaving, NoTicks
  <1>10. CASE Restart
    <2> DEFINE kept == Newest(OnDisk, Cap)
    <2>1. /\ phase = "down" /\ clock' = clock /\ inactiveSince' = inactiveSince
          /\ evictPending' = [t \in TS |-> IF t \in OnDisk \ kept THEN clock ELSE Absent]
          /\ leftAt' = [t \in TS |-> IF t \in OnDisk \ kept THEN clock ELSE leftAt[t]]
      BY <1>10 DEF Restart
    <2>2. inactiveSince = NoTicks
      BY <2>1 DEF ClocksDropped
    <2> HIDE DEF kept
    <2> QED BY <1>0, <2>1, <2>2 DEF ClocksFollowLeaving, NoTicks
  <1> QED
    BY <1>2, <1>3, <1>4, <1>5, <1>6, <1>7, <1>8, <1>9, <1>10 DEF Next

\* The cleanup that ends a pass drops the clocks of the stored timestamps.
LEMMA StepClocksDropped ==
    IInv /\ FramesHold /\ ClocksDropped /\ StraysPredateWindow /\ [Next]_vars => ClocksDropped'
  <1> SUFFICES ASSUME IInv, FramesHold, ClocksDropped, StraysPredateWindow, [Next]_vars
               PROVE  ClocksDropped'
    OBVIOUS
  <1>0. /\ frames \in SUBSET TS /\ clock \in Nat /\ adding.ts \in TS /\ failures \in Nat
        /\ inactiveSince \in [TS -> Nat \cup {-1}] /\ passNow \in TS /\ NowRounded \in TS
        /\ passNow <= NowRounded /\ region \in [TS -> [Regions -> Content]]
    BY DEF IInv, TypeOK, NoFuture
  <1>1. CASE UNCHANGED vars
    BY <1>1 DEF ClocksDropped, vars, passVars, storeVars, bounds, Window
  <1>2. CASE TimePasses
    BY <1>2 DEF ClocksDropped, TimePasses, passVars, storeVars, bounds, Window
  <1>3. CASE StartInitialPass
    <2>1. /\ phase = "boot" /\ phase' = "fetch" /\ UNCHANGED <<frames, inactiveSince>>
      BY <1>3 DEF StartInitialPass, storeVars
    <2> QED BY <1>0, <2>1 DEF ClocksDropped, NoTicks
  <1>4. CASE StartPass
    <2>1. /\ phase = "idle" /\ phase' \in {"idle", "fetch"} /\ passNow' = NowRounded
          /\ UNCHANGED <<frames, inactiveSince, failures>>
      BY <1>4 DEF StartPass, storeVars, bounds
    <2>2. \A t \in TS : t + MaxFrames <= passNow => t + MaxFrames <= NowRounded
      BY <1>0
    <2> QED BY <1>0, <2>1, <2>2 DEF ClocksDropped
  <1>5. CASE FetchResults \/ BeginAdd
    <2>1. /\ phase \in {"fetch", "store"} /\ phase' \in {"store", "write"}
          /\ UNCHANGED <<frames, inactiveSince, failures, passNow>>
      BY <1>5 DEF FetchResults, BeginAdd, storeVars, bounds
    <2> QED BY <1>0, <2>1 DEF ClocksDropped, Window
  <1>6. ASSUME NEW r \in Regions, WriteRegion(r) PROVE ClocksDropped'
    BY <1>6 DEF WriteRegion, ClocksDropped, storeVars, bounds, Window
  <1>7. CASE WriteRefused
    <2>1. /\ phase' = "idle" /\ failures' = failures + 1
          /\ UNCHANGED <<frames, inactiveSince, passNow>>
      BY <1>7 DEF WriteRefused, storeVars
    <2> QED BY <1>0, <2>1 DEF ClocksDropped
  <1>8. CASE CommitMerge \/ CommitAppend \/ CommitEvict
    <2>1. /\ phase = "write" /\ phase' = "store" /\ frames' \subseteq frames \cup {adding.ts}
          /\ UNCHANGED <<inactiveSince, failures, passNow>>
      BY <1>8 DEF CommitMerge, CommitAppend, CommitEvict, bounds
    <2>2. adding.ts \in Window(passNow)
      BY <2>1 DEF IInv, SlotsInWindow
    <2>3. ~(adding.ts + MaxFrames <= passNow)
      BY <1>0, <2>2 DEF Window
    <2> QED BY <1>0, <2>1, <2>2, <2>3 DEF ClocksDropped, Window
  <1>9. CASE EndPass
    <2>1. /\ phase = "store" /\ phase' = "idle" /\ UNCHANGED <<frames, failures, passNow>>
          /\ \A t \in TS :
               inactiveSince'[t] = IF t \in {u \in Inactive : Elapsed(inactiveSince[u])}
                                            \cup (OnDisk \ Inactive) THEN Absent
                                   ELSE IF t \in Inactive /\ inactiveSince[t] = Absent THEN clock
                                   ELSE inactiveSince[t]
      BY <1>9 DEF EndPass, storeVars, bounds
    <2>2. frames \subseteq OnDisk \ Inactive
      <3> SUFFICES ASSUME NEW t \in frames PROVE t \in OnDisk
        BY DEF Inactive
      <3>1. PICK r \in Regions : region[t][r] # Absent
        BY DEF FramesHold, Held
      <3>2. disk[t][r] # Absent
        BY <3>1 DEF IInv, RetainedFramesBacked, Held
      <3> QED BY <1>0, <3>2 DEF OnDisk
    <2>3. \A t \in frames : inactiveSince'[t] = Absent
      BY <1>0, <2>1, <2>2
    <2>4. failures = 0 => \A t \in OnDisk \ frames : t + MaxFrames <= passNow
      BY <2>1 DEF StraysPredateWindow
    <2>5. failures = 0 => \A t \in TS : inactiveSince'[t] # Absent => t + MaxFrames <= passNow
      <3> SUFFICES ASSUME failures = 0, NEW t \in TS, inactiveSince'[t] # Absent
                   PROVE  t + MaxFrames <= passNow
        OBVIOUS
      <3>1. CASE t \in Inactive
        BY <2>4, <3>1 DEF Inactive
      <3>2. CASE t \notin Inactive
        BY <2>1, <3>2 DEF ClocksDropped
      <3> QED BY <3>1, <3>2
    <2> QED BY <2>1, <2>3, <2>5 DEF ClocksDropped
  <1>10. CASE Crash
    BY <1>10 DEF Crash, ClocksDropped, NoTicks
  <1>11. CASE Restart
    <2>1. phase = "down" /\ phase' = "boot" /\ UNCHANGED inactiveSince /\ frames' \subseteq TS
      BY <1>11 DEF Restart, Newest, OnDisk
    <2> QED BY <2>1 DEF ClocksDropped, NoTicks
  <1> QED
    BY <1>1, <1>2, <1>3, <1>4, <1>5, <1>6, <1>7, <1>8, <1>9, <1>10, <1>11 DEF Next

\* Without a refused write every file outside the store is older than the window.
LEMMA StepStrays ==
    IInv /\ IInv' /\ StraysPredateWindow /\ [Next]_vars => StraysPredateWindow'
  <1> SUFFICES ASSUME IInv, IInv', StraysPredateWindow, [Next]_vars
               PROVE  StraysPredateWindow'
    OBVIOUS
  <1>0. /\ frames \in SUBSET TS /\ clock \in Nat /\ adding.ts \in TS /\ failures \in Nat
        /\ passNow \in TS /\ NowRounded \in TS /\ passNow <= NowRounded
        /\ NowRounded' \in TS /\ OnDisk \in SUBSET TS
        /\ disk \in [TS -> [Regions -> Content]]
    BY DEF IInv, TypeOK, NoFuture, OnDisk
  <1>1. ASSUME NEW S, disk' = Unlink(S) PROVE OnDisk' \subseteq OnDisk
    BY <1>0, <1>1 DEF OnDisk, Unlink, EmptyFrame
  <1>2. CASE UNCHANGED vars
    <2>1. OnDisk' = OnDisk /\ NowRounded' = NowRounded
      BY <1>2 DEF vars, OnDisk, NowRounded
    <2> QED BY <1>2, <2>1 DEF StraysPredateWindow, vars, passVars, storeVars, bounds
  <1>3. CASE TimePasses
    <2>1. /\ UNCHANGED <<phase, frames, passNow, adding, failures>> /\ OnDisk' = OnDisk
      BY <1>3 DEF TimePasses, passVars, storeVars, bounds, OnDisk
    <2>2. NowRounded <= NowRounded'
      BY <1>0, <1>3, NextInterval DEF IInv
    <2>3. \A t \in TS : t + MaxFrames <= NowRounded => t + MaxFrames <= NowRounded'
      BY <1>0, <2>2
    <2> QED BY <1>0, <2>1, <2>3 DEF StraysPredateWindow
  <1>4. CASE StartInitialPass
    <2>1. /\ phase = "boot" /\ phase' = "fetch" /\ UNCHANGED <<frames, failures>>
          /\ passNow' = NowRounded /\ OnDisk' = OnDisk
      BY <1>4 DEF StartInitialPass, storeVars, bounds, OnDisk
    <2> QED BY <2>1 DEF StraysPredateWindow
  <1>5. CASE StartPass
    <2>1. /\ phase = "idle" /\ phase' \in {"idle", "fetch"} /\ UNCHANGED <<frames, failures>>
          /\ passNow' = NowRounded /\ OnDisk' = OnDisk
      BY <1>5 DEF StartPass, storeVars, bounds, OnDisk
    <2>2. \A t \in TS : t + MaxFrames <= passNow => t + MaxFrames <= NowRounded
      BY <1>0
    <2> QED BY <1>0, <2>1, <2>2 DEF StraysPredateWindow
  <1>6. CASE FetchResults \/ BeginAdd
    <2>1. /\ phase \in {"fetch", "store"} /\ phase' \in {"store", "write"}
          /\ UNCHANGED <<frames, failures, passNow>> /\ OnDisk' = OnDisk
      BY <1>6 DEF FetchResults, BeginAdd, storeVars, bounds, OnDisk
    <2> QED BY <2>1 DEF StraysPredateWindow
  <1>7. ASSUME NEW r \in Regions, WriteRegion(r) PROVE StraysPredateWindow'
    <2>1. /\ phase = "write" /\ UNCHANGED <<phase, frames, failures, passNow, adding>>
          /\ disk' = [disk EXCEPT ![adding.ts][r] = adding.data[r]]
      BY <1>7 DEF WriteRegion, storeVars, bounds
    <2>2. OnDisk' \subseteq OnDisk \cup {adding.ts}
      BY <1>0, <2>1 DEF OnDisk
    <2> QED BY <2>1, <2>2 DEF StraysPredateWindow
  <1>8. CASE WriteRefused
    BY <1>0, <1>8 DEF WriteRefused, StraysPredateWindow
  <1>9. CASE CommitMerge \/ CommitAppend
    <2>1. /\ phase = "write" /\ phase' = "store" /\ UNCHANGED <<failures, passNow>>
          /\ OnDisk' = OnDisk /\ frames \cup {adding.ts} \subseteq frames'
      BY <1>9 DEF CommitMerge, CommitAppend, bounds, OnDisk
    <2> QED BY <2>1 DEF StraysPredateWindow
  <1>10. CASE CommitEvict
    <2>1. /\ phase = "write" /\ phase' = "store" /\ UNCHANGED <<failures, passNow>>
          /\ frames' = (frames \ {Oldest(frames)}) \cup {adding.ts}
      BY <1>10 DEF CommitEvict, bounds
    <2>2. OnDisk' \subseteq OnDisk
      BY <1>1, <1>10 DEF CommitEvict
    <2>3. Oldest(frames) + MaxFrames <= passNow
      <3>1. Oldest(frames) \in frames /\ Oldest(frames) \notin Window(passNow)
        BY <1>10, EvictedIsAnother, EvictedPredatesWindow
      <3>2. Oldest(frames) <= passNow /\ Oldest(frames) \in TS
        BY <1>0, <2>1, <3>1 DEF IInv, NoFuture
      <3>3. ~(passNow - MaxFrames < Oldest(frames))
        BY <1>0, <3>1, <3>2 DEF Window
      <3> QED BY <1>0, <3>2, <3>3
    <2> QED BY <2>1, <2>2, <2>3 DEF StraysPredateWindow
  <1>11. CASE EndPass
    <2>1. /\ phase = "store" /\ phase' = "idle" /\ UNCHANGED <<frames, failures, passNow>>
      BY <1>11 DEF EndPass, storeVars, bounds
    <2>2. OnDisk' \subseteq OnDisk
      BY <1>1, <1>11 DEF EndPass
    <2> QED BY <2>1, <2>2 DEF StraysPredateWindow
  <1>12. CASE Crash
    BY <1>12 DEF Crash, StraysPredateWindow
  <1>13. CASE Restart
    <2>1. /\ phase' = "boot" /\ frames' = Newest(OnDisk, Cap)
          /\ OnDisk' = OnDisk /\ NowRounded' = NowRounded
      BY <1>13 DEF Restart, OnDisk, NowRounded
    <2>2. \A t \in OnDisk' \ frames' : t + MaxFrames <= NowRounded'
      BY <2>1, RestartEvictsOld
    <2> QED BY <2>1, <2>2 DEF StraysPredateWindow
  <1> QED
    BY <1>2, <1>3, <1>4, <1>5, <1>6, <1>7, <1>8, <1>9, <1>10, <1>11, <1>12, <1>13 DEF Next

\* The clocks of the two reapers, in every behaviour.
LEMMA GraceInvariance == Spec => []GraceInv
  <1>1. Init => GraceInv
    <2> SUFFICES ASSUME Init PROVE GraceInv
      OBVIOUS
    <2>1. FramesHold /\ StraysPredateWindow
      BY DEF Init, FramesHold, StraysPredateWindow, OnDisk, EmptyFrames, EmptyFrame
    <2>2. ClocksFollowLeaving /\ ClocksDropped
      BY DEF Init, ClocksFollowLeaving, ClocksDropped, NoTicks
    <2> QED BY <2>1, <2>2 DEF GraceInv
  <1>2. IInv /\ IInv' /\ GraceInv /\ [Next]_vars => GraceInv'
    BY StepFramesHold, StepClocksFollow, StepClocksDropped, StepStrays DEF GraceInv
  <1> QED BY <1>1, <1>2, Invariance, PTL DEF Spec

\* Whatever crashes, and while at most one write is refused, neither reaper
\* unlinks a file before its timestamp has been out of the store for a whole
\* grace window.
THEOREM GraceKept == Spec => UnlinkedAfterGrace
  <1>1. IInv /\ GraceInv /\ [Next]_vars
          => [failures <= 1 =>
                \A ts \in TS : \A r \in Regions :
                   (disk[ts][r] # Absent /\ disk'[ts][r] = Absent)
                      => ts \notin frames
                         /\ (leftAt[ts] = Absent \/ clock - leftAt[ts] >= EvictGrace)]_vars
    <2> SUFFICES ASSUME IInv, GraceInv, Next, failures <= 1, NEW ts \in TS, NEW r \in Regions,
                        disk[ts][r] # Absent, disk'[ts][r] = Absent
                 PROVE  /\ ts \notin frames
                        /\ leftAt[ts] = Absent \/ clock - leftAt[ts] >= EvictGrace
      OBVIOUS
    <2>0. /\ disk \in [TS -> [Regions -> Content]] /\ clock \in Nat
          /\ evictPending \in [TS -> Nat \cup {-1}] /\ leftAt \in [TS -> Nat \cup {-1}]
          /\ inactiveSince \in [TS -> Nat \cup {-1}]
          /\ adding.ts \in TS /\ adding.data \in [Regions -> Content]
      BY DEF IInv, TypeOK
    <2>1. ASSUME NEW S, disk' = Unlink(S) PROVE ts \in S
      BY <2>0, <2>1 DEF Unlink
    <2>2. CASE CommitEvict
      <3>1. ts \in Reapable(adding.ts)
        BY <2>1, <2>2 DEF CommitEvict
      <3>2. evictPending[ts] # Absent /\ clock - evictPending[ts] >= EvictGrace
        BY <3>1 DEF Reapable, Elapsed
      <3>3. ts \notin frames /\ leftAt[ts] = evictPending[ts]
        BY <3>2 DEF IInv, PendingAreGone, GraceInv, ClocksFollowLeaving
      <3> QED BY <3>2, <3>3
    <2>3. CASE EndPass
      <3>1. ts \in Inactive /\ Elapsed(inactiveSince[ts])
        BY <2>1, <2>3 DEF EndPass
      <3>2. inactiveSince[ts] # Absent /\ clock - inactiveSince[ts] >= EvictGrace
        BY <3>1 DEF Elapsed
      <3>3. ts \notin frames /\ leftAt[ts] <= inactiveSince[ts]
        BY <3>1, <3>2 DEF Inactive, GraceInv, ClocksFollowLeaving
      <3> QED BY <2>0, <3>2, <3>3
    <2>4. ASSUME NEW q \in Regions, WriteRegion(q) PROVE FALSE
      <3>1. /\ phase = "write" /\ q \in toWrite
            /\ disk' = [disk EXCEPT ![adding.ts][q] = adding.data[q]]
        BY <2>4 DEF WriteRegion
      <3>2. adding.data[q] # Absent
        BY <3>1 DEF IInv, AddingBacked, Held
      <3> QED BY <2>0, <3>1, <3>2
    <2>5. CASE UNCHANGED disk
      BY <2>5
    <2> QED
      BY <2>2, <2>3, <2>4, <2>5 DEF Next, TimePasses, StartInitialPass, StartPass, FetchResults,
         BeginAdd, CommitMerge, CommitAppend, WriteRefused, Crash, Restart
  <1> QED BY <1>1, Invariance, GraceInvariance, PTL DEF Spec, UnlinkedAfterGrace

-----------------------------------------------------------------------------
(* Real data and carried copies, in the first life of the process.          *)

\* Only a crash stops the process, and only a restart has frames at boot.
LEMMA StepFirstLife == TypeOK /\ FirstLife /\ [Next]_vars => FirstLife'
  <1> SUFFICES ASSUME TypeOK, FirstLife, [Next]_vars PROVE FirstLife'
    OBVIOUS
  <1>1. CASE TimePasses \/ UNCHANGED vars
    BY <1>1 DEF FirstLife, TimePasses, vars, storeVars, bounds
  <1>2. CASE Crash
    BY <1>2 DEF FirstLife, Crash, TypeOK
  <1>3. CASE Restart
    BY <1>3 DEF FirstLife, Restart, TypeOK, bounds
  <1>4. CASE StartInitialPass \/ StartPass \/ FetchResults \/ BeginAdd
    BY <1>4 DEF FirstLife, StartInitialPass, StartPass, FetchResults, BeginAdd
  <1>5. CASE CommitMerge \/ CommitAppend \/ CommitEvict \/ WriteRefused \/ EndPass
    BY <1>5 DEF FirstLife, CommitMerge, CommitAppend, CommitEvict, WriteRefused, EndPass
  <1>6. ASSUME NEW r \in Regions, WriteRegion(r) PROVE FirstLife'
    BY <1>6 DEF FirstLife, WriteRegion, storeVars, bounds
  <1> QED BY <1>1, <1>2, <1>3, <1>4, <1>5, <1>6 DEF Next

\* What a slot is given: its own product where it was served, and otherwise an
\* older one only where the pass knew of nothing in the store.
LEMMA FrameDataFacts ==
    ASSUME TypeOK, NEW ts \in TS, NEW r \in Regions
    PROVE  /\ r \in got[ts] => FrameData(ts)[r] = ts
           /\ r \notin got[ts] /\ FrameData(ts)[r] # Absent => r \in CarriedInto(ts)
           /\ r \in skip[ts] => FrameData(ts)[r] \in {Absent, ts}
  BY DEF FrameData, CarriedInto, Missing

\* The pass's view of the store stays ahead of what its later slots hold.
LEMMA StepSkipCovers ==
    IInv /\ FirstLife /\ SkipCoversStore /\ [Next]_vars => SkipCoversStore'
  <1> SUFFICES ASSUME IInv, FirstLife, SkipCoversStore, [Next]_vars, crashes' = 0
               PROVE  SkipCoversStore'
    BY DEF SkipCoversStore
  <1>0. /\ frames \in SUBSET TS /\ crashes \in Nat /\ adding.ts \in TS /\ queue \in SUBSET TS
        /\ region \in [TS -> [Regions -> Content]] /\ NowRounded \in TS
        /\ skip \in [TS -> SUBSET Regions] /\ got \in [TS -> SUBSET Regions]
        /\ adding.data \in [Regions -> Content]
        /\ \A t \in TS \ frames : Held(region[t]) = {}
    BY DEF IInv, TypeOK, NoFuture, OnlyFramesHeld, EmptyFrame, Held
  <1>1. ASSUME phase' \in {"idle", "down", "boot"} PROVE SkipCoversStore'
    BY <1>1 DEF SkipCoversStore
  <1>2. CASE TimePasses \/ UNCHANGED vars
    BY <1>2 DEF SkipCoversStore, TimePasses, vars, passVars, storeVars, bounds, Held
  <1>3. CASE StartInitialPass
    <2>1. /\ phase = "boot" /\ phase' = "fetch" /\ queue' = {NowRounded}
          /\ UNCHANGED <<region, crashes>>
      BY <1>3 DEF StartInitialPass, storeVars, bounds
    <2>2. frames = {}
      BY <2>1 DEF FirstLife
    <2>3. Held(region[NowRounded]) = {}
      BY <1>0, <2>2
    <2> QED BY <2>1, <2>3 DEF SkipCoversStore, Held
  <1>4. CASE StartPass
    <2>1. /\ phase' \in {"idle", "fetch"} /\ queue' = Incomplete /\ skip' = RegionKeys
          /\ UNCHANGED <<region, crashes>>
      BY <1>4 DEF StartPass, storeVars, bounds
    <2>2. ASSUME NEW t \in Incomplete PROVE Held(region[t]) \subseteq RegionKeys[t]
      <3>1. t \in TS /\ t \in Window(NowRounded)
        BY DEF Incomplete, Window
      <3>2. t \in frames => t \in Visible
        BY <3>1, WindowVisible
      <3> QED BY <1>0, <3>1, <3>2 DEF RegionKeys
    <2> QED BY <2>1, <2>2 DEF SkipCoversStore, Held
  <1>5. CASE FetchResults
    BY <1>5 DEF FetchResults, SkipCoversStore, storeVars, bounds, Held
  <1>6. CASE BeginAdd
    <2> DEFINE ts == Oldest(queue)
               data == FrameData(ts)
    <2>1. /\ phase = "store" /\ queue # {} /\ queue' = queue \ {ts}
          /\ UNCHANGED <<skip, region, crashes>>
          /\ \/ phase' = "store"
             \/ phase' = "write" /\ adding' = [ts |-> ts, data |-> data]
      BY <1>6 DEF BeginAdd, storeVars, bounds
    <2>2. ts \in queue /\ ts \in TS
      BY <1>0, <2>1, OldestFacts
    <2>3. \A r \in skip[ts] : data[r] \in {Absent, ts}
      BY <1>0, <2>2, FrameDataFacts DEF IInv
    <2>4. \A t \in queue : Held(region[t]) \subseteq skip[t]
      BY <2>1 DEF SkipCoversStore
    <2> HIDE DEF ts, data
    <2> QED BY <2>1, <2>2, <2>3, <2>4 DEF SkipCoversStore, Held
  <1>7. ASSUME NEW r \in Regions, WriteRegion(r) PROVE SkipCoversStore'
    BY <1>7 DEF WriteRegion, SkipCoversStore, storeVars, bounds, Held
  <1>8. CASE CommitMerge \/ CommitAppend
    <2>1. /\ phase = "write" /\ phase' = "store" /\ UNCHANGED <<queue, skip, crashes>>
          /\ \A t \in TS \ {adding.ts} : region'[t] = region[t]
      BY <1>0, <1>8 DEF CommitMerge, CommitAppend, bounds
    <2>2. adding.ts \notin queue /\ \A t \in queue : Held(region[t]) \subseteq skip[t]
      BY <2>1 DEF SkipCoversStore
    <2> QED BY <1>0, <2>1, <2>2 DEF SkipCoversStore, Held
  <1>9. CASE CommitEvict
    <2>1. /\ phase = "write" /\ phase' = "store" /\ UNCHANGED <<queue, skip, crashes>>
          /\ region' = [region EXCEPT ![Oldest(frames)] = EmptyFrame, ![adding.ts] = adding.data]
      BY <1>9 DEF CommitEvict, bounds
    <2>2. \A t \in TS \ {adding.ts} : region'[t] \in {EmptyFrame, region[t]}
      BY <1>0, <2>1
    <2>3. adding.ts \notin queue /\ \A t \in queue : Held(region[t]) \subseteq skip[t]
      BY <2>1 DEF SkipCoversStore
    <2>4. Held(EmptyFrame) = {}
      BY DEF Held, EmptyFrame
    <2> QED BY <1>0, <2>1, <2>2, <2>3, <2>4 DEF SkipCoversStore, Held
  <1>10. CASE WriteRefused \/ EndPass \/ Crash \/ Restart
    BY <1>1, <1>10 DEF WriteRefused, EndPass, Crash, Restart
  <1> QED
    BY <1>2, <1>3, <1>4, <1>5, <1>6, <1>7, <1>8, <1>9, <1>10 DEF Next

\* The record of a stale copy outlives every step but the one that retires it,
\* after which its product is on its way into the store.
LEMMA StepStale ==
    IInv /\ IInv' /\ FirstLife /\ StaleOnRecordOrReplaced /\ [Next]_vars
       => StaleOnRecordOrReplaced'
  <1> SUFFICES ASSUME IInv, IInv', FirstLife, StaleOnRecordOrReplaced, [Next]_vars,
                      crashes' = 0, failures' = 0
               PROVE  StaleOnRecordOrReplaced'
    BY DEF StaleOnRecordOrReplaced
  <1> DEFINE Replaced(t, r) ==
               \/ phase \in {"store", "write"} /\ t \in queue /\ r \in got[t]
               \/ phase = "write" /\ t = adding.ts /\ adding.data[r] = t
             Stale(t, r) == region[t][r] \in 0 .. t - 1 /\ t >= NowRounded - RefetchMax
             Recorded == \A t \in Visible : \A r \in Regions :
                            Stale(t, r) => r \in carried[t] \/ Replaced(t, r)
             Added == phase = "write" =>
                         \A r \in Regions :
                            adding.data[r] \in 0 .. adding.ts - 1 => r \in carried[adding.ts]
  <1>0. /\ frames \in SUBSET TS /\ crashes \in Nat /\ failures \in Nat /\ adding.ts \in TS
        /\ queue \in SUBSET TS /\ region \in [TS -> [Regions -> Content]] /\ NowRounded \in TS
        /\ got \in [TS -> SUBSET Regions] /\ carried \in [TS -> SUBSET Regions]
        /\ adding.data \in [Regions -> Content] /\ NowRounded' \in TS
    BY DEF IInv, TypeOK, NoFuture
  <1>01. Visible \subseteq TS
    BY <1>0 DEF Visible, Newest
  <1>02. ASSUME crashes = 0, failures = 0 PROVE Recorded /\ Added
    BY <1>02 DEF StaleOnRecordOrReplaced
  <1>03. ASSUME Recorded', Added' PROVE StaleOnRecordOrReplaced'
    BY <1>03 DEF StaleOnRecordOrReplaced
  <1>1. CASE UNCHANGED vars
    <2>1. Recorded /\ Added
      BY <1>02, <1>1 DEF vars, bounds
    <2>2. Visible' = Visible /\ NowRounded' = NowRounded
      BY <1>1 DEF vars, storeVars, Visible, Newest, NowRounded
    <2>3. Recorded' /\ Added'
      BY <1>1, <2>1, <2>2 DEF vars, passVars, storeVars
    <2> QED BY <1>03, <2>3
  <1>2. CASE TimePasses
    <2>1. Recorded /\ Added
      BY <1>02, <1>2 DEF TimePasses, bounds
    <2>2. Visible' = Visible /\ UNCHANGED <<phase, queue, got, adding, region, carried>>
      BY <1>2 DEF TimePasses, passVars, storeVars, Visible, Newest
    <2>3. NowRounded <= NowRounded'
      BY <1>0, <1>2, NextInterval DEF IInv
    <2>4. \A t \in TS : t >= NowRounded' - RefetchMax => t >= NowRounded - RefetchMax
      BY <1>0, <2>3
    <2>5. Recorded' /\ Added'
      BY <1>01, <2>1, <2>2, <2>4
    <2> QED BY <1>03, <2>5
  <1>3. CASE StartInitialPass
    <2>1. frames' = {} /\ phase' = "fetch"
      BY <1>3 DEF StartInitialPass, FirstLife, storeVars, bounds
    <2>2. Visible' = {}
      BY <2>1 DEF Visible, Newest
    <2>3. Recorded' /\ Added'
      BY <2>1, <2>2
    <2> QED BY <1>03, <2>3
  <1>4. CASE StartPass
    <2>1. Recorded /\ phase = "idle" /\ phase' \in {"idle", "fetch"}
      BY <1>02, <1>4 DEF StartPass, bounds
    <2>2. Visible' = Visible /\ NowRounded' = NowRounded /\ region' = region
          /\ carried' = PrunedCarried
      BY <1>4 DEF StartPass, storeVars, Visible, Newest, NowRounded
    <2>3. \A t \in Visible : t >= NowRounded - RefetchMax => carried'[t] = carried[t]
      <3> SUFFICES ASSUME NEW t \in Visible, t >= NowRounded - RefetchMax
                   PROVE  PrunedCarried[t] = carried[t]
        BY <2>2
      <3>1. t \in TS /\ ~(t < NowRounded - RefetchMax)
        BY <1>0, <1>01
      <3> QED BY <3>1 DEF PrunedCarried
    <2>4. Recorded' /\ Added'
      BY <1>01, <2>1, <2>2, <2>3
    <2> QED BY <1>03, <2>4
  <1>5. CASE FetchResults
    <2>1. Recorded /\ phase = "fetch" /\ phase' = "store"
      BY <1>02, <1>5 DEF FetchResults, bounds
    <2>2. Visible' = Visible /\ NowRounded' = NowRounded /\ region' = region /\ queue' = queue
          /\ carried' = [t \in TS |-> carried[t] \ got'[t]]
      BY <1>5 DEF FetchResults, storeVars, Visible, Newest, NowRounded
    <2>3. \A t \in TS : got'[t] # {} => t \in queue
      BY <1>5 DEF FetchResults
    <2>4. Recorded'
      <3> SUFFICES ASSUME NEW t \in Visible, NEW r \in Regions, Stale(t, r)
                   PROVE  r \in carried'[t] \/ Replaced(t, r)'
        BY <2>2
      <3>1. r \in carried[t]
        BY <2>1
      <3>2. CASE r \in got'[t]
        BY <1>01, <2>1, <2>2, <2>3, <3>2
      <3>3. CASE r \notin got'[t]
        BY <1>01, <2>2, <3>1, <3>3
      <3> QED BY <3>2, <3>3
    <2> QED BY <1>03, <2>1, <2>4
  <1>6. CASE BeginAdd
    <2> DEFINE ts == Oldest(queue)
               data == FrameData(ts)
    <2>1. /\ Recorded /\ phase = "store" /\ queue # {} /\ queue' = queue \ {ts} /\ got' = got
          /\ Visible' = Visible /\ NowRounded' = NowRounded /\ region' = region
          /\ carried' = [carried EXCEPT ![ts] = @ \cup CarriedInto(ts)]
      BY <1>02, <1>6 DEF BeginAdd, bounds, storeVars, Visible, Newest, NowRounded
    <2>2. \/ phase' = "store" /\ Held(data) = {}
          \/ phase' = "write" /\ adding' = [ts |-> ts, data |-> data]
      BY <1>6 DEF BeginAdd
    <2>3. ts \in TS /\ data \in [Regions -> Content]
      BY <1>0, <2>1, OldestFacts, FrameDataType DEF IInv
    <2>4. \A r \in Regions : /\ r \in got[ts] => data[r] = ts
                             /\ r \notin got[ts] /\ data[r] # Absent => r \in CarriedInto(ts)
      BY <2>3, FrameDataFacts DEF IInv
    <2> HIDE DEF ts, data
    <2>5. Added'
      <3> SUFFICES ASSUME phase' = "write", NEW r \in Regions, data[r] \in 0 .. ts - 1
                   PROVE  r \in carried'[ts]
        BY <2>2
      <3>1. r \in CarriedInto(ts)
        BY <2>3, <2>4
      <3> QED BY <1>0, <2>1, <2>3, <3>1
    <2>6. Recorded'
      <3> SUFFICES ASSUME NEW t \in Visible, NEW r \in Regions, Stale(t, r)
                   PROVE  r \in carried'[t] \/ Replaced(t, r)'
        BY <2>1
      <3>1. CASE r \in carried[t]
        BY <1>0, <1>01, <2>1, <2>3, <3>1
      <3>2. CASE r \notin carried[t]
        <4>1. t \in queue /\ r \in got[t]
          BY <2>1, <3>2
        <4>2. CASE t # ts
          BY <2>1, <2>2, <4>1, <4>2
        <4>3. CASE t = ts
          <5>1. data[r] = ts /\ r \in Held(data)
            BY <2>3, <2>4, <4>1, <4>3 DEF Held
          <5> QED BY <2>2, <4>3, <5>1
        <4> QED BY <4>2, <4>3
      <3> QED BY <3>1, <3>2
    <2> QED BY <1>03, <2>5, <2>6
  <1>7. ASSUME NEW q \in Regions, WriteRegion(q) PROVE StaleOnRecordOrReplaced'
    <2>1. Recorded /\ Added
      BY <1>02, <1>7 DEF WriteRegion, bounds
    <2>2. Visible' = Visible /\ NowRounded' = NowRounded
          /\ UNCHANGED <<phase, queue, got, adding, region, carried>>
      BY <1>7 DEF WriteRegion, storeVars, Visible, Newest, NowRounded
    <2>3. Recorded' /\ Added'
      BY <2>1, <2>2
    <2> QED BY <1>03, <2>3
  <1>8. CASE CommitMerge \/ CommitAppend \/ CommitEvict
    <2> DEFINE ts == adding.ts
    <2>1. /\ Recorded /\ Added /\ phase = "write" /\ phase' = "store"
          /\ NowRounded' = NowRounded /\ UNCHANGED <<queue, got, carried>>
      BY <1>02, <1>8 DEF CommitMerge, CommitAppend, CommitEvict, bounds, NowRounded
    <2>2. /\ Visible' \subseteq Visible \cup {ts}
          /\ ts \notin frames => ts \notin Visible
      <3>1. CASE CommitMerge
        BY <3>1 DEF CommitMerge, Visible, Newest
      <3>2. CASE CommitAppend \/ CommitEvict
        BY <3>2, HiddenStaysHidden DEF Visible, Newest
      <3> QED BY <1>8, <3>1, <3>2
    <2>3. ASSUME NEW t \in Visible', t # ts PROVE region'[t] \in {region[t], EmptyFrame}
      <3>1. t \in TS /\ region \in [TS -> [Regions -> Content]]
        BY <1>0, <1>01, <2>2, <2>3
      <3>2. CASE CommitMerge \/ CommitAppend
        BY <2>3, <3>1, <3>2 DEF CommitMerge, CommitAppend
      <3>3. CASE CommitEvict
        BY <2>3, <3>1, <3>3 DEF CommitEvict
      <3> QED BY <1>8, <3>2, <3>3
    <2>4. ASSUME NEW r \in Regions
          PROVE  \/ region'[ts][r] = adding.data[r]
                 \/ adding.data[r] = Absent /\ region'[ts][r] = region[ts][r] /\ ts \in frames
      <3>1. CASE CommitMerge
        BY <1>0, <3>1 DEF CommitMerge, Merged
      <3>2. CASE CommitAppend
        BY <1>0, <3>2 DEF CommitAppend
      <3>3. CASE CommitEvict
        BY <1>0, <3>3 DEF CommitEvict
      <3> QED BY <1>8, <3>1, <3>2, <3>3
    <2>5. Recorded'
      <3> SUFFICES ASSUME NEW t \in Visible', NEW r \in Regions, Stale(t, r)'
                   PROVE  r \in carried[t] \/ (t \in queue /\ r \in got[t])
        BY <2>1
      <3>1. CASE t # ts
        <4>1. t \in Visible /\ region'[t][r] = region[t][r]
          <5>1. region'[t][r] # Absent
            BY <1>0, <1>01, <2>2, <3>1
          <5> QED BY <2>2, <2>3, <3>1, <5>1 DEF EmptyFrame
        <4> QED BY <2>1, <3>1, <4>1
      <3>2. CASE t = ts /\ region'[ts][r] = adding.data[r]
        BY <2>1, <3>2
      <3>3. CASE /\ t = ts /\ adding.data[r] = Absent /\ ts \in frames
                 /\ region'[ts][r] = region[ts][r]
        <4>1. CommitMerge
          BY <1>8, <3>3 DEF CommitAppend, CommitEvict
        <4>2. t \in Visible
          BY <3>3, <4>1 DEF CommitMerge, Visible, Newest
        <4>3. Stale(t, r)
          BY <2>1, <3>3
        <4>4. adding.data[r] # t
          BY <1>0, <3>3
        <4> QED BY <2>1, <4>2, <4>3, <4>4
      <3> QED BY <2>4, <3>1, <3>2, <3>3
    <2> QED BY <1>03, <2>1, <2>5
  <1>9. CASE EndPass
    <2>1. Recorded /\ phase = "store" /\ phase' = "idle" /\ queue = {}
          /\ Visible' = Visible /\ NowRounded' = NowRounded /\ UNCHANGED <<region, carried>>
      BY <1>02, <1>9 DEF EndPass, bounds, storeVars, Visible, Newest, NowRounded
    <2>2. Recorded' /\ Added'
      BY <2>1
    <2> QED BY <1>03, <2>2
  <1>10. CASE WriteRefused
    BY <1>0, <1>10 DEF WriteRefused
  <1>11. CASE Crash
    BY <1>0, <1>11 DEF Crash
  <1>12. CASE Restart
    BY <1>0, <1>12 DEF Restart, FirstLife, bounds
  <1> QED
    BY <1>1, <1>2, <1>3, <1>4, <1>5, <1>6, <1>7, <1>8, <1>9, <1>10, <1>11, <1>12 DEF Next

\* The invariant of the first life, in every behaviour.
LEMMA LifeInvariance == Spec => []LifeInv
  <1>1. Init => LifeInv
    BY DEF Init, LifeInv, FirstLife, SkipCoversStore, StaleOnRecordOrReplaced, Visible, Newest
  <1>2. IInv /\ IInv' /\ LifeInv /\ [Next]_vars => LifeInv'
    BY StepFirstLife, StepSkipCovers, StepStale DEF LifeInv, IInv
  <1> QED BY <1>1, <1>2, Invariance, PTL DEF Spec

\* Until the process dies no carry-forward copy ever replaces a region's own
\* product: the skip_regions of a pass cover all that its slots hold.
THEOREM RealDataSafe == Spec => RealDataKept
  <1>1. IInv /\ LifeInv /\ [Next]_vars
          => [crashes = 0 => \A ts \in frames \cap frames' : \A r \in Regions :
                region[ts][r] = ts => region'[ts][r] = ts]_vars
    <2> SUFFICES ASSUME IInv, LifeInv, Next, crashes = 0, NEW ts \in frames \cap frames',
                        NEW r \in Regions, region[ts][r] = ts
                 PROVE  region'[ts][r] = ts
      OBVIOUS
    <2>0. /\ ts \in TS /\ region \in [TS -> [Regions -> Content]]
          /\ adding.ts \in TS /\ adding.data \in [Regions -> Content]
      BY DEF IInv, TypeOK
    <2>1. CASE CommitMerge
      <3>1. region' = [region EXCEPT ![adding.ts] = Merged(adding.ts, adding.data)]
        BY <2>1 DEF CommitMerge
      <3>2. CASE ts # adding.ts
        BY <2>0, <3>1, <3>2
      <3>3. CASE ts = adding.ts
        <4>1. r \in Held(region[ts])
          BY <2>0 DEF Held
        <4>2. adding.data[r] \in {Absent, ts}
          BY <2>1, <3>3, <4>1 DEF LifeInv, SkipCoversStore, CommitMerge
        <4> QED BY <2>0, <3>1, <3>3, <4>2 DEF Merged
      <3> QED BY <3>2, <3>3
    <2>2. CASE CommitAppend
      BY <2>0, <2>2 DEF CommitAppend
    <2>3. CASE CommitEvict
      <3>1. ts # adding.ts /\ ts # Oldest(frames)
        BY <2>3, EvictedIsAnother DEF CommitEvict
      <3> QED BY <2>0, <2>3, <3>1 DEF CommitEvict
    <2>4. CASE Crash
      BY <2>4 DEF Crash
    <2>5. CASE Restart
      BY <2>5 DEF IInv, NoFuture, Restart
    <2>6. CASE ~(CommitMerge \/ CommitAppend \/ CommitEvict \/ Crash \/ Restart)
      BY <2>6 DEF Next, TimePasses, StartInitialPass, StartPass, FetchResults, BeginAdd,
         WriteRegion, WriteRefused, EndPass, storeVars
    <2> QED BY <2>1, <2>2, <2>3, <2>4, <2>5, <2>6
  <1> QED BY <1>1, Invariance, LifeInvariance, PTL DEF Spec, RealDataKept

\* Until the process dies or a write is refused, every stale copy in the
\* recovery window is on record for another fetch between passes.
THEOREM StaleCopiesStayRefetchable == Spec => []StaleCopiesRefetched
  <1>1. LifeInv => StaleCopiesRefetched
    BY DEF LifeInv, StaleOnRecordOrReplaced, StaleCopiesRefetched, StaleCopiesOnRecord
  <1> QED BY <1>1, LifeInvariance, PTL
=============================================================================
