----------------------------- MODULE RadarStore -----------------------------
(***************************************************************************)
(* The radar half of the data pipeline: the FrameStore of data/store.py,    *)
(* the files behind it, the RadarFrameCache that sweeps the same directory  *)
(* (data/radar_cache.py) and the fetch pass of data/fetcher.py that drives   *)
(* both.  One pipeline process; the pass is one asyncio task, so its steps   *)
(* are sequential, but time passes between any two of them and the process   *)
(* may die between any two of them.                                          *)
(*                                                                           *)
(* A timestamp is the index of its fetch interval.  The content of a region  *)
(* is abstracted to the timestamp of the product it holds: the content of    *)
(* <<ts, r>> is ts when the source served it and less than ts when it is a   *)
(* carry-forward copy of an older product.                                   *)
(***************************************************************************)
EXTENDS Integers, FiniteSets

CONSTANTS
    Regions,          \* the enabled regions
    Horizon,          \* last interval index (bounds the model)
    TicksPerInterval, \* clock ticks in one fetch interval
    MaxFrames,        \* settings.max_frames
    GraceFrames,      \* settings.frame_grace_frames
    EvictGrace,       \* evict_grace_s, in ticks
    CarryMax,         \* _CARRY_FORWARD_MAX_INTERVALS
    RefetchMax,       \* _CARRY_FORWARD_REFETCH_MAX_INTERVALS
    MaxCrashes,       \* bound: process deaths
    MaxFailures       \* bound: writes refused by ensure_space

ASSUME ConstantsAssumption ==
    /\ IsFiniteSet(Regions)
    /\ Horizon \in Nat
    /\ TicksPerInterval \in Nat \ {0}
    /\ MaxFrames \in Nat \ {0}
    /\ GraceFrames \in Nat
    /\ EvictGrace \in Nat \ {0}
    /\ CarryMax \in Nat
    /\ RefetchMax \in Nat
    /\ MaxCrashes \in Nat
    /\ MaxFailures \in Nat

VARIABLES
    clock,         \* monotonic and wall clock, in ticks
    phase,         \* where the fetch task stands
    looping,       \* the initial pass is over
    wakeAt,        \* tick of the boundary the idle loop sleeps to
    passNow,       \* now_rounded of the current pass
    requested,     \* requested[ts]: regions whose fetch is in flight
    skip,          \* skip_regions of the current pass
    got,           \* got[ts]: regions the sources served
    queue,         \* timestamps of frames_by_ts not stored yet
    adding,        \* the frame inside add_frame
    toWrite,       \* its regions not yet on disk
    frames,        \* timestamps in FrameStore._frames
    region,        \* region[ts][r]: content in memory
    version,       \* FrameStore._frame_versions, 0 for no entry
    evictPending,  \* FrameStore._evict_pending
    inactiveSince, \* RadarFrameCache._inactive_since
    carried,       \* RadarFetcher._carried_regions
    disk,          \* disk[ts][r]: content of <ts>_<r>.dat
    leftAt,        \* history: when ts last left the store
    crashes,       \* history: process deaths so far
    failures       \* history: refused writes so far

passVars == <<looping, wakeAt, passNow, requested, skip, got, queue, adding, toWrite>>
storeVars == <<frames, region, version, evictPending>>
bounds == <<crashes, failures>>
vars == <<clock, phase, passVars, storeVars, inactiveSince, carried, disk,
          leftAt, bounds>>

TS == 0 .. Horizon
Absent == -1
Content == TS \cup {Absent}
Tick == Nat
Cap == MaxFrames + GraceFrames

NoRegions == [ts \in TS |-> {}]
NoTicks == [ts \in TS |-> Absent]
EmptyFrame == [r \in Regions |-> Absent]
EmptyFrames == [ts \in TS |-> EmptyFrame]
NoFrame == [ts |-> 0, data |-> EmptyFrame]

\* Mutant of NowRounded: the interval ahead.
NowRoundedUp == clock \div TicksPerInterval + 1

NowRounded == clock \div TicksPerInterval
NextBoundary == (clock \div TicksPerInterval + 1) * TicksPerInterval

\* The timestamps a pass started at interval n wants: the last MaxFrames.
Window(n) == {ts \in TS : n - MaxFrames < ts /\ ts <= n}

\* The n largest members of S.
Newest(S, n) == {t \in S : Cardinality({u \in S : u > t}) < n}

\* Mutant of Oldest: the sort is reversed.
OldestReversed(S) == CHOOSE t \in S : \A u \in S : t >= u

Oldest(S) == CHOOSE t \in S : \A u \in S : t <= u

\* Regions a frame value holds.
Held(frame) == {r \in Regions : frame[r] # Absent}

\* get_timestamps: hidden grace frames are left out.
Visible == Newest(frames, MaxFrames)

\* get_region_keys.
RegionKeys == [ts \in TS |-> IF ts \in Visible THEN Held(region[ts]) ELSE {}]

OnDisk == {ts \in TS : \E r \in Regions : disk[ts][r] # Absent}

\* Mutant of Elapsed: no grace.
ElapsedAtOnce(since) == since # Absent

Elapsed(since) == since # Absent /\ clock - since >= EvictGrace

-----------------------------------------------------------------------------
(* The process starts with whatever an earlier one left on disk.            *)

Init ==
    /\ clock = 0
    /\ phase = "boot"
    /\ looping = FALSE
    /\ wakeAt = 0
    /\ passNow = 0
    /\ requested = NoRegions
    /\ skip = NoRegions
    /\ got = NoRegions
    /\ queue = {}
    /\ adding = NoFrame
    /\ toWrite = {}
    /\ frames = {}
    /\ region = EmptyFrames
    /\ version = [ts \in TS |-> 0]
    /\ evictPending = NoTicks
    /\ inactiveSince = NoTicks
    /\ carried = NoRegions
    /\ disk = EmptyFrames
    /\ leftAt = NoTicks
    /\ crashes = 0
    /\ failures = 0

\* Time passes at any point, in the middle of a pass too.
TimePasses ==
    /\ clock + 1 < (Horizon + 1) * TicksPerInterval
    /\ clock' = clock + 1
    /\ UNCHANGED <<phase, passVars, storeVars, inactiveSince, carried, disk,
                   leftAt, bounds>>

-----------------------------------------------------------------------------
(* A pass: pick the slots to fetch, wait for the sources, store in           *)
(* chronological order, sweep.                                               *)

\* _fetch_initial: the latest slot only, and no skip_regions.
StartInitialPass ==
    /\ phase = "boot"
    /\ phase' = "fetch"
    /\ passNow' = NowRounded
    /\ requested' = [NoRegions EXCEPT ![NowRounded] = Regions]
    /\ skip' = NoRegions
    /\ queue' = {NowRounded}
    /\ UNCHANGED <<clock, looping, wakeAt, got, adding, toWrite, storeVars,
                   inactiveSince, carried, disk, leftAt, bounds>>

\* Mutant of PrunedCarried: the last recoverable interval is retired too.
PrunedCarriedEarly ==
    [ts \in TS |-> IF ts <= NowRounded - RefetchMax \/ ts \notin Visible
                   THEN {} ELSE carried[ts]]

\* Carry-forward provenance still worth a re-fetch.
PrunedCarried ==
    [ts \in TS |-> IF ts < NowRounded - RefetchMax \/ ts \notin Visible
                   THEN {} ELSE carried[ts]]

\* Slots of the window that miss a region or hold a carried one.
Incomplete ==
    {ts \in Window(NowRounded) :
        ~(ts \in Visible /\ Regions \subseteq RegionKeys[ts] \ PrunedCarried[ts])}

\* _fetch_all_frames up to the fetch gather; with nothing to fetch it returns.
StartPass ==
    /\ phase = "idle"
    /\ clock >= wakeAt
    /\ carried' = PrunedCarried
    /\ passNow' = NowRounded
    /\ skip' = RegionKeys
    /\ queue' = Incomplete
    /\ requested' =
         [ts \in TS |-> IF ts \in Incomplete
                        THEN Regions \ (RegionKeys[ts] \ PrunedCarried[ts])
                        ELSE {}]
    /\ IF Incomplete = {}
       THEN phase' = "idle" /\ wakeAt' = NextBoundary
       ELSE phase' = "fetch" /\ wakeAt' = wakeAt
    /\ UNCHANGED <<clock, looping, got, adding, toWrite, storeVars,
                   inactiveSince, disk, leftAt, bounds>>

\* The gather returns: each request was served or dropped.  A served region
\* retires its carry-forward provenance here, before anything is stored.
FetchResults ==
    /\ phase = "fetch"
    /\ \E served \in [queue -> SUBSET Regions] :
         /\ \A ts \in queue : served[ts] \subseteq requested[ts]
         /\ got' = [ts \in TS |-> IF ts \in queue THEN served[ts] ELSE {}]
    /\ carried' = [ts \in TS |-> carried[ts] \ got'[ts]]
    /\ phase' = "store"
    /\ requested' = NoRegions
    /\ UNCHANGED <<clock, looping, wakeAt, passNow, skip, queue, adding, toWrite,
                   storeVars, inactiveSince, disk, leftAt, bounds>>

\* Mutant of Missing: without the skip_regions of the pass.
MissingNoSkip(ts) == Regions \ got[ts]

\* Regions of slot ts that neither this pass nor the pass's view of the store has.
Missing(ts) == Regions \ (got[ts] \cup skip[ts])

\* Prior frames that carry r into ts, within the lookback.
CarrySources(ts, r) ==
    {prev \in frames : prev < ts /\ ts - prev <= CarryMax /\ region[prev][r] # Absent}

CarriedInto(ts) == {r \in Missing(ts) : CarrySources(ts, r) # {}}

\* The most recent of those frames lends its content.
Lent(ts, r) ==
    region[CHOOSE p \in CarrySources(ts, r) : \A q \in CarrySources(ts, r) : q <= p][r]

FrameData(ts) ==
    [r \in Regions |-> IF r \in got[ts] THEN ts
                       ELSE IF r \in CarriedInto(ts) THEN Lent(ts, r)
                       ELSE Absent]

\* _resolve_region_array: a region identical to the stored one is not rewritten.
NeedsWrite(ts, data) == {r \in Held(data) : region[ts][r] # data[r]}

\* Next slot in chronological order: carry forward, enter add_frame.
BeginAdd ==
    /\ phase = "store"
    /\ queue # {}
    /\ LET ts == Oldest(queue)
           data == FrameData(ts)
       IN /\ queue' = queue \ {ts}
          /\ carried' = [carried EXCEPT ![ts] = @ \cup CarriedInto(ts)]
          /\ IF Held(data) = {}
             THEN UNCHANGED <<phase, adding, toWrite>>
             ELSE /\ phase' = "write"
                  /\ adding' = [ts |-> ts, data |-> data]
                  /\ toWrite' = NeedsWrite(ts, data)
    /\ UNCHANGED <<clock, looping, wakeAt, passNow, requested, skip, got, storeVars,
                   inactiveSince, disk, leftAt, bounds>>

\* _to_memmap of one region, in its own worker thread: an atomic replace.
WriteRegion(r) ==
    /\ phase = "write"
    /\ r \in toWrite
    /\ disk' = [disk EXCEPT ![adding.ts][r] = adding.data[r]]
    /\ toWrite' = toWrite \ {r}
    /\ UNCHANGED <<clock, phase, looping, wakeAt, passNow, requested, skip, got, queue,
                   adding, storeVars, inactiveSince, carried, leftAt, bounds>>

\* The stored frame after the copy-on-write merge of the added regions.
Merged(ts, data) ==
    [r \in Regions |-> IF data[r] # Absent THEN data[r] ELSE region[ts][r]]

\* Timestamps whose eviction grace has elapsed, ts itself being live again.
Reapable(ts) == {u \in TS \ {ts} : Elapsed(evictPending[u])}

Unlink(S) == [ts \in TS |-> IF ts \in S THEN EmptyFrame ELSE disk[ts]]

\* Mutant of MergedVersion: only a region that was absent bumps the version.
MergedVersionNewOnly(ts, data) ==
    IF \E r \in Held(data) : region[ts][r] = Absent
    THEN version[ts] + 1 ELSE version[ts]

\* The version of a merged frame: bumped when any region was written.
MergedVersion(ts, data) ==
    IF NeedsWrite(ts, data) # {} THEN version[ts] + 1 ELSE version[ts]

\* add_frame into an existing timestamp.
CommitMerge ==
    /\ phase = "write"
    /\ toWrite = {}
    /\ adding.ts \in frames
    /\ LET ts == adding.ts
       IN /\ region' = [region EXCEPT ![ts] = Merged(ts, adding.data)]
          /\ version' = [version EXCEPT ![ts] = MergedVersion(ts, adding.data)]
          /\ evictPending' = [evictPending EXCEPT ![ts] = Absent]
    /\ phase' = "store"
    /\ adding' = NoFrame
    /\ UNCHANGED <<clock, looping, wakeAt, passNow, requested, skip, got, queue, toWrite,
                   frames, inactiveSince, carried, disk, leftAt, bounds>>

\* add_frame of a new timestamp, the store having room.
CommitAppend ==
    /\ phase = "write"
    /\ toWrite = {}
    /\ adding.ts \notin frames
    /\ Cardinality(frames) < Cap
    /\ frames' = frames \cup {adding.ts}
    /\ region' = [region EXCEPT ![adding.ts] = adding.data]
    /\ version' = [version EXCEPT ![adding.ts] = 1]
    /\ evictPending' = [evictPending EXCEPT ![adding.ts] = Absent]
    /\ phase' = "store"
    /\ adding' = NoFrame
    /\ UNCHANGED <<clock, looping, wakeAt, passNow, requested, skip, got, queue, toWrite,
                   inactiveSince, carried, disk, leftAt, bounds>>

\* add_frame of a new timestamp at capacity: the oldest frame goes, evictions
\* whose grace has elapsed are reaped and this one is recorded.
CommitEvict ==
    /\ phase = "write"
    /\ toWrite = {}
    /\ adding.ts \notin frames
    /\ Cardinality(frames) >= Cap
    /\ LET ts == adding.ts
           old == Oldest(frames)
           reaped == Reapable(ts)
       IN /\ frames' = (frames \ {old}) \cup {ts}
          /\ region' = [region EXCEPT ![old] = EmptyFrame, ![ts] = adding.data]
          /\ version' = [version EXCEPT ![old] = 0, ![ts] = 1]
          /\ evictPending' = [u \in TS |-> IF u = old THEN clock
                                           ELSE IF u \in reaped \cup {ts} THEN Absent
                                           ELSE evictPending[u]]
          /\ disk' = Unlink(reaped)
          /\ leftAt' = [leftAt EXCEPT ![old] = clock]
    /\ phase' = "store"
    /\ adding' = NoFrame
    /\ UNCHANGED <<clock, looping, wakeAt, passNow, requested, skip, got, queue, toWrite,
                   inactiveSince, carried, bounds>>

\* ensure_space refuses a region: add_frame raises, the pass is abandoned with
\* the other regions' files in place, and the loop sleeps to the next boundary.
WriteRefused ==
    /\ phase = "write"
    /\ toWrite # {}
    /\ looping
    /\ failures < MaxFailures
    /\ failures' = failures + 1
    /\ phase' = "idle"
    /\ wakeAt' = NextBoundary
    /\ adding' = NoFrame
    /\ toWrite' = {}
    /\ queue' = {}
    /\ got' = NoRegions
    /\ skip' = NoRegions
    /\ UNCHANGED <<clock, looping, passNow, requested, storeVars, inactiveSince,
                   carried, disk, leftAt, crashes>>

\* Mutant of Inactive: get_timestamps in place of get_retained_timestamps.
InactiveVisible == OnDisk \ Visible

\* Timestamps with files the store does not retain.
Inactive == OnDisk \ frames

\* RadarFrameCache.cleanup(get_retained_timestamps()): clock the inactive files
\* on first sight, unlink those inactive for a whole grace window.  The initial
\* pass is followed by the backfill pass at once, a later one by the sleep.
EndPass ==
    /\ phase = "store"
    /\ queue = {}
    /\ LET reaped == {ts \in Inactive : Elapsed(inactiveSince[ts])}
       IN /\ disk' = Unlink(reaped)
          /\ inactiveSince' =
               [ts \in TS |->
                  IF ts \in reaped \cup (OnDisk \ Inactive) THEN Absent
                  ELSE IF ts \in Inactive /\ inactiveSince[ts] = Absent THEN clock
                  ELSE inactiveSince[ts]]
    /\ phase' = "idle"
    /\ wakeAt' = IF looping THEN NextBoundary ELSE clock
    /\ looping' = TRUE
    /\ got' = NoRegions
    /\ skip' = NoRegions
    /\ UNCHANGED <<clock, passNow, requested, queue, adding, toWrite, storeVars,
                   carried, leftAt, bounds>>

-----------------------------------------------------------------------------
(* Process death and warm restart.                                          *)

\* Everything in memory is gone, the files stay.
Crash ==
    /\ phase # "down"
    /\ crashes < MaxCrashes
    /\ crashes' = crashes + 1
    /\ phase' = "down"
    /\ looping' = FALSE
    /\ wakeAt' = 0
    /\ passNow' = 0
    /\ requested' = NoRegions
    /\ skip' = NoRegions
    /\ got' = NoRegions
    /\ queue' = {}
    /\ adding' = NoFrame
    /\ toWrite' = {}
    /\ frames' = {}
    /\ region' = EmptyFrames
    /\ version' = [ts \in TS |-> 0]
    /\ evictPending' = NoTicks
    /\ inactiveSince' = NoTicks
    /\ carried' = NoRegions
    /\ leftAt' = [ts \in TS |-> IF ts \in frames THEN clock ELSE leftAt[ts]]
    /\ UNCHANGED <<clock, disk, failures>>

\* run_pipeline: load_frames scans the directory and every frame found is
\* added in order, so the newest Cap survive, each at version 1, and the
\* others are evicted again.
Restart ==
    /\ phase = "down"
    /\ LET kept == Newest(OnDisk, Cap)
           evicted == OnDisk \ kept
       IN /\ frames' = kept
          /\ region' = [ts \in TS |-> IF ts \in kept THEN disk[ts] ELSE EmptyFrame]
          /\ version' = [ts \in TS |-> IF ts \in kept THEN 1 ELSE 0]
          /\ evictPending' = [ts \in TS |-> IF ts \in evicted THEN clock ELSE Absent]
          /\ leftAt' = [ts \in TS |-> IF ts \in evicted THEN clock ELSE leftAt[ts]]
    /\ phase' = "boot"
    /\ UNCHANGED <<clock, passVars, inactiveSince, carried, disk, bounds>>

Next ==
    \/ TimePasses
    \/ StartInitialPass
    \/ StartPass
    \/ FetchResults
    \/ BeginAdd
    \/ \E r \in Regions : WriteRegion(r)
    \/ CommitMerge
    \/ CommitAppend
    \/ CommitEvict
    \/ WriteRefused
    \/ EndPass
    \/ Crash
    \/ Restart

Spec == Init /\ [][Next]_vars

-----------------------------------------------------------------------------
(* Properties.                                                              *)

\* Every variable has its type, and the store's three views of its frames
\* (the list, the version map, the region data) name the same timestamps.
TypeOK ==
    /\ clock \in Tick
    /\ phase \in {"boot", "idle", "fetch", "store", "write", "down"}
    /\ looping \in BOOLEAN
    /\ wakeAt \in Tick
    /\ passNow \in TS
    /\ requested \in [TS -> SUBSET Regions]
    /\ skip \in [TS -> SUBSET Regions]
    /\ got \in [TS -> SUBSET Regions]
    /\ queue \in SUBSET TS
    /\ adding \in [ts : TS, data : [Regions -> Content]]
    /\ toWrite \in SUBSET Regions
    /\ frames \in SUBSET TS
    /\ region \in [TS -> [Regions -> Content]]
    /\ version \in [TS -> Nat]
    /\ evictPending \in [TS -> Tick \cup {Absent}]
    /\ inactiveSince \in [TS -> Tick \cup {Absent}]
    /\ carried \in [TS -> SUBSET Regions]
    /\ disk \in [TS -> [Regions -> Content]]
    /\ leftAt \in [TS -> Tick \cup {Absent}]
    /\ crashes \in Nat
    /\ failures \in Nat

\* Every region of every frame the store retains, hidden grace frames too, has
\* its file: the two reapers and the re-introduction of an evicted timestamp
\* never unlink what the next state.json will name.
RetainedFramesBacked ==
    \A ts \in frames : \A r \in Held(region[ts]) : disk[ts][r] # Absent

\* A frame of the current pass's window is never the one evicted to make room
\* for another: filling an old gap in a full store sheds an older frame.
WindowNeverEvicted ==
    [][phase' # "down" => frames \cap Window(passNow) \subseteq frames']_vars

\* A file is unlinked only after its timestamp has been out of the store for a
\* whole grace window, whichever of the two reapers does it: radar_cache.py:272,
\* "nothing observable is deleted before it has been inactive for one full grace
\* window".  Two refused writes break it, since a refused write ends its pass
\* before the cleanup that would drop the clock of a timestamp stored again.
UnlinkedAfterGrace ==
    [][failures <= 1 =>
         \A ts \in TS : \A r \in Regions :
            (disk[ts][r] # Absent /\ disk'[ts][r] = Absent)
               => ts \notin frames /\ (leftAt[ts] = Absent \/ clock - leftAt[ts] >= EvictGrace)]_vars

\* A region that holds the product of its own timestamp is never overwritten
\* with a carry-forward copy.  Until a restart: the initial pass has no
\* skip_regions, so it may put a copy over the product the restored store has.
RealDataKept ==
    [][crashes = 0 => \A ts \in frames \cap frames' : \A r \in Regions :
         region[ts][r] = ts => region'[ts][r] = ts]_vars

\* While a timestamp stays in the store its content never changes under an
\* unchanged version, which is all a render worker compares.
ContentChangesBumpVersion ==
    [][\A ts \in frames \cap frames' :
         version'[ts] = version[ts] => region'[ts] = region[ts]]_vars

\* A stale copy in the recovery window is on record to be fetched again, so it
\* cannot mask its slot for good: fetcher.py:60-61, carried slots stay eligible
\* for re-fetch.  The code forgets the record when it restarts.
StaleCopiesOnRecord ==
    phase = "idle" =>
        \A ts \in Visible : \A r \in Regions :
            region[ts][r] \in 0 .. ts - 1 /\ ts >= NowRounded - RefetchMax
                => r \in carried[ts]

\* ... in one life of the process, and unless a write was refused after the
\* record had been retired (fetcher.py:828), it holds.
StaleCopiesRefetched == crashes = 0 /\ failures = 0 => StaleCopiesOnRecord

-----------------------------------------------------------------------------
(* The inductive invariant behind RetainedFramesBacked and                  *)
(* WindowNeverEvicted.                                                      *)

\* A timestamp outside the store holds nothing in memory.
OnlyFramesHeld == \A ts \in TS \ frames : region[ts] = EmptyFrame

\* An eviction on record is of a timestamp that is not in the store.
PendingAreGone == \A ts \in frames : evictPending[ts] = Absent

\* Inside add_frame each region of the frame is on disk or still to be written.
AddingBacked ==
    phase = "write" =>
        /\ toWrite \subseteq Held(adding.data)
        /\ \A r \in Held(adding.data) \ toWrite : disk[adding.ts][r] # Absent

\* Nothing in the store or on disk is from a later interval than the clock's,
\* nor, during a pass, than the pass's; a dead process holds no frame.
NoFuture ==
    /\ phase = "down" => frames = {}
    /\ NowRounded \in TS
    /\ passNow <= NowRounded
    /\ \A ts \in frames \cup OnDisk : ts <= NowRounded
    /\ phase \in {"fetch", "store", "write"} => \A ts \in frames : ts <= passNow

\* The slots of a pass are in its window.
SlotsInWindow ==
    /\ phase \in {"fetch", "store", "write"} => queue \subseteq Window(passNow)
    /\ phase = "write" => adding.ts \in Window(passNow)

IInv ==
    /\ TypeOK
    /\ RetainedFramesBacked
    /\ OnlyFramesHeld
    /\ PendingAreGone
    /\ AddingBacked
    /\ NoFuture
    /\ SlotsInWindow

-----------------------------------------------------------------------------
(* The inductive invariants behind the other properties, each besides IInv.  *)

\* No frame of the store is empty, nor is one being added.
FramesHold ==
    /\ \A ts \in frames : Held(region[ts]) # {}
    /\ phase = "write" => Held(adding.data) # {}

\* Neither reaper's clock started before its timestamp left the store: an
\* eviction is on record since then, and a clock of the cleanup is younger.
ClocksFollowLeaving ==
    /\ \A ts \in TS : leftAt[ts] <= clock
    /\ \A ts \in TS : evictPending[ts] # Absent => leftAt[ts] = evictPending[ts]
    /\ failures <= 1 =>
         \A ts \in TS \ frames : inactiveSince[ts] # Absent => leftAt[ts] <= inactiveSince[ts]

\* A stored timestamp the cleanup still clocks was stored in the current pass,
\* which ends with a cleanup; without a refused write there is none.
ClocksDropped ==
    /\ phase \in {"down", "boot"} => inactiveSince = NoTicks
    /\ failures <= 1 =>
         \A ts \in frames : inactiveSince[ts] # Absent =>
            phase \in {"store", "write"} /\ ts \in Window(passNow)
    /\ failures = 0 =>
         \A ts \in TS : inactiveSince[ts] # Absent => ts \notin frames /\ ts + MaxFrames <= passNow

\* Until a write is refused a file whose timestamp is not in the store is being
\* added or predates the window.
StraysPredateWindow ==
    failures = 0 /\ phase # "down" =>
        \A ts \in OnDisk \ frames :
            \/ phase = "write" /\ ts = adding.ts
            \/ ts + MaxFrames <= IF phase = "boot" THEN NowRounded ELSE passNow

GraceInv == FramesHold /\ ClocksFollowLeaving /\ ClocksDropped /\ StraysPredateWindow

\* In the first life of the process the initial pass starts from an empty store.
FirstLife ==
    /\ phase = "down" => crashes > 0
    /\ phase = "boot" /\ crashes = 0 => frames = {}

\* In the first life a pass knows every region that the slots it has still to
\* store hold already, and carries nothing into one of them.
SkipCoversStore ==
    crashes = 0 =>
        /\ phase \in {"fetch", "store", "write"} =>
             \A ts \in queue : Held(region[ts]) \subseteq skip[ts]
        /\ phase = "write" =>
             /\ adding.ts \notin queue
             /\ Held(region[adding.ts]) \subseteq skip[adding.ts]
             /\ \A r \in skip[adding.ts] : adding.data[r] \in {Absent, adding.ts}

\* Until a crash or a refused write a stale copy is on record, or its product
\* was served and is about to replace it.
StaleOnRecordOrReplaced ==
    crashes = 0 /\ failures = 0 =>
        /\ \A ts \in Visible : \A r \in Regions :
             region[ts][r] \in 0 .. ts - 1 /\ ts >= NowRounded - RefetchMax
                => \/ r \in carried[ts]
                   \/ phase \in {"store", "write"} /\ ts \in queue /\ r \in got[ts]
                   \/ phase = "write" /\ ts = adding.ts /\ adding.data[r] = ts
        /\ phase = "write" =>
             \A r \in Regions : adding.data[r] \in 0 .. adding.ts - 1 => r \in carried[adding.ts]

LifeInv == FirstLife /\ SkipCoversStore /\ StaleOnRecordOrReplaced
=============================================================================
