--------------------------- MODULE WeatherRunsProofs ---------------------------
(* What active.json names is on disk, what a publication of the state links is  *)
(* there, and no worker goes back to an older run (sources/world/ifs/grid.py),  *)
(* for every number of runs, window and number of faults; and every run, time   *)
(* and file that the grid handles is one that there is.  None of the first three is *)
(* inductive.  A cleanup protects the runs that the GRID names, so ManifestWhole *)
(* needs the agreement of grid and manifest between publications                *)
(* (GridIsManifest) and that what is being prepared is on disk (PreparedOnDisk); *)
(* SnapshotLinks needs the order of the runs (RunsInOrder) and what a dump in the *)
(* middle of a publication may have read (DumpKnown); WorkersNeverGoBack needs   *)
(* who has had the state of whom (Before), whom a restart and a lost manifest    *)
(* may part.                                                                    *)
EXTENDS WeatherRuns, FiniteSetTheorems, TLAPS

Preparing == update.step \in {"prepare", "switch", "label"}

PreparedOnDisk == Preparing /\ home # Pruned => update.frames \subseteq disk.files

\* The grid of a running pipeline is what the manifest says, but for the moments
\* of a publication between the two, and for a manifest that was lost.
GridIsManifest ==
  up /\ update.step \in {"idle", "prepare", "clean"}
    => manifest = Blank \/ grid = manifest

\* Between its two halves a publication is what the manifest says.
ManifestIsPrepublished ==
  update.step \in {"switch", "label"} /\ home = CacheDir => manifest = Prepublished

FramesAreSwitched == update.step = "label" => grid.frames = update.frames

\* The grid leaves the cache directory only for want of a manifest.
AwayWithoutManifest ==
  /\ home \in CacheDir .. Pruned
  /\ home # CacheDir => manifest = Blank

DeadIsIdle == ~up => update = Idle /\ dump = Nothing

StepKnown ==
  /\ update.step \in {"idle", "prepare", "switch", "label", "clean"}
  /\ update.step = "idle" => update = Idle

\* A fetch takes arrays of another run only from a published frame of its own
\* run, which was torn.
TornByReuse ==
  ~(\A f \in update.frames : f[1] = update.run) =>
     update.run = grid.ref /\ ~Labelled(grid)

\* A grid with arrays of another run than it says, other than in the middle of a
\* publication, was restored from such a snapshot, and state.json is still one.
TornFromPayload ==
  /\ up /\ ~Labelled(grid)
  /\ update.step = "label" => update.run = grid.ref
  => /\ home # CacheDir /\ ~Labelled(payload)
     /\ dump # Nothing => \E f \in dump : f[1] # grid.ref

IInv ==
  /\ StepKnown
  /\ PreparedOnDisk
  /\ GridIsManifest
  /\ ManifestIsPrepublished
  /\ FramesAreSwitched
  /\ AwayWithoutManifest
  /\ DeadIsIdle
  /\ TornByReuse
  /\ TornFromPayload
  /\ Labelled(manifest)
  /\ ManifestWhole

--------------------------------------------------------------------------------
(* What SnapshotLinks needs besides.                                           *)

\* A fetch is of the run that latest.json names, never older than the published
\* one, and a grid knows no later run than its own.
RunsInOrder ==
  /\ latest \in Nat
  /\ update.step # "idle" => update.run = latest
  /\ Preparing => grid.ref <= update.run
  /\ \A s \in {manifest, grid, payload, worker} :
        s.ref \in Nat /\ s.prev \in Nat /\ s.prev <= s.ref

\* The arrays of the grid that are of its two runs outlast every cleanup.
ActiveOnDisk ==
  up /\ home # Pruned =>
    \A f \in grid.frames : f[1] \in {grid.ref, grid.prev} => f \in disk.files

\* What a dump has read is not of a later run than the grid's, unless that run
\* is being published.
DumpKnown ==
  /\ dump # Nothing
  /\ home = CacheDir \/ Labelled(payload)
  => \A f \in dump : f[1] \in 0 .. grid.ref \/ (update.step = "label" /\ f \in update.frames)

LinkInv == RunsInOrder /\ ActiveOnDisk /\ DumpKnown /\ SnapshotLinks

--------------------------------------------------------------------------------
(* What WorkersNeverGoBack needs besides.                                      *)

\* s is what t has been, or t.
Before(s, t) ==
  \/ s.version < t.version /\ s.ref <= t.ref
  \/ s.version = t.version /\ s.ref = t.ref

\* Whoever has s and would load t does not go back.
NotPast(s, t) == s.version <= t.version => s.ref <= t.ref

CountedFromZero ==
  \A s \in {manifest, grid, payload, worker} :
    s.version \in Nat /\ (s.version = 0 => s.ref = NoRun)

\* state.json follows the grid, and both follow the manifest while there is one.
PayloadFollows ==
  /\ IF up THEN Before(payload, grid) ELSE grid = Blank
  /\ manifest # Blank => Before(payload, manifest) /\ (up => Before(grid, manifest))

\* Until the manifest is lost, all that anyone has was in it.
ManifestKnowsAll ==
  "lost" \notin astray =>
    /\ Before(worker, manifest)
    /\ manifest = Blank =>
          /\ home = CacheDir /\ dump = Nothing
          /\ payload = Blank /\ grid = Blank /\ worker = Blank
          /\ update.step \in {"idle", "prepare"}

\* Until latest.json goes back, no one has a later run than it names.
LatestIsLast ==
  "regressed" \notin astray =>
    \A s \in {manifest, grid, payload, worker} : s.ref <= latest

WorkerNotPast ==
  astray # {"lost", "regressed"} =>
    \A s \in {manifest, grid, payload} : NotPast(worker, s)

VersionInv ==
  /\ astray \subseteq {"lost", "regressed"}
  /\ CountedFromZero /\ PayloadFollows /\ ManifestKnowsAll /\ LatestIsLast
  /\ WorkerNotPast

--------------------------------------------------------------------------------
\* A cleanup keeps the arrays of the two runs it is told to protect
\* (_cleanup_run_directories).
LEMMA CleanupProtects ==
  ASSUME NEW d, NEW ref, NEW prev, NEW retained
  PROVE  \A f \in d.files : f[1] \in {ref, prev} => f \in Cleaned(d, ref, prev, retained).files
<1>1. {ref, prev} \subseteq RunDirectoriesKept(d, ref, prev, retained)
  BY DEF RunDirectoriesKept
<1>. QED  BY <1>1 DEF Cleaned

\* So it leaves the published run whole, if the grid names that run.
LEMMA CleanupKeepsManifest ==
  ASSUME NEW ref, NEW prev, NEW retained,
         disk' = Cleaned(disk, ref, prev, retained),
         manifest = Blank \/ ref = manifest.ref,
         Labelled(manifest), ManifestWhole, UNCHANGED manifest
  PROVE  ManifestWhole'
<1>1. \A f \in disk.files : f[1] = ref => f \in disk'.files
  BY CleanupProtects
<1>2. CASE manifest = Blank
  BY <1>2 DEF ManifestWhole, Whole, Blank
<1>3. CASE ref = manifest.ref
  BY <1>1, <1>3 DEF ManifestWhole, Whole, Labelled
<1>. QED  BY <1>2, <1>3

\* A snapshot that names nothing is of one run.
LEMMA BlankIsLabelled == Labelled(Blank) /\ Blank.frames = {} /\ Blank.ref = NoRun
BY DEF Labelled, Blank

\* The homes of the grid are different places.
LEMMA HomesDiffer == /\ CacheDir # Newest /\ CacheDir # Pruned /\ Newest # Pruned
                     /\ {CacheDir, Newest} \subseteq CacheDir .. Pruned
BY RetentionAssumption DEF CacheDir, Newest, Pruned

\* What a timestep persists goes to the directory of the run (_persist_frame).
LEMMA PersistedLabelled ==
  ASSUME NEW run, NEW frames
  PROVE  \A f \in Persisted(run, frames) : f[1] = run
<1> SUFFICES ASSUME NEW f \in Persisted(run, frames) PROVE f[1] = run
  OBVIOUS
<1>1. PICK g \in frames :
        LET there == Cached(run, {<<g[2], g[3]>>})
        IN f = IF there = {} THEN <<run, g[2], g[3], g[4]>> ELSE CHOOSE e \in there : TRUE
  BY DEF Persisted
<1> DEFINE there == Cached(run, {<<g[2], g[3]>>})
<1>2. CASE there = {}
  BY <1>1, <1>2
<1>3. CASE there # {}
  <2>1. (CHOOSE e \in there : TRUE) \in there
    BY <1>3
  <2>2. f \in there
    BY <1>1, <1>3, <2>1
  <2>. QED  BY <2>2 DEF Cached
<1>. QED  BY <1>2, <1>3

\* Before anything is published the manifest names nothing.
LEMMA InitIInv == Init => IInv
BY HomesDiffer, BlankIsLabelled
   DEF Init, IInv, StepKnown, PreparedOnDisk, Preparing, GridIsManifest, DeadIsIdle,
       ManifestIsPrepublished, FramesAreSwitched, AwayWithoutManifest, TornByReuse,
       TornFromPayload, ManifestWhole, Whole, Idle

\* A fetch that fails cleans up around the published run and ends.
LEMMA FailUpdateKeeps ==
  ASSUME IInv, up, update.step \in {"idle", "prepare"}, FailUpdate
  PROVE  IInv'
<1>1. ManifestWhole'
  BY CleanupKeepsManifest DEF FailUpdate, IInv, GridIsManifest
<1>2. update' = Idle /\ update'.step = "idle" /\ update'.frames = {}
      /\ UNCHANGED <<home, manifest, grid, up, dump, payload>>
  BY DEF FailUpdate, Idle
<1>3. TornFromPayload'
  BY <1>2 DEF IInv, TornFromPayload, Labelled
<1>. QED
  BY <1>1, <1>2, <1>3
  DEF IInv, StepKnown, PreparedOnDisk, Preparing, GridIsManifest, DeadIsIdle,
      ManifestIsPrepublished, FramesAreSwitched, AwayWithoutManifest, TornByReuse, Labelled

\* Steps that leave the disk, the grid and the fetch alone disturb nothing.
LEMMA ElsewhereKeeps ==
  ASSUME IInv, UNCHANGED <<home, disk, manifest, grid, up, update, dump, payload>>
  PROVE  IInv'
BY DEF IInv, StepKnown, PreparedOnDisk, Preparing, GridIsManifest, DeadIsIdle,
       ManifestWhole, ManifestIsPrepublished, FramesAreSwitched, Prepublished,
       AwayWithoutManifest, TornByReuse, TornFromPayload, Whole, Labelled

\* A fetch begins with arrays that it has found on disk, and with those of another
\* run only where a torn grid says that they are of this (_fetch_sync).
LEMMA CheckKeeps ==
  ASSUME IInv, Check
  PROVE  IInv'
<1>1. \A t : /\ Reusable(t) \subseteq disk.files
             /\ \A f \in Reusable(t) : f[1] = latest \/ (latest = grid.ref /\ f \in grid.frames)
  BY DEF Reusable, Cached, At
<1>2. disk'.files = disk.files
  BY DEF Check, MakeDir, Written
<1>3. /\ update'.step = "prepare" /\ update'.run = latest
      /\ update'.frames = UNION {Reusable(t) : t \in TimesOf(Required(latest))}
  BY DEF Check
<1>4. update.step = "idle" /\ up /\ UNCHANGED <<home, manifest, grid, up, dump, payload>>
  BY DEF Check, Idle
<1>5. update'.frames \subseteq disk.files
  BY <1>1, <1>3
<1>6. \A f \in update'.frames : f[1] = latest \/ (latest = grid.ref /\ f \in grid.frames)
  BY <1>1, <1>3
<1>7. TornByReuse'
  BY <1>3, <1>4, <1>6 DEF TornByReuse, Labelled
<1>8. TornFromPayload'
  BY <1>3, <1>4 DEF IInv, TornFromPayload, Labelled
<1>. QED
  BY <1>2, <1>3, <1>4, <1>5, <1>7, <1>8
  DEF IInv, StepKnown, PreparedOnDisk, Preparing, GridIsManifest, ManifestIsPrepublished,
      FramesAreSwitched, AwayWithoutManifest, DeadIsIdle, ManifestWhole, Whole, Labelled

\* A step of the preparation that adds to the disk, and to the prepared arrays
\* none but those of the run and on disk.
LEMMA PreparationKeeps ==
  ASSUME IInv, update.step = "prepare", update'.step = "prepare",
         update'.run = update.run, disk.files \subseteq disk'.files,
         \A f \in update'.frames :
            f \in update.frames \/ (f[1] = update.run /\ f \in disk'.files),
         UNCHANGED <<home, manifest, grid, up, dump, payload>>
  PROVE  IInv'
<1>1. up
  BY DEF IInv, DeadIsIdle, Idle
<1>2. TornByReuse' /\ TornFromPayload'
  BY DEF IInv, TornByReuse, TornFromPayload, Labelled
<1>. QED
  BY <1>1, <1>2
  DEF IInv, StepKnown, PreparedOnDisk, Preparing, GridIsManifest, ManifestIsPrepublished,
      FramesAreSwitched, AwayWithoutManifest, DeadIsIdle, ManifestWhole, Whole, Labelled

\* The arrays of a timestep join the prepared ones once they are on disk
\* (_fetch_and_persist_timestep).
LEMMA PersistKeeps ==
  ASSUME IInv, NEW t, PersistTimestep(t)
  PROVE  IInv'
<1>. DEFINE got == Persisted(update.run, Merged(t))
<1>1. disk'.files = disk.files \cup got
  BY DEF PersistTimestep, Written
<1>2. update' = [update EXCEPT !.frames = (@ \ At(@, t)) \cup got,
                               !.todo = @ \ {t}]
  BY DEF PersistTimestep
<1>3. update.step = "prepare" /\ UNCHANGED <<home, manifest, grid, up, dump, payload>>
  BY DEF PersistTimestep
<1>4. \A f \in got : f[1] = update.run
  BY PersistedLabelled
<1>. HIDE DEF got
<1>5. update'.step = update.step /\ update'.run = update.run
  BY <1>2
<1>6. update'.frames \subseteq update.frames \cup got
  BY <1>2
<1>. QED  BY <1>1, <1>3, <1>4, <1>5, <1>6, PreparationKeeps

\* A timestep that fails leaves at most more arrays.
LEMMA TimestepFailsKeeps ==
  ASSUME IInv, NEW t, TimestepFails(t)
  PROVE  IInv'
<1>1. disk.files \subseteq disk'.files
  BY DEF TimestepFails, Written
<1>2. update' = [update EXCEPT !.todo = @ \ {t}, !.broken = TRUE]
  BY DEF TimestepFails
<1>3. update.step = "prepare" /\ UNCHANGED <<home, manifest, grid, up, dump, payload>>
  BY DEF TimestepFails
<1>4. update'.step = update.step /\ update'.frames = update.frames
      /\ update'.run = update.run
  BY <1>2
<1>. QED  BY <1>1, <1>3, <1>4, PreparationKeeps

\* The manifest is replaced when all it names is on disk, and of one run: in the
\* cache directory no grid is torn (_publish_prepared).
LEMMA WriteActiveManifestKeeps ==
  ASSUME IInv, WriteActiveManifest
  PROVE  IInv'
<1>1. update.step = "prepare" /\ update'.step = "switch"
  BY DEF WriteActiveManifest, Prepared
<1>2. UNCHANGED <<home, disk, grid, up, dump, payload>>
  BY DEF WriteActiveManifest
<1>3. manifest' = IF home = CacheDir THEN Prepublished ELSE manifest
  BY DEF WriteActiveManifest
<1>4. update' = [update EXCEPT !.step = "switch"]
  BY DEF WriteActiveManifest
<1>5. update'.run = update.run /\ update'.frames = update.frames
  BY <1>4
<1>6. up
  BY <1>1 DEF IInv, DeadIsIdle, Idle
<1>7. Prepublished' = Prepublished
  BY <1>2, <1>5 DEF Prepublished
<1>8. Prepublished.frames = update.frames /\ Prepublished.ref = update.run
  BY DEF Prepublished
<1>9. home = CacheDir => update.frames \subseteq disk.files /\ Labelled(Prepublished)
  <2>1. home = CacheDir => update.frames \subseteq disk.files
    BY <1>1, HomesDiffer DEF IInv, PreparedOnDisk, Preparing
  <2>2. home = CacheDir => \A f \in update.frames : f[1] = update.run
    BY <1>1, <1>6 DEF IInv, TornByReuse, TornFromPayload
  <2>. QED  BY <1>8, <2>1, <2>2 DEF Labelled
<1>10. ManifestWhole' /\ Labelled(manifest)'
  <2>1. CASE home = CacheDir
    BY <1>2, <1>3, <1>8, <1>9, <2>1 DEF ManifestWhole, Whole, Labelled
  <2>2. CASE home # CacheDir
    BY <1>2, <1>3, <2>2 DEF IInv, ManifestWhole, Whole, Labelled
  <2>. QED  BY <2>1, <2>2
<1>11. TornByReuse' /\ TornFromPayload'
  BY <1>1, <1>2, <1>5, <1>6 DEF IInv, TornByReuse, TornFromPayload, Labelled
<1>. QED
  BY <1>1, <1>2, <1>3, <1>5, <1>6, <1>7, <1>10, <1>11
  DEF IInv, StepKnown, PreparedOnDisk, Preparing, GridIsManifest, ManifestIsPrepublished,
      FramesAreSwitched, AwayWithoutManifest, DeadIsIdle

\* Its fields then go to the grid, and the grid agrees with it again.
LEMMA SwitchKeeps ==
  ASSUME IInv, SwitchFrames \/ SwitchLabels
  PROVE  IInv'
<1>1. CASE SwitchFrames
  <2>1. update.step = "switch" /\ UNCHANGED <<home, disk, manifest, up, dump, payload>>
    BY <1>1 DEF SwitchFrames, place
  <2>2. update' = [update EXCEPT !.step = "label"]
    BY <1>1 DEF SwitchFrames
  <2>3. update'.step = "label" /\ update'.run = update.run
        /\ update'.frames = update.frames
    BY <1>1 DEF SwitchFrames
  <2>4. grid'.ref = grid.ref /\ grid'.prev = grid.prev
        /\ grid'.version = grid.version /\ grid'.frames = update.frames
    BY <1>1 DEF SwitchFrames
  <2>5. Prepublished' = Prepublished
    BY <2>3, <2>4 DEF Prepublished
  <2>6. up
    BY <2>1 DEF IInv, DeadIsIdle, Idle
  <2>7. TornByReuse' /\ TornFromPayload'
    BY <2>1, <2>3, <2>4, <2>6 DEF IInv, TornByReuse, TornFromPayload, Labelled
  <2>. QED
    BY <2>1, <2>3, <2>4, <2>5, <2>6, <2>7
    DEF IInv, StepKnown, PreparedOnDisk, Preparing, GridIsManifest, ManifestIsPrepublished,
        FramesAreSwitched, AwayWithoutManifest, DeadIsIdle, ManifestWhole, Whole, Labelled
<1>2. CASE SwitchLabels
  <2>1. update.step = "label" /\ UNCHANGED <<home, disk, manifest, up, dump, payload>>
        /\ grid' = Prepublished
        /\ update'.step = "clean" /\ update'.run = update.run
        /\ update'.frames = update.frames
    BY <1>2 DEF SwitchLabels, place
  <2>2. up
    BY <2>1 DEF IInv, DeadIsIdle, Idle
  <2>3. grid'.frames = update.frames /\ grid'.ref = update.run
    BY <2>1 DEF Prepublished
  <2>4. TornByReuse' /\ TornFromPayload'
    BY <2>1, <2>2, <2>3 DEF IInv, TornByReuse, TornFromPayload, FramesAreSwitched, Labelled
  <2>. QED
    BY <2>1, <2>2, <2>4
    DEF IInv, StepKnown, PreparedOnDisk, Preparing, GridIsManifest, ManifestIsPrepublished,
        FramesAreSwitched, AwayWithoutManifest, DeadIsIdle, ManifestWhole, Whole, Labelled
<1>. QED  BY <1>1, <1>2

\* The cleanup after a publication is the one place where the directory of the
\* run before the previous one goes: the manifest is the grid's by then.
LEMMA CleanUpKeeps ==
  ASSUME IInv, CleanUp
  PROVE  IInv'
<1>1. update.step = "clean" /\ update' = Idle
      /\ UNCHANGED <<home, manifest, grid, up, dump, payload>>
  BY DEF CleanUp
<1>2. up /\ update'.step = "idle" /\ update'.frames = {}
  BY <1>1 DEF IInv, DeadIsIdle, Idle
<1>3. ManifestWhole'
  BY <1>1, <1>2, CleanupKeepsManifest DEF CleanUp, IInv, GridIsManifest
<1>4. TornFromPayload'
  BY <1>1, <1>2 DEF IInv, TornFromPayload, Labelled
<1>. QED
  BY <1>1, <1>2, <1>3, <1>4
  DEF IInv, StepKnown, PreparedOnDisk, Preparing, GridIsManifest, ManifestIsPrepublished,
      FramesAreSwitched, AwayWithoutManifest, DeadIsIdle, TornByReuse, Labelled

\* A dump takes the frames that the grid has now.
LEMMA DumpFramesKeeps ==
  ASSUME IInv, DumpFrames
  PROVE  IInv'
<1>1. /\ up /\ dump' = grid.frames
      /\ UNCHANGED <<home, disk, manifest, grid, up, update, payload>>
  BY DEF DumpFrames, place
<1>2. TornFromPayload'
  BY <1>1 DEF IInv, TornFromPayload, Labelled
<1>. QED
  BY <1>1, <1>2
  DEF IInv, StepKnown, PreparedOnDisk, Preparing, GridIsManifest, DeadIsIdle,
      ManifestWhole, ManifestIsPrepublished, FramesAreSwitched, Prepublished,
      AwayWithoutManifest, TornByReuse, Whole, Labelled

\* A publication of the state touches the arrays only of a generation, and a torn
\* grid makes a torn snapshot.
LEMMA PublishStateKeeps ==
  ASSUME IInv, PublishState
  PROVE  IInv'
<1>1. /\ UNCHANGED <<manifest, grid, up, update>> /\ up
      /\ dump # Nothing /\ dump' = Nothing
      /\ payload'.ref = grid.ref /\ payload'.frames = dump
  BY DEF PublishState
<1>2. /\ home = CacheDir <=> home' = CacheDir
      /\ home' \in CacheDir .. Pruned
      /\ home' # Pruned => disk' = disk /\ home # Pruned
      /\ home = CacheDir => disk' = disk
  <2>1. home \in CacheDir .. Pruned
    BY DEF IInv, AwayWithoutManifest
  <2>. QED  BY <2>1, RetentionAssumption DEF PublishState, CacheDir, Newest, Pruned
<1>3. ManifestWhole'
  BY <1>1, <1>2, BlankIsLabelled DEF IInv, AwayWithoutManifest, ManifestWhole, Whole
<1>4. TornFromPayload'
  BY <1>1, <1>2 DEF IInv, TornFromPayload, Labelled
<1>. QED
  BY <1>1, <1>2, <1>3, <1>4
  DEF IInv, StepKnown, PreparedOnDisk, Preparing, GridIsManifest, ManifestIsPrepublished,
      Prepublished, FramesAreSwitched, AwayWithoutManifest, DeadIsIdle, TornByReuse, Labelled

\* One that fails only forgets what it has read.
LEMMA PublicationFailsKeeps ==
  ASSUME IInv, PublicationFails
  PROVE  IInv'
BY DEF PublicationFails, place, IInv, StepKnown, PreparedOnDisk, Preparing, GridIsManifest,
       DeadIsIdle, ManifestWhole, ManifestIsPrepublished, FramesAreSwitched, Prepublished,
       AwayWithoutManifest, TornByReuse, TornFromPayload, Whole, Labelled

\* Death leaves the manifest and every array of it.
LEMMA CrashKeeps ==
  ASSUME IInv, Crash
  PROVE  IInv'
<1>1. disk.files \subseteq disk'.files
  BY DEF Crash, Written
<1>2. UNCHANGED <<home, manifest>> /\ update' = Idle /\ dump' = Nothing /\ ~up'
      /\ update'.step = "idle" /\ update'.frames = {}
  BY DEF Crash, Idle
<1>. QED
  BY <1>1, <1>2
  DEF IInv, StepKnown, PreparedOnDisk, Preparing, GridIsManifest, DeadIsIdle,
      ManifestIsPrepublished, FramesAreSwitched, AwayWithoutManifest, TornByReuse,
      TornFromPayload, ManifestWhole, Whole, Labelled

\* What a restart starts from.
LEMMA RestartFacts ==
  ASSUME IInv, Restart
  PROVE  /\ ~up /\ up' /\ UNCHANGED <<manifest, update, dump, worker>>
         /\ update = Idle /\ update.step = "idle" /\ update.frames = {} /\ dump = Nothing
         /\ grid' = LastKnownGood /\ home' = Home
         /\ disk' = Cleaned(HomeDisk, LastKnownGood.ref, LastKnownGood.prev, 1)
         /\ payload' = IF Opens(payload) THEN payload ELSE Blank
         /\ manifest # Blank =>
               LastKnownGood = manifest /\ home = CacheDir /\ Home = CacheDir /\ HomeDisk = disk
         /\ manifest = Blank /\ Adopted => LastKnownGood = payload /\ Home = Newest
         /\ manifest = Blank /\ ~Adopted => LastKnownGood = Blank /\ Home = CacheDir
<1>1. ~up /\ up' /\ UNCHANGED <<manifest, update, dump, worker>>
      /\ grid' = LastKnownGood /\ home' = Home
      /\ disk' = Cleaned(HomeDisk, LastKnownGood.ref, LastKnownGood.prev, 1)
      /\ payload' = IF Opens(payload) THEN payload ELSE Blank
  BY DEF Restart
<1>2. update = Idle /\ update.step = "idle" /\ update.frames = {} /\ dump = Nothing
  BY <1>1 DEF IInv, DeadIsIdle, Idle
<1>3. manifest # Blank =>
        LastKnownGood = manifest /\ home = CacheDir /\ Home = CacheDir /\ HomeDisk = disk
  BY DEF IInv, AwayWithoutManifest, Home, HomeDisk, Adopted, LastKnownGood, ManifestWhole
<1>4. manifest = Blank /\ Adopted => LastKnownGood = payload /\ Home = Newest
  BY DEF LastKnownGood, Home, Adopted
<1>5. manifest = Blank /\ ~Adopted => LastKnownGood = Blank /\ Home = CacheDir
  BY DEF LastKnownGood, Home, Adopted
<1>. QED  BY <1>1, <1>2, <1>3, <1>4, <1>5

\* A restart believes the manifest, so its cleanup protects that run; a torn
\* snapshot it can only have from state.json (_restore_last_known_good).
LEMMA RestartKeeps ==
  ASSUME IInv, Restart
  PROVE  IInv'
<1>1. home' \in CacheDir .. Pruned /\ (home' # CacheDir => manifest = Blank)
  BY RestartFacts, HomesDiffer
<1>2. ManifestWhole'
  <2>1. CASE manifest = Blank
    BY <2>1, RestartFacts, BlankIsLabelled DEF ManifestWhole, Whole
  <2>2. CASE manifest # Blank
    <3>1. disk' = Cleaned(disk, manifest.ref, manifest.prev, 1) /\ UNCHANGED manifest
      BY <2>2, RestartFacts
    <3>. QED  BY <3>1, CleanupKeepsManifest DEF IInv
  <2>. QED  BY <2>1, <2>2
<1>3. GridIsManifest'
  BY RestartFacts DEF GridIsManifest
<1>4. TornFromPayload'
  <2> SUFFICES ASSUME ~Labelled(grid)'
               PROVE  home' # CacheDir /\ ~Labelled(payload)' /\ dump' = Nothing
    BY DEF TornFromPayload
  <2>1. LastKnownGood # Blank /\ LastKnownGood # manifest
    BY RestartFacts, BlankIsLabelled DEF IInv, Labelled
  <2>2. Adopted /\ manifest = Blank
    BY <2>1, RestartFacts
  <2>3. grid' = payload /\ home' = Newest /\ payload' = payload
    BY <2>2, RestartFacts DEF Adopted
  <2>. QED  BY <2>3, RestartFacts, HomesDiffer DEF Labelled
<1>. QED
  BY <1>1, <1>2, <1>3, <1>4, RestartFacts
  DEF IInv, StepKnown, PreparedOnDisk, Preparing, ManifestIsPrepublished,
      FramesAreSwitched, AwayWithoutManifest, DeadIsIdle, TornByReuse, Labelled

\* No step of the fetch, of the workers, of a failure or of a restart breaks it.
LEMMA NextIInv == IInv /\ [Next]_vars => IInv'
<1>. SUFFICES ASSUME IInv, [Next]_vars PROVE IInv'
  OBVIOUS
<1>1. CASE Fetch
  BY <1>1, CheckKeeps, PersistKeeps, WriteActiveManifestKeeps, SwitchKeeps,
     CleanUpKeeps DEF Fetch, Publish
<1>2. CASE CheckFails
  BY <1>2, FailUpdateKeeps DEF CheckFails, Idle
<1>3. ASSUME NEW t \in Times, TimestepFails(t) PROVE IInv'
  BY <1>3, TimestepFailsKeeps
<1>4. CASE PreparationFails
  <2>1. update.step = "prepare" /\ FailUpdate
    BY <1>4 DEF PreparationFails, Prepared
  <2>2. up
    BY <2>1 DEF IInv, DeadIsIdle, Idle
  <2>. QED  BY <2>1, <2>2, FailUpdateKeeps
<1>5. CASE Distribute
  <2>1. CASE Load \/ WorkerBoots
    BY <2>1, ElsewhereKeeps DEF Load, WorkerBoots, place
  <2>. QED
    BY <1>5, <2>1, DumpFramesKeeps, PublishStateKeeps, PublicationFailsKeeps DEF Distribute
<1>6. CASE Crash
  BY <1>6, CrashKeeps
<1>7. CASE LoseManifest
  <2>1. ManifestWhole' /\ Labelled(manifest)' /\ manifest' = Blank
    BY <1>7, BlankIsLabelled DEF LoseManifest, ManifestWhole, Whole, Labelled
  <2>2. ~up /\ UNCHANGED <<home, disk, grid, up, update, dump, payload>>
    BY <1>7 DEF LoseManifest
  <2>3. update.step = "idle" /\ update = Idle
    BY <2>2 DEF IInv, DeadIsIdle, Idle
  <2>. QED
    BY <2>1, <2>2, <2>3
    DEF IInv, StepKnown, PreparedOnDisk, Preparing, GridIsManifest, ManifestIsPrepublished,
        FramesAreSwitched, AwayWithoutManifest, DeadIsIdle, TornByReuse, TornFromPayload,
        Labelled
<1>8. CASE Restart
  BY <1>8, RestartKeeps
<1>9. CASE Tick \/ RunCompletes \/ Regresses
  BY <1>9, ElsewhereKeeps DEF Tick, RunCompletes, Regresses, place
<1>10. CASE UNCHANGED vars
  BY <1>10, ElsewhereKeeps DEF vars
<1>. QED
  BY <1>1, <1>2, <1>3, <1>4, <1>5, <1>6, <1>7, <1>8, <1>9, <1>10
     DEF Next, FetchFails

\* The invariant of the fetch, the manifest and the restarts, for every number of
\* runs, valid times, retained generations and faults.
THEOREM RunsInvariance == Spec => []IInv
BY InitIInv, NextIInv, PTL DEF Spec

\* At every moment active.json names a run whose arrays are all on disk, whatever
\* the number of runs, valid times and faults, and wherever the pipeline dies
\* (_publish_prepared, _fail_update, _cleanup_run_directories,
\* _restore_last_known_good).
THEOREM ManifestAlwaysWhole == Spec => []ManifestWhole
<1>1. IInv => ManifestWhole
  BY DEF IInv
<1>. QED  BY <1>1, RunsInvariance, PTL

--------------------------------------------------------------------------------
(* SnapshotLinks.                                                              *)

\* The snapshots that a step may make.
LEMMA RunsOfSnapshots ==
  ASSUME RunsInOrder, NEW s \in {Blank, manifest, grid, payload, worker}
  PROVE  s.ref \in Nat /\ s.prev \in Nat /\ s.prev <= s.ref
BY DEF RunsInOrder, Blank, NoRun

\* What a publication makes of the grid: a run no older than its run.
LEMMA PrepublishedRuns ==
  ASSUME RunsInOrder, Preparing
  PROVE  /\ Prepublished.ref = update.run /\ Prepublished.ref \in Nat
         /\ grid.ref <= Prepublished.ref
         /\ Prepublished.prev \in Nat /\ Prepublished.prev <= Prepublished.ref
         /\ Prepublished.prev \in {grid.ref, grid.prev}
         /\ update.run # grid.ref =>
               Prepublished.prev = grid.ref \/ (grid.ref = 0 /\ Prepublished.prev = 0)
<1>1. /\ update.run \in Nat /\ grid.ref <= update.run
      /\ grid.ref \in Nat /\ grid.prev \in Nat /\ grid.prev <= grid.ref
  BY DEF RunsInOrder, Preparing
<1>2. /\ Prepublished.ref = update.run
      /\ Prepublished.prev = IF grid.ref \in {NoRun, update.run} THEN grid.prev ELSE grid.ref
  BY DEF Prepublished
<1>. QED  BY <1>1, <1>2 DEF NoRun

\* A fetch refuses a run older than the published one, and the name of the last
\* run does not move while it is under way (_fetch_sync).
LEMMA StepRunsInOrder ==
  ASSUME IInv, [Next]_vars, RunsInOrder
  PROVE  RunsInOrder'
<1> DEFINE Sound(s) == s.ref \in Nat /\ s.prev \in Nat /\ s.prev <= s.ref
<1>0. /\ latest \in Nat
      /\ update.step # "idle" => update.run = latest
      /\ Preparing => grid.ref <= update.run
      /\ Sound(manifest) /\ Sound(grid) /\ Sound(payload) /\ Sound(worker) /\ Sound(Blank)
  BY RunsOfSnapshots DEF RunsInOrder
<1>1. ASSUME UNCHANGED latest, update'.step # "idle" => update'.run = latest,
             Preparing' => grid'.ref <= update'.run,
             Sound(manifest') /\ Sound(grid') /\ Sound(payload') /\ Sound(worker')
      PROVE  RunsInOrder'
  BY <1>0, <1>1 DEF RunsInOrder
<1>2. CASE Check
  <2>1. /\ latest >= grid.ref
        /\ update'.step = "prepare" /\ update'.run = latest
        /\ UNCHANGED <<latest, manifest, grid, payload, worker>>
    BY <1>0, <1>2 DEF Check, Regressed, world
  <2>. QED  BY <1>0, <1>1, <2>1 DEF Preparing
<1>3. ASSUME NEW t, PersistTimestep(t) \/ TimestepFails(t) PROVE RunsInOrder'
  <2>1. /\ update.step = "prepare" /\ update'.step = "prepare" /\ update'.run = update.run
        /\ UNCHANGED <<latest, manifest, grid, payload, worker>>
    <3>1. CASE PersistTimestep(t)
      BY <3>1 DEF PersistTimestep, world
    <3>2. CASE TimestepFails(t)
      BY <3>2 DEF TimestepFails, world
    <3>. QED  BY <1>3, <3>1, <3>2
  <2>. QED  BY <1>0, <1>1, <2>1 DEF Preparing
<1>4. CASE WriteActiveManifest
  <2>1. /\ update.step = "prepare" /\ update'.step = "switch" /\ update'.run = update.run
        /\ UNCHANGED <<latest, grid, payload, worker>>
        /\ manifest' = IF home = CacheDir THEN Prepublished ELSE manifest
    BY <1>4 DEF WriteActiveManifest, Prepared, world
  <2>2. Sound(Prepublished) /\ grid.ref <= update.run
    BY <2>1, PrepublishedRuns, <1>0 DEF Preparing
  <2>3. Sound(manifest')
    BY <1>0, <2>1, <2>2
  <2>. QED  BY <1>0, <1>1, <2>1, <2>2, <2>3
<1>5. CASE SwitchFrames
  <2>1. /\ update.step = "switch" /\ update'.step = "label" /\ update'.run = update.run
        /\ UNCHANGED <<latest, manifest, payload, worker>>
        /\ grid'.ref = grid.ref /\ grid'.prev = grid.prev
    BY <1>5 DEF SwitchFrames, world, place
  <2>. QED  BY <1>0, <1>1, <2>1 DEF Preparing
<1>6. CASE SwitchLabels
  <2>1. /\ update.step = "label" /\ update'.step = "clean" /\ update'.run = update.run
        /\ UNCHANGED <<latest, manifest, payload, worker>> /\ grid' = Prepublished
    BY <1>6 DEF SwitchLabels, world, place
  <2>2. Sound(Prepublished)
    BY <2>1, PrepublishedRuns DEF Preparing
  <2>. QED  BY <1>0, <1>1, <2>1, <2>2 DEF Preparing
<1>7. ASSUME UNCHANGED latest, update' = Idle, grid' \in {grid, Blank, LastKnownGood},
             UNCHANGED manifest, payload' \in {payload, Blank}, worker' = worker
      PROVE  RunsInOrder'
  <2>1. Sound(LastKnownGood)
    BY <1>0 DEF LastKnownGood
  <2>2. Sound(grid') /\ Sound(payload')
    BY <1>0, <1>7, <2>1
  <2>3. update'.step = "idle"
    BY <1>7 DEF Idle
  <2>. QED  BY <1>0, <1>1, <1>7, <2>2, <2>3 DEF Preparing
<1>8. CASE CleanUp \/ CheckFails \/ PreparationFails \/ Crash
  BY <1>7, <1>8 DEF CleanUp, CheckFails, PreparationFails, FailUpdate, Crash, world
<1>9. CASE Restart
  <2>1. /\ update' = Idle /\ grid' = LastKnownGood /\ payload' \in {payload, Blank}
        /\ UNCHANGED <<manifest, worker>>
    BY <1>9, RestartFacts
  <2>. QED  BY <1>7, <1>9, <2>1 DEF Restart, world
<1>10. CASE Distribute \/ LoseManifest
  <2>1. UNCHANGED <<latest, update, grid>>
    BY <1>10 DEF Distribute, DumpFrames, PublishState, PublicationFails, Load, WorkerBoots,
                 LoseManifest, world, place
  <2>2. manifest' \in {manifest, Blank}
    BY <1>10 DEF Distribute, DumpFrames, PublishState, PublicationFails, Load, WorkerBoots,
                 LoseManifest, place
  <2>3. Sound(payload')
    <3>1. \/ payload' = payload
          \/ payload'.ref = grid.ref /\ payload'.prev = grid.prev
      <4>1. CASE PublishState
        BY <4>1 DEF PublishState
      <4>2. CASE DumpFrames \/ PublicationFails \/ Load \/ WorkerBoots \/ LoseManifest
        BY <4>2 DEF DumpFrames, PublicationFails, Load, WorkerBoots, LoseManifest
      <4>. QED  BY <1>10, <4>1, <4>2 DEF Distribute
    <3>. QED  BY <1>0, <3>1
  <2>4. worker' \in {worker, payload, manifest, Blank}
    BY <1>10 DEF Distribute, DumpFrames, PublishState, PublicationFails, Load, WorkerBoots,
                 LoseManifest, LastKnownGood
  <2>. QED  BY <1>0, <1>1, <2>1, <2>2, <2>3, <2>4 DEF Preparing
<1>11. CASE Tick \/ RunCompletes \/ Regresses
  <2>1. /\ update.step = "idle" /\ UNCHANGED <<update, manifest, grid, payload, worker>>
    BY <1>11 DEF Tick, RunCompletes, Regresses, Quiet, Idle, place
  <2>2. latest' \in Nat
    BY <1>0, <1>11 DEF Tick, RunCompletes, Regresses
  <2>. QED  BY <1>0, <2>1, <2>2 DEF RunsInOrder, Preparing
<1>12. CASE UNCHANGED vars
  BY <1>12 DEF vars, RunsInOrder, Preparing
<1>. QED
  BY <1>2, <1>3, <1>4, <1>5, <1>6, <1>8, <1>9, <1>10, <1>11, <1>12
     DEF Next, Fetch, Publish, FetchFails

\* Steps that keep the arrays of the grid's two runs, and the grid.
LEMMA LinksKept ==
  ASSUME ActiveOnDisk, DumpKnown, SnapshotLinks, UNCHANGED <<home, grid, up, payload>>,
         dump' \in {dump, Nothing}, update.step # "label" \/ update' = update,
         \A f \in disk.files : f[1] \in {grid.ref, grid.prev} => f \in disk'.files
  PROVE  ActiveOnDisk' /\ DumpKnown' /\ SnapshotLinks'
BY DEF ActiveOnDisk, DumpKnown, SnapshotLinks, Labelled

\* The run that a publication makes the active one: what a dump has read of it
\* while its frames were switched is on disk (_publish_prepared).
LEMMA SwitchLabelsLinks ==
  ASSUME IInv, LinkInv, SwitchLabels
  PROVE  ActiveOnDisk' /\ DumpKnown' /\ SnapshotLinks'
<1>1. /\ update.step = "label" /\ Preparing
      /\ UNCHANGED <<home, disk, up, dump, payload>>
      /\ grid' = Prepublished /\ grid'.frames = update.frames
  BY DEF SwitchLabels, place, Preparing, Prepublished
<1>2. /\ grid'.ref = update.run /\ grid.ref <= update.run
      /\ update.run \in Nat /\ grid.ref \in Nat /\ grid'.prev \in Nat
      /\ grid'.prev \in {grid.ref, grid.prev}
      /\ update.run # grid.ref => grid'.prev = grid.ref \/ (grid.ref = 0 /\ grid'.prev = 0)
  BY <1>1, PrepublishedRuns DEF LinkInv, RunsInOrder
<1>3. home # Pruned => update.frames \subseteq disk.files
  BY <1>1 DEF IInv, PreparedOnDisk
<1>4. up
  BY <1>1 DEF IInv, DeadIsIdle, Idle
<1>5. ActiveOnDisk'
  BY <1>1, <1>3 DEF ActiveOnDisk
<1>6. ASSUME dump # Nothing, home = CacheDir \/ Labelled(payload)
      PROVE  \A f \in dump : /\ f[1] \in 0 .. grid.ref \/ f \in update.frames
                             /\ f \in update.frames => f[1] = update.run
  <2>1. \A f \in dump : f[1] \in 0 .. grid.ref \/ f \in update.frames
    BY <1>6 DEF LinkInv, DumpKnown
  <2>2. \A f \in update.frames : f[1] = update.run
    BY <1>4, <1>6 DEF IInv, TornByReuse, TornFromPayload
  <2>. QED  BY <2>1, <2>2
<1>7. DumpKnown'
  <2> SUFFICES ASSUME dump # Nothing, home = CacheDir \/ Labelled(payload), NEW f \in dump
               PROVE  f[1] \in 0 .. update.run
    BY <1>1, <1>2 DEF DumpKnown, Labelled
  <2>1. CASE f \in update.frames
    BY <1>2, <1>6, <2>1
  <2>2. CASE f \notin update.frames
    BY <1>2, <1>6, <2>2
  <2>. QED  BY <2>1, <2>2
<1>8. SnapshotLinks'
  <2> SUFFICES ASSUME dump # Nothing, home # Pruned, home = CacheDir \/ Labelled(payload),
                      NEW f \in dump, f[1] \in {grid'.ref, grid'.prev}
               PROVE  f \in disk.files
    BY <1>1 DEF SnapshotLinks, Labelled
  <2>1. f[1] \in {grid.ref, grid.prev} => f \in disk.files
    BY DEF LinkInv, SnapshotLinks
  <2>2. CASE f[1] = update.run /\ update.run # grid.ref
    <3>1. f \in update.frames
      BY <1>2, <1>6, <2>2
    <3>. QED  BY <1>3, <3>1
  <2>. QED  BY <1>2, <2>1, <2>2
<1>. QED  BY <1>5, <1>7, <1>8

\* A dump that begins reads arrays that are on disk, of no later run than the
\* grid's: in the middle of a publication, those that were prepared.
LEMMA DumpFramesLinks ==
  ASSUME IInv, LinkInv, DumpFrames
  PROVE  ActiveOnDisk' /\ DumpKnown' /\ SnapshotLinks'
<1>1. up /\ dump' = grid.frames /\ UNCHANGED <<home, disk, grid, up, update, payload>>
  BY DEF DumpFrames, place
<1>2. grid.ref \in Nat
  BY DEF LinkInv, RunsInOrder
<1>3. DumpKnown'
  <2> SUFFICES ASSUME home = CacheDir \/ Labelled(payload), NEW f \in grid.frames
               PROVE  f[1] \in 0 .. grid.ref \/ (update.step = "label" /\ f \in update.frames)
    BY <1>1 DEF DumpKnown, Labelled
  <2>1. CASE update.step = "label"
    BY <2>1 DEF IInv, FramesAreSwitched
  <2>2. CASE update.step # "label"
    <3>1. Labelled(grid)
      BY <1>1, <2>2 DEF IInv, TornFromPayload
    <3>. QED  BY <1>2, <3>1 DEF Labelled
  <2>. QED  BY <2>1, <2>2
<1>. QED  BY <1>1, <1>3 DEF LinkInv, ActiveOnDisk, SnapshotLinks

\* A publication of the state forgets what it has read; the prune takes a
\* generation as a whole.
LEMMA PublishStateLinks ==
  ASSUME IInv, LinkInv, PublishState
  PROVE  ActiveOnDisk' /\ DumpKnown' /\ SnapshotLinks'
<1>1. UNCHANGED <<grid, up>> /\ dump' = Nothing
  BY DEF PublishState
<1>2. home' # Pruned => disk' = disk /\ home # Pruned
  <2>1. home \in CacheDir .. Pruned
    BY DEF IInv, AwayWithoutManifest
  <2>. QED  BY <2>1, RetentionAssumption DEF PublishState, CacheDir, Newest, Pruned
<1>. QED  BY <1>1, <1>2 DEF LinkInv, ActiveOnDisk, DumpKnown, SnapshotLinks

\* A restart finds what the manifest or the generation names, and protects its
\* two runs (_restore_last_known_good, _cleanup_run_directories).
LEMMA RestartLinks ==
  ASSUME IInv, LinkInv, Restart
  PROVE  ActiveOnDisk' /\ DumpKnown' /\ SnapshotLinks'
<1>1. DumpKnown' /\ SnapshotLinks'
  BY RestartFacts DEF DumpKnown, SnapshotLinks
<1>2. ActiveOnDisk'
  <2>1. LastKnownGood.frames \subseteq HomeDisk.files
    <3>1. CASE manifest # Blank
      BY <3>1, RestartFacts DEF IInv, ManifestWhole, Whole
    <3>2. CASE manifest = Blank /\ ~Adopted
      BY <3>2, RestartFacts, BlankIsLabelled
    <3>3. CASE manifest = Blank /\ Adopted
      <4>1. LastKnownGood = payload /\ Home = Newest
        BY <3>3, RestartFacts
      <4>2. CASE home = Newest
        BY <3>3, <4>1, <4>2 DEF HomeDisk, Adopted, Opens, Whole
      <4>3. CASE home # Newest
        BY <3>3, <4>1, <4>3 DEF HomeDisk, Generation
      <4>. QED  BY <4>2, <4>3
    <3>. QED  BY <3>1, <3>2, <3>3
  <2>2. grid' = LastKnownGood
        /\ disk' = Cleaned(HomeDisk, LastKnownGood.ref, LastKnownGood.prev, 1)
    BY RestartFacts
  <2>. QED  BY <2>1, <2>2, CleanupProtects DEF ActiveOnDisk
<1>. QED  BY <1>1, <1>2

\* Every step keeps what a publication of the state links.
LEMMA NextLinkInv == ASSUME IInv, LinkInv, [Next]_vars PROVE LinkInv'
<1>1. RunsInOrder'
  BY StepRunsInOrder DEF LinkInv
<1> SUFFICES ActiveOnDisk' /\ DumpKnown' /\ SnapshotLinks'
  BY <1>1 DEF LinkInv
<1>2. ActiveOnDisk /\ DumpKnown /\ SnapshotLinks
  BY DEF LinkInv
<1>3. CASE Check \/ (\E t \in Times : PersistTimestep(t) \/ TimestepFails(t))
            \/ WriteActiveManifest \/ SwitchFrames
  <2>1. /\ UNCHANGED <<home, up, payload, dump>> /\ disk.files \subseteq disk'.files
        /\ update.step # "label"
    <3>1. CASE Check
      BY <3>1 DEF Check, Idle, MakeDir, Written
    <3>3. CASE WriteActiveManifest
      BY <3>3 DEF WriteActiveManifest, Prepared
    <3>4. CASE SwitchFrames
      BY <3>4 DEF SwitchFrames, place
    <3>2. ASSUME NEW t, PersistTimestep(t) \/ TimestepFails(t)
          PROVE  /\ UNCHANGED <<home, up, payload, dump>> /\ disk.files \subseteq disk'.files
                 /\ update.step # "label"
      BY <3>2 DEF PersistTimestep, TimestepFails, Written
    <3>. QED  BY <1>3, <3>1, <3>2, <3>3, <3>4
  <2>2. CASE UNCHANGED grid
    BY <1>2, <2>1, <2>2, LinksKept
  <2>3. CASE SwitchFrames
    <3>1. /\ grid'.ref = grid.ref /\ grid'.prev = grid.prev /\ grid'.frames = update.frames
          /\ disk' = disk /\ Preparing
      BY <2>3 DEF SwitchFrames, place, Preparing
    <3>2. home # Pruned => update.frames \subseteq disk.files
      BY <3>1 DEF IInv, PreparedOnDisk
    <3>. QED
      BY <1>2, <2>1, <3>1, <3>2 DEF ActiveOnDisk, DumpKnown, SnapshotLinks, Labelled
  <2>. QED
    BY <1>3, <2>2, <2>3 DEF Check, PersistTimestep, TimestepFails, WriteActiveManifest
<1>4. CASE CheckFails \/ PreparationFails \/ CleanUp
  <2>1. /\ UNCHANGED <<home, grid, up, payload, dump>> /\ update.step # "label"
        /\ \E n : disk' = Cleaned(disk, grid.ref, grid.prev, n)
    BY <1>4 DEF CheckFails, PreparationFails, FailUpdate, CleanUp, Prepared, Idle
  <2>2. \A f \in disk.files : f[1] \in {grid.ref, grid.prev} => f \in disk'.files
    BY <2>1, CleanupProtects
  <2>. QED  BY <1>2, <2>1, <2>2, LinksKept
<1>5. CASE Crash
  BY <1>5 DEF Crash, ActiveOnDisk, DumpKnown, SnapshotLinks
<1>6. CASE PublicationFails \/ Load \/ WorkerBoots \/ LoseManifest
            \/ Tick \/ RunCompletes \/ Regresses \/ UNCHANGED vars
  <2>1. UNCHANGED <<home, disk, grid, up, payload, update>> /\ dump' \in {dump, Nothing}
    BY <1>6 DEF PublicationFails, Load, WorkerBoots, LoseManifest, Tick, RunCompletes,
                Regresses, vars, place
  <2>. QED  BY <1>2, <2>1, LinksKept
<1>. QED
  BY <1>3, <1>4, <1>5, <1>6, SwitchLabelsLinks, DumpFramesLinks, PublishStateLinks,
     RestartLinks
     DEF Next, Fetch, Publish, FetchFails, Distribute

\* What write_state_snapshot links of the IFS grid is there when it links it,
\* though the fetch publishes and cleans up meanwhile in a thread of its own.
THEOREM SnapshotAlwaysLinks == Spec => []SnapshotLinks
<1>1. Init => LinkInv
  BY DEF Init, LinkInv, RunsInOrder, Preparing, ActiveOnDisk, DumpKnown, SnapshotLinks,
         Blank, Idle, NoRun
<1>2. IInv /\ LinkInv /\ [Next]_vars => LinkInv'
  BY NextLinkInv
<1>3. LinkInv => SnapshotLinks
  BY DEF LinkInv
<1>. QED  BY <1>1, <1>2, <1>3, RunsInvariance, PTL DEF Spec

--------------------------------------------------------------------------------
(* WorkersNeverGoBack.                                                         *)

\* Numbers that the snapshots carry, for the provers.
Counted(s) == s.ref \in Nat /\ s.version \in Nat /\ (s.version = 0 => s.ref = NoRun)

LEMMA AllCounted ==
  ASSUME RunsInOrder, CountedFromZero, NEW s \in {Blank, manifest, grid, payload, worker}
  PROVE  Counted(s)
BY DEF RunsInOrder, CountedFromZero, Counted, Blank, NoRun

\* What has been the state of another is never ahead of it, and only the same run
\* has its version; nothing is behind a state that counts from zero.
LEMMA OrderOfVersions ==
  ASSUME NEW s, NEW t, Counted(s), Counted(t)
  PROVE  /\ Before(s, s) /\ NotPast(s, s)
         /\ Before(s, t) => NotPast(s, t) /\ NotPast(t, s) /\ s.ref <= t.ref
                            /\ s.version <= t.version
         /\ NotPast(s, Blank) /\ Before(Blank, s) /\ NotPast(Blank, s)
         /\ Before(s, Blank) => s.ref = NoRun
BY DEF Counted, Before, NotPast, Blank, NoRun

\* Steps that leave the run and the version of everyone.
LEMMA VersionsKept ==
  ASSUME RunsInOrder, VersionInv, UNCHANGED <<manifest, payload, worker, up, home>>,
         grid' = grid \/ (up /\ grid'.ref = grid.ref /\ grid'.version = grid.version),
         astray' \in {astray, astray \cup {"regressed"}},
         latest' \in Nat /\ (latest' < latest => "regressed" \in astray'),
         manifest = Blank /\ "lost" \notin astray =>
            grid' = Blank /\ dump' = Nothing /\ update'.step \in {"idle", "prepare"}
  PROVE  VersionInv'
<1>1. grid'.ref = grid.ref /\ grid'.version = grid.version
  OBVIOUS
<1>2. CountedFromZero' /\ PayloadFollows'
  BY <1>1 DEF VersionInv, CountedFromZero, PayloadFollows, Before
<1>3. ManifestKnowsAll'
  BY DEF VersionInv, ManifestKnowsAll, Before
<1>4. LatestIsLast'
  <2> SUFFICES ASSUME "regressed" \notin astray', NEW s \in {manifest, grid, payload, worker}
               PROVE  s.ref <= latest'
    BY <1>1 DEF LatestIsLast
  <2>1. "regressed" \notin astray /\ latest' >= latest /\ latest \in Nat /\ s.ref \in Nat
    BY DEF RunsInOrder
  <2>2. s.ref <= latest
    BY <2>1 DEF VersionInv, LatestIsLast
  <2>. QED  BY <2>1, <2>2
<1>5. WorkerNotPast'
  BY <1>1 DEF VersionInv, WorkerNotPast, NotPast
<1>. QED  BY <1>2, <1>3, <1>4, <1>5 DEF VersionInv

\* A publication in progress: its run is not older than what anyone has, unless
\* the manifest was lost and latest.json has gone back as well.
LEMMA PublishedIsNewest ==
  ASSUME IInv, RunsInOrder, VersionInv, Preparing
  PROVE  /\ up /\ Counted(Prepublished) /\ Prepublished # Blank
         /\ Prepublished.ref = update.run /\ Prepublished.version = grid.version + 1
         /\ Before(payload, Prepublished) /\ Before(grid, Prepublished)
         /\ astray # {"lost", "regressed"} => worker.ref <= update.run
         /\ "regressed" \notin astray => update.run = latest
         /\ update.step = "prepare" /\ "lost" \notin astray => Before(worker, Prepublished)
         /\ update.step # "prepare" /\ manifest # Blank => manifest = Prepublished
<1>1. up /\ update.run = latest
  BY DEF Preparing, IInv, DeadIsIdle, Idle, RunsInOrder
<1>2. Counted(manifest) /\ Counted(grid) /\ Counted(payload) /\ Counted(worker) /\ Counted(Blank)
  BY AllCounted DEF VersionInv
<1>3. /\ Prepublished.ref = update.run /\ Prepublished.version = grid.version + 1
      /\ update.run \in Nat /\ grid.ref <= update.run
  BY PrepublishedRuns DEF Prepublished
<1>4. Counted(Prepublished) /\ Prepublished # Blank
  BY <1>2, <1>3 DEF Counted, Blank
<1>5. Before(grid, Prepublished)
  BY <1>2, <1>3 DEF Before, Counted
<1>6. Before(payload, grid)
  BY <1>1 DEF VersionInv, PayloadFollows
<1>7. Before(payload, Prepublished)
  BY <1>2, <1>3, <1>6 DEF Before, Counted
<1>8. update.step # "prepare" /\ manifest # Blank => manifest = Prepublished
  BY DEF Preparing, IInv, ManifestIsPrepublished, AwayWithoutManifest
<1>9. ASSUME "lost" \notin astray, update.step = "prepare" PROVE Before(worker, Prepublished)
  <2>1. Before(worker, manifest) /\ (manifest = Blank => worker = Blank)
    BY <1>9 DEF VersionInv, ManifestKnowsAll
  <2>2. CASE manifest = Blank
    BY <1>4, <2>1, <2>2, OrderOfVersions
  <2>3. CASE manifest # Blank
    <3>1. manifest = grid
      BY <1>1, <1>9, <2>3 DEF IInv, GridIsManifest
    <3>. QED  BY <1>2, <1>3, <2>1, <3>1 DEF Before, Counted
  <2>. QED  BY <2>2, <2>3
<1>10. ASSUME "lost" \notin astray PROVE worker.ref <= update.run
  <2>1. CASE update.step = "prepare"
    BY <1>2, <1>3, <1>4, <1>9, <1>10, <2>1, OrderOfVersions
  <2>2. CASE update.step # "prepare"
    <3>1. manifest # Blank /\ Before(worker, manifest)
      BY <1>10, <2>2 DEF Preparing, VersionInv, ManifestKnowsAll
    <3>. QED  BY <1>2, <1>3, <1>4, <1>8, <2>2, <3>1, OrderOfVersions
  <2>. QED  BY <2>1, <2>2
<1>11. ASSUME "regressed" \notin astray PROVE worker.ref <= update.run
  BY <1>1, <1>11 DEF VersionInv, LatestIsLast
<1>12. astray # {"lost", "regressed"} => worker.ref <= update.run
  <2>1. CASE "lost" \notin astray \/ "regressed" \notin astray
    BY <1>10, <1>11, <2>1
  <2>2. CASE {"lost", "regressed"} \subseteq astray
    <3>1. astray = {"lost", "regressed"}
      BY <2>2 DEF VersionInv
    <3>. QED  BY <3>1
  <2>. QED  BY <2>1, <2>2
<1>. QED  BY <1>1, <1>3, <1>4, <1>5, <1>7, <1>8, <1>9, <1>12

\* The manifest takes what is published first (_write_active_manifest).
LEMMA WriteActiveManifestVersions ==
  ASSUME IInv, RunsInOrder, VersionInv, WriteActiveManifest
  PROVE  VersionInv'
<1>1. /\ update.step = "prepare" /\ Preparing
      /\ UNCHANGED <<latest, astray, home, grid, up, dump, payload, worker>>
      /\ manifest' = IF home = CacheDir THEN Prepublished ELSE manifest
      /\ update'.step = "switch"
  BY DEF WriteActiveManifest, Prepared, Preparing, world
<1>2. /\ up /\ Counted(Prepublished) /\ Prepublished # Blank
      /\ Prepublished.ref = update.run
      /\ Before(payload, Prepublished) /\ Before(grid, Prepublished)
      /\ astray # {"lost", "regressed"} => worker.ref <= update.run
      /\ "regressed" \notin astray => update.run = latest
      /\ "lost" \notin astray => Before(worker, Prepublished)
  BY <1>1, PublishedIsNewest
<1>3. CountedFromZero'
  BY <1>1, <1>2 DEF VersionInv, CountedFromZero, Counted
<1>4. PayloadFollows'
  BY <1>1, <1>2 DEF VersionInv, PayloadFollows, Before
<1>5. ManifestKnowsAll'
  <2> SUFFICES ASSUME "lost" \notin astray PROVE Before(worker, manifest') /\ manifest' # Blank
    BY <1>1 DEF ManifestKnowsAll, Before
  <2>1. home = CacheDir
    BY DEF VersionInv, ManifestKnowsAll, IInv, AwayWithoutManifest
  <2>. QED  BY <1>1, <1>2, <2>1
<1>6. LatestIsLast'
  BY <1>1, <1>2, RunsOfSnapshots DEF VersionInv, LatestIsLast, RunsInOrder
<1>7. WorkerNotPast'
  BY <1>1, <1>2 DEF VersionInv, WorkerNotPast, NotPast
<1>. QED  BY <1>1, <1>3, <1>4, <1>5, <1>6, <1>7 DEF VersionInv

\* Then the grid does (_publish_prepared).
LEMMA SwitchLabelsVersions ==
  ASSUME IInv, RunsInOrder, VersionInv, SwitchLabels
  PROVE  VersionInv'
<1>1. /\ update.step = "label" /\ Preparing
      /\ UNCHANGED <<latest, astray, home, manifest, up, dump, payload, worker>>
      /\ grid' = Prepublished
  BY DEF SwitchLabels, Preparing, world, place
<1>2. /\ up /\ Counted(Prepublished) /\ Prepublished # Blank
      /\ Prepublished.ref = update.run
      /\ Before(payload, Prepublished)
      /\ astray # {"lost", "regressed"} => worker.ref <= update.run
      /\ "regressed" \notin astray => update.run = latest
      /\ manifest # Blank => manifest = Prepublished
  BY <1>1, PublishedIsNewest
<1>3. CountedFromZero'
  BY <1>1, <1>2 DEF VersionInv, CountedFromZero, Counted
<1>4. PayloadFollows'
  <2>1. manifest # Blank => Before(grid', manifest)
    BY <1>1, <1>2, OrderOfVersions
  <2>2. manifest # Blank => Before(payload, manifest)
    BY DEF VersionInv, PayloadFollows
  <2>. QED  BY <1>1, <1>2, <2>1, <2>2 DEF PayloadFollows, Before
<1>5. ManifestKnowsAll'
  BY <1>1 DEF VersionInv, ManifestKnowsAll, Before
<1>6. LatestIsLast'
  BY <1>1, <1>2, RunsOfSnapshots DEF VersionInv, LatestIsLast, RunsInOrder
<1>7. WorkerNotPast'
  BY <1>1, <1>2 DEF VersionInv, WorkerNotPast, NotPast
<1>. QED  BY <1>1, <1>3, <1>4, <1>5, <1>6, <1>7 DEF VersionInv

\* The state of the workers takes the version of the grid (__getstate__).
LEMMA PublishStateVersions ==
  ASSUME IInv, RunsInOrder, VersionInv, PublishState
  PROVE  VersionInv'
<1>1. /\ up /\ dump # Nothing /\ payload'.ref = grid.ref /\ payload'.version = grid.version
      /\ UNCHANGED <<latest, astray, manifest, grid, up, worker>>
  BY DEF PublishState, world
<1>2. "lost" \notin astray => manifest # Blank
  BY <1>1 DEF VersionInv, ManifestKnowsAll
<1>3. CountedFromZero'
  BY <1>1 DEF VersionInv, CountedFromZero
<1>4. PayloadFollows'
  BY <1>1 DEF VersionInv, PayloadFollows, Before
<1>5. ManifestKnowsAll'
  BY <1>1, <1>2 DEF VersionInv, ManifestKnowsAll, Before
<1>6. LatestIsLast' /\ WorkerNotPast'
  BY <1>1 DEF VersionInv, LatestIsLast, WorkerNotPast, NotPast
<1>. QED  BY <1>1, <1>3, <1>4, <1>5, <1>6 DEF VersionInv

\* What a worker loads or boots with is what the manifest, state.json or nothing
\* says (_try_load_grid_from_json, _restore_last_known_good).
LEMMA WorkerVersions ==
  ASSUME IInv, RunsInOrder, VersionInv, Load \/ WorkerBoots
  PROVE  VersionInv'
<1>1. UNCHANGED <<latest, astray, home, manifest, grid, up, update, dump, payload>>
  BY DEF Load, WorkerBoots, world, place
<1>2. worker' = payload \/ worker' = Blank \/ (worker' = manifest /\ manifest # Blank)
  BY DEF Load, WorkerBoots, LastKnownGood
<1>3. Counted(manifest) /\ Counted(grid) /\ Counted(payload) /\ Counted(Blank)
  BY AllCounted DEF VersionInv
<1>4. /\ IF up THEN Before(payload, grid) ELSE grid = Blank
      /\ manifest # Blank => Before(payload, manifest) /\ (up => Before(grid, manifest))
      /\ "lost" \notin astray /\ manifest = Blank => payload = Blank
  BY DEF VersionInv, PayloadFollows, ManifestKnowsAll
<1>5. Before(payload, manifest) \/ manifest = Blank
  BY <1>4
<1>6. NotPast(worker', grid) /\ NotPast(worker', manifest) /\ NotPast(worker', payload)
  <2>1. CASE worker' = payload
    BY <1>3, <1>4, <1>5, <2>1, OrderOfVersions
  <2>2. CASE worker' = Blank
    BY <1>3, <2>2, OrderOfVersions
  <2>3. CASE worker' = manifest /\ manifest # Blank
    BY <1>3, <1>4, <2>3, OrderOfVersions
  <2>. QED  BY <1>2, <2>1, <2>2, <2>3
<1>7. "lost" \notin astray => Before(worker', manifest) /\ (manifest = Blank => worker' = Blank)
  BY <1>2, <1>3, <1>4, OrderOfVersions
<1>8. CountedFromZero'
  BY <1>1, <1>2, <1>3 DEF VersionInv, CountedFromZero, Counted
<1>9. PayloadFollows'
  BY <1>1 DEF VersionInv, PayloadFollows, Before
<1>10. ManifestKnowsAll'
  BY <1>1, <1>7 DEF VersionInv, ManifestKnowsAll, Before
<1>11. LatestIsLast'
  <2>1. latest \in Nat /\ 0 <= latest
    BY DEF RunsInOrder
  <2>. QED  BY <1>1, <1>2, <2>1 DEF VersionInv, LatestIsLast, Blank, NoRun
<1>12. WorkerNotPast'
  BY <1>1, <1>6 DEF WorkerNotPast, NotPast
<1>. QED  BY <1>1, <1>8, <1>9, <1>10, <1>11, <1>12 DEF VersionInv

\* A death, and a manifest that is lost after it, leave the versions of the others.
LEMMA LossVersions ==
  ASSUME IInv, RunsInOrder, VersionInv, Crash \/ LoseManifest
  PROVE  VersionInv'
<1>1. /\ ~up' /\ UNCHANGED <<latest, home, payload, worker>>
      /\ grid' = Blank /\ dump' = Nothing /\ update'.step = "idle"
      /\ \/ manifest' = manifest /\ astray' = astray
         \/ manifest' = Blank /\ astray' = astray \cup {"lost"}
  <2>1. CASE Crash
    <3>1. /\ ~up' /\ UNCHANGED <<latest, home, payload, worker, manifest, astray>>
          /\ grid' = Blank /\ dump' = Nothing /\ update' = Idle
      BY <2>1 DEF Crash, world
    <3>2. update'.step = "idle"
      BY <3>1 DEF Idle
    <3>. QED  BY <3>1, <3>2
  <2>2. CASE LoseManifest
    <3>1. ~up /\ UNCHANGED <<latest, home, grid, up, update, dump, payload, worker>>
          /\ manifest' = Blank /\ astray' = astray \cup {"lost"}
      BY <2>2 DEF LoseManifest
    <3>2. grid = Blank
      BY <3>1 DEF VersionInv, PayloadFollows
    <3>3. update.step = "idle" /\ dump = Nothing
      BY <3>1 DEF IInv, DeadIsIdle, Idle
    <3>. QED  BY <3>1, <3>2, <3>3
  <2>. QED  BY <2>1, <2>2
<1>2. Counted(Blank) /\ Counted(worker) /\ Blank.ref = 0 /\ Blank.version = 0
  BY AllCounted DEF VersionInv, Blank, NoRun
<1>3. CountedFromZero'
  BY <1>1, <1>2 DEF VersionInv, CountedFromZero, Counted
<1>4. PayloadFollows'
  BY <1>1 DEF VersionInv, PayloadFollows, Before
<1>5. ManifestKnowsAll'
  BY <1>1 DEF VersionInv, ManifestKnowsAll, Before
<1>6. LatestIsLast'
  <2>1. latest \in Nat /\ 0 <= latest
    BY DEF RunsInOrder
  <2>. QED  BY <1>1, <1>2, <2>1 DEF VersionInv, LatestIsLast
<1>7. WorkerNotPast'
  <2>1. NotPast(worker, Blank)
    BY <1>2, OrderOfVersions
  <2>. QED  BY <1>1, <2>1 DEF VersionInv, WorkerNotPast, NotPast
<1>. QED  BY <1>1, <1>3, <1>4, <1>5, <1>6, <1>7 DEF VersionInv

\* A restart takes up the manifest, the newest generation or nothing.
LEMMA RestartVersions ==
  ASSUME IInv, RunsInOrder, VersionInv, Restart
  PROVE  VersionInv'
<1>1. /\ UNCHANGED <<latest, astray, manifest, update, dump, worker>> /\ up'
      /\ update.step = "idle" /\ dump = Nothing
  BY RestartFacts DEF Restart, world
<1>2. Counted(manifest) /\ Counted(payload) /\ Counted(Blank) /\ Counted(worker)
  BY AllCounted DEF VersionInv
<1>3. \/ manifest # Blank /\ grid' = manifest /\ payload' \in {payload, Blank}
      \/ manifest = Blank /\ grid' = payload /\ payload' = payload
      \/ manifest = Blank /\ grid' = Blank /\ payload' = Blank
  <2>1. CASE manifest # Blank
    BY <2>1, RestartFacts
  <2>2. CASE manifest = Blank /\ Adopted
    BY <2>2, RestartFacts DEF Adopted
  <2>3. CASE manifest = Blank /\ ~Adopted
    BY <2>3, RestartFacts DEF Adopted
  <2>. QED  BY <2>1, <2>2, <2>3
<1>4. grid' \in {manifest, payload, Blank} /\ payload' \in {payload, Blank}
  BY <1>3
<1>5. CountedFromZero'
  BY <1>1, <1>2, <1>4 DEF VersionInv, CountedFromZero, Counted
<1>6. manifest # Blank => Before(payload, manifest)
  BY DEF VersionInv, PayloadFollows
<1>7. PayloadFollows'
  <2>1. CASE manifest # Blank
    <3>1. grid' = manifest /\ payload' \in {payload, Blank}
      BY <1>3, <2>1
    <3>2. Before(payload', manifest) /\ Before(manifest, manifest)
      BY <1>2, <1>6, <2>1, <3>1, OrderOfVersions
    <3>. QED  BY <1>1, <3>1, <3>2 DEF PayloadFollows, Before
  <2>2. CASE manifest = Blank
    <3>1. grid' = payload'
      BY <1>3, <2>2
    <3>. QED  BY <1>1, <2>2, <3>1 DEF PayloadFollows, Before
  <2>. QED  BY <2>1, <2>2
<1>8. ManifestKnowsAll'
  <2> SUFFICES ASSUME "lost" \notin astray, manifest = Blank
               PROVE  home' = CacheDir /\ payload' = Blank /\ grid' = Blank
    BY <1>1 DEF VersionInv, ManifestKnowsAll, Before
  <2>1. payload = Blank
    BY DEF VersionInv, ManifestKnowsAll
  <2>2. ~Adopted
    BY <2>1 DEF Adopted
  <2>. QED  BY <1>3, <2>1, <2>2, RestartFacts
<1>9. LatestIsLast'
  <2>1. latest \in Nat /\ 0 <= latest
    BY DEF RunsInOrder
  <2>. QED  BY <1>1, <1>4, <2>1 DEF VersionInv, LatestIsLast, Blank, NoRun
<1>10. WorkerNotPast'
  <2>1. NotPast(worker, Blank)
    BY <1>2, OrderOfVersions
  <2>. QED  BY <1>1, <1>4, <2>1 DEF VersionInv, WorkerNotPast, NotPast
<1>. QED  BY <1>1, <1>5, <1>7, <1>8, <1>9, <1>10 DEF VersionInv

\* The steps of a fetch, of a dump and of the world around that publish nothing.
LEMMA OtherVersions ==
  ASSUME IInv, RunsInOrder, VersionInv,
         \/ Check \/ (\E t \in Times : PersistTimestep(t)) \/ FetchFails
         \/ SwitchFrames \/ CleanUp \/ DumpFrames \/ PublicationFails
         \/ Tick \/ RunCompletes \/ Regresses \/ UNCHANGED vars
  PROVE  VersionInv'
<1>0. /\ latest \in Nat
      /\ manifest = Blank /\ "lost" \notin astray =>
            home = CacheDir /\ grid = Blank /\ payload = Blank /\ dump = Nothing
            /\ update.step \in {"idle", "prepare"}
  BY DEF RunsInOrder, VersionInv, ManifestKnowsAll
<1>1. CASE Check
  <2>1. UNCHANGED <<manifest, payload, worker, up, home, grid, dump, astray, latest>>
        /\ update'.step = "prepare"
    BY <1>1 DEF Check, world
  <2>. QED  BY <1>0, <2>1, VersionsKept
<1>2. ASSUME NEW t \in Times, PersistTimestep(t) \/ TimestepFails(t) PROVE VersionInv'
  <2>1. UNCHANGED <<manifest, payload, worker, up, home, grid, dump, astray, latest>>
        /\ update.step = "prepare" /\ update'.step = "prepare"
    <3>1. CASE PersistTimestep(t)
      <4> DEFINE got == Persisted(update.run, Merged(t))
      <4>1. update' = [update EXCEPT !.frames = (@ \ At(@, t)) \cup got,
                                     !.todo = @ \ {t}]
        BY <3>1 DEF PersistTimestep
      <4> HIDE DEF got
      <4>2. update'.step = update.step
        BY <4>1
      <4>. QED  BY <3>1, <4>2 DEF PersistTimestep, world
    <3>2. CASE TimestepFails(t)
      BY <3>2 DEF TimestepFails, world
    <3>. QED  BY <1>2, <3>1, <3>2
  <2>. QED  BY <1>0, <2>1, VersionsKept
<1>3. CASE CheckFails \/ PreparationFails \/ CleanUp
  <2>1. UNCHANGED <<manifest, payload, worker, up, home, grid, dump, astray, latest>>
        /\ update'.step = "idle"
    BY <1>3 DEF CheckFails, PreparationFails, FailUpdate, CleanUp, Idle, world
  <2>. QED  BY <1>0, <2>1, VersionsKept
<1>4. CASE SwitchFrames
  <2>1. /\ UNCHANGED <<manifest, payload, worker, up, home, dump, astray, latest>>
        /\ grid'.ref = grid.ref /\ grid'.version = grid.version
        /\ update.step = "switch"
    BY <1>4 DEF SwitchFrames, world, place
  <2>2. up
    BY <2>1 DEF IInv, DeadIsIdle, Idle
  <2>. QED  BY <1>0, <2>1, <2>2, VersionsKept
<1>5. CASE DumpFrames
  <2>1. /\ UNCHANGED <<manifest, payload, worker, up, home, grid, update, astray, latest>>
        /\ payload # grid \/ home \in Newest .. Retention
    BY <1>5 DEF DumpFrames, world, place
  <2>2. manifest = Blank => "lost" \in astray
    BY <1>0, <2>1 DEF CacheDir, Newest
  <2>. QED  BY <1>0, <2>1, <2>2, VersionsKept
<1>6. CASE PublicationFails \/ UNCHANGED vars
  <2>1. /\ UNCHANGED <<manifest, payload, worker, up, home, grid, update, astray, latest>>
        /\ dump' \in {dump, Nothing}
    BY <1>6 DEF PublicationFails, vars, world, place
  <2>. QED  BY <1>0, <2>1, VersionsKept
<1>7. CASE Tick \/ RunCompletes
  <2>1. /\ UNCHANGED <<manifest, payload, worker, up, home, grid, dump, update, astray>>
        /\ latest' \in {latest, latest + 1}
    BY <1>7 DEF Tick, RunCompletes, place
  <2>. QED  BY <1>0, <2>1, VersionsKept
<1>8. CASE Regresses
  <2>1. /\ UNCHANGED <<manifest, payload, worker, up, home, grid, dump, update>>
        /\ latest' = latest - 1 /\ latest > 1 /\ astray' = astray \cup {"regressed"}
    BY <1>8 DEF Regresses, place
  <2>. QED  BY <1>0, <2>1, VersionsKept
<1>. QED
  BY <1>1, <1>2, <1>3, <1>4, <1>5, <1>6, <1>7, <1>8 DEF FetchFails

\* Every step keeps the order of runs and versions.
LEMMA NextVersionInv == IInv /\ RunsInOrder /\ VersionInv /\ [Next]_vars => VersionInv'
BY WriteActiveManifestVersions, SwitchLabelsVersions, PublishStateVersions,
   WorkerVersions, LossVersions, RestartVersions, OtherVersions
   DEF Next, Fetch, Publish, FetchFails, Distribute

\* A worker that takes up a snapshot never goes back to an older run, for every
\* number of runs, publications and faults, unless the manifest was lost and
\* latest.json has gone back as well (__setstate__).
THEOREM WorkersNeverReturn == Spec => WorkersNeverGoBack
<1>1. Init => RunsInOrder /\ VersionInv
  BY DEF Init, RunsInOrder, Preparing, VersionInv, CountedFromZero, PayloadFollows,
         ManifestKnowsAll, LatestIsLast, WorkerNotPast, Before, NotPast, Blank, Idle, NoRun
<1>2. IInv /\ RunsInOrder /\ VersionInv /\ [Next]_vars => (RunsInOrder /\ VersionInv)'
  BY StepRunsInOrder, NextVersionInv
<1>3. ASSUME RunsInOrder, VersionInv, Load, astray # {"lost", "regressed"},
             OfOneRun(worker), OfOneRun(worker')
      PROVE  \A old \in RunsOf(worker), new \in RunsOf(worker') : old <= new
  <2> SUFFICES ASSUME NEW f \in worker.frames, NEW g \in payload.frames
               PROVE  f[4] <= g[4]
    BY <1>3 DEF Load, RunsOf
  <2>1. f[4] = worker.ref /\ g[4] = payload.ref
    BY <1>3 DEF Load, OfOneRun
  <2>2. ~(payload.version < worker.version)
    BY <1>3 DEF Load, Stale
  <2>3. payload.version \in Nat /\ worker.version \in Nat
    BY <1>3 DEF VersionInv, CountedFromZero
  <2>. QED  BY <1>3, <2>1, <2>2, <2>3 DEF VersionInv, WorkerNotPast, NotPast
<1>. QED  BY <1>1, <1>2, <1>3, RunsInvariance, PTL DEF Spec, WorkersNeverGoBack

--------------------------------------------------------------------------------
(* What is asked for are times and kinds of the model.                         *)

\* The least of some numbers, and the greatest of some that are bounded.
LEMMA LeastThere ==
  ASSUME NEW S \in SUBSET Nat, S # {}
  PROVE  Min(S) \in S /\ \A x \in S : Min(S) <= x
<1>1. PICK n \in S : \A m \in S : ~(<<m, n>> \in OpToRel(<, Nat))
  BY NatLessThanWellFounded, WFMin
<1>2. ASSUME NEW m \in S
      PROVE  n <= m
  <2>1. m \in Nat /\ n \in Nat
    OBVIOUS
  <2>2. <<m, n>> \notin {p \in Nat \X Nat : p[1] < p[2]}
    BY <1>1 DEF OpToRel
  <2>3. ~(m < n)
    BY <2>1, <2>2
  <2>. QED  BY <2>1, <2>3
<1>. QED  BY <1>2 DEF Min

LEMMA GreatestThere ==
  ASSUME NEW S \in SUBSET Nat, S # {}, NEW n \in Nat, \A x \in S : x <= n
  PROVE  Max(S) \in S /\ \A x \in S : x <= Max(S)
<1>. DEFINE below == {n - x : x \in S}
<1>1. below \in SUBSET Nat /\ below # {}
  <2>1. ASSUME NEW x \in S
        PROVE  n - x \in Nat
    <3>1. x \in Nat /\ x <= n
      OBVIOUS
    <3>. QED  BY <3>1
  <2>2. PICK x \in S : TRUE
    OBVIOUS
  <2>. QED  BY <2>1, <2>2
<1>2. Min(below) \in below /\ \A y \in below : Min(below) <= y
  BY <1>1, LeastThere
<1>3. PICK m \in S : Min(below) = n - m
  BY <1>2
<1>4. \A x \in S : n - m <= n - x
  BY <1>2, <1>3
<1>5. \A x \in S : x <= m
  BY <1>4
<1>. QED  BY <1>5 DEF Max

LEMMA OfPairs ==
  ASSUME NEW a \in Int, NEW b \in Int
  PROVE  /\ Max({a, b}) \in {a, b} /\ Max({a, b}) >= a /\ Max({a, b}) >= b
         /\ Min({a, b}) \in {a, b} /\ Min({a, b}) <= a /\ Min({a, b}) <= b
<1>1. \E x \in {a, b} : \A y \in {a, b} : x >= y
  OBVIOUS
<1>2. \E x \in {a, b} : \A y \in {a, b} : x <= y
  OBVIOUS
<1>. QED  BY <1>1, <1>2 DEF Max, Min

\* The precipitation window of the rest of a run's times is among them.
LEMMA SelectionWithin ==
  ASSUME NEW times \in SUBSET Nat, NEW first \in Nat, times = first .. LastTime,
         LastTime \in Nat
  PROVE  SelectValidTimes(times) \subseteq times
<1>. DEFINE beyond == {t \in times : t > now + Lead}
            anchor == IF beyond = {} THEN Max(times) ELSE Min(beyond)
            low == anchor - MaxPrecip + 1
            start == Max({low, Min(times)})
            high == start + MaxPrecip - 1
            end == Min({high, Max(times)})
<1>1. MaxPrecip \in Nat
  BY BoundsAssumption
<1>2. CASE times = {}
  <2>1. Cardinality(times) = 0
    BY <1>2, FS_EmptySet
  <2>2. Cardinality(times) <= MaxPrecip
    BY <1>1, <2>1
  <2>. QED  BY <2>2 DEF SelectValidTimes
<1>3. CASE times # {}
  <2>1. Max(times) \in times /\ Min(times) \in times /\ times \subseteq Nat
    <3>1. \A t \in times : t <= LastTime
      OBVIOUS
    <3>2. Max(times) \in times
      BY <1>3, <3>1, GreatestThere
    <3>3. Min(times) \in times
      BY <1>3, LeastThere
    <3>. QED  BY <3>2, <3>3
  <2>2. beyond # {} => Min(beyond) \in beyond
    BY LeastThere
  <2>3. low \in Int
    BY <1>1, <2>1, <2>2
  <2>. HIDE DEF low
  <2>4. start \in Int /\ start >= Min(times)
    <3>1. Min(times) \in Int
      BY <2>1
    <3>2. start \in {low, Min(times)} /\ start >= Min(times)
      BY <2>3, <3>1, OfPairs
    <3>. QED  BY <2>3, <3>1, <3>2
  <2>5. start \in Int /\ high \in Int
    BY <1>1, <2>4
  <2>. HIDE DEF high
  <2>6. end \in Int /\ end <= Max(times)
    <3>1. Max(times) \in Int
      BY <2>1
    <3>2. end \in {high, Max(times)} /\ end <= Max(times)
      BY <2>5, <3>1, OfPairs
    <3>. QED  BY <2>5, <3>1, <3>2
  <2>. HIDE DEF start, end
  <2>7. start .. end \subseteq times
    BY <2>1, <2>4, <2>6
  <2>8. SelectValidTimes(times) \in {times, start .. end}
    BY DEF SelectValidTimes, start, end, high, low
  <2>. QED  BY <2>7, <2>8
<1>. QED  BY <1>2, <1>3

\* A fetch asks for fields at times of the run, if its run has begun.
LEMMA RequiredTyped ==
  ASSUME NEW run \in Runs, run <= now, now \in Times
  PROVE  Required(run) \subseteq Times \X Kinds
<1>1. run \in Nat /\ run >= 1 /\ now \in Nat /\ now >= 1 /\ LastTime \in Nat
  BY BoundsAssumption DEF Runs, Times
<1>. DEFINE valid == ValidTimes(run)
<1>2. valid \in SUBSET Times /\ valid # {} /\ run \in valid /\ now \in valid
  BY <1>1 DEF ValidTimes, Times
<1>3. SelectWeatherValidTimes(valid) \subseteq Times
  <2>. DEFINE past == {t \in valid : t <= now}
  <2>1. past \in SUBSET Nat /\ past # {} /\ \A t \in past : t <= now
    BY <1>1, <1>2 DEF Times
  <2>2. Max(past) \in past
    BY <1>1, <2>1, GreatestThere
  <2>. QED  BY <1>2, <2>1, <2>2 DEF SelectWeatherValidTimes
<1>4. SelectValidTimes(valid \ {run}) \subseteq Times
  <2>. DEFINE times == valid \ {run}
  <2>1. times = (run + 1) .. LastTime /\ times \in SUBSET Nat
    BY <1>1 DEF ValidTimes
  <2>2. \A t \in times : t <= LastTime
    BY <1>1, <2>1
  <2>3. times \subseteq Times
    BY <1>2
  <2>. HIDE DEF times
  <2>4. SelectValidTimes(times) \subseteq times
    BY <1>1, <2>1, <2>2, SelectionWithin
  <2>. QED  BY <2>3, <2>4 DEF times
<1>. QED  BY <1>3, <1>4 DEF Required, Kinds

--------------------------------------------------------------------------------
(* Every step leaves every part of the state what it is meant to be.           *)

\* A fetch under way is of a run.
RunKnown == update # Idle => update.run \in Runs

WellTyped == TypeOK /\ RunKnown

LEMMA WrittenTyped ==
  ASSUME Directory(disk), NEW run \in Runs, NEW arrays \in SUBSET Files
  PROVE  Directory(Written(run, arrays))
<1>. DEFINE d == Written(run, arrays)
<1>1. d.files \subseteq Files /\ d.dirs \subseteq Runs
  BY DEF Directory, Written
<1>2. \A a, b \in d.dirs :
         <<a, b>> \in d.newer <=> IF b = run THEN FALSE
                                  ELSE a = run \/ <<a, b>> \in disk.newer
  BY DEF Directory, Written, InOrder
<1>3. d.newer \subseteq d.dirs \X d.dirs
  BY DEF Directory, Written, InOrder
<1>4. \A a \in d.dirs : a = run \/ a \in disk.dirs
  BY DEF Written
<1>. HIDE DEF d
<1>5. \A a, b \in d.dirs : <<a, b>> \in d.newer <=> a # b /\ <<b, a>> \notin d.newer
  BY <1>2, <1>4 DEF Directory, InOrder
<1>6. \A a, b, c \in d.dirs :
         <<a, b>> \in d.newer /\ <<b, c>> \in d.newer => <<a, c>> \in d.newer
  BY <1>2, <1>4 DEF Directory, InOrder
<1>7. InOrder(d)
  BY <1>3, <1>5, <1>6 DEF InOrder
<1>. QED  BY <1>1, <1>7 DEF Directory, d

LEMMA MakeDirTyped ==
  ASSUME Directory(disk), NEW run \in Runs
  PROVE  Directory(MakeDir(run))
<1>1. Directory(Written(run, {}))
  BY WrittenTyped
<1>. QED  BY <1>1 DEF MakeDir

LEMMA CleanedTyped ==
  ASSUME NEW d, Directory(d), NEW ref, NEW prev, NEW retained
  PROVE  Directory(Cleaned(d, ref, prev, retained))
<1>. DEFINE kept == RunDirectoriesKept(d, ref, prev, retained)
            c == Cleaned(d, ref, prev, retained)
<1>1. /\ c.files = {f \in d.files : f[1] \in kept} /\ c.dirs = d.dirs \cap kept
      /\ c.newer = {p \in d.newer : {p[1], p[2]} \subseteq kept}
  BY DEF Cleaned
<1>. HIDE DEF kept, c
<1>2. \A a, b \in c.dirs : <<a, b>> \in c.newer <=> <<a, b>> \in d.newer
  BY <1>1
<1>3. c.newer \subseteq c.dirs \X c.dirs
  BY <1>1 DEF Directory, InOrder
<1>4. InOrder(c)
  BY <1>1, <1>2, <1>3 DEF Directory, InOrder
<1>5. Directory(c)
  BY <1>1, <1>4 DEF Directory
<1>. QED  BY <1>5 DEF c

LEMMA GenerationTyped ==
  ASSUME payload.frames \in SUBSET Files
  PROVE  Directory(Generation)
<1>. DEFINE runs == {f[1] : f \in payload.frames}
<1>1. /\ Generation.files = payload.frames /\ Generation.dirs = runs
      /\ Generation.newer = {p \in runs \X runs : p[1] > p[2]}
  BY DEF Generation
<1>2. runs \subseteq Runs /\ runs \subseteq Int
  BY DEF Files, Runs
<1>. HIDE DEF runs
<1>3. \A a, b \in runs : <<a, b>> \in Generation.newer <=> a > b
  BY <1>1
<1>4. InOrder(Generation)
  <2>1. Generation.newer \subseteq runs \X runs
    BY <1>1
  <2>2. ASSUME NEW a \in runs, NEW b \in runs
        PROVE  <<a, b>> \in Generation.newer <=> a # b /\ <<b, a>> \notin Generation.newer
    <3>1. a \in Int /\ b \in Int
      BY <1>2
    <3>. QED  BY <1>3, <3>1
  <2>3. ASSUME NEW a \in runs, NEW b \in runs, NEW c \in runs,
               <<a, b>> \in Generation.newer, <<b, c>> \in Generation.newer
        PROVE  <<a, c>> \in Generation.newer
    <3>1. a \in Int /\ b \in Int /\ c \in Int
      BY <1>2
    <3>2. a > b /\ b > c
      BY <1>3, <2>3
    <3>. QED  BY <1>3, <3>1, <3>2
  <2>. QED  BY <1>1, <2>1, <2>2, <2>3 DEF InOrder
<1>. QED  BY <1>1, <1>2, <1>4 DEF Directory

LEMMA NoFilesTyped == Directory(NoFiles)
BY DEF Directory, NoFiles, InOrder

\* What a fetch of a run finds, and what it writes for a time, are files.
LEMMA FilesTyped ==
  ASSUME WellTyped, update # Idle, NEW t
  PROVE  /\ Merged(t) \in SUBSET Files
         /\ Persisted(update.run, Merged(t)) \in SUBSET Files
<1>1. /\ disk.files \subseteq Files /\ update.frames \subseteq Files
      /\ update.needs \subseteq Times \X Kinds /\ update.run \in Runs
  BY DEF WellTyped, TypeOK, RunKnown, Directory
<1>2. Merged(t) \in SUBSET Files
  <2>. DEFINE base == At(update.frames, t)
              lacking == {n \in NeededAt(update.needs, t) : ~Serves(base, {n})}
  <2>1. base \subseteq Files
    BY <1>1 DEF At
  <2>2. lacking \subseteq Times \X Kinds
    BY <1>1 DEF NeededAt
  <2>3. Merged(t) = base \cup Decoded(update.run, lacking)
    BY DEF Merged
  <2>. HIDE DEF lacking, base
  <2>4. Decoded(update.run, lacking) \subseteq Files
    BY <1>1, <2>2 DEF Decoded, Files
  <2>. QED  BY <2>1, <2>3, <2>4
<1>3. ASSUME NEW f \in Merged(t)
      PROVE  LET there == Cached(update.run, {<<f[2], f[3]>>})
             IN (IF there = {} THEN <<update.run, f[2], f[3], f[4]>>
                 ELSE CHOOSE e \in there : TRUE) \in Files
  <2>. DEFINE there == Cached(update.run, {<<f[2], f[3]>>})
  <2>1. there \subseteq Files
    BY <1>1 DEF Cached
  <2>2. <<update.run, f[2], f[3], f[4]>> \in Files
    BY <1>1, <1>2 DEF Files
  <2>. HIDE DEF there
  <2>3. there # {} => (CHOOSE e \in there : TRUE) \in there
    OBVIOUS
  <2>4. (IF there = {} THEN <<update.run, f[2], f[3], f[4]>>
         ELSE CHOOSE e \in there : TRUE) \in Files
    BY <2>1, <2>2, <2>3
  <2>. QED  BY <2>4 DEF there
<1>4. Persisted(update.run, Merged(t)) \in SUBSET Files
  BY <1>3 DEF Persisted
<1>. QED  BY <1>2, <1>4

LEMMA BlankTyped == Blank \in Snapshots
BY DEF Blank, Snapshots

LEMMA LastKnownGoodTyped ==
  ASSUME TypeOK
  PROVE  LastKnownGood \in Snapshots
BY BlankTyped DEF TypeOK, LastKnownGood

LEMMA IdleTyped ==
  Idle \in [step: {"idle", "prepare", "switch", "label", "clean"},
            run: Runs \cup {NoRun}, needs: SUBSET (Times \X Kinds),
            frames: SUBSET Files, todo: SUBSET Times, broken: BOOLEAN]
BY DEF Idle

LEMMA PrepublishedTyped ==
  ASSUME WellTyped, update # Idle
  PROVE  Prepublished \in Snapshots
BY DEF WellTyped, TypeOK, RunKnown, Prepublished, Snapshots

LEMMA InitTyped ==
  ASSUME Init
  PROVE  WellTyped
<1>1. NoRun \notin Runs /\ 1 \in Times /\ NoRun <= 1 /\ MaxFaults \in 0 .. MaxFaults
  BY BoundsAssumption DEF NoRun, Runs, Times
<1>2. CacheDir \in CacheDir .. Pruned
  BY RetentionAssumption DEF CacheDir, Pruned
<1>. QED
  BY <1>1, <1>2, NoFilesTyped, BlankTyped, IdleTyped
  DEF Init, WellTyped, TypeOK, RunKnown

\* A fetch that begins asks for fields of the run, and finds files.
LEMMA CheckTyped ==
  ASSUME WellTyped, Check
  PROVE  WellTyped'
<1>1. latest \in Runs /\ latest <= now /\ now \in Times
  BY DEF WellTyped, TypeOK, Check
<1>. DEFINE needs == Required(latest)
            found == UNION {Reusable(t) : t \in TimesOf(needs)}
            todo == {t \in TimesOf(needs) : ~Serves(found, NeededAt(needs, t))}
<1>2. needs \subseteq Times \X Kinds
  BY <1>1, RequiredTyped
<1>3. ASSUME NEW t
      PROVE  Reusable(t) \subseteq Files
  BY DEF WellTyped, TypeOK, Reusable, At, Cached, Directory
<1>4. found \subseteq Files
  BY <1>3
<1>. HIDE DEF needs
<1>5. todo \subseteq Times
  BY <1>2 DEF TimesOf
<1>6. update' = [step |-> "prepare", run |-> latest, needs |-> needs, frames |-> found,
                 todo |-> todo, broken |-> FALSE]
  BY DEF Check, needs
<1>. HIDE DEF found, todo
<1>7. Directory(MakeDir(latest))
  BY <1>1, MakeDirTyped DEF WellTyped, TypeOK
<1>8. Directory(disk)'
  BY <1>7 DEF Check, Directory, InOrder
<1>9. /\ update' \in [step: {"idle", "prepare", "switch", "label", "clean"},
                      run: Runs \cup {NoRun}, needs: SUBSET (Times \X Kinds),
                      frames: SUBSET Files, todo: SUBSET Times, broken: BOOLEAN]
      /\ update'.run \in Runs
  BY <1>1, <1>2, <1>4, <1>5, <1>6
<1>. QED  BY <1>8, <1>9 DEF WellTyped, TypeOK, RunKnown, Check, world, Directory, InOrder

\* So does one that writes a timestep, wholly or in part.
LEMMA TimestepTyped ==
  ASSUME WellTyped, NEW t \in Times, PersistTimestep(t) \/ TimestepFails(t)
  PROVE  WellTyped'
<1>. DEFINE got == Persisted(update.run, Merged(t))
<1>1. update # Idle
  BY DEF PersistTimestep, TimestepFails, Idle
<1>2. got \in SUBSET Files /\ update.run \in Runs
  BY <1>1, FilesTyped DEF WellTyped, RunKnown
<1>3. ASSUME NEW some \in SUBSET got
      PROVE  Directory(Written(update.run, some))
  BY <1>2, <1>3, WrittenTyped DEF WellTyped, TypeOK
<1>. HIDE DEF got
<1>4. disk' = disk \/ \E some \in SUBSET got : disk' = Written(update.run, some)
  BY DEF PersistTimestep, TimestepFails, got
<1>5. Directory(disk)'
  BY <1>3, <1>4 DEF WellTyped, TypeOK, Directory, InOrder
<1>6. faults' \in 0 .. MaxFaults
  BY BoundsAssumption DEF WellTyped, TypeOK, PersistTimestep, TimestepFails, Fault
<1>7. \/ update' = [update EXCEPT !.frames = (@ \ At(@, t)) \cup got, !.todo = @ \ {t}]
      \/ update' = [update EXCEPT !.todo = @ \ {t}, !.broken = TRUE]
  BY DEF PersistTimestep, TimestepFails, got
<1>8. /\ update' \in [step: {"idle", "prepare", "switch", "label", "clean"},
                      run: Runs \cup {NoRun}, needs: SUBSET (Times \X Kinds),
                      frames: SUBSET Files, todo: SUBSET Times, broken: BOOLEAN]
      /\ update'.run \in Runs
  <2>1. /\ update.frames \subseteq Files /\ update.todo \subseteq Times
        /\ update \in [step: {"idle", "prepare", "switch", "label", "clean"},
                      run: Runs \cup {NoRun}, needs: SUBSET (Times \X Kinds),
                      frames: SUBSET Files, todo: SUBSET Times, broken: BOOLEAN]
    BY DEF WellTyped, TypeOK
  <2>2. (update.frames \ At(update.frames, t)) \cup got \subseteq Files
    BY <1>2, <2>1
  <2>3. update.todo \ {t} \subseteq Times
    BY <2>1
  <2>. QED  BY <1>2, <1>7, <2>1, <2>2, <2>3
<1>. QED
  BY <1>5, <1>6, <1>8
  DEF WellTyped, TypeOK, RunKnown, PersistTimestep, TimestepFails, world, Directory, InOrder

LEMMA FailTyped ==
  ASSUME WellTyped, CheckFails \/ PreparationFails
  PROVE  WellTyped'
<1>1. Directory(Cleaned(disk, grid.ref, grid.prev, 1))
  BY CleanedTyped DEF WellTyped, TypeOK
<1>2. Directory(disk)'
  BY <1>1 DEF CheckFails, PreparationFails, FailUpdate, Directory, InOrder
<1>3. faults' \in 0 .. MaxFaults
  BY BoundsAssumption DEF WellTyped, TypeOK, CheckFails, PreparationFails, Fault
<1>4. update' = Idle
  BY DEF CheckFails, PreparationFails, FailUpdate
<1>5. UNCHANGED <<now, latest, astray, home, aside, manifest, grid, up, dump, payload, worker>>
  BY DEF CheckFails, PreparationFails, FailUpdate, world
<1>. QED
  BY <1>2, <1>3, <1>4, <1>5, IdleTyped DEF WellTyped, TypeOK, RunKnown, Directory, InOrder

LEMMA PublishTyped ==
  ASSUME WellTyped, Publish
  PROVE  WellTyped'
<1>1. update # Idle /\ Prepublished \in Snapshots
  BY PrepublishedTyped
  DEF Publish, WriteActiveManifest, Prepared, SwitchFrames, SwitchLabels, CleanUp, Idle
<1>2. [grid EXCEPT !.frames = update.frames] \in Snapshots
  BY DEF WellTyped, TypeOK, Snapshots
<1>3. Directory(Cleaned(disk, grid.ref, grid.prev, 0))
  BY CleanedTyped DEF WellTyped, TypeOK
<1>4. CASE WriteActiveManifest
  BY <1>1, <1>4
  DEF WriteActiveManifest, Prepared, WellTyped, TypeOK, RunKnown, world, Directory, InOrder
<1>5. CASE SwitchFrames
  BY <1>1, <1>2, <1>5
  DEF SwitchFrames, WellTyped, TypeOK, RunKnown, world, place, Directory, InOrder
<1>6. CASE SwitchLabels
  BY <1>1, <1>6
  DEF SwitchLabels, WellTyped, TypeOK, RunKnown, world, place, Directory, InOrder
<1>7. CASE CleanUp
  <2>1. Directory(disk)'
    BY <1>3, <1>7 DEF CleanUp, Directory, InOrder
  <2>. QED
    BY <1>7, <2>1, IdleTyped
    DEF CleanUp, WellTyped, TypeOK, RunKnown, world, Directory, InOrder
<1>. QED  BY <1>4, <1>5, <1>6, <1>7 DEF Publish

LEMMA DistributeTyped ==
  ASSUME WellTyped, Distribute
  PROVE  WellTyped'
<1>1. CASE DumpFrames
  BY <1>1
  DEF DumpFrames, WellTyped, TypeOK, RunKnown, Snapshots, world, place, Directory, InOrder
<1>2. CASE PublishState
  <2>1. payload' \in Snapshots
    BY <1>2 DEF PublishState, WellTyped, TypeOK, Snapshots
  <2>2. home' \in CacheDir .. Pruned
    BY <1>2, RetentionAssumption
    DEF PublishState, WellTyped, TypeOK, CacheDir, Newest, Pruned
  <2>3. disk' = disk \/ disk' = NoFiles
    BY <1>2 DEF PublishState
  <2>4. Directory(disk)'
    BY <2>3, NoFilesTyped DEF WellTyped, TypeOK, Directory, InOrder
  <2>. QED
    BY <1>2, <2>1, <2>2, <2>4
    DEF PublishState, WellTyped, TypeOK, RunKnown, world, Directory, InOrder
<1>3. CASE PublicationFails
  BY <1>3
  DEF PublicationFails, WellTyped, TypeOK, RunKnown, world, place, Directory, InOrder
<1>4. CASE Load
  BY <1>4 DEF Load, WellTyped, TypeOK, RunKnown, world, place, Directory, InOrder
<1>5. CASE WorkerBoots
  <2>1. faults' \in 0 .. MaxFaults
    BY <1>5, BoundsAssumption DEF WorkerBoots, WellTyped, TypeOK, Fault
  <2>2. LastKnownGood \in Snapshots
    BY LastKnownGoodTyped DEF WellTyped
  <2>. QED
    BY <1>5, <2>1, <2>2
    DEF WorkerBoots, WellTyped, TypeOK, RunKnown, world, place, Directory, InOrder
<1>. QED  BY <1>1, <1>2, <1>3, <1>4, <1>5 DEF Distribute

LEMMA CrashTyped ==
  ASSUME WellTyped, Crash
  PROVE  WellTyped'
<1>1. ASSUME NEW t \in update.todo, NEW some \in SUBSET Persisted(update.run, Merged(t))
      PROVE  Directory(Written(update.run, some))
  <2>1. update # Idle
    BY <1>1 DEF Idle
  <2>2. some \in SUBSET Files /\ update.run \in Runs
    BY <1>1, <2>1, FilesTyped DEF WellTyped, RunKnown
  <2>. QED  BY <2>2, WrittenTyped DEF WellTyped, TypeOK
<1>2. \/ disk' = disk
      \/ \E t \in update.todo : \E some \in SUBSET Persisted(update.run, Merged(t)) :
           disk' = Written(update.run, some)
  BY DEF Crash
<1>3. Directory(disk)'
  BY <1>1, <1>2 DEF WellTyped, TypeOK, Directory, InOrder
<1>4. faults' \in 0 .. MaxFaults
  BY BoundsAssumption DEF Crash, WellTyped, TypeOK, Fault
<1>5. /\ UNCHANGED <<now, latest, astray, home, aside, manifest, payload, worker>>
      /\ up' = FALSE /\ update' = Idle /\ dump' = Nothing /\ grid' = Blank
  BY DEF Crash, world
<1>6. Directory(aside)'
  BY <1>5 DEF WellTyped, TypeOK, Directory, InOrder
<1>7. {manifest, grid, payload, worker}' \subseteq Snapshots
  BY <1>5, BlankTyped DEF WellTyped, TypeOK
<1>8. (up \in BOOLEAN)' /\ (dump \in (SUBSET Files) \cup {Nothing})'
  BY <1>5
<1>. QED
  BY <1>3, <1>4, <1>5, <1>6, <1>7, <1>8, IdleTyped DEF WellTyped, TypeOK, RunKnown

LEMMA RestartTyped ==
  ASSUME WellTyped, Restart
  PROVE  WellTyped'
<1>1. payload.frames \in SUBSET Files
  BY DEF WellTyped, TypeOK, Snapshots
<1>2. Directory(HomeDisk)
  BY <1>1, GenerationTyped DEF HomeDisk, WellTyped, TypeOK
<1>3. Directory(Cleaned(HomeDisk, LastKnownGood.ref, LastKnownGood.prev, 1))
  BY <1>2, CleanedTyped
<1>4. Directory(disk)'
  BY <1>3 DEF Restart, Directory, InOrder
<1>5. aside' \in {NoFiles, disk, aside}
  BY DEF Restart
<1>6. Directory(aside)'
  BY <1>5, NoFilesTyped DEF WellTyped, TypeOK, Directory, InOrder
<1>7. home' \in CacheDir .. Pruned
  BY RetentionAssumption DEF Restart, Home, CacheDir, Newest, Pruned
<1>8. LastKnownGood \in Snapshots
  BY LastKnownGoodTyped DEF WellTyped
<1>. QED
  BY <1>4, <1>6, <1>7, <1>8, BlankTyped
  DEF Restart, WellTyped, TypeOK, RunKnown, world

LEMMA SurroundingsTyped ==
  ASSUME WellTyped, LoseManifest \/ Tick \/ RunCompletes \/ Regresses
  PROVE  WellTyped'
<1>1. now \in Int /\ latest \in Int /\ latest <= now
  BY DEF WellTyped, TypeOK, Times, Runs, NoRun
<1>2. CASE LoseManifest
  BY <1>2, BlankTyped DEF LoseManifest, WellTyped, TypeOK, RunKnown, Directory, InOrder
<1>3. CASE Tick
  <2>1. now' \in Times /\ latest' <= now'
    BY <1>1, BoundsAssumption, <1>3 DEF Tick, WellTyped, TypeOK, Times
  <2>. QED
    BY <1>3, <2>1 DEF Tick, WellTyped, TypeOK, RunKnown, place, Directory, InOrder
<1>4. CASE RunCompletes
  <2>1. latest' \in Runs /\ latest' <= now'
    BY <1>1, BoundsAssumption, <1>4 DEF RunCompletes, WellTyped, TypeOK, Runs, NoRun
  <2>. QED
    BY <1>4, <2>1 DEF RunCompletes, WellTyped, TypeOK, RunKnown, place, Directory, InOrder
<1>5. CASE Regresses
  <2>1. latest' \in Runs /\ latest' <= now'
    BY <1>1, BoundsAssumption, <1>5 DEF Regresses, WellTyped, TypeOK, Runs, NoRun
  <2>2. faults' \in 0 .. MaxFaults
    BY <1>5, BoundsAssumption DEF Regresses, WellTyped, TypeOK, Fault
  <2>. QED
    BY <1>5, <2>1, <2>2
    DEF Regresses, WellTyped, TypeOK, RunKnown, place, Directory, InOrder
<1>. QED  BY <1>2, <1>3, <1>4, <1>5

LEMMA StutterTyped ==
  ASSUME WellTyped, UNCHANGED vars
  PROVE  WellTyped'
BY DEF WellTyped, TypeOK, RunKnown, vars, Directory, InOrder

\* Every variable keeps its shape, its runs and its times: the runs asked for have
\* begun, the files and the needs of a fetch are of runs and of times that there
\* are, and the order in which the run directories were written to is one, however
\* they are made, cleaned up, pruned or adopted (sources/world/ifs/grid.py).
THEOREM TypeCorrect == Spec => []TypeOK
<1>1. Init => WellTyped
  BY InitTyped
<1>2. WellTyped /\ [Next]_vars => WellTyped'
  <2>. SUFFICES ASSUME WellTyped, [Next]_vars
                PROVE  WellTyped'
    OBVIOUS
  <2>1. CASE Fetch
    BY <2>1, CheckTyped, TimestepTyped, PublishTyped DEF Fetch
  <2>2. CASE FetchFails
    BY <2>2, FailTyped, TimestepTyped DEF FetchFails
  <2>3. CASE Distribute
    BY <2>3, DistributeTyped
  <2>4. CASE Crash
    BY <2>4, CrashTyped
  <2>5. CASE Restart
    BY <2>5, RestartTyped
  <2>6. CASE LoseManifest \/ Tick \/ RunCompletes \/ Regresses
    BY <2>6, SurroundingsTyped
  <2>7. CASE UNCHANGED vars
    BY <2>7, StutterTyped
  <2>. QED  BY <2>1, <2>2, <2>3, <2>4, <2>5, <2>6, <2>7 DEF Next
<1>3. WellTyped => TypeOK
  BY DEF WellTyped
<1>. QED  BY <1>1, <1>2, <1>3, PTL DEF Spec
================================================================================
