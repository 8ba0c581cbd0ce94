------------------------------ MODULE WeatherRuns ------------------------------
(* The IFS grid of the pipeline (sources/world/ifs/grid.py): a model run is    *)
(* prepared timestep by timestep in a directory of its own, published by       *)
(* replacing a manifest and then the fields of the grid, linked into the state *)
(* generations of the workers, and restored after a restart: from the manifest *)
(* where it is, else from the generation that state.json names, in whose       *)
(* directory the grid then goes on.  An array is a file <<run, valid time,     *)
(* field, origin>>: the first three name it, and origin is the run whose data  *)
(* it holds.  The weather fields of a timestep are one "weather" file here, its *)
(* precipitation and its snow mask one "precip" file, and the timesteps that    *)
(* optical flow adds between two precipitation frames are left out.            *)
EXTENDS Integers, FiniteSets, FiniteSetsExt

CONSTANTS LastRun,    \* the model runs that come out are 1 .. LastRun
          LastTime,   \* the valid times are 1 .. LastTime, an hour apart
          Horizon,    \* weather_fields_forecast_hours
          MaxPrecip,  \* ecmwf_max_timesteps
          Lead,       \* how far the nowcast reaches, in hours
          Retention,  \* the state generations that are kept
          MaxVersion, \* how often the grid is published: a bound
          MaxFaults   \* how many things may go wrong

ASSUME BoundsAssumption ==
  /\ LastRun \in Nat \ {0} /\ LastTime \in Nat \ {0}
  /\ {Horizon, MaxPrecip, Lead, MaxVersion, MaxFaults} \subseteq Nat

\* write_state_snapshot refuses to keep fewer than two generations.
ASSUME RetentionAssumption == Retention \in Nat /\ Retention >= 2

VARIABLES now,        \* the wall clock
          latest,     \* the run that latest.json names
          home,       \* where the grid keeps its arrays
          disk,       \* the arrays and run directories there
          aside,      \* those of the cache directory, if the home is elsewhere
          manifest,   \* active.json, what it says of the published run
          grid,       \* ECMWFGrid of the pipeline
          up,         \* whether the pipeline runs
          update,     \* the fetch under way, in a thread of its own
          dump,       \* the snapshot under way: the frames it has read
          payload,    \* the grid's part of state.json
          worker,     \* ECMWFGrid of a render worker
          faults,     \* the faults left
          astray      \* a ghost: which of "lost", of the manifest, and
                      \* "regressed", of latest.json, has ever happened

vars == <<now, latest, home, disk, aside, manifest, grid, up, update, dump,
          payload, worker, faults, astray>>
world == <<now, latest, astray>>
place == <<home, disk, aside, manifest>>

Runs == 1 .. LastRun
NoRun == 0
Times == 1 .. LastTime
Kinds == {"weather", "precip"}

\* What active.json, state.json and a process know of the published run.
Blank == [ref |-> NoRun, prev |-> NoRun, frames |-> {}, version |-> 0]
Files == Runs \X Times \X Kinds \X Runs
Snapshots == [ref: Runs \cup {NoRun}, prev: Runs \cup {NoRun}, frames: SUBSET Files,
              version: Nat]
Nothing == {<<NoRun, 0, "nothing", NoRun>>}  \* the frames of a dump that has not begun

\* The grid lives in the cache directory, or in a generation: the newest, the one
\* before it and so on, or one that the prune has removed.
CacheDir == 0
Newest == 1
Pruned == Retention + 1

\* The files of a directory, its run directories, and the pairs of one and another
\* that was written to before it.
NoFiles == [files |-> {}, dirs |-> {}, newer |-> {}]

\* A frame is known by the files of its arrays, and can be opened if they are there.
Whole(s) == s.frames \subseteq disk.files

\* The links that a generation has of its arrays only the grid can remove, and
\* only if it lives there.
Opens(s) == home = Newest => Whole(s)

Idle == [step |-> "idle", run |-> NoRun, needs |-> {}, frames |-> {},
         todo |-> {}, broken |-> FALSE]

--------------------------------------------------------------------------------
(* Which valid times a run is asked for.                                       *)

ValidTimes(run) == run .. LastTime

\* The precipitation window: the last of it is the first time beyond the nowcast.
SelectValidTimes(times) ==
  LET beyond == {t \in times : t > now + Lead}
      anchor == IF beyond = {} THEN Max(times) ELSE Min(beyond)
      start == Max({anchor - MaxPrecip + 1, Min(times)})
  IN IF Cardinality(times) <= MaxPrecip THEN times
     ELSE start .. Min({start + MaxPrecip - 1, Max(times)})

\* The weather window: from the nearest past time through the horizon.
SelectWeatherValidTimes(times) ==
  LET past == {t \in times : t <= now}
      first == IF past = {} THEN Min(times) ELSE Max(past)
  IN {first} \cup {t \in times : first < t /\ t <= now + Horizon}

\* The first valid time of a run has no precipitation.
Required(run) ==
  SelectWeatherValidTimes(ValidTimes(run)) \X {"weather"}
    \cup SelectValidTimes(ValidTimes(run) \ {run}) \X {"precip"}

At(frames, t) == {f \in frames : f[2] = t}
NeededAt(needs, t) == {n \in needs : n[1] = t}
TimesOf(needs) == {n[1] : n \in needs}

\* A frame serves when it has the fields: whose they are is not looked at.
Serves(frames, needs) == needs \subseteq {<<f[2], f[3]>> : f \in frames}

\* The arrays of a run on disk that are called for, and the same just decoded.
Cached(run, needs) == {f \in disk.files : f[1] = run /\ <<f[2], f[3]>> \in needs}
Decoded(run, needs) == {<<run, n[1], n[2], run>> : n \in needs}

\* Persisting a frame under a run: an array already there is kept as it is.
Persisted(run, frames) ==
  {LET there == Cached(run, {<<f[2], f[3]>>})
   IN IF there = {} THEN <<run, f[2], f[3], f[4]>> ELSE CHOOSE e \in there : TRUE :
     f \in frames}

--------------------------------------------------------------------------------
(* Run directories.                                                            *)

Written(run, arrays) ==
  [files |-> disk.files \cup arrays,
   dirs |-> disk.dirs \cup {run},
   newer |-> {p \in disk.newer : run \notin {p[1], p[2]}} \cup ({run} \X (disk.dirs \ {run}))]
MakeDir(run) == IF run \in disk.dirs THEN disk ELSE Written(run, {})

\* Those of `runs` that were written to after run r.
Newer(d, runs, r) == {q \in runs : <<q, r>> \in d.newer}

RunDirectoriesKeptNewest(d, ref, prev, retained) ==  \* a mutant: whichever it is
  {r \in d.dirs : Newer(d, d.dirs, r) = {}}

RunDirectoriesKeptActive(d, ref, prev, retained) ==  \* a mutant: not the previous
  {ref} \cup {r \in d.dirs : Cardinality(Newer(d, d.dirs \ {ref}, r)) < retained}

\* The directories that a cleanup leaves: the active and the previous run's, and
\* the newest of the others if one is retained.
RunDirectoriesKept(d, ref, prev, retained) ==
  LET unprotected == d.dirs \ {ref, prev}
  IN {ref, prev} \cup {r \in unprotected : Cardinality(Newer(d, unprotected, r)) < retained}

Cleaned(d, ref, prev, retained) ==
  LET kept == RunDirectoriesKept(d, ref, prev, retained)
  IN [files |-> {f \in d.files : f[1] \in kept},
      dirs |-> d.dirs \cap kept,
      newer |-> {p \in d.newer : {p[1], p[2]} \subseteq kept}]

--------------------------------------------------------------------------------
(* The fetch of the pipeline.                                                  *)

\* Something goes wrong that is not the program's doing.
Fault == faults > 0 /\ faults' = faults - 1

\* Every failure keeps the published run and ends the fetch.
FailUpdate ==
  /\ disk' = Cleaned(disk, grid.ref, grid.prev, 1)
  /\ update' = Idle
  /\ UNCHANGED <<world, home, aside, manifest, grid, up, dump, payload, worker>>

\* latest.json cannot be had, or names an incomplete run or too few variables.
CheckFails ==
  /\ up /\ update = Idle
  /\ Fault /\ FailUpdate

RegressedNever == FALSE  \* a mutant: any run that latest.json names will do

\* A run older than the published one is refused.
Regressed == latest < grid.ref

\* The published run has all that is asked for, on disk too.
DesiredComplete ==
  /\ latest = grid.ref
  /\ Serves(grid.frames \cap disk.files, Required(latest))

\* What is there already: the published frame if it serves, else the arrays that
\* an earlier fetch of the same run has left.
Reusable(t) ==
  LET need == NeededAt(Required(latest), t)
      active == IF latest = grid.ref THEN At(grid.frames, t) \cap disk.files ELSE {}
      cached == Cached(latest, need)
  IN IF ~Serves(active, need) /\ Serves(cached, need) THEN cached ELSE active

Check ==
  /\ up /\ update = Idle
  /\ latest # NoRun /\ ~Regressed /\ ~DesiredComplete
  /\ grid.version < MaxVersion
  /\ LET needs == Required(latest)
         found == UNION {Reusable(t) : t \in TimesOf(needs)}
     IN update' = [step |-> "prepare", run |-> latest, needs |-> needs,
                   frames |-> found,
                   todo |-> {t \in TimesOf(needs) : ~Serves(found, NeededAt(needs, t))},
                   broken |-> FALSE]
  /\ disk' = MakeDir(latest)
  /\ UNCHANGED <<world, home, aside, manifest, grid, up, dump, payload, worker,
                 faults>>

\* A timestep is downloaded, decoded, merged with what is there, and persisted.
Merged(t) ==
  LET base == At(update.frames, t)
      lacking == {n \in NeededAt(update.needs, t) : ~Serves(base, {n})}
  IN base \cup Decoded(update.run, lacking)

PersistTimestep(t) ==
  /\ update.step = "prepare" /\ t \in update.todo
  /\ LET got == Persisted(update.run, Merged(t))
     IN /\ disk' = Written(update.run, got)
        /\ update' = [update EXCEPT !.frames = (@ \ At(@, t)) \cup got,
                                    !.todo = @ \ {t}]
  /\ UNCHANGED <<world, home, aside, manifest, grid, up, dump, payload, worker,
                 faults>>

\* It fails after some of its arrays are on disk; the other timesteps go on.
TimestepFails(t) ==
  /\ update.step = "prepare" /\ t \in update.todo
  /\ Fault
  /\ \E some \in SUBSET Persisted(update.run, Merged(t)) :
       /\ some # Persisted(update.run, Merged(t))
       /\ disk' = IF some = {} THEN disk ELSE Written(update.run, some)
  /\ update' = [update EXCEPT !.todo = @ \ {t}, !.broken = TRUE]
  /\ UNCHANGED <<world, home, aside, manifest, grid, up, dump, payload, worker>>

Prepared == update.step = "prepare" /\ update.todo = {}

\* The manifest is written beside the run directories, which a prune may have taken.
ManifestWritable == disk.dirs # {}

\* One timestep that failed fails the run; so does the interpolation, or the
\* manifest that cannot be written.
PreparationFails ==
  /\ Prepared
  /\ IF update.broken \/ ~ManifestWritable THEN UNCHANGED faults ELSE Fault
  /\ FailUpdate

PrepublishedWanted ==  \* a mutant: the names called for, not the arrays
  [ref |-> update.run, prev |-> grid.ref, frames |-> update.needs,
   version |-> grid.version + 1]

Prepublished ==
  [ref |-> update.run,
   prev |-> IF grid.ref \in {NoRun, update.run} THEN grid.prev ELSE grid.ref,
   frames |-> update.frames,
   version |-> grid.version + 1]

\* Only the manifest of the cache directory is ever read again.
WriteActiveManifest ==
  /\ Prepared /\ ~update.broken /\ Serves(update.frames, update.needs)
  /\ ManifestWritable
  /\ manifest' = IF home = CacheDir THEN Prepublished ELSE manifest
  /\ update' = [update EXCEPT !.step = "switch"]
  /\ UNCHANGED <<world, home, disk, aside, grid, up, dump, payload, worker, faults>>

\* The fields of the grid are assigned one after the other, the frames first.
SwitchFrames ==
  /\ update.step = "switch"
  /\ grid' = [grid EXCEPT !.frames = update.frames]
  /\ update' = [update EXCEPT !.step = "label"]
  /\ UNCHANGED <<world, place, up, dump, payload, worker, faults>>

\* The labels that follow them are one step here: no snapshot reads between two.
SwitchLabels ==
  /\ update.step = "label"
  /\ grid' = Prepublished
  /\ update' = [update EXCEPT !.step = "clean"]
  /\ UNCHANGED <<world, place, up, dump, payload, worker, faults>>

CleanUp ==
  /\ update.step = "clean"
  /\ disk' = Cleaned(disk, grid.ref, grid.prev, 0)
  /\ update' = Idle
  /\ UNCHANGED <<world, home, aside, manifest, grid, up, dump, payload, worker, faults>>

--------------------------------------------------------------------------------
(* The state of the workers.  A snapshot is taken on the event loop while the  *)
(* fetch publishes in its thread: it reads the frames and then the labels.     *)

\* Cycles that change nothing here matter only while they bring the prune nearer.
DumpFrames ==
  /\ up /\ dump = Nothing
  /\ payload # grid \/ home \in Newest .. Retention
  /\ dump' = grid.frames
  /\ UNCHANGED <<world, place, grid, up, update, payload, worker, faults>>

\* Its arrays are linked into a new generation, and an old one is pruned.
PublishState ==
  /\ up /\ dump # Nothing /\ dump \subseteq disk.files
  /\ payload' = [grid EXCEPT !.frames = dump]
  /\ home' = IF home \in Newest .. Retention THEN home + 1 ELSE home
  /\ disk' = IF home' = Pruned THEN NoFiles ELSE disk
  /\ dump' = Nothing
  /\ UNCHANGED <<world, aside, manifest, grid, up, update, worker, faults>>

\* An array that is gone fails the publication, of every store.
PublicationFails ==
  /\ up /\ dump # Nothing /\ ~(dump \subseteq disk.files)
  /\ dump' = Nothing
  /\ UNCHANGED <<world, place, grid, up, update, payload, worker, faults>>

StaleUnlessNewer(s) ==  \* a mutant: with no exception for a worker without frames
  s.version <= worker.version /\ s # worker

\* A worker ignores a snapshot older than its own, unless it has no frames yet.
Stale(s) == s.version < worker.version /\ worker.frames # {}

Load ==
  /\ payload # worker /\ ~Stale(payload) /\ Opens(payload)
  /\ worker' = payload
  /\ UNCHANGED <<world, place, grid, up, update, dump, payload, faults>>

\* The manifest is believed first, then state.json; a run whose arrays are not
\* all there is given up, with its version.
LastKnownGood ==
  IF manifest # Blank THEN IF Whole(manifest) THEN manifest ELSE Blank
  ELSE IF Opens(payload) THEN payload ELSE Blank

\* A worker that has died starts as the pipeline does, but cleans nothing up.
WorkerBoots ==
  /\ Fault
  /\ worker' = LastKnownGood
  /\ UNCHANGED <<world, place, grid, up, update, dump, payload>>

--------------------------------------------------------------------------------
(* Death and restart of the pipeline.                                          *)

\* A process may die while the arrays of a timestep are being written.
Crash ==
  /\ up /\ Fault
  /\ up' = FALSE
  /\ update' = Idle /\ dump' = Nothing /\ grid' = Blank
  /\ \/ UNCHANGED disk
     \/ \E t \in update.todo : \E some \in SUBSET Persisted(update.run, Merged(t)) :
          disk' = Written(update.run, some)
  /\ UNCHANGED <<world, home, aside, manifest, payload, worker>>

\* The manifest is damaged, or of another version, when the pipeline starts again.
LoseManifest ==
  /\ ~up /\ manifest # Blank
  /\ manifest' = Blank
  /\ astray' = astray \cup {"lost"}
  /\ UNCHANGED <<now, latest, home, disk, aside, grid, up, update, dump, payload,
                 worker, faults>>

\* Without a manifest the grid takes the directory of the newest generation for
\* its own, if there is one to be opened, and the cache directory is left as it is.
\* One that it lived in and emptied cannot be opened again, by anyone.
Adopted == manifest = Blank /\ payload # Blank /\ Opens(payload)
Generation ==
  LET runs == {f[1] : f \in payload.frames}
  IN [files |-> payload.frames, dirs |-> runs,
      newer |-> {p \in runs \X runs : p[1] > p[2]}]

Home == IF Adopted THEN Newest ELSE CacheDir
HomeDisk ==
  IF Home = home THEN disk ELSE IF Adopted THEN Generation ELSE aside

Restart ==
  /\ ~up
  /\ up' = TRUE
  /\ grid' = LastKnownGood
  /\ home' = Home
  /\ disk' = Cleaned(HomeDisk, LastKnownGood.ref, LastKnownGood.prev, 1)
  /\ aside' = IF Home = CacheDir THEN NoFiles
              ELSE IF home = CacheDir THEN disk ELSE aside
  /\ payload' = IF Opens(payload) THEN payload ELSE Blank
  /\ UNCHANGED <<world, manifest, update, dump, worker, faults>>

--------------------------------------------------------------------------------
(* The surroundings.  Only the start of a fetch reads the clock and the name   *)
(* of the last run, so it is enough that they move between fetches and dumps.  *)

Quiet == update = Idle /\ dump = Nothing

Tick ==
  /\ Quiet /\ now < LastTime
  /\ now' = now + 1
  /\ UNCHANGED <<latest, place, grid, up, update, dump, payload, worker, faults,
                 astray>>

\* The upstream publishes the next run, once its first hours have passed.
RunCompletes ==
  /\ Quiet /\ latest < LastRun /\ latest < now
  /\ latest' = latest + 1
  /\ UNCHANGED <<now, place, grid, up, update, dump, payload, worker, faults,
                 astray>>

\* latest.json goes back to an earlier run.
Regresses ==
  /\ Quiet /\ latest > 1 /\ Fault
  /\ latest' = latest - 1
  /\ astray' = astray \cup {"regressed"}
  /\ UNCHANGED <<now, place, grid, up, update, dump, payload, worker>>

Init ==
  /\ now = 1 /\ latest = NoRun
  /\ home = CacheDir /\ disk = NoFiles /\ aside = NoFiles /\ manifest = Blank
  /\ grid = Blank /\ up = TRUE /\ update = Idle
  /\ dump = Nothing /\ payload = Blank /\ worker = Blank
  /\ faults = MaxFaults /\ astray = {}

Publish == WriteActiveManifest \/ SwitchFrames \/ SwitchLabels \/ CleanUp
Fetch == Check \/ (\E t \in Times : PersistTimestep(t)) \/ Publish
FetchFails == CheckFails \/ (\E t \in Times : TimestepFails(t)) \/ PreparationFails
Distribute == DumpFrames \/ PublishState \/ PublicationFails \/ Load \/ WorkerBoots

Next ==
  \/ Fetch \/ FetchFails \/ Distribute
  \/ Crash \/ LoseManifest \/ Restart
  \/ Tick \/ RunCompletes \/ Regresses

Spec == Init /\ [][Next]_vars

\* A cycle of the fetcher runs every few minutes, the hook dumps after it, and
\* the workers poll; a failed or dead process is tried or started again.
FairSpec ==
  /\ Spec
  /\ WF_vars(Fetch) /\ WF_vars(PreparationFails) /\ WF_vars(Restart)
  /\ WF_vars(DumpFrames) /\ WF_vars(PublishState \/ PublicationFails) /\ WF_vars(Load)
--------------------------------------------------------------------------------
(* Properties.                                                                 *)

\* Of any two run directories one was written to after the other.
InOrder(d) ==
  /\ d.newer \subseteq d.dirs \X d.dirs
  /\ \A a, b \in d.dirs : <<a, b>> \in d.newer <=> a # b /\ <<b, a>> \notin d.newer
  /\ \A a, b, c \in d.dirs : <<a, b>> \in d.newer /\ <<b, c>> \in d.newer
                                  => <<a, c>> \in d.newer

Directory(d) == d.files \subseteq Files /\ d.dirs \subseteq Runs /\ InOrder(d)

TypeOK ==
  /\ now \in Times /\ latest \in Runs \cup {NoRun} /\ latest <= now
  /\ home \in CacheDir .. Pruned
  /\ Directory(disk) /\ Directory(aside)
  /\ {manifest, grid, payload, worker} \subseteq Snapshots
  /\ update \in [step: {"idle", "prepare", "switch", "label", "clean"},
                 run: Runs \cup {NoRun}, needs: SUBSET (Times \X Kinds),
                 frames: SUBSET Files, todo: SUBSET Times, broken: BOOLEAN]
  /\ dump \in (SUBSET Files) \cup {Nothing}
  /\ up \in BOOLEAN /\ faults \in 0 .. MaxFaults
  /\ astray \subseteq {"lost", "regressed"}

\* All the arrays of a snapshot are in its run's directory: no publication of the
\* pipeline has torn it; and they hold that run's data.
Labelled(s) == \A f \in s.frames : f[1] = s.ref
OfOneRun(s) == \A f \in s.frames : f[1] = s.ref /\ f[4] = s.ref
RunsOf(s) == {f[4] : f \in s.frames}

\* At every moment, so wherever the pipeline may die, active.json names a run
\* whose arrays are all on disk: what it restores is complete
\* (_publish_prepared, _cleanup_run_directories, _restore_last_known_good).
ManifestWhole == Whole(manifest)

\* What a publication links is there when it links it, though the fetch cleans up
\* meanwhile in a thread of its own: the arrays of the active and of the previous
\* run outlast every cleanup and failed fetch, until the prune of a generation
\* takes them, and unless the grid was restored from a torn snapshot and has not
\* replaced it yet (_hardlink_selected, _cleanup_run_directories).
SnapshotLinks ==
  /\ dump # Nothing /\ home # Pruned
  /\ home = CacheDir \/ Labelled(payload)
  => \A f \in dump : f[1] \in {grid.ref, grid.prev} => f \in disk.files

\* A worker never goes back to an older run, whatever dies and wherever the grid
\* lives, though the pipeline loses its manifest and counts its versions anew, and
\* though latest.json goes back to an older run; it takes both.  What a torn
\* snapshot shows is of a later run than it says, and not counted
\* (__setstate__, _state_for_frames).
WorkersNeverGoBack ==
  [][Load /\ astray # {"lost", "regressed"} /\ OfOneRun(worker) /\ OfOneRun(worker') =>
       \A old \in RunsOf(worker), new \in RunsOf(worker') : old <= new]_worker

\* Time and again the workers have the last run that the upstream has completed,
\* or a later one, unless the pipeline has lost the version that they have, or has
\* restored a torn snapshot, or the bound on publications is reached (_fetch_sync).
WorkersCatchUp ==
  []<>(\/ latest = NoRun
       \/ \E run \in RunsOf(worker) : run >= latest
       \/ grid.version < worker.version
       \/ ~OfOneRun(grid)
       \/ grid.version = MaxVersion)
================================================================================
