# LibreWXR: TLA+ models, checks and proofs

LibreWXR fetches weather radar, satellite, NWP and lightning data, stores it as
memory-mapped arrays and serves map tiles.  It runs as one **data pipeline**
process, which owns every writable store, and N **render workers**, which serve
HTTP.  The two share a cache directory and nothing else: the pipeline publishes
immutable *generations* of hardlinks and a `state.json` that names the current
one; the workers poll it, reopen the files and invalidate their tile caches.

This directory models the parts of the program where the order of steps matters.
Everything is translated from the source; comments and tests of the repository
are used only to state what the program promises.

## Inventory

| Part | State | Operations | Talks to | Hard behaviour | What makes it correct |
|---|---|---|---|---|---|
| Frame store (`data/store.py`) | sorted frames, region arrays, frame versions, pending evictions | `add_frame`, getters, `__getstate__`/`__setstate__` | fetcher, snapshot, render worker | copy-on-write merge, two-phase eviction, hidden grace frames | no retained file unlinked; a content change shows in the version |
| Radar cache (`data/radar_cache.py`, `memmap_guard.py`) | files, first-seen-inactive clock | `load_frames`, `cleanup`, atomic write, `ensure_space` | frame store, fetcher | second reaper on the same directory, warm restart, a refused write | files outlive their frame by a grace window |
| Radar fetcher (`data/fetcher.py`) | carry-forward provenance, cycle-complete flags | initial, backfill and periodic passes, carry forward, debounce | store, NWP grids, publication | partial fetches, carry chains, failure in mid-pass | real data is never masked; a stale copy is fetched again |
| Cycle coalescer (`data/fetcher.py`) | dirty flag, runner task, closed flag | trigger, run, stop | publication hook | triggers while a dump runs, failure, shutdown | every trigger is covered by a later snapshot |
| State publication (`data/master_state.py`) | generation directories, `state.json` | snapshot, link, publish, prune, load | every store, render workers | files that go while they are linked, crash between two renames, slow readers | `state.json` names a complete generation |
| Data pipeline (`data_pipeline.py`) | the stores, tasks | start, restore, hook, shutdown | all of the above | ordering of start and stop | nothing is published before it is restored |
| Render worker (`main.py`) | applied payload, last mtime, stores | boot, poll, diff, invalidate, drain | publication, tile caches, routes | a publication between load and stat, a store that fails to apply | after a poll no cache entry older than the data is served |
| Regional NWP grids (`sources/**/nwp`, `sources/_shared/arome.py`) | frames by (run, lead), accumulations, files | fetch, interpolate, evict, rescan, sample | pipeline, snapshot, renders | files that are missing for a cycle, windows rounded twice, a reload in a thread while renders read | every time of the window is answered by the freshest run that reaches it; a sample sees the old frames or the new |
| IFS grid (`sources/world/ifs/grid.py`) | run directories, `active.json`, frames, content version | prepare, publish, clean up, restore, snapshot, load | pipeline, generations, workers | publication field by field beside a snapshot, restart without a manifest | the manifest names a run that is on disk; workers do not go back |
| Tile cache (`tiles/cache.py`) | LRU map, timestamp index, bytes | get, put, invalidate, evict | routes, poller, memory monitor | two indexes and a byte count kept in step by three threads | index and bytes agree with the map; budget kept |
| Shared tile store (`tiles/shared_tile_store.py`) | tile files on shared disk | get, publish, sweep, prune | routes of every worker | publish after a sweep, one temporary name for every publisher | a reader gets a whole tile of its key; a sweep leaves nothing behind |
| Request tracker (`tiles/request_tracker.py`) | ring, counters | record, query, evict | routes, warmer | bounded counters | bounds kept |
| Render queue (`tiles/render_queue.py`) | semaphore, count of the admitted | enter, exit | routes, executor | cancelled requests, renders that raise | a slot is held by a render that will release it |
| Tile routes (`api/routes.py`) | single-flight tasks | radar, satellite, coverage, weather tiles | stores, caches, queue | shared renders, frame read, then version read | one render of a tile; cached bytes match their key |
| Nowcast, storm cells, precipitation mask, lightning, alerts | derived stores | recompute, snapshot | fetcher, snapshot | recomputed while they are read | see the components list |
| Decoders, reprojection, colours, rendering, MCP tools, configuration | none that outlives a call | pure functions, queries | | | numeric, outside this development |

## Modules

| Module | Models | Proofs | Instantiated by |
|---|---|---|---|
| `RadarStore` | `data/store.py`, `data/radar_cache.py`, the radar pass of `data/fetcher.py`, composed | `RadarStoreProofs` | `MCRadarStore` |
| `StateGenerations` | `data/master_state.py`, the publishing half of the hook in `data_pipeline.py`, and readers | `StateGenerationsProofs` | `MCStateGenerations` |
| `StatePromise` | abstract: what publication promises a reader; `StateGenerations` implements it | | |
| `CycleCoalescer` | triggers, debounce, runner, satellites and `stop()` of `data/fetcher.py`; the hook | `CycleCoalescerProofs` | `MCCycleCoalescer` |
| `RenderWorker` | `main.py`'s boot, poll loop and invalidation, the radar tile route of `api/routes.py`, the caches between them | `RenderWorkerProofs` | `MCRenderWorker` |
| `SharedTileStore` | `tiles/shared_tile_store.py`, one system call a step | `SharedTileStoreProofs` | `MCSharedTileStore` |
| `WeatherRuns` | `sources/world/ifs/grid.py`: preparation, manifest, publication, snapshot, load, restore | `WeatherRunsProofs` | `MCWeatherRuns` |
| `RegionalGrids` | the fetch cycle of the regional grids and the choice of a run; `data/nwp_interpolation.py`'s synthetic frames | `RegionalGridsProofs` | `MCRegionalGrids` |
| `TileCache` | `tiles/cache.py`, one operator per method | | through `Serving` |
| `Serving` | composes `TileCache`, the single-flight map of `api/routes.py`, `tiles/render_queue.py`, the chain of `data/nwp_source.py` and the reload of a regional grid by `main.py`'s poller | `ServingProofs` | `MCServing` |

The modules meet at narrow interfaces, and each takes from its neighbour what the
neighbour's properties say.  `RadarStore` shows that the files behind a retained
frame exist (`RetainedFramesBacked`) and that a content change moves the version
(`ContentChangesBumpVersion`); `StateGenerations` publishes such files and shows
that a reader gets one snapshot whole (`KeepsPromise`); `CycleCoalescer` shows
that every change is followed by a publication; `RenderWorker` starts from
atomic publications and shows what the caches hold after them; the shared tiles
that are one step there are taken apart in `SharedTileStore`, and the in-memory
cache, the shared renders and the sampling of the models in `Serving`.
`RegionalGrids` and `WeatherRuns` are where the models' frames come from;
the walked roots of `StateGenerations` are the directories of the former, and the
generation directories in which the latter may come to live those of
`StateGenerations`.

### RadarStore

A timestamp is the index of its fetch interval, and the content of a region is
the timestamp of the product it holds, so a carry-forward copy is content older
than its slot.  `frames`, `region`, `version`, `evictPending` are the fields of
`FrameStore`; `inactiveSince` is `RadarFrameCache._inactive_since`; `carried` is
`_carried_regions`; `disk` is the directory both reapers work on.  A fetch pass
is `StartPass` (window, skip sets, re-fetches), `FetchResults` (any subset of
what was asked for), then for each slot `BeginAdd` (carry forward), one
`WriteRegion` per file, and one of `CommitMerge`, `CommitAppend`, `CommitEvict`,
and `EndPass` (cleanup by the radar cache).  `TimePasses`, `Crash`, `Restart`
and `WriteRefused` may fall between any two.

### StateGenerations and StatePromise

Generation identifiers are drawn from a wall clock (`wall`), which is not set back:
if it is, the newest generation has the oldest name and the prune at the end of
its own publication removes it.  `linked[g]` and `names[g]` are what is below the directory and
what its `state.json` names; `pointer` is the top-level `state.json`.  The
linking runs in a thread, so `Store`, `Forget`, `Reap` and `EvictScanned` of the
stores interleave with it file by file.  Two kinds of roots are kept apart:
`Listed` files, linked by descriptor and protected by the stores' grace window,
and `Scanned` files, found by walking the root.  A reader is
`load_state`/`apply_state`: `ReadPointer`, one `Open` per file, `Apply`.

`StatePromise` has one current snapshot, and readers that adopt a snapshot whole
and never go back.  `KeepsPromise` is its specification under the refinement
mapping `current <- ` the generation `pointer` names, `reading <- target`,
`view <- served` with the files the reader has opened.

### CycleCoalescer

Everything but the writing thread runs on one event loop, so a stretch of code
between two awaits is one action.  `data` numbers the contents of the stores,
`captured` the last snapshot, `published` what `state.json` has.  A runner goes
through `window` (debounce), `mask` (the await before the snapshot), `write`
(the thread), `tail` (the hook after its write, then a follow-up window when
`dirty`).  The callers are fire-and-forget tasks and the satellite tasks, which
await the dump they lead.  A satellite fetch may time out while its thread goes
on (`ghost`) and stores frames later.

### RenderWorker

One radar timestamp and one tile of it.  The content of the frame and the
generation of the weather models are counters, so a stale cache is one that
differs from them, while the code compares only versions and signatures.
`worker[w].step` is where the poll loop stands: `load` (`load_state` in the
thread), `version` and `model` (the stores as the thread applies them, one
after the other, with renders in between), `invalidate` (the diff, back on the
loop), `maintain` (the sweep of the shared tiles).  A request goes through the
present cache, the geometry cache or a shared render in flight (`wait`), the
encode, and the publication in the shared store.  A tile carries `late`, a ghost
that says it no longer matched the stores of its worker as it entered a cache:
the code cannot tell, so the properties about caches are about the others, and
the violations listed below do not hide behind it.

### SharedTileStore

A name leads to an inode and an open file keeps its inode when the name goes, as
on the file systems the store runs on.  `publish` is `Open` (truncates), `Write`,
`Replace`, and its two except branches; `get` is `OpenFinal`, `Read`; the sweeps
and `prune` are a listing and then one unlink per file.  The listing itself, and
the reading of a tile, are one step each.

### WeatherRuns

An array is a file `<<run, valid time, field, origin>>`: the first three are its
name, the last the run whose data it holds, which the code cannot see.  `update`
is the fetch in its thread: `Check` with every early return of `_fetch_sync`,
one `PersistTimestep` after the other, and the four steps of
`_publish_prepared`: `WriteActiveManifest`, `SwitchFrames`, `SwitchLabels`,
`CleanUp`.  The snapshot of the cycle hook runs beside it on the event loop
(`DumpFrames`, then `PublishState` with the labels it finds by then), so it may
carry the frames of one run under the version of another.  `home` is where the grid keeps its
arrays: the cache directory, or, after a restart without a manifest, the
generation that `state.json` names, which ages and is pruned like any other.
`worker` is the grid of a render worker, which refuses a lower content version.

### RegionalGrids

Eight grids with one outline and their own arithmetic; `kind` says which one a
behaviour is of, and each has a section that gives its runs, leads, delay,
window and eviction.  A `Cycle` is a whole fetch: the runs to consider, what is
asked of each, what lands, differences of accumulations, interpolation,
eviction.  A faulty cycle misses one file everywhere, the latest run, or
everything.  `Restart` forgets accumulations and takes interpolated frames for
decoded ones, as the files do not tell.

### TileCache and Serving

`TileCache` has an operator from a cache to a cache for each method, since each
holds the lock throughout.  The order of use of the `OrderedDict` is a set of
pairs, of a key and one used after it, and the sum of sizes counts the bytes of
the entries; a loop that drops one entry after the other (`_evict_to_budget`,
`evict_half`, both invalidations) is one operator that drops the set of keys it
would reach, which under one lock is the same.  In `Serving` a request hits or misses the cache,
leads or joins the render of its tile, and may be cancelled at any moment while
the render, shielded from it, goes on.  A render waits for its admission, then
for a thread, asks the grid for data, picks a run and reads its frames in three
steps, and is back on the loop in `Return` and `Settle`.  The poller's
`LoadState` empties the grid and `LoadFrame` adds frames one by one in another
thread.  A geometry is the run it was sampled from.  `poll` has the modification
time and the payload that the poller keeps (`mtime`, `applied`), those it has seen
and loaded and not yet applied, and the frames still to be opened.

## Runs

Between them the passing runs fire every action of every module.

| Run | Bounds | What it shows |
|---|---|---|
| `radar_store` | 2 regions, 4 intervals, 2 frames and 1 hidden one, 1 death or refused write from the third interval on | a file of a retained frame is never unlinked, an unlink waits for the grace window, no slot of the window is shed, a content change moves the version; until a death no copy overwrites real data, and until a fault a stale copy is fetched again |
| `generations` | 1 listed and 1 walked file, 1 worker, retention 2, 3 generations, then one fault: a death, a failed step, a generation that stays unpublished, or a publication during a load | a generation is whole, a reader sees one whole, `StatePromise` is implemented, neither generations nor staging directories pile up |
| `coalescer` | 1 satellite, 1 fire-and-forget task, 2 runners, 2 contents, 1 failure | no trigger is lost, one dump at a time, a leader is served, `stop()` is final; every change is published and no satellite channel freezes |
| `worker` | 2 workers, 1 request, 2 contents, 2 publications, 1 version reset | what was right when it was cached is right between two reloads; until a reset the stores hold what the payload says and another worker's tile is never older |
| `worker_live` | 1 worker, 2 requests, 2 models, 3 publications, 1 event | a worker comes up to a publication, one that lands during its reload too; requests are answered, those that share a render too |
| `store` | 2 keys, 2 publishers, 1 reader, 3 inodes, budget 1, 1 failure or death | no reader gets another key's tile; until something fails identical publishes of a key leave it whole; a sweep catches every file there was; a prune ends within the budget |
| `weather_runs` | 3 runs over 3 valid times, 3 publications of the grid, 1 fault; 2 runs once a manifest is lost | the manifest names what is on disk, what a publication links is there, workers do not go back and catch up |
| `regional_grids` | 8 grids, 4 times of day, 2 windows, with and without interpolation, 6 cycles of 20 minutes, 1 fault | every time of the window is answered by the freshest run, no cycle loses a time, nothing kept is downloaded twice, what differences left out is had later |
| `serving` | 2 requests, 2 renders, 2 tiles and a satellite tile, 1 thread, no queue slot, 3 bytes of cache, 3 histories of publications | the cache's parts agree, no more renders are admitted than there is room for, a tile has one render, nobody waits for what is over |

**Why the bounds are enough.**  `radar_store`: two regions make a partly served
slot, and with two frames and one hidden one four intervals suffice for a
timestamp to be stored, hidden, evicted and reaped by either reaper; its
constraint `OneFault` keeps the first two intervals, in which the store is not
full, free of faults.  `generations`: with three identifiers and two kept the
third publication prunes the first; the constraint has the first snapshot name
every file and lets faults happen once it is published, for before there is
nothing to lose.  `coalescer`: two contents, one runner finished and one live are
the least for a trigger that arrives while the dump it folds into is past its
snapshot.  `worker`: two contents and two publications give a worker that is
behind another; the models do not change in it, which `CachesSafe` makes up for
(it is proved for any number of them).  `store`: two publishers with two keys have at most two files
each for one reader to hold; with three inodes an `Open` that finds none free
waits for one.  `weather_runs`: an active, a previous and a next run are what the
cleanup distinguishes; `FewerRunsWhenLost` keeps the third run back once a
manifest is lost.  Faults other than the loss happen once; `MaxVersion` ends the publications, and
`WorkersCatchUp` asks for nothing once it is reached, nor while a pipeline that has
lost its version has yet to count up to a worker's.  `regional_grids`: six
cycles of twenty minutes from each of four times of the day cover the six hours
of the longest model cycle, and with the short window some delays exceed the
history.  `serving`: with one thread and no slot every second render waits; three
bytes hold one regional geometry and one other tile; capacities beyond are what
the proofs are for.

`CHECK_DEADLOCK FALSE` is set where behaviours end: at the horizon of
`RadarStore`, after `stop()` in `CycleCoalescer`, when the last run of
`WeatherRuns` is served and its bounds are used up, and after the last cycle of
`RegionalGrids`.

**Fairness.**  `CycleCoalescer!FairSpec`: a ready task runs, a timer expires, a
write in a thread ends (one way or the other), a fetch ends, fails or is given
up by `wait_for`.  Nothing forces a fetch to succeed, nor `stop()`.
`RenderWorker!FairSpec`: the poll timer fires, the boot and the reload go on, a
render ends (its failure is a choice, not forced), a request's next step is
taken.  Nothing forces a publication.  `WeatherRuns!FairSpec`: the fetcher's
cycle comes again every few minutes and goes on where nothing fails (faults are
bounded, and none is forced), a failed preparation is given up, the cycle hook
dumps and publishes or fails to, the workers poll, a dead pipeline is started
again.  Nothing forces the upstream to complete a run or the clock to move.
Weak fairness is what one event loop with timers and a thread pool gives; the
other runs are of safety only.

## What the repository says and the code does not do

Three runs have one property that must fail; `PROJECT.json` quotes the lines.

| Run | What happens |
|---|---|
| `serving_torn_reload` | `apply_state` is said to be safe beside renders because every `__setstate__` builds new structures and swaps references; the regional grids empty `_frames` and fill it in place, so a render in between blends zeros, or a run from the middle of the load, into a geometry that is cached |
| `store_partial_read` | publishes are said to be atomic, so that readers only ever see a complete file, and identical ones from several workers safe; they share one temporary name, so the open of the second empties the file that the first one renames, and a reader of the published tile gets nothing (and keeps it as a tile in its own cache) |
| `grids_bridged` | the interpolation is said to be robust to failed-then-retried fetches; a step of JMA-MSM (or WRF-SMN) that failed once is interpolated under its own key and therefore not fetched again |

Other places where the code keeps less than one might expect are conditions of
the passing properties, each named where it is stated:

- *Frames.*  After a warm restart the initial pass has no skip set and may put a
  carry-forward copy over the newest product (`RealDataKept` holds until a
  death).  Which regions are copies is not persisted, and is retired before a
  write that may be refused (`StaleCopiesRefetched` holds until either).  A copy
  may be carried on, so its age has no bound in intervals.  A write that is
  refused leaves the slot's other file on disk; if the cache clocks it, the
  timestamp is stored by a later pass, and a second write is refused before that
  pass's cleanup, the old clock outlives the visit and the file is unlinked as soon
  as the frame is evicted, without a grace window of its own (`UnlinkedAfterGrace`
  holds up to one refused write; `radar_cache.py:272`, where the clock is cleared
  only by a cleanup that finds the timestamp active).
- *Generations.*  With two kept, a load that spans two publications, or one and a
  generation that was completed and not published, loses files (the `Assumptions`
  of the proofs, the bounds of the run).  A file of a walked root that is evicted
  between the snapshot and the walk is missing from the generation, so the
  promise is about listed files.
- *Coalescer.*  A satellite task whose trigger is folded into a running dump
  returns before the dump that has its change (`LeaderServed` is about leaders).
- *Worker.*  A publication between the boot's load and its `stat` is taken for the
  one loaded and applied with the next (`CatchesUp` is about the mtime kept).
  After a pipeline restart a version may name other content
  (`StoresFollowPayload` holds until then).  A render that a reload overtakes
  publishes its old bytes under the new version, after the sweep, and the shared
  key has no input of the models (`late` tiles, and the scope of
  `HitNeverOlder`).  A store whose reload raises stays behind the payload that the
  next diff starts from (`CachesFollowStores` holds until a failure).
- *Serving.*  The signature that drops cached geometry has the `reference_time` of a
  store, which the regional grids do not publish (`main.py:275`), so a new run of one
  drops the forecast's timestamps only.  `Invalidated` has this, and geometry of past
  radar frames that has sampled the old run stays in the model as in the code, although
  `main.py:254` says that it is dropped; no run checks this.
- *Shared tiles.*  What is left of the promise that `store_partial_read` refutes is
  that identical publishes converge: the second publisher writes the file it
  emptied, whoever renamed it.  If that write fails the tile stays empty, and
  publishers with different bytes for a key (the key has no input of the models)
  may leave a mix of both (`IdenticalPublishesConverge` holds until a failure and
  for one encoding per key; the run has one, the theorem says which it needs).
- *IFS.*  `SwitchFrames` and `SwitchLabels` are two of the seven assignments of
  `_publish_prepared`: a snapshot among the last six, with some labels of either
  run, is not modelled.  A publication that dumps between `SwitchFrames` and `SwitchLabels` is
  torn: its frames are of another run than its labels, and what restores from it
  prepares on it (`OfOneRun` and `Labelled` in the properties).  Without a manifest
  the grid goes on inside a generation and loses its run when that is pruned; then
  no generation is published until the run has been downloaded again.  A pipeline
  that has lost its manifest counts versions anew, and one that is told to go back
  has forgotten by then which run it had: if both ever happen a worker may be sent
  to an older run under a higher version (`astray` in `WorkersNeverGoBack`).
- *Grids.*  HRRR, HRRR-Alaska and HRDPS round the window outwards when they fetch
  and not when they evict, so each cycle downloads again what it has just
  evicted (`NothingFetchedTwice` is about the others); `README.md:75` of the
  repository says that NWP models skip redundant fetches when the run has not
  changed.  `apply_state` skips a
  store whose payload is unchanged, but the payload of a grid names the
  generation's directory, so every grid reloads at every publication.

## Proofs

All theorems hold for every value of the constants that satisfies the modules'
named assumptions.  These say that bounds, slots, bytes and hours are numbers, that a
marker is none of the values it stands beside, that keys, regions and renders are
finitely many where something counts them, that at least two generations are kept
(`write_state_snapshot` sees to it) and that a worker finds a first publication
(its boot raises otherwise).

- **RadarStore.**  All six properties.  `RetainedFramesBacked` alone is not
  inductive: a timestamp may be stored again while an eviction of it is pending or
  its files are clocked by the cache.  `IInv` adds that a pending eviction is of a
  timestamp outside the store, that inside `add_frame` each region is on disk or
  still to be written, that nothing is from the future of the clock or of the pass,
  and that the slots of a pass are in its window.  `Invariance`, `TypeCorrectness`,
  `RetainedFramesKeepFiles`, and the action property `WindowSafe`.
  `ChangesAreVersioned` and `RealDataSafe` follow the content of a slot from the
  skip set through the results to the merge; `StaleCopiesStayRefetchable` adds what
  is on record as a copy at every step of the pass; `GraceKept` says how long a
  file that either reaper may take has been out of the store.
- **StateGenerations.**  Under `Assumptions` (the retention exceeds the
  publications one load spans plus the generations never published).  `IInv`
  counts, for the pointer and for each reader, how many newer generations there
  are (`Lag`), so that the prune, which keeps the newest, spares them.
  `GenerationInvariance`, `PointerSafe`, `ReadersSafe`, and `Refinement`: every
  step maps to a step of `StatePromise` or a stutter.  `GenerationTypes`,
  `GenerationsStayBounded` (what a prune keeps plus what was completed since the
  last one that went through, a bound on cardinalities) and `StagingIsSwept` need no
  assumption.
- **CycleCoalescer.**  `IInv` adds that the one live runner is the one
  `_cycle_complete_task` refers to, that what a leader waits for is captured or
  ahead, and that only `stop()` cancels.  `CoalescerInvariance`, `TriggersSafe`,
  `DumpsDoNotOverlap`, `LeadersSafe`, `StopIsFinal`.
- **RenderWorker.**  All safety properties, with any number of reloads that raise
  and of version resets.  `IInv` says how far a reload has brought the stores from
  the last payload to the new one, and that caches may be wrong inside a reload
  only if its diff will empty them.  `WorkerInvariance`, `WorkerTypes`,
  `CachesSafe`.  `VersionInvariance` is the invariant behind the two properties
  about versions: wherever a version is written down (the pipeline, `state.json`, a
  store, a key of the shared tiles) the content it stands for is no older than the
  version says, in the middle of a reload too.  `StoresFollow`, `HitsNeverOlder`.
- **SharedTileStore.**  `IInv` says that no inode serves two keys and that the
  temporary name never leads to a file that is published or was swept.
  `StoreInvariance`, `ReadersKeyed`, `SweepsComplete`, whatever fails;
  `PublishesConverge` from `IInvWhole`, which adds that until a failure an
  emptied file, temporary or published, has an open writer (`TmpHasWriter`,
  `EmptiedHasWriter`), and that with one encoding per key no file is ever a mix of
  two (`NoneMixed`): what a publisher writes over is nothing, or the same bytes.  `PrunesSuffice`: a
  published tile is among the entries the prune has left, or was published since
  its scan, and the total counts no fewer than are left (`PruneInv`).
- **WeatherRuns.**  `RunsInvariance` is the invariant.  `ManifestWhole` needs to
  know why the cleanup, which spares what the grid names, spares what the manifest
  names: outside a publication the two agree (`GridIsManifest`), inside one the
  manifest is what is being published (`ManifestIsPrepublished`), and that was on
  disk before (`PreparedOnDisk`); the grid lives elsewhere only without a manifest
  (`AwayWithoutManifest`).  `ManifestAlwaysWhole`; `SnapshotAlwaysLinks` adds
  that no fetch is of an older run than the grid's (`RunsInOrder`), that the arrays
  of the grid's two runs are on disk (`ActiveOnDisk`), and that a snapshot under way
  has read no later run's unless that is being published (`DumpKnown`).  `WorkersNeverReturn` orders runs by versions:
  of two snapshots the one with the lower version is of no later run, from the
  fetch under way down to what a worker has, until the count or the run goes back
  (`VersionInv`).  `TypeCorrect` needs that a fetch under way is of a run
  (`RunKnown`), that what a run is asked for are times it reaches
  (`RequiredTyped`: the two windows take least and greatest elements, and the
  clock lies in the run's times because no run comes out before it), and that each
  way to make, write to, clean up or adopt a run directory leaves the order in
  which they were written to a strict order of them (`WrittenTyped`,
  `CleanedTyped`, `GenerationTyped`).
- **RegionalGrids.**  `WantedIsKept`: every grid but the three that round outwards
  asks only for leads that its eviction keeps, for every window and time, which
  is arithmetic of two roundings per grid.  `RunsAreTimes` is the invariant that
  `TimesAreNeverLost` needs: no step loses a time of the window that could be
  answered, whatever files are missing (`ServedStays`).  `GridTypesHold`: no frame
  is both decoded and interpolated, because interpolation puts frames strictly
  between neighbours, whose order takes a least element of a set of leads.
  `GridInvariance` has, for the grids that take differences step after step
  (`ChainInv`): below a frame lies one for every hour that eviction keeps; an
  accumulation that has no frame is below all frames of its run, where no cycle
  asks; and what was downloaded is below a frame that landed.  From it
  `DifferencesNotPapered` and, with what the other grids keep of a download
  (`GotKept`), `NothingTwice`.  `FreshestAnswers` is that the newest published run
  that reaches a time answers for it (`FreshestServes`).  The run is one that the
  cycle considers (`FreshestConsidered`), the leads on both sides of the time are
  asked for (`BracketWanted`, two roundings per grid again) and had when nothing is
  missing (`WantedLands`: a difference is taken from the last step at hand below
  it); of a grid that interpolates, what lies between them must be there too.  That
  is the inductive part (`FreshInv`): what the memo remembers of a run is loaded for
  as long as eviction keeps it, and filled between any two of its hours that are
  loaded, so skipping a run whose hours are those remembered skips nothing
  (`MemoTells`); and every frame is of a published run and of a lead it can be
  sampled at, so no later run answers.
- **Serving.**  None of the properties of the renders is inductive.  `IInv` says where a
  task is known from: the flight map from its creation to its last callback
  (`FlightsKnown`), the waiting requests (`ClientsKnown`), the semaphore's queue
  before its admission and the executor's after it (`QueuesKnown`); and that the
  count is of the renders admitted (`CountRight`), where a slot released twice,
  or never, would show.  `InvariantHolds`, `CapacityHolds`, `RendersAreShared`,
  `NobodyIsStranded`, for any number of requests, threads and slots.
  `CacheStaysConsistent`, for every budget and every size of a tile, from
  `CacheInv`: the entries are finitely many and each has a size, the order of use
  is one of exactly the entries, the index has those that lead with a timestamp,
  and the sum is the number of their bytes and within the budget.  Sizes of disjoint
  sets of entries add up (`SizesAdd`), so a method that drops entries subtracts
  what it should; what `_evict_to_budget` drops is all that is older than the
  oldest entry that stays (`OldestExists`: the entry with the fewest older ones),
  so dropping it suffices, also where a tile exceeds the budget alone
  (`EvictSuffices`).  `PollInvariance` is the invariant of the poller: it loads no
  earlier publication than the one whose modification time it read.
  `GridIsApplied`, and `TypeCorrect` from both invariants.

**What the proofs changed.**  Five properties were other than stated beyond the
instance that TLC had run, and TLC found the counterexamples once a proof had
failed and the bounds were raised to where it failed.  `UnlinkedAfterGrace` with two
refused writes, `WorkersNeverGoBack` with a lost manifest and a regression in either
order, `SnapshotLinks` with a grid restored from a torn snapshot: each now names its
condition, described above.  `FreshestServes` with a window the grid does not reach
over (`WindowFits`): a history longer than the delay and the two cycles it looks
back, eight hours for the nearest of them, or a horizon beyond the end of the latest
run.  `ManifestWhole` had a condition it does not need.  The
payload of a generation whose links the grid has emptied is nobody's any more after
a restart (`Restart` of `WeatherRuns`).  `FetchChained` says which steps a descent
reaches and which it can take differences to without a recursive function, about
which nothing could be proved, and has the same reachable states.  So do the order
of use of `TileCache` and that of the run directories of `WeatherRuns`, which were
sequences, with folds and sorts on them, and are sets of pairs; the type invariant
of `WeatherRuns` says since that such an order is one, that no run comes out before
its time, and what a fetch holds.

**Only model-checked.**  Liveness (`ChangesPublished`, `ChannelsAlive`,
`CatchesUp`, `RequestsAnswered`, `WorkersCatchUp`), which is out of the prover's
reach.  Every invariant and every action property of the passing runs is stated
by a theorem.  The other way round, most type invariants and `GridFollowsApplied`
of `Serving` hold in TLC's instances too, and as they are proved no run repeats them.

## What is not modelled

Data is abstract throughout: decoding, reprojection, rendering, colours and the
arithmetic of interpolation are numeric and left out, and so are HTTP and the
formats of the upstream services: a source answers or it does not.  Of the
modelled parts: the fallback source and the CACOMP blend of the fetcher; the
construction of the stores and the page-cache priming of the pipeline; the
resurrection of a store dropped at a worker's boot and the single-process mode;
overlay, satellite and coverage tiles but for their entries in the cache; the
approximate counters and `clear` (tests only) of the shared store; the snow
masks of the regional grids and downloads that overlap inside one cycle; a wall
clock that is set back.  The nowcast, storm cells, precipitation mask, lightning
and alerts are derived and replaced whole; a store among them that cannot be
serialised is left out of the payload, and a worker that boots from it goes
without, which no model has.  Large parts of the source are numeric (renderers,
coordinates, decoders, nowcast), so the share of the source that the models
stand for is small, and is the part in which order matters.  `PROJECT.json` lists
every component with its reason.

## Plan

All modules of the original plan are there.  What could follow, in order of
worth: the nowcast store and the precipitation mask as keys of the payload that
may be absent, with the worker that drops and resurrects them; overlay tiles in
`RenderWorker`; the coordinate store.
