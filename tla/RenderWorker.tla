---------------------------- MODULE RenderWorker ----------------------------
(* The render-only workers of LibreWXR (main.py) and the tiles they keep: the
   boot from state.json, the poll loop that applies a publication to the stores
   in a worker thread and then invalidates, the in-memory tile cache, the
   on-disk store the workers share, and the radar tile requests whose renders
   run across those steps (api/routes.py).

   One radar timestamp and one tile of it: the geometry cache holds its sampled
   values, the present cache its encoded bytes, the shared store its bytes
   under each content version.  The CONTENT of the frame and the generation of
   the weather MODEL are counters, so "newer" is ">"; what the code compares is
   only the version the pipeline's FrameStore gives the frame.                *)
EXTENDS Naturals, FiniteSets

CONSTANTS Workers,          \* render worker processes
          Requests,         \* requests in flight at once
          None,             \* no tile, no frame
          MaxContent,       \* bound: contents the frame goes through
          MaxModel,         \* bound: model generations
          MaxPublications,  \* bound: dumps of state.json
          MaxResets,        \* bound: times the frame's version starts again at 1
          MaxBoots,         \* bound: worker boots after the first ones
          MaxFailures       \* bound: FrameStore reloads that raise or find no file

ASSUME BoundsAssumption ==
    /\ MaxContent \in Nat \ {0} /\ MaxModel \in Nat \ {0}
    /\ MaxPublications \in Nat \ {0} /\ MaxResets \in Nat
    /\ MaxBoots \in Nat /\ MaxFailures \in Nat
    /\ None \notin Nat

VARIABLES pipe,       \* the pipeline's live frame and model
          published,  \* state.json: its mtime and what it describes
          worker,     \* per worker: the poller's step and the stores it applied
          geom,       \* per worker: TileCache entry under geom_key
          present,    \* per worker: TileCache entry under present_key
          flight,     \* per worker: the geometry render in flight (_geometry_flights)
          req,        \* the requests, with the write to the shared store one may leave
          shared,     \* SharedTileStore: version -> the tile under that key
          spent       \* what is used of the bounds MaxResets, MaxBoots, MaxFailures

vars == <<pipe, published, worker, geom, present, flight, req, shared, spent>>
cacheVars == <<geom, present, flight, req, shared>>

Versions == 1 .. MaxContent
Contents == (1 .. MaxContent) \cup {None}
Models   == 1 .. MaxModel

\* What state.json says: version 0 is a frame that is not in the window.
Payload  == [mtime : Nat, version : Versions \cup {0}, content : Contents, model : Models]

\* A tile is what it was rendered from.  "late" is TRUE when it no longer
\* matched the stores of its worker on the way into a cache (a ghost: the
\* code cannot tell).
Tile     == [content : 1 .. MaxContent, model : Models, late : BOOLEAN]

Steps    == {"down", "booted", "idle", "load", "version", "model", "invalidate",
             "maintain"}
Stages   == {"idle", "lookup", "hit", "render", "wait", "present", "encode",
             "publish"}

FlightState == [content : Versions, model : Models \cup {0}]

ASSUME NoneAssumption == None \notin Payload /\ None \notin Tile /\ None \notin FlightState

NoRequest == [stage |-> "idle", by |-> None, key |-> 0, tile |-> None]
Down      == [step |-> "down", frame |-> None, version |-> 0, model |-> 1,
              mtime |-> 0, last |-> None, polled |-> 0, loaded |-> None]

\* b as it enters a cache of worker w.
Arriving(w, b) ==
    [b EXCEPT !.late = \/ b.content # worker[w].frame
                       \/ b.model # worker[w].model]

\* main._compute_cache_invalidation, for one frame and one model: the NWP
\* signature changed, or the frame's version changed or vanished.  A frame the
\* previous payload did not have is not looked at.
ModelChanged(prev, cur) == prev.model # cur.model

FrameChanged(prev, cur) == prev.version # 0 /\ cur.version # prev.version

\* Mutant of Invalidates: a change of the frame is not looked at.
InvalidatesModel(prev, cur) == ModelChanged(prev, cur)

\* Mutant of Invalidates: a change of the models is not looked at.
InvalidatesFrame(prev, cur) == FrameChanged(prev, cur)

Invalidates(prev, cur) == ModelChanged(prev, cur) \/ FrameChanged(prev, cur)

Init ==
    /\ pipe = [version |-> 1, content |-> 1, model |-> 1]
    /\ published = [mtime |-> 1, version |-> 1, content |-> 1, model |-> 1]
    /\ worker = [w \in Workers |-> Down]
    /\ geom = [w \in Workers |-> None]
    /\ present = [w \in Workers |-> None]
    /\ flight = [w \in Workers |-> None]
    /\ req = [r \in Requests |-> NoRequest]
    /\ shared = [v \in Versions |-> None]
    /\ spent = [resets |-> 0, boots |-> 0, failures |-> 0]

-----------------------------------------------------------------------------
(* The pipeline: what add_frame and a publication do to the frame's version. *)

\* Mutant of Bumped: a merge of a region leaves the version.
BumpLost == pipe.version

\* Mutant of Bumped: the write and the merge each count.
BumpedTwice == pipe.version + 2

\* The version of the frame after a merge.
Bumped == pipe.version + 1

\* A merge of a region that changed something.
Merge ==
    /\ pipe.version \in 1 .. MaxContent - 1 /\ pipe.content < MaxContent
    /\ pipe' = [pipe EXCEPT !.version = Bumped, !.content = @ + 1]
    /\ UNCHANGED <<published, worker, cacheVars, spent>>

\* The frame leaves the window: _frame_versions.pop.
Evict ==
    /\ pipe.version # 0
    /\ pipe' = [pipe EXCEPT !.version = 0]
    /\ UNCHANGED <<published, worker, cacheVars, spent>>

\* An evicted timestamp is stored again, with new content, at version 1.
Readd ==
    /\ pipe.version = 0 /\ pipe.content < MaxContent
    /\ spent.resets < MaxResets
    /\ pipe' = [pipe EXCEPT !.version = 1, !.content = @ + 1]
    /\ spent' = [spent EXCEPT !.resets = @ + 1]
    /\ UNCHANGED <<published, worker, cacheVars>>

\* The pipeline restarts: it adds what its cache holds to an empty FrameStore.
Restart ==
    /\ pipe.version # 0 /\ spent.resets < MaxResets
    /\ pipe' = [pipe EXCEPT !.version = 1]
    /\ spent' = [spent EXCEPT !.resets = @ + 1]
    /\ UNCHANGED <<published, worker, cacheVars>>

NewModel ==
    /\ pipe.model < MaxModel
    /\ pipe' = [pipe EXCEPT !.model = @ + 1]
    /\ UNCHANGED <<published, worker, cacheVars, spent>>

\* dump_state: the generation it publishes is a copy, so a worker that opens
\* its files finds the content of this moment.
Publish ==
    /\ published.mtime < MaxPublications
    /\ published' = [mtime |-> published.mtime + 1, version |-> pipe.version,
                     content |-> IF pipe.version = 0 THEN None ELSE pipe.content,
                     model |-> pipe.model]
    /\ UNCHANGED <<pipe, worker, cacheVars, spent>>

\* prune: the pipeline keeps the shared store in its budget.
Prune(v) ==
    /\ shared[v] # None
    /\ shared' = [shared EXCEPT ![v] = None]
    /\ UNCHANGED <<pipe, published, worker, geom, present, flight, req, spent>>

-----------------------------------------------------------------------------
(* A worker process: boot, crash, and the poll loop. *)

\* load_state and apply_state on empty stores.
Boot(w) ==
    /\ worker[w].step = "down"
    /\ worker' = [worker EXCEPT ![w] =
           [Down EXCEPT !.step = "booted", !.frame = published.content,
                        !.version = published.version, !.model = published.model,
                        !.last = published]]
    /\ UNCHANGED <<pipe, published, cacheVars, spent>>

\* last_mtime is read here, after the load; then the worker serves.
Seed(w) ==
    /\ worker[w].step = "booted"
    /\ worker' = [worker EXCEPT ![w].step = "idle", ![w].mtime = published.mtime]
    /\ UNCHANGED <<pipe, published, cacheVars, spent>>

\* The process dies: its memory, requests and threads go, the shared store stays.
Crash(w) ==
    /\ worker[w].step # "down" /\ spent.boots < MaxBoots
    /\ spent' = [spent EXCEPT !.boots = @ + 1]
    /\ worker' = [worker EXCEPT ![w] = Down]
    /\ geom' = [geom EXCEPT ![w] = None]
    /\ present' = [present EXCEPT ![w] = None]
    /\ flight' = [flight EXCEPT ![w] = None]
    /\ req' = [r \in Requests |-> IF req[r].by = w THEN NoRequest ELSE req[r]]
    /\ UNCHANGED <<pipe, published, shared>>

\* The timer fires and the mtime is not the one of the last reload.
Poll(w) ==
    /\ worker[w].step = "idle" /\ worker[w].mtime # published.mtime
    /\ worker' = [worker EXCEPT ![w].step = "load", ![w].polled = published.mtime]
    /\ UNCHANGED <<pipe, published, cacheVars, spent>>

\* load_state, in a worker thread: the file may be a newer one by now.
\* FrameStore.__setstate__ keeps the open arrays when the version is the one
\* it holds, and opens the files of the new generation otherwise ...
Loaded(w, frame, version, step) ==
    [worker[w] EXCEPT !.step = step, !.loaded = published,
                      !.frame = frame, !.version = version]

\* Mutant of SwapFrame: the versions are replaced, the frames are not.
SwapVersionOnly(w, frame) == Loaded(w, worker[w].frame, published.version, "version")

SwapFrame(w, frame) == Loaded(w, frame, worker[w].version, "version")

ApplyFrame(w) ==
    /\ worker[w].step = "load"
    /\ LET reuse == worker[w].frame # None /\ worker[w].version = published.version
           frame == IF reuse THEN worker[w].frame ELSE published.content
       IN  worker' = [worker EXCEPT ![w] = SwapFrame(w, frame)]
    /\ UNCHANGED <<pipe, published, cacheVars, spent>>

\* ... then _by_ts (above) and _frame_versions are replaced one after the other.
ApplyVersion(w) ==
    /\ worker[w].step = "version"
    /\ worker' = [worker EXCEPT ![w].step = "model",
                                ![w].version = worker[w].loaded.version]
    /\ UNCHANGED <<pipe, published, cacheVars, spent>>

\* The reload of the frame store raises: apply_state logs it and goes on.
ApplyFails(w) ==
    /\ worker[w].step = "load" /\ spent.failures < MaxFailures
    /\ spent' = [spent EXCEPT !.failures = @ + 1]
    /\ worker' = [worker EXCEPT ![w] =
           Loaded(w, worker[w].frame, worker[w].version, "model")]
    /\ UNCHANGED <<pipe, published, cacheVars>>

\* The generation was reaped before its files were opened: the frame is
\* skipped and its version dropped.
FrameGone(w) ==
    /\ worker[w].step = "load" /\ spent.failures < MaxFailures
    /\ published.version # 0
    /\ spent' = [spent EXCEPT !.failures = @ + 1]
    /\ worker' = [worker EXCEPT ![w] = Loaded(w, None, 0, "model")]
    /\ UNCHANGED <<pipe, published, cacheVars>>

\* The stores of the weather models follow.
ApplyModel(w) ==
    /\ worker[w].step = "model"
    /\ worker' = [worker EXCEPT ![w].step = "invalidate",
                                ![w].model = worker[w].loaded.model]
    /\ UNCHANGED <<pipe, published, cacheVars, spent>>

\* Mutant of KeptMtime: the mtime is read again after the reload.
MtimeNow(w) == published.mtime

KeptMtime(w) == worker[w].polled

\* Back on the loop: last_mtime is the mtime read before the load, and the
\* diff against the previous payload decides what the tile cache forgets.
Invalidate(w) ==
    /\ worker[w].step = "invalidate"
    /\ worker' = [worker EXCEPT ![w].step = "maintain", ![w].mtime = KeptMtime(w)]
    /\ IF Invalidates(worker[w].last, worker[w].loaded)
       THEN /\ geom' = [geom EXCEPT ![w] = None]
            /\ present' = [present EXCEPT ![w] = None]
       ELSE UNCHANGED <<geom, present>>
    /\ UNCHANGED <<pipe, published, flight, req, shared, spent>>

\* _maintain_shared_tiles, in a thread: every final file, or every version of
\* the timestamp; only then is the payload the previous one.
Maintain(w) ==
    /\ worker[w].step = "maintain"
    /\ shared' = IF Invalidates(worker[w].last, worker[w].loaded)
                 THEN [v \in Versions |-> None] ELSE shared
    /\ worker' = [worker EXCEPT ![w].step = "idle", ![w].last = worker[w].loaded,
                                ![w].loaded = None, ![w].polled = 0]
    /\ UNCHANGED <<pipe, published, geom, present, flight, req, spent>>

\* Memory pressure: the monitor has the tile cache evict.
Pressure(w) ==
    /\ geom' \in {geom, [geom EXCEPT ![w] = None]}
    /\ present' \in {present, [present EXCEPT ![w] = None]}
    /\ UNCHANGED <<pipe, published, worker, flight, req, shared, spent>>

-----------------------------------------------------------------------------
(* A plain radar tile request, from routes.radar_tile.  The transparent
   fast path is a render that finishes in the step it starts in.             *)

Serving(w) == worker[w].step \notin {"down", "booted"}

\* geom is read now and used after the awaits; with both tiers cached the
\* bytes are served at once and nothing changes.
Begin(r, w) ==
    /\ req[r].stage = "idle" /\ Serving(w)
    /\ geom[w] = None \/ present[w] = None
    /\ req' = [req EXCEPT ![r] =
           [stage |-> IF worker[w].version = 0 THEN "render" ELSE "lookup",
            by |-> w, key |-> worker[w].version, tile |-> geom[w]]]
    /\ UNCHANGED <<pipe, published, worker, geom, present, flight, shared, spent>>

\* SharedTileStore.get in a thread, under the version of Begin.
ReadShared(r) ==
    /\ req[r].stage = "lookup"
    /\ LET found == shared[req[r].key]
       IN  req' = [req EXCEPT ![r] =
               IF found = None THEN [@ EXCEPT !.stage = "render"]
               ELSE [@ EXCEPT !.stage = "hit", !.tile = found]]
    /\ UNCHANGED <<pipe, published, worker, geom, present, flight, shared, spent>>

\* Back on the loop the bytes prime the present cache and are served.
ServeHit(r) ==
    /\ req[r].stage = "hit"
    /\ LET w == req[r].by
       IN  present' = [present EXCEPT ![w] = Arriving(w, req[r].tile)]
    /\ req' = [req EXCEPT ![r] = NoRequest]
    /\ UNCHANGED <<pipe, published, worker, geom, flight, shared, spent>>

\* With the geometry of Begin, present it.  Without, take the frame: none is a
\* 404; otherwise start the render, or wait for the one in flight, whoever
\* started it.
Render(r) ==
    /\ req[r].stage = "render"
    /\ LET w == req[r].by IN
       \/ /\ req[r].tile # None
          /\ req' = [req EXCEPT ![r].stage = "present"]
          /\ UNCHANGED flight
       \/ /\ req[r].tile = None /\ worker[w].frame = None
          /\ req' = [req EXCEPT ![r] = NoRequest]
          /\ UNCHANGED flight
       \/ /\ req[r].tile = None /\ worker[w].frame # None
          /\ req' = [req EXCEPT ![r].stage = "wait"]
          /\ flight' = IF flight[w] # None THEN flight
                       ELSE [flight EXCEPT ![w] =
                               [content |-> worker[w].frame, model |-> 0]]
    /\ UNCHANGED <<pipe, published, worker, geom, present, shared, spent>>

\* The compute thread samples the live weather stores.
Sample(w) ==
    /\ flight[w] # None /\ flight[w].model = 0
    /\ flight' = [flight EXCEPT ![w].model = worker[w].model]
    /\ UNCHANGED <<pipe, published, worker, geom, present, req, shared, spent>>

Waiters(w) == {r \in Requests : req[r].stage = "wait" /\ req[r].by = w}

\* Mutant of Waiting: only one of those that share the task gets its outcome.
WaitingFirst(w) == {r \in Waiters(w) : r = CHOOSE q \in Waiters(w) : TRUE}

\* Everyone that awaits the task of this tile gets its outcome.
Waiting(w) == Waiters(w)

\* _compute_once returns: the geometry is cached and every waiter goes on.
Computed(w) ==
    /\ flight[w] # None /\ flight[w].model # 0
    /\ LET tile == Arriving(w, [content |-> flight[w].content,
                                model |-> flight[w].model, late |-> FALSE])
       IN  /\ geom' = [geom EXCEPT ![w] = tile]
           /\ req' = [r \in Requests |->
                  IF r \in Waiting(w)
                  THEN [req[r] EXCEPT !.stage = "present", !.tile = tile]
                  ELSE req[r]]
    /\ flight' = [flight EXCEPT ![w] = None]
    /\ UNCHANGED <<pipe, published, worker, present, shared, spent>>

\* The render raises: every waiter gets the exception.
ComputeFails(w) ==
    /\ flight[w] # None
    /\ flight' = [flight EXCEPT ![w] = None]
    /\ req' = [r \in Requests |-> IF r \in Waiting(w) THEN NoRequest ELSE req[r]]
    /\ UNCHANGED <<pipe, published, worker, geom, present, shared, spent>>

\* The present cache is looked at once more; a miss is encoded in a thread.
Present(r) ==
    /\ req[r].stage = "present"
    /\ req' = [req EXCEPT ![r] = IF present[req[r].by] # None THEN NoRequest
                                 ELSE [@ EXCEPT !.stage = "encode"]]
    /\ UNCHANGED <<pipe, published, worker, geom, present, flight, shared, spent>>

\* The encode returns: the bytes are cached, served, and on their way to the
\* shared store under the version the frame store has NOW.
Encoded(r) ==
    /\ req[r].stage = "encode"
    /\ LET w == req[r].by
           tile == Arriving(w, req[r].tile)
       IN  /\ present' = [present EXCEPT ![w] = tile]
           /\ req' = [req EXCEPT ![r] =
                  IF worker[w].version = 0 THEN NoRequest
                  ELSE [@ EXCEPT !.stage = "publish", !.key = worker[w].version,
                                 !.tile = tile]]
    /\ UNCHANGED <<pipe, published, worker, geom, flight, shared, spent>>

\* SharedTileStore.publish lands, or fails and is dropped.
Land(r) ==
    /\ req[r].stage = "publish"
    /\ shared' \in {shared, [shared EXCEPT ![req[r].key] = req[r].tile]}
    /\ req' = [req EXCEPT ![r] = NoRequest]
    /\ UNCHANGED <<pipe, published, worker, geom, present, flight, spent>>

-----------------------------------------------------------------------------
Pipeline == \/ Merge \/ Evict \/ Readd \/ Restart \/ NewModel \/ Publish
            \/ \E v \in Versions : Prune(v)

Reload(w) == \/ Poll(w) \/ ApplyFrame(w) \/ ApplyVersion(w)
             \/ ApplyModel(w) \/ Invalidate(w) \/ Maintain(w)

Compute(w) == Sample(w) \/ Computed(w)

Serve(r) == \/ ReadShared(r) \/ ServeHit(r) \/ Render(r) \/ Present(r) \/ Encoded(r)
            \/ Land(r)

Next ==
    \/ Pipeline
    \/ \E w \in Workers : \/ Boot(w) \/ Seed(w) \/ Crash(w) \/ Reload(w)
                          \/ ApplyFails(w) \/ FrameGone(w) \/ Pressure(w)
                          \/ Compute(w) \/ ComputeFails(w)
    \/ \E r \in Requests : \/ \E w \in Workers : Begin(r, w)
                           \/ Serve(r)

Spec == Init /\ [][Next]_vars

\* The poll loop and the threads it and the requests use make progress.
FairSpec ==
    /\ Spec
    /\ \A w \in Workers : /\ WF_vars(Boot(w)) /\ WF_vars(Seed(w))
                          /\ WF_vars(Reload(w)) /\ WF_vars(Compute(w))
    /\ \A r \in Requests : WF_vars(Serve(r))

-----------------------------------------------------------------------------
WorkerState ==
    [step : Steps, frame : Contents, version : Versions \cup {0}, model : Models,
     mtime : Nat, last : Payload \cup {None}, polled : Nat, loaded : Payload \cup {None}]

RequestState == [stage : Stages, by : Workers \cup {None}, key : Versions \cup {0},
                 tile : Tile \cup {None}]

CacheTypes ==
    /\ geom \in [Workers -> Tile \cup {None}]
    /\ present \in [Workers -> Tile \cup {None}]
    /\ flight \in [Workers -> FlightState \cup {None}]
    /\ req \in [Requests -> RequestState]
    /\ shared \in [Versions -> Tile \cup {None}]

TypeOK ==
    /\ pipe \in [version : Versions \cup {0}, content : Versions, model : Models]
    /\ published \in Payload
    /\ worker \in [Workers -> WorkerState]
    /\ CacheTypes
    /\ spent \in [resets : 0 .. MaxResets, boots : 0 .. MaxBoots, failures : 0 .. MaxFailures]

Settled(w) == worker[w].step \in {"idle", "load"}

Matches(tile, w) ==
    tile.content = worker[w].frame /\ tile.model = worker[w].model

\* The diff forgets enough: whatever was right when a worker cached it is right
\* whenever the worker is between two reloads, however the version of the frame
\* moves (_compute_cache_invalidation against FrameStore.__setstate__).  Until a
\* reload fails: main.py:799-801 keeps the geometry of timestamps "whose content
\* didn't change", and then compares with a payload that was not applied.
CachesFollowStores ==
    \A w \in Workers : Settled(w) /\ spent.failures = 0 =>
        \A tile \in {geom[w], present[w]} \ {None} : tile.late \/ Matches(tile, w)

\* As long as versions only grow and no reload fails, the version is as good as
\* the content: after a reload the stores hold what the payload describes, the
\* arrays kept open included.
StoresFollowPayload ==
    \A w \in Workers :
      worker[w].step = "idle" /\ spent.resets + spent.failures = 0 =>
        /\ worker[w].frame = worker[w].last.content
        /\ worker[w].version = worker[w].last.version
        /\ worker[w].model = worker[w].last.model

\* ... and the key of the shared store protects every worker, behind or ahead:
\* what a worker finds under its version is never older than its own frame,
\* unless it was stale when it was published.
HitNeverOlder ==
    \A w \in Workers :
        LET found == IF worker[w].version = 0 THEN None ELSE shared[worker[w].version]
        IN  /\ spent.resets + spent.failures = 0
            /\ worker[w].step \notin {"down", "version"}
            /\ worker[w].frame # None /\ found # None
            => found.late \/ found.content >= worker[w].frame

\* A worker that is behind state.json reloads: the mtime it keeps is the one
\* read before the load, so a dump during the reload is not missed.
CatchesUp ==
    \A w \in Workers :
        (worker[w].step = "idle" /\ worker[w].mtime # published.mtime)
            ~> (worker[w].step = "down" \/ worker[w].last = published)

\* Every request is answered, those that wait for another request's render
\* included, whether it succeeds or raises.
RequestsAnswered ==
    \A r \in Requests : req[r].stage \notin {"idle", "publish"} ~> req[r].stage \in {"idle", "publish"}

-----------------------------------------------------------------------------
(* The inductive invariant behind CachesFollowStores.  What it says of the stores
   and the caches it says until a reload fails. *)

FramePresent(p) == p.version = 0 <=> p.content = None

\* Every description of the state says of a frame what it says of its version.
PayloadsAgree ==
    /\ FramePresent(published)
    /\ \A w \in Workers : /\ worker[w].last # None => FramePresent(worker[w].last)
                          /\ worker[w].loaded # None => FramePresent(worker[w].loaded)

\* A worker that does not serve has nothing cached and nothing in flight.
NothingBeforeServing ==
    /\ \A w \in Workers : ~Serving(w) =>
          geom[w] = None /\ present[w] = None /\ flight[w] = None
    /\ \A r \in Requests : req[r].stage # "idle" =>
          req[r].by \in Workers /\ Serving(req[r].by)

\* Which tiles a request holds at which stage.
RequestsHoldTiles ==
    \A r \in Requests : req[r].stage \in {"hit", "present", "encode", "publish"} =>
        req[r].tile # None

RequestsHoldKeys ==
    \A r \in Requests : req[r].stage \in {"lookup", "publish"} => req[r].key # 0

\* How far the reload of w has brought its stores from worker[w].last to
\* worker[w].loaded.
ReloadStage(w) ==
    LET me == worker[w] IN
    /\ me.step # "down" => me.last # None
    /\ me.step \in {"version", "model", "invalidate", "maintain"} => me.loaded # None
    /\ spent.failures = 0 =>
          /\ me.step \in {"booted", "idle", "load", "version"} => me.version = me.last.version
          /\ me.step \in {"model", "invalidate", "maintain"} => me.version = me.loaded.version
          /\ me.step \in {"booted", "idle", "load", "version", "model"}
                => me.model = me.last.model
          /\ me.step \in {"invalidate", "maintain"} => me.model = me.loaded.model
          /\ me.step = "version" => (me.frame = None <=> me.loaded.version = 0)
          /\ me.step # "version" => (me.frame = None <=> me.version = 0)

\* In the middle of a reload the caches may be wrong only if the diff will
\* empty them.
CachesCovered(w) ==
    spent.failures = 0 =>
      \/ /\ worker[w].step \in {"version", "model", "invalidate"}
         /\ Invalidates(worker[w].last, worker[w].loaded)
      \/ \A tile \in {geom[w], present[w]} \ {None} : tile.late \/ Matches(tile, w)

IInv ==
    /\ TypeOK /\ PayloadsAgree /\ NothingBeforeServing
    /\ RequestsHoldTiles /\ RequestsHoldKeys
    /\ \A w \in Workers : ReloadStage(w) /\ CachesCovered(w)

-----------------------------------------------------------------------------
(* What StoresFollowPayload and HitNeverOlder need besides: until the version
   restarts or a reload fails, the version of a frame is its content, and a
   frame that left the window does not come back. *)

Unspoilt == spent.resets + spent.failures = 0

VersionTells(p) == p.version # 0 => p.content = p.version

\* What has version v may come to have version u: 0 is for good.
NoNewer(v, u) == u = 0 \/ (v # 0 /\ v <= u)

\* The versions along the way from the pipeline to the stores of a worker.
VersionsTell ==
    /\ VersionTells(pipe) /\ VersionTells(published)
    /\ NoNewer(published.version, pipe.version)

\* ... and in a worker: its payloads, and the frame its version stands for.
WorkerTells(w) ==
    LET me == worker[w] IN
    /\ \A p \in {me.last, me.loaded} \ {None} :
          VersionTells(p) /\ NoNewer(p.version, published.version)
    /\ me.step \in {"version", "model", "invalidate", "maintain"} =>
          NoNewer(me.last.version, me.loaded.version)
    /\ me.step = "version" /\ me.loaded.version # 0 => me.frame = me.loaded.version
    /\ me.step # "version" /\ me.version # 0 => me.frame = me.version

NotOlder(tile, version) == tile.late \/ tile.content >= version

\* A tile of the shared store, or on its way there, shows its key's content or a
\* later one, unless it was late.
KeysCover ==
    /\ \A v \in Versions : shared[v] # None => NotOlder(shared[v], v)
    /\ \A r \in Requests : req[r].stage = "publish" => NotOlder(req[r].tile, req[r].key)

VersionInv == Unspoilt => VersionsTell /\ KeysCover /\ \A w \in Workers : WorkerTells(w)
=============================================================================
