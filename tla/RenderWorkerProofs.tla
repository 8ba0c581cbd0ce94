------------------------- MODULE RenderWorkerProofs -------------------------
(***************************************************************************)
(* Proofs about RenderWorker, for any number of workers, requests and       *)
(* publications, however the versions move and whichever reloads fail:      *)
(* until one does, what a worker cached while it was right is right          *)
(* whenever it is between two reloads; and until one does or the version of  *)
(* the frame restarts, the stores hold what their payload describes and no   *)
(* worker finds a tile in the shared store that is older than its frame.     *)
(***************************************************************************)
EXTENDS RenderWorker, TLAPS

\* The initial state satisfies the invariant.
LEMMA InitIInv == Init => IInv
  <1> SUFFICES ASSUME Init PROVE IInv
    OBVIOUS
  <1>1. TypeOK
    BY BoundsAssumption
    DEF Init, TypeOK, CacheTypes, WorkerState, FlightState, RequestState, Payload, Tile,
        Versions, Contents, Models, Steps, Stages, Down, NoRequest
  <1>2. PayloadsAgree
    BY BoundsAssumption DEF Init, PayloadsAgree, FramePresent, Down
  <1>3. NothingBeforeServing /\ RequestsHoldTiles /\ RequestsHoldKeys
    BY DEF Init, NothingBeforeServing, RequestsHoldTiles, RequestsHoldKeys, NoRequest
  <1>4. ASSUME NEW w \in Workers PROVE ReloadStage(w) /\ CachesCovered(w)
    BY DEF Init, ReloadStage, CachesCovered, Down
  <1> QED BY <1>1, <1>2, <1>3, <1>4 DEF IInv

\* A step of the caches and requests keeps the invariant if what it caches is
\* what a serving worker's stores hold, or marked late.
LEMMA CacheStep ==
  ASSUME IInv, UNCHANGED <<pipe, published, worker, spent>>, CacheTypes',
         \A v \in Workers : \/ geom'[v] \in {geom[v], None}
                            \/ Serving(v) /\ (geom'[v].late \/ Matches(geom'[v], v)),
         \A v \in Workers : \/ present'[v] \in {present[v], None}
                            \/ Serving(v) /\ (present'[v].late \/ Matches(present'[v], v)),
         \A v \in Workers : flight'[v] \in {flight[v], None} \/ Serving(v),
         \A r \in Requests : req'[r].stage # "idle" =>
             req'[r].by \in Workers /\ Serving(req'[r].by),
         RequestsHoldTiles', RequestsHoldKeys'
  PROVE  IInv'
  <1>1. TypeOK'
    BY DEF IInv, TypeOK
  <1>2. PayloadsAgree'
    BY DEF IInv, PayloadsAgree
  <1>3. NothingBeforeServing'
    BY DEF IInv, NothingBeforeServing, Serving
  <1>4. ASSUME NEW w \in Workers PROVE ReloadStage(w)' /\ CachesCovered(w)'
    <2>1. ReloadStage(w)'
      BY DEF IInv, ReloadStage
    <2>2. CachesCovered(w)'
      BY DEF IInv, CachesCovered, Matches
    <2> QED BY <2>1, <2>2
  <1> QED BY <1>1, <1>2, <1>3, <1>4 DEF IInv

\* A step of worker w that leaves the requests alone and at most empties its
\* caches keeps the invariant if w itself does.
LEMMA WorkerStep ==
  ASSUME IInv, NEW w \in Workers, NEW m \in WorkerState,
         worker' = [worker EXCEPT ![w] = m],
         UNCHANGED <<pipe, published, flight, req, spent>>, CacheTypes',
         \A v \in Workers \ {w} : geom'[v] = geom[v] /\ present'[v] = present[v],
         geom'[w] \in {geom[w], None}, present'[w] \in {present[w], None},
         m.last # None => FramePresent(m.last),
         m.loaded # None => FramePresent(m.loaded),
         Serving(w) => m.step \notin {"down", "booted"},
         ReloadStage(w)', CachesCovered(w)'
  PROVE  IInv'
  <1>0. /\ worker \in [Workers -> WorkerState]
        /\ worker'[w] = m
        /\ \A v \in Workers \ {w} : worker'[v] = worker[v]
    BY DEF IInv, TypeOK
  <1>1. TypeOK'
    BY <1>0 DEF IInv, TypeOK
  <1>2. PayloadsAgree'
    BY <1>0 DEF IInv, PayloadsAgree, FramePresent
  <1>3. NothingBeforeServing'
    BY <1>0 DEF IInv, NothingBeforeServing, Serving
  <1>4. RequestsHoldTiles' /\ RequestsHoldKeys'
    BY DEF IInv, RequestsHoldTiles, RequestsHoldKeys
  <1>5. ASSUME NEW v \in Workers PROVE ReloadStage(v)' /\ CachesCovered(v)'
    <2>1. CASE v = w
      BY <2>1
    <2>2. CASE v # w
      <3>1. worker'[v] = worker[v] /\ geom'[v] = geom[v] /\ present'[v] = present[v]
        BY <1>0, <2>2
      <3>2. ReloadStage(v)'
        BY <3>1 DEF IInv, ReloadStage
      <3>3. CachesCovered(v)'
        BY <3>1 DEF IInv, CachesCovered, Matches
      <3> QED BY <3>2, <3>3
    <2> QED BY <2>1, <2>2
  <1> QED BY <1>1, <1>2, <1>3, <1>4, <1>5 DEF IInv

\* The pipeline's steps touch no worker.
LEMMA PipelineStep == ASSUME IInv, Pipeline PROVE IInv'
  <1>0. /\ TypeOK
        /\ UNCHANGED <<worker, geom, present, flight, req>>
    BY DEF IInv, Pipeline, Merge, Evict, Readd, Restart, NewModel, Publish, Prune, cacheVars
  <1>1. TypeOK'
    <2>1. CASE Merge \/ Evict \/ Readd \/ Restart \/ NewModel
      <3> DEFINE PipeType == [version : Versions \cup {0}, content : Versions, model : Models]
      <3>1. pipe \in PipeType /\ pipe.version \in 0 .. MaxContent /\ 1 \in Versions
        BY <1>0, BoundsAssumption DEF TypeOK, Versions
      <3>2. Merge => pipe' \in PipeType
        <4> SUFFICES ASSUME Merge PROVE pipe' \in PipeType
          OBVIOUS
        <4>1. pipe.version + 1 \in Versions /\ pipe.content + 1 \in Versions
          BY <3>1, BoundsAssumption DEF Merge, Versions
        <4> QED BY <3>1, <4>1 DEF Merge, Bumped
      <3>3. Evict => pipe' \in PipeType
        BY <3>1 DEF Evict
      <3>4. Readd => pipe' \in PipeType
        <4> SUFFICES ASSUME Readd PROVE pipe' \in PipeType
          OBVIOUS
        <4>1. pipe.content + 1 \in Versions
          BY <3>1, BoundsAssumption DEF Readd, Versions
        <4> QED BY <3>1, <4>1 DEF Readd
      <3>5. Restart => pipe' \in PipeType
        BY <3>1 DEF Restart
      <3>6. NewModel => pipe' \in PipeType
        BY <3>1, BoundsAssumption DEF NewModel, Models
      <3>7. pipe' \in PipeType
        BY <2>1, <3>2, <3>3, <3>4, <3>5, <3>6
      <3>8. UNCHANGED <<published, worker, cacheVars>>
        BY <2>1 DEF Merge, Evict, Readd, Restart, NewModel
      <3>9. spent' \in [resets : 0 .. MaxResets, boots : 0 .. MaxBoots, failures : 0 .. MaxFailures]
        <4>1. CASE spent' = spent
          BY <1>0, <4>1 DEF TypeOK
        <4>2. CASE spent.resets < MaxResets /\ spent' = [spent EXCEPT !.resets = @ + 1]
          BY <1>0, <4>2, BoundsAssumption DEF TypeOK
        <4> QED BY <2>1, <4>1, <4>2 DEF Merge, Evict, Readd, Restart, NewModel
      <3> QED BY <1>0, <3>7, <3>8, <3>9 DEF TypeOK, CacheTypes, cacheVars
    <2>2. CASE Publish
      BY <1>0, <2>2, BoundsAssumption
      DEF TypeOK, CacheTypes, Publish, Payload, cacheVars, Versions, Contents
    <2>3. ASSUME NEW v \in Versions, Prune(v) PROVE TypeOK'
      BY <1>0, <2>3 DEF TypeOK, CacheTypes, Prune
    <2> QED BY <2>1, <2>2, <2>3 DEF Pipeline
  <1>2. PayloadsAgree'
    <2>1. CASE Publish
      BY <1>0, <2>1, BoundsAssumption
      DEF IInv, PayloadsAgree, FramePresent, Publish, TypeOK, Versions
    <2>2. CASE published' = published
      BY <1>0, <2>2 DEF IInv, PayloadsAgree
    <2> QED
      BY <2>1, <2>2 DEF Pipeline, Merge, Evict, Readd, Restart, NewModel, Prune
  <1>3. NothingBeforeServing' /\ RequestsHoldTiles' /\ RequestsHoldKeys'
    BY <1>0 DEF IInv, NothingBeforeServing, RequestsHoldTiles, RequestsHoldKeys, Serving
  <1>4. spent'.failures = spent.failures
    BY <1>0 DEF TypeOK, Pipeline, Merge, Evict, Readd, Restart, NewModel, Publish, Prune
  <1>5. ASSUME NEW w \in Workers PROVE ReloadStage(w)' /\ CachesCovered(w)'
    BY <1>0, <1>4 DEF IInv, ReloadStage, CachesCovered, Matches
  <1> QED BY <1>1, <1>2, <1>3, <1>5 DEF IInv

\* A crashed worker has nothing left.
LEMMA CrashStep == ASSUME IInv, NEW w \in Workers, Crash(w) PROVE IInv'
  <1>0. /\ TypeOK
        /\ UNCHANGED <<pipe, published, shared>>
        /\ worker' = [worker EXCEPT ![w] = Down]
        /\ geom' = [geom EXCEPT ![w] = None]
        /\ present' = [present EXCEPT ![w] = None]
        /\ flight' = [flight EXCEPT ![w] = None]
        /\ req' = [r \in Requests |-> IF req[r].by = w THEN NoRequest ELSE req[r]]
    BY DEF IInv, Crash
  <1>1. Down \in WorkerState /\ NoRequest \in RequestState
    BY BoundsAssumption
    DEF Down, NoRequest, WorkerState, RequestState, Steps, Stages, Contents, Models
  <1>2. TypeOK'
    BY <1>0, <1>1, BoundsAssumption DEF TypeOK, CacheTypes, Crash
  <1>3. worker'[w] = Down /\ \A v \in Workers \ {w} : worker'[v] = worker[v]
    BY <1>0 DEF TypeOK
  <1>4. PayloadsAgree'
    BY <1>0, <1>3 DEF IInv, PayloadsAgree, FramePresent, Down
  <1>5. NothingBeforeServing' /\ RequestsHoldTiles' /\ RequestsHoldKeys'
    <2>1. \A v \in Workers : ~Serving(v)' =>
             geom'[v] = None /\ present'[v] = None /\ flight'[v] = None
      BY <1>0, <1>3 DEF IInv, NothingBeforeServing, Serving, TypeOK, CacheTypes
    <2>2. ASSUME NEW r \in Requests
          PROVE  req'[r] = NoRequest \/ (req'[r] = req[r] /\ req[r].by # w)
      BY <1>0
    <2> QED
      BY <2>1, <2>2, <1>3
      DEF IInv, NothingBeforeServing, Serving, RequestsHoldTiles, RequestsHoldKeys, NoRequest
  <1>6. ASSUME NEW v \in Workers PROVE ReloadStage(v)' /\ CachesCovered(v)'
    <2>1. CASE v = w
      BY <1>0, <1>3, <2>1 DEF ReloadStage, CachesCovered, Down, TypeOK, CacheTypes
    <2>2. CASE v # w
      <3>1. worker'[v] = worker[v] /\ geom'[v] = geom[v] /\ present'[v] = present[v]
        BY <1>0, <1>3, <2>2 DEF TypeOK, CacheTypes
      <3>2. spent'.failures = spent.failures
        BY <1>0 DEF TypeOK, Crash
      <3> QED BY <3>1, <3>2 DEF IInv, ReloadStage, CachesCovered, Matches
    <2> QED BY <2>1, <2>2
  <1> QED BY <1>2, <1>4, <1>5, <1>6 DEF IInv

\* The boot fills the stores of a worker that has cached nothing.
LEMMA BootStep == ASSUME IInv, NEW w \in Workers, Boot(w) \/ Seed(w) PROVE IInv'
  <1>0. TypeOK /\ CacheTypes /\ UNCHANGED <<pipe, published, cacheVars, spent>>
    BY DEF IInv, TypeOK, Boot, Seed
  <1>1. /\ ~Serving(w)
        /\ geom[w] = None /\ present[w] = None
    BY DEF IInv, NothingBeforeServing, Serving, Boot, Seed
  <1>2. CASE Boot(w)
    <2> DEFINE m == [Down EXCEPT !.step = "booted", !.frame = published.content,
                        !.version = published.version, !.model = published.model,
                        !.last = published]
    <2>1. /\ m \in WorkerState
          /\ m.step = "booted" /\ m.last = published /\ m.loaded = None
          /\ m.version = published.version /\ m.frame = published.content
          /\ m.model = published.model
      BY <1>0, BoundsAssumption DEF Down, WorkerState, Steps, TypeOK, Payload, Contents, Models
    <2>2. worker' = [worker EXCEPT ![w] = m] /\ worker'[w] = m
      BY <1>0, <1>2 DEF Boot, TypeOK
    <2> HIDE DEF m
    <2>3. ReloadStage(w)' /\ CachesCovered(w)'
      <3>1. published # None /\ (published.content = None <=> published.version = 0)
        BY NoneAssumption DEF IInv, PayloadsAgree, FramePresent, TypeOK
      <3>2. ReloadStage(w)'
        BY <2>1, <2>2, <3>1 DEF ReloadStage
      <3>3. CachesCovered(w)'
        BY <1>0, <1>1 DEF CachesCovered, cacheVars
      <3> QED BY <3>2, <3>3
    <2>4. FramePresent(m.last)
      BY <2>1 DEF IInv, PayloadsAgree
    <2> QED BY <1>0, <1>1, <2>1, <2>2, <2>3, <2>4, WorkerStep DEF cacheVars, CacheTypes
  <1>3. CASE Seed(w)
    <2> DEFINE m == [worker[w] EXCEPT !.step = "idle", !.mtime = published.mtime]
    <2>1. /\ m \in WorkerState
          /\ m.step = "idle" /\ m.last = worker[w].last /\ m.loaded = worker[w].loaded
          /\ m.version = worker[w].version /\ m.frame = worker[w].frame
          /\ m.model = worker[w].model
      BY <1>0 DEF WorkerState, Steps, TypeOK, Payload
    <2>2. worker' = [worker EXCEPT ![w] = m] /\ worker'[w] = m
      BY <1>0, <1>3 DEF Seed, TypeOK, WorkerState
    <2> HIDE DEF m
    <2>3. ReloadStage(w)' /\ CachesCovered(w)'
      BY <1>0, <1>1, <1>3, <2>1, <2>2
      DEF ReloadStage, CachesCovered, IInv, cacheVars, Seed
    <2>4. /\ m.last # None => FramePresent(m.last)
          /\ m.loaded # None => FramePresent(m.loaded)
      <3>1. /\ worker[w].last # None => FramePresent(worker[w].last)
            /\ worker[w].loaded # None => FramePresent(worker[w].loaded)
        BY DEF IInv, PayloadsAgree
      <3> QED BY <2>1, <3>1
    <2> QED BY <1>0, <1>1, <2>1, <2>2, <2>3, <2>4, WorkerStep DEF cacheVars, CacheTypes
  <1> QED BY <1>2, <1>3

\* A step that changes the record of worker w and nothing else.
LEMMA ReloadOnly ==
  ASSUME IInv, NEW w \in Workers, Serving(w), NEW m \in WorkerState,
         worker' = [worker EXCEPT ![w] = m],
         UNCHANGED <<pipe, published, cacheVars, spent>>,
         m.last = worker[w].last, m.loaded # None => FramePresent(m.loaded),
         m.step \notin {"down", "booted"},
         ReloadStage(w)', CachesCovered(w)'
  PROVE  IInv'
  <1>1. /\ CacheTypes' /\ UNCHANGED <<geom, present, flight, req>>
        /\ m.last # None => FramePresent(m.last)
    BY DEF IInv, TypeOK, CacheTypes, cacheVars, PayloadsAgree
  <1> QED BY <1>1, WorkerStep

\* The poll takes the mtime.
LEMMA PollStep == ASSUME IInv, NEW w \in Workers, Poll(w) PROVE IInv'
  <1> DEFINE m == [worker[w] EXCEPT !.step = "load", !.polled = published.mtime]
  <1>0. TypeOK /\ ReloadStage(w) /\ CachesCovered(w) /\ worker[w] \in WorkerState
    BY DEF IInv, TypeOK
  <1>1. /\ m \in WorkerState
        /\ m.step = "load" /\ m.last = worker[w].last /\ m.loaded = worker[w].loaded
        /\ m.version = worker[w].version /\ m.frame = worker[w].frame
        /\ m.model = worker[w].model
    BY <1>0 DEF WorkerState, Steps, TypeOK, Payload
  <1>2. worker' = [worker EXCEPT ![w] = m] /\ worker'[w] = m
    BY <1>0 DEF Poll, TypeOK, WorkerState
  <1> HIDE DEF m
  <1>3. ReloadStage(w)'
    BY <1>0, <1>1, <1>2 DEF ReloadStage, Poll
  <1>4. CachesCovered(w)'
    BY <1>0, <1>1, <1>2 DEF CachesCovered, Poll, cacheVars, Matches
  <1>5. Serving(w) /\ (m.loaded # None => FramePresent(m.loaded))
    BY <1>1 DEF Serving, Poll, IInv, PayloadsAgree
  <1> QED BY <1>1, <1>2, <1>3, <1>4, <1>5, ReloadOnly DEF Poll

\* The frame store reloads: what it keeps open is what the caches show, and
\* what it opens makes the diff empty them.
LEMMA ApplyFrameStep == ASSUME IInv, NEW w \in Workers, ApplyFrame(w) PROVE IInv'
  <1> DEFINE reuse == worker[w].frame # None /\ worker[w].version = published.version
             frame == IF reuse THEN worker[w].frame ELSE published.content
             m == SwapFrame(w, frame)
  <1>0. TypeOK /\ ReloadStage(w) /\ CachesCovered(w) /\ worker[w] \in WorkerState
    BY DEF IInv, TypeOK
  <1>1. frame \in Contents /\ published \in Payload
    BY <1>0 DEF TypeOK, Payload, WorkerState
  <1>2. /\ m \in WorkerState
        /\ m.step = "version" /\ m.last = worker[w].last /\ m.loaded = published
        /\ m.version = worker[w].version /\ m.frame = frame
        /\ m.model = worker[w].model
    <2> HIDE DEF frame
    <2> QED BY <1>0, <1>1 DEF SwapFrame, Loaded, WorkerState, Steps
  <1>3. worker' = [worker EXCEPT ![w] = m] /\ worker'[w] = m
    BY <1>0 DEF ApplyFrame, TypeOK
  <1> HIDE DEF m
  <1>4. published # None /\ FramePresent(published)
    BY <1>1, NoneAssumption DEF IInv, PayloadsAgree
  <1>5. ReloadStage(w)'
    BY <1>0, <1>2, <1>3, <1>4 DEF ReloadStage, ApplyFrame, FramePresent
  <1>6. CachesCovered(w)'
    <2> SUFFICES ASSUME spent.failures = 0 PROVE CachesCovered(w)'
      BY DEF CachesCovered, ApplyFrame
    <2>1. \A tile \in {geom[w], present[w]} \ {None} : tile.late \/ Matches(tile, w)
      BY <1>0 DEF CachesCovered, ApplyFrame
    <2>2. CASE worker[w].version # 0 /\ worker[w].version # published.version
      BY <1>0, <1>2, <1>3, <2>2
      DEF ReloadStage, ApplyFrame, CachesCovered, Invalidates, FrameChanged
    <2>3. CASE worker[w].version # 0 /\ worker[w].version = published.version
      <3>1. m.frame = worker[w].frame
        BY <1>0, <1>2, <2>3 DEF ReloadStage, ApplyFrame
      <3> QED BY <1>2, <1>3, <2>1, <3>1 DEF CachesCovered, Matches, ApplyFrame, cacheVars
    <2>4. CASE worker[w].version = 0
      <3>1. worker[w].frame = None
        BY <1>0, <2>4 DEF ReloadStage, ApplyFrame
      <3>2. \A tile \in {geom[w], present[w]} \ {None} : tile.late
        BY <1>0, <2>1, <3>1, BoundsAssumption DEF Matches, TypeOK, CacheTypes, Tile
      <3> QED BY <3>2 DEF CachesCovered, ApplyFrame, cacheVars
    <2> QED BY <2>2, <2>3, <2>4
  <1>7. Serving(w) /\ UNCHANGED <<pipe, published, cacheVars, spent>>
    BY DEF Serving, ApplyFrame
  <1> HIDE DEF frame, reuse
  <1> QED BY <1>2, <1>3, <1>4, <1>5, <1>6, <1>7, ReloadOnly

\* The versions follow, then the models: the diff sees both.
LEMMA ApplyVersionStep == ASSUME IInv, NEW w \in Workers, ApplyVersion(w) PROVE IInv'
  <1> DEFINE m == [worker[w] EXCEPT !.step = "model", !.version = worker[w].loaded.version]
  <1>0. TypeOK /\ ReloadStage(w) /\ CachesCovered(w) /\ worker[w] \in WorkerState
    BY DEF IInv, TypeOK
  <1>1. worker[w].loaded \in Payload /\ FramePresent(worker[w].loaded)
    BY <1>0 DEF ApplyVersion, ReloadStage, WorkerState, IInv, PayloadsAgree
  <1>2. /\ m \in WorkerState
        /\ m.step = "model" /\ m.last = worker[w].last /\ m.loaded = worker[w].loaded
        /\ m.version = worker[w].loaded.version /\ m.frame = worker[w].frame
        /\ m.model = worker[w].model
    BY <1>0, <1>1 DEF WorkerState, Steps, Payload
  <1>3. worker' = [worker EXCEPT ![w] = m] /\ worker'[w] = m
    BY <1>0 DEF ApplyVersion, TypeOK, WorkerState
  <1> HIDE DEF m
  <1>4. ReloadStage(w)'
    BY <1>0, <1>2, <1>3 DEF ReloadStage, ApplyVersion
  <1>5. CachesCovered(w)'
    BY <1>0, <1>2, <1>3 DEF CachesCovered, ApplyVersion, cacheVars, Matches
  <1>6. Serving(w) /\ UNCHANGED <<pipe, published, cacheVars, spent>>
    BY DEF Serving, ApplyVersion
  <1> QED BY <1>1, <1>2, <1>3, <1>4, <1>5, <1>6, ReloadOnly

\* The models follow: the diff sees the signature they left.
LEMMA ApplyModelStep == ASSUME IInv, NEW w \in Workers, ApplyModel(w) PROVE IInv'
  <1> DEFINE m == [worker[w] EXCEPT !.step = "invalidate", !.model = worker[w].loaded.model]
  <1>0. TypeOK /\ ReloadStage(w) /\ CachesCovered(w) /\ worker[w] \in WorkerState
    BY DEF IInv, TypeOK
  <1>1. worker[w].loaded \in Payload /\ FramePresent(worker[w].loaded)
    BY <1>0 DEF ApplyModel, ReloadStage, WorkerState, IInv, PayloadsAgree
  <1>2. /\ m \in WorkerState
        /\ m.step = "invalidate" /\ m.last = worker[w].last /\ m.loaded = worker[w].loaded
        /\ m.version = worker[w].version /\ m.frame = worker[w].frame
        /\ m.model = worker[w].loaded.model
    BY <1>0, <1>1 DEF WorkerState, Steps, Payload
  <1>3. worker' = [worker EXCEPT ![w] = m] /\ worker'[w] = m
    BY <1>0 DEF ApplyModel, TypeOK, WorkerState
  <1> HIDE DEF m
  <1>4. ReloadStage(w)'
    BY <1>0, <1>2, <1>3 DEF ReloadStage, ApplyModel
  <1>5. CachesCovered(w)'
    <2> SUFFICES ASSUME spent.failures = 0 PROVE CachesCovered(w)'
      BY DEF CachesCovered, ApplyModel
    <2>1. CASE Invalidates(worker[w].last, worker[w].loaded)
      BY <1>2, <1>3, <2>1 DEF CachesCovered
    <2>2. CASE ~Invalidates(worker[w].last, worker[w].loaded)
      <3>1. m.model = worker[w].model
        BY <1>0, <1>2, <2>2 DEF ReloadStage, ApplyModel, Invalidates, ModelChanged
      <3> QED
        BY <1>0, <1>2, <1>3, <2>2, <3>1 DEF CachesCovered, ApplyModel, cacheVars, Matches
    <2> QED BY <2>1, <2>2
  <1>6. Serving(w) /\ UNCHANGED <<pipe, published, cacheVars, spent>>
    BY DEF Serving, ApplyModel
  <1> QED BY <1>1, <1>2, <1>3, <1>4, <1>5, <1>6, ReloadOnly

\* After the invalidation nothing in the caches differs from the stores.
LEMMA InvalidateStep == ASSUME IInv, NEW w \in Workers, Invalidate(w) PROVE IInv'
  <1> DEFINE m == [worker[w] EXCEPT !.step = "maintain", !.mtime = KeptMtime(w)]
  <1>0. /\ TypeOK /\ CacheTypes /\ ReloadStage(w) /\ CachesCovered(w)
        /\ worker[w] \in WorkerState
    BY DEF IInv, TypeOK
  <1>1. /\ m \in WorkerState
        /\ m.step = "maintain" /\ m.last = worker[w].last /\ m.loaded = worker[w].loaded
        /\ m.version = worker[w].version /\ m.frame = worker[w].frame
        /\ m.model = worker[w].model
    BY <1>0 DEF WorkerState, Steps, KeptMtime
  <1>2. worker' = [worker EXCEPT ![w] = m] /\ worker'[w] = m
    BY <1>0 DEF Invalidate, TypeOK, WorkerState
  <1> HIDE DEF m
  <1>3. ReloadStage(w)'
    BY <1>0, <1>1, <1>2 DEF ReloadStage, Invalidate
  <1>4. /\ \A v \in Workers \ {w} : geom'[v] = geom[v] /\ present'[v] = present[v]
        /\ geom'[w] \in {geom[w], None} /\ present'[w] \in {present[w], None}
        /\ UNCHANGED <<pipe, published, flight, req, spent>>
        /\ CacheTypes'
    BY <1>0 DEF Invalidate, CacheTypes
  <1>5. CachesCovered(w)'
    <2>1. CASE Invalidates(worker[w].last, worker[w].loaded)
      BY <1>0, <2>1 DEF Invalidate, CachesCovered, CacheTypes
    <2>2. CASE ~Invalidates(worker[w].last, worker[w].loaded)
      BY <1>0, <1>1, <1>2, <2>2 DEF Invalidate, CachesCovered, Matches
    <2> QED BY <2>1, <2>2
  <1>6. /\ Serving(w)
        /\ m.last # None => FramePresent(m.last)
        /\ m.loaded # None => FramePresent(m.loaded)
    BY <1>1 DEF Serving, Invalidate, IInv, PayloadsAgree
  <1> QED BY <1>1, <1>2, <1>3, <1>4, <1>5, <1>6, WorkerStep

\* The shared store is swept and the reload is over.
LEMMA MaintainStep == ASSUME IInv, NEW w \in Workers, Maintain(w) PROVE IInv'
  <1> DEFINE m == [worker[w] EXCEPT !.step = "idle", !.last = worker[w].loaded,
                                   !.loaded = None, !.polled = 0]
  <1>0. /\ TypeOK /\ CacheTypes /\ ReloadStage(w) /\ CachesCovered(w)
        /\ worker[w] \in WorkerState
    BY DEF IInv, TypeOK
  <1>1. /\ m \in WorkerState
        /\ m.step = "idle" /\ m.last = worker[w].loaded /\ m.loaded = None
        /\ m.version = worker[w].version /\ m.frame = worker[w].frame
        /\ m.model = worker[w].model
    BY <1>0 DEF WorkerState, Steps
  <1>2. worker' = [worker EXCEPT ![w] = m] /\ worker'[w] = m
    BY <1>0 DEF Maintain, TypeOK, WorkerState
  <1> HIDE DEF m
  <1>3. ReloadStage(w)'
    BY <1>0, <1>1, <1>2 DEF ReloadStage, Maintain
  <1>4. UNCHANGED <<pipe, published, geom, present, flight, req, spent>> /\ CacheTypes'
    BY <1>0 DEF Maintain, CacheTypes
  <1>5. CachesCovered(w)'
    BY <1>0, <1>1, <1>2 DEF Maintain, CachesCovered, Matches
  <1>6. /\ Serving(w)
        /\ m.last # None => FramePresent(m.last)
        /\ m.loaded # None => FramePresent(m.loaded)
    BY <1>1 DEF Serving, Maintain, IInv, PayloadsAgree
  <1> QED BY <1>1, <1>2, <1>3, <1>4, <1>5, <1>6, WorkerStep

\* A tile on its way into a cache matches the stores or is marked late.
LEMMA ArrivingTile ==
  ASSUME NEW w \in Workers, NEW b \in Tile
  PROVE  /\ Arriving(w, b) \in Tile
         /\ Arriving(w, b).late \/ Matches(Arriving(w, b), w)
  BY DEF Arriving, Tile, Matches

\* The steps of a request or a render that fill no cache.
LEMMA QuietRequestStep ==
  ASSUME IInv, NEW r \in Requests,
         \/ \E w \in Workers : Begin(r, w)
         \/ ReadShared(r) \/ Render(r) \/ Present(r) \/ Land(r)
  PROVE  IInv'
  <1>0. /\ TypeOK /\ CacheTypes /\ NothingBeforeServing
        /\ RequestsHoldTiles /\ RequestsHoldKeys
        /\ req[r] \in RequestState
        /\ UNCHANGED <<pipe, published, worker, geom, present, spent>>
    BY DEF IInv, TypeOK, CacheTypes, Begin, ReadShared, Render, Present, Land
  <1>1. NoRequest \in RequestState
    BY BoundsAssumption DEF NoRequest, RequestState, Stages
  <1>2. PICK q \in RequestState :
           /\ req' = [req EXCEPT ![r] = q]
           /\ q.stage # "idle" => q.by \in Workers /\ Serving(q.by)
           /\ q.stage \in {"hit", "present", "encode", "publish"} => q.tile # None
           /\ q.stage \in {"lookup", "publish"} => q.key # 0
    <2>1. ASSUME NEW w \in Workers, Begin(r, w)
          PROVE  \E q \in RequestState :
                   /\ req' = [req EXCEPT ![r] = q]
                   /\ q.stage # "idle" => q.by \in Workers /\ Serving(q.by)
                   /\ q.stage \in {"hit", "present", "encode", "publish"} => q.tile # None
                   /\ q.stage \in {"lookup", "publish"} => q.key # 0
      <3> DEFINE q == [stage |-> IF worker[w].version = 0 THEN "render" ELSE "lookup",
                       by |-> w, key |-> worker[w].version, tile |-> geom[w]]
      <3>1. worker[w] \in WorkerState /\ geom[w] \in Tile \cup {None}
        BY <1>0 DEF TypeOK, CacheTypes
      <3>2. q \in RequestState
        BY <3>1 DEF RequestState, Stages, WorkerState
      <3> QED BY <2>1, <3>2 DEF Begin
    <2>2. CASE ReadShared(r)
      <3>1. req[r].key \in Versions
        BY <1>0, <2>2 DEF ReadShared, RequestsHoldKeys, RequestState
      <3>2. shared[req[r].key] \in Tile \cup {None}
        BY <1>0, <3>1 DEF CacheTypes
      <3>3. CASE shared[req[r].key] = None
        <4> DEFINE q == [req[r] EXCEPT !.stage = "render"]
        <4>1. q \in RequestState /\ q.stage = "render" /\ q.by = req[r].by
          BY <1>0 DEF RequestState, Stages
        <4>2. req' = [req EXCEPT ![r] = q]
          BY <2>2, <3>3 DEF ReadShared
        <4> HIDE DEF q
        <4> QED BY <1>0, <2>2, <4>1, <4>2 DEF ReadShared, NothingBeforeServing
      <3>4. CASE shared[req[r].key] # None
        <4> DEFINE q == [req[r] EXCEPT !.stage = "hit", !.tile = shared[req[r].key]]
        <4>1. /\ q \in RequestState /\ q.stage = "hit" /\ q.by = req[r].by
              /\ q.tile = shared[req[r].key]
          BY <1>0, <3>2 DEF RequestState, Stages
        <4>2. req' = [req EXCEPT ![r] = q]
          BY <2>2, <3>4 DEF ReadShared
        <4> HIDE DEF q
        <4> QED BY <1>0, <2>2, <3>4, <4>1, <4>2 DEF ReadShared, NothingBeforeServing
      <3> QED BY <3>3, <3>4
    <2>3. CASE Render(r) \/ Present(r)
      <3>1. /\ req[r].stage # "idle" /\ req[r].by \in Workers /\ Serving(req[r].by)
            /\ req[r].stage = "present" => req[r].tile # None
        BY <1>0, <2>3 DEF Render, Present, NothingBeforeServing, RequestsHoldTiles
      <3>2. ASSUME NEW t \in {"present", "wait", "encode"}
            PROVE  /\ [req[r] EXCEPT !.stage = t] \in RequestState
                   /\ [req[r] EXCEPT !.stage = t].stage = t
                   /\ [req[r] EXCEPT !.stage = t].by = req[r].by
                   /\ [req[r] EXCEPT !.stage = t].tile = req[r].tile
        BY <1>0 DEF RequestState, Stages
      <3>3. \/ req' = [req EXCEPT ![r] = NoRequest]
            \/ \E t \in {"present", "wait", "encode"} :
                 /\ req' = [req EXCEPT ![r] = [req[r] EXCEPT !.stage = t]]
                 /\ t \in {"present", "encode"} => req[r].tile # None
        BY <3>1, <2>3, <1>0 DEF Render, Present, CacheTypes
      <3> QED BY <1>1, <3>1, <3>2, <3>3 DEF NoRequest
    <2>4. CASE Land(r)
      BY <1>1, <2>4 DEF Land, NoRequest
    <2> QED BY <2>1, <2>2, <2>3, <2>4
  <1>3. /\ req'[r] = q
        /\ \A o \in Requests \ {r} : req'[o] = req[o]
        /\ req' \in [Requests -> RequestState]
    BY <1>0, <1>2 DEF CacheTypes
  <1>4. /\ flight' \in [Workers -> FlightState \cup {None}]
        /\ \A v \in Workers : flight'[v] \in {flight[v], None} \/ Serving(v)
    <2>1. CASE Render(r)
      <3>1. /\ req[r].by \in Workers /\ Serving(req[r].by)
            /\ worker[req[r].by] \in WorkerState
        BY <1>0, <2>1 DEF Render, NothingBeforeServing, TypeOK
      <3>2. \/ flight' = flight
            \/ /\ worker[req[r].by].frame # None
               /\ flight' = [flight EXCEPT ![req[r].by] =
                               [content |-> worker[req[r].by].frame, model |-> 0]]
        BY <2>1 DEF Render
      <3>3. worker[req[r].by].frame # None =>
               [content |-> worker[req[r].by].frame, model |-> 0] \in FlightState
        BY <3>1 DEF FlightState, WorkerState, Contents, Versions
      <3> QED BY <1>0, <3>1, <3>2, <3>3 DEF CacheTypes
    <2>2. CASE flight' = flight
      BY <1>0, <2>2 DEF CacheTypes
    <2> QED BY <2>1, <2>2 DEF Begin, ReadShared, Present, Land
  <1>5. shared' \in [Versions -> Tile \cup {None}]
    <2>1. CASE Land(r)
      BY <1>0, <2>1 DEF Land, CacheTypes, RequestState
    <2>2. CASE shared' = shared
      BY <1>0, <2>2 DEF CacheTypes
    <2> QED BY <2>1, <2>2 DEF Begin, ReadShared, Render, Present
  <1>6. CacheTypes'
    BY <1>0, <1>3, <1>4, <1>5 DEF CacheTypes
  <1>7. /\ \A o \in Requests : req'[o].stage # "idle" =>
              req'[o].by \in Workers /\ Serving(req'[o].by)
        /\ RequestsHoldTiles' /\ RequestsHoldKeys'
    BY <1>0, <1>2, <1>3 DEF NothingBeforeServing, RequestsHoldTiles, RequestsHoldKeys
  <1> QED BY <1>0, <1>4, <1>6, <1>7, CacheStep

\* A hit primes the present cache.
LEMMA ServeHitStep == ASSUME IInv, NEW r \in Requests, ServeHit(r) PROVE IInv'
  <1> DEFINE w == req[r].by
             b == Arriving(w, req[r].tile)
  <1>0. /\ TypeOK /\ CacheTypes /\ NothingBeforeServing
        /\ RequestsHoldTiles /\ RequestsHoldKeys
        /\ UNCHANGED <<pipe, published, worker, geom, flight, shared, spent>>
        /\ present' = [present EXCEPT ![w] = b]
        /\ req' = [req EXCEPT ![r] = NoRequest]
    BY DEF IInv, TypeOK, ServeHit
  <1>1. w \in Workers /\ Serving(w) /\ req[r].tile \in Tile
    BY <1>0 DEF ServeHit, NothingBeforeServing, RequestsHoldTiles, CacheTypes, RequestState
  <1>2. b \in Tile /\ (b.late \/ Matches(b, w))
    BY <1>1, ArrivingTile
  <1> HIDE DEF w, b
  <1>3. NoRequest \in RequestState /\ NoRequest.stage = "idle"
    BY BoundsAssumption DEF NoRequest, RequestState, Stages
  <1>4. CacheTypes' /\ present'[w] = b /\ \A v \in Workers \ {w} : present'[v] = present[v]
    BY <1>0, <1>1, <1>2, <1>3 DEF CacheTypes
  <1>5. req'[r] = NoRequest /\ \A o \in Requests \ {r} : req'[o] = req[o]
    BY <1>0 DEF CacheTypes
  <1>6. /\ \A o \in Requests : req'[o].stage # "idle" =>
              req'[o].by \in Workers /\ Serving(req'[o].by)
        /\ RequestsHoldTiles' /\ RequestsHoldKeys'
    BY <1>0, <1>3, <1>5 DEF NothingBeforeServing, RequestsHoldTiles, RequestsHoldKeys
  <1> QED BY <1>0, <1>1, <1>2, <1>4, <1>6, CacheStep

\* The encoded bytes are cached; the request leaves, or publishes them.
LEMMA EncodedStep == ASSUME IInv, NEW r \in Requests, Encoded(r) PROVE IInv'
  <1> DEFINE w == req[r].by
             b == Arriving(w, req[r].tile)
             q == [req[r] EXCEPT !.stage = "publish", !.key = worker[w].version, !.tile = b]
  <1>0. /\ TypeOK /\ CacheTypes /\ NothingBeforeServing
        /\ RequestsHoldTiles /\ RequestsHoldKeys
        /\ UNCHANGED <<pipe, published, worker, geom, flight, shared, spent>>
        /\ present' = [present EXCEPT ![w] = b]
        /\ req' = [req EXCEPT ![r] = IF worker[w].version = 0 THEN NoRequest ELSE q]
    BY DEF IInv, TypeOK, Encoded
  <1>1. /\ w \in Workers /\ Serving(w) /\ req[r].tile \in Tile
        /\ req[r] \in RequestState /\ worker[w] \in WorkerState
    BY <1>0
    DEF Encoded, NothingBeforeServing, RequestsHoldTiles, CacheTypes, RequestState, TypeOK
  <1>2. b \in Tile /\ (b.late \/ Matches(b, w))
    BY <1>1, ArrivingTile
  <1>a. b # None
    BY <1>2, NoneAssumption
  <1>3. NoRequest \in RequestState /\ NoRequest.stage = "idle"
    BY BoundsAssumption DEF NoRequest, RequestState, Stages
  <1>b. worker[w].version \in Versions \cup {0}
    BY <1>1 DEF WorkerState
  <1>4. /\ q \in RequestState /\ q.stage = "publish" /\ q.by = w /\ q.tile = b
        /\ q.key = worker[w].version
    <2> HIDE DEF b
    <2> QED BY <1>1, <1>2, <1>b DEF RequestState, Stages
  <1> HIDE DEF w, b, q
  <1>5. CacheTypes' /\ present'[w] = b /\ \A v \in Workers \ {w} : present'[v] = present[v]
    BY <1>0, <1>1, <1>2, <1>3, <1>4 DEF CacheTypes
  <1>6. /\ req'[r] = NoRequest \/ (req'[r] = q /\ worker[w].version # 0)
        /\ \A o \in Requests \ {r} : req'[o] = req[o]
    BY <1>0 DEF CacheTypes
  <1>7. /\ \A o \in Requests : req'[o].stage # "idle" =>
              req'[o].by \in Workers /\ Serving(req'[o].by)
        /\ RequestsHoldTiles' /\ RequestsHoldKeys'
    BY <1>0, <1>1, <1>a, <1>3, <1>4, <1>6
    DEF NothingBeforeServing, RequestsHoldTiles, RequestsHoldKeys
  <1> QED BY <1>0, <1>1, <1>2, <1>5, <1>7, CacheStep

\* The compute thread reads the model its worker has.
LEMMA SampleStep == ASSUME IInv, NEW w \in Workers, Sample(w) PROVE IInv'
  <1>0. /\ TypeOK /\ CacheTypes /\ NothingBeforeServing
        /\ RequestsHoldTiles /\ RequestsHoldKeys
        /\ UNCHANGED <<pipe, published, worker, geom, present, req, shared, spent>>
        /\ flight[w] # None
    BY DEF IInv, TypeOK, Sample
  <1>1. Serving(w) /\ flight[w] \in FlightState /\ worker[w].model \in Models
    BY <1>0 DEF NothingBeforeServing, CacheTypes, TypeOK, WorkerState
  <1>2. [flight[w] EXCEPT !.model = worker[w].model] \in FlightState
    BY <1>1 DEF FlightState
  <1>3. flight' = [flight EXCEPT ![w] = [flight[w] EXCEPT !.model = worker[w].model]]
    BY DEF Sample
  <1>4. CacheTypes' /\ \A v \in Workers : flight'[v] \in {flight[v], None} \/ Serving(v)
    BY <1>0, <1>1, <1>2, <1>3 DEF CacheTypes
  <1>5. /\ \A o \in Requests : req'[o].stage # "idle" =>
              req'[o].by \in Workers /\ Serving(req'[o].by)
        /\ RequestsHoldTiles' /\ RequestsHoldKeys'
    BY <1>0 DEF NothingBeforeServing, RequestsHoldTiles, RequestsHoldKeys
  <1> QED BY <1>0, <1>4, <1>5, CacheStep

\* Those that wait for a render go on together with what it made, or without.
LEMMA OutcomeStep ==
  ASSUME IInv, NEW w \in Workers, Computed(w) \/ ComputeFails(w) PROVE IInv'
  <1>0. /\ TypeOK /\ CacheTypes /\ NothingBeforeServing
        /\ RequestsHoldTiles /\ RequestsHoldKeys
        /\ UNCHANGED <<pipe, published, worker, present, shared, spent>>
        /\ flight' = [flight EXCEPT ![w] = None]
        /\ flight[w] # None
    BY DEF IInv, TypeOK, Computed, ComputeFails
  <1>1. Serving(w) /\ flight[w] \in FlightState
    BY <1>0 DEF NothingBeforeServing, CacheTypes
  <1>2. NoRequest \in RequestState /\ NoRequest.stage = "idle"
    BY BoundsAssumption DEF NoRequest, RequestState, Stages
  <1>3. flight' \in [Workers -> FlightState \cup {None}]
        /\ \A v \in Workers : flight'[v] \in {flight[v], None}
    BY <1>0 DEF CacheTypes
  <1>4. CASE Computed(w)
    <2> DEFINE a == [content |-> flight[w].content, model |-> flight[w].model,
                     late |-> FALSE]
               b == Arriving(w, a)
    <2>1. a \in Tile
      BY <1>1, <1>4 DEF Computed, FlightState, Tile, Versions
    <2>2. b \in Tile /\ (b.late \/ Matches(b, w))
      BY <2>1, ArrivingTile
    <2>3. b # None
      BY <2>2, NoneAssumption
    <2>4. /\ geom' = [geom EXCEPT ![w] = b]
          /\ req' = [r \in Requests |->
                 IF r \in Waiting(w)
                 THEN [req[r] EXCEPT !.stage = "present", !.tile = b]
                 ELSE req[r]]
      BY <1>4 DEF Computed
    <2> HIDE DEF a, b
    <2>5. ASSUME NEW r \in Requests
          PROVE  /\ req'[r] \in RequestState
                 /\ \/ req'[r] = req[r]
                    \/ /\ req'[r].stage = "present" /\ req'[r].tile = b
                       /\ req'[r].by = w
      <3>1. req[r] \in RequestState
        BY <1>0 DEF CacheTypes
      <3> QED BY <3>1, <2>2, <2>4 DEF RequestState, Stages, Waiting, Waiters
    <2>6. req' \in [Requests -> RequestState]
      BY <2>4, <2>5
    <2>7. /\ geom' \in [Workers -> Tile \cup {None}]
          /\ geom'[w] = b /\ \A v \in Workers \ {w} : geom'[v] = geom[v]
      BY <1>0, <2>2, <2>4 DEF CacheTypes
    <2>8. CacheTypes'
      BY <1>0, <1>3, <2>6, <2>7 DEF CacheTypes
    <2>9. /\ \A o \in Requests : req'[o].stage # "idle" =>
                req'[o].by \in Workers /\ Serving(req'[o].by)
          /\ RequestsHoldTiles' /\ RequestsHoldKeys'
      BY <1>0, <1>1, <2>3, <2>5
      DEF NothingBeforeServing, RequestsHoldTiles, RequestsHoldKeys
    <2> QED BY <1>0, <1>1, <1>3, <2>2, <2>7, <2>8, <2>9, CacheStep
  <1>5. CASE ComputeFails(w)
    <2>1. /\ UNCHANGED geom
          /\ req' = [r \in Requests |->
                 IF r \in Waiting(w) THEN NoRequest ELSE req[r]]
      BY <1>5 DEF ComputeFails
    <2>2. CacheTypes'
      BY <1>0, <1>2, <1>3, <2>1 DEF CacheTypes
    <2>3. \A r \in Requests : req'[r] \in {NoRequest, req[r]}
      BY <2>1
    <2>4. /\ \A o \in Requests : req'[o].stage # "idle" =>
                req'[o].by \in Workers /\ Serving(req'[o].by)
          /\ RequestsHoldTiles' /\ RequestsHoldKeys'
      BY <1>0, <1>2, <2>3
      DEF NothingBeforeServing, RequestsHoldTiles, RequestsHoldKeys, NoRequest
    <2> QED BY <1>0, <1>3, <2>1, <2>2, <2>4, CacheStep
  <1> QED BY <1>4, <1>5

\* Memory pressure only empties caches.
LEMMA PressureStep == ASSUME IInv, NEW w \in Workers, Pressure(w) PROVE IInv'
  <1>0. /\ TypeOK /\ CacheTypes /\ NothingBeforeServing
        /\ RequestsHoldTiles /\ RequestsHoldKeys
        /\ UNCHANGED <<pipe, published, worker, flight, req, shared, spent>>
    BY DEF IInv, TypeOK, Pressure
  <1>1. /\ \A v \in Workers : geom'[v] \in {geom[v], None}
        /\ \A v \in Workers : present'[v] \in {present[v], None}
        /\ CacheTypes'
    BY <1>0 DEF Pressure, CacheTypes
  <1>2. /\ \A o \in Requests : req'[o].stage # "idle" =>
              req'[o].by \in Workers /\ Serving(req'[o].by)
        /\ RequestsHoldTiles' /\ RequestsHoldKeys'
    BY <1>0 DEF NothingBeforeServing, RequestsHoldTiles, RequestsHoldKeys
  <1> QED BY <1>0, <1>1, <1>2, CacheStep

\* A reload of the frame store that fails: what remains is what holds of any.
LEMMA FailedStep ==
  ASSUME IInv, NEW w \in Workers, ApplyFails(w) \/ FrameGone(w) PROVE IInv'
  <1>0. /\ TypeOK /\ ReloadStage(w) /\ worker[w] \in WorkerState /\ published \in Payload
        /\ worker[w].step = "load" /\ UNCHANGED <<pipe, published, cacheVars>>
        /\ spent.failures < MaxFailures /\ spent' = [spent EXCEPT !.failures = @ + 1]
    BY DEF IInv, TypeOK, ApplyFails, FrameGone
  <1>1. PICK frame \in Contents, version \in Versions \cup {0} :
           worker' = [worker EXCEPT ![w] = Loaded(w, frame, version, "model")]
    BY <1>0 DEF ApplyFails, FrameGone, WorkerState, Contents
  <1> DEFINE m == Loaded(w, frame, version, "model")
  <1>2. /\ m \in WorkerState
        /\ m.step = "model" /\ m.last = worker[w].last /\ m.loaded = published
    BY <1>0 DEF Loaded, WorkerState, Steps
  <1>3. /\ worker' \in [Workers -> WorkerState] /\ worker'[w] = m
        /\ \A v \in Workers \ {w} : worker'[v] = worker[v]
    <2>1. worker \in [Workers -> WorkerState] /\ worker' = [worker EXCEPT ![w] = m]
      BY <1>0, <1>1 DEF TypeOK
    <2> HIDE DEF m
    <2> QED BY <1>2, <2>1
  <1> HIDE DEF m
  <1>4. /\ spent' \in [resets : 0 .. MaxResets, boots : 0 .. MaxBoots, failures : 0 .. MaxFailures]
        /\ spent'.failures # 0
    BY <1>0, BoundsAssumption DEF TypeOK
  <1>5. TypeOK'
    BY <1>0, <1>3, <1>4 DEF TypeOK, CacheTypes, cacheVars
  <1>6. PayloadsAgree'
    BY <1>0, <1>2, <1>3 DEF IInv, PayloadsAgree, FramePresent
  <1>7. NothingBeforeServing' /\ RequestsHoldTiles' /\ RequestsHoldKeys'
    BY <1>0, <1>2, <1>3
    DEF IInv, NothingBeforeServing, Serving, RequestsHoldTiles, RequestsHoldKeys, cacheVars
  <1>8. ASSUME NEW v \in Workers PROVE ReloadStage(v)' /\ CachesCovered(v)'
    BY <1>0, <1>2, <1>3, <1>4, NoneAssumption
    DEF IInv, ReloadStage, CachesCovered
  <1> QED BY <1>5, <1>6, <1>7, <1>8 DEF IInv

\* Every step keeps the invariant.
LEMMA NextStep == ASSUME IInv, [Next]_vars PROVE IInv'
  <1>1. CASE UNCHANGED vars
    <2>1. UNCHANGED <<pipe, published, worker, geom, present, flight, req, shared, spent>>
      BY <1>1 DEF vars
    <2> QED
      BY <2>1
      DEF IInv, TypeOK, CacheTypes, PayloadsAgree, NothingBeforeServing, Serving,
          RequestsHoldTiles, RequestsHoldKeys, ReloadStage, CachesCovered, Matches
  <1>2. CASE Pipeline
    BY <1>2, PipelineStep
  <1>3. ASSUME NEW w \in Workers, Boot(w) \/ Seed(w) \/ Crash(w) PROVE IInv'
    BY <1>3, BootStep, CrashStep
  <1>4. ASSUME NEW w \in Workers, Reload(w) PROVE IInv'
    BY <1>4, PollStep, ApplyFrameStep, ApplyVersionStep, ApplyModelStep, InvalidateStep,
       MaintainStep DEF Reload
  <1>5. ASSUME NEW w \in Workers, ApplyFails(w) \/ FrameGone(w) PROVE IInv'
    BY <1>5, FailedStep
  <1>6. ASSUME NEW w \in Workers, Pressure(w) \/ Compute(w) \/ ComputeFails(w) PROVE IInv'
    BY <1>6, PressureStep, SampleStep, OutcomeStep DEF Compute
  <1>7. ASSUME NEW r \in Requests, (\E w \in Workers : Begin(r, w)) \/ Serve(r) PROVE IInv'
    BY <1>7, QuietRequestStep, ServeHitStep, EncodedStep DEF Serve
  <1> QED BY <1>1, <1>2, <1>3, <1>4, <1>5, <1>6, <1>7 DEF Next

\* The invariant: what the stores and the caches of a worker hold at every step
\* of the reload, for any number of workers and requests (main.py's poll loop
\* against api/routes.py's tile handlers).
THEOREM WorkerInvariance == Spec => []IInv
  <1>1. Init => IInv
    BY InitIInv
  <1>2. IInv /\ [Next]_vars => IInv'
    BY NextStep
  <1> QED BY <1>1, <1>2, PTL DEF Spec

\* Every variable keeps its type.
THEOREM WorkerTypes == Spec => []TypeOK
  <1>1. IInv => TypeOK
    BY DEF IInv
  <1> QED BY <1>1, WorkerInvariance, PTL

\* _compute_cache_invalidation forgets enough: between two reloads no worker has
\* a geometry or a tile cached that was right when it was cached and is not now,
\* even when the version of the frame restarts.
THEOREM CachesSafe == Spec => []CachesFollowStores
  <1>1. IInv => CachesFollowStores
    BY DEF IInv, CachesCovered, CachesFollowStores, Settled
  <1> QED BY <1>1, WorkerInvariance, PTL

-----------------------------------------------------------------------------
(* Until the version restarts or a reload fails, the version is the content.  *)

\* What may have come to v may have come to what v comes to.
LEMMA NoNewerTransitive ==
  ASSUME NEW a \in Nat, NEW b \in Nat, NEW c \in Nat, NoNewer(a, b), NoNewer(b, c)
  PROVE  NoNewer(a, c)
  BY DEF NoNewer

\* Resets and failures are not taken back, so a state without any was reached
\* by steps that are none.
LEMMA UnspoiltBefore ==
  ASSUME TypeOK, [Next]_vars, Unspoilt'
  PROVE  /\ Unspoilt
         /\ ~Readd /\ ~Restart /\ \A w \in Workers : ~ApplyFails(w) /\ ~FrameGone(w)
  <1>1. /\ spent \in [resets : 0 .. MaxResets, boots : 0 .. MaxBoots, failures : 0 .. MaxFailures]
        /\ MaxResets \in Nat /\ MaxFailures \in Nat
    BY BoundsAssumption DEF TypeOK
  <1>2. CASE UNCHANGED spent
    <2>1. ~Readd /\ ~Restart /\ \A w \in Workers : ~ApplyFails(w) /\ ~FrameGone(w)
      BY <1>1, <1>2 DEF Readd, Restart, ApplyFails, FrameGone
    <2> QED BY <1>2, <2>1 DEF Unspoilt
  <1>3. CASE \E w \in Workers : Crash(w)
    <2>1. spent'.resets = spent.resets /\ spent'.failures = spent.failures
      BY <1>1, <1>3 DEF Crash
    <2>2. ~Readd /\ ~Restart /\ \A w \in Workers : ~ApplyFails(w) /\ ~FrameGone(w)
      BY <1>1, <2>1 DEF Readd, Restart, ApplyFails, FrameGone
    <2> QED BY <2>1, <2>2 DEF Unspoilt
  <1>4. CASE Readd \/ Restart \/ \E w \in Workers : ApplyFails(w) \/ FrameGone(w)
    <2>1. \/ spent' = [spent EXCEPT !.resets = @ + 1]
          \/ spent' = [spent EXCEPT !.failures = @ + 1]
      BY <1>4 DEF Readd, Restart, ApplyFails, FrameGone
    <2> QED BY <1>1, <2>1 DEF Unspoilt
  <1> QED
    BY <1>2, <1>3, <1>4
    DEF vars, Next, Pipeline, Merge, Evict, NewModel, Publish, Prune, Boot, Seed, Reload,
        Poll, ApplyFrame, ApplyVersion, ApplyModel, Invalidate, Maintain, Pressure, Compute,
        Sample, Computed, ComputeFails, Begin, Serve, ReadShared, ServeHit, Render, Present,
        Encoded, Land

\* The pipeline counts a merge in the version and in the content alike.
LEMMA StepVersionsTell ==
  ASSUME TypeOK, [Next]_vars, Unspoilt', VersionsTell
  PROVE  VersionsTell' /\ NoNewer(published.version, published'.version)
  <1>1. /\ pipe \in [version : Versions \cup {0}, content : Versions, model : Models]
        /\ published \in Payload
        /\ pipe.version \in Nat /\ pipe.content \in Nat /\ published.version \in Nat
    BY BoundsAssumption DEF TypeOK, Payload, Versions
  <1>2. CASE UNCHANGED <<pipe, published>>
    BY <1>1, <1>2 DEF VersionsTell, VersionTells, NoNewer
  <1>3. CASE Merge
    <2>1. /\ pipe'.version = pipe.version + 1 /\ pipe'.content = pipe.content + 1
          /\ pipe.version # 0 /\ UNCHANGED published
      BY <1>1, <1>3 DEF Merge, Bumped
    <2> QED BY <1>1, <2>1 DEF VersionsTell, VersionTells, NoNewer
  <1>4. CASE Evict \/ NewModel
    <2>1. /\ pipe'.version = 0 \/ pipe'.version = pipe.version
          /\ pipe'.content = pipe.content /\ UNCHANGED published
      BY <1>1, <1>4 DEF Evict, NewModel
    <2> QED BY <1>1, <2>1 DEF VersionsTell, VersionTells, NoNewer
  <1>5. CASE Publish
    BY <1>1, <1>5 DEF Publish, VersionsTell, VersionTells, NoNewer
  <1> QED
    BY <1>2, <1>3, <1>4, <1>5, UnspoiltBefore
    DEF vars, Next, Pipeline, Prune, Boot, Seed, Crash, Reload, Poll, ApplyFrame,
        ApplyVersion, ApplyModel, Invalidate, Maintain, Pressure, Compute, Sample,
        Computed, ComputeFails, Begin, Serve, ReadShared, ServeHit, Render, Present,
        Encoded, Land, cacheVars

\* The payloads a worker holds stay behind state.json when it moves on.
LEMMA PayloadsStayBehind ==
  ASSUME TypeOK, NEW p \in Payload, published' \in Payload,
         VersionTells(p), NoNewer(p.version, published.version),
         NoNewer(published.version, published'.version)
  PROVE  VersionTells(p) /\ NoNewer(p.version, published'.version)
  <1>1. p.version \in Nat /\ published.version \in Nat /\ published'.version \in Nat
    BY BoundsAssumption DEF TypeOK, Payload, Versions
  <1> QED BY <1>1, NoNewerTransitive

\* The reload keeps open arrays only under the version they stand for.
LEMMA StepWorkerTells ==
  ASSUME IInv, IInv', [Next]_vars, Unspoilt', VersionsTell, NEW w \in Workers, WorkerTells(w)
  PROVE  WorkerTells(w)'
  <1> DEFINE me == worker[w]
             Behind(p) == p # None => VersionTells(p) /\ NoNewer(p.version, published.version)
  <1>0. /\ TypeOK /\ ReloadStage(w) /\ worker[w] \in WorkerState /\ published \in Payload
        /\ worker'[w] \in WorkerState /\ published' \in Payload
        /\ spent.failures = 0 /\ published.version \in Nat
        /\ me.last \in Payload \cup {None} /\ me.loaded \in Payload \cup {None}
        /\ VersionTells(published)
    <2>1. TypeOK /\ TypeOK' /\ ReloadStage(w) /\ Unspoilt
      BY UnspoiltBefore DEF IInv
    <2>2. spent.failures = 0
      BY <2>1 DEF Unspoilt, TypeOK
    <2> QED BY <2>1, <2>2, BoundsAssumption DEF TypeOK, WorkerState, Payload, Versions, VersionsTell
  <1>1. Behind(me.last) /\ Behind(me.loaded)
    BY DEF WorkerTells
  <1>2. CASE worker'[w] = worker[w]
    <2>1. NoNewer(published.version, published'.version)
      BY <1>0, StepVersionsTell
    <2>2. \A p \in {me.last, me.loaded} \ {None} :
             VersionTells(p) /\ NoNewer(p.version, published'.version)
      BY <1>0, <1>1, <2>1, PayloadsStayBehind
    <2> QED BY <1>2, <2>2 DEF WorkerTells, VersionTells
  <1>3. CASE UNCHANGED published /\ Boot(w)
    <2>1. /\ worker'[w].step = "booted" /\ worker'[w].last = published
          /\ worker'[w].loaded = None /\ worker'[w].version = published.version
          /\ worker'[w].frame = published.content
      BY <1>0, <1>3 DEF Boot, Down, TypeOK
    <2> QED BY <1>0, <1>3, <2>1 DEF WorkerTells, VersionTells, NoNewer
  <1>4. CASE UNCHANGED published /\ Crash(w)
    <2>1. worker'[w] = Down
      BY <1>0, <1>4 DEF Crash, TypeOK
    <2> QED BY <1>0, <1>4, <2>1 DEF WorkerTells, Down
  <1>5. CASE UNCHANGED published /\ (Seed(w) \/ Poll(w))
    <2>1. /\ worker'[w].step \in {"idle", "load"} /\ worker[w].step \in {"booted", "idle"}
          /\ worker'[w].last = me.last
          /\ worker'[w].loaded = me.loaded /\ worker'[w].version = me.version
          /\ worker'[w].frame = me.frame
      <3>1. CASE Seed(w)
        BY <1>0, <3>1 DEF Seed, TypeOK, WorkerState
      <3>2. CASE Poll(w)
        BY <1>0, <3>2 DEF Poll, TypeOK, WorkerState
      <3> QED BY <1>5, <3>1, <3>2
    <2> QED BY <1>0, <1>5, <2>1 DEF WorkerTells, VersionTells
  <1>6. CASE UNCHANGED published /\ ApplyFrame(w)
    <2>1. /\ worker[w].step = "load"
          /\ worker'[w].step = "version" /\ worker'[w].last = me.last
          /\ worker'[w].loaded = published /\ worker'[w].version = me.version
          /\ worker'[w].frame = IF me.frame # None /\ me.version = published.version
                                THEN me.frame ELSE published.content
      BY <1>0, <1>6 DEF ApplyFrame, SwapFrame, Loaded, TypeOK, WorkerState
    <2>2. me.last # None /\ NoNewer(me.last.version, published.version)
      BY <1>0, <1>1, <2>1 DEF ReloadStage
    <2>3. published.version # 0 => worker'[w].frame = published.version
      BY <1>0, <2>1 DEF WorkerTells, VersionTells
    <2> QED BY <1>0, <1>1, <1>6, <2>1, <2>2, <2>3 DEF WorkerTells, VersionTells, NoNewer
  <1>7. CASE UNCHANGED published /\ ApplyVersion(w)
    <2>1. /\ worker[w].step = "version"
          /\ worker'[w].step = "model" /\ worker'[w].last = me.last
          /\ worker'[w].loaded = me.loaded /\ worker'[w].version = me.loaded.version
          /\ worker'[w].frame = me.frame
      BY <1>0, <1>7 DEF ApplyVersion, TypeOK, WorkerState
    <2> QED BY <1>0, <1>7, <2>1 DEF WorkerTells, VersionTells
  <1>8. CASE UNCHANGED published /\ (ApplyModel(w) \/ Invalidate(w))
    <2>1. /\ worker[w].step \in {"model", "invalidate"}
          /\ worker'[w].step \in {"invalidate", "maintain"}
          /\ worker'[w].last = me.last
          /\ worker'[w].loaded = me.loaded /\ worker'[w].version = me.version
          /\ worker'[w].frame = me.frame
      <3>1. CASE ApplyModel(w)
        BY <1>0, <3>1 DEF ApplyModel, TypeOK, WorkerState
      <3>2. CASE Invalidate(w)
        BY <1>0, <3>2 DEF Invalidate, TypeOK, WorkerState
      <3> QED BY <1>8, <3>1, <3>2
    <2> QED BY <1>0, <1>8, <2>1 DEF WorkerTells, VersionTells
  <1>9. CASE UNCHANGED published /\ Maintain(w)
    <2>1. /\ worker[w].step = "maintain"
          /\ worker'[w].step = "idle" /\ worker'[w].last = me.loaded
          /\ worker'[w].loaded = None /\ worker'[w].version = me.version
          /\ worker'[w].frame = me.frame
      BY <1>0, <1>9 DEF Maintain, TypeOK, WorkerState
    <2> QED BY <1>0, <1>1, <1>9, <2>1 DEF WorkerTells, VersionTells
  <1> HIDE DEF me, Behind
  <1>a. ASSUME NEW v \in Workers, Boot(v) \/ Seed(v) \/ Crash(v) \/ Reload(v)
        PROVE  UNCHANGED published /\ (v = w \/ worker'[w] = worker[w])
    BY <1>0, <1>a
    DEF TypeOK, Boot, Seed, Crash, Reload, Poll, ApplyFrame, ApplyVersion, ApplyModel,
        Invalidate, Maintain
  <1>b. \/ UNCHANGED worker
        \/ \E v \in Workers : Boot(v) \/ Seed(v) \/ Crash(v) \/ Reload(v)
    BY <1>0, UnspoiltBefore
    DEF vars, Next, Pipeline, Merge, Evict, NewModel, Publish, Prune, Pressure, Compute,
        Sample, Computed, ComputeFails, Begin, Serve, ReadShared, ServeHit, Render, Present,
        Encoded, Land
  <1> QED
    BY <1>2, <1>3, <1>4, <1>5, <1>6, <1>7, <1>8, <1>9, <1>a, <1>b DEF Reload

\* What a request publishes under the version of now is as new as the version:
\* in the middle of a reload the frame is ahead of it, never behind.
LEMMA ArrivingCovers ==
  ASSUME IInv, Unspoilt, NEW w \in Workers, WorkerTells(w), Serving(w), NEW b \in Tile,
         worker[w].version # 0
  PROVE  NotOlder(Arriving(w, b), worker[w].version)
  <1>0. /\ ReloadStage(w) /\ worker[w] \in WorkerState /\ spent.failures = 0
        /\ worker[w].version \in Nat
    BY BoundsAssumption DEF IInv, TypeOK, Unspoilt, WorkerState, Versions
  <1> SUFFICES ASSUME ~Arriving(w, b).late
               PROVE  Arriving(w, b).content >= worker[w].version
    BY DEF NotOlder
  <1>1. Arriving(w, b).content = worker[w].frame /\ worker[w].frame \in Nat
    BY BoundsAssumption DEF Arriving, Tile
  <1>2. CASE worker[w].step # "version"
    BY <1>0, <1>1, <1>2 DEF WorkerTells
  <1>3. CASE worker[w].step = "version"
    <2>1. worker[w].frame # None
      BY <1>1, BoundsAssumption
    <2>2. /\ worker[w].version = worker[w].last.version
          /\ worker[w].loaded.version # 0
          /\ worker[w].loaded \in Payload /\ worker[w].loaded.version \in Nat
      BY <1>0, <1>3, <2>1, BoundsAssumption DEF ReloadStage, WorkerState, Payload, Versions
    <2>3. /\ worker[w].frame = worker[w].loaded.version
          /\ NoNewer(worker[w].last.version, worker[w].loaded.version)
      BY <1>3, <2>2 DEF WorkerTells
    <2> QED BY <1>0, <1>1, <2>2, <2>3 DEF NoNewer
  <1> QED BY <1>2, <1>3

\* The key of the shared store is taken when the bytes are ready to be published.
LEMMA StepKeysCover ==
  ASSUME IInv, IInv', [Next]_vars, Unspoilt', KeysCover,
         \A w \in Workers : WorkerTells(w)
  PROVE  KeysCover'
  <1>0. /\ TypeOK /\ CacheTypes /\ NothingBeforeServing /\ Unspoilt /\ CacheTypes'
        /\ RequestsHoldTiles /\ RequestsHoldKeys
    BY UnspoiltBefore DEF IInv, TypeOK
  <1> DEFINE Published == \A r \in Requests : req'[r].stage = "publish" =>
                 \/ req'[r] = req[r]
                 \/ NotOlder(req'[r].tile, req'[r].key)
             Kept == \A v \in Versions : shared'[v] # None =>
                 shared'[v] = shared[v] \/ NotOlder(shared'[v], v)
  <1>1. Published /\ Kept => KeysCover'
    BY DEF KeysCover, NotOlder
  <1>2. ASSUME NEW r \in Requests, Encoded(r) PROVE Published
    <2> DEFINE w == req[r].by
               b == Arriving(w, req[r].tile)
               q == [req[r] EXCEPT !.stage = "publish", !.key = worker[w].version, !.tile = b]
    <2>1. /\ w \in Workers /\ Serving(w) /\ req[r].tile \in Tile /\ req[r] \in RequestState
      BY <1>0, <1>2
      DEF Encoded, NothingBeforeServing, RequestsHoldTiles, CacheTypes, RequestState
    <2>2. worker[w].version # 0 => NotOlder(b, worker[w].version)
      BY <1>0, <2>1, ArrivingCovers
    <2>3. q.key = worker[w].version /\ q.tile = b
      <3> HIDE DEF b
      <3> QED BY <2>1 DEF RequestState
    <2>4. req' = [req EXCEPT ![r] = IF worker[w].version = 0 THEN NoRequest ELSE q]
      BY <1>2 DEF Encoded
    <2> HIDE DEF w, b, q
    <2> QED BY <1>0, <2>2, <2>3, <2>4 DEF CacheTypes, NoRequest, NotOlder
  <1>3. UNCHANGED req => Published
    OBVIOUS
  <1>4. ASSUME NEW w \in Workers, Crash(w) \/ Computed(w) \/ ComputeFails(w) PROVE Published
    <2> SUFFICES ASSUME NEW r \in Requests, req'[r].stage = "publish"
                 PROVE  req'[r] = req[r]
      OBVIOUS
    <2>1. \/ req'[r] = req[r] \/ req'[r] = NoRequest
          \/ \E t \in Tile : req'[r] = [req[r] EXCEPT !.stage = "present", !.tile = t]
      <3>1. CASE Crash(w) \/ ComputeFails(w)
        BY <3>1 DEF Crash, ComputeFails
      <3>2. CASE Computed(w)
        <4> DEFINE a == [content |-> flight[w].content, model |-> flight[w].model,
                         late |-> FALSE]
        <4>1. flight[w] \in FlightState /\ flight[w].model # 0
          BY <1>0, <3>2 DEF Computed, CacheTypes
        <4>2. a \in Tile
          BY <4>1 DEF FlightState, Tile, Versions
        <4>3. Arriving(w, a) \in Tile
          BY <4>2, ArrivingTile
        <4> QED BY <3>2, <4>3 DEF Computed
      <3> QED BY <1>4, <3>1, <3>2
    <2>2. req[r] \in RequestState /\ NoRequest.stage = "idle"
      BY <1>0 DEF CacheTypes, NoRequest
    <2>3. ASSUME NEW t \in Tile
          PROVE  [req[r] EXCEPT !.stage = "present", !.tile = t].stage = "present"
      BY <2>2 DEF RequestState
    <2> QED BY <2>1, <2>2, <2>3
  <1>5. ASSUME NEW r \in Requests,
               \/ \E w \in Workers : Begin(r, w)
               \/ ReadShared(r) \/ ServeHit(r) \/ Render(r) \/ Present(r) \/ Land(r)
        PROVE  Published
    <2>1. req' \in [Requests -> RequestState] /\ req \in [Requests -> RequestState]
      BY <1>0 DEF CacheTypes
    <2>2. \A o \in Requests \ {r} : req'[o] = req[o]
      BY <1>5, <2>1 DEF Begin, ReadShared, ServeHit, Render, Present, Land
    <2>3. req'[r].stage # "publish"
      <3>1. ASSUME NEW w \in Workers, Begin(r, w) PROVE req'[r].stage \in {"render", "lookup"}
        BY <2>1, <3>1 DEF Begin
      <3>2. CASE ReadShared(r)
        <4>1. \/ req'[r] = [req[r] EXCEPT !.stage = "render"]
              \/ \E t \in Tile \cup {None} :
                    req'[r] = [req[r] EXCEPT !.stage = "hit", !.tile = t]
          <5>1. shared[req[r].key] \in Tile \cup {None}
            BY <1>0, <3>2 DEF ReadShared, RequestsHoldKeys, CacheTypes, RequestState
          <5> QED BY <2>1, <3>2, <5>1 DEF ReadShared
        <4> QED BY <2>1, <4>1 DEF RequestState
      <3>3. CASE ServeHit(r) \/ Land(r)
        BY <2>1, <3>3 DEF ServeHit, Land, NoRequest
      <3>4. CASE Render(r) \/ Present(r)
        <4>1. \/ req'[r] = NoRequest
              \/ \E t \in {"present", "wait", "encode"} : req'[r] = [req[r] EXCEPT !.stage = t]
          BY <2>1, <3>4 DEF Render, Present
        <4> QED BY <2>1, <4>1 DEF RequestState, NoRequest
      <3> QED BY <1>5, <3>1, <3>2, <3>3, <3>4
    <2> QED BY <2>2, <2>3
  <1>6. UNCHANGED shared => Kept
    OBVIOUS
  <1>7. (\E v \in Versions : Prune(v)) \/ (\E w \in Workers : Maintain(w)) => Kept
    BY <1>0 DEF Prune, Maintain, CacheTypes
  <1>8. ASSUME NEW r \in Requests, Land(r) PROVE Kept
    <2>1. NotOlder(req[r].tile, req[r].key)
      BY <1>8 DEF Land, KeysCover
    <2> QED BY <1>0, <1>8, <2>1 DEF Land, CacheTypes
  <1>9. Published
    BY <1>2, <1>3, <1>4, <1>5
    DEF vars, Next, Pipeline, Merge, Evict, Readd, Restart, NewModel, Publish, Prune, Boot,
        Seed, Reload, Poll, ApplyFrame, ApplyVersion, ApplyModel, Invalidate, Maintain,
        ApplyFails, FrameGone, Pressure, Compute, Sample, Serve, cacheVars
  <1>a. Kept
    BY <1>6, <1>7, <1>8
    DEF vars, Next, Pipeline, Merge, Evict, Readd, Restart, NewModel, Publish, Boot, Seed,
        Crash, Reload, Poll, ApplyFrame, ApplyVersion, ApplyModel, Invalidate, ApplyFails,
        FrameGone, Pressure, Compute, Sample, Computed, ComputeFails, Begin, Serve,
        ReadShared, ServeHit, Render, Present, Encoded, cacheVars
  <1> QED BY <1>1, <1>9, <1>a

\* Every step keeps what versions tell.
LEMMA StepVersionInv == ASSUME IInv, IInv', VersionInv, [Next]_vars PROVE VersionInv'
  <1> SUFFICES ASSUME Unspoilt'
               PROVE  VersionsTell' /\ KeysCover' /\ \A w \in Workers : WorkerTells(w)'
    BY DEF VersionInv
  <1>1. TypeOK /\ VersionsTell /\ KeysCover /\ \A w \in Workers : WorkerTells(w)
    BY UnspoiltBefore DEF IInv, VersionInv
  <1>2. VersionsTell'
    BY <1>1, StepVersionsTell
  <1>3. KeysCover'
    BY <1>1, StepKeysCover
  <1>4. ASSUME NEW w \in Workers PROVE WorkerTells(w)'
    BY <1>1, StepWorkerTells
  <1> QED BY <1>2, <1>3, <1>4

\* The version is as good as the content until it restarts or a reload fails:
\* from the pipeline's frame store through state.json to the stores of every
\* worker (FrameStore._bump_version, dump_state, FrameStore.__setstate__).
THEOREM VersionInvariance == Spec => [](IInv /\ VersionInv)
  <1>1. Init => VersionInv
    BY BoundsAssumption
    DEF Init, VersionInv, VersionsTell, VersionTells, NoNewer, KeysCover, WorkerTells, Down,
        NoRequest
  <1>2. VersionInv /\ IInv /\ IInv' /\ [Next]_vars => VersionInv'
    BY StepVersionInv
  <1> QED BY <1>1, <1>2, WorkerInvariance, PTL DEF Spec

\* After a reload the stores hold what the payload describes, the arrays that
\* __setstate__ kept open included.
THEOREM StoresFollow == Spec => []StoresFollowPayload
  <1>1. IInv /\ VersionInv => StoresFollowPayload
    <2> SUFFICES ASSUME IInv, VersionInv, NEW w \in Workers, worker[w].step = "idle", Unspoilt
                 PROVE  /\ worker[w].frame = worker[w].last.content
                        /\ worker[w].version = worker[w].last.version
                        /\ worker[w].model = worker[w].last.model
      BY DEF StoresFollowPayload, Unspoilt
    <2>1. /\ spent.failures = 0 /\ ReloadStage(w) /\ WorkerTells(w)
          /\ worker[w].last # None => FramePresent(worker[w].last)
      BY DEF IInv, TypeOK, Unspoilt, VersionInv, PayloadsAgree
    <2> QED BY <2>1 DEF ReloadStage, WorkerTells, FramePresent, VersionTells
  <1> QED BY <1>1, VersionInvariance, PTL

\* The version in the key of the shared store protects every worker, behind or
\* ahead of the others: no hit shows an older frame than its own.
THEOREM HitsNeverOlder == Spec => []HitNeverOlder
  <1>1. IInv /\ VersionInv => HitNeverOlder
    <2> SUFFICES ASSUME IInv, VersionInv, Unspoilt, NEW w \in Workers,
                        worker[w].step \notin {"down", "version"}, worker[w].version # 0,
                        shared[worker[w].version] # None
                 PROVE  NotOlder(shared[worker[w].version], worker[w].frame)
      BY DEF HitNeverOlder, Unspoilt, NotOlder
    <2>1. /\ WorkerTells(w) /\ KeysCover /\ worker[w].version \in Versions
      BY DEF IInv, TypeOK, WorkerState, VersionInv
    <2>2. worker[w].frame = worker[w].version
      BY <2>1 DEF WorkerTells
    <2> QED BY <2>1, <2>2 DEF KeysCover
  <1> QED BY <1>1, VersionInvariance, PTL
=============================================================================
