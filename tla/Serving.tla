------------------------------- MODULE Serving -------------------------------
(* Radar tiles of one render worker: the requests for a tile that is not in the *)
(* cache share one render of it (_singleflight, api/routes.py), the renders are *)
(* admitted to the executor (tiles/render_queue.py) and sample the weather       *)
(* models in its threads (NWPChain, data/nwp_source.py), while the poller        *)
(* (main.py) reloads a regional grid in a thread of its own and then drops cache  *)
(* entries, and memory pressure and other handlers work on the same cache.        *)
(*                                                                                *)
(* The chain is one regional grid over the global one, which always has data.     *)
(* A frame of the grid is <<run, valid time>>; a geometry is the run that it was   *)
(* sampled from, or Global, or Blank for the zeros of a grid that had no frames.   *)
EXTENDS TileCache, Sequences

CONSTANTS Clients,      \* requests at once
          Renders,      \* renders that have not been settled, at once: a bound
          None,
          Timestamps,   \* radar timestamps, one tile each
          Nowcast,      \* those of them that lie in the forecast
          OtherKeys,    \* satellite and weather tiles in the same cache
          Runs,         \* runs of the regional grid, newer ones larger
          Histories,    \* the publications of the pipeline, one after the other
          WorkerSlots,  \* threads of the executor
          QueueSlots    \* renders submitted beyond them

\* A publication has the grid's frames and the global model's reference time.
Publications == [frames: SUBSET (Runs \X Int), reference: Int]

ASSUME HistoriesAssumption == Histories \subseteq Seq(Publications) \ {<< >>}

ASSUME SlotsAssumption == WorkerSlots \in Nat \ {0} /\ QueueSlots \in Nat

ASSUME RendersAssumption == IsFiniteSet(Renders)

ASSUME KindsAssumption == None \notin Timestamps /\ None \notin Renders

VARIABLES history,    \* what the pipeline publishes
          published,  \* how much of it state.json has seen
          frames,     \* the grid's frames in this worker
          poll,       \* the poller, with the load in its thread
          cache,      \* TileCache
          client,     \* the requests
          flights,    \* _geometry_flights: timestamp -> render
          render,     \* the render tasks
          queue,      \* those that wait for the semaphore, in order
          executor,   \* those submitted that no thread has taken, in order
          inflight    \* BoundedRenderQueue's count of the admitted

vars == <<history, published, frames, poll, cache, client, flights, render,
          queue, executor, inflight>>
serving == <<client, flights, render, queue, executor, inflight>>
polling == <<history, published, frames, poll>>

Global == 0
Blank == -1

GeomKey(t) == <<"radar", t>>

\* A size is a number of bytes.
ASSUME SizesAssumption == \A v \in Runs \cup {Global, Blank} : SizeOf(v) \in Nat

Capacity == WorkerSlots + QueueSlots

\* A render between its admission and the end of its `async with`.
InThread == {"asking", "sampling", "reading"}
Admitted == {"submitted", "sampled", "raised"} \cup InThread
Live == Admitted \cup {"waiting"}

NoRender == [at |-> "free", ts |-> None, got |-> Blank]
NoRequest == [at |-> "idle", ts |-> None, on |-> None]

\* Render x, and request x, further on.
Moved(x, at, got) == [at |-> at, ts |-> x.ts, got |-> got]
Waits(x, r) == [at |-> "waiting", ts |-> x.ts, on |-> r]

AdmittedRenders == {r \in Renders : render[r].at \in Admitted}

------------------------------------------------------------------------------
\* The frames on either side of t in run r.
Bracket(r, t) == {<<r, t>>, <<r, t + 1>>}

\* The runs whose bracket of t is loaded, and the freshest of them.
UsableRuns(t, held) == {r \in Runs : Bracket(r, t) \subseteq held}

PickRun(t, held) == {r \in UsableRuns(t, held) : \A s \in UsableRuns(t, held) : s <= r}

\* What the chain makes of t where the grid holds `held` throughout.
Fresh(t, held) == IF UsableRuns(t, held) = {} THEN {Global} ELSE PickRun(t, held)

Init == /\ history \in Histories
        /\ published = 1
        /\ frames = history[1].frames
        /\ poll = [at |-> "idle", applied |-> 1, mtime |-> 1, seen |-> 1,
                   payload |-> 1, left |-> {}]
        /\ cache = EmptyCache
        /\ client = [c \in Clients |-> NoRequest]
        /\ flights = [t \in Timestamps |-> None]
        /\ render = [r \in Renders |-> NoRender]
        /\ queue = << >> /\ executor = << >> /\ inflight = 0

------------------------------------------------------------------------------
(* Requests. *)

\* A geometry that is cached answers at once.
Hit(c, t) ==
    /\ client[c].at = "idle" /\ Cached(cache, GeomKey(t))
    /\ cache' = Get(cache, GeomKey(t))
    /\ UNCHANGED <<serving, polling>>

\* Otherwise the request goes on to await the frame of t.
Miss(c, t) ==
    /\ client[c].at = "idle" /\ ~Cached(cache, GeomKey(t))
    /\ client' = [client EXCEPT ![c] = [at |-> "missed", ts |-> t, on |-> None]]
    /\ UNCHANGED <<polling, cache, flights, render, queue, executor, inflight>>

\* Mutant: every request that finds no geometry renders its tile.
LeadAlways(c) ==
    /\ client[c].at = "missed"
    /\ \E r \in Renders :
          /\ render[r] = NoRender
          /\ render' = [render EXCEPT ![r] = [at |-> "waiting", ts |-> client[c].ts,
                                              got |-> Blank]]
          /\ flights' = [flights EXCEPT ![client[c].ts] = r]
          /\ client' = [client EXCEPT ![c] = Waits(client[c], r)]
          /\ queue' = Append(queue, r)
    /\ UNCHANGED <<polling, cache, executor, inflight>>

\* It creates the render of its tile, which waits for admission...
Lead(c) ==
    /\ client[c].at = "missed" /\ flights[client[c].ts] = None
    /\ \E r \in Renders :
          /\ render[r] = NoRender
          /\ render' = [render EXCEPT ![r] = [at |-> "waiting", ts |-> client[c].ts,
                                              got |-> Blank]]
          /\ flights' = [flights EXCEPT ![client[c].ts] = r]
          /\ client' = [client EXCEPT ![c] = Waits(client[c], r)]
          /\ queue' = Append(queue, r)
    /\ UNCHANGED <<polling, cache, executor, inflight>>

\* ...or joins the one under way.
Join(c) ==
    /\ client[c].at = "missed" /\ flights[client[c].ts] # None
    /\ client' = [client EXCEPT ![c] = Waits(client[c], flights[client[c].ts])]
    /\ UNCHANGED <<polling, cache, flights, render, queue, executor, inflight>>

\* Mutant: a cancelled request takes its render's slot along.
LeaveCancels(c) ==
    /\ client[c].at # "idle"
    /\ client' = [client EXCEPT ![c] = NoRequest]
    /\ inflight' = IF client[c].at = "waiting" /\ render[client[c].on].at \in Admitted
                   THEN inflight - 1 ELSE inflight
    /\ UNCHANGED <<polling, cache, flights, render, queue, executor>>

\* A request is cancelled, or finds no frame; the render is shielded from it.
Leave(c) ==
    /\ client[c].at # "idle"
    /\ client' = [client EXCEPT ![c] = NoRequest]
    /\ UNCHANGED <<polling, cache, flights, render, queue, executor, inflight>>

------------------------------------------------------------------------------
(* Renders. *)

Admit ==
    /\ queue # << >> /\ inflight < Capacity
    /\ queue' = Tail(queue) /\ executor' = Append(executor, Head(queue))
    /\ render' = [render EXCEPT ![Head(queue)] = Moved(@, "submitted", Blank)]
    /\ inflight' = inflight + 1
    /\ UNCHANGED <<polling, cache, client, flights>>

\* A thread of the executor takes the oldest submission.
Start ==
    /\ executor # << >>
    /\ Cardinality({r \in Renders : render[r].at \in InThread}) < WorkerSlots
    /\ executor' = Tail(executor)
    /\ render' = [render EXCEPT ![Head(executor)] = Moved(@, "asking", Blank)]
    /\ UNCHANGED <<polling, cache, client, flights, queue, inflight>>

\* Render r goes on to `at` with `got`, in its thread.
Goes(r, at, got) ==
    /\ render' = [render EXCEPT ![r] = Moved(@, at, got)]
    /\ UNCHANGED <<polling, cache, client, flights, queue, executor, inflight>>

\* The chain asks the grid whether it has data at the timestamp...
Ask(r) ==
    /\ render[r].at = "asking"
    /\ IF UsableRuns(render[r].ts, frames) = {} THEN Goes(r, "sampled", Global)
       ELSE Goes(r, "sampling", Blank)

\* ...the grid picks a run once more...
Pick(r) ==
    /\ render[r].at = "sampling"
    /\ \/ UsableRuns(render[r].ts, frames) = {} /\ Goes(r, "sampled", Blank)
       \/ \E run \in PickRun(render[r].ts, frames) : Goes(r, "reading", run)

\* ...and reads the run's frames, or gives zeros for want of one.
Read(r) ==
    /\ render[r].at = "reading"
    /\ Goes(r, "sampled", IF Bracket(render[r].got, render[r].ts) \subseteq frames
                          THEN render[r].got ELSE Blank)

\* A frame loaded while the runs are collected from the dictionary raises.
Raise(r) ==
    /\ render[r].at \in {"asking", "sampling"}
    /\ frames # {} /\ poll.left # {}
    /\ Goes(r, "raised", Blank)

\* Mutant: a render that fails keeps its slot.
ReturnKeepsSlot(r) ==
    /\ render[r].at \in {"sampled", "raised"}
    /\ inflight' = IF render[r].at = "sampled" THEN inflight - 1 ELSE inflight
    /\ cache' = IF render[r].at = "sampled"
                THEN Put(cache, GeomKey(render[r].ts), render[r].got) ELSE cache
    /\ render' = [render EXCEPT ![r] = Moved(@, "done", Blank)]
    /\ UNCHANGED <<polling, client, flights, queue, executor>>

\* Back on the loop: the slot is released, the geometry cached.
Return(r) ==
    /\ render[r].at \in {"sampled", "raised"}
    /\ inflight' = inflight - 1
    /\ cache' = IF render[r].at = "sampled"
                THEN Put(cache, GeomKey(render[r].ts), render[r].got) ELSE cache
    /\ render' = [render EXCEPT ![r] = Moved(@, "done", Blank)]
    /\ UNCHANGED <<polling, client, flights, queue, executor>>

\* The task's callbacks: its flight is over, whoever waits on it has an answer.
Settle(r) ==
    /\ render[r].at = "done"
    /\ flights' = [t \in Timestamps |-> IF flights[t] = r THEN None ELSE flights[t]]
    /\ client' = [c \in Clients |-> IF client[c].on = r THEN NoRequest ELSE client[c]]
    /\ render' = [render EXCEPT ![r] = NoRender]
    /\ UNCHANGED <<polling, cache, queue, executor, inflight>>

------------------------------------------------------------------------------
(* The pipeline, and the poller of this worker. *)

Publish ==
    /\ published < Len(history)
    /\ published' = published + 1
    /\ UNCHANGED <<history, frames, poll, cache, serving>>

\* The modification time of state.json is not the last one applied.
Poll ==
    /\ poll.at = "idle" /\ poll.mtime # published
    /\ poll' = [poll EXCEPT !.at = "loading", !.seen = published]
    /\ UNCHANGED <<history, published, frames, cache, serving>>

\* In the thread: a payload like the last one reloads nothing, any other empties
\* the grid (its directory is the generation's, so no two publications are alike).
LoadState ==
    /\ poll.at = "loading"
    /\ IF published = poll.applied
       THEN /\ poll' = [poll EXCEPT !.at = "loaded", !.payload = published]
            /\ UNCHANGED frames
       ELSE /\ poll' = [poll EXCEPT !.at = "loaded", !.payload = published,
                                    !.left = history[published].frames]
            /\ frames' = {}
    /\ UNCHANGED <<history, published, cache, serving>>

\* One frame after the other is opened, in the order of the directory.
LoadFrame ==
    /\ poll.at = "loaded"
    /\ \E f \in poll.left : /\ frames' = frames \cup {f}
                            /\ poll' = [poll EXCEPT !.left = @ \ {f}]
    /\ UNCHANGED <<history, published, cache, serving>>

\* _compute_cache_invalidation: the signature knows the reference time of the
\* global grid alone; without a change of it, the forecast's timestamps go.
Invalidated(c, prev, cur) ==
    IF history[prev].reference # history[cur].reference
    THEN InvalidateNwpDependent(c)
    ELSE InvalidateTimestamps(c, Nowcast)

Apply ==
    /\ poll.at = "loaded" /\ poll.left = {}
    /\ cache' = Invalidated(cache, poll.applied, poll.payload)
    /\ poll' = [poll EXCEPT !.at = "idle", !.mtime = poll.seen, !.applied = poll.payload]
    /\ UNCHANGED <<history, published, frames, serving>>

------------------------------------------------------------------------------
(* The rest of the process. *)

\* The memory monitor evicts, in a thread of its own.
Pressure ==
    /\ cache # EmptyCache
    /\ cache' \in {EvictHalf(cache), EmptyCache}
    /\ UNCHANGED <<serving, polling>>

\* Another handler caches a tile.
OtherTile ==
    /\ \E k \in OtherKeys : cache' = Put(cache, k, Global)
    /\ UNCHANGED <<serving, polling>>

Next == \/ \E c \in Clients : \/ \E t \in Timestamps : Hit(c, t) \/ Miss(c, t)
                              \/ Lead(c) \/ Join(c) \/ Leave(c)
        \/ \E r \in Renders : \/ Ask(r) \/ Pick(r) \/ Read(r) \/ Raise(r)
                              \/ Return(r) \/ Settle(r)
        \/ Admit \/ Start
        \/ Publish \/ Poll \/ LoadState \/ LoadFrame \/ Apply
        \/ Pressure \/ OtherTile

Spec == Init /\ [][Next]_vars

------------------------------------------------------------------------------
TypeOK ==
    /\ history \in Histories /\ published \in 1 .. Len(history)
    /\ frames \subseteq Runs \X Int
    /\ poll \in [at: {"idle", "loading", "loaded"}, applied: 1 .. published,
                 mtime: 1 .. published, seen: 1 .. published, payload: 1 .. published,
                 left: SUBSET (Runs \X Int)]
    /\ client \in [Clients -> [at: {"idle", "missed", "waiting"}, ts: Timestamps \cup {None},
                               on: Renders \cup {None}]]
    /\ flights \in [Timestamps -> Renders \cup {None}]
    /\ render \in [Renders -> [at: Live \cup {"free", "done"}, ts: Timestamps \cup {None},
                               got: Runs \cup {Global, Blank}]]
    /\ queue \in Seq(Renders) /\ executor \in Seq(Renders) /\ inflight \in Nat

\* The cache's map, order of use, index and sum of sizes agree and stay within
\* its budget, whatever its users do to it (tiles/cache.py:136).
CacheConsistent == Consistent(cache)

\* Between two reloads the grid holds the frames of the publication applied last,
\* and in one what it has not opened yet is all that it lacks of the next, though
\* the pipeline publishes meanwhile; the modification time that is kept is of no
\* later publication, so that the next poll takes what came in between
\* (main.py:740, HRRRGrid.__setstate__).
GridFollowsApplied ==
    /\ poll.mtime <= poll.applied
    /\ poll.at # "loaded" =>
          poll.left = {} /\ frames = history[poll.applied].frames
    /\ poll.at = "loaded" =>
          frames \cap poll.left = {} /\ frames \cup poll.left = history[poll.payload].frames

\* No more renders are submitted than the executor has threads and the queue
\* slots, though requests are cancelled (tiles/render_queue.py:45).
AdmittedWithinCapacity ==
    Cardinality(AdmittedRenders) <= Capacity

\* Whatever requests come, go and come back, a tile is rendered by one task at a
\* time (api/routes.py:203).
OneRenderPerTile ==
    \A r, s \in Renders :
        render[r].at \in Live /\ render[s].at \in Live /\ render[r].ts = render[s].ts
            => r = s

\* A request waits on a render of its tile that will end, and a slot taken is held
\* by a render that will release it: nobody waits for ever on what is over, or for
\* a slot that nobody has (api/routes.py:225, tiles/render_queue.py:57).
WaitersServed ==
    /\ \A c \in Clients : client[c].at = "waiting" =>
          /\ render[client[c].on].at # "free"
          /\ render[client[c].on].ts = client[c].ts
    /\ \A t \in Timestamps : flights[t] # None => render[flights[t]].at # "free"
    /\ inflight = Cardinality(AdmittedRenders)

------------------------------------------------------------------------------
(* What the code says of itself, and does not keep. *)

\* A render samples the grid as it was before a reload or after it, since every
\* reload builds new structures and swaps references (data/master_state.py:511).
SampledWhole ==
    \A r \in Renders : render[r].at = "sampled" =>
        \E i \in 1 .. published : render[r].got \in Fresh(render[r].ts, history[i].frames)

=============================================================================
