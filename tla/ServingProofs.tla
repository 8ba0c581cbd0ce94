----------------------------- MODULE ServingProofs -----------------------------
(* The admission of renders and their sharing (tiles/render_queue.py,            *)
(* _singleflight of api/routes.py), the tile cache (tiles/cache.py) and the         *)
(* poller's reload (main.py), for every number of requests, timestamps, threads,    *)
(* queue slots and bytes, and every history of publications.                        *)
(* The properties of the renders rest on where a task is known from.                *)
(* A render is in the flight map from its creation to its last callback           *)
(* (FlightsKnown), in the semaphore's queue only before its admission and in the   *)
(* executor's only after it (QueuesKnown), and the count of the admitted is right  *)
(* (CountRight), which is where a slot released twice or never would show.         *)
(* Those of the cache rest on sizes that add up: what is evicted is all that is      *)
(* older than the oldest entry that stays, and frees what it weighs (CacheInv).      *)
EXTENDS Serving, FiniteSetTheorems, TLAPS

RenderState == [at: Live \cup {"free", "done"}, ts: Timestamps \cup {None},
                got: Runs \cup {Global, Blank}]

ClientState == [at: {"idle", "missed", "waiting"}, ts: Timestamps \cup {None},
                on: Renders \cup {None}]

Typed ==
  /\ client \in [Clients -> ClientState]
  /\ flights \in [Timestamps -> Renders \cup {None}]
  /\ render \in [Renders -> RenderState]
  /\ queue \in Seq(Renders)
  /\ executor \in Seq(Renders)
  /\ inflight \in Nat

\* A task is of one of the timestamps and in the flight map under it; the map
\* names tasks alone.
FlightsKnown ==
  /\ \A r \in Renders : render[r].at # "free" =>
        render[r].ts \in Timestamps /\ flights[render[r].ts] = r
  /\ \A t \in Timestamps : flights[t] # None =>
        render[flights[t]].at # "free" /\ render[flights[t]].ts = t

\* A request that waits does so on a task of its tile, and no other names one.
ClientsKnown ==
  \A c \in Clients :
    /\ client[c].at = "idle" => client[c].on = None
    /\ client[c].at = "missed" => client[c].on = None /\ client[c].ts \in Timestamps
    /\ client[c].at = "waiting" => /\ client[c].on \in Renders
                                   /\ render[client[c].on].at # "free"
                                   /\ render[client[c].on].ts = client[c].ts

\* The elements of q are at `at`, each once.
Holds(q, at) ==
  /\ \A i \in 1 .. Len(q) : render[q[i]].at = at
  /\ \A i, j \in 1 .. Len(q) : q[i] = q[j] => i = j

QueuesKnown == Holds(queue, "waiting") /\ Holds(executor, "submitted")

CountRight == inflight = Cardinality(AdmittedRenders) /\ inflight <= Capacity

IInv == Typed /\ FlightsKnown /\ ClientsKnown /\ QueuesKnown /\ CountRight

-----------------------------------------------------------------------------
\* The admitted are finitely many.
LEMMA AdmittedFinite == IsFiniteSet(AdmittedRenders)
  BY RendersAssumption, FS_Subset DEF AdmittedRenders

\* A step that moves one render without admitting or releasing it leaves the count.
LEMMA CountKept ==
  ASSUME CountRight, NEW r \in Renders, render \in [Renders -> RenderState],
         NEW state, render' = [render EXCEPT ![r] = state],
         state.at \in Admitted <=> render[r].at \in Admitted, UNCHANGED inflight
  PROVE  CountRight'
<1>1. AdmittedRenders' = AdmittedRenders
  BY DEF AdmittedRenders
<1>. QED  BY <1>1 DEF CountRight, Capacity

\* One that admits a render counts one more, one that releases it one less.
LEMMA CountMoves ==
  ASSUME NEW r \in Renders, render \in [Renders -> RenderState],
         NEW state, render' = [render EXCEPT ![r] = state]
  PROVE  /\ state.at \in Admitted /\ render[r].at \notin Admitted
              => Cardinality(AdmittedRenders') = Cardinality(AdmittedRenders) + 1
         /\ state.at \notin Admitted /\ render[r].at \in Admitted
              => Cardinality(AdmittedRenders') = Cardinality(AdmittedRenders) - 1
<1>1. ASSUME state.at \in Admitted, render[r].at \notin Admitted
      PROVE  Cardinality(AdmittedRenders') = Cardinality(AdmittedRenders) + 1
  <2>1. AdmittedRenders' = AdmittedRenders \cup {r} /\ r \notin AdmittedRenders
    BY <1>1 DEF AdmittedRenders
  <2>. QED  BY <2>1, AdmittedFinite, FS_AddElement
<1>2. ASSUME state.at \notin Admitted, render[r].at \in Admitted
      PROVE  Cardinality(AdmittedRenders') = Cardinality(AdmittedRenders) - 1
  <2>1. AdmittedRenders' = AdmittedRenders \ {r} /\ r \in AdmittedRenders
    BY <1>2 DEF AdmittedRenders
  <2>. QED  BY <2>1, AdmittedFinite, FS_RemoveElement
<1>. QED  BY <1>1, <1>2

\* The rest of a queue, and what it loses.
LEMMA QueueTail ==
  ASSUME NEW q \in Seq(Renders), q # << >>, NEW at, Holds(q, at)
  PROVE  /\ Head(q) \in Renders /\ render[Head(q)].at = at /\ Tail(q) \in Seq(Renders)
         /\ \A i \in 1 .. Len(Tail(q)) : Tail(q)[i] # Head(q) /\ render[Tail(q)[i]].at = at
         /\ \A i, j \in 1 .. Len(Tail(q)) : Tail(q)[i] = Tail(q)[j] => i = j
<1>1. Len(q) \in Nat /\ Len(q) # 0 /\ Head(q) = q[1] /\ q[1] \in Renders
  OBVIOUS
<1>2. Len(Tail(q)) = Len(q) - 1 /\ \A i \in 1 .. Len(Tail(q)) : Tail(q)[i] = q[i + 1]
  OBVIOUS
<1>. QED  BY <1>1, <1>2 DEF Holds

\* A queue with one more element, which is not in it yet.
LEMMA QueueAppend ==
  ASSUME NEW q \in Seq(Renders), NEW r \in Renders,
         \A i \in 1 .. Len(q) : q[i] # r,
         \A i, j \in 1 .. Len(q) : q[i] = q[j] => i = j
  PROVE  /\ Append(q, r) \in Seq(Renders)
         /\ \A i \in 1 .. Len(Append(q, r)) :
               \/ i \in 1 .. Len(q) /\ Append(q, r)[i] = q[i]
               \/ Append(q, r)[i] = r
         /\ \A i, j \in 1 .. Len(Append(q, r)) : Append(q, r)[i] = Append(q, r)[j] => i = j
<1>1. Len(Append(q, r)) = Len(q) + 1 /\ Len(q) \in Nat
  OBVIOUS
<1>2. \A i \in 1 .. Len(q) : Append(q, r)[i] = q[i]
  OBVIOUS
<1>3. Append(q, r)[Len(q) + 1] = r
  OBVIOUS
<1>4. \A i \in 1 .. Len(Append(q, r)) : i \in 1 .. Len(q) \/ i = Len(q) + 1
  BY <1>1
<1>. QED  BY <1>1, <1>2, <1>3, <1>4

\* What is known of flights and requests outlives a step of one task of the map.
LEMMA KnownKept ==
  ASSUME FlightsKnown, ClientsKnown, render \in [Renders -> RenderState],
         NEW r \in Renders, render[r].at # "free",
         NEW state, render' = [render EXCEPT ![r] = state],
         state.at # "free", state.ts = render[r].ts, UNCHANGED <<client, flights>>,
         flights \in [Timestamps -> Renders \cup {None}]
  PROVE  FlightsKnown' /\ ClientsKnown'
<1>1. \A s \in Renders : /\ render'[s].ts = render[s].ts
                         /\ render'[s].at # "free" <=> render[s].at # "free"
  OBVIOUS
<1>2. FlightsKnown'
  <2>1. ASSUME NEW s \in Renders, render'[s].at # "free"
        PROVE  render'[s].ts \in Timestamps /\ flights[render'[s].ts] = s
    BY <1>1, <2>1 DEF FlightsKnown
  <2>2. ASSUME NEW t \in Timestamps, flights[t] # None, flights[t] \in Renders
        PROVE  render'[flights[t]].at # "free" /\ render'[flights[t]].ts = t
    BY <1>1, <2>2 DEF FlightsKnown
  <2>. QED  BY <2>1, <2>2 DEF FlightsKnown
<1>3. ClientsKnown'
  BY <1>1 DEF ClientsKnown
<1>. QED  BY <1>2, <1>3

\* A queue holds what it held if the render that moves was not in it.
LEMMA QueueKept ==
  ASSUME NEW q \in Seq(Renders), NEW at, Holds(q, at),
         render \in [Renders -> RenderState], NEW r \in Renders, render[r].at # at,
         NEW state, render' = [render EXCEPT ![r] = state]
  PROVE  /\ \A i \in 1 .. Len(q) : render'[q[i]].at = at
         /\ \A i, j \in 1 .. Len(q) : q[i] = q[j] => i = j
<1>1. \A i \in 1 .. Len(q) : q[i] \in Renders /\ q[i] # r
  BY DEF Holds
<1>. QED  BY <1>1 DEF Holds

-----------------------------------------------------------------------------
LEMMA InitEstablishes == Init => IInv
<1>. SUFFICES ASSUME Init PROVE IInv
  OBVIOUS
<1>. USE DEF Init
<1>1. Typed
  BY DEF Typed, RenderState, ClientState, NoRender, NoRequest
<1>2. FlightsKnown /\ ClientsKnown
  BY DEF FlightsKnown, ClientsKnown, NoRender, NoRequest
<1>3. QueuesKnown
  BY DEF QueuesKnown, Holds
<1>4. CountRight
  <2>1. AdmittedRenders = {}
    BY DEF AdmittedRenders, NoRender, Admitted, InThread
  <2>. QED  BY <2>1, FS_EmptySet, SlotsAssumption DEF CountRight, Capacity
<1>. QED  BY <1>1, <1>2, <1>3, <1>4 DEF IInv

\* Steps of the poller, the pipeline and the cache.
LEMMA ElsewhereKeeps == IInv /\ UNCHANGED serving => IInv'
  BY DEF IInv, serving, Typed, FlightsKnown, ClientsKnown, QueuesKnown, Holds,
         CountRight, AdmittedRenders, Capacity

LEMMA ClientStepKeeps ==
  ASSUME IInv, NEW c \in Clients,
         (\E t \in Timestamps : Miss(c, t)) \/ Join(c) \/ Leave(c)
  PROVE  IInv'
<1>. USE DEF IInv
<1>1. UNCHANGED <<flights, render, queue, executor, inflight>>
  BY DEF Miss, Join, Leave
<1>2. FlightsKnown' /\ QueuesKnown' /\ CountRight'
  BY <1>1 DEF FlightsKnown, QueuesKnown, Holds, CountRight, AdmittedRenders, Capacity
<1>3. CASE \E t \in Timestamps : Miss(c, t)
  BY <1>1, <1>2, <1>3 DEF Miss, Typed, ClientState, ClientsKnown
<1>4. CASE Join(c)
  <2>1. /\ client[c].ts \in Timestamps /\ flights[client[c].ts] \in Renders
        /\ client' = [client EXCEPT ![c] = Waits(client[c], flights[client[c].ts])]
    BY <1>4 DEF Join, ClientsKnown, Typed
  <2>2. Typed'
    BY <1>1, <2>1 DEF Typed, ClientState, Waits
  <2>3. ClientsKnown'
    BY <1>1, <1>4, <2>1 DEF ClientsKnown, Typed, ClientState, FlightsKnown, Join, Waits
  <2>. QED  BY <1>2, <2>2, <2>3
<1>5. CASE Leave(c)
  BY <1>1, <1>2, <1>5 DEF Leave, Typed, ClientState, ClientsKnown, NoRequest
<1>. QED  BY <1>3, <1>4, <1>5

LEMMA LeadKeeps ==
  ASSUME IInv, NEW c \in Clients, Lead(c)
  PROVE  IInv'
<1>. USE DEF IInv
<1>. DEFINE t == client[c].ts
<1>1. t \in Timestamps /\ flights[t] = None /\ client[c].at = "missed"
  BY DEF Lead, ClientsKnown
<1>2. PICK r \in Renders :
         /\ render[r] = NoRender
         /\ render' = [render EXCEPT ![r] = [at |-> "waiting", ts |-> t, got |-> Blank]]
         /\ flights' = [flights EXCEPT ![t] = r]
         /\ client' = [client EXCEPT ![c] = Waits(client[c], r)]
         /\ queue' = Append(queue, r)
  BY DEF Lead
<1>3. UNCHANGED <<executor, inflight>> /\ render[r].at = "free"
  BY <1>2 DEF Lead, NoRender
<1>4. Typed'
  <2>1. client' \in [Clients -> ClientState]
    BY <1>1, <1>2 DEF Typed, ClientState, Waits
  <2>2. render' \in [Renders -> RenderState]
    BY <1>1, <1>2 DEF Typed, RenderState, Live
  <2>3. queue' \in Seq(Renders)
    BY <1>2 DEF Typed
  <2>. QED  BY <1>2, <1>3, <2>1, <2>2, <2>3 DEF Typed
<1>5. FlightsKnown'
  <2>1. ASSUME NEW s \in Renders, render'[s].at # "free"
        PROVE  render'[s].ts \in Timestamps /\ flights'[render'[s].ts] = s
    <3>1. CASE s = r
      BY <1>1, <1>2, <3>1 DEF Typed
    <3>2. CASE s # r
      BY <1>1, <1>2, <2>1, <3>2, KindsAssumption DEF Typed, FlightsKnown
    <3>. QED  BY <3>1, <3>2
  <2>2. ASSUME NEW u \in Timestamps, flights'[u] # None
        PROVE  render'[flights'[u]].at # "free" /\ render'[flights'[u]].ts = u
    <3>1. CASE u = t
      BY <1>1, <1>2, <3>1 DEF Typed
    <3>2. CASE u # t
      BY <1>1, <1>2, <1>3, <2>2, <3>2 DEF Typed, FlightsKnown
    <3>. QED  BY <3>1, <3>2
  <2>. QED  BY <2>1, <2>2 DEF FlightsKnown
<1>6. ClientsKnown'
  BY <1>1, <1>2, <1>3 DEF ClientsKnown, Typed, ClientState, RenderState, Waits
<1>7. QueuesKnown'
  <2>1. \A i \in 1 .. Len(queue) : queue[i] \in Renders /\ queue[i] # r
    BY <1>3 DEF QueuesKnown, Holds, Typed
  <2>2. Holds(queue, "waiting")'
    BY <1>2, <2>1, QueueAppend DEF QueuesKnown, Holds, Typed
  <2>3. Holds(executor, "submitted")'
    BY <1>2, <1>3, QueueKept DEF QueuesKnown, Holds, Typed
  <2>. QED  BY <2>2, <2>3 DEF QueuesKnown
<1>8. CountRight'
  BY <1>2, <1>3, CountKept DEF Typed, Admitted, InThread
<1>. QED  BY <1>4, <1>5, <1>6, <1>7, <1>8

LEMMA AdmitKeeps ==
  ASSUME IInv, Admit
  PROVE  IInv'
<1>. USE DEF IInv
<1>. DEFINE r == Head(queue)
            state == [at |-> "submitted", ts |-> render[r].ts, got |-> Blank]
<1>1. r \in Renders /\ render[r].at = "waiting" /\ Tail(queue) \in Seq(Renders)
  BY QueueTail DEF Admit, QueuesKnown, Typed
<1>2. /\ render' = [render EXCEPT ![r] = state]
      /\ queue' = Tail(queue) /\ executor' = Append(executor, r)
      /\ inflight' = inflight + 1 /\ inflight < Capacity /\ UNCHANGED <<client, flights>>
  BY DEF Admit, Moved
<1>9. /\ state \in RenderState /\ state.at = "submitted" /\ state.ts = render[r].ts
      /\ "submitted" \in Admitted /\ "waiting" \notin Admitted
  BY <1>1 DEF Typed, RenderState, Live, Admitted, InThread
<1>. HIDE DEF r, state
<1>3. Typed'
  BY <1>1, <1>2, <1>9 DEF Typed
<1>4. FlightsKnown' /\ ClientsKnown'
  BY <1>1, <1>2, <1>9, KnownKept DEF Typed
<1>5. Holds(queue, "waiting")'
  <2>1. /\ \A i \in 1 .. Len(Tail(queue)) : /\ Tail(queue)[i] \in Renders
                                            /\ Tail(queue)[i] # r
                                            /\ render[Tail(queue)[i]].at = "waiting"
        /\ \A i, j \in 1 .. Len(Tail(queue)) : Tail(queue)[i] = Tail(queue)[j] => i = j
    <3>1. Holds(queue, "waiting") /\ queue \in Seq(Renders) /\ queue # << >>
      BY DEF Admit, QueuesKnown, Typed
    <3>. QED  BY <1>1, <3>1, QueueTail DEF r
  <2>. QED  BY <1>2, <2>1 DEF Holds, Typed
<1>6. Holds(executor, "submitted")'
  <2>1. /\ \A i \in 1 .. Len(executor) : /\ executor[i] \in Renders /\ executor[i] # r
                                         /\ render[executor[i]].at = "submitted"
        /\ \A i, j \in 1 .. Len(executor) : executor[i] = executor[j] => i = j
    BY <1>1 DEF QueuesKnown, Holds, Typed
  <2>2. /\ \A i \in 1 .. Len(executor') : executor'[i] = r
                                          \/ \E j \in 1 .. Len(executor) : executor'[i] = executor[j]
        /\ \A i, j \in 1 .. Len(executor') : executor'[i] = executor'[j] => i = j
    BY <1>1, <1>2, <2>1, QueueAppend DEF Typed
  <2>3. /\ render'[r].at = "submitted"
        /\ \A s \in Renders : render[s].at = "submitted" => render'[s].at = "submitted"
    BY <1>1, <1>2, <1>9 DEF Typed
  <2>4. ASSUME NEW i \in 1 .. Len(executor')
        PROVE  render'[executor'[i]].at = "submitted"
    <3>1. CASE executor'[i] = r
      BY <2>3, <3>1
    <3>2. CASE \E j \in 1 .. Len(executor) : executor'[i] = executor[j]
      BY <2>1, <2>3, <3>2
    <3>. QED  BY <2>2, <3>1, <3>2
  <2>. QED  BY <2>2, <2>4 DEF Holds
<1>7. CountRight'
  <2>1. Cardinality(AdmittedRenders') = Cardinality(AdmittedRenders) + 1
    BY <1>1, <1>2, <1>9, CountMoves DEF Typed
  <2>. QED  BY <1>2, <2>1, SlotsAssumption DEF CountRight, Capacity, Typed
<1>. QED  BY <1>3, <1>4, <1>5, <1>6, <1>7 DEF QueuesKnown

LEMMA StartKeeps ==
  ASSUME IInv, Start
  PROVE  IInv'
<1>. USE DEF IInv
<1>. DEFINE r == Head(executor)
            state == [at |-> "asking", ts |-> render[r].ts, got |-> Blank]
<1>1. r \in Renders /\ render[r].at = "submitted" /\ Tail(executor) \in Seq(Renders)
  BY QueueTail DEF Start, QueuesKnown, Typed
<1>2. /\ render' = [render EXCEPT ![r] = state] /\ executor' = Tail(executor)
      /\ UNCHANGED <<client, flights, queue, inflight>>
  BY DEF Start, Moved
<1>3. /\ state \in RenderState /\ state.at = "asking" /\ state.ts = render[r].ts
      /\ "asking" \in Admitted /\ "submitted" \in Admitted
  BY <1>1 DEF Typed, RenderState, Live, Admitted, InThread
<1>. HIDE DEF r, state
<1>4. Typed'
  BY <1>1, <1>2, <1>3 DEF Typed
<1>5. FlightsKnown' /\ ClientsKnown'
  BY <1>1, <1>2, <1>3, KnownKept DEF Typed
<1>6. Holds(queue, "waiting")'
  BY <1>1, <1>2, QueueKept DEF QueuesKnown, Holds, Typed
<1>7. Holds(executor, "submitted")'
  <2>1. /\ \A i \in 1 .. Len(Tail(executor)) : /\ Tail(executor)[i] \in Renders
                                               /\ Tail(executor)[i] # r
                                               /\ render[Tail(executor)[i]].at = "submitted"
        /\ \A i, j \in 1 .. Len(Tail(executor)) :
              Tail(executor)[i] = Tail(executor)[j] => i = j
    <3>1. Holds(executor, "submitted") /\ executor \in Seq(Renders) /\ executor # << >>
      BY DEF Start, QueuesKnown, Typed
    <3>. QED  BY <1>1, <3>1, QueueTail DEF r
  <2>. QED  BY <1>2, <2>1 DEF Holds, Typed
<1>8. CountRight'
  BY <1>1, <1>2, <1>3, CountKept DEF Typed
<1>. QED  BY <1>4, <1>5, <1>6, <1>7, <1>8 DEF QueuesKnown

\* A step of a render's thread.
LEMMA ThreadStepKeeps ==
  ASSUME IInv, NEW r \in Renders, Ask(r) \/ Pick(r) \/ Read(r) \/ Raise(r)
  PROVE  IInv'
<1>. USE DEF IInv
<1>1. render[r].at \in InThread
  BY DEF Ask, Pick, Read, Raise, InThread
<1>2. \E at \in InThread \cup {"sampled", "raised"}, got \in Runs \cup {Global, Blank} :
         Goes(r, at, got)
  <2>1. CASE Ask(r)
    BY <2>1 DEF Ask, InThread
  <2>2. CASE Pick(r)
    <3>1. PickRun(render[r].ts, frames) \subseteq Runs
      BY DEF PickRun, UsableRuns
    <3>. QED  BY <2>2, <3>1 DEF Pick, InThread
  <2>3. CASE Read(r)
    BY <1>1, <2>3 DEF Read, InThread, Typed, RenderState
  <2>4. CASE Raise(r)
    BY <2>4 DEF Raise
  <2>. QED  BY <2>1, <2>2, <2>3, <2>4
<1>3. PICK at \in InThread \cup {"sampled", "raised"}, got \in Runs \cup {Global, Blank} :
         Goes(r, at, got)
  BY <1>2
<1>. DEFINE state == [at |-> at, ts |-> render[r].ts, got |-> got]
<1>4. /\ render' = [render EXCEPT ![r] = state]
      /\ UNCHANGED <<client, flights, queue, executor, inflight>>
  BY <1>3 DEF Goes, Moved
<1>5. /\ state \in RenderState /\ state.at \in Admitted /\ state.ts = render[r].ts
      /\ state.at # "free" /\ render[r].at \in Admitted
      /\ render[r].at \notin {"free", "waiting", "submitted"}
  BY <1>1 DEF Typed, RenderState, Live, Admitted, InThread
<1>. HIDE DEF state
<1>6. Typed'
  BY <1>4, <1>5 DEF Typed
<1>7. FlightsKnown' /\ ClientsKnown'
  BY <1>4, <1>5, KnownKept DEF Typed
<1>8. QueuesKnown'
  BY <1>4, <1>5, QueueKept DEF QueuesKnown, Holds, Typed
<1>9. CountRight'
  BY <1>4, <1>5, CountKept DEF Typed
<1>. QED  BY <1>6, <1>7, <1>8, <1>9

LEMMA ReturnKeeps ==
  ASSUME IInv, NEW r \in Renders, Return(r)
  PROVE  IInv'
<1>. USE DEF IInv
<1>. DEFINE state == [at |-> "done", ts |-> render[r].ts, got |-> Blank]
<1>1. /\ render' = [render EXCEPT ![r] = state] /\ inflight' = inflight - 1
      /\ UNCHANGED <<client, flights, queue, executor>>
  BY DEF Return, Moved
<1>2. /\ state \in RenderState /\ state.at = "done" /\ state.ts = render[r].ts
      /\ "done" \notin Admitted /\ render[r].at \in Admitted
      /\ render[r].at \notin {"free", "waiting", "submitted"}
  BY DEF Return, Typed, RenderState, Live, Admitted, InThread
<1>. HIDE DEF state
<1>3. inflight' = Cardinality(AdmittedRenders') /\ inflight' \in Nat
  <2>1. Cardinality(AdmittedRenders') = Cardinality(AdmittedRenders) - 1
    BY <1>1, <1>2, CountMoves DEF Typed
  <2>2. AdmittedRenders' \subseteq Renders
    BY DEF AdmittedRenders
  <2>3. Cardinality(AdmittedRenders') \in Nat
    BY <2>2, RendersAssumption, FS_Subset, FS_CardinalityType
  <2>. QED  BY <1>1, <2>1, <2>3 DEF CountRight
<1>4. Typed'
  BY <1>1, <1>2, <1>3 DEF Typed
<1>5. FlightsKnown' /\ ClientsKnown'
  BY <1>1, <1>2, KnownKept DEF Typed
<1>6. QueuesKnown'
  BY <1>1, <1>2, QueueKept DEF QueuesKnown, Holds, Typed
<1>7. CountRight'
  BY <1>1, <1>3, SlotsAssumption DEF CountRight, Capacity, Typed
<1>. QED  BY <1>4, <1>5, <1>6, <1>7

LEMMA SettleKeeps ==
  ASSUME IInv, NEW r \in Renders, Settle(r)
  PROVE  IInv'
<1>. USE DEF IInv
<1>1. /\ render' = [render EXCEPT ![r] = NoRender] /\ render[r].at = "done"
      /\ flights' = [t \in Timestamps |-> IF flights[t] = r THEN None ELSE flights[t]]
      /\ client' = [c \in Clients |-> IF client[c].on = r THEN NoRequest ELSE client[c]]
      /\ UNCHANGED <<queue, executor, inflight>>
  BY DEF Settle
<1>2. NoRender \in RenderState /\ NoRender.at = "free" /\ NoRequest \in ClientState
      /\ "free" \notin Admitted /\ "done" \notin Admitted /\ r # None
  BY KindsAssumption
     DEF NoRender, NoRequest, RenderState, ClientState, Live, Admitted, InThread
<1>3. Typed'
  BY <1>1, <1>2 DEF Typed
<1>4. FlightsKnown'
  <2>1. ASSUME NEW s \in Renders, render'[s].at # "free"
        PROVE  render'[s].ts \in Timestamps /\ flights'[render'[s].ts] = s
    <3>1. s # r /\ render'[s] = render[s]
      BY <1>1, <1>2, <2>1 DEF Typed
    <3>. QED  BY <1>1, <2>1, <3>1 DEF FlightsKnown, Typed
  <2>2. ASSUME NEW u \in Timestamps, flights'[u] # None
        PROVE  render'[flights'[u]].at # "free" /\ render'[flights'[u]].ts = u
    BY <1>1, <1>2, <2>2 DEF FlightsKnown, Typed
  <2>. QED  BY <2>1, <2>2 DEF FlightsKnown
<1>5. ClientsKnown'
  BY <1>1, <1>2 DEF ClientsKnown, Typed, NoRequest
<1>6. QueuesKnown'
  BY <1>1, <1>2, QueueKept DEF QueuesKnown, Holds, Typed
<1>7. CountRight'
  BY <1>1, <1>2, CountKept DEF Typed
<1>. QED  BY <1>3, <1>4, <1>5, <1>6, <1>7

-----------------------------------------------------------------------------
LEMMA NextKeeps == IInv /\ [Next]_vars => IInv'
<1>. SUFFICES ASSUME IInv, [Next]_vars PROVE IInv'
  OBVIOUS
<1>1. CASE UNCHANGED serving
  BY <1>1, ElsewhereKeeps
<1>2. ASSUME NEW c \in Clients, NEW t \in Timestamps, Hit(c, t) \/ Miss(c, t)
      PROVE  IInv'
  BY <1>2, ClientStepKeeps, ElsewhereKeeps DEF Hit
<1>3. ASSUME NEW c \in Clients, Lead(c) \/ Join(c) \/ Leave(c)
      PROVE  IInv'
  BY <1>3, ClientStepKeeps, LeadKeeps
<1>4. ASSUME NEW r \in Renders,
             Ask(r) \/ Pick(r) \/ Read(r) \/ Raise(r) \/ Return(r) \/ Settle(r)
      PROVE  IInv'
  BY <1>4, ThreadStepKeeps, ReturnKeeps, SettleKeeps
<1>5. CASE Admit \/ Start
  BY <1>5, AdmitKeeps, StartKeeps
<1>6. CASE Publish \/ Poll \/ LoadState \/ LoadFrame \/ Apply \/ Pressure \/ OtherTile
  BY <1>1, <1>6 DEF Publish, Poll, LoadState, LoadFrame, Apply, Pressure, OtherTile
<1>7. CASE UNCHANGED vars
  BY <1>1, <1>7 DEF vars, serving
<1>. QED  BY <1>2, <1>3, <1>4, <1>5, <1>6, <1>7 DEF Next

THEOREM InvariantHolds == Spec => []IInv
<1>. QED  BY InitEstablishes, NextKeeps, PTL DEF Spec

\* No more renders are submitted than the threads and the queue's slots, for any
\* number of requests, cancelled or not (tiles/render_queue.py).
THEOREM CapacityHolds == Spec => []AdmittedWithinCapacity
<1>1. IInv => AdmittedWithinCapacity
  BY DEF IInv, CountRight, AdmittedWithinCapacity
<1>. QED  BY <1>1, InvariantHolds, PTL

\* A tile is rendered by one task at a time (_singleflight of api/routes.py).
THEOREM RendersAreShared == Spec => []OneRenderPerTile
<1>1. IInv => OneRenderPerTile
  BY DEF IInv, FlightsKnown, OneRenderPerTile, Live, Admitted, InThread
<1>. QED  BY <1>1, InvariantHolds, PTL

\* Nobody waits on a render that is over, and no slot is taken that no render
\* will release (_singleflight, BoundedRenderQueue).
THEOREM NobodyIsStranded == Spec => []WaitersServed
<1>1. IInv => WaitersServed
  BY DEF IInv, FlightsKnown, ClientsKnown, CountRight, WaitersServed
<1>. QED  BY <1>1, InvariantHolds, PTL

-----------------------------------------------------------------------------
(* The tile cache (tiles/cache.py).  Whatever the operations do one after another, *)
(* the sum that the cache keeps is that of the sizes it holds, which is what says   *)
(* when the eviction may stop.  The size of some entries is the number of their     *)
(* bytes, so that what goes and what stays add up (SizesAdd).                        *)

\* A cache of finitely many entries, each of some size, whose parts agree: all of
\* Consistent but the budget, which it is beyond in the middle of a put.
Sound(c) ==
  /\ c = [older |-> c.older, value |-> c.value, total |-> c.total, byTs |-> c.byTs]
  /\ IsFiniteSet(DOMAIN c.value)
  /\ \A k \in DOMAIN c.value : SizeOf(c.value[k]) \in Nat
  /\ InOrder(c.older, DOMAIN c.value)
  /\ c.byTs = Entries(DOMAIN c.value)
  /\ c.total = Size(c, DOMAIN c.value)

\* Every entry is a geometry, or stands for another tile.
CacheInv ==
  /\ Sound(cache) /\ cache.total <= MaxBytes
  /\ \A k \in DOMAIN cache.value : cache.value[k] \in Runs \cup {Global, Blank}

\* A value has as many bytes as its size.
LEMMA PlacesCounted ==
  ASSUME NEW n \in Nat
  PROVE  IsFiniteSet(1 .. n) /\ Cardinality(1 .. n) = n
  BY FS_Interval

\* Finitely many entries have finitely many bytes.
LEMMA BytesFinite ==
  ASSUME NEW c, NEW keys, IsFiniteSet(keys), \A k \in keys : SizeOf(c.value[k]) \in Nat
  PROVE  IsFiniteSet(Bytes(c, keys)) /\ Size(c, keys) \in Nat
<1>. DEFINE of == [k \in keys |-> {k} \X (1 .. SizeOf(c.value[k]))]
            parts == {of[k] : k \in keys}
<1>1. of \in Surjection(keys, parts)
  BY DEF Surjection
<1>2. IsFiniteSet(parts)
  BY <1>1, FS_Surjection
<1>3. ASSUME NEW k \in keys
      PROVE  IsFiniteSet(of[k])
  BY PlacesCounted, FS_Singleton, FS_Product
<1>4. IsFiniteSet(UNION parts)
  BY <1>2, <1>3, FS_UNION
<1>5. Bytes(c, keys) = UNION parts
  BY DEF Bytes
<1>. QED  BY <1>4, <1>5, FS_CardinalityType DEF Size

\* The size of an entry, and of entries that are not the same.
LEMMA SizeOfOne ==
  ASSUME NEW c, NEW key, SizeOf(c.value[key]) \in Nat
  PROVE  Size(c, {key}) = SizeOf(c.value[key])
<1>1. Bytes(c, {key}) = {key} \X (1 .. SizeOf(c.value[key]))
  BY DEF Bytes
<1>2. /\ IsFiniteSet({key}) /\ Cardinality({key}) = 1
      /\ IsFiniteSet(1 .. SizeOf(c.value[key]))
      /\ Cardinality(1 .. SizeOf(c.value[key])) = SizeOf(c.value[key])
  BY PlacesCounted, FS_Singleton
<1>3. Cardinality({key} \X (1 .. SizeOf(c.value[key])))
        = Cardinality({key}) * Cardinality(1 .. SizeOf(c.value[key]))
  BY <1>2, FS_Product
<1>4. Size(c, {key}) = 1 * SizeOf(c.value[key])
  BY <1>1, <1>2, <1>3 DEF Size
<1>. QED  BY <1>4

LEMMA SizesAdd ==
  ASSUME NEW c, NEW keys, IsFiniteSet(keys), \A k \in keys : SizeOf(c.value[k]) \in Nat,
         NEW some \in SUBSET keys
  PROVE  /\ Size(c, keys) \in Nat /\ Size(c, some) \in Nat /\ Size(c, keys \ some) \in Nat
         /\ Size(c, keys) = Size(c, some) + Size(c, keys \ some)
         /\ Size(c, some) <= Size(c, keys)
<1>1. IsFiniteSet(some) /\ IsFiniteSet(keys \ some)
  BY FS_Subset, FS_Difference
<1>2. /\ IsFiniteSet(Bytes(c, some)) /\ IsFiniteSet(Bytes(c, keys \ some))
      /\ Size(c, some) \in Nat /\ Size(c, keys \ some) \in Nat
  BY <1>1, BytesFinite
<1>3. Size(c, keys) \in Nat
  BY BytesFinite
<1>4. /\ Bytes(c, keys) = Bytes(c, some) \cup Bytes(c, keys \ some)
      /\ Bytes(c, some) \cap Bytes(c, keys \ some) = {}
  BY DEF Bytes
<1>5. Cardinality({}) = 0
  BY FS_EmptySet
<1>6. Cardinality(Bytes(c, some) \cup Bytes(c, keys \ some))
        = Cardinality(Bytes(c, some)) + Cardinality(Bytes(c, keys \ some))
            - Cardinality(Bytes(c, some) \cap Bytes(c, keys \ some))
  BY <1>2, FS_Union
<1>7. Cardinality(Bytes(c, keys))
        = Cardinality(Bytes(c, some)) + Cardinality(Bytes(c, keys \ some)) - 0
  BY <1>4, <1>5, <1>6
<1>. QED  BY <1>2, <1>3, <1>7 DEF Size

\* The size of entries is that of any one of them and of the others.
LEMMA SizeLess ==
  ASSUME NEW c, NEW keys, IsFiniteSet(keys), \A k \in keys : SizeOf(c.value[k]) \in Nat,
         NEW key \in keys
  PROVE  /\ Size(c, keys) = SizeOf(c.value[key]) + Size(c, keys \ {key})
         /\ Size(c, keys \ {key}) \in Nat
<1>1. {key} \in SUBSET keys
  OBVIOUS
<1>2. /\ Size(c, keys) = Size(c, {key}) + Size(c, keys \ {key})
      /\ Size(c, keys \ {key}) \in Nat
  BY <1>1, SizesAdd
<1>. QED  BY <1>2, SizeOfOne

\* The size of entries is that of their values.
LEMMA SizesOfValues ==
  ASSUME NEW c, NEW d, NEW keys, \A k \in keys : c.value[k] = d.value[k]
  PROVE  Size(c, keys) = Size(d, keys)
<1>1. Bytes(c, keys) = Bytes(d, keys)
  BY DEF Bytes
<1>. QED  BY <1>1 DEF Size

\* What a cache keeps when entries go.
LEMMA DropKeeps ==
  ASSUME NEW c, Sound(c), NEW keys \in SUBSET DOMAIN c.value
  PROVE  /\ Sound(Drop(c, keys))
         /\ DOMAIN Drop(c, keys).value = (DOMAIN c.value) \ keys
         /\ \A k \in (DOMAIN c.value) \ keys : Drop(c, keys).value[k] = c.value[k]
         /\ Drop(c, keys).total = c.total - Size(c, keys)
         /\ Drop(c, keys).total <= c.total
<1>. DEFINE d == Drop(c, keys)
            rest == (DOMAIN c.value) \ keys
<1>1. /\ d.older = {p \in c.older : p[1] \notin keys /\ p[2] \notin keys}
      /\ DOMAIN d.value = rest /\ \A k \in rest : d.value[k] = c.value[k]
      /\ d.total = c.total - Size(c, keys)
      /\ d.byTs = c.byTs \ Entries(keys)
      /\ d = [older |-> d.older, value |-> d.value, total |-> d.total, byTs |-> d.byTs]
  BY DEF Drop, Restrict
<1>. HIDE DEF d
<1>2. IsFiniteSet(rest) /\ \A k \in rest : SizeOf(d.value[k]) \in Nat
  BY <1>1, FS_Difference DEF Sound
<1>3. InOrder(d.older, rest)
  BY <1>1 DEF Sound, InOrder
<1>4. d.byTs = Entries(rest)
  BY <1>1 DEF Sound, Entries
<1>5. d.total = Size(d, rest) /\ d.total <= c.total
  <2>1. /\ c.total = Size(c, keys) + Size(c, rest)
        /\ c.total \in Nat /\ Size(c, keys) \in Nat /\ Size(c, rest) \in Nat
    BY SizesAdd DEF Sound
  <2>2. Size(c, rest) = Size(d, rest)
    BY <1>1, SizesOfValues
  <2>. QED  BY <1>1, <2>1, <2>2
<1>6. Sound(d)
  BY <1>1, <1>2, <1>3, <1>4, <1>5 DEF Sound
<1>. QED  BY <1>1, <1>5, <1>6 DEF d

\* The oldest of some entries: nothing older is among them.
LEMMA OldestExists ==
  ASSUME NEW c, Sound(c), NEW keys \in SUBSET DOMAIN c.value, keys # {}
  PROVE  \E k \in keys : Older(c, k) \cap keys = {}
<1>. DEFINE count == [k \in DOMAIN c.value |-> Cardinality(Older(c, k))]
            counts == {count[k] : k \in keys}
<1>1. \A k \in DOMAIN c.value : IsFiniteSet(Older(c, k)) /\ Cardinality(Older(c, k)) \in Nat
  <2>1. ASSUME NEW k \in DOMAIN c.value
        PROVE  IsFiniteSet(Older(c, k)) /\ Cardinality(Older(c, k)) \in Nat
    <3>1. Older(c, k) \in SUBSET DOMAIN c.value
      BY DEF Older
    <3>. QED  BY <3>1, FS_Subset, FS_CardinalityType DEF Sound
  <2>. QED  BY <2>1
<1>2. counts \subseteq Nat /\ counts # {}
  BY <1>1
<1>3. PICK n \in counts : \A m \in counts : ~(<<m, n>> \in OpToRel(<, Nat))
  BY <1>2, NatLessThanWellFounded, WFMin
<1>4. PICK k \in keys : Cardinality(Older(c, k)) = n
  BY <1>3
<1>5. ASSUME NEW j \in keys, j \in Older(c, k)
      PROVE  FALSE
  <2>1. Older(c, j) \subseteq Older(c, k) /\ j \notin Older(c, j)
    BY <1>5 DEF Older, Sound, InOrder
  <2>2. Cardinality(Older(c, j)) < Cardinality(Older(c, k))
    <3>1. /\ Cardinality(Older(c, j)) <= Cardinality(Older(c, k))
          /\ Cardinality(Older(c, k)) = Cardinality(Older(c, j)) => Older(c, k) = Older(c, j)
      BY <1>1, <2>1, FS_Subset
    <3>. QED  BY <1>1, <1>5, <2>1, <3>1
  <2>3. Cardinality(Older(c, j)) \in counts
    OBVIOUS
  <2>. QED  BY <1>2, <1>3, <1>4, <2>2, <2>3 DEF OpToRel
<1>. QED  BY <1>5

\* What is evicted brings the rest within the budget: all of it goes, or all that is
\* older than the oldest entry that stays.
LEMMA EvictSuffices ==
  ASSUME NEW c, Sound(c)
  PROVE  /\ Sound(EvictToBudget(c)) /\ EvictToBudget(c).total <= MaxBytes
         /\ DOMAIN EvictToBudget(c).value \subseteq DOMAIN c.value
         /\ \A k \in DOMAIN EvictToBudget(c).value : EvictToBudget(c).value[k] = c.value[k]
<1>. DEFINE all == DOMAIN c.value
            gone == {k \in all : c.total - Size(c, Older(c, k)) > MaxBytes}
            d == EvictToBudget(c)
<1>1. d = Drop(c, gone) /\ gone \in SUBSET all
  BY DEF EvictToBudget
<1>2. /\ Sound(d) /\ DOMAIN d.value = all \ gone /\ d.total = c.total - Size(c, gone)
      /\ \A k \in all \ gone : d.value[k] = c.value[k]
  BY <1>1, DropKeeps
<1>3. /\ IsFiniteSet(all) /\ \A k \in all : SizeOf(c.value[k]) \in Nat
      /\ c.total = Size(c, all)
  BY DEF Sound
<1>4. d.total <= MaxBytes
  <2>1. CASE gone = all
    <3>1. c.total \in Nat
      BY <1>3, BytesFinite
    <3>. QED  BY <1>2, <1>3, <2>1, <3>1, BudgetAssumption
  <2>2. CASE gone # all
    <3>1. PICK k \in all \ gone : Older(c, k) \cap (all \ gone) = {}
      BY <2>2, OldestExists
    <3>2. Older(c, k) \subseteq gone
      BY <3>1 DEF Older
    <3>3. ASSUME NEW j \in gone
          PROVE  j \in Older(c, k)
      <4>1. SUFFICES ASSUME j \notin Older(c, k) PROVE FALSE
        OBVIOUS
      <4>2. Older(c, k) \in SUBSET Older(c, j)
        BY <3>1, <3>3, <4>1 DEF Older, Sound, InOrder
      <4>3. /\ IsFiniteSet(Older(c, j)) /\ \A i \in Older(c, j) : SizeOf(c.value[i]) \in Nat
        BY <1>3, FS_Subset DEF Older
      <4>4. Size(c, Older(c, k)) <= Size(c, Older(c, j))
        BY <4>2, <4>3, SizesAdd
      <4>5. /\ Size(c, Older(c, j)) \in Nat /\ Size(c, Older(c, k)) \in Nat
        BY <4>2, <4>3, SizesAdd
      <4>8. c.total \in Nat
        BY <1>3, BytesFinite
      <4>6. c.total - Size(c, Older(c, j)) > MaxBytes /\ k \notin gone /\ k \in all
        BY <3>3
      <4>7. ~(c.total - Size(c, Older(c, k)) > MaxBytes)
        BY <4>6
      <4>. QED  BY <4>4, <4>5, <4>6, <4>7, <4>8, BudgetAssumption
    <3>4. gone = Older(c, k)
      BY <3>2, <3>3
    <3>5. c.total \in Nat /\ Size(c, gone) \in Nat
      BY <1>3, SizesAdd
    <3>6. ~(c.total - Size(c, Older(c, k)) > MaxBytes)
      BY <3>1
    <3>. QED  BY <1>2, <3>4, <3>5, <3>6, BudgetAssumption
  <2>. QED  BY <2>1, <2>2
<1>. QED  BY <1>1, <1>2, <1>4

\* A key that becomes the most recently used one.
LEMMA MovesToEnd ==
  ASSUME NEW c, InOrder(c.older, DOMAIN c.value), NEW key
  PROVE  InOrder(MoveToEnd(c, key), (DOMAIN c.value) \cup {key})
  BY DEF InOrder, MoveToEnd

LEMMA GetKeeps ==
  ASSUME NEW c, Sound(c), NEW key
  PROVE  Sound(Get(c, key)) /\ Get(c, key).value = c.value /\ Get(c, key).total = c.total
<1>1. CASE ~Cached(c, key)
  BY <1>1 DEF Get
<1>2. CASE Cached(c, key)
  <2>. DEFINE d == Get(c, key)
  <2>1. d = [older |-> MoveToEnd(c, key), value |-> c.value, total |-> c.total, byTs |-> c.byTs]
    BY <1>2 DEF Get, Sound
  <2>2. (DOMAIN c.value) \cup {key} = DOMAIN c.value
    BY <1>2 DEF Cached
  <2>3. InOrder(MoveToEnd(c, key), DOMAIN c.value)
    BY <2>2, MovesToEnd DEF Sound
  <2>4. Size(d, DOMAIN c.value) = Size(c, DOMAIN c.value)
    BY <2>1, SizesOfValues
  <2>. HIDE DEF d
  <2>5. Sound(d)
    BY <2>1, <2>3, <2>4 DEF Sound
  <2>. QED  BY <2>1, <2>5 DEF d
<1>. QED  BY <1>1, <1>2

LEMMA PutSuffices ==
  ASSUME NEW c, Sound(c), NEW key, NEW value, SizeOf(value) \in Nat
  PROVE  /\ Sound(Put(c, key, value)) /\ Put(c, key, value).total <= MaxBytes
         /\ \A k \in DOMAIN Put(c, key, value).value :
               \/ Put(c, key, value).value[k] = value
               \/ k \in DOMAIN c.value /\ Put(c, key, value).value[k] = c.value[k]
<1>. DEFINE all == DOMAIN c.value
            old == IF Cached(c, key) THEN SizeOf(c.value[key]) ELSE 0
            d == [older |-> MoveToEnd(c, key),
                  value |-> [k \in all \cup {key} |-> IF k = key THEN value ELSE c.value[k]],
                  total |-> c.total - old + SizeOf(value),
                  byTs  |-> c.byTs \cup Entries({key})]
<1>1. Put(c, key, value) = EvictToBudget(d)
  BY DEF Put
<1>2. /\ DOMAIN d.value = all \cup {key} /\ d.value[key] = value
      /\ \A k \in all \ {key} : d.value[k] = c.value[k]
      /\ d.older = MoveToEnd(c, key) /\ d.total = c.total - old + SizeOf(value)
      /\ d.byTs = c.byTs \cup Entries({key})
      /\ d = [older |-> d.older, value |-> d.value, total |-> d.total, byTs |-> d.byTs]
  OBVIOUS
<1>3. \A k \in DOMAIN d.value : \/ d.value[k] = value
                                \/ k \in all /\ d.value[k] = c.value[k]
  <2>. SUFFICES ASSUME NEW k \in DOMAIN d.value, k # key
                PROVE  k \in all /\ d.value[k] = c.value[k]
    BY <1>2
  <2>1. k \in all \ {key}
    BY <1>2
  <2>. QED  BY <1>2, <2>1
<1>. HIDE DEF d
<1>4. /\ IsFiniteSet(all) /\ IsFiniteSet(all \cup {key})
      /\ \A k \in all : SizeOf(c.value[k]) \in Nat
      /\ \A k \in all \cup {key} : SizeOf(d.value[k]) \in Nat
  BY <1>2, FS_AddElement DEF Sound
<1>5. d.total = Size(d, all \cup {key})
  <2>. DEFINE more == all \cup {key}
  <2>1. /\ IsFiniteSet(more) /\ key \in more /\ d.value[key] = value
        /\ \A k \in more : SizeOf(d.value[k]) \in Nat
    BY <1>2, <1>4
  <2>2. Size(d, more \ {key}) = Size(c, more \ {key})
    BY <1>2, SizesOfValues
  <2>. HIDE DEF more
  <2>3. /\ Size(d, more) = SizeOf(d.value[key]) + Size(d, more \ {key})
        /\ Size(d, more \ {key}) \in Nat
    BY <2>1, SizeLess
  <2>4. c.total = old + Size(c, more \ {key}) /\ old \in Nat
    <3>1. CASE Cached(c, key)
      <4>1. key \in all /\ more \ {key} = all \ {key}
        BY <3>1 DEF Cached, more
      <4>2. Size(c, all) = SizeOf(c.value[key]) + Size(c, all \ {key})
        BY <1>4, <4>1, SizeLess
      <4>. QED  BY <1>4, <3>1, <4>1, <4>2 DEF Sound
    <3>2. CASE ~Cached(c, key)
      <4>1. more \ {key} = all
        BY <3>2 DEF Cached, more
      <4>2. Size(c, all) \in Nat
        BY <1>4, BytesFinite
      <4>. QED  BY <3>2, <4>1, <4>2 DEF Sound
    <3>. QED  BY <3>1, <3>2
  <2>. HIDE DEF old
  <2>. QED  BY <1>2, <2>1, <2>2, <2>3, <2>4 DEF more
<1>6. d.byTs = Entries(DOMAIN d.value)
  BY <1>2 DEF Sound, Entries
<1>7. InOrder(d.older, DOMAIN d.value)
  BY <1>2, MovesToEnd DEF Sound
<1>8. Sound(d)
  BY <1>2, <1>4, <1>5, <1>6, <1>7 DEF Sound
<1>. QED  BY <1>1, <1>3, <1>8, EvictSuffices

LEMMA EmptySound ==
  /\ Sound(EmptyCache) /\ EmptyCache.total <= MaxBytes
  /\ DOMAIN EmptyCache.value = {}
<1>1. /\ DOMAIN EmptyCache.value = {} /\ EmptyCache.older = {}
      /\ EmptyCache.byTs = {} /\ EmptyCache.total = 0
      /\ EmptyCache = [older |-> EmptyCache.older, value |-> EmptyCache.value,
                       total |-> EmptyCache.total, byTs |-> EmptyCache.byTs]
  BY DEF EmptyCache
<1>2. Size(EmptyCache, {}) = 0 /\ IsFiniteSet({})
  BY FS_EmptySet DEF Size, Bytes
<1>3. InOrder({}, {}) /\ Entries({}) = {}
  BY DEF InOrder, Entries
<1>. QED  BY <1>1, <1>2, <1>3, BudgetAssumption DEF Sound

\* The index of a sound cache names what the map has, so that what it is told to
\* forget goes from both.
LEMMA InvalidateKeeps ==
  ASSUME NEW c, Sound(c), NEW stamps
  PROVE  LET d == InvalidateTimestamps(c, stamps)
         IN  /\ Sound(d) /\ d.total <= c.total
             /\ \A k \in DOMAIN d.value : k \in DOMAIN c.value /\ d.value[k] = c.value[k]
<1>. DEFINE keys == {k \in {e[2] : e \in {e \in c.byTs : e[1] \in stamps}} : Cached(c, k)}
            d == Drop(c, keys)
            i == InvalidateTimestamps(c, stamps)
<1>1. i = [d EXCEPT !.byTs = {e \in c.byTs : e[1] \notin stamps}]
  BY DEF InvalidateTimestamps
<1>2. keys \in SUBSET DOMAIN c.value
  BY DEF Cached
<1>3. /\ Sound(d) /\ DOMAIN d.value = (DOMAIN c.value) \ keys /\ d.total <= c.total
      /\ \A k \in (DOMAIN c.value) \ keys : d.value[k] = c.value[k]
  BY <1>2, DropKeeps
<1>4. keys = {k \in DOMAIN c.value : Indexed(k) /\ k[2] \in stamps}
  <2>1. ASSUME NEW k \in keys
        PROVE  k \in DOMAIN c.value /\ Indexed(k) /\ k[2] \in stamps
    BY DEF Sound, Entries, Cached
  <2>2. ASSUME NEW k \in DOMAIN c.value, Indexed(k), k[2] \in stamps
        PROVE  k \in keys
    <3>1. <<k[2], k>> \in c.byTs
      BY <2>2 DEF Sound, Entries
    <3>. QED  BY <2>2, <3>1 DEF Cached
  <2>. QED  BY <2>1, <2>2
<1>5. {e \in c.byTs : e[1] \notin stamps} = Entries((DOMAIN c.value) \ keys)
  BY <1>4 DEF Sound, Entries
<1>6. d.byTs = Entries((DOMAIN c.value) \ keys)
  BY <1>3 DEF Sound
<1>7. i = d
  <2>. HIDE DEF d, i, keys
  <2>. QED  BY <1>1, <1>3, <1>5, <1>6 DEF Sound
<1>. QED  BY <1>3, <1>7

-----------------------------------------------------------------------------
LEMMA InitCached == Init => CacheInv
<1>. SUFFICES ASSUME Init PROVE CacheInv
  OBVIOUS
<1>. QED  BY EmptySound DEF Init, CacheInv

\* No step of any user of the cache makes its parts disagree.
LEMMA CacheStepKeeps ==
  ASSUME CacheInv, IInv, [Next]_vars
  PROVE  CacheInv'
<1>. DEFINE Values == Runs \cup {Global, Blank}
<1>1. ASSUME NEW d, Sound(d), d.total <= MaxBytes, cache' = d,
             \A k \in DOMAIN d.value : \/ d.value[k] \in Values
                                       \/ k \in DOMAIN cache.value /\ d.value[k] = cache.value[k]
      PROVE  CacheInv'
  BY <1>1 DEF CacheInv
<1>2. Sound(cache) /\ cache.total <= MaxBytes
  BY DEF CacheInv
<1>3. ASSUME NEW c \in Clients, NEW t \in Timestamps, Hit(c, t)
      PROVE  CacheInv'
  BY <1>1, <1>2, <1>3, GetKeeps DEF Hit
<1>4. ASSUME NEW key, NEW value \in Values, cache' = Put(cache, key, value)
      PROVE  CacheInv'
  <2>1. SizeOf(value) \in Nat
    BY SizesAssumption
  <2>. QED  BY <1>1, <1>2, <1>4, <2>1, PutSuffices
<1>5. ASSUME NEW r \in Renders, Return(r)
      PROVE  CacheInv'
  <2>1. render[r].got \in Values
    BY DEF IInv, Typed, RenderState
  <2>2. CASE cache' = Put(cache, GeomKey(render[r].ts), render[r].got)
    BY <1>4, <2>1, <2>2
  <2>3. CASE cache' = cache
    BY <1>1, <1>2, <2>3
  <2>. QED  BY <1>5, <2>2, <2>3 DEF Return
<1>6. CASE OtherTile
  BY <1>4, <1>6 DEF OtherTile
<1>7. ASSUME NEW keys \in SUBSET DOMAIN cache.value, cache' = Drop(cache, keys)
      PROVE  CacheInv'
  <2>. DEFINE d == Drop(cache, keys)
  <2>1. /\ Sound(d) /\ d.total <= cache.total
        /\ \A k \in DOMAIN d.value : k \in DOMAIN cache.value /\ d.value[k] = cache.value[k]
    BY <1>2, DropKeeps
  <2>2. cache.total \in Nat /\ d.total \in Nat
    BY <1>2, <2>1, BytesFinite DEF Sound
  <2>3. d.total <= MaxBytes
    BY <1>2, <2>1, <2>2, BudgetAssumption
  <2>. HIDE DEF d
  <2>. QED  BY <1>1, <1>7, <2>1, <2>3 DEF d
<1>8. CASE Pressure
  <2>1. CASE cache' = EvictHalf(cache)
    BY <1>7, <2>1 DEF EvictHalf
  <2>2. CASE cache' = EmptyCache
    BY <1>1, <2>2, EmptySound
  <2>. QED  BY <1>8, <2>1, <2>2 DEF Pressure
<1>9. CASE Apply
  <2>1. CASE cache' = InvalidateNwpDependent(cache)
    BY <1>7, <2>1 DEF InvalidateNwpDependent
  <2>2. CASE cache' = InvalidateTimestamps(cache, Nowcast)
    <3>. DEFINE d == InvalidateTimestamps(cache, Nowcast)
    <3>1. /\ Sound(d) /\ d.total <= cache.total
          /\ \A k \in DOMAIN d.value : k \in DOMAIN cache.value /\ d.value[k] = cache.value[k]
      BY <1>2, InvalidateKeeps
    <3>2. cache.total \in Nat /\ d.total \in Nat
      BY <1>2, <3>1, BytesFinite DEF Sound
    <3>3. d.total <= MaxBytes
      BY <1>2, <3>1, <3>2, BudgetAssumption
    <3>. HIDE DEF d
    <3>. QED  BY <1>1, <2>2, <3>1, <3>3 DEF d
  <2>. QED  BY <1>9, <2>1, <2>2 DEF Apply, Invalidated
<1>10. CASE UNCHANGED cache
  BY <1>1, <1>2, <1>10
<1>11. ASSUME NEW c \in Clients,
              (\E t \in Timestamps : Miss(c, t)) \/ Lead(c) \/ Join(c) \/ Leave(c)
       PROVE  UNCHANGED cache
  BY <1>11 DEF Miss, Lead, Join, Leave
<1>12. ASSUME NEW r \in Renders, Ask(r) \/ Pick(r) \/ Read(r) \/ Raise(r) \/ Settle(r)
       PROVE  UNCHANGED cache
  BY <1>12 DEF Ask, Pick, Read, Raise, Settle, Goes
<1>13. Admit \/ Start \/ Publish \/ Poll \/ LoadState \/ LoadFrame \/ UNCHANGED vars
         => UNCHANGED cache
  BY DEF Admit, Start, Publish, Poll, LoadState, LoadFrame, vars
<1>. QED  BY <1>3, <1>5, <1>6, <1>8, <1>9, <1>10, <1>11, <1>12, <1>13 DEF Next

THEOREM CacheInvariance == Spec => []CacheInv
<1>. QED  BY InitCached, CacheStepKeeps, InvariantHolds, PTL DEF Spec

\* Whatever its users do to it, the cache's map, order of use, index and sum of
\* sizes agree, and the sum is within the budget (tiles/cache.py).
THEOREM CacheStaysConsistent == Spec => []CacheConsistent
<1>1. CacheInv => CacheConsistent
  BY DEF CacheInv, Sound, CacheConsistent, Consistent
<1>. QED  BY <1>1, CacheInvariance, PTL

-----------------------------------------------------------------------------
(* The poller: what it has seen, loaded and applied.                             *)

Polled ==
  /\ history \in Histories /\ published \in 1 .. Len(history)
  /\ frames \subseteq Runs \X Int
  /\ poll \in [at: {"idle", "loading", "loaded"}, applied: 1 .. published,
               mtime: 1 .. published, seen: 1 .. published, payload: 1 .. published,
               left: SUBSET (Runs \X Int)]

\* The load that follows the look at the modification time finds no earlier
\* publication.
PollInv ==
  /\ Polled /\ GridFollowsApplied
  /\ poll.at = "loaded" => poll.seen <= poll.payload

\* The poller's record with two or three of its fields replaced by what belongs there.
LEMMA PollTyped ==
  ASSUME NEW Seen, NEW Fs, NEW n \in Seen, NEW at \in {"idle", "loading", "loaded"},
         NEW left \in Fs,
         NEW p \in [at: {"idle", "loading", "loaded"}, applied: Seen, mtime: Seen,
                   seen: Seen, payload: Seen, left: Fs]
  PROVE  {[p EXCEPT !.at = at, !.seen = n], [p EXCEPT !.at = at, !.payload = n],
          [p EXCEPT !.at = at, !.payload = n, !.left = left]}
           \subseteq [at: {"idle", "loading", "loaded"}, applied: Seen, mtime: Seen,
                      seen: Seen, payload: Seen, left: Fs]
OBVIOUS

\* A history is of publications, and has one.
LEMMA HistoryKnown ==
  ASSUME NEW h \in Histories
  PROVE  /\ Len(h) \in Nat /\ 1 \in 1 .. Len(h)
         /\ \A i \in 1 .. Len(h) : h[i].frames \subseteq Runs \X Int
<1>1. h \in Seq(Publications) /\ h # << >>
  BY HistoriesAssumption
<1>2. Len(h) \in Nat /\ Len(h) # 0 /\ \A i \in 1 .. Len(h) : h[i] \in Publications
  BY <1>1
<1>. QED  BY <1>2 DEF Publications

LEMMA InitPolled == Init => PollInv
<1>. SUFFICES ASSUME Init PROVE PollInv
  OBVIOUS
<1>1. history[1].frames \subseteq Runs \X Int /\ 1 \in 1 .. Len(history)
  BY HistoryKnown DEF Init
<1>. QED  BY <1>1 DEF Init, PollInv, Polled, GridFollowsApplied

LEMMA PollStepKeeps ==
  ASSUME PollInv, Publish \/ Poll \/ LoadState \/ LoadFrame \/ Apply
  PROVE  PollInv'
<1>1. /\ Len(history) \in Nat /\ published \in 1 .. Len(history)
      /\ \A i \in 1 .. Len(history) : history[i].frames \subseteq Runs \X Int
  BY HistoryKnown DEF PollInv, Polled
<1>2. /\ poll.applied \in 1 .. published /\ poll.mtime \in 1 .. published
      /\ poll.seen \in 1 .. published /\ poll.payload \in 1 .. published
  BY DEF PollInv, Polled
<1>3. published \in 1 .. published
  BY <1>1
<1>4. CASE Publish
  BY <1>1, <1>2, <1>4 DEF Publish, PollInv, Polled, GridFollowsApplied
<1>5. CASE Poll
  <2>1. /\ poll' = [poll EXCEPT !.at = "loading", !.seen = published]
        /\ poll.at = "idle" /\ UNCHANGED <<history, published, frames>>
    BY <1>5 DEF Poll
  <2>2. Polled'
    <3>1. poll' \in [at: {"idle", "loading", "loaded"}, applied: 1 .. published,
                     mtime: 1 .. published, seen: 1 .. published, payload: 1 .. published,
                     left: SUBSET (Runs \X Int)]
      BY <1>3, <2>1, PollTyped DEF PollInv, Polled
    <3>. QED  BY <2>1, <3>1 DEF PollInv, Polled
  <2>3. /\ poll'.at = "loading" /\ poll'.applied = poll.applied
        /\ poll'.mtime = poll.mtime /\ poll'.left = poll.left
    BY <2>1 DEF PollInv, Polled
  <2>. QED  BY <2>1, <2>2, <2>3 DEF PollInv, GridFollowsApplied
<1>6. CASE LoadState
  <2>1. history[published].frames \subseteq Runs \X Int
    BY <1>1
  <2>2. CASE published = poll.applied
    <3>1. /\ poll' = [poll EXCEPT !.at = "loaded", !.payload = published]
          /\ poll.at = "loading" /\ UNCHANGED <<history, published, frames>>
      BY <1>6, <2>2 DEF LoadState
    <3>2. Polled'
      <4>1. poll' \in [at: {"idle", "loading", "loaded"}, applied: 1 .. published,
                       mtime: 1 .. published, seen: 1 .. published, payload: 1 .. published,
                       left: SUBSET (Runs \X Int)]
        BY <1>3, <3>1, PollTyped DEF PollInv, Polled
      <4>. QED  BY <3>1, <4>1 DEF PollInv, Polled
    <3>3. /\ poll'.at = "loaded" /\ poll'.applied = poll.applied
          /\ poll'.mtime = poll.mtime /\ poll'.left = poll.left
          /\ poll'.payload = published /\ poll'.seen = poll.seen
      BY <3>1 DEF PollInv, Polled
    <3>4. poll.seen <= published
      BY <1>1, <1>2
    <3>. QED  BY <2>2, <3>1, <3>2, <3>3, <3>4 DEF PollInv, GridFollowsApplied
  <2>3. CASE published # poll.applied
    <3>1. /\ poll' = [poll EXCEPT !.at = "loaded", !.payload = published,
                                 !.left = history[published].frames]
          /\ poll.at = "loading" /\ frames' = {} /\ UNCHANGED <<history, published>>
      BY <1>6, <2>3 DEF LoadState
    <3>2. Polled'
      <4>1. poll' \in [at: {"idle", "loading", "loaded"}, applied: 1 .. published,
                       mtime: 1 .. published, seen: 1 .. published, payload: 1 .. published,
                       left: SUBSET (Runs \X Int)]
        BY <1>3, <2>1, <3>1, PollTyped DEF PollInv, Polled
      <4>. QED  BY <3>1, <4>1 DEF PollInv, Polled
    <3>3. /\ poll'.at = "loaded" /\ poll'.applied = poll.applied
          /\ poll'.mtime = poll.mtime /\ poll'.left = history[published].frames
          /\ poll'.payload = published /\ poll'.seen = poll.seen
      BY <3>1 DEF PollInv, Polled
    <3>4. poll.seen <= published
      BY <1>1, <1>2
    <3>. QED  BY <3>1, <3>2, <3>3, <3>4 DEF PollInv, GridFollowsApplied
  <2>. QED  BY <2>2, <2>3
<1>7. CASE LoadFrame
  <2>1. PICK f \in poll.left : /\ frames' = frames \cup {f}
                               /\ poll' = [poll EXCEPT !.left = @ \ {f}]
    BY <1>7 DEF LoadFrame
  <2>. QED
    BY <1>1, <1>2, <1>7, <2>1 DEF LoadFrame, PollInv, Polled, GridFollowsApplied
<1>8. CASE Apply
  BY <1>1, <1>2, <1>8 DEF Apply, PollInv, Polled, GridFollowsApplied
<1>. QED  BY <1>4, <1>5, <1>6, <1>7, <1>8

\* Nobody else has a hand in it.
LEMMA OthersKeepPolled ==
  ASSUME PollInv, UNCHANGED polling
  PROVE  PollInv'
BY DEF PollInv, Polled, GridFollowsApplied, polling

LEMMA PolledKept == PollInv /\ [Next]_vars => PollInv'
<1>. SUFFICES ASSUME PollInv, [Next]_vars PROVE PollInv'
  OBVIOUS
<1>1. ASSUME NEW c \in Clients,
             \/ \E t \in Timestamps : Hit(c, t) \/ Miss(c, t)
             \/ Lead(c) \/ Join(c) \/ Leave(c)
      PROVE  UNCHANGED polling
  BY <1>1 DEF Hit, Miss, Lead, Join, Leave
<1>2. ASSUME NEW r \in Renders,
             Ask(r) \/ Pick(r) \/ Read(r) \/ Raise(r) \/ Return(r) \/ Settle(r)
      PROVE  UNCHANGED polling
  BY <1>2 DEF Ask, Pick, Read, Raise, Return, Settle, Goes
<1>3. Admit \/ Start \/ Pressure \/ OtherTile \/ UNCHANGED vars => UNCHANGED polling
  BY DEF Admit, Start, Pressure, OtherTile, vars, polling
<1>. QED  BY <1>1, <1>2, <1>3, PollStepKeeps, OthersKeepPolled DEF Next

THEOREM PollInvariance == Spec => []PollInv
<1>. QED  BY InitPolled, PolledKept, PTL DEF Spec

\* The grid of a worker is, between reloads, that of the publication it applied,
\* for any history of publications and whenever they come (main.py, the regional
\* grids' __setstate__).
THEOREM GridIsApplied == Spec => []GridFollowsApplied
<1>1. PollInv => GridFollowsApplied
  BY DEF PollInv
<1>. QED  BY <1>1, PollInvariance, PTL

\* Requests, renders, queues and the poller keep their shape; the count of the
\* admitted never goes below zero (api/routes.py, tiles/render_queue.py, main.py).
THEOREM TypeCorrect == Spec => []TypeOK
<1>1. IInv /\ PollInv => TypeOK
  BY DEF IInv, Typed, ClientState, RenderState, PollInv, Polled, TypeOK
<1>. QED  BY <1>1, InvariantHolds, PollInvariance, PTL

=============================================================================
