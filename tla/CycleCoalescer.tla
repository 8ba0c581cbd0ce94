--------------------------- MODULE CycleCoalescer ---------------------------
(***************************************************************************)
(* When the pipeline publishes (data/fetcher.py): the radar cycle and the   *)
(* satellite tasks change the stores and trigger the on_cycle_complete      *)
(* hook; _fire_cycle_complete folds the triggers of a debounce window into  *)
(* one run of the hook.                                                     *)
(*                                                                          *)
(* Everything but the hook's writing thread runs on one event loop, so a    *)
(* stretch of code between two awaits is one action.  Versions number the   *)
(* contents of the stores: a trigger is captured when a snapshot of at      *)
(* least its version was taken.                                             *)
(***************************************************************************)
EXTENDS Integers, FiniteSets

CONSTANTS
    Satellites,  \* satellite contributions, each with a background task
    Background,  \* bound: fire-and-forget _fire_cycle_complete tasks at once
    Runners,     \* bound: identities of _cycle_complete_runner tasks
    MaxData,     \* bound: versions of the stores
    MaxFailures, \* bound: cycles and writes that fail
    NoTask

ASSUME ConstantsAssumption ==
    /\ Satellites \cap Background = {}
    /\ NoTask \notin Runners
    /\ MaxData \in Nat /\ MaxFailures \in Nat

VARIABLES
    main,      \* where _backfill_then_loop stands
    aux,       \* this pass has started its satellite fetches
    merged,    \* any_merged of this pass
    sat,       \* sat[s]: the task in _satellite_tasks
    fresh,     \* fresh[s]: the fetch under way has stored new frames
    ghost,     \* ghost[s]: the thread of a fetch that timed out still runs
    started,   \* fire-and-forget tasks created and not yet run
    awaits,    \* awaits[c]: runner that caller c leads, or NoTask
    since,     \* history: since[c], the version a leader or a satellite triggered at
    current,   \* _cycle_complete_task
    runner,    \* runner[t]: where runner t stands
    dirty,     \* _cycle_complete_dirty
    closed,    \* _closed
    data,      \* version of the stores
    asked,     \* history: version of the last trigger accepted
    captured,  \* version of the last snapshot taken
    published, \* version state.json names
    failures   \* history: cycles and writes that failed

loopVars == <<main, aux, merged>>
satVars == <<sat, fresh, ghost>>
callVars == <<started, awaits, since>>
runVars == <<current, runner, dirty>>
dumpVars == <<asked, captured, published>>
vars == <<loopVars, satVars, callVars, runVars, closed, data, dumpVars, failures>>

Callers == Satellites \cup Background

\* Runner tasks that are not done().
Live == {t \in Runners : runner[t] \notin {"free", "done"}}

\* Background tasks that can be created: neither waiting to run nor leading.
Spare == {b \in Background : b \notin started /\ awaits[b] = NoTask}

Init ==
    /\ main = "initial"
    /\ aux = FALSE
    /\ merged = FALSE
    /\ sat = [s \in Satellites |-> "none"]
    /\ fresh = [s \in Satellites |-> FALSE]
    /\ ghost = [s \in Satellites |-> FALSE]
    /\ started = {}
    /\ awaits = [c \in Callers |-> NoTask]
    /\ since = [c \in Callers |-> 0]
    /\ current = NoTask
    /\ runner = [t \in Runners |-> "free"]
    /\ dirty = FALSE
    /\ closed = FALSE
    /\ data = 0
    /\ asked = 0
    /\ captured = 0
    /\ published = 0
    /\ failures = 0

-----------------------------------------------------------------------------
(* The coalescer.                                                           *)

\* Mutant of Pending: a runner that has finished still counts.
PendingForever == current # NoTask

\* A windowed dump is pending.
Pending == current # NoTask /\ current \in Live

\* A task object nobody refers to any more.
Unused(t) ==
    /\ runner[t] \in {"free", "done"}
    /\ t # current
    /\ \A c \in Callers : awaits[c] # t

\* Mutant of Fold: a folded trigger leaves no mark.
FoldSilently == dirty' = dirty

\* Mutant of Fold: the mark is the pending task itself.
FoldTask == dirty' = current

\* A trigger is folded into the pending dump.
Fold == dirty' = TRUE

\* Caller c runs _fire_cycle_complete up to its first suspension.
Fire(c) ==
    IF closed
    THEN UNCHANGED <<awaits, since, runVars, asked>>
    ELSE /\ asked' = data
         /\ \/ /\ Pending
               /\ Fold
               /\ since' = IF c \in Satellites THEN [since EXCEPT ![c] = data] ELSE since
               /\ UNCHANGED <<awaits, current, runner>>
            \/ /\ ~Pending
               /\ \E t \in Runners :
                    /\ Unused(t)
                    /\ runner' = [runner EXCEPT ![t] = "window"]
                    /\ current' = t
                    /\ awaits' = [awaits EXCEPT ![c] = t]
               /\ since' = [since EXCEPT ![c] = data]
               /\ UNCHANGED dirty

\* A fire-and-forget task gets its turn.
RunTrigger(b) ==
    /\ b \in started
    /\ started' = started \ {b}
    /\ Fire(b)
    /\ UNCHANGED <<loopVars, satVars, closed, data, captured, published, failures>>

\* Mutant of Cleared: the attribute is cleared whatever it refers to.
ClearedAlways == NoTask

\* _cycle_complete_task after the finally of a leader.
Cleared == IF Pending THEN current ELSE NoTask

\* The runner that caller c awaits is done, or cancelled: the leader's finally.
Resume(c) ==
    /\ awaits[c] # NoTask
    /\ runner[awaits[c]] = "done"
    /\ awaits' = [awaits EXCEPT ![c] = NoTask]
    /\ current' = Cleared
    /\ \/ /\ c \in Satellites
          /\ sat' = [sat EXCEPT ![c] = "done"]
          /\ UNCHANGED since
       \/ /\ c \in Background
          /\ since' = [since EXCEPT ![c] = 0]
          /\ UNCHANGED sat
    /\ UNCHANGED <<loopVars, fresh, ghost, started, runner, dirty, closed, data,
                   dumpVars, failures>>

\* The debounce window is over: the hook is called.
WindowEnds(t) ==
    /\ runner[t] = "window"
    /\ dirty' = FALSE
    /\ runner' = [runner EXCEPT ![t] = "mask"]
    /\ UNCHANGED <<loopVars, satVars, callVars, current, closed, data, dumpVars,
                   failures>>

\* Mutant of Contents: the payload of the dump before.
ContentsBefore == published

\* What snapshot_state reads: the live stores.
Contents == data

\* The precipitation mask is built, or its failure logged: snapshot_state.
TakeSnapshot(t) ==
    /\ runner[t] = "mask"
    /\ captured' = Contents
    /\ runner' = [runner EXCEPT ![t] = "write"]
    /\ UNCHANGED <<loopVars, satVars, callVars, current, dirty, closed, data,
                   asked, published, failures>>

\* write_state_snapshot has published.
Written(t) ==
    /\ runner[t] = "write"
    /\ published' = captured
    /\ runner' = [runner EXCEPT ![t] = "tail"]
    /\ UNCHANGED <<loopVars, satVars, callVars, current, dirty, closed, data,
                   asked, captured, failures>>

\* write_state_snapshot raised: logged, nothing is published.
WriteFails(t) ==
    /\ runner[t] = "write"
    /\ failures < MaxFailures
    /\ failures' = failures + 1
    /\ runner' = [runner EXCEPT ![t] = "tail"]
    /\ UNCHANGED <<loopVars, satVars, callVars, current, dirty, closed, data,
                   dumpVars>>

\* Mutant of Again: the latch is reset after the hook.
AgainNever == FALSE

\* A trigger came while the hook ran.
Again == dirty

\* The hook returned: a trigger of the meantime gets a window of its own.
HookReturns(t) ==
    /\ runner[t] = "tail"
    /\ dirty' = FALSE
    /\ \/ /\ ~Again
          /\ runner' = [runner EXCEPT ![t] = "done"]
          /\ UNCHANGED current
       \/ /\ Again
          /\ \E u \in Runners :
               /\ Unused(u)
               /\ runner' = [runner EXCEPT ![t] = "done", ![u] = "window"]
               /\ current' = u
    /\ UNCHANGED <<loopVars, satVars, callVars, closed, data, dumpVars, failures>>

-----------------------------------------------------------------------------
(* The radar cycle.                                                         *)

\* A fire-and-forget trigger: asyncio.create_task(_fire_cycle_complete()).
CreateTrigger ==
    \E b \in Spare : started' = started \cup {b}

\* The stores change: a frame of the pass, a nowcast, storm cells.
CycleStores ==
    /\ main \in {"initial", "pass", "derive"}
    /\ data < MaxData
    /\ data' = data + 1
    /\ merged' \in (IF main = "derive" THEN {merged} ELSE {merged, TRUE})
    /\ UNCHANGED <<main, aux, satVars, callVars, runVars, closed, dumpVars, failures>>

\* Mutant of Idle: a task that ended is never replaced.
IdleOnce == {s \in Satellites : sat[s] = "none"}

\* Satellites without a fetch under way.
Idle == {s \in Satellites : sat[s] \in {"none", "done"}}

\* _fetch_auxiliary_grids, its NWP grids gathered, starts the satellites.
StartSatellites ==
    /\ main \in {"initial", "pass"}
    /\ ~aux
    /\ aux' = TRUE
    /\ sat' = [s \in Satellites |-> IF s \in Idle THEN "fetching" ELSE sat[s]]
    /\ UNCHANGED <<main, merged, fresh, ghost, callVars, runVars, closed, data, dumpVars, failures>>

\* The pass is over: a merge triggers, then nowcast and storm cells run.
PassEnds ==
    /\ main \in {"initial", "pass"}
    /\ aux
    /\ IF merged THEN CreateTrigger ELSE UNCHANGED started
    /\ main' = IF main = "initial" THEN "backfill" ELSE "derive"
    /\ aux' = FALSE
    /\ merged' = FALSE
    /\ UNCHANGED <<satVars, awaits, since, runVars, closed, data, dumpVars, failures>>

\* start() has returned: _backfill_then_loop begins; or its sleep is over.
BeginPass ==
    /\ main \in {"backfill", "sleep"}
    /\ main' = "pass"
    /\ UNCHANGED <<aux, merged, satVars, callVars, runVars, closed, data, dumpVars, failures>>

\* End of cycle.
CycleEnds ==
    /\ main = "derive"
    /\ CreateTrigger
    /\ main' = "sleep"
    /\ UNCHANGED <<aux, merged, satVars, awaits, since, runVars, closed, data, dumpVars,
                   failures>>

\* The pass raises: logged, its triggers are skipped.
CycleFails ==
    /\ \/ main = "pass" /\ aux
       \/ main = "derive"
    /\ failures < MaxFailures
    /\ failures' = failures + 1
    /\ main' = "sleep"
    /\ aux' = FALSE
    /\ merged' = FALSE
    /\ UNCHANGED <<satVars, callVars, runVars, closed, data, dumpVars>>

-----------------------------------------------------------------------------
(* The satellite tasks.                                                     *)

\* The fetch thread stores a frame.
SatelliteStores(s) ==
    /\ sat[s] = "fetching"
    /\ data < MaxData
    /\ data' = data + 1
    /\ fresh' = [fresh EXCEPT ![s] = TRUE]
    /\ UNCHANGED <<loopVars, sat, ghost, callVars, runVars, closed, dumpVars, failures>>

\* The fetch returns new frames: the task triggers, and waits if it leads.
SatelliteFires(s) ==
    /\ sat[s] = "fetching"
    /\ fresh[s]
    /\ Fire(s)
    /\ sat' = [sat EXCEPT ![s] = IF awaits'[s] # NoTask THEN "leading" ELSE "done"]
    /\ fresh' = [fresh EXCEPT ![s] = FALSE]
    /\ UNCHANGED <<loopVars, ghost, started, closed, data, captured, published,
                   failures>>

\* The fetch fails or brings nothing new: the task ends.
SatelliteEnds(s) ==
    /\ sat[s] = "fetching"
    /\ sat' = [sat EXCEPT ![s] = "done"]
    /\ fresh' = [fresh EXCEPT ![s] = FALSE]
    /\ UNCHANGED <<loopVars, ghost, callVars, runVars, closed, data, dumpVars,
                   failures>>

\* satellite_fetch_timeout: the task ends, the thread goes on.
SatelliteTimesOut(s) ==
    /\ sat[s] = "fetching"
    /\ sat' = [sat EXCEPT ![s] = "done"]
    /\ fresh' = [fresh EXCEPT ![s] = FALSE]
    /\ ghost' = [ghost EXCEPT ![s] = TRUE]
    /\ UNCHANGED <<loopVars, callVars, runVars, closed, data, dumpVars, failures>>

\* ... and stores a frame nobody triggers for, until it ends.
GhostStores(s) ==
    /\ ghost[s]
    /\ \/ data < MaxData /\ data' = data + 1 /\ UNCHANGED ghost
       \/ ghost' = [ghost EXCEPT ![s] = FALSE] /\ UNCHANGED data
    /\ UNCHANGED <<loopVars, sat, fresh, callVars, runVars, closed, dumpVars, failures>>

-----------------------------------------------------------------------------
(* stop().                                                                  *)

\* _closed is set and a pending dump cancelled.
Stop ==
    /\ ~closed
    /\ main # "initial"
    /\ closed' = TRUE
    /\ runner' = IF Pending THEN [runner EXCEPT ![current] = "cancelled"] ELSE runner
    \* a write already in its thread goes on without its task
    /\ published' \in IF Pending /\ runner[current] = "write" THEN {published, captured}
                      ELSE {published}
    /\ UNCHANGED <<loopVars, satVars, callVars, current, dirty, data, asked, captured,
                   failures>>

\* CancelledError reaches the runner.
Cancelled(t) ==
    /\ runner[t] = "cancelled"
    /\ runner' = [runner EXCEPT ![t] = "done"]
    /\ UNCHANGED <<loopVars, satVars, callVars, current, dirty, closed, data, dumpVars,
                   failures>>

\* The cycle task is cancelled once the dump is gone.
StopCycle ==
    /\ closed
    /\ ~Pending
    /\ main # "stopped"
    /\ main' = "stopped"
    /\ UNCHANGED <<aux, merged, satVars, callVars, runVars, closed, data, dumpVars, failures>>

Dump(t) ==
    \/ WindowEnds(t) \/ TakeSnapshot(t) \/ Written(t) \/ WriteFails(t)
    \/ HookReturns(t) \/ Cancelled(t)

Satellite(s) ==
    \/ SatelliteStores(s) \/ SatelliteFires(s) \/ SatelliteEnds(s)
    \/ SatelliteTimesOut(s) \/ GhostStores(s)

Cycle ==
    \/ CycleStores \/ StartSatellites \/ PassEnds \/ BeginPass \/ CycleEnds
    \/ CycleFails

Next ==
    \/ \E t \in Runners : Dump(t)
    \/ \E b \in Background : RunTrigger(b)
    \/ \E c \in Callers : Resume(c)
    \/ Cycle
    \/ \E s \in Satellites : Satellite(s)
    \/ Stop \/ StopCycle

\* What the event loop guarantees: a task that is ready runs, a timer expires,
\* a thread ends.  Nothing makes a fetch store anything, fail, or stop happen.
Fairness ==
    /\ \A t \in Runners : /\ WF_vars(WindowEnds(t))
                          /\ WF_vars(TakeSnapshot(t))
                          /\ WF_vars(Written(t) \/ WriteFails(t))
                          /\ WF_vars(HookReturns(t))
                          /\ WF_vars(Cancelled(t))
    /\ \A b \in Background : WF_vars(RunTrigger(b))
    /\ \A c \in Callers : WF_vars(Resume(c))
    /\ WF_vars(StartSatellites)
    /\ WF_vars(PassEnds)
    /\ WF_vars(BeginPass)
    /\ WF_vars(CycleEnds \/ CycleFails)
    /\ \A s \in Satellites : WF_vars(SatelliteFires(s) \/ SatelliteEnds(s) \/ SatelliteTimesOut(s))

Spec == Init /\ [][Next]_vars

FairSpec == Spec /\ Fairness

-----------------------------------------------------------------------------
(* Properties.                                                              *)

Stages == {"free", "window", "mask", "write", "tail", "cancelled", "done"}

LoopTypes ==
    /\ main \in {"initial", "backfill", "pass", "derive", "sleep", "stopped"}
    /\ aux \in BOOLEAN /\ merged \in BOOLEAN
    /\ sat \in [Satellites -> {"none", "fetching", "leading", "done"}]
    /\ fresh \in [Satellites -> BOOLEAN]
    /\ ghost \in [Satellites -> BOOLEAN]

RunTypes ==
    /\ started \in SUBSET Background
    /\ awaits \in [Callers -> Runners \cup {NoTask}]
    /\ since \in [Callers -> Nat]
    /\ current \in Runners \cup {NoTask}
    /\ runner \in [Runners -> Stages]
    /\ dirty \in BOOLEAN /\ closed \in BOOLEAN

VersionTypes ==
    /\ data \in Nat /\ asked \in Nat /\ captured \in Nat /\ published \in Nat
    /\ failures \in Nat

\* Every variable has its type.
TypeOK == LoopTypes /\ RunTypes /\ VersionTypes

\* Two runs of the hook, hence two publications, never overlap:
\* write_state_snapshot sweeps every staging directory it finds.
OneDump == \A t, u \in Live : t = u

\* A trigger accepted and not yet captured has a run of the hook ahead that
\* will capture it: the window or the mask of the pending one, or the window
\* that follows it.
Coming ==
    \E t \in Live : \/ runner[t] \in {"window", "mask"}
                    \/ runner[t] \in {"write", "tail"} /\ dirty

NoTriggerLost == asked > captured /\ ~closed => Coming

\* A caller that led its burst finds its change captured when it resumes.
LeaderServed ==
    \A c \in Callers :
        awaits[c] # NoTask /\ runner[awaits[c]] = "done" /\ ~closed => captured >= since[c]

\* No run of the hook is pending once stop() has gone past it.
NothingAfterStop == main = "stopped" => Live = {}

\* Every change of the stores reaches state.json, the frames of a fetch that
\* timed out and of a cycle that failed too, unless the pipeline stops.
ChangesPublished ==
    \A v \in 1 .. MaxData : data >= v ~> (published >= v \/ closed)

\* No satellite channel freezes: it is fetched again and again.
ChannelsAlive ==
    \A s \in Satellites : []<>(sat[s] = "fetching" \/ closed)

-----------------------------------------------------------------------------
(* The inductive invariant behind the safety properties.                    *)

Versions == asked <= data /\ captured <= data

\* The one runner that is not done is the one _cycle_complete_task refers to.
Tracked == \A t \in Live : t = current

\* A leader's change is captured, or its runner has still to take the snapshot.
LeaderAhead ==
    \A c \in Callers :
        awaits[c] # NoTask =>
            /\ since[c] <= data
            /\ closed \/ captured >= since[c] \/ runner[awaits[c]] \in {"window", "mask"}

\* Runners are cancelled by stop() only, which waits for them.
Stopping ==
    /\ \A t \in Runners : runner[t] = "cancelled" => closed
    /\ main = "stopped" => closed /\ Live = {}

\* A task that leads a burst does nothing else.
OneRole ==
    /\ \A b \in started : awaits[b] = NoTask
    /\ \A s \in Satellites : sat[s] # "leading" => awaits[s] = NoTask

IInv ==
    /\ TypeOK
    /\ OneRole
    /\ Versions
    /\ Tracked
    /\ NoTriggerLost
    /\ LeaderAhead
    /\ Stopping
=============================================================================
