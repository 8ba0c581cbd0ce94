------------------------ MODULE CycleCoalescerProofs ------------------------
(***************************************************************************)
(* Proofs about CycleCoalescer, for any number of satellites, of triggers   *)
(* in flight, of versions and of failures: no trigger is lost, no two runs  *)
(* of the hook overlap, a leader finds its change captured, and nothing is  *)
(* left to run after stop().                                                *)
(***************************************************************************)
EXTENDS CycleCoalescer, TLAPS

\* The initial state satisfies the invariant.
LEMMA InitIInv == Init => IInv
  <1> SUFFICES ASSUME Init PROVE IInv
    OBVIOUS
  <1>1. TypeOK
    BY ConstantsAssumption DEF Init, TypeOK, LoopTypes, RunTypes, VersionTypes, Stages, Callers
  <1>2. Live = {}
    BY DEF Init, Live
  <1>3. OneRole
    BY DEF Init, OneRole, Callers
  <1>4. Versions /\ Tracked /\ NoTriggerLost /\ LeaderAhead /\ Stopping
    BY <1>2, ConstantsAssumption
    DEF Init, Versions, Tracked, NoTriggerLost, LeaderAhead, Stopping, Callers
  <1> QED BY <1>1, <1>3, <1>4 DEF IInv

\* Steps that touch neither the runners nor the leaders, and may only make the
\* stores newer.
Apart ==
    /\ UNCHANGED <<awaits, since, runVars, closed, asked, captured>>
    /\ data' \in {data, data + 1}
    /\ main' # "stopped" \/ main = "stopped"

\* The rest of the invariant, besides the types.
Core == Versions /\ Tracked /\ NoTriggerLost /\ LeaderAhead /\ Stopping

\* Such a step preserves it.
LEMMA ApartStep == IInv /\ Apart => Core'
  <1> SUFFICES ASSUME IInv, Apart PROVE Core'
    OBVIOUS
  <1>1. /\ data \in Nat /\ asked \in Nat /\ captured \in Nat /\ since \in [Callers -> Nat]
        /\ data' \in Nat /\ data <= data'
    BY DEF IInv, TypeOK, RunTypes, VersionTypes, Apart
  <1>2. Live' = Live
    BY DEF Apart, runVars, Live
  <1>3. Versions'
    BY <1>1 DEF IInv, Versions, Apart
  <1>4. Tracked' /\ NoTriggerLost'
    BY <1>2 DEF IInv, Tracked, NoTriggerLost, Coming, Apart, runVars
  <1>5. LeaderAhead'
    BY <1>1 DEF IInv, LeaderAhead, Apart, runVars
  <1>6. Stopping'
    BY <1>2 DEF IInv, Stopping, Apart, runVars
  <1> QED BY <1>3, <1>4, <1>5, <1>6 DEF Core

\* A trigger preserves the invariant: it leads a window of its own, or marks
\* the pending one.
LEMMA FireStep ==
  ASSUME IInv, NEW c \in Callers, Fire(c), awaits[c] = NoTask,
         UNCHANGED <<main, closed, data, captured>>
  PROVE  Core'
  <1>0. TypeOK /\ Versions /\ Tracked /\ NoTriggerLost /\ LeaderAhead /\ Stopping
    BY DEF IInv
  <1>1. CASE closed
    <2>1. UNCHANGED <<awaits, since, runVars, asked>>
      BY <1>1 DEF Fire
    <2>2. Apart
      BY <2>1 DEF Apart
    <2> QED BY <2>2, ApartStep
  <1>2. CASE ~closed /\ Pending
    <2>1. /\ asked' = data /\ dirty' = TRUE
          /\ UNCHANGED <<awaits, current, runner>>
          /\ \A d \in Callers : d # c => since'[d] = since[d]
      BY <1>0, <1>2 DEF Fire, Fold, TypeOK, RunTypes, VersionTypes
    <2>2. Live' = Live
      BY <2>1 DEF Live
    <2>3. Versions' /\ Tracked' /\ Stopping'
      BY <1>0, <2>1, <2>2 DEF Versions, Tracked, Stopping, TypeOK, RunTypes, VersionTypes
    <2>4. NoTriggerLost'
      <3>1. current \in Live /\ runner[current] \in Stages \ {"free", "done", "cancelled"}
        BY <1>0, <1>2 DEF Pending, Live, Stopping, TypeOK, RunTypes, VersionTypes
      <3>2. Coming'
        BY <2>1, <2>2, <3>1 DEF Coming, Stages
      <3> QED BY <3>2 DEF NoTriggerLost
    <2>5. LeaderAhead'
      <3> SUFFICES ASSUME NEW d \in Callers, awaits'[d] # NoTask
                   PROVE  /\ since'[d] <= data'
                          /\ \/ closed' \/ captured' >= since'[d]
                             \/ runner'[awaits'[d]] \in {"window", "mask"}
        BY DEF LeaderAhead
      <3>1. d # c
        BY <2>1
      <3> QED BY <1>0, <2>1, <3>1 DEF LeaderAhead
    <2> QED BY <2>3, <2>4, <2>5 DEF Core
  <1>3. CASE ~closed /\ ~Pending
    <2>1. PICK t \in Runners :
            /\ Unused(t)
            /\ runner' = [runner EXCEPT ![t] = "window"]
            /\ current' = t
            /\ awaits' = [awaits EXCEPT ![c] = t]
            /\ since' = [since EXCEPT ![c] = data]
            /\ asked' = data
      BY <1>3 DEF Fire
    <2>2. Live = {}
      BY <1>0, <1>3, ConstantsAssumption DEF Tracked, Pending, Live, TypeOK, RunTypes, VersionTypes
    <2>3. Live' = {t}
      BY <1>0, <2>1, <2>2 DEF Live, TypeOK, RunTypes, VersionTypes
    <2>4. Versions' /\ Tracked'
      BY <1>0, <2>1, <2>3 DEF Versions, Tracked, TypeOK, RunTypes, VersionTypes
    <2>5. NoTriggerLost'
      BY <1>0, <2>1, <2>3 DEF NoTriggerLost, Coming, TypeOK, RunTypes, VersionTypes
    <2>6. Stopping'
      BY <1>0, <1>3, <2>1 DEF Stopping, TypeOK, RunTypes, VersionTypes
    <2>7. LeaderAhead'
      <3> SUFFICES ASSUME NEW d \in Callers, awaits'[d] # NoTask
                   PROVE  /\ since'[d] <= data'
                          /\ \/ closed' \/ captured' >= since'[d]
                             \/ runner'[awaits'[d]] \in {"window", "mask"}
        BY DEF LeaderAhead
      <3>1. CASE d = c
        BY <1>0, <2>1, <3>1 DEF TypeOK, RunTypes, VersionTypes
      <3>2. CASE d # c
        <4>1. awaits[d] # t /\ awaits'[d] = awaits[d] /\ since'[d] = since[d]
          BY <1>0, <2>1, <3>2 DEF Unused, TypeOK, RunTypes, VersionTypes
        <4>2. awaits[d] \in Runners
          BY <1>0, <4>1 DEF TypeOK, RunTypes, VersionTypes
        <4>3. runner'[awaits[d]] = runner[awaits[d]]
          BY <1>0, <2>1, <4>1, <4>2 DEF TypeOK, RunTypes, VersionTypes
        <4> QED BY <1>0, <4>1, <4>3 DEF LeaderAhead
      <3> QED BY <3>1, <3>2
    <2> QED BY <2>4, <2>5, <2>6, <2>7 DEF Core
  <1> QED BY <1>1, <1>2, <1>3

\* A leader that resumes leaves a follow-up window alone.
LEMMA ResumeStep == ASSUME IInv, NEW c \in Callers, Resume(c) PROVE Core'
  <1>0. /\ TypeOK /\ Versions /\ Tracked /\ NoTriggerLost /\ LeaderAhead /\ Stopping
        /\ current' = Cleared
        /\ awaits' = [awaits EXCEPT ![c] = NoTask]
        /\ UNCHANGED <<main, runner, dirty, closed, data, asked, captured>>
        /\ \A d \in Callers : d # c => since'[d] = since[d]
    BY DEF IInv, Resume, loopVars, dumpVars, TypeOK, RunTypes, VersionTypes
  <1>1. Live' = Live
    BY <1>0 DEF Live
  <1>2. Tracked'
    BY <1>0, <1>1 DEF Tracked, Cleared, Pending, Live
  <1>3. Versions' /\ NoTriggerLost' /\ Stopping'
    BY <1>0, <1>1 DEF Versions, NoTriggerLost, Coming, Stopping
  <1>4. LeaderAhead'
    BY <1>0 DEF LeaderAhead, TypeOK, RunTypes, VersionTypes
  <1> QED BY <1>2, <1>3, <1>4 DEF Core

\* A run of the hook goes on by one stage, up to its end.
LEMMA StageStep ==
  ASSUME IInv, NEW t \in Runners,
         WindowEnds(t) \/ TakeSnapshot(t) \/ Written(t) \/ WriteFails(t) \/ Cancelled(t)
  PROVE  Core'
  <1>0. /\ TypeOK /\ Versions /\ Tracked /\ NoTriggerLost /\ LeaderAhead /\ Stopping
        /\ UNCHANGED <<main, awaits, since, current, closed, data, asked>>
        /\ t \in Live
    BY DEF IInv, WindowEnds, TakeSnapshot, Written, WriteFails, Cancelled, Live, loopVars,
           callVars, dumpVars
  <1>1. Live' \subseteq Live /\ \A u \in Live : u = t
    BY <1>0 DEF Live, TypeOK, RunTypes, VersionTypes, Tracked, WindowEnds, TakeSnapshot, Written, WriteFails, Cancelled
  <1>2. Tracked' /\ Stopping'
    BY <1>0, <1>1 DEF Tracked, Stopping, Live, TypeOK, RunTypes, VersionTypes, WindowEnds, TakeSnapshot, Written,
                      WriteFails, Cancelled
  <1>3. CASE WindowEnds(t)
    <2>1. /\ runner[t] = "window" /\ runner' = [runner EXCEPT ![t] = "mask"]
          /\ UNCHANGED captured
      BY <1>3 DEF WindowEnds, dumpVars
    <2>2. Versions'
      BY <1>0, <2>1 DEF Versions
    <2>3. t \in Live' /\ runner'[t] = "mask"
      BY <1>0, <2>1 DEF Live, TypeOK, RunTypes, VersionTypes
    <2>4. NoTriggerLost'
      BY <2>3 DEF NoTriggerLost, Coming
    <2>5. LeaderAhead'
      BY <1>0, <2>1 DEF LeaderAhead, TypeOK, RunTypes, VersionTypes
    <2> QED BY <1>2, <2>2, <2>4, <2>5 DEF Core
  <1>4. CASE TakeSnapshot(t)
    <2>1. captured' = data
      BY <1>4 DEF TakeSnapshot, Contents
    <2> QED BY <1>0, <1>2, <2>1
            DEF Core, Versions, NoTriggerLost, LeaderAhead, TypeOK, RunTypes, VersionTypes
  <1>5. CASE Written(t) \/ WriteFails(t)
    <2>1. /\ runner[t] = "write" /\ runner' = [runner EXCEPT ![t] = "tail"]
          /\ UNCHANGED <<captured, dirty>>
      BY <1>5 DEF Written, WriteFails, dumpVars
    <2>2. Versions'
      BY <1>0, <2>1 DEF Versions
    <2>3. NoTriggerLost'
      <3>1. t \in Live' /\ runner'[t] = "tail"
        BY <1>0, <2>1 DEF Live, TypeOK, RunTypes, VersionTypes
      <3>2. Coming => dirty
        BY <1>1, <2>1 DEF Coming
      <3> QED BY <1>0, <2>1, <3>1, <3>2 DEF NoTriggerLost, Coming
    <2>4. LeaderAhead'
      BY <1>0, <2>1 DEF LeaderAhead, TypeOK, RunTypes, VersionTypes
    <2> QED BY <1>2, <2>2, <2>3, <2>4 DEF Core
  <1>6. CASE Cancelled(t)
    <2>1. closed /\ UNCHANGED captured
      BY <1>0, <1>6 DEF Cancelled, Stopping, dumpVars
    <2> QED BY <1>0, <1>2, <2>1
            DEF Core, Versions, NoTriggerLost, LeaderAhead, TypeOK, RunTypes, VersionTypes
  <1> QED BY <1>3, <1>4, <1>5, <1>6

\* The end of a run: what came meanwhile gets a window of its own.
LEMMA ReturnStep == ASSUME IInv, NEW t \in Runners, HookReturns(t) PROVE Core'
  <1>0. /\ TypeOK /\ Versions /\ Tracked /\ NoTriggerLost /\ LeaderAhead /\ Stopping
        /\ runner[t] = "tail" /\ t \in Live
        /\ UNCHANGED <<main, awaits, since, closed, data, asked, captured>>
    BY DEF IInv, HookReturns, Live, loopVars, callVars, dumpVars
  <1>1. \A u \in Live : u = t
    BY <1>0 DEF Tracked
  <1>2. Versions'
    BY <1>0 DEF Versions
  <1>3. CASE ~dirty
    <2>1. runner' = [runner EXCEPT ![t] = "done"] /\ UNCHANGED current
      BY <1>3 DEF HookReturns, Again
    <2>2. Live' = {}
      BY <1>0, <1>1, <2>1 DEF Live, TypeOK, RunTypes, VersionTypes
    <2>3. NoTriggerLost'
      <3>1. ~Coming
        BY <1>0, <1>1, <1>3 DEF Coming
      <3> QED BY <1>0, <3>1 DEF NoTriggerLost
    <2>4. LeaderAhead'
      BY <1>0, <2>1 DEF LeaderAhead, TypeOK, RunTypes, VersionTypes
    <2>5. Tracked' /\ Stopping'
      BY <1>0, <2>1, <2>2 DEF Tracked, Stopping, TypeOK, RunTypes, VersionTypes
    <2> QED BY <1>2, <2>3, <2>4, <2>5 DEF Core
  <1>4. CASE dirty
    <2>1. PICK u \in Runners :
            /\ Unused(u)
            /\ runner' = [runner EXCEPT ![t] = "done", ![u] = "window"]
            /\ current' = u
      BY <1>4 DEF HookReturns, Again
    <2>2. u # t
      BY <1>0, <2>1 DEF Unused
    <2>3. Live' = {u} /\ runner'[u] = "window"
      BY <1>0, <1>1, <2>1, <2>2 DEF Live, TypeOK, RunTypes, VersionTypes
    <2>4. Tracked' /\ NoTriggerLost'
      BY <2>1, <2>3 DEF Tracked, NoTriggerLost, Coming
    <2>5. Stopping'
      BY <1>0, <2>1, <2>2 DEF Stopping, TypeOK, RunTypes, VersionTypes
    <2>6. LeaderAhead'
      <3> SUFFICES ASSUME NEW c \in Callers, awaits[c] # NoTask
                   PROVE  /\ since[c] <= data
                          /\ closed \/ captured >= since[c] \/ runner'[awaits[c]] \in {"window", "mask"}
        BY <1>0 DEF LeaderAhead
      <3>1. awaits[c] \in Runners /\ awaits[c] # u
        BY <1>0, <2>1 DEF TypeOK, RunTypes, VersionTypes, Unused
      <3>2. runner[awaits[c]] \in {"window", "mask"} => runner'[awaits[c]] = runner[awaits[c]]
        BY <1>0, <2>1, <3>1 DEF TypeOK, RunTypes, VersionTypes
      <3> QED BY <1>0, <3>2 DEF LeaderAhead
    <2> QED BY <1>2, <2>4, <2>5, <2>6 DEF Core
  <1> QED BY <1>3, <1>4

\* stop() cancels the pending dump.
LEMMA StopStep == IInv /\ Stop => Core'
  <1> SUFFICES ASSUME IInv, Stop PROVE Core'
    OBVIOUS
  <1>0. /\ TypeOK /\ Versions /\ Tracked /\ LeaderAhead /\ Stopping
        /\ ~closed /\ closed' = TRUE
        /\ runner' = IF Pending THEN [runner EXCEPT ![current] = "cancelled"] ELSE runner
        /\ UNCHANGED <<main, awaits, since, current, data, asked, captured>>
    BY DEF IInv, Stop, loopVars, callVars
  <1>1. Live' = Live
    BY <1>0 DEF Live, Pending, TypeOK, RunTypes, VersionTypes
  <1>2. Versions' /\ Tracked' /\ Stopping'
    BY <1>0, <1>1 DEF Versions, Tracked, Stopping
  <1>3. NoTriggerLost' /\ LeaderAhead'
    BY <1>0 DEF NoTriggerLost, LeaderAhead
  <1> QED BY <1>2, <1>3 DEF Core

\* The cycle task goes after it.
LEMMA StopCycleStep == IInv /\ StopCycle => Core'
  <1> SUFFICES ASSUME IInv, StopCycle PROVE Core'
    OBVIOUS
  <1>0. /\ TypeOK /\ Versions /\ Tracked /\ NoTriggerLost /\ LeaderAhead /\ Stopping
        /\ closed /\ ~Pending
        /\ UNCHANGED <<awaits, since, current, runner, dirty, closed, data, asked, captured>>
    BY DEF IInv, StopCycle, callVars, runVars, dumpVars
  <1>1. Live = {} /\ Live' = {}
    BY <1>0, ConstantsAssumption DEF Tracked, Pending, Live, TypeOK, RunTypes, VersionTypes
  <1>2. Stopping' /\ Tracked'
    BY <1>0, <1>1 DEF Stopping, Tracked
  <1>3. Versions' /\ NoTriggerLost' /\ LeaderAhead'
    BY <1>0 DEF Versions, NoTriggerLost, LeaderAhead
  <1> QED BY <1>2, <1>3 DEF Core

\* What a trigger leaves of the types.
LEMMA FireTypes ==
  ASSUME TypeOK, NEW c \in Callers, Fire(c)
  PROVE  /\ awaits' \in [Callers -> Runners \cup {NoTask}] /\ since' \in [Callers -> Nat]
         /\ current' \in Runners \cup {NoTask} /\ runner' \in [Runners -> Stages]
         /\ dirty' \in BOOLEAN /\ asked' \in Nat
         /\ \A d \in Callers : d # c => awaits'[d] = awaits[d]
  <1>1. CASE closed
    BY <1>1 DEF Fire, TypeOK, RunTypes, VersionTypes, runVars
  <1>2. CASE ~closed /\ Pending
    BY <1>2 DEF Fire, Fold, TypeOK, RunTypes, VersionTypes
  <1>3. CASE ~closed /\ ~Pending
    BY <1>3 DEF Fire, TypeOK, RunTypes, VersionTypes, Stages
  <1> QED BY <1>1, <1>2, <1>3

\* Every step preserves the declared types and the roles of the tasks.
LEMMA StepTypes == IInv /\ [Next]_vars => TypeOK' /\ OneRole'
  <1> SUFFICES ASSUME TypeOK, LoopTypes, RunTypes, VersionTypes, OneRole, [Next]_vars
               PROVE  TypeOK' /\ OneRole'
    BY DEF IInv, TypeOK
  <1> USE DEF loopVars, satVars, callVars, runVars, dumpVars
  <1>1. CASE UNCHANGED vars
    BY <1>1 DEF vars, TypeOK, LoopTypes, RunTypes, VersionTypes, OneRole
  <1>2. ASSUME NEW t \in Runners, Dump(t) PROVE TypeOK' /\ OneRole'
    <2>1. OneRole'
      BY <1>2 DEF OneRole, Dump, WindowEnds, TakeSnapshot, Written, WriteFails, HookReturns,
                  Cancelled
    <2>2. LoopTypes'
      BY <1>2 DEF LoopTypes, Dump, WindowEnds, TakeSnapshot, Written, WriteFails, HookReturns,
                  Cancelled
    <2>3. VersionTypes'
      BY <1>2 DEF VersionTypes, Dump, WindowEnds, TakeSnapshot, Contents, Written, WriteFails,
                  HookReturns, Cancelled
    <2>4. RunTypes'
      <3>1. CASE WindowEnds(t) \/ TakeSnapshot(t) \/ Cancelled(t)
        BY <3>1 DEF RunTypes, WindowEnds, TakeSnapshot, Cancelled, Stages
      <3>2. CASE Written(t) \/ WriteFails(t)
        BY <3>2 DEF RunTypes, Written, WriteFails, Stages
      <3>3. CASE HookReturns(t)
        BY <3>3 DEF RunTypes, HookReturns, Stages
      <3> QED BY <1>2, <3>1, <3>2, <3>3 DEF Dump
    <2> QED BY <2>1, <2>2, <2>3, <2>4 DEF TypeOK
  <1>3. ASSUME NEW b \in Background, RunTrigger(b) PROVE TypeOK' /\ OneRole'
    <2>1. Fire(b) /\ b \in Callers
      BY <1>3 DEF RunTrigger, Callers
    <2>2. TypeOK'
      BY <1>3, <2>1, FireTypes DEF TypeOK, LoopTypes, RunTypes, VersionTypes, RunTrigger
    <2>3. OneRole'
      <3>1. \A d \in Callers : d # b => awaits'[d] = awaits[d]
        BY <2>1, FireTypes
      <3> QED BY <1>3, <3>1, ConstantsAssumption DEF OneRole, RunTrigger, Callers, RunTypes
    <2> QED BY <2>2, <2>3
  <1>4. ASSUME NEW c \in Callers, Resume(c) PROVE TypeOK' /\ OneRole'
    <2>1. TypeOK'
      BY <1>4 DEF TypeOK, LoopTypes, RunTypes, VersionTypes, Resume, Cleared
    <2>2. OneRole'
      BY <1>4 DEF OneRole, Resume, Callers, RunTypes, LoopTypes
    <2> QED BY <2>1, <2>2
  <1>5. CASE Cycle
    <2>1. LoopTypes'
      BY <1>5 DEF LoopTypes, Cycle, CycleStores, StartSatellites, PassEnds, BeginPass, CycleEnds,
                  CycleFails
    <2>3. RunTypes'
      BY <1>5 DEF RunTypes, Cycle, CycleStores, StartSatellites, PassEnds, BeginPass, CycleEnds,
                  CycleFails, CreateTrigger, Spare
    <2>4. VersionTypes'
      <3>1. CASE CycleStores
        BY <3>1 DEF VersionTypes, CycleStores
      <3>4. CASE CycleFails
        BY <3>4 DEF VersionTypes, CycleFails
      <3>2. CASE StartSatellites \/ PassEnds
        BY <3>2 DEF VersionTypes, StartSatellites, PassEnds
      <3>3. CASE BeginPass \/ CycleEnds
        BY <3>3 DEF VersionTypes, BeginPass, CycleEnds
      <3> QED BY <1>5, <3>1, <3>2, <3>3, <3>4 DEF Cycle
    <2>2. OneRole'
      BY <1>5 DEF OneRole, RunTypes, LoopTypes, Cycle, CycleStores, StartSatellites, PassEnds, BeginPass,
                  CycleEnds, CycleFails, CreateTrigger, Spare, Idle
    <2> QED BY <2>1, <2>2, <2>3, <2>4 DEF TypeOK
  <1>6. ASSUME NEW s \in Satellites, SatelliteFires(s) PROVE TypeOK' /\ OneRole'
    <2>1. Fire(s) /\ s \in Callers
      BY <1>6 DEF SatelliteFires, Callers
    <2>2. TypeOK'
      BY <1>6, <2>1, FireTypes DEF TypeOK, LoopTypes, RunTypes, VersionTypes, SatelliteFires
    <2>3. OneRole'
      <3>1. \A d \in Callers : d # s => awaits'[d] = awaits[d]
        BY <2>1, FireTypes
      <3> QED BY <1>6, <3>1, ConstantsAssumption DEF OneRole, SatelliteFires, Callers, RunTypes, LoopTypes
    <2> QED BY <2>2, <2>3
  <1>7. ASSUME NEW s \in Satellites,
               SatelliteStores(s) \/ SatelliteEnds(s) \/ SatelliteTimesOut(s) \/ GhostStores(s)
        PROVE  TypeOK' /\ OneRole'
    <2>1. LoopTypes'
      BY <1>7 DEF LoopTypes, SatelliteStores, SatelliteEnds, SatelliteTimesOut, GhostStores
    <2>3. RunTypes' /\ VersionTypes'
      BY <1>7 DEF RunTypes, VersionTypes, SatelliteStores, SatelliteEnds, SatelliteTimesOut,
                  GhostStores
    <2>2. OneRole'
      BY <1>7 DEF OneRole, LoopTypes, SatelliteStores, SatelliteEnds, SatelliteTimesOut, GhostStores
    <2> QED BY <2>1, <2>2, <2>3 DEF TypeOK
  <1>8. CASE Stop \/ StopCycle
    <2>1. TypeOK'
      BY <1>8 DEF TypeOK, LoopTypes, RunTypes, VersionTypes, Stop, StopCycle, Stages
    <2>2. OneRole'
      BY <1>8 DEF OneRole, Stop, StopCycle
    <2> QED BY <2>1, <2>2
  <1> QED BY <1>1, <1>2, <1>3, <1>4, <1>5, <1>6, <1>7, <1>8 DEF Next, Satellite

\* Every step preserves the rest of the invariant.
LEMMA StepCore == IInv /\ [Next]_vars => Core'
  <1> SUFFICES ASSUME IInv, [Next]_vars PROVE Core'
    OBVIOUS
  <1>1. CASE UNCHANGED vars
    <2>1. Apart
      BY <1>1 DEF Apart, vars, loopVars, callVars, runVars, dumpVars
    <2> QED BY <2>1, ApartStep
  <1>2. ASSUME NEW t \in Runners, Dump(t) PROVE Core'
    BY <1>2, StageStep, ReturnStep DEF Dump
  <1>3. ASSUME NEW b \in Background, RunTrigger(b) PROVE Core'
    <2>1. b \in Callers /\ Fire(b) /\ awaits[b] = NoTask
          /\ UNCHANGED <<main, closed, data, captured>>
      BY <1>3 DEF RunTrigger, Callers, IInv, OneRole, loopVars
    <2> QED BY <2>1, FireStep
  <1>4. ASSUME NEW c \in Callers, Resume(c) PROVE Core'
    BY <1>4, ResumeStep
  <1>5. CASE Cycle
    <2>1. CASE CycleStores \/ StartSatellites
      <3>1. Apart
        BY <2>1 DEF Apart, CycleStores, StartSatellites, callVars, dumpVars
      <3> QED BY <3>1, ApartStep
    <2>2. CASE PassEnds \/ BeginPass
      <3>1. Apart
        BY <2>2 DEF Apart, PassEnds, BeginPass, callVars, dumpVars
      <3> QED BY <3>1, ApartStep
    <2>3. CASE CycleEnds \/ CycleFails
      <3>1. Apart
        BY <2>3 DEF Apart, CycleEnds, CycleFails, callVars, dumpVars
      <3> QED BY <3>1, ApartStep
    <2> QED BY <1>5, <2>1, <2>2, <2>3 DEF Cycle
  <1>6. ASSUME NEW s \in Satellites, SatelliteFires(s) PROVE Core'
    <2>1. s \in Callers /\ Fire(s) /\ awaits[s] = NoTask
          /\ UNCHANGED <<main, closed, data, captured>>
      BY <1>6 DEF SatelliteFires, Callers, IInv, OneRole, loopVars
    <2> QED BY <2>1, FireStep
  <1>7. ASSUME NEW s \in Satellites,
               SatelliteStores(s) \/ SatelliteEnds(s) \/ SatelliteTimesOut(s) \/ GhostStores(s)
        PROVE  Core'
    <2>1. Apart
      BY <1>7 DEF Apart, SatelliteStores, SatelliteEnds, SatelliteTimesOut, GhostStores, loopVars,
                  callVars, dumpVars
    <2> QED BY <2>1, ApartStep
  <1>8. CASE Stop
    BY <1>8, StopStep
  <1>9. CASE StopCycle
    BY <1>9, StopCycleStep
  <1> QED
    BY <1>1, <1>2, <1>3, <1>4, <1>5, <1>6, <1>7, <1>8, <1>9 DEF Next, Satellite

\* IInv is an invariant of the coalescer.
THEOREM CoalescerInvariance == Spec => []IInv
  <1>1. IInv /\ [Next]_vars => IInv'
    BY StepTypes, StepCore DEF IInv, Core
  <1> QED BY InitIInv, <1>1, PTL DEF Spec

\* A trigger that _fire_cycle_complete accepted is captured already, or a run
\* of the hook that will capture it is pending.
THEOREM TriggersSafe == Spec => []NoTriggerLost
  <1>1. IInv => NoTriggerLost
    BY DEF IInv
  <1> QED BY <1>1, CoalescerInvariance, PTL

\* Two runs of the hook never overlap.
THEOREM DumpsDoNotOverlap == Spec => []OneDump
  <1>1. IInv => OneDump
    BY DEF IInv, Tracked, OneDump
  <1> QED BY <1>1, CoalescerInvariance, PTL

\* A caller that led its burst finds its change captured when it resumes.
THEOREM LeadersSafe == Spec => []LeaderServed
  <1>1. IInv => LeaderServed
    BY DEF IInv, LeaderAhead, LeaderServed
  <1> QED BY <1>1, CoalescerInvariance, PTL

\* Nothing is left to run once stop() has gone past the dump.
THEOREM StopIsFinal == Spec => []NothingAfterStop
  <1>1. IInv => NothingAfterStop
    BY DEF IInv, Stopping, NothingAfterStop
  <1> QED BY <1>1, CoalescerInvariance, PTL
=============================================================================
