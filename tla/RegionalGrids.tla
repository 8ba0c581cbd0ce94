---------------------------- MODULE RegionalGrids ----------------------------
(***************************************************************************)
(* The fetch cycle of the regional weather models: which runs and forecast *)
(* steps a cycle asks for, which of them land when some files cannot be    *)
(* had, the synthetic frames put between them, what is evicted, and which  *)
(* run then answers for a time.                                            *)
(*                                                                         *)
(* The nine grids share the outline and differ in the arithmetic at the    *)
(* edges of the window, which is where they have gone wrong before; each   *)
(* has a section of its own here.  kind says which grid a behaviour is of. *)
(* Times and leads are in units of five minutes.  A frame is the pair of   *)
(* its run and its lead; arrays, masks for snow and downloads inside a     *)
(* cycle are left out.  frames holds what was decoded from the upstream's  *)
(* files and synthetic what interpolation made: the program keeps both in  *)
(* one map and cannot tell them apart, nor can a definition here that      *)
(* reads their union.                                                      *)
(***************************************************************************)
EXTENDS Integers, FiniteSets

CONSTANTS
    Kinds,      \* the grids considered
    Windows,    \* pairs of history and horizon (max_frames, nowcast_frames)
    Starts,     \* times of the first cycle
    Gap,        \* time from one cycle to the next
    Cycles,     \* bound: cycles of a behaviour
    MaxFaults   \* bound: cycles that miss files, and restarts

Hour == 12
Quarter == 3
Stored == 2     \* STORED_INTERVAL_SECONDS

GridNames == {"hrrr", "hrrr_alaska", "hrdps", "icon_eu", "dmi_dini", "wrf_smn",
              "jma_msm", "arome"}

ASSUME ConstantsAssumption ==
    /\ Kinds \subseteq GridNames
    /\ Windows \subseteq (Nat \X Nat)
    /\ Starts \subseteq Nat
    /\ Gap \in Nat \ {0} /\ Cycles \in Nat /\ MaxFaults \in Nat

VARIABLES
    kind,       \* the grid
    history,    \* how far back the window goes
    horizon,    \* how far ahead
    flow,       \* regional_interpolation
    now,        \* the time of the last cycle
    frames,     \* _frames: decoded from a file
    synthetic,  \* _frames: made by interpolation
    accum,      \* _accum: accumulated precipitation by run and hour
    memo,       \* _interpolated_runs
    last,       \* the last cycle: whether no file was missing, what it downloaded
    cycles,     \* cycles so far
    faults      \* faults so far

vars == <<kind, history, horizon, flow, now, frames, synthetic, accum, memo,
          last, cycles, faults>>

settings == <<kind, history, horizon, flow>>

Least(a, b) == IF a < b THEN a ELSE b
Greatest(a, b) == IF a < b THEN b ELSE a
Floor(t, unit) == (t \div unit) * unit
HoursUp(t) == -((-t) \div Hour)
HoursDown(t) == t \div Hour
InHours(hours) == {h * Hour : h \in hours}

-----------------------------------------------------------------------------
(* What each grid is: its cycle, the delay after which a run is taken for  *)
(* published, the step between its files, and the first and last lead it   *)
(* can be sampled at.                                                      *)

HRRR == [cycle |-> Hour, delay |-> 11, step |-> Quarter, first |-> Quarter,
         reach |-> 18 * Hour]
HRRRAlaska == [cycle |-> 3 * Hour, delay |-> 16, step |-> Hour, first |-> 0,
               reach |-> 48 * Hour]
HRDPS == [cycle |-> 6 * Hour, delay |-> 4 * Hour, step |-> Hour, first |-> 0,
          reach |-> 48 * Hour]
ICONEU == [cycle |-> 3 * Hour, delay |-> 4 * Hour, step |-> Hour, first |-> 0,
           reach |-> 30 * Hour]
DMIDINI == [cycle |-> 3 * Hour, delay |-> 3 * Hour, step |-> Hour, first |-> 0,
            reach |-> 60 * Hour]
WRFSMN == [cycle |-> 6 * Hour, delay |-> 4 * Hour, step |-> Hour, first |-> 0,
           reach |-> 72 * Hour]
JMAMSM == [cycle |-> 3 * Hour, delay |-> 5 * Hour, step |-> Hour, first |-> 0,
           reach |-> 39 * Hour]
AROME == [cycle |-> 6 * Hour, delay |-> 7 * Hour, step |-> Hour, first |-> 0,
          reach |-> 48 * Hour]

Grid == CASE kind = "hrrr" -> HRRR
          [] kind = "hrrr_alaska" -> HRRRAlaska
          [] kind = "hrdps" -> HRDPS
          [] kind = "icon_eu" -> ICONEU
          [] kind = "dmi_dini" -> DMIDINI
          [] kind = "wrf_smn" -> WRFSMN
          [] kind = "jma_msm" -> JMAMSM
          [] OTHER -> AROME

WindowStart(t) == t - history
WindowEnd(t) == t + horizon
LatestPublishedRun(t) == Floor(t - Grid.delay, Grid.cycle)

\* The runs from earliest to the latest published one; none if it is later.
RunsFrom(earliest, t) ==
    {earliest + i * Grid.cycle :
        i \in 0 .. ((LatestPublishedRun(t) - earliest) \div Grid.cycle)}

\* Two cycles back, and not before the cycle that covers the window's start.
LookbackEarliest(t) ==
    Greatest(Floor(WindowStart(t) - Grid.cycle, Grid.cycle),
             LatestPublishedRun(t) - 2 * Grid.cycle)
LookbackRuns(t) == RunsFrom(LookbackEarliest(t), t)

\* The leads of a run that overlap the window widened by slack.
MinLead(run, t, slack) == Greatest(0, WindowStart(t) - run - slack)
MaxLead(run, t, slack) == Least(Grid.reach, WindowEnd(t) - run + slack)

\* The hours a cycle asks for; a run whose leads miss the window asks for none.
Asked(lo, hi, hours) == IF hi < lo THEN {} ELSE InHours(hours)

\* A frame valid at v survives the cycle at t.
WithinSlack(v, t, below, above) ==
    WindowStart(t) - below <= v /\ v <= WindowEnd(t) + above

-----------------------------------------------------------------------------
(* HRRR: an hour file holds four leads, and is read whole. *)

HRRRRuns(t) == RunsFrom(Floor(WindowStart(t) - Quarter, Hour), t)
HRRRLeads(run, t) ==
    LET lo == Greatest(Quarter, WindowStart(t) - run - Quarter)
        hi == MaxLead(run, t, Quarter)
    IN  IF hi < lo THEN {}
        ELSE {q * Quarter : q \in (4 * (Greatest(1, HoursUp(lo)) - 1) + 1)
                                  .. 4 * Least(18, HoursUp(hi))}
HRRRKeeps(v, t) == WithinSlack(v, t, Quarter, Quarter)

(* HRRR-Alaska: one step to a file, the window widened by an hour and then *)
(* rounded outwards.                                                       *)

AlaskaRuns(t) == RunsFrom(Floor(WindowStart(t) - Hour, Grid.cycle), t)
AlaskaLeads(run, t) ==
    LET lo == MinLead(run, t, Hour)
        hi == MaxLead(run, t, Hour)
    IN  Asked(lo, hi, HoursDown(lo) .. Least(48, HoursUp(hi)))
AlaskaKeeps(v, t) == WithinSlack(v, t, Hour, Hour)

(* HRDPS: the same rounding, and no file for step 0. *)

HRDPSLeads(run, t) ==
    LET lo == MinLead(run, t, Hour)
        hi == MaxLead(run, t, Hour)
    IN  Asked(lo, hi, Greatest(1, HoursDown(lo)) .. Least(48, HoursUp(hi)))
HRDPSKeeps(v, t) == WithinSlack(v, t, Hour, Hour)

(* ICON-EU, DMI-DINI and WRF-SMN publish accumulations, and start one step *)
(* earlier, for the difference.                                            *)

ICONLeads(run, t) ==
    LET lo == MinLead(run, t, Hour)
        hi == MaxLead(run, t, 0)
    IN  Asked(lo, hi, Greatest(0, HoursDown(lo) - 1) .. Least(30, HoursDown(hi) + 1))
\* Mutant: eviction at the window's edges.
ICONKeepsWindow(v, t) == WithinSlack(v, t, 0, 0)
ICONKeeps(v, t) == WithinSlack(v, t, 3 * Hour, Hour)

\* Mutant: the leads reach as far past the window as they used to.
DMILeadsPastWindow(run, t) ==
    LET lo == MinLead(run, t, Hour)
        hi == MaxLead(run, t, Hour)
    IN  Asked(lo, hi, Greatest(0, HoursDown(lo) - 1) .. Least(60, HoursDown(hi) + 1))

DMILeads(run, t) ==
    LET lo == MinLead(run, t, Hour)
        hi == MaxLead(run, t, 0)
    IN  Asked(lo, hi, Greatest(0, HoursDown(lo) - 1) .. Least(60, HoursDown(hi) + 1))
DMIKeeps(v, t) == WithinSlack(v, t, 3 * Hour, Hour)

WRFLeads(run, t) ==
    LET lo == MinLead(run, t, Hour)
        hi == MaxLead(run, t, 0)
    IN  Asked(lo, hi, Greatest(0, HoursDown(lo) - 1) .. Least(72, HoursDown(hi) + 1))
WRFKeeps(v, t) == WithinSlack(v, t, 3 * Hour, Hour)

(* JMA-MSM publishes rates: no step is needed before the window's. *)

JMALeads(run, t) ==
    LET lo == MinLead(run, t, 0)
        hi == MaxLead(run, t, 0)
    IN  Asked(lo, hi, HoursDown(lo) .. Least(39, HoursDown(hi) + 1))
JMAKeeps(v, t) == WithinSlack(v, t, Hour, Hour)

(* AROME's delay is longer than its cycle, which would push the earliest   *)
(* run past the latest: it is clamped.  Its leads are rounded inwards, to  *)
(* what eviction keeps.                                                    *)

\* Mutant: the earliest run is not clamped.
AROMERunsUnclamped(t) == RunsFrom(LookbackEarliest(t), t)
AROMERuns(t) == RunsFrom(Least(LatestPublishedRun(t), LookbackEarliest(t)), t)
AROMELeads(run, t) ==
    LET lo == MinLead(run, t, Hour)
        hi == MaxLead(run, t, Hour)
    IN  Asked(lo, hi, HoursUp(lo) .. Least(48, HoursDown(hi)))
AROMEKeeps(v, t) == WithinSlack(v, t, Hour, Hour)

RunsToConsider(t) ==
    CASE kind = "hrrr" -> HRRRRuns(t)
      [] kind = "hrrr_alaska" -> AlaskaRuns(t)
      [] kind = "arome" -> AROMERuns(t)
      [] OTHER -> LookbackRuns(t)

LeadsWanted(run, t) ==
    CASE kind = "hrrr" -> HRRRLeads(run, t)
      [] kind = "hrrr_alaska" -> AlaskaLeads(run, t)
      [] kind = "hrdps" -> HRDPSLeads(run, t)
      [] kind = "icon_eu" -> ICONLeads(run, t)
      [] kind = "dmi_dini" -> DMILeads(run, t)
      [] kind = "wrf_smn" -> WRFLeads(run, t)
      [] kind = "jma_msm" -> JMALeads(run, t)
      [] OTHER -> AROMELeads(run, t)

Keeps(v, t) ==
    CASE kind = "hrrr" -> HRRRKeeps(v, t)
      [] kind = "hrrr_alaska" -> AlaskaKeeps(v, t)
      [] kind = "hrdps" -> HRDPSKeeps(v, t)
      [] kind = "icon_eu" -> ICONKeeps(v, t)
      [] kind = "dmi_dini" -> DMIKeeps(v, t)
      [] kind = "wrf_smn" -> WRFKeeps(v, t)
      [] kind = "jma_msm" -> JMAKeeps(v, t)
      [] OTHER -> AROMEKeeps(v, t)

-----------------------------------------------------------------------------
(* What a cycle gets of one run when the files in missing cannot be had:   *)
(* new frames, new accumulations, and what was downloaded for them.        *)

Key(run, leads) == {<<run, l>> : l \in leads}
Keyed(leadsOf) == UNION {Key(run, leadsOf[run]) : run \in DOMAIN leadsOf}
Loaded == frames \cup synthetic
LoadedLeads(run) == {f[2] : f \in {g \in Loaded : g[1] = run}}
Accumulated(run) == {a[2] : a \in {b \in accum : b[1] = run}}

\* Mutant: what is loaded is fetched again.
FetchEverything(run, wanted, missing) ==
    [frames |-> wanted \ missing, accum |-> {}, got |-> wanted \ missing]

\* A file gives its frame, whatever became of the others.
FetchDirect(run, wanted, missing) ==
    LET new == (wanted \ missing) \ LoadedLeads(run)
    IN  [frames |-> new, accum |-> {}, got |-> new]

\* A frame is the difference of its step and the one before, whose accumulation
\* is at hand, is downloaded again if its frame is there, and else is had by
\* fetching that step as a frame, and so on down to step 0.
FetchChained(run, wanted, missing) ==
    LET loaded == LoadedLeads(run)
        have == Accumulated(run)
        steps == 1 .. HoursDown(Grid.reach)
        Opens(s) == s * Hour \notin loaded \cup missing
        Descends(s) == Opens(s) /\ (s - 1) * Hour \notin have \cup loaded
        Reached(s) ==
            \E l \in wanted :
                s * Hour <= l /\ \A r \in s + 1 .. HoursDown(l) : Descends(r)
        AtHand(s) == s = 0 \/ s * Hour \in have \cup (loaded \ missing)
        Based(s) ==
            \E b \in 0 .. s :
                AtHand(b) /\ \A r \in b + 1 .. s : r * Hour \notin have \cup loaded \cup missing
        new == {s \in steps : Opens(s) /\ Reached(s) /\ Based(s - 1)}
        again == {s \in steps :
                    /\ s * Hour \in loaded \ (have \cup missing)
                    /\ Opens(s + 1) /\ Reached(s + 1)}
        zero == IF Reached(0) THEN {0} ELSE {}
    IN  [frames |-> InHours(new), accum |-> InHours(new \cup again \cup zero),
         got |-> InHours(new \cup again)]

\* First every accumulation, then the frames of neighbours that are both there;
\* the lowest step only serves as a baseline.
FetchTwoPhase(run, wanted, missing) ==
    LET down == {l \in wanted : l > 0 /\ l \notin Accumulated(run) \cup missing}
        have == Accumulated(run) \cup down \cup (wanted \cap {0})
    IN  [frames |-> {l \in wanted \ LoadedLeads(run) :
                       /\ l > 0 /\ \E m \in wanted : m < l
                       /\ {l, l - Hour} \subseteq have},
         accum |-> have, got |-> down]

\* Each step sees to its own accumulation and to that of the one before.
FetchEnsured(run, wanted, missing) ==
    LET have == Accumulated(run) \cup {0}
        open == {l \in wanted \ LoadedLeads(run) :
                   l > 0 /\ (l \in have \/ l \notin missing)}
        down == (UNION {{l, l - Hour} : l \in open}) \ (have \cup missing)
        zero == (wanted \cup {l - Hour : l \in open}) \cap {0}
    IN  [frames |-> {l \in open : l - Hour \in have \cup down},
         accum |-> down \cup zero, got |-> down]

\* The unit each grid fetches, by the way it makes a frame.
HRRRFile(run, wanted, missing) == FetchDirect(run, wanted, missing)
AlaskaFile(run, wanted, missing) == FetchDirect(run, wanted, missing)
HRDPSStep(run, wanted, missing) == FetchDirect(run, wanted, missing)
JMAStep(run, wanted, missing) == FetchDirect(run, wanted, missing)
ICONStep(run, wanted, missing) == FetchChained(run, wanted, missing)
DMIStep(run, wanted, missing) == FetchChained(run, wanted, missing)

Fetched(run, t, missing) ==
    LET wanted == LeadsWanted(run, t)
        lost == {m[2] : m \in {n \in missing : n[1] = run}}
    IN  CASE kind = "hrrr" -> HRRRFile(run, wanted, lost)
          [] kind = "hrrr_alaska" -> AlaskaFile(run, wanted, lost)
          [] kind = "hrdps" -> HRDPSStep(run, wanted, lost)
          [] kind = "icon_eu" -> ICONStep(run, wanted, lost)
          [] kind = "dmi_dini" -> DMIStep(run, wanted, lost)
          [] kind = "wrf_smn" -> FetchTwoPhase(run, wanted, lost)
          [] kind = "jma_msm" -> JMAStep(run, wanted, lost)
          [] OTHER -> FetchEnsured(run, wanted, lost)

-----------------------------------------------------------------------------
(* Interpolation, eviction and the choice of a run. *)

Flowing == {"icon_eu", "dmi_dini", "wrf_smn", "jma_msm"}
Interpolating == flow /\ kind \in Flowing

NativeLeads(leads) == {l \in leads : l % Hour = 0}

\* The leads put between a lead and the next when they are further apart than
\* Stored.
Following(a, leads) ==
    CHOOSE b \in leads : b > a /\ \A c \in leads : c > a => b <= c
Between(leads) ==
    UNION {{a + k * Stored : k \in 1 .. ((Following(a, leads) - a) \div Stored - 1)} :
              a \in {l \in leads : \E m \in leads : m > l}}

\* A run with two frames whose native leads are not the ones last seen.
ToInterpolate(run, leads) ==
    /\ Interpolating
    /\ Cardinality(leads) >= 2
    /\ ~(run \in DOMAIN memo /\ memo[run] = NativeLeads(leads))

\* An accumulation is kept an hour longer than a frame.
EvictOutsideWindow(kept, t) == {f \in kept : Keeps(f[1] + f[2], t)}
EvictAccumulations(kept, t) ==
    {a \in kept : Keeps(a[1] + a[2], t) \/ Keeps(a[1] + a[2] + Hour, t)}

BracketInterval == IF Interpolating THEN Stored ELSE Grid.step

\* The two leads a sample between them needs; below HRRR's first lead, that one.
Bracket(lead) ==
    IF kind = "hrrr" /\ lead < Quarter THEN {Quarter}
    ELSE {Floor(lead, BracketInterval), Floor(lead, BracketInterval) + BracketInterval}

\* The runs that can answer for a time; _pick_run takes the newest.
RunsServing(t) ==
    {run \in {f[1] : f \in Loaded} :
        /\ Grid.first <= t - run /\ t - run <= Grid.reach
        /\ Key(run, Bracket(t - run)) \subseteq Loaded}
HasDataAt(t) == RunsServing(t) # {}
PickRun(t) == CHOOSE r \in RunsServing(t) : \A s \in RunsServing(t) : s <= r

-----------------------------------------------------------------------------

Init ==
    /\ kind \in Kinds
    /\ \E w \in Windows : history = w[1] /\ horizon = w[2]
    /\ flow \in (IF kind \in Flowing THEN BOOLEAN ELSE {FALSE})
    /\ now \in Starts
    /\ frames = {} /\ synthetic = {} /\ accum = {}
    /\ memo = << >>
    /\ last = [clean |-> FALSE, got |-> {}]
    /\ cycles = 0 /\ faults = 0

Wanted(t) == Keyed([run \in RunsToConsider(t) |-> LeadsWanted(run, t)])

\* One file, a run that is late, or the upstream as a whole.
Outages(t) ==
    {{f} : f \in Wanted(t)} \cup {Wanted(t)}
    \cup {Key(LatestPublishedRun(t), LeadsWanted(LatestPublishedRun(t), t))}

\* fetch at time t: every run's steps, then interpolation, then eviction.
Fetch(t, missing) ==
    LET runs == RunsToConsider(t)
        result == [run \in runs |-> Fetched(run, t, missing)]
        landed == Keyed([run \in runs |-> result[run].frames])
        leads == [run \in runs |-> LoadedLeads(run) \cup result[run].frames]
        touched == {run \in runs : ToInterpolate(run, leads[run])}
        made == Keyed([run \in touched |-> Between(leads[run])])
        kept == EvictOutsideWindow(Loaded \cup landed \cup made, t)
        live == {f[1] : f \in kept}
        seen == (DOMAIN memo) \cup touched
    IN  /\ runs # {}
        /\ frames' = (frames \cup landed) \cap kept
        /\ synthetic' = (synthetic \cup made) \cap kept
        /\ accum' = EvictAccumulations(
               accum \cup Keyed([run \in runs |-> result[run].accum]), t)
        /\ memo' = [run \in seen \cap live |->
                       IF run \in touched THEN NativeLeads(leads[run]) ELSE memo[run]]
        /\ last' = [clean |-> missing = {},
                    got |-> Keyed([run \in runs |-> result[run].got])]

\* No run for the window: nothing is fetched, and nothing evicted either.
NoRuns(t) ==
    /\ RunsToConsider(t) = {}
    /\ last' = [clean |-> TRUE, got |-> {}]
    /\ UNCHANGED <<frames, synthetic, accum, memo>>

Cycle ==
    /\ cycles < Cycles
    /\ now' = now + Gap
    /\ cycles' = cycles + 1
    /\ UNCHANGED settings
    /\ \/ Fetch(now', {}) /\ UNCHANGED faults
       \/ NoRuns(now') /\ UNCHANGED faults
       \/ /\ faults < MaxFaults
          /\ faults' = faults + 1
          /\ \E missing \in Outages(now') : missing # {} /\ Fetch(now', missing)

\* The pipeline starts again: frames are loaded from their files, which do not
\* say what made them; accumulations and the memo were in memory only.
Restart ==
    /\ faults < MaxFaults
    /\ faults' = faults + 1
    /\ cycles > 0
    /\ accum' = {} /\ memo' = << >>
    /\ last' = [last EXCEPT !.got = {}]
    /\ UNCHANGED <<settings, now, frames, synthetic, cycles>>

Next == Cycle \/ Restart

Spec == Init /\ [][Next]_vars

-----------------------------------------------------------------------------
\* Frames are keyed by run and lead, and no key is both decoded and synthetic.
TypeOK ==
    /\ kind \in GridNames /\ flow \in BOOLEAN
    /\ frames \cap synthetic = {}
    /\ \A f \in Loaded \cup accum : f[1] \in Int /\ f[2] \in 0 .. Grid.reach
    /\ DOMAIN memo \subseteq {f[1] : f \in Loaded}

\* The times a tile may ask for: radar and nowcast frames, ten minutes apart.
Times == {t \in WindowStart(now) .. WindowEnd(now) : t % 2 = 0}

\* The first lead each grid has a bracket for: differences start at step 1, and
\* step 0 of HRDPS does not exist.
Usable == IF kind \in {"hrrr_alaska", "jma_msm"} THEN 0
          ELSE IF kind = "hrrr" THEN Quarter ELSE Hour

\* AROME aside, the earliest run a cycle considers passes the latest published
\* one, and none is left, when the delay exceeds the history and what each looks
\* back beyond it.  JMA-MSM's five hours are just its cycle and the two of the
\* default history.
DelayFits ==
    kind = "arome" \/ Grid.delay <= history + (CASE kind = "hrrr" -> Quarter
                                                 [] kind = "hrrr_alaska" -> Hour
                                                 [] OTHER -> Grid.cycle)

\* A grid reaches over the window: the runs it looks back to go back to the
\* window's start, and the latest one goes on to its end.  With the delays and
\* cycles above, every history up to eight hours and horizon up to sixteen does.
WindowFits ==
    /\ kind \in {"hrrr", "hrrr_alaska"} \/ history + Usable <= Grid.delay + 2 * Grid.cycle
    /\ horizon + Grid.delay + Grid.cycle <= Grid.reach

\* After a cycle that missed nothing, every time of the window is answered, and
\* from the newest published run that reaches it.
Freshest(t) == Least(LatestPublishedRun(now), Floor(t - Usable, Grid.cycle))
FreshestServes ==
    last.clean /\ DelayFits /\ WindowFits => \A t \in Times :
        HasDataAt(t) /\ PickRun(t) = Freshest(t)

\* A cycle never loses a time: what could be answered before it, and is in its
\* window, can be answered after it, whatever was missing.
ServedStays ==
    [][\A t \in Times' : HasDataAt(t) => HasDataAt(t)']_vars

\* What a cycle downloaded and kept, the next one does not download again.
\* HRRR, HRRR-Alaska and HRDPS round the window outwards, and so download each
\* time what eviction has just thrown away.
RoundingInwards == Kinds \ {"hrrr", "hrrr_alaska", "hrdps"}
NothingFetchedTwice ==
    [][(kind \in RoundingInwards) => last'.got \cap last.got = {}]_vars

\* A cycle that missed nothing leaves no interpolated frame where the upstream
\* has one of its own: a step that could not be had when its neighbours were is
\* had later.
FailedStepsRetried ==
    last.clean => \A f \in synthetic : f[2] % Hour # 0

\* It holds of the grids that take differences step after step, which get no
\* frame past one they could not get.
DifferencesRetried == kind \in {"icon_eu", "dmi_dini"} => FailedStepsRetried
=============================================================================
