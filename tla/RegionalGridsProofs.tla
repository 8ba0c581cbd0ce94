------------------------- MODULE RegionalGridsProofs -------------------------
(* Theorems about RegionalGrids, for every set of grids, window, first time, *)
(* gap between cycles and number of cycles and faults: what is kept, that a  *)
(* time once covered stays covered, what stands behind a decoded lead, that  *)
(* no cycle fetches again what the one before fetched, and that the freshest *)
(* run that reaches a time answers for it.                                   *)
EXTENDS RegionalGrids, FiniteSetTheorems, WellFoundedInduction, TLAPS

\* The runs of the frames are times, and the settings keep their types.
IInv ==
    /\ kind \in GridNames /\ flow \in BOOLEAN
    /\ history \in Nat /\ horizon \in Nat
    /\ now \in Int
    /\ \A f \in Loaded : f[1] \in Int

-----------------------------------------------------------------------------
(* Arithmetic. *)

\* Rounding down leaves a remainder below the unit.
LEMMA FloorBounds ==
    ASSUME NEW x \in Int, NEW unit \in {2, 3, 12}
    PROVE  /\ Floor(x, unit) \in Int
           /\ Floor(x, unit) <= x
           /\ x < Floor(x, unit) + unit
  <1>1. CASE unit = 2 BY <1>1, SMT DEF Floor
  <1>2. CASE unit = 3 BY <1>2, SMT DEF Floor
  <1>3. CASE unit = 12 BY <1>3, SMT DEF Floor
  <1> QED BY <1>1, <1>2, <1>3

\* Rounding down to any positive unit gives a time.
LEMMA FloorInt ==
    ASSUME NEW x \in Int, NEW unit \in Int, unit > 0
    PROVE  Floor(x, unit) \in Int
  BY SMT DEF Floor

\* The parameters of every grid: its numbers are whole, its cycle is positive,
\* and its step is an hour, or a quarter of one for HRRR.
LEMMA GridTypes ==
    ASSUME kind \in GridNames
    PROVE  /\ Grid.cycle \in Int /\ Grid.cycle > 0
           /\ Grid.delay \in Int
           /\ Grid.step = (IF kind = "hrrr" THEN 3 ELSE 12)
  BY DEF GridNames, Grid, HRRR, HRRRAlaska, HRDPS, ICONEU, DMIDINI, WRFSMN, JMAMSM,
         AROME, Hour, Quarter

\* Runs counted from a time are times.
LEMMA RunsFromInt ==
    ASSUME kind \in GridNames, NEW earliest \in Int, NEW t
    PROVE  RunsFrom(earliest, t) \subseteq Int
  BY GridTypes DEF RunsFrom

\* The runs a cycle considers are times.
LEMMA RunsInt ==
    ASSUME kind \in GridNames, history \in Nat, NEW t \in Int
    PROVE  RunsToConsider(t) \subseteq Int
  <1>1. LatestPublishedRun(t) \in Int
    BY GridTypes, FloorInt DEF LatestPublishedRun
  <1>2. LookbackEarliest(t) \in Int
    <2>1. Floor(WindowStart(t) - Grid.cycle, Grid.cycle) \in Int
      BY GridTypes, FloorInt DEF WindowStart
    <2> QED BY <2>1, <1>1, GridTypes DEF LookbackEarliest, Greatest
  <1>3. Floor(WindowStart(t) - Quarter, Hour) \in Int
    BY FloorInt DEF WindowStart, Quarter, Hour
  <1>4. Floor(WindowStart(t) - Hour, Grid.cycle) \in Int
    BY GridTypes, FloorInt DEF WindowStart, Hour
  <1>5. Least(LatestPublishedRun(t), LookbackEarliest(t)) \in Int
    BY <1>1, <1>2 DEF Least
  <1>6. /\ HRRRRuns(t) \subseteq Int /\ AlaskaRuns(t) \subseteq Int
        /\ AROMERuns(t) \subseteq Int /\ LookbackRuns(t) \subseteq Int
    BY <1>2, <1>3, <1>4, <1>5, RunsFromInt DEF HRRRRuns, AlaskaRuns, AROMERuns, LookbackRuns
  <1> QED BY <1>6 DEF RunsToConsider

-----------------------------------------------------------------------------
(* What a cycle keeps. *)

\* A loaded frame that eviction keeps is still loaded after the cycle.
LEMMA FetchKeeps ==
    ASSUME NEW t, NEW missing, Fetch(t, missing),
           NEW f \in Loaded, Keeps(f[1] + f[2], t)
    PROVE  f \in Loaded'
  BY DEF Fetch, Loaded, EvictOutsideWindow

\* A key made from leads by run is of one of the runs.
LEMMA KeyedRuns ==
    ASSUME NEW leadsOf, NEW f \in Keyed(leadsOf)
    PROVE  f[1] \in DOMAIN leadsOf
  BY DEF Keyed, Key

\* A key made from leads by run is the pair of a run and one of its leads.
LEMMA KeyedIs ==
    ASSUME NEW leadsOf
    PROVE  \A f : f \in Keyed(leadsOf) <=> /\ f[1] \in DOMAIN leadsOf
                                           /\ f = <<f[1], f[2]>>
                                           /\ f[2] \in leadsOf[f[1]]
  <1> TAKE f
  <1>1. f \in Keyed(leadsOf) <=> \E run \in DOMAIN leadsOf : \E l \in leadsOf[run] : f = <<run, l>>
    BY DEF Keyed, Key
  <1>2. ASSUME NEW run \in DOMAIN leadsOf, NEW l \in leadsOf[run], f = <<run, l>>
        PROVE  f[1] = run /\ f[2] = l
    BY <1>2
  <1> QED BY <1>1, <1>2

\* A frame loaded after a cycle was loaded before, or is of a run it considered.
LEMMA FetchRuns ==
    ASSUME NEW t, NEW missing, Fetch(t, missing), NEW f \in Loaded'
    PROVE  f \in Loaded \/ f[1] \in RunsToConsider(t)
  <1> DEFINE runs == RunsToConsider(t)
             result == [run \in runs |-> Fetched(run, t, missing)]
             landed == Keyed([run \in runs |-> result[run].frames])
             leads == [run \in runs |-> LoadedLeads(run) \cup result[run].frames]
             touched == {run \in runs : ToInterpolate(run, leads[run])}
             made == Keyed([run \in touched |-> Between(leads[run])])
  <1>1. f \in frames \cup landed \cup synthetic \cup made
    BY DEF Fetch, Loaded
  <1>2. f \in landed => f[1] \in runs
    <2> DEFINE leadsOf == [run \in runs |-> result[run].frames]
    <2>1. DOMAIN leadsOf = runs OBVIOUS
    <2> HIDE DEF leadsOf, runs
    <2> QED BY <2>1, KeyedRuns DEF leadsOf
  <1>3. f \in made => f[1] \in runs
    <2> DEFINE leadsOf == [run \in touched |-> Between(leads[run])]
    <2>1. DOMAIN leadsOf = touched /\ touched \subseteq runs OBVIOUS
    <2> HIDE DEF leadsOf, touched, runs
    <2> QED BY <2>1, KeyedRuns DEF leadsOf
  <1> QED BY <1>1, <1>2, <1>3 DEF Loaded

\* The frames that answer for a time of the window are within eviction's slack.
LEMMA BracketKept ==
    ASSUME kind \in GridNames, flow \in BOOLEAN, history \in Nat, horizon \in Nat,
           NEW t \in Int, NEW u \in Int, NEW run \in Int,
           WindowStart(t) <= u, u <= WindowEnd(t),
           Grid.first <= u - run,
           NEW lead \in Bracket(u - run)
    PROVE  Keeps(run + lead, t)
  <1> DEFINE i == BracketInterval
             low == Floor(u - run, i)
  <1>1. i = (IF kind = "hrrr" THEN 3 ELSE IF Interpolating THEN 2 ELSE 12)
    BY GridTypes DEF BracketInterval, Interpolating, Flowing, Stored
  <1>2. low \in Int /\ low <= u - run /\ u - run < low + i
    BY <1>1, FloorBounds
  <1>3. kind = "hrrr" => u - run >= Quarter
    BY DEF Grid, HRRR
  <1>4. lead = low \/ lead = low + i
    BY <1>3 DEF Bracket, Quarter
  <1>5. lead \in Int /\ u - run - i < lead /\ lead <= u - run + i
    BY <1>1, <1>2, <1>4
  <1>6. /\ WindowStart(t) - i <= run + lead
        /\ run + lead <= WindowEnd(t) + i
        /\ i \in Int /\ i <= 12 /\ (kind = "hrrr" => i = 3)
    BY <1>1, <1>5 DEF WindowStart, WindowEnd
  <1>7. WindowStart(t) \in Int /\ WindowEnd(t) \in Int /\ run + lead \in Int
    BY <1>5 DEF WindowStart, WindowEnd
  <1> HIDE DEF i
  <1>8. CASE kind = "hrrr"
    <2>1. HRRRKeeps(run + lead, t)
      BY <1>6, <1>8 DEF HRRRKeeps, WithinSlack, Quarter
    <2> QED BY <1>8, <2>1, Zenon DEF Keeps
  <1>9. CASE kind # "hrrr"
    <2>1. /\ AlaskaKeeps(run + lead, t) /\ HRDPSKeeps(run + lead, t)
          /\ JMAKeeps(run + lead, t) /\ AROMEKeeps(run + lead, t)
      BY <1>6, <1>7 DEF AlaskaKeeps, HRDPSKeeps, JMAKeeps, AROMEKeeps, WithinSlack, Hour
    <2>2. /\ ICONKeeps(run + lead, t) /\ DMIKeeps(run + lead, t) /\ WRFKeeps(run + lead, t)
      BY <1>6, <1>7 DEF ICONKeeps, DMIKeeps, WRFKeeps, WithinSlack, Hour
    <2> QED BY <1>9, <2>1, <2>2, Zenon DEF Keeps
  <1> QED BY <1>8, <1>9

-----------------------------------------------------------------------------
(* What a cycle asks for, it keeps. *)

\* The hours of a lead, rounded down and up.
LEMMA Hours ==
    ASSUME NEW x \in Int
    PROVE  /\ HoursDown(x) \in Int /\ HoursDown(x) * 12 <= x /\ x < HoursDown(x) * 12 + 12
           /\ HoursUp(x) \in Int /\ x <= HoursUp(x) * 12
  BY SMT DEF HoursDown, HoursUp, Hour

\* Accumulations: an hour or two before the window, and up to one after it.
LEMMA BaselineKept ==
    ASSUME NEW start \in Int, NEW end \in Int, NEW run \in Int, NEW reach \in Int,
           NEW most \in Int,
           NEW lead \in Asked(Greatest(0, start - run - Hour), Least(reach, end - run + 0),
                              Greatest(0, HoursDown(Greatest(0, start - run - Hour)) - 1)
                              .. Least(most, HoursDown(Least(reach, end - run + 0)) + 1))
    PROVE  start - 36 <= run + lead /\ run + lead <= end + 12
  <1> DEFINE lo == Greatest(0, start - run - Hour)
             hi == Least(reach, end - run + 0)
  <1>1. lo \in Int /\ hi \in Int /\ lo >= start - run - 12 /\ lo >= 0 /\ hi <= end - run
    BY DEF Greatest, Least, Hour
  <1>2. PICK h \in Greatest(0, HoursDown(lo) - 1) .. Least(most, HoursDown(hi) + 1) :
           lead = h * 12
    BY DEF Asked, InHours, Hour
  <1> HIDE DEF lo, hi
  <1>3. PICK down \in Int, up \in Int :
          /\ down = HoursDown(lo) /\ down * 12 <= lo /\ lo < down * 12 + 12
          /\ up = HoursDown(hi) /\ up * 12 <= hi /\ hi < up * 12 + 12
    BY <1>1, Hours
  <1>4. h \in Int /\ down - 1 <= h /\ h <= up + 1
    BY <1>2, <1>3 DEF Greatest, Least
  <1>5. start - 36 <= run + h * 12
    <2>1. down * 12 - 12 <= h * 12
      BY <1>4
    <2>2. lo < down * 12 + 12
      BY <1>3
    <2>3. start - run - 12 < down * 12 + 12
      BY <1>1, <2>2
    <2> QED BY <1>1, <1>4, <2>1, <2>3
  <1>6. run + h * 12 <= end + 12
    BY <1>1, <1>3, <1>4
  <1> QED BY <1>2, <1>5, <1>6

\* Every grid but the three that round the window outwards asks only for leads
\* that its eviction keeps.
THEOREM WantedIsKept ==
    ASSUME kind \in GridNames \ {"hrrr", "hrrr_alaska", "hrdps"},
           history \in Nat, horizon \in Nat,
           NEW t \in Int, NEW run \in Int, NEW lead \in LeadsWanted(run, t)
    PROVE  Keeps(run + lead, t)
  <1>1. WindowStart(t) \in Int /\ WindowEnd(t) \in Int
    BY DEF WindowStart, WindowEnd
  <1>2. CASE kind = "icon_eu"
    <2>1. lead \in ICONLeads(run, t) BY <1>2, Zenon DEF LeadsWanted
    <2>2. Grid.reach = 360 BY <1>2 DEF Grid, ICONEU, Hour
    <2>3. WindowStart(t) - 36 <= run + lead /\ run + lead <= WindowEnd(t) + 12
      BY <1>1, <2>1, <2>2, BaselineKept DEF ICONLeads, MinLead, MaxLead
    <2>4. ICONKeeps(run + lead, t) BY <2>3 DEF ICONKeeps, WithinSlack, Hour
    <2> QED BY <1>2, <2>4, Zenon DEF Keeps
  <1>3. CASE kind = "dmi_dini"
    <2>1. lead \in DMILeads(run, t) BY <1>3, Zenon DEF LeadsWanted
    <2>2. Grid.reach = 720 BY <1>3 DEF Grid, DMIDINI, Hour
    <2>3. WindowStart(t) - 36 <= run + lead /\ run + lead <= WindowEnd(t) + 12
      BY <1>1, <2>1, <2>2, BaselineKept DEF DMILeads, MinLead, MaxLead
    <2>4. DMIKeeps(run + lead, t) BY <2>3 DEF DMIKeeps, WithinSlack, Hour
    <2> QED BY <1>3, <2>4, Zenon DEF Keeps
  <1>4. CASE kind = "wrf_smn"
    <2>1. lead \in WRFLeads(run, t) BY <1>4, Zenon DEF LeadsWanted
    <2>2. Grid.reach = 864 BY <1>4 DEF Grid, WRFSMN, Hour
    <2>3. WindowStart(t) - 36 <= run + lead /\ run + lead <= WindowEnd(t) + 12
      BY <1>1, <2>1, <2>2, BaselineKept DEF WRFLeads, MinLead, MaxLead
    <2>4. WRFKeeps(run + lead, t) BY <2>3 DEF WRFKeeps, WithinSlack, Hour
    <2> QED BY <1>4, <2>4, Zenon DEF Keeps
  <1>5. CASE kind = "jma_msm"
    <2> DEFINE lo == MinLead(run, t, 0)
               hi == MaxLead(run, t, 0)
    <2>1. lead \in JMALeads(run, t) BY <1>5, Zenon DEF LeadsWanted
    <2>2. Grid.reach = 468 BY <1>5 DEF Grid, JMAMSM, Hour
    <2>3. /\ lo \in Int /\ hi \in Int /\ hi <= WindowEnd(t) - run
          /\ lo >= WindowStart(t) - run
      BY <1>1, <2>2 DEF MinLead, MaxLead, Greatest, Least
    <2>4. PICK h \in HoursDown(lo) .. Least(39, HoursDown(hi) + 1) : lead = h * 12
      BY <2>1 DEF JMALeads, Asked, InHours, Hour
    <2> HIDE DEF lo, hi
    <2>5. PICK down \in Int, up \in Int :
            /\ down = HoursDown(lo) /\ down * 12 <= lo /\ lo < down * 12 + 12
            /\ up = HoursDown(hi) /\ up * 12 <= hi /\ hi < up * 12 + 12
      BY <2>3, Hours
    <2>6. h \in Int /\ down <= h /\ h <= up + 1
      BY <2>4, <2>5 DEF Least
    <2>7. WindowStart(t) - 12 <= run + lead /\ run + lead <= WindowEnd(t) + 12
      BY <1>1, <2>3, <2>4, <2>5, <2>6
    <2>8. JMAKeeps(run + lead, t) BY <2>7 DEF JMAKeeps, WithinSlack, Hour
    <2> QED BY <1>5, <2>8, Zenon DEF Keeps
  <1>6. CASE kind = "arome"
    <2> DEFINE lo == MinLead(run, t, Hour)
               hi == MaxLead(run, t, Hour)
    <2>1. lead \in AROMELeads(run, t) BY <1>6, Zenon DEF LeadsWanted
    <2>2. Grid.reach = 576 BY <1>6 DEF Grid, AROME, Hour
    <2>3. /\ lo \in Int /\ hi \in Int /\ hi <= WindowEnd(t) - run + 12
          /\ lo >= WindowStart(t) - run - 12
      BY <1>1, <2>2 DEF MinLead, MaxLead, Greatest, Least, Hour
    <2>4. PICK h \in HoursUp(lo) .. Least(48, HoursDown(hi)) : lead = h * 12
      BY <2>1 DEF AROMELeads, Asked, InHours, Hour
    <2> HIDE DEF lo, hi
    <2>5. PICK down \in Int, up \in Int :
            /\ up = HoursUp(lo) /\ lo <= up * 12
            /\ down = HoursDown(hi) /\ down * 12 <= hi
      BY <2>3, Hours
    <2>6. h \in Int /\ up <= h /\ h <= down
      BY <2>4, <2>5 DEF Least
    <2>7. WindowStart(t) - 12 <= run + lead /\ run + lead <= WindowEnd(t) + 12
      BY <1>1, <2>3, <2>4, <2>5, <2>6
    <2>8. AROMEKeeps(run + lead, t) BY <2>7 DEF AROMEKeeps, WithinSlack, Hour
    <2> QED BY <1>6, <2>8, Zenon DEF Keeps
  <1> QED BY <1>2, <1>3, <1>4, <1>5, <1>6 DEF GridNames

-----------------------------------------------------------------------------
(* The invariant. *)

LEMMA InitIInv == ASSUME Init PROVE IInv
  <1>1. kind \in GridNames /\ flow \in BOOLEAN /\ now \in Int
    <2>1. kind \in Kinds /\ now \in Starts /\ flow \in IF kind \in Flowing THEN BOOLEAN ELSE {FALSE}
      BY DEF Init
    <2>2. flow \in BOOLEAN
      BY <2>1
    <2> QED BY <2>1, <2>2, ConstantsAssumption
  <1>2. history \in Nat /\ horizon \in Nat
    BY ConstantsAssumption DEF Init
  <1>3. Loaded = {}
    BY DEF Init, Loaded
  <1> QED BY <1>1, <1>2, <1>3 DEF IInv

LEMMA FetchIInv ==
    ASSUME IInv, NEW missing, now' \in Int, Fetch(now', missing), UNCHANGED settings
    PROVE  IInv'
  <1>1. RunsToConsider(now') \subseteq Int
    BY RunsInt DEF IInv
  <1>2. \A f \in Loaded' : f[1] \in Int
    BY <1>1, FetchRuns DEF IInv
  <1> QED BY <1>2 DEF IInv, settings

LEMMA NextIInv == ASSUME IInv, [Next]_vars PROVE IInv'
  <1>1. CASE Cycle
    <2>1. now' \in Int /\ UNCHANGED settings
      BY <1>1, ConstantsAssumption DEF Cycle, IInv
    <2>2. CASE NoRuns(now')
      BY <2>1, <2>2 DEF IInv, NoRuns, settings, Loaded
    <2>3. CASE \E missing : Fetch(now', missing)
      BY <2>1, <2>3, FetchIInv
    <2> QED BY <1>1, <2>2, <2>3 DEF Cycle
  <1>2. CASE Restart
    BY <1>2 DEF Restart, IInv, settings, Loaded
  <1>3. CASE UNCHANGED vars
    BY <1>3 DEF vars, IInv, Loaded
  <1> QED BY <1>1, <1>2, <1>3 DEF Next

\* The runs of the frames are times at every moment.
THEOREM RunsAreTimes == Spec => []IInv
  BY InitIInv, NextIInv, PTL DEF Spec

-----------------------------------------------------------------------------
(* A cycle never loses a time. *)

\* What answers for a time that is still in the window answers after the cycle.
LEMMA FetchServes ==
    ASSUME IInv, NEW missing, now' \in Int, Fetch(now', missing), UNCHANGED settings,
           NEW u \in Times', HasDataAt(u)
    PROVE  HasDataAt(u)'
  <1>1. PICK run \in RunsServing(u) : TRUE
    BY DEF HasDataAt
  <1>2. /\ run \in Int
        /\ Grid.first <= u - run /\ u - run <= Grid.reach
        /\ \A lead \in Bracket(u - run) : <<run, lead>> \in Loaded
    BY <1>1 DEF RunsServing, IInv, Key
  <1>3. u \in Int /\ WindowStart(now') <= u /\ u <= WindowEnd(now')
    <2>1. history' = history /\ horizon' = horizon
      BY DEF settings
    <2>2. u \in WindowStart(now') .. WindowEnd(now')
      BY <2>1 DEF Times, WindowStart, WindowEnd
    <2>3. WindowStart(now') \in Int /\ WindowEnd(now') \in Int
      BY DEF WindowStart, WindowEnd, IInv
    <2> QED BY <2>2, <2>3
  <1>4. \A lead \in Bracket(u - run) : <<run, lead>> \in Loaded'
    <2> SUFFICES ASSUME NEW lead \in Bracket(u - run)
                 PROVE  <<run, lead>> \in Loaded'
      OBVIOUS
    <2>1. Keeps(run + lead, now')
      BY <1>2, <1>3, BracketKept DEF IInv
    <2> QED BY <1>2, <2>1, FetchKeeps
  <1>5. /\ Grid' = Grid /\ Bracket(u - run)' = Bracket(u - run)
    BY DEF settings, Grid, HRRR, HRRRAlaska, HRDPS, ICONEU, DMIDINI, WRFSMN, JMAMSM,
           AROME, Bracket, BracketInterval, Interpolating
  <1>6. Bracket(u - run) # {}
    BY DEF Bracket
  <1>7. run \in {f[1] : f \in Loaded'}
    <2>1. PICK lead \in Bracket(u - run) : TRUE BY <1>6
    <2>2. <<run, lead>> \in Loaded' BY <1>4
    <2> QED BY <2>2
  <1>8. run \in RunsServing(u)'
    BY <1>2, <1>4, <1>5, <1>7 DEF RunsServing, Key
  <1> QED BY <1>8 DEF HasDataAt

\* A time that could be answered before a cycle, and is in its window, can be
\* answered after it, whatever files were missing.
THEOREM TimesAreNeverLost == Spec => ServedStays
  <1>1. ASSUME IInv, [Next]_vars
        PROVE  [\A t \in Times' : HasDataAt(t) => HasDataAt(t)']_vars
    <2>1. CASE Cycle
      <3>1. now' \in Int /\ UNCHANGED settings
        BY <1>1, <2>1, ConstantsAssumption DEF Cycle, IInv
      <3>2. CASE NoRuns(now')
        BY <3>1, <3>2 DEF NoRuns, settings, HasDataAt, RunsServing, Loaded, Grid, Bracket,
           BracketInterval, Interpolating, Key, HRRR, HRRRAlaska, HRDPS, ICONEU, DMIDINI,
           WRFSMN, JMAMSM, AROME
      <3>3. CASE \E missing : Fetch(now', missing)
        BY <1>1, <3>1, <3>3, FetchServes
      <3> QED BY <2>1, <3>2, <3>3 DEF Cycle
    <2>2. CASE Restart
      BY <2>2 DEF Restart, settings, HasDataAt, RunsServing, Loaded, Grid, Bracket,
         BracketInterval, Interpolating, Key, HRRR, HRRRAlaska, HRDPS, ICONEU, DMIDINI,
         WRFSMN, JMAMSM, AROME
    <2>3. CASE UNCHANGED vars
      BY <2>3
    <2> QED BY <1>1, <2>1, <2>2, <2>3 DEF Next
  <1> QED BY <1>1, RunsAreTimes, PTL DEF Spec, ServedStays

-----------------------------------------------------------------------------
(* What a cycle asks for and gets. *)

\* The reach of every grid, in hours.
LEMMA GridReach ==
    ASSUME kind \in GridNames
    PROVE  /\ Grid.reach = (CASE kind = "hrrr" -> 216
                              [] kind = "hrrr_alaska" -> 576
                              [] kind = "hrdps" -> 576
                              [] kind = "icon_eu" -> 360
                              [] kind = "dmi_dini" -> 720
                              [] kind = "wrf_smn" -> 864
                              [] kind = "jma_msm" -> 468
                              [] OTHER -> 576)
           /\ Grid.reach \in Nat
  BY DEF GridNames, Grid, HRRR, HRRRAlaska, HRDPS, ICONEU, DMIDINI, WRFSMN, JMAMSM,
         AROME, Hour, Quarter

\* Leads asked for are whole hours between the bounds.
LEMMA AskedHours ==
    ASSUME NEW lo, NEW hi, NEW low \in Int, NEW high \in Int, low >= 0,
           NEW lead \in Asked(lo, hi, low .. high)
    PROVE  \E h \in Nat : lead = h * 12 /\ h <= high
  <1>1. lead \in InHours(low .. high)
    BY DEF Asked
  <1>2. PICK h \in low .. high : lead = h * 12
    BY <1>1 DEF InHours, Hour
  <1> QED BY <1>2

\* No lead is asked for before 0 or beyond the grid's reach, and of every grid but
\* HRRR only whole hours are.
LEMMA WantedLeads ==
    ASSUME kind \in GridNames, history \in Nat, horizon \in Nat,
           NEW t \in Int, NEW run \in Int, NEW lead \in LeadsWanted(run, t)
    PROVE  /\ lead \in 0 .. Grid.reach
           /\ kind # "hrrr" => \E h \in Nat : lead = h * 12
  <1>0. /\ WindowStart(t) \in Int /\ WindowEnd(t) \in Int
        /\ Grid.reach \in Nat
    BY GridReach DEF WindowStart, WindowEnd
  <1>1. /\ \A slack \in {0, 12} : MinLead(run, t, slack) \in Nat /\ MaxLead(run, t, slack) \in Int
    BY <1>0 DEF MinLead, MaxLead, Greatest, Least
  <1>2. \A x \in Int : HoursDown(x) \in Int /\ HoursUp(x) \in Int
    BY Hours
  <1>3. \A x \in Nat : HoursDown(x) \in Nat /\ HoursUp(x) \in Nat
    BY SMT DEF HoursDown, HoursUp, Hour
  <1>6. CASE kind = "hrrr"
    <2>1. lead \in HRRRLeads(run, t) BY <1>6, Zenon DEF LeadsWanted
    <2> DEFINE lo == Greatest(Quarter, WindowStart(t) - run - Quarter)
               hi == MaxLead(run, t, Quarter)
               first == 4 * (Greatest(1, HoursUp(lo)) - 1) + 1
               final == 4 * Least(18, HoursUp(hi))
    <2>2. PICK q \in first .. final : lead = q * 3
      BY <2>1 DEF HRRRLeads, Quarter
    <2>3. lo \in Int /\ hi \in Int
      BY <1>0 DEF Greatest, MaxLead, Least, Quarter
    <2>4. /\ HoursUp(lo) \in Int /\ HoursUp(hi) \in Int
      BY <1>2, <2>3
    <2> HIDE DEF lo, hi
    <2>5. first \in Int /\ first >= 1 /\ final \in Int /\ final <= 72
      BY <2>4 DEF Greatest, Least
    <2>6. Grid.reach = 216
      BY <1>6, GridReach
    <2> HIDE DEF first, final
    <2> QED BY <1>6, <2>2, <2>5, <2>6
  <1>7. ASSUME NEW low \in Nat, NEW high \in Int, high * 12 <= Grid.reach,
               NEW lo, NEW hi, lead \in Asked(lo, hi, low .. high)
        PROVE  lead \in 0 .. Grid.reach /\ \E h \in Nat : lead = h * 12
    <2>1. PICK h \in Nat : lead = h * 12 /\ h <= high
      BY <1>7, AskedHours
    <2>2. h * 12 <= high * 12
      BY <1>7, <2>1
    <2> QED BY <1>0, <1>7, <2>1, <2>2
  <1>8. CASE kind = "hrrr_alaska"
    <2> DEFINE lo == MinLead(run, t, Hour)
               hi == MaxLead(run, t, Hour)
               low == HoursDown(lo)
               high == Least(48, HoursUp(hi))
    <2>1. lead \in AlaskaLeads(run, t) BY <1>8, Zenon DEF LeadsWanted
    <2>2. lead \in Asked(lo, hi, low .. high) BY <2>1 DEF AlaskaLeads
    <2>3. lo \in Nat /\ hi \in Int BY <1>1 DEF Hour
    <2>4. low \in Nat /\ high \in Int /\ high <= 48
      <3> HIDE DEF lo, hi
      <3>1. /\ HoursDown(lo) \in Nat /\ HoursUp(lo) \in Nat
            /\ HoursDown(hi) \in Int /\ HoursUp(hi) \in Int
        BY <2>3, <1>2, <1>3
      <3> QED BY <3>1 DEF Greatest, Least
    <2>5. Grid.reach = 576 BY <1>8, GridReach
    <2> HIDE DEF low, high
    <2> QED BY <1>7, <2>2, <2>4, <2>5
  <1>9. CASE kind = "hrdps"
    <2> DEFINE lo == MinLead(run, t, Hour)
               hi == MaxLead(run, t, Hour)
               low == Greatest(1, HoursDown(lo))
               high == Least(48, HoursUp(hi))
    <2>1. lead \in HRDPSLeads(run, t) BY <1>9, Zenon DEF LeadsWanted
    <2>2. lead \in Asked(lo, hi, low .. high) BY <2>1 DEF HRDPSLeads
    <2>3. lo \in Nat /\ hi \in Int BY <1>1 DEF Hour
    <2>4. low \in Nat /\ high \in Int /\ high <= 48
      <3> HIDE DEF lo, hi
      <3>1. /\ HoursDown(lo) \in Nat /\ HoursUp(lo) \in Nat
            /\ HoursDown(hi) \in Int /\ HoursUp(hi) \in Int
        BY <2>3, <1>2, <1>3
      <3> QED BY <3>1 DEF Greatest, Least
    <2>5. Grid.reach = 576 BY <1>9, GridReach
    <2> HIDE DEF low, high
    <2> QED BY <1>7, <2>2, <2>4, <2>5
  <1>10. CASE kind = "icon_eu"
    <2> DEFINE lo == MinLead(run, t, Hour)
               hi == MaxLead(run, t, 0)
               low == Greatest(0, HoursDown(lo) - 1)
               high == Least(30, HoursDown(hi) + 1)
    <2>1. lead \in ICONLeads(run, t) BY <1>10, Zenon DEF LeadsWanted
    <2>2. lead \in Asked(lo, hi, low .. high) BY <2>1 DEF ICONLeads
    <2>3. lo \in Nat /\ hi \in Int BY <1>1 DEF Hour
    <2>4. low \in Nat /\ high \in Int /\ high <= 30
      <3> HIDE DEF lo, hi
      <3>1. /\ HoursDown(lo) \in Nat /\ HoursUp(lo) \in Nat
            /\ HoursDown(hi) \in Int /\ HoursUp(hi) \in Int
        BY <2>3, <1>2, <1>3
      <3> QED BY <3>1 DEF Greatest, Least
    <2>5. Grid.reach = 360 BY <1>10, GridReach
    <2> HIDE DEF low, high
    <2> QED BY <1>7, <2>2, <2>4, <2>5
  <1>11. CASE kind = "dmi_dini"
    <2> DEFINE lo == MinLead(run, t, Hour)
               hi == MaxLead(run, t, 0)
               low == Greatest(0, HoursDown(lo) - 1)
               high == Least(60, HoursDown(hi) + 1)
    <2>1. lead \in DMILeads(run, t) BY <1>11, Zenon DEF LeadsWanted
    <2>2. lead \in Asked(lo, hi, low .. high) BY <2>1 DEF DMILeads
    <2>3. lo \in Nat /\ hi \in Int BY <1>1 DEF Hour
    <2>4. low \in Nat /\ high \in Int /\ high <= 60
      <3> HIDE DEF lo, hi
      <3>1. /\ HoursDown(lo) \in Nat /\ HoursUp(lo) \in Nat
            /\ HoursDown(hi) \in Int /\ HoursUp(hi) \in Int
        BY <2>3, <1>2, <1>3
      <3> QED BY <3>1 DEF Greatest, Least
    <2>5. Grid.reach = 720 BY <1>11, GridReach
    <2> HIDE DEF low, high
    <2> QED BY <1>7, <2>2, <2>4, <2>5
  <1>12. CASE kind = "wrf_smn"
    <2> DEFINE lo == MinLead(run, t, Hour)
               hi == MaxLead(run, t, 0)
               low == Greatest(0, HoursDown(lo) - 1)
               high == Least(72, HoursDown(hi) + 1)
    <2>1. lead \in WRFLeads(run, t) BY <1>12, Zenon DEF LeadsWanted
    <2>2. lead \in Asked(lo, hi, low .. high) BY <2>1 DEF WRFLeads
    <2>3. lo \in Nat /\ hi \in Int BY <1>1 DEF Hour
    <2>4. low \in Nat /\ high \in Int /\ high <= 72
      <3> HIDE DEF lo, hi
      <3>1. /\ HoursDown(lo) \in Nat /\ HoursUp(lo) \in Nat
            /\ HoursDown(hi) \in Int /\ HoursUp(hi) \in Int
        BY <2>3, <1>2, <1>3
      <3> QED BY <3>1 DEF Greatest, Least
    <2>5. Grid.reach = 864 BY <1>12, GridReach
    <2> HIDE DEF low, high
    <2> QED BY <1>7, <2>2, <2>4, <2>5
  <1>13. CASE kind = "jma_msm"
    <2> DEFINE lo == MinLead(run, t, 0)
               hi == MaxLead(run, t, 0)
               low == HoursDown(lo)
               high == Least(39, HoursDown(hi) + 1)
    <2>1. lead \in JMALeads(run, t) BY <1>13, Zenon DEF LeadsWanted
    <2>2. lead \in Asked(lo, hi, low .. high) BY <2>1 DEF JMALeads
    <2>3. lo \in Nat /\ hi \in Int BY <1>1 DEF Hour
    <2>4. low \in Nat /\ high \in Int /\ high <= 39
      <3> HIDE DEF lo, hi
      <3>1. /\ HoursDown(lo) \in Nat /\ HoursUp(lo) \in Nat
            /\ HoursDown(hi) \in Int /\ HoursUp(hi) \in Int
        BY <2>3, <1>2, <1>3
      <3> QED BY <3>1 DEF Greatest, Least
    <2>5. Grid.reach = 468 BY <1>13, GridReach
    <2> HIDE DEF low, high
    <2> QED BY <1>7, <2>2, <2>4, <2>5
  <1>14. CASE kind = "arome"
    <2> DEFINE lo == MinLead(run, t, Hour)
               hi == MaxLead(run, t, Hour)
               low == HoursUp(lo)
               high == Least(48, HoursDown(hi))
    <2>1. lead \in AROMELeads(run, t) BY <1>14, Zenon DEF LeadsWanted
    <2>2. lead \in Asked(lo, hi, low .. high) BY <2>1 DEF AROMELeads
    <2>3. lo \in Nat /\ hi \in Int BY <1>1 DEF Hour
    <2>4. low \in Nat /\ high \in Int /\ high <= 48
      <3> HIDE DEF lo, hi
      <3>1. /\ HoursDown(lo) \in Nat /\ HoursUp(lo) \in Nat
            /\ HoursDown(hi) \in Int /\ HoursUp(hi) \in Int
        BY <2>3, <1>2, <1>3
      <3> QED BY <3>1 DEF Greatest, Least
    <2>5. Grid.reach = 576 BY <1>14, GridReach
    <2> HIDE DEF low, high
    <2> QED BY <1>7, <2>2, <2>4, <2>5
  <1> QED BY <1>6, <1>8, <1>9, <1>10, <1>11, <1>12, <1>13, <1>14 DEF GridNames

\* The leads a run has once a cycle has fetched, before anything is evicted.
Leads(run, t, missing) == LoadedLeads(run) \cup Fetched(run, t, missing).frames

\* A set of leads has a least one among those above a given one.
LEMMA FollowingIs ==
    ASSUME NEW leads \in SUBSET Nat, NEW a \in leads, \E m \in leads : m > a
    PROVE  /\ Following(a, leads) \in leads /\ Following(a, leads) > a
           /\ \A c \in leads : c > a => Following(a, leads) <= c
  <1> DEFINE above == {m \in leads : m > a}
  <1>1. above \subseteq Nat /\ above # {}
    OBVIOUS
  <1>2. PICK b \in above : \A c \in above : ~(<<c, b>> \in OpToRel(<, Nat))
    BY <1>1, NatLessThanWellFounded, WFMin
  <1>3. \A c \in above : ~(c < b)
    BY <1>1, <1>2 DEF OpToRel
  <1>4. b \in leads /\ b > a /\ \A c \in leads : c > a => b <= c
    BY <1>1, <1>3
  <1> QED BY <1>4 DEF Following

\* What interpolation makes lies between two neighbours.
LEMMA BetweenIs ==
    ASSUME NEW leads \in SUBSET Nat, NEW x \in Between(leads)
    PROVE  /\ x \in Nat /\ x \notin leads
           /\ \E a, b \in leads : a < x /\ x < b
  <1>1. PICK a \in leads : /\ \E m \in leads : m > a
                           /\ \E k \in 1 .. ((Following(a, leads) - a) \div Stored - 1) :
                                 x = a + k * Stored
    BY DEF Between
  <1>2. PICK b \in leads : /\ b = Following(a, leads) /\ b > a
                           /\ \A c \in leads : c > a => b <= c
    BY <1>1, FollowingIs
  <1>3. PICK k \in 1 .. ((b - a) \div 2 - 1) : x = a + k * 2
    BY <1>1, <1>2 DEF Stored
  <1>4. a \in Nat /\ b \in Nat
    BY <1>1, <1>2
  <1>5. ((b - a) \div 2) * 2 <= b - a
    BY <1>4, SMT
  <1>6. (b - a) \div 2 \in Int
    BY <1>4, SMT
  <1>7. a < x /\ x < b /\ x \in Nat
    BY <1>3, <1>4, <1>5, <1>6
  <1>8. x \notin leads
    BY <1>2, <1>4, <1>7
  <1> QED BY <1>7, <1>8

\* What a cycle at t changes, frame by frame: decoded frames come from the runs it
\* considers, interpolated ones from between the leads of such a run, and nothing
\* is left that eviction does not keep (fetch, _evict_outside_window).
LEMMA FetchFacts ==
    ASSUME NEW t, NEW missing, Fetch(t, missing)
    PROVE  /\ \A f \in frames' : \/ f \in frames
                                 \/ /\ f[1] \in RunsToConsider(t) /\ f = <<f[1], f[2]>>
                                    /\ f[2] \in Fetched(f[1], t, missing).frames
           /\ \A f \in synthetic' : \/ f \in synthetic
                                    \/ /\ f[1] \in RunsToConsider(t) /\ f = <<f[1], f[2]>>
                                       /\ f[2] \in Between(Leads(f[1], t, missing))
           /\ \A f \in Loaded' : Keeps(f[1] + f[2], t)
           /\ \A run \in RunsToConsider(t) : \A l \in Fetched(run, t, missing).frames :
                 Keeps(run + l, t) => <<run, l>> \in Loaded'
           /\ \A a \in accum' : \/ a \in accum
                                \/ /\ a[1] \in RunsToConsider(t) /\ a = <<a[1], a[2]>>
                                   /\ a[2] \in Fetched(a[1], t, missing).accum
           /\ \A run \in RunsToConsider(t) : \A l \in Fetched(run, t, missing).accum :
                 Keeps(run + l, t) \/ Keeps(run + l + Hour, t) => <<run, l>> \in accum'
           /\ \A a \in accum : Keeps(a[1] + a[2], t) => a \in accum'
           /\ \A g \in last'.got : /\ g[1] \in RunsToConsider(t) /\ g = <<g[1], g[2]>>
                                   /\ g[2] \in Fetched(g[1], t, missing).got
           /\ DOMAIN memo' \subseteq {f[1] : f \in Loaded'}
           /\ last'.clean = (missing = {})
  <1> DEFINE runs == RunsToConsider(t)
             result == [run \in runs |-> Fetched(run, t, missing)]
             landed == Keyed([run \in runs |-> result[run].frames])
             leads == [run \in runs |-> LoadedLeads(run) \cup result[run].frames]
             touched == {run \in runs : ToInterpolate(run, leads[run])}
             made == Keyed([run \in touched |-> Between(leads[run])])
             kept == EvictOutsideWindow(Loaded \cup landed \cup made, t)
             based == Keyed([run \in runs |-> result[run].accum])
             got == Keyed([run \in runs |-> result[run].got])
  <1>1. \A f : f \in landed <=> /\ f[1] \in runs /\ f = <<f[1], f[2]>>
                                /\ f[2] \in Fetched(f[1], t, missing).frames
    <2> DEFINE leadsOf == [run \in runs |-> result[run].frames]
    <2>1. DOMAIN leadsOf = runs /\ \A run \in runs : leadsOf[run] = Fetched(run, t, missing).frames
      OBVIOUS
    <2> HIDE DEF leadsOf, runs
    <2> QED BY <2>1, KeyedIs DEF leadsOf
  <1>2. \A f : f \in made => /\ f[1] \in runs /\ f = <<f[1], f[2]>>
                             /\ f[2] \in Between(Leads(f[1], t, missing))
    <2> DEFINE leadsOf == [run \in touched |-> Between(leads[run])]
    <2>1. /\ DOMAIN leadsOf \subseteq runs
          /\ \A run \in DOMAIN leadsOf : leadsOf[run] = Between(Leads(run, t, missing))
      BY DEF Leads
    <2>2. made = Keyed(leadsOf)
      OBVIOUS
    <2> HIDE DEF leadsOf, runs, made
    <2> QED BY <2>1, <2>2, KeyedIs
  <1>3. \A f : f \in based <=> /\ f[1] \in runs /\ f = <<f[1], f[2]>>
                               /\ f[2] \in Fetched(f[1], t, missing).accum
    <2> DEFINE leadsOf == [run \in runs |-> result[run].accum]
    <2>1. DOMAIN leadsOf = runs /\ \A run \in runs : leadsOf[run] = Fetched(run, t, missing).accum
      OBVIOUS
    <2> HIDE DEF leadsOf, runs
    <2> QED BY <2>1, KeyedIs DEF leadsOf
  <1>4. \A f : f \in got <=> /\ f[1] \in runs /\ f = <<f[1], f[2]>>
                             /\ f[2] \in Fetched(f[1], t, missing).got
    <2> DEFINE leadsOf == [run \in runs |-> result[run].got]
    <2>1. DOMAIN leadsOf = runs /\ \A run \in runs : leadsOf[run] = Fetched(run, t, missing).got
      OBVIOUS
    <2> HIDE DEF leadsOf, runs
    <2> QED BY <2>1, KeyedIs DEF leadsOf
  <1>5. /\ frames' = (frames \cup landed) \cap kept
        /\ synthetic' = (synthetic \cup made) \cap kept
        /\ accum' = EvictAccumulations(accum \cup based, t)
        /\ DOMAIN memo' \subseteq {f[1] : f \in kept}
        /\ last'.clean = (missing = {}) /\ last'.got = got
    BY DEF Fetch
  <1>6. Loaded' = kept
    BY <1>5 DEF Loaded, EvictOutsideWindow
  <1> HIDE DEF landed, made, based, got
  <1>7. \A f : f \in kept <=> f \in Loaded \cup landed \cup made /\ Keeps(f[1] + f[2], t)
    BY DEF EvictOutsideWindow
  <1> HIDE DEF kept
  <1>8. \A a : a \in accum' <=> /\ a \in accum \cup based
                                /\ Keeps(a[1] + a[2], t) \/ Keeps(a[1] + a[2] + Hour, t)
    BY <1>5 DEF EvictAccumulations
  <1>9. \A run \in runs : \A l \in Fetched(run, t, missing).frames : <<run, l>> \in landed
    BY <1>1
  <1>10. \A run \in runs : \A l \in Fetched(run, t, missing).accum : <<run, l>> \in based
    BY <1>3
  <1>11. \A run \in runs : \A l \in Fetched(run, t, missing).frames :
            Keeps(run + l, t) => <<run, l>> \in Loaded'
    BY <1>6, <1>7, <1>9
  <1>12. \A run \in runs : \A l \in Fetched(run, t, missing).accum :
            Keeps(run + l, t) \/ Keeps(run + l + Hour, t) => <<run, l>> \in accum'
    BY <1>8, <1>10
  <1>13. /\ \A f \in frames' : f \in frames \/ f \in landed
         /\ \A f \in synthetic' : f \in synthetic \/ f \in made
         /\ \A f \in Loaded' : Keeps(f[1] + f[2], t)
         /\ \A a \in accum' : a \in accum \/ a \in based
         /\ \A a \in accum : Keeps(a[1] + a[2], t) => a \in accum'
    BY <1>5, <1>6, <1>7, <1>8
  <1> QED BY <1>1, <1>2, <1>3, <1>4, <1>5, <1>6, <1>11, <1>12, <1>13

-----------------------------------------------------------------------------
(* Types. *)

Sound ==
    /\ Loaded \cup accum \subseteq Int \X Int
    /\ TypeOK

\* The leads that are known of a run are keys of its frames and accumulations.
LEMMA KnownLeads ==
    ASSUME Sound, NEW run
    PROVE  /\ LoadedLeads(run) \subseteq 0 .. Grid.reach
           /\ Accumulated(run) \subseteq 0 .. Grid.reach
           /\ \A l : l \in LoadedLeads(run) <=> <<run, l>> \in Loaded
           /\ \A l : l \in Accumulated(run) <=> <<run, l>> \in accum
  <1>1. \A f \in Loaded \cup accum : f = <<f[1], f[2]>> /\ f[2] \in 0 .. Grid.reach
    BY DEF Sound, TypeOK
  <1>2. \A l : l \in LoadedLeads(run) <=> <<run, l>> \in Loaded
    BY <1>1 DEF LoadedLeads
  <1>3. \A l : l \in Accumulated(run) <=> <<run, l>> \in accum
    BY <1>1 DEF Accumulated
  <1>4. \A l : <<run, l>>[2] = l
    OBVIOUS
  <1> QED BY <1>1, <1>2, <1>3, <1>4

\* A step of a grid that takes differences, in hours.
LEMMA ChainedSteps ==
    ASSUME kind \in GridNames, NEW l \in InHours(1 .. HoursDown(Grid.reach))
    PROVE  l \in 0 .. Grid.reach
  <1>1. PICK s \in 1 .. HoursDown(Grid.reach) : l = s * 12
    BY DEF InHours, Hour
  <1>2. Grid.reach \in Nat /\ HoursDown(Grid.reach) \in Int /\ HoursDown(Grid.reach) * 12 <= Grid.reach
    BY GridReach, Hours
  <1> QED BY <1>1, <1>2

\* Whatever the way it makes a frame, a grid gets frames it has not loaded, and
\* frames and accumulations of leads up to its reach.
LEMMA FetchedTypes ==
    ASSUME IInv, Sound, NEW t \in Int, NEW run \in Int, NEW missing
    PROVE  /\ Fetched(run, t, missing).frames \subseteq (0 .. Grid.reach) \ LoadedLeads(run)
           /\ Fetched(run, t, missing).accum \subseteq 0 .. Grid.reach
  <1> DEFINE wanted == LeadsWanted(run, t)
             lost == {m[2] : m \in {n \in missing : n[1] = run}}
             reach == 0 .. Grid.reach
             Good(r) == r.frames \subseteq reach \ LoadedLeads(run) /\ r.accum \subseteq reach
  <1>1. wanted \subseteq reach /\ (kind # "hrrr" => \A l \in wanted : \E h \in Nat : l = h * 12)
    BY WantedLeads DEF IInv
  <1>2. LoadedLeads(run) \subseteq reach /\ Accumulated(run) \subseteq reach
    BY KnownLeads
  <1>3. 0 \in reach /\ Grid.reach \in Nat
    BY GridReach DEF IInv
  <1> HIDE DEF wanted, lost
  <1>4. Good(FetchDirect(run, wanted, lost))
    BY <1>1 DEF FetchDirect
  <1>5. Good(FetchChained(run, wanted, lost))
    <2>1. FetchChained(run, wanted, lost).accum \subseteq InHours((1 .. HoursDown(Grid.reach)) \cup {0})
      BY DEF FetchChained, InHours
    <2>2. FetchChained(run, wanted, lost).frames \subseteq
             InHours(1 .. HoursDown(Grid.reach)) \ LoadedLeads(run)
      BY DEF FetchChained, InHours
    <2>3. InHours((1 .. HoursDown(Grid.reach)) \cup {0})
             \subseteq InHours(1 .. HoursDown(Grid.reach)) \cup {0}
      BY DEF InHours, Hour
    <2> QED BY <2>1, <2>2, <2>3, <1>3, ChainedSteps DEF IInv
  <1>6. Good(FetchTwoPhase(run, wanted, lost))
    BY <1>1, <1>2, <1>3 DEF FetchTwoPhase
  <1>7. CASE kind \in {"hrrr", "hrrr_alaska", "hrdps", "jma_msm"}
    <2>1. Fetched(run, t, missing) = FetchDirect(run, wanted, lost)
      BY <1>7 DEF Fetched, HRRRFile, AlaskaFile, HRDPSStep, JMAStep, wanted, lost
    <2> QED BY <1>4, <2>1
  <1>8. CASE kind \in {"icon_eu", "dmi_dini"}
    <2>1. Fetched(run, t, missing) = FetchChained(run, wanted, lost)
      BY <1>8 DEF Fetched, ICONStep, DMIStep, wanted, lost
    <2> QED BY <1>5, <2>1
  <1>9. CASE kind = "wrf_smn"
    <2>1. Fetched(run, t, missing) = FetchTwoPhase(run, wanted, lost)
      BY <1>9 DEF Fetched, wanted, lost
    <2> QED BY <1>6, <2>1
  <1>10. CASE kind = "arome"
    <2>1. Fetched(run, t, missing) = FetchEnsured(run, wanted, lost)
      BY <1>10 DEF Fetched, wanted, lost
    <2>2. \A l \in wanted : l > 0 => l - Hour \in reach
      BY <1>1, <1>3, <1>10 DEF Hour
    <2> DEFINE r == FetchEnsured(run, wanted, lost)
    <2>3. \A l \in r.frames : l \in wanted /\ l \notin LoadedLeads(run)
      BY DEF FetchEnsured
    <2>4. \A a \in r.accum : a = 0 \/ \E l \in wanted : l > 0 /\ a \in {l, l - Hour}
      BY DEF FetchEnsured
    <2> HIDE DEF r
    <2>5. Good(r)
      BY <1>1, <1>3, <2>2, <2>3, <2>4
    <2> QED BY <2>1, <2>5 DEF r
  <1> QED BY <1>7, <1>8, <1>9, <1>10 DEF IInv, GridNames

\* An interpolated frame is not the frame of any lead of its run, and lies between
\* two of them.
LEMMA MadeTypes ==
    ASSUME IInv, Sound, NEW t \in Int, NEW run \in Int, NEW missing,
           NEW l \in Between(Leads(run, t, missing))
    PROVE  /\ l \in 0 .. Grid.reach /\ l \notin Leads(run, t, missing)
           /\ \E a, b \in Leads(run, t, missing) : a < l /\ l < b
  <1>1. Leads(run, t, missing) \subseteq 0 .. Grid.reach
    BY FetchedTypes, KnownLeads DEF Leads
  <1>2. Leads(run, t, missing) \in SUBSET Nat /\ Grid.reach \in Nat
    BY <1>1, GridReach DEF IInv
  <1>3. /\ l \in Nat /\ l \notin Leads(run, t, missing)
        /\ \E a, b \in Leads(run, t, missing) : a < l /\ l < b
    BY <1>2, BetweenIs
  <1> QED BY <1>1, <1>2, <1>3

LEMMA FetchSound ==
    ASSUME IInv, Sound, NEW missing, now' \in Int, Fetch(now', missing), UNCHANGED settings
    PROVE  Sound'
  <1>1. RunsToConsider(now') \subseteq Int
    BY RunsInt DEF IInv
  <1>2. Grid' = Grid
    BY DEF settings, Grid, HRRR, HRRRAlaska, HRDPS, ICONEU, DMIDINI, WRFSMN, JMAMSM, AROME
  <1>3. /\ \A f \in frames' :
              \/ f \in frames
              \/ /\ f[1] \in Int /\ f = <<f[1], f[2]>>
                 /\ f[2] \in Fetched(f[1], now', missing).frames
        /\ \A f \in synthetic' :
              \/ f \in synthetic
              \/ /\ f[1] \in Int /\ f = <<f[1], f[2]>>
                 /\ f[2] \in Between(Leads(f[1], now', missing))
        /\ \A a \in accum' :
              \/ a \in accum
              \/ /\ a[1] \in Int /\ a = <<a[1], a[2]>>
                 /\ a[2] \in Fetched(a[1], now', missing).accum
        /\ DOMAIN memo' \subseteq {f[1] : f \in Loaded'}
    BY <1>1, FetchFacts
  <1>4. \A f \in Loaded' \cup accum' : f \in Int \X Int /\ f[1] \in Int /\ f[2] \in 0 .. Grid.reach
    <2>1. \A f \in Loaded \cup accum : f \in Int \X Int /\ f[1] \in Int /\ f[2] \in 0 .. Grid.reach
      BY DEF Sound, TypeOK
    <2>2. ASSUME NEW f, f[1] \in Int, f = <<f[1], f[2]>>, f[2] \in 0 .. Grid.reach
          PROVE  f \in Int \X Int
      <3>1. f[2] \in Int
        BY <2>2
      <3> QED BY <2>2, <3>1
    <2> QED BY <1>3, <2>1, <2>2, FetchedTypes, MadeTypes DEF Loaded
  <1>5. frames' \cap synthetic' = {}
    <2> SUFFICES ASSUME NEW f \in frames', f \in synthetic' PROVE FALSE
      OBVIOUS
    <2>1. ~(f \in frames /\ f \in synthetic)
      BY DEF Sound, TypeOK
    <2>2. f = <<f[1], f[2]>>
      BY <1>3, <2>1
    <2>3. f \in Loaded => f[2] \in LoadedLeads(f[1])
      BY <2>2, KnownLeads
    <2>4. f \in synthetic => FALSE
      BY <1>3, <2>1, <2>3, FetchedTypes DEF Loaded
    <2>5. f[1] \in Int /\ f[2] \notin Leads(f[1], now', missing)
      BY <1>3, <2>4, MadeTypes
    <2> QED BY <1>3, <2>3, <2>5 DEF Leads, Loaded
  <1> QED BY <1>2, <1>3, <1>4, <1>5 DEF Sound, TypeOK, IInv, settings

LEMMA NextSound == ASSUME IInv, Sound, [Next]_vars PROVE Sound'
  <1>1. CASE Cycle
    <2>1. now' \in Int /\ UNCHANGED settings
      BY <1>1, ConstantsAssumption DEF Cycle, IInv
    <2>2. CASE NoRuns(now')
      BY <2>1, <2>2 DEF Sound, TypeOK, NoRuns, settings, Loaded, Grid, HRRR, HRRRAlaska,
         HRDPS, ICONEU, DMIDINI, WRFSMN, JMAMSM, AROME
    <2>3. CASE \E missing : Fetch(now', missing)
      BY <2>1, <2>3, FetchSound
    <2> QED BY <1>1, <2>2, <2>3 DEF Cycle
  <1>2. CASE Restart
    BY <1>2 DEF Restart, Sound, TypeOK, settings, Loaded, Grid, HRRR, HRRRAlaska, HRDPS,
       ICONEU, DMIDINI, WRFSMN, JMAMSM, AROME
  <1>3. CASE UNCHANGED vars
    BY <1>3 DEF vars, Sound, TypeOK, Loaded, Grid, HRRR, HRRRAlaska, HRDPS, ICONEU,
       DMIDINI, WRFSMN, JMAMSM, AROME
  <1> QED BY <1>1, <1>2, <1>3 DEF Next

\* No frame is both decoded and interpolated, and no lead is beyond the reach of
\* its grid, for every set of grids, window and number of cycles and faults.
THEOREM GridTypesHold == Spec => []TypeOK
  <1>1. Init => Sound
    <2> SUFFICES ASSUME Init PROVE Sound
      OBVIOUS
    <2>1. IInv
      BY InitIInv
    <2>2. frames = {} /\ synthetic = {} /\ accum = {} /\ DOMAIN memo = {}
      BY DEF Init
    <2> QED BY <2>1, <2>2 DEF Sound, TypeOK, IInv, Loaded
  <1>2. Sound => TypeOK
    BY DEF Sound
  <1> QED BY <1>1, <1>2, NextSound, RunsAreTimes, PTL DEF Spec

-----------------------------------------------------------------------------
(* The grids that take differences step after step (ICON-EU, DMI-DINI).      *)

Chained == {"icon_eu", "dmi_dini"}

\* What eviction keeps, at the lower end.
Edge(t) == WindowStart(t) - 36

LEMMA ChainedKeeps ==
    ASSUME kind \in Chained, NEW v \in Int, NEW t \in Int, history \in Nat, horizon \in Nat
    PROVE  Keeps(v, t) <=> Edge(t) <= v /\ v <= WindowEnd(t) + 12
  <1>1. ICONKeeps(v, t) <=> Edge(t) <= v /\ v <= WindowEnd(t) + 12
    BY DEF ICONKeeps, WithinSlack, Edge, Hour
  <1>2. DMIKeeps(v, t) <=> Edge(t) <= v /\ v <= WindowEnd(t) + 12
    BY DEF DMIKeeps, WithinSlack, Edge, Hour
  <1>3. CASE kind = "icon_eu"
    BY <1>1, <1>3, Zenon DEF Keeps
  <1>4. CASE kind = "dmi_dini"
    BY <1>2, <1>4, Zenon DEF Keeps
  <1> QED BY <1>3, <1>4 DEF Chained

\* The files of a run that cannot be had.
Lost(run, missing) == {m[2] : m \in {n \in missing : n[1] = run}}

\* Step s can be fetched; what its difference needs is a frame or an accumulation.
Opens(run, lost, s) == s * 12 \notin LoadedLeads(run) \cup lost
AtHand(run, lost, s) ==
    s = 0 \/ s * 12 \in Accumulated(run) \cup (LoadedLeads(run) \ lost)
Unknown(run, s) == s * 12 \notin Accumulated(run) \cup LoadedLeads(run)

\* A cycle comes to step s, asked for or on the way down from one that is.
Reaches(run, wanted, lost, s) ==
    \E w \in Nat : /\ w * 12 \in wanted /\ s <= w
                   /\ \A r \in s + 1 .. w : Opens(run, lost, r) /\ Unknown(run, r - 1)

\* It can take the difference to step s.
Based(run, lost, s) ==
    \E b \in 0 .. s : /\ AtHand(run, lost, b)
                      /\ \A r \in b + 1 .. s : Opens(run, lost, r) /\ Unknown(run, r)

\* The same of FetchChained, in hours.
LEMMA ChainFetches ==
    ASSUME IInv, kind \in Chained, NEW t \in Int, NEW run \in Int, NEW missing
    PROVE  LET fetched == Fetched(run, t, missing)
               wanted == LeadsWanted(run, t)
               lost == Lost(run, missing)
           IN  /\ \A l : l \in fetched.frames <=>
                    \E s \in 1 .. HoursDown(Grid.reach) :
                       /\ l = s * 12 /\ Opens(run, lost, s)
                       /\ Reaches(run, wanted, lost, s) /\ Based(run, lost, s - 1)
               /\ \A l : l \in fetched.got =>
                    \/ l \in fetched.frames
                    \/ \E s \in 1 .. HoursDown(Grid.reach) :
                          /\ l = s * 12 /\ l \in LoadedLeads(run) \ (Accumulated(run) \cup lost)
                          /\ Opens(run, lost, s + 1) /\ Reaches(run, wanted, lost, s + 1)
               /\ fetched.got \subseteq fetched.accum
               /\ \A a \in fetched.accum : a = 0 \/ a \in fetched.got
  <1> DEFINE wanted == LeadsWanted(run, t)
             lost == Lost(run, missing)
             loaded == LoadedLeads(run)
             have == Accumulated(run)
             steps == 1 .. HoursDown(Grid.reach)
             O(s) == s * Hour \notin loaded \cup lost
             D(s) == O(s) /\ (s - 1) * Hour \notin have \cup loaded
             R(s) == \E l \in wanted : s * Hour <= l /\ \A r \in s + 1 .. HoursDown(l) : D(r)
             A(s) == s = 0 \/ s * Hour \in have \cup (loaded \ lost)
             B(s) == \E b \in 0 .. s :
                        A(b) /\ \A r \in b + 1 .. s : r * Hour \notin have \cup loaded \cup lost
             new == {s \in steps : O(s) /\ R(s) /\ B(s - 1)}
             again == {s \in steps : /\ s * Hour \in loaded \ (have \cup lost)
                                     /\ O(s + 1) /\ R(s + 1)}
             zero == IF R(0) THEN {0} ELSE {}
             fetched == Fetched(run, t, missing)
  <1>1. fetched = [frames |-> InHours(new), accum |-> InHours(new \cup again \cup zero),
                   got |-> InHours(new \cup again)]
    <2>1. fetched = FetchChained(run, wanted, lost)
      BY DEF Fetched, ICONStep, DMIStep, Chained, Lost
    <2> QED BY <2>1 DEF FetchChained
  <1>2. \A s \in Int : O(s) <=> Opens(run, lost, s)
    BY DEF Opens, Hour
  <1>3. \A s \in Int : R(s) <=> Reaches(run, wanted, lost, s)
    <2> SUFFICES ASSUME NEW s \in Int PROVE R(s) <=> Reaches(run, wanted, lost, s)
      OBVIOUS
    <2>1. \A l \in wanted : \E w \in Nat : l = w * 12 /\ HoursDown(l) = w
      <3> SUFFICES ASSUME NEW l \in wanted PROVE \E w \in Nat : l = w * 12 /\ HoursDown(l) = w
        OBVIOUS
      <3>1. PICK w \in Nat : l = w * 12
        BY WantedLeads DEF IInv, Chained
      <3> HIDE DEF wanted
      <3>2. HoursDown(w * 12) \in Int /\ HoursDown(w * 12) * 12 <= w * 12
            /\ w * 12 < HoursDown(w * 12) * 12 + 12
        BY Hours
      <3>3. HoursDown(l) = w
        BY <3>1, <3>2
      <3> QED BY <3>1, <3>3
    <2>2. \A w \in Nat : w * 12 \in wanted => HoursDown(w * 12) = w
      <3> SUFFICES ASSUME NEW w \in Nat, w * 12 \in wanted PROVE HoursDown(w * 12) = w
        OBVIOUS
      <3>1. PICK v \in Nat : w * 12 = v * 12 /\ HoursDown(w * 12) = v
        BY <2>1
      <3> HIDE DEF wanted
      <3> QED BY <3>1
    <2>3. \A r \in Int : D(r) <=> Opens(run, lost, r) /\ Unknown(run, r - 1)
      BY DEF Opens, Unknown, Hour
    <2> HIDE DEF wanted, D
    <2>4. ASSUME R(s) PROVE Reaches(run, wanted, lost, s)
      <3>1. PICK l \in wanted : s * 12 <= l /\ \A r \in s + 1 .. HoursDown(l) : D(r)
        BY <2>4 DEF Hour
      <3>2. PICK w \in Nat : l = w * 12 /\ HoursDown(l) = w
        BY <2>1
      <3>3. s <= w
        BY <3>1, <3>2
      <3> QED BY <2>3, <3>1, <3>2, <3>3 DEF Reaches
    <2>5. ASSUME Reaches(run, wanted, lost, s) PROVE R(s)
      <3>1. PICK w \in Nat : /\ w * 12 \in wanted /\ s <= w
                             /\ \A r \in s + 1 .. w : Opens(run, lost, r) /\ Unknown(run, r - 1)
        BY <2>5 DEF Reaches
      <3>2. HoursDown(w * 12) = w /\ s * Hour <= w * 12
        BY <2>2, <3>1 DEF Hour
      <3> QED BY <2>3, <3>1, <3>2
    <2> QED BY <2>4, <2>5
  <1>4. \A s \in Int : B(s) <=> Based(run, lost, s)
    BY DEF Based, AtHand, Opens, Unknown, Hour
  <1>5. \A s \in steps : s \in Int /\ s - 1 \in Int /\ s + 1 \in Int
    OBVIOUS
  <1>6. /\ \A s : s \in new <=> s \in steps /\ O(s) /\ R(s) /\ B(s - 1)
        /\ \A s : s \in again <=> /\ s \in steps /\ s * Hour \in loaded \ (have \cup lost)
                                  /\ O(s + 1) /\ R(s + 1)
    OBVIOUS
  <1> HIDE DEF O, R, B, wanted, lost
  <1>7. /\ fetched.frames = InHours(new) /\ fetched.got = InHours(new \cup again)
        /\ fetched.accum = InHours(new \cup again \cup zero)
    BY <1>1
  <1> HIDE DEF fetched
  <1>8. \A S : \A l : l \in InHours(S) <=> \E s \in S : l = s * 12
    BY DEF InHours, Hour
  <1>9. zero \subseteq {0}
    OBVIOUS
  <1> HIDE DEF new, again, zero
  <1>10. \A l : l \in fetched.frames <=>
           \E s \in steps : /\ l = s * 12 /\ Opens(run, lost, s)
                            /\ Reaches(run, wanted, lost, s) /\ Based(run, lost, s - 1)
    BY <1>2, <1>3, <1>4, <1>5, <1>6, <1>7, <1>8
  <1>11. \A l : l \in fetched.got =>
           \/ l \in fetched.frames
           \/ \E s \in steps : /\ l = s * 12 /\ l \in loaded \ (have \cup lost)
                               /\ Opens(run, lost, s + 1) /\ Reaches(run, wanted, lost, s + 1)
    BY <1>2, <1>3, <1>5, <1>6, <1>7, <1>8 DEF Hour
  <1>12. fetched.got \subseteq fetched.accum
    BY <1>7, <1>8
  <1>13. \A a \in fetched.accum : a = 0 \/ a \in fetched.got
    <2> SUFFICES ASSUME NEW a \in fetched.accum PROVE a = 0 \/ a \in fetched.got
      OBVIOUS
    <2>1. PICK s \in new \cup again \cup zero : a = s * 12
      BY <1>7, <1>8
    <2>2. CASE s \in new \cup again
      BY <1>7, <1>8, <2>1, <2>2
    <2>3. CASE s \in zero
      <3>1. s = 0
        BY <1>9, <2>3
      <3> QED BY <2>1, <3>1
    <2> QED BY <2>2, <2>3
  <1> QED BY <1>10, <1>11, <1>12, <1>13 DEF fetched, wanted, lost

ChainInv ==
    \* Below a frame there is one for every hour, down to where eviction cuts, and
    \* below a frame that is left there beyond it.
    /\ \A f \in Loaded, x \in Nat :
          /\ x > 0 /\ x * 12 < f[2]
          /\ Edge(now) <= f[1] + x * 12 \/ \E l \in LoadedLeads(f[1]) : l < x * 12
          => <<f[1], x * 12>> \in Loaded
    \* Nothing lies above the last decoded frame of a run.
    /\ \A f \in Loaded : \E c \in Nat : f[2] <= c * 12 /\ <<f[1], c * 12>> \in Loaded
    /\ \A f \in Loaded : f[1] + f[2] <= WindowEnd(now) + 12
    \* An accumulation without its frame is below all frames, and not asked for.
    /\ \A a \in accum : \/ a \in Loaded \/ a[2] = 0
                        \/ /\ a[1] + a[2] < Edge(now)
                           /\ \A l \in LoadedLeads(a[1]) : a[2] < l
    \* What was downloaded is below a frame that landed, and accounted for if it is
    \* loaded itself.
    /\ \A g \in last.got : /\ \E l \in LoadedLeads(g[1]) : g[2] <= l
                           /\ g \in Loaded => g \in accum
    /\ \A f \in synthetic, x \in Nat : f[2] # x * 12

\* Steps asked for are whole hours that eviction keeps.
LEMMA ChainWanted ==
    ASSUME IInv, kind \in Chained, NEW t \in Int, NEW run \in Int, NEW w \in Nat,
           w * 12 \in LeadsWanted(run, t)
    PROVE  /\ Edge(t) <= run + w * 12 /\ run + w * 12 <= WindowEnd(t) + 12
           /\ w <= HoursDown(Grid.reach)
           /\ w = 0 \/ w \in 1 .. HoursDown(Grid.reach)
  <1>1. Keeps(run + w * 12, t)
    BY WantedIsKept DEF IInv, Chained
  <1>2. Edge(t) <= run + w * 12 /\ run + w * 12 <= WindowEnd(t) + 12
    BY <1>1, ChainedKeeps DEF IInv
  <1>3. w * 12 <= Grid.reach /\ Grid.reach \in Nat
    BY WantedLeads, GridReach DEF IInv
  <1>4. /\ HoursDown(Grid.reach) \in Int
        /\ Grid.reach < HoursDown(Grid.reach) * 12 + 12
    BY GridReach, Hours DEF IInv
  <1> QED BY <1>2, <1>3, <1>4

\* A step that can be fetched, and whose difference can be taken, lands with all
\* the steps from it up to the one that is asked for.
LEMMA ChainTop ==
    ASSUME IInv, kind \in Chained, NEW t \in Int, NEW run \in Int, NEW missing,
           NEW s \in 1 .. HoursDown(Grid.reach) + 1,
           Opens(run, Lost(run, missing), s),
           Reaches(run, LeadsWanted(run, t), Lost(run, missing), s),
           Based(run, Lost(run, missing), s - 1)
    PROVE  \E w \in Nat : /\ s <= w /\ w * 12 \in LeadsWanted(run, t)
                          /\ w * 12 \in Fetched(run, t, missing).frames
  <1> DEFINE wanted == LeadsWanted(run, t)
             lost == Lost(run, missing)
  <1>1. PICK w \in Nat : /\ w * 12 \in wanted /\ s <= w
                         /\ \A r \in s + 1 .. w : Opens(run, lost, r) /\ Unknown(run, r - 1)
    BY DEF Reaches
  <1>2. PICK b \in 0 .. s - 1 : /\ AtHand(run, lost, b)
                                /\ \A r \in b + 1 .. s - 1 : Opens(run, lost, r) /\ Unknown(run, r)
    BY DEF Based
  <1>3. HoursDown(Grid.reach) \in Int
    BY GridReach, Hours DEF IInv
  <1>4. s \in Int /\ s >= 1 /\ b \in Int /\ 0 <= b /\ b <= s - 1
    BY <1>2, <1>3
  <1> HIDE DEF wanted, lost
  <1>5. Opens(run, lost, w)
    <2>1. CASE w = s
      BY <2>1 DEF lost
    <2>2. CASE w > s
      <3>1. w \in s + 1 .. w
        BY <1>4, <2>2
      <3> QED BY <1>1, <3>1
    <2> QED BY <1>1, <1>4, <2>1, <2>2
  <1>6. Reaches(run, wanted, lost, w)
    BY <1>1, <1>4 DEF Reaches
  <1>7. Based(run, lost, w - 1)
    <2>1. \A r \in b + 1 .. w - 1 : Opens(run, lost, r) /\ Unknown(run, r)
      <3> SUFFICES ASSUME NEW r \in b + 1 .. w - 1
                   PROVE  Opens(run, lost, r) /\ Unknown(run, r)
        OBVIOUS
      <3>1. CASE r < s
        BY <1>2, <1>4, <3>1
      <3>2. CASE r = s
        <4>1. r + 1 \in s + 1 .. w
          BY <1>4, <3>2
        <4>2. Unknown(run, (r + 1) - 1)
          BY <1>1, <4>1
        <4>3. (r + 1) - 1 = r
          BY <1>4, <3>2
        <4> QED BY <3>2, <4>2, <4>3 DEF lost
      <3>3. CASE r > s
        <4>1. r + 1 \in s + 1 .. w /\ r \in s + 1 .. w
          BY <1>4, <3>3
        <4>2. Unknown(run, (r + 1) - 1) /\ Opens(run, lost, r)
          BY <1>1, <4>1
        <4>3. (r + 1) - 1 = r
          BY <1>4, <3>3
        <4> QED BY <4>2, <4>3
      <3> QED BY <1>4, <3>1, <3>2, <3>3
    <2>2. b \in 0 .. w - 1
      BY <1>1, <1>4
    <2> QED BY <1>2, <2>1, <2>2 DEF Based
  <1>8. w \in 1 .. HoursDown(Grid.reach)
    <2>1. w = 0 \/ w \in 1 .. HoursDown(Grid.reach)
      BY <1>1, ChainWanted DEF wanted
    <2> QED BY <2>1, <1>1, <1>4
  <1>9. w * 12 \in Fetched(run, t, missing).frames
    BY <1>5, <1>6, <1>7, <1>8, ChainFetches DEF wanted, lost
  <1> QED BY <1>1, <1>9 DEF wanted

\* No step lands below a frame that is loaded.
LEMMA NewIsAbove ==
    ASSUME IInv, Sound, ChainInv, kind \in Chained, NEW t \in Int, now <= t,
           NEW run \in Int, NEW missing,
           NEW s \in Nat, s * 12 \in Fetched(run, t, missing).frames,
           NEW l \in LoadedLeads(run)
    PROVE  l < s * 12
  <1> DEFINE wanted == LeadsWanted(run, t)
             lost == Lost(run, missing)
  <1>1. Opens(run, lost, s) /\ Reaches(run, wanted, lost, s) /\ s >= 1
    <2>1. PICK v \in 1 .. HoursDown(Grid.reach) :
             s * 12 = v * 12 /\ Opens(run, lost, v) /\ Reaches(run, wanted, lost, v)
      BY ChainFetches
    <2>2. HoursDown(Grid.reach) \in Int
      BY GridReach, Hours DEF IInv
    <2> HIDE DEF wanted, lost
    <2>3. s = v /\ v >= 1
      BY <2>1, <2>2
    <2> QED BY <2>1, <2>3
  <1>2. PICK w \in Nat : /\ w * 12 \in wanted /\ s <= w
                         /\ \A r \in s + 1 .. w : Opens(run, lost, r) /\ Unknown(run, r - 1)
    BY <1>1 DEF Reaches
  <1>3. Edge(t) <= run + w * 12
    BY <1>2, ChainWanted
  <1>4. Opens(run, lost, w)
    <2>1. CASE w = s
      BY <1>1, <2>1
    <2>2. CASE w > s
      <3>1. w \in s + 1 .. w
        BY <2>2
      <3> QED BY <1>2, <3>1
    <2> QED BY <1>2, <2>1, <2>2
  <1>5. <<run, l>> \in Loaded /\ l \in Nat
    BY KnownLeads, GridReach DEF IInv
  <1>6. PICK c \in Nat : l <= c * 12 /\ <<run, c * 12>> \in Loaded
    <2> DEFINE f == <<run, l>>
    <2>1. f \in Loaded /\ f[1] = run /\ f[2] = l
      BY <1>5
    <2> HIDE DEF f
    <2>2. \E c \in Nat : f[2] <= c * 12 /\ <<f[1], c * 12>> \in Loaded
      BY <2>1 DEF ChainInv
    <2> QED BY <2>1, <2>2
  <1>7. c * 12 \in LoadedLeads(run)
    BY <1>6, KnownLeads
  <1>8. Edge(now) <= run + w * 12
    BY <1>3 DEF Edge, WindowStart, IInv
  <1>9. w = 0 \/ ~(w < c)
    <2> SUFFICES ASSUME w > 0, w < c PROVE FALSE
      OBVIOUS
    <2> DEFINE f == <<run, c * 12>>
    <2>1. f \in Loaded /\ f[1] = run /\ f[2] = c * 12
      BY <1>6
    <2> HIDE DEF f
    <2>2. w * 12 < f[2] /\ Edge(now) <= f[1] + w * 12
      BY <1>8, <2>1
    <2>3. <<f[1], w * 12>> \in Loaded
      BY <2>1, <2>2 DEF ChainInv
    <2>4. w * 12 \in LoadedLeads(run)
      BY <2>1, <2>3, KnownLeads
    <2> QED BY <1>4, <2>4 DEF Opens
  <1>10. w # c
    BY <1>4, <1>7 DEF Opens
  <1>11. ASSUME s <= c, c < w PROVE FALSE
    <2>1. c + 1 \in s + 1 .. w /\ (c + 1) - 1 = c
      BY <1>11
    <2>2. Unknown(run, c)
      BY <1>2, <2>1
    <2> QED BY <1>7, <2>2 DEF Unknown
  <1>12. c < s
    BY <1>1, <1>2, <1>9, <1>10, <1>11
  <1> QED BY <1>5, <1>6, <1>12

\* A step that lands is of an hour from the first on, not beyond what is kept, and
\* above the accumulations that are left without their frames.
LEMMA NewStep ==
    ASSUME IInv, Sound, ChainInv, kind \in Chained, NEW t \in Int, now <= t,
           NEW run \in Int, NEW missing, NEW l \in Fetched(run, t, missing).frames
    PROVE  \E s \in Nat :
             /\ l = s * 12 /\ s >= 1 /\ s \in 1 .. HoursDown(Grid.reach)
             /\ Opens(run, Lost(run, missing), s)
             /\ Reaches(run, LeadsWanted(run, t), Lost(run, missing), s)
             /\ Based(run, Lost(run, missing), s - 1)
             /\ run + l <= WindowEnd(t) + 12
             /\ \A b \in Nat : /\ b > 0 /\ b * 12 \in Accumulated(run)
                               /\ b * 12 \notin LoadedLeads(run)
                               => b < s
  <1> DEFINE wanted == LeadsWanted(run, t)
             lost == Lost(run, missing)
  <1>1. PICK s \in 1 .. HoursDown(Grid.reach) :
           /\ l = s * 12 /\ Opens(run, lost, s)
           /\ Reaches(run, wanted, lost, s) /\ Based(run, lost, s - 1)
    BY ChainFetches
  <1>2. HoursDown(Grid.reach) \in Int
    BY GridReach, Hours DEF IInv
  <1>3. s \in Nat /\ s >= 1
    BY <1>1, <1>2
  <1>4. PICK w \in Nat : /\ w * 12 \in wanted /\ s <= w
                         /\ \A r \in s + 1 .. w : Opens(run, lost, r) /\ Unknown(run, r - 1)
    BY <1>1 DEF Reaches
  <1>5. Edge(t) <= run + w * 12 /\ run + w * 12 <= WindowEnd(t) + 12
    BY <1>4, ChainWanted
  <1>6. run + s * 12 <= WindowEnd(t) + 12
    BY <1>3, <1>4, <1>5 DEF WindowEnd, IInv
  <1>7. ASSUME NEW b \in Nat, b > 0, b * 12 \in Accumulated(run), b * 12 \notin LoadedLeads(run)
        PROVE  b < s
    <2> DEFINE a == <<run, b * 12>>
    <2>1. a \in accum /\ a \notin Loaded /\ a[1] = run /\ a[2] = b * 12 /\ a[2] # 0
      BY <1>7, KnownLeads
    <2> HIDE DEF a
    <2>2. a[1] + a[2] < Edge(now)
      BY <2>1 DEF ChainInv
    <2>3. run + b * 12 < run + w * 12
      BY <1>5, <2>1, <2>2 DEF Edge, WindowStart, IInv
    <2>4. b < w
      BY <1>4, <2>3
    <2>5. ASSUME s <= b PROVE FALSE
      <3>1. b + 1 \in s + 1 .. w /\ (b + 1) - 1 = b
        BY <1>3, <1>4, <2>4, <2>5
      <3>2. Unknown(run, b)
        BY <1>4, <3>1
      <3> QED BY <1>7, <3>2 DEF Unknown
    <2> QED BY <1>3, <2>5
  <1> QED BY <1>1, <1>3, <1>6, <1>7

\* A frame that lands is of a whole hour, above the frames of its run.
LEMMA NewHours ==
    ASSUME IInv, Sound, ChainInv, kind \in Chained, NEW t \in Int, now <= t,
           NEW run \in Int, NEW missing, NEW l \in Fetched(run, t, missing).frames
    PROVE  \E s \in Nat : l = s * 12 /\ s >= 1 /\ \A m \in LoadedLeads(run) : m < s * 12
  BY NewStep, NewIsAbove

\* The steps below one that lands are loaded or land as well, down to the edge.
LEMMA NewIsFilled ==
    ASSUME IInv, Sound, ChainInv, kind \in Chained, NEW t \in Int, now <= t,
           NEW run \in Int, NEW missing, NEW l \in Fetched(run, t, missing).frames,
           NEW x \in Nat, x > 0, x * 12 < l,
           Edge(t) <= run + x * 12 \/ \E m \in Leads(run, t, missing) : m < x * 12
    PROVE  x * 12 \in Leads(run, t, missing)
  <1> DEFINE wanted == LeadsWanted(run, t)
             lost == Lost(run, missing)
  <1>1. PICK s \in Nat :
           /\ l = s * 12 /\ s >= 1 /\ s \in 1 .. HoursDown(Grid.reach)
           /\ Opens(run, lost, s)
           /\ Reaches(run, wanted, lost, s)
           /\ Based(run, lost, s - 1)
    BY NewStep
  <1>2. PICK w \in Nat : /\ w * 12 \in wanted /\ s <= w
                         /\ \A r \in s + 1 .. w : Opens(run, lost, r) /\ Unknown(run, r - 1)
    BY <1>1 DEF Reaches
  <1>3. PICK b \in 0 .. s - 1 : /\ AtHand(run, lost, b)
                                /\ \A r \in b + 1 .. s - 1 : Opens(run, lost, r) /\ Unknown(run, r)
    BY <1>1 DEF Based
  <1>4. x < s /\ b \in Nat /\ b < s
    BY <1>1, <1>3
  <1> HIDE DEF wanted, lost
  <1>5. CASE b < x
    <2>1. Opens(run, lost, x)
      BY <1>3, <1>4, <1>5
    <2>2. Based(run, lost, x - 1)
      <3>1. b \in 0 .. x - 1 /\ \A r \in b + 1 .. x - 1 : r \in b + 1 .. s - 1
        BY <1>4, <1>5
      <3> QED BY <1>3, <3>1 DEF Based
    <2>3. Reaches(run, wanted, lost, x)
      <3>1. ASSUME NEW r \in x + 1 .. w PROVE Opens(run, lost, r) /\ Unknown(run, r - 1)
        <4>1. CASE r <= s
          <5>1. r - 1 \in b + 1 .. s - 1
            BY <1>4, <1>5, <4>1
          <5>2. r = s \/ r \in b + 1 .. s - 1
            BY <1>4, <1>5, <4>1
          <5> QED BY <1>1, <1>3, <5>1, <5>2 DEF lost
        <4>2. CASE r > s
          BY <1>2, <1>4, <4>2
        <4> QED BY <1>4, <4>1, <4>2
      <3> QED BY <1>2, <1>4, <3>1 DEF Reaches
    <2>4. x \in 1 .. HoursDown(Grid.reach)
      <3>1. HoursDown(Grid.reach) \in Int
        BY GridReach, Hours DEF IInv
      <3> QED BY <1>1, <1>4, <3>1
    <2> QED BY <2>1, <2>2, <2>3, <2>4, ChainFetches DEF wanted, lost, Leads
  <1>6. CASE x <= b /\ b * 12 \in LoadedLeads(run)
    <2>1. CASE x = b
      BY <1>6, <2>1 DEF Leads
    <2>2. CASE x < b
      <3> DEFINE f == <<run, b * 12>>
      <3>1. f \in Loaded /\ f[1] = run /\ f[2] = b * 12 /\ x * 12 < b * 12
        BY <1>4, <1>6, <2>2, KnownLeads
      <3>2. Edge(now) <= Edge(t) /\ Edge(now) \in Int /\ Edge(t) \in Int
        BY DEF Edge, WindowStart, IInv
      <3>3. \A m \in Fetched(run, t, missing).frames : ~(m < x * 12)
        <4> SUFFICES ASSUME NEW m \in Fetched(run, t, missing).frames, m < x * 12 PROVE FALSE
          OBVIOUS
        <4>1. PICK v \in Nat : m = v * 12
          BY NewStep
        <4>2. b * 12 < v * 12
          BY <1>6, <4>1, NewIsAbove
        <4> QED BY <3>1, <4>1, <4>2
      <3>4. Edge(now) <= run + x * 12 \/ \E m \in LoadedLeads(run) : m < x * 12
        BY <3>2, <3>3 DEF Leads
      <3> HIDE DEF f
      <3>5. <<f[1], x * 12>> \in Loaded
        BY <3>1, <3>4 DEF ChainInv
      <3> QED BY <3>1, <3>5, KnownLeads DEF Leads
    <2> QED BY <1>4, <1>6, <2>1, <2>2
  <1>7. CASE x <= b /\ b * 12 \notin LoadedLeads(run)
    <2>1. b > 0 /\ b * 12 \in Accumulated(run)
      BY <1>3, <1>4, <1>7 DEF AtHand
    <2> DEFINE a == <<run, b * 12>>
    <2>2. a \in accum /\ a \notin Loaded /\ a[1] = run /\ a[2] = b * 12 /\ a[2] # 0
      BY <1>7, <2>1, KnownLeads
    <2> HIDE DEF a
    <2>3. a[1] + a[2] < Edge(now) /\ \A m \in LoadedLeads(a[1]) : a[2] < m
      BY <2>2 DEF ChainInv
    <2>4. ~(Edge(t) <= run + x * 12)
      BY <1>4, <1>7, <2>2, <2>3 DEF Edge, WindowStart, IInv
    <2>5. \A m \in LoadedLeads(run) : ~(m < x * 12)
      <3> SUFFICES ASSUME NEW m \in LoadedLeads(run), m < x * 12 PROVE FALSE
        OBVIOUS
      <3>1. m \in Int
        BY KnownLeads, GridReach DEF IInv
      <3> QED BY <1>4, <1>7, <2>2, <2>3, <3>1
    <2>6. \A m \in Fetched(run, t, missing).frames : ~(m < x * 12)
      <3> SUFFICES ASSUME NEW m \in Fetched(run, t, missing).frames, m < x * 12 PROVE FALSE
        OBVIOUS
      <3>1. PICK v \in Nat : m = v * 12 /\ b < v
        BY <1>4, <1>7, <2>1, NewStep
      <3> QED BY <1>4, <1>7, <3>1
    <2> QED BY <2>4, <2>5, <2>6 DEF Leads
  <1> QED BY <1>4, <1>5, <1>6, <1>7

\* So the leads of a run have every hour between two of them, and down to the edge.
LEMMA LeadsFilled ==
    ASSUME IInv, Sound, ChainInv, kind \in Chained, NEW t \in Int, now <= t,
           NEW run \in Int, NEW missing, NEW l \in Leads(run, t, missing),
           NEW x \in Nat, x > 0, x * 12 < l,
           Edge(t) <= run + x * 12 \/ \E m \in Leads(run, t, missing) : m < x * 12
    PROVE  x * 12 \in Leads(run, t, missing)
  <1>1. CASE l \in Fetched(run, t, missing).frames
    BY <1>1, NewIsFilled
  <1>2. CASE l \in LoadedLeads(run)
    <2> DEFINE f == <<run, l>>
    <2>1. f \in Loaded /\ f[1] = run /\ f[2] = l /\ l \in Int
      BY <1>2, KnownLeads, GridReach DEF IInv
    <2>2. Edge(now) <= Edge(t) /\ Edge(now) \in Int /\ Edge(t) \in Int
      BY DEF Edge, WindowStart, IInv
    <2>3. \A m \in Fetched(run, t, missing).frames : ~(m < x * 12)
      <3> SUFFICES ASSUME NEW m \in Fetched(run, t, missing).frames, m < x * 12 PROVE FALSE
        OBVIOUS
      <3>1. PICK v \in Nat : m = v * 12 /\ \A c \in LoadedLeads(run) : c < v * 12
        BY NewHours
      <3>2. l < v * 12
        BY <1>2, <3>1
      <3> QED BY <2>1, <3>1, <3>2
    <2>4. Edge(now) <= run + x * 12 \/ \E m \in LoadedLeads(run) : m < x * 12
      BY <2>2, <2>3 DEF Leads
    <2> HIDE DEF f
    <2>5. <<f[1], x * 12>> \in Loaded
      BY <2>1, <2>4 DEF ChainInv
    <2> QED BY <2>1, <2>5, KnownLeads DEF Leads
  <1> QED BY <1>1, <1>2 DEF Leads

\* The leads of any run once a cycle has fetched.
After(run, t, missing) ==
    IF run \in RunsToConsider(t) THEN Leads(run, t, missing) ELSE LoadedLeads(run)

\* What is known of them: whole hours between two of them are there, none is beyond
\* what eviction keeps, and below the decoded ones lies everything that is loaded
\* afterwards.
LEMMA FetchAfter ==
    ASSUME IInv, Sound, ChainInv, kind \in Chained, NEW t \in Int, now <= t,
           NEW missing, Fetch(t, missing)
    PROVE  /\ \A run \in Int : \A l \in After(run, t, missing), x \in Nat :
                x > 0 /\ x * 12 < l /\ Edge(t) <= run + x * 12
                => x * 12 \in After(run, t, missing)
           /\ \A run \in Int : \A l \in After(run, t, missing) :
                /\ l \in Nat /\ run + l <= WindowEnd(t) + 12
                /\ Edge(t) <= run + l => <<run, l>> \in Loaded'
           /\ \A f \in Loaded' :
                /\ f[1] \in Int /\ f[2] \in Nat
                /\ Edge(t) <= f[1] + f[2] /\ f[1] + f[2] <= WindowEnd(t) + 12
                /\ \E c \in Nat : f[2] <= c * 12 /\ c * 12 \in After(f[1], t, missing)
  <1>1. RunsToConsider(t) \subseteq Int
    BY RunsInt DEF IInv
  <1>2. Edge(now) <= Edge(t) /\ Edge(now) \in Int /\ Edge(t) \in Int
        /\ WindowEnd(now) \in Int /\ WindowEnd(t) \in Int /\ WindowEnd(now) <= WindowEnd(t)
    BY DEF Edge, WindowStart, WindowEnd, IInv
  <1>3. ASSUME NEW run \in Int, NEW l \in After(run, t, missing), NEW x \in Nat,
               x > 0, x * 12 < l, Edge(t) <= run + x * 12
        PROVE  x * 12 \in After(run, t, missing)
    <2>1. CASE run \in RunsToConsider(t)
      BY <1>3, <2>1, LeadsFilled DEF After
    <2>2. CASE run \notin RunsToConsider(t)
      <3> DEFINE f == <<run, l>>
      <3>1. f \in Loaded /\ f[1] = run /\ f[2] = l
        BY <1>3, <2>2, KnownLeads DEF After
      <3> HIDE DEF f
      <3>2. Edge(now) <= f[1] + x * 12
        BY <1>2, <1>3, <3>1
      <3>3. <<f[1], x * 12>> \in Loaded
        BY <1>3, <3>1, <3>2 DEF ChainInv
      <3> QED BY <2>2, <3>1, <3>3, KnownLeads DEF After
    <2> QED BY <2>1, <2>2
  <1>4. ASSUME NEW run \in Int, NEW l \in LoadedLeads(run)
        PROVE  l \in Nat /\ run + l <= WindowEnd(t) + 12 /\ <<run, l>> \in Loaded
    <2> DEFINE f == <<run, l>>
    <2>1. f \in Loaded /\ f[1] = run /\ f[2] = l /\ l \in Nat
      BY <1>4, KnownLeads, GridReach DEF IInv
    <2> HIDE DEF f
    <2>2. f[1] + f[2] <= WindowEnd(now) + 12
      BY <2>1 DEF ChainInv
    <2>3. run + l <= WindowEnd(t) + 12
      BY <1>2, <2>1, <2>2
    <2> QED BY <1>4, <2>1, <2>3, KnownLeads
  <1>5. ASSUME NEW run \in Int, NEW l \in Fetched(run, t, missing).frames
        PROVE  l \in Nat /\ run + l <= WindowEnd(t) + 12 /\ \E s \in Nat : l = s * 12
    BY <1>5, NewStep
  <1>6. ASSUME NEW run \in Int, NEW l \in Int, Edge(t) <= run + l, run + l <= WindowEnd(t) + 12
        PROVE  Keeps(run + l, t)
    BY <1>6, ChainedKeeps DEF IInv
  <1>7. ASSUME NEW run \in Int, NEW l \in After(run, t, missing)
        PROVE  /\ l \in Nat /\ run + l <= WindowEnd(t) + 12
               /\ Edge(t) <= run + l => <<run, l>> \in Loaded'
    <2>1. CASE l \in LoadedLeads(run)
      <3> DEFINE f == <<run, l>>
      <3>1. f \in Loaded /\ f[1] = run /\ f[2] = l
        BY <1>4, <2>1
      <3> HIDE DEF f
      <3>2. Keeps(f[1] + f[2], t) => f \in Loaded'
        BY <3>1, FetchKeeps
      <3> QED BY <1>4, <1>6, <2>1, <3>1, <3>2 DEF f
    <2>2. CASE run \in RunsToConsider(t) /\ l \in Fetched(run, t, missing).frames
      <3>1. Keeps(run + l, t) => <<run, l>> \in Loaded'
        BY <2>2, FetchFacts
      <3> QED BY <1>5, <1>6, <2>2, <3>1
    <2> QED BY <1>7, <2>1, <2>2 DEF After, Leads
  <1>8. ASSUME NEW f \in Loaded'
        PROVE  /\ f[1] \in Int /\ f[2] \in Nat
               /\ \E c \in Nat : f[2] <= c * 12 /\ c * 12 \in After(f[1], t, missing)
    <2>1. CASE f \in Loaded
      <3>1. f[1] \in Int /\ f[2] \in Nat
        BY <2>1, GridReach DEF Sound, TypeOK, IInv
      <3>2. PICK c \in Nat : f[2] <= c * 12 /\ <<f[1], c * 12>> \in Loaded
        BY <2>1 DEF ChainInv
      <3>3. c * 12 \in LoadedLeads(f[1])
        BY <3>2, KnownLeads
      <3> QED BY <3>1, <3>2, <3>3 DEF After, Leads
    <2>2. CASE /\ f[1] \in RunsToConsider(t) /\ f[2] \in Fetched(f[1], t, missing).frames
      <3>1. PICK c \in Nat : f[2] = c * 12
        BY <1>1, <1>5, <2>2
      <3> QED BY <1>1, <2>2, <3>1 DEF After, Leads
    <2>3. CASE /\ f[1] \in RunsToConsider(t) /\ f[2] \in Between(Leads(f[1], t, missing))
      <3>1. f[1] \in Int
        BY <1>1, <2>3
      <3>2. f[2] \in Nat /\ \E b \in Leads(f[1], t, missing) : f[2] < b
        BY <2>3, <3>1, MadeTypes, GridReach DEF IInv
      <3>3. PICK b \in Leads(f[1], t, missing) : f[2] < b
        BY <3>2
      <3>4. CASE b \in Fetched(f[1], t, missing).frames
        <4>1. PICK c \in Nat : b = c * 12
          BY <1>5, <3>1, <3>4
        <4> QED BY <2>3, <3>1, <3>2, <3>3, <4>1 DEF After
      <3>5. CASE b \in LoadedLeads(f[1])
        <4> DEFINE g == <<f[1], b>>
        <4>1. g \in Loaded /\ g[1] = f[1] /\ g[2] = b /\ b \in Nat
          BY <1>4, <3>1, <3>5
        <4> HIDE DEF g
        <4>2. PICK c \in Nat : g[2] <= c * 12 /\ <<g[1], c * 12>> \in Loaded
          BY <4>1 DEF ChainInv
        <4>3. c * 12 \in LoadedLeads(f[1]) /\ b <= c * 12
          BY <4>1, <4>2, KnownLeads
        <4>4. f[2] <= c * 12 /\ c * 12 \in After(f[1], t, missing)
          BY <2>3, <3>2, <3>3, <4>1, <4>3 DEF After, Leads
        <4> QED BY <3>1, <3>2, <4>4
      <3> QED BY <3>3, <3>4, <3>5 DEF Leads
    <2> QED BY <2>1, <2>2, <2>3, FetchFacts DEF Loaded
  <1>9. ASSUME NEW f \in Loaded'
        PROVE  Edge(t) <= f[1] + f[2] /\ f[1] + f[2] <= WindowEnd(t) + 12
    <2>1. Keeps(f[1] + f[2], t)
      BY <1>9, FetchFacts
    <2>2. f[1] + f[2] \in Int
      BY <1>8, <1>9
    <2> QED BY <2>1, <2>2, ChainedKeeps DEF IInv
  <1> QED BY <1>3, <1>7, <1>8, <1>9

\* The base and the frames of what a cycle downloads end up below a frame that is kept.
LEMMA GotIsUsed ==
    ASSUME IInv, Sound, ChainInv, kind \in Chained, NEW t \in Int, now <= t,
           NEW missing, Fetch(t, missing), NEW run \in RunsToConsider(t),
           NEW l \in Fetched(run, t, missing).got
    PROVE  /\ l \in After(run, t, missing)
           /\ \E top \in Nat : l <= top /\ <<run, top>> \in Loaded'
  <1> DEFINE lost == Lost(run, missing)
             wanted == LeadsWanted(run, t)
  <1>1. run \in Int
    BY RunsInt DEF IInv
  <1>2. HoursDown(Grid.reach) \in Int
    BY GridReach, Hours DEF IInv
  <1>3. ASSUME NEW s \in 1 .. HoursDown(Grid.reach) + 1, l <= s * 12,
               Opens(run, lost, s), Reaches(run, wanted, lost, s), Based(run, lost, s - 1)
        PROVE  \E top \in Nat : l <= top /\ <<run, top>> \in Loaded'
    <2>1. PICK w \in Nat : /\ s <= w /\ w * 12 \in LeadsWanted(run, t)
                           /\ w * 12 \in Fetched(run, t, missing).frames
      BY <1>1, <1>3, ChainTop
    <2>2. Edge(t) <= run + w * 12
      BY <1>1, <2>1, ChainWanted
    <2>3. w * 12 \in After(run, t, missing)
      BY <2>1 DEF After, Leads
    <2>4. <<run, w * 12>> \in Loaded'
      BY <1>1, <2>2, <2>3, FetchAfter
    <2>5. s \in Int /\ w * 12 \in Nat /\ l \in Int
      <3>1. l \in InHours(1 .. HoursDown(Grid.reach))
        BY <1>1, ChainFetches DEF InHours, Hour
      <3>2. l \in 0 .. Grid.reach
        BY <3>1, ChainedSteps DEF IInv
      <3> QED BY <1>2, <3>2, GridReach DEF IInv
    <2>6. l <= w * 12
      BY <1>3, <2>1, <2>5
    <2> QED BY <2>4, <2>5, <2>6
  <1>4. CASE l \in Fetched(run, t, missing).frames
    <2>1. PICK s \in 1 .. HoursDown(Grid.reach) :
             /\ l = s * 12 /\ Opens(run, lost, s)
             /\ Reaches(run, wanted, lost, s) /\ Based(run, lost, s - 1)
      BY <1>1, <1>4, ChainFetches
    <2>2. s \in 1 .. HoursDown(Grid.reach) + 1 /\ l <= s * 12
      BY <1>2, <2>1
    <2> QED BY <1>3, <1>4, <2>1, <2>2 DEF After, Leads
  <1>5. CASE l \notin Fetched(run, t, missing).frames
    <2>1. PICK s \in 1 .. HoursDown(Grid.reach) :
             /\ l = s * 12 /\ l \in LoadedLeads(run) \ (Accumulated(run) \cup lost)
             /\ Opens(run, lost, s + 1) /\ Reaches(run, wanted, lost, s + 1)
      BY <1>1, <1>5, ChainFetches
    <2>2. s + 1 \in 1 .. HoursDown(Grid.reach) + 1 /\ l <= (s + 1) * 12 /\ s \in Nat
          /\ (s + 1) - 1 = s
      BY <1>2, <2>1
    <2>3. Based(run, lost, s)
      BY <2>1, <2>2 DEF Based, AtHand
    <2> QED BY <1>3, <2>1, <2>2, <2>3 DEF After, Leads
  <1> QED BY <1>4, <1>5

\* What is kept starts no earlier as time goes on.
LEMMA EdgeGrows ==
    ASSUME IInv, NEW t \in Int, now <= t
    PROVE  Edge(now) <= Edge(t) /\ Edge(now) \in Int /\ Edge(t) \in Int /\ WindowEnd(t) \in Int
  BY DEF Edge, WindowStart, WindowEnd, IInv

\* A cycle keeps the invariant.
LEMMA FetchChainInv ==
    ASSUME IInv, Sound, ChainInv, kind \in Chained, NEW missing,
           now' \in Int, now <= now', Fetch(now', missing), UNCHANGED settings
    PROVE  ChainInv'
  <1> DEFINE t == now'
  <1>1. RunsToConsider(t) \subseteq Int
    BY RunsInt DEF IInv
  <1>2. /\ Edge(now)' = Edge(t) /\ WindowEnd(now)' = WindowEnd(t)
        /\ Edge(now) <= Edge(t) /\ Edge(now) \in Int /\ Edge(t) \in Int
        /\ WindowEnd(t) \in Int
    <2>1. history' = history /\ horizon' = horizon
      BY DEF settings
    <2>2. Edge(now)' = Edge(t) /\ WindowEnd(now)' = WindowEnd(t)
      BY <2>1 DEF Edge, WindowStart, WindowEnd
    <2>3. Edge(now) <= Edge(t) /\ Edge(now) \in Int /\ Edge(t) \in Int /\ WindowEnd(t) \in Int
      BY EdgeGrows
    <2> QED BY <2>2, <2>3
  <1>3. \A run : \A l \in LoadedLeads(run)' : \E f \in Loaded' : f[1] = run /\ f[2] = l
    BY DEF LoadedLeads
  <1>4. \A run : \A l : <<run, l>> \in Loaded' => l \in LoadedLeads(run)'
    BY DEF LoadedLeads
  <1>5. /\ \A run \in Int : \A l \in After(run, t, missing), x \in Nat :
              x > 0 /\ x * 12 < l /\ Edge(t) <= run + x * 12
              => x * 12 \in After(run, t, missing)
        /\ \A run \in Int : \A l \in After(run, t, missing) :
              /\ l \in Nat /\ run + l <= WindowEnd(t) + 12
              /\ Edge(t) <= run + l => <<run, l>> \in Loaded'
        /\ \A f \in Loaded' :
              /\ f[1] \in Int /\ f[2] \in Nat
              /\ Edge(t) <= f[1] + f[2] /\ f[1] + f[2] <= WindowEnd(t) + 12
              /\ \E c \in Nat : f[2] <= c * 12 /\ c * 12 \in After(f[1], t, missing)
    BY FetchAfter
  <1> HIDE DEF t
  <1>6. ASSUME NEW f \in Loaded', NEW x \in Nat, x > 0, x * 12 < f[2],
               Edge(t) <= f[1] + x * 12 \/ \E l \in LoadedLeads(f[1])' : l < x * 12
        PROVE  <<f[1], x * 12>> \in Loaded'
    <2>1. f[1] \in Int /\ f[2] \in Nat
      BY <1>5
    <2>2. Edge(t) <= f[1] + x * 12
      <3> SUFFICES ASSUME NEW l \in LoadedLeads(f[1])', l < x * 12
                   PROVE  Edge(t) <= f[1] + x * 12
        BY <1>6
      <3>1. l \in Nat /\ Edge(t) <= f[1] + l
        BY <1>3, <1>5
      <3> QED BY <1>2, <2>1, <3>1
    <2>3. PICK c \in Nat : f[2] <= c * 12 /\ c * 12 \in After(f[1], t, missing)
      BY <1>5
    <2>4. x * 12 < c * 12
      BY <1>6, <2>1, <2>3
    <2>5. x * 12 \in After(f[1], t, missing)
      BY <1>5, <1>6, <2>1, <2>2, <2>3, <2>4
    <2> QED BY <1>5, <2>1, <2>2, <2>5
  <1>7. ASSUME NEW f \in Loaded'
        PROVE  \E c \in Nat : f[2] <= c * 12 /\ <<f[1], c * 12>> \in Loaded'
    <2>1. f[1] \in Int /\ f[2] \in Nat /\ Edge(t) <= f[1] + f[2]
      BY <1>5
    <2>2. PICK c \in Nat : f[2] <= c * 12 /\ c * 12 \in After(f[1], t, missing)
      BY <1>5
    <2>3. Edge(t) <= f[1] + c * 12
      BY <1>2, <2>1, <2>2
    <2> QED BY <1>5, <2>1, <2>2, <2>3
  <1>8. ASSUME NEW run \in Int, NEW b \in Int, run + b < Edge(t)
        PROVE  \A l \in LoadedLeads(run)' : b < l
    <2> SUFFICES ASSUME NEW l \in LoadedLeads(run)' PROVE b < l
      OBVIOUS
    <2>1. l \in Nat /\ Edge(t) <= run + l
      BY <1>3, <1>5
    <2> QED BY <1>2, <1>8, <2>1
  <1>9. ASSUME NEW a, a = <<a[1], a[2]>>, a[1] \in Int, a[2] \in After(a[1], t, missing)
        PROVE  a \in Loaded' \/ (a[1] + a[2] < Edge(t) /\ a[2] \in Int)
    BY <1>2, <1>5, <1>9
  <1>10. ASSUME NEW a \in accum', a \notin Loaded', a[2] # 0
         PROVE  /\ a[1] + a[2] < Edge(t)
                /\ \A l \in LoadedLeads(a[1])' : a[2] < l
    <2>1. a[1] \in Int /\ a[2] \in Int /\ a[1] + a[2] < Edge(t)
      <3>1. CASE a \in accum
        <4>1. a = <<a[1], a[2]>> /\ a[1] \in Int /\ a[2] \in Int
          BY <3>1, GridReach DEF Sound, TypeOK, IInv
        <4>2. CASE a \in Loaded
          <5>1. a[2] \in LoadedLeads(a[1])
            BY <4>1, <4>2, KnownLeads
          <5>2. a[2] \in After(a[1], t, missing)
            BY <5>1 DEF After, Leads
          <5> QED BY <1>9, <1>10, <4>1, <5>2
        <4>3. CASE a \notin Loaded
          <5>1. a[1] + a[2] < Edge(now)
            BY <1>10, <3>1, <4>3 DEF ChainInv
          <5> QED BY <1>2, <4>1, <5>1
        <4> QED BY <4>2, <4>3
      <3>2. CASE /\ a[1] \in RunsToConsider(t) /\ a = <<a[1], a[2]>>
                 /\ a[2] \in Fetched(a[1], t, missing).accum
        <4>1. a[2] \in Fetched(a[1], t, missing).got
          BY <1>1, <1>10, <3>2, ChainFetches DEF t
        <4>2. a[2] \in After(a[1], t, missing)
          BY <3>2, <4>1, GotIsUsed DEF t
        <4> QED BY <1>1, <1>9, <1>10, <3>2, <4>2
      <3> QED BY <3>1, <3>2, FetchFacts DEF t
    <2> QED BY <1>8, <2>1
  <1>11. ASSUME NEW g \in last'.got
         PROVE  /\ \E l \in LoadedLeads(g[1])' : g[2] <= l
                /\ g \in Loaded' => g \in accum'
    <2>1. /\ g[1] \in RunsToConsider(t) /\ g = <<g[1], g[2]>>
          /\ g[2] \in Fetched(g[1], t, missing).got
      BY FetchFacts DEF t
    <2>2. \E top \in Nat : g[2] <= top /\ <<g[1], top>> \in Loaded'
      BY <2>1, GotIsUsed DEF t
    <2>3. g[2] \in Fetched(g[1], t, missing).accum
      BY <1>1, <2>1, ChainFetches DEF t
    <2>4. g \in Loaded' => Keeps(g[1] + g[2], t)
      BY FetchFacts DEF t
    <2>5. g \in Loaded' => g \in accum'
      BY <2>1, <2>3, <2>4, FetchFacts DEF t
    <2> QED BY <1>4, <2>2, <2>5
  <1>12. ASSUME NEW f \in synthetic', NEW x \in Nat, f[2] = x * 12
         PROVE  FALSE
    <2>1. CASE f \in synthetic
      BY <1>12, <2>1 DEF ChainInv
    <2>2. CASE /\ f[1] \in RunsToConsider(t) /\ f[2] \in Between(Leads(f[1], t, missing))
      <3>1. f[1] \in Int /\ t \in Int /\ now <= t
        BY <1>1, <2>2 DEF t
      <3>2. /\ f[2] \notin Leads(f[1], t, missing)
            /\ \E a, b \in Leads(f[1], t, missing) : a < f[2] /\ f[2] < b
        BY <2>2, <3>1, MadeTypes
      <3>3. PICK a, b \in Leads(f[1], t, missing) : a < f[2] /\ f[2] < b
        BY <3>2
      <3>4. a \in Nat
        <4>1. Leads(f[1], t, missing) = After(f[1], t, missing)
          BY <2>2 DEF After
        <4> QED BY <1>5, <3>1, <3>3, <4>1
      <3>5. x > 0 /\ x * 12 < b /\ a < x * 12
        BY <1>12, <3>3, <3>4
      <3>6. x * 12 \in Leads(f[1], t, missing)
        BY <3>1, <3>3, <3>5, LeadsFilled
      <3> QED BY <1>12, <3>2, <3>6
    <2> QED BY <2>1, <2>2, FetchFacts DEF t
  <1> QED BY <1>2, <1>5, <1>6, <1>7, <1>10, <1>11, <1>12 DEF ChainInv

-----------------------------------------------------------------------------
(* What was downloaded is still accounted for when the next cycle starts.    *)

\* Of the other grids that round inwards, WRF-SMN and AROME keep the accumulation of
\* every file they downloaded, JMA-MSM its frame.
GotKept ==
    /\ kind \in {"wrf_smn", "arome"} => last.got \subseteq accum
    /\ kind = "jma_msm" => last.got \subseteq Loaded

GridInv ==
    /\ IInv /\ Sound
    /\ kind \in Chained => ChainInv
    /\ GotKept

\* A cycle downloads what it has no accumulation of (WRF-SMN, AROME) or no frame of
\* (JMA-MSM).
LEMMA GotIsNew ==
    ASSUME IInv, NEW t \in Int, NEW run \in Int, NEW missing,
           NEW l \in Fetched(run, t, missing).got
    PROVE  /\ kind = "wrf_smn" => /\ l \notin Accumulated(run)
                                  /\ l \in LeadsWanted(run, t)
                                  /\ l \in Fetched(run, t, missing).accum
           /\ kind = "arome" => /\ l \notin Accumulated(run) /\ l \in Int
                                /\ \E w \in LeadsWanted(run, t) : l = w \/ l + 12 = w
                                /\ l \in Fetched(run, t, missing).accum
           /\ kind = "jma_msm" => /\ l \notin LoadedLeads(run)
                                  /\ l \in LeadsWanted(run, t)
                                  /\ l \in Fetched(run, t, missing).frames
  <1> DEFINE wanted == LeadsWanted(run, t)
             lost == Lost(run, missing)
  <1>1. kind = "wrf_smn" => Fetched(run, t, missing) = FetchTwoPhase(run, wanted, lost)
    BY DEF Fetched, Lost
  <1>2. kind = "arome" => Fetched(run, t, missing) = FetchEnsured(run, wanted, lost)
    BY DEF Fetched, Lost, IInv, GridNames
  <1>3. kind = "jma_msm" => Fetched(run, t, missing) = FetchDirect(run, wanted, lost)
    BY DEF Fetched, Lost, JMAStep
  <1>4. kind = "arome" => \A w \in wanted : w \in Int
    BY WantedLeads DEF IInv
  <1> HIDE DEF wanted, lost
  <1>5. CASE kind = "wrf_smn"
    BY <1>1, <1>5 DEF FetchTwoPhase, wanted
  <1>6. CASE kind = "arome"
    <2> DEFINE r == FetchEnsured(run, wanted, lost)
    <2>1. \A a \in r.got : a \notin Accumulated(run)
      BY DEF FetchEnsured
    <2>2. \A a \in r.got : a \in r.accum
      BY DEF FetchEnsured
    <2>3. \A a \in r.got : \E w \in wanted : a \in {w, w - Hour}
      BY DEF FetchEnsured
    <2>4. Fetched(run, t, missing) = r
      BY <1>2, <1>6
    <2> HIDE DEF r
    <2>5. /\ l \notin Accumulated(run) /\ l \in Fetched(run, t, missing).accum
          /\ \E w \in wanted : l \in {w, w - Hour}
      BY <2>1, <2>2, <2>3, <2>4
    <2> QED BY <1>4, <1>6, <2>5 DEF Hour, wanted
  <1>7. CASE kind = "jma_msm"
    BY <1>3, <1>7 DEF FetchDirect, wanted
  <1> QED BY <1>5, <1>6, <1>7

LEMMA FetchGotKept ==
    ASSUME IInv, NEW missing, now' \in Int, Fetch(now', missing), UNCHANGED settings
    PROVE  GotKept'
  <1> DEFINE t == now'
  <1>1. RunsToConsider(t) \subseteq Int
    BY RunsInt DEF IInv
  <1>2. kind' = kind
    BY DEF settings
  <1>3. ASSUME NEW g \in last'.got
        PROVE  /\ kind \in {"wrf_smn", "arome"} => g \in accum'
               /\ kind = "jma_msm" => g \in Loaded'
    <2>1. /\ g[1] \in RunsToConsider(t) /\ g = <<g[1], g[2]>>
          /\ g[2] \in Fetched(g[1], t, missing).got
      BY <1>3, FetchFacts
    <2>2. g[1] \in Int
      BY <1>1, <2>1
    <2>3. CASE kind = "wrf_smn"
      <3>1. Keeps(g[1] + g[2], t) /\ g[2] \in Fetched(g[1], t, missing).accum
        BY <2>1, <2>2, <2>3, GotIsNew, WantedIsKept DEF IInv
      <3> QED BY <2>1, <2>3, <3>1, FetchFacts
    <2>4. CASE kind = "arome"
      <3>1. g[2] \in Fetched(g[1], t, missing).accum
        BY <2>1, <2>2, <2>4, GotIsNew
      <3>2. PICK w \in LeadsWanted(g[1], t) : g[2] = w \/ g[2] + 12 = w
        BY <2>1, <2>2, <2>4, GotIsNew
      <3>3. Keeps(g[1] + w, t)
        BY <2>2, <2>4, WantedIsKept DEF IInv
      <3>4. g[2] \in Int
        BY <2>1, <2>2, <2>4, GotIsNew
      <3>5. Keeps(g[1] + g[2], t) \/ Keeps(g[1] + g[2] + Hour, t)
        <4>1. CASE g[2] = w
          BY <3>3, <4>1
        <4>2. CASE g[2] + 12 = w
          <5>1. g[1] + w = g[1] + g[2] + Hour
            BY <2>2, <3>4, <4>2 DEF Hour
          <5> QED BY <3>3, <5>1
        <4> QED BY <3>2, <4>1, <4>2
      <3> QED BY <2>1, <2>4, <3>1, <3>5, FetchFacts
    <2>5. CASE kind = "jma_msm"
      <3>1. Keeps(g[1] + g[2], t) /\ g[2] \in Fetched(g[1], t, missing).frames
        BY <2>1, <2>2, <2>5, GotIsNew, WantedIsKept DEF IInv
      <3> QED BY <2>1, <2>5, <3>1, FetchFacts
    <2> QED BY <2>3, <2>4, <2>5
  <1> QED BY <1>2, <1>3 DEF GotKept

LEMMA InitGridInv == ASSUME Init PROVE GridInv
  <1>1. IInv
    BY InitIInv
  <1>2. frames = {} /\ synthetic = {} /\ accum = {} /\ DOMAIN memo = {} /\ last.got = {}
    BY DEF Init
  <1>3. Sound
    BY <1>1, <1>2 DEF Sound, TypeOK, IInv, Loaded
  <1>4. ChainInv /\ GotKept
    BY <1>2 DEF ChainInv, GotKept, Loaded
  <1> QED BY <1>1, <1>3, <1>4 DEF GridInv

\* A cycle that finds no run, and one that has not started, keep the chains as they are.
LEMMA IdleChainInv ==
    ASSUME IInv, Sound, ChainInv, now' \in Int, now <= now',
           UNCHANGED <<history, horizon, frames, synthetic>>,
           accum' \subseteq accum,
           last'.got = {} \/ (last'.got = last.got /\ accum' = accum)
    PROVE  ChainInv'
  <1> DEFINE t == now'
  <1>1. /\ Edge(now)' = Edge(t) /\ WindowEnd(now)' = WindowEnd(t)
    BY DEF Edge, WindowStart, WindowEnd
  <1>2. /\ Edge(now) <= Edge(t) /\ Edge(now) \in Int /\ Edge(t) \in Int
        /\ WindowEnd(now) \in Int /\ WindowEnd(t) \in Int /\ WindowEnd(now) <= WindowEnd(t)
    <2>1. now \in Int /\ t \in Int /\ now <= t
      BY DEF IInv
    <2> HIDE DEF t
    <2> QED BY <2>1 DEF Edge, WindowStart, WindowEnd, IInv
  <1>3. Loaded' = Loaded /\ \A run : LoadedLeads(run)' = LoadedLeads(run)
    BY DEF Loaded, LoadedLeads
  <1>4. \A f \in Loaded \cup accum : f[1] \in Int /\ f[2] \in Int
    BY GridReach DEF Sound, TypeOK, IInv
  <1> HIDE DEF t
  <1>5. ASSUME NEW f \in Loaded, NEW x \in Nat, x > 0, x * 12 < f[2],
               Edge(t) <= f[1] + x * 12 \/ \E l \in LoadedLeads(f[1]) : l < x * 12
        PROVE  <<f[1], x * 12>> \in Loaded
    <2>1. Edge(t) <= f[1] + x * 12 => Edge(now) <= f[1] + x * 12
      BY <1>2, <1>4
    <2> QED BY <1>5, <2>1 DEF ChainInv
  <1>6. \A f \in Loaded : f[1] + f[2] <= WindowEnd(t) + 12
    <2> SUFFICES ASSUME NEW f \in Loaded PROVE f[1] + f[2] <= WindowEnd(t) + 12
      OBVIOUS
    <2>1. f[1] + f[2] <= WindowEnd(now) + 12
      BY DEF ChainInv
    <2> QED BY <1>2, <1>4, <2>1
  <1>7. ASSUME NEW a \in accum', a \notin Loaded, a[2] # 0
        PROVE  a[1] + a[2] < Edge(t) /\ \A l \in LoadedLeads(a[1]) : a[2] < l
    <2>1. a \in accum
      OBVIOUS
    <2>2. a[1] + a[2] < Edge(now) /\ \A l \in LoadedLeads(a[1]) : a[2] < l
      BY <1>7, <2>1 DEF ChainInv
    <2> QED BY <1>2, <1>4, <2>1, <2>2
  <1>8. \A g \in last'.got : /\ \E l \in LoadedLeads(g[1]) : g[2] <= l
                             /\ g \in Loaded => g \in accum'
    BY DEF ChainInv
  <1>9. \A f \in Loaded : \E c \in Nat : f[2] <= c * 12 /\ <<f[1], c * 12>> \in Loaded
    BY DEF ChainInv
  <1>10. \A f \in synthetic', x \in Nat : f[2] # x * 12
    BY DEF ChainInv
  <1> QED BY <1>1, <1>3, <1>5, <1>6, <1>7, <1>8, <1>9, <1>10 DEF ChainInv

LEMMA NextGridInv == ASSUME GridInv, [Next]_vars PROVE GridInv'
  <1>1. IInv' /\ Sound'
    BY NextIInv, NextSound DEF GridInv
  <1>2. kind' = kind
    BY DEF Next, Cycle, Restart, settings, vars
  <1>3. now \in Int
    BY DEF GridInv, IInv
  <1>4. (kind \in Chained => ChainInv') /\ GotKept'
    <2>1. CASE Cycle
      <3>1. now' \in Int /\ now <= now' /\ UNCHANGED settings
        BY <1>3, <2>1, ConstantsAssumption DEF Cycle
      <3>2. CASE NoRuns(now')
        BY <3>1, <3>2, IdleChainInv DEF NoRuns, settings, GotKept, GridInv
      <3>3. CASE \E missing : Fetch(now', missing)
        BY <3>1, <3>3, FetchChainInv, FetchGotKept DEF GridInv
      <3> QED BY <2>1, <3>2, <3>3 DEF Cycle
    <2>2. CASE Restart
      <3>1. last'.got = {}
        BY <2>2 DEF Restart
      <3>2. UNCHANGED <<history, horizon, frames, synthetic>> /\ now' = now /\ accum' = {}
        BY <2>2 DEF Restart, settings
      <3> QED BY <1>3, <3>1, <3>2, IdleChainInv DEF GotKept, GridInv
    <2>3. CASE UNCHANGED vars
      <3>1. UNCHANGED <<history, horizon, frames, synthetic>> /\ now' = now
            /\ accum' = accum /\ last' = last
        BY <2>3 DEF vars
      <3> QED BY <1>2, <1>3, <3>1, IdleChainInv DEF GotKept, GridInv, Loaded
    <2> QED BY <2>1, <2>2, <2>3 DEF Next
  <1> QED BY <1>1, <1>2, <1>4 DEF GridInv

\* Every grid's frames and accumulations are sound, and those of the grids that take
\* differences step after step have no gap.
THEOREM GridInvariance == Spec => []GridInv
  BY InitGridInv, NextGridInv, PTL DEF Spec

\* ICON-EU and DMI-DINI never have an interpolated frame where the upstream has one of
\* its own, whatever files are missing and whenever they start again: so a step that
\* could not be had is asked for again.
THEOREM DifferencesNotPapered == Spec => []DifferencesRetried
  <1>1. ASSUME GridInv PROVE DifferencesRetried
    <2> SUFFICES ASSUME kind \in Chained, NEW f \in synthetic, f[2] % Hour = 0 PROVE FALSE
      BY DEF DifferencesRetried, FailedStepsRetried, Chained
    <2>1. f[2] \in Nat
      BY <1>1, GridReach DEF GridInv, Sound, TypeOK, IInv, Loaded
    <2>2. f[2] = (f[2] \div 12) * 12 /\ f[2] \div 12 \in Nat
      BY <2>1, SMT DEF Hour
    <2> QED BY <1>1, <2>2 DEF GridInv, ChainInv
  <1> QED BY <1>1, GridInvariance, PTL

\* What a cycle downloads, the next one does not download again, for every grid that
\* asks only for what eviction keeps.
THEOREM NothingTwice == Spec => NothingFetchedTwice
  <1>1. ASSUME GridInv, [Next]_vars, kind \in RoundingInwards
        PROVE  last'.got \cap last.got = {} \/ UNCHANGED vars
    <2>0. now \in Int /\ kind \in Chained \cup {"wrf_smn", "arome", "jma_msm"}
      BY <1>1, ConstantsAssumption DEF RoundingInwards, GridInv, IInv, Chained, GridNames
    <2>1. CASE Cycle
      <3>1. now' \in Int /\ now <= now' /\ UNCHANGED settings
        BY <2>0, <2>1, ConstantsAssumption DEF Cycle
      <3>2. CASE NoRuns(now')
        BY <3>2 DEF NoRuns
      <3>3. ASSUME NEW missing, Fetch(now', missing), NEW g \in last'.got, g \in last.got
            PROVE  FALSE
        <4> DEFINE t == now'
        <4>1. /\ g[1] \in RunsToConsider(t) /\ g = <<g[1], g[2]>>
              /\ g[2] \in Fetched(g[1], t, missing).got
          BY <3>3, FetchFacts
        <4>2. g[1] \in Int /\ t \in Int /\ now <= t
          BY <1>1, <3>1, <4>1, RunsInt DEF GridInv, IInv
        <4>3. IInv /\ Sound /\ (kind \in Chained => ChainInv) /\ GotKept
          BY <1>1 DEF GridInv
        <4> HIDE DEF t
        <4>4. /\ g[2] \in Accumulated(g[1]) <=> g \in accum
              /\ g[2] \in LoadedLeads(g[1]) <=> g \in Loaded
          BY <4>1, <4>3, KnownLeads
        <4>5. CASE kind \in {"wrf_smn", "arome", "jma_msm"}
          BY <3>3, <4>1, <4>2, <4>3, <4>4, <4>5, GotIsNew DEF GotKept
        <4>6. CASE kind \in Chained
          <5>1. /\ \E l \in LoadedLeads(g[1]) : g[2] <= l
                /\ g \in Loaded => g \in accum
            BY <3>3, <4>3, <4>6 DEF ChainInv
          <5>2. PICK l \in LoadedLeads(g[1]) : g[2] <= l
            BY <5>1
          <5>3. CASE g[2] \in Fetched(g[1], t, missing).frames
            <6>0. \A run \in Int : \A x \in Fetched(run, t, missing).frames :
                     \E s \in Nat : /\ x = s * 12 /\ s >= 1
                                    /\ \A m \in LoadedLeads(run) : m < s * 12
              BY <4>2, <4>3, <4>6, NewHours
            <6>1. PICK s \in Nat : /\ g[2] = s * 12 /\ s >= 1
                                   /\ \A m \in LoadedLeads(g[1]) : m < s * 12
              BY <4>2, <5>3, <6>0
            <6>2. l \in Int
              BY <4>3, KnownLeads, GridReach DEF IInv
            <6> QED BY <5>2, <6>1, <6>2
          <5>4. CASE g[2] \notin Fetched(g[1], t, missing).frames
            <6>1. g[2] \in LoadedLeads(g[1]) /\ g[2] \notin Accumulated(g[1])
              BY <4>1, <4>2, <4>3, <4>6, <5>4, ChainFetches
            <6> QED BY <4>4, <5>1, <6>1
          <5> QED BY <5>3, <5>4
        <4> QED BY <2>0, <4>5, <4>6
      <3> QED BY <2>1, <3>2, <3>3 DEF Cycle
    <2>2. CASE Restart
      BY <2>2 DEF Restart
    <2> QED BY <1>1, <2>1, <2>2 DEF Next
  <1>2. GridInv /\ [Next]_vars => [(kind \in RoundingInwards) => (last'.got \cap last.got = {})]_vars
    BY <1>1
  <1> QED BY <1>2, GridInvariance, PTL DEF Spec, NothingFetchedTwice
-----------------------------------------------------------------------------
(* The freshest run of a time: it is considered, and its leads asked for.    *)

\* A run's cycle, and the leads it can be sampled at.
LEMMA GridCycles ==
    ASSUME kind \in GridNames
    PROVE  /\ Grid.cycle \in {12, 36, 72} /\ Grid.delay \in 11 .. 84
           /\ Grid.first \in 0 .. Usable
           /\ Usable = (CASE kind \in {"hrrr_alaska", "jma_msm"} -> 0
                          [] kind = "hrrr" -> 3 [] OTHER -> 12)
           /\ kind = "hrrr" => Grid.cycle = 12
           /\ kind \in {"hrrr_alaska", "jma_msm"} => Grid.cycle = 36
  BY DEF GridNames, Grid, HRRR, HRRRAlaska, HRDPS, ICONEU, DMIDINI, WRFSMN, JMAMSM,
         AROME, Hour, Quarter, Usable

\* Rounding a time down to a cycle gives the latest run of that time.
LEMMA CycleFloor ==
    ASSUME NEW c \in {12, 36, 72}, NEW x \in Int
    PROVE  /\ Floor(x, c) \in Int /\ Floor(x, c) <= x /\ x < Floor(x, c) + c
           /\ \E m \in Int : Floor(x, c) = m * c
           /\ \A m \in Int : m * c <= x => m * c <= Floor(x, c)
  <1>1. x \div c \in Int /\ Floor(x, c) = (x \div c) * c
    <2>1. CASE c = 12 BY <2>1, SMT DEF Floor
    <2>2. CASE c = 36 BY <2>2, SMT DEF Floor
    <2>3. CASE c = 72 BY <2>3, SMT DEF Floor
    <2> QED BY <2>1, <2>2, <2>3
  <1>2. Floor(x, c) \in Int /\ Floor(x, c) <= x /\ x < Floor(x, c) + c
    <2>1. CASE c = 12 BY <2>1, SMT DEF Floor
    <2>2. CASE c = 36 BY <2>2, SMT DEF Floor
    <2>3. CASE c = 72 BY <2>3, SMT DEF Floor
    <2> QED BY <2>1, <2>2, <2>3
  <1>3. ASSUME NEW m \in Int, m * c <= x PROVE m * c <= Floor(x, c)
    <2>1. CASE c = 12 BY <1>1, <1>2, <1>3, <2>1
    <2>2. CASE c = 36 BY <1>1, <1>2, <1>3, <2>2
    <2>3. CASE c = 72 BY <1>1, <1>2, <1>3, <2>3
    <2> QED BY <2>1, <2>2, <2>3
  <1> QED BY <1>1, <1>2, <1>3

\* Whole multiples of the cycle.
OnCycle(run) == \E m \in Int : run = m * Grid.cycle

LEMMA FloorOnCycle ==
    ASSUME kind \in GridNames, NEW x \in Int
    PROVE  Floor(x, Grid.cycle) \in Int /\ OnCycle(Floor(x, Grid.cycle))
  <1>1. Grid.cycle \in {12, 36, 72}
    BY GridCycles
  <1> DEFINE c == Grid.cycle
  <1> HIDE DEF c
  <1>2. Floor(x, c) \in Int /\ \E m \in Int : Floor(x, c) = m * c
    BY <1>1, CycleFloor DEF c
  <1> QED BY <1>2 DEF OnCycle, c

LEMMA LatestOnCycle ==
    ASSUME kind \in GridNames, NEW t \in Int
    PROVE  LatestPublishedRun(t) \in Int /\ OnCycle(LatestPublishedRun(t))
  <1>1. t - Grid.delay \in Int
    BY GridCycles
  <1> QED BY <1>1, FloorOnCycle DEF LatestPublishedRun

\* Every run between the earliest and the latest published one is considered.
LEMMA RunsFromHas ==
    ASSUME kind \in GridNames, NEW t \in Int, NEW earliest \in Int, NEW run \in Int,
           OnCycle(earliest), OnCycle(run), earliest <= run, run <= LatestPublishedRun(t)
    PROVE  run \in RunsFrom(earliest, t)
  <1> DEFINE c == Grid.cycle
             latest == LatestPublishedRun(t)
  <1>1. c \in {12, 36, 72} /\ Grid.delay \in Int
    BY GridCycles
  <1>2. PICK p \in Int : latest = p * c
    BY LatestOnCycle DEF OnCycle
  <1>3. PICK m \in Int, q \in Int : earliest = m * c /\ run = q * c
    BY DEF OnCycle
  <1> HIDE DEF latest, c
  <1>4. (latest - earliest) \div c = p - m /\ q - m \in 0 .. p - m
        /\ run = earliest + (q - m) * c
    <2>1. CASE c = 12 BY <1>2, <1>3, <2>1 DEF latest
    <2>2. CASE c = 36 BY <1>2, <1>3, <2>2 DEF latest
    <2>3. CASE c = 72 BY <1>2, <1>3, <2>3 DEF latest
    <2> QED BY <1>1, <2>1, <2>2, <2>3
  <1> QED BY <1>4 DEF RunsFrom, latest, c

\* Every run a cycle considers is one of the grid's, and published.
LEMMA RunsFromOnly ==
    ASSUME kind \in GridNames, NEW t \in Int, NEW earliest \in Int, OnCycle(earliest),
           NEW run \in RunsFrom(earliest, t)
    PROVE  OnCycle(run) /\ run <= LatestPublishedRun(t)
  <1> DEFINE c == Grid.cycle
             latest == LatestPublishedRun(t)
  <1>1. c \in {12, 36, 72} /\ Grid.delay \in Int
    BY GridCycles
  <1>2. PICK p \in Int : latest = p * c
    BY LatestOnCycle DEF OnCycle
  <1>3. PICK m \in Int : earliest = m * c
    BY DEF OnCycle
  <1>4. PICK i \in 0 .. ((latest - earliest) \div c) : run = earliest + i * c
    BY DEF RunsFrom
  <1> HIDE DEF latest, c
  <1>5. (latest - earliest) \div c = p - m
    <2>1. CASE c = 12 BY <1>2, <1>3, <2>1
    <2>2. CASE c = 36 BY <1>2, <1>3, <2>2
    <2>3. CASE c = 72 BY <1>2, <1>3, <2>3
    <2> QED BY <1>1, <2>1, <2>2, <2>3
  <1>6. m + i \in Int /\ run = (m + i) * c /\ run <= latest
    <2>1. CASE c = 12 BY <1>2, <1>3, <1>4, <1>5, <2>1
    <2>2. CASE c = 36 BY <1>2, <1>3, <1>4, <1>5, <2>2
    <2>3. CASE c = 72 BY <1>2, <1>3, <1>4, <1>5, <2>3
    <2> QED BY <1>1, <2>1, <2>2, <2>3
  <1> QED BY <1>6 DEF OnCycle, latest, c

\* The earliest run each grid considers.
Earliest(t) ==
    CASE kind = "hrrr" -> Floor(WindowStart(t) - Quarter, Hour)
      [] kind = "hrrr_alaska" -> Floor(WindowStart(t) - Hour, Grid.cycle)
      [] kind = "arome" -> Least(LatestPublishedRun(t), LookbackEarliest(t))
      [] OTHER -> LookbackEarliest(t)

LEMMA EarliestOnCycle ==
    ASSUME kind \in GridNames, history \in Nat, NEW t \in Int
    PROVE  /\ RunsToConsider(t) = RunsFrom(Earliest(t), t)
           /\ Earliest(t) \in Int /\ OnCycle(Earliest(t))
           /\ LatestPublishedRun(t) \in Int /\ OnCycle(LatestPublishedRun(t))
           /\ kind \notin {"hrrr", "hrrr_alaska"} =>
                Earliest(t) <= Greatest(Floor(WindowStart(t) - Grid.cycle, Grid.cycle),
                                        LatestPublishedRun(t) - 2 * Grid.cycle)
  <1> DEFINE c == Grid.cycle
             latest == LatestPublishedRun(t)
             lookback == LookbackEarliest(t)
             start == WindowStart(t)
  <1>1. c \in {12, 36, 72} /\ Grid.delay \in Int /\ start \in Int
    BY GridCycles DEF WindowStart
  <1>2. latest \in Int /\ OnCycle(latest)
    BY LatestOnCycle
  <1>3. lookback \in Int /\ OnCycle(lookback)
    <2>1. PICK p \in Int : latest = p * c
      BY <1>2 DEF OnCycle
    <2>2. latest - 2 * c = (p - 2) * c /\ p - 2 \in Int /\ latest - 2 * c \in Int
      <3> HIDE DEF latest, c
      <3>1. CASE c = 12 BY <2>1, <3>1
      <3>2. CASE c = 36 BY <2>1, <3>2
      <3>3. CASE c = 72 BY <2>1, <3>3
      <3> QED BY <1>1, <3>1, <3>2, <3>3
    <2>3. OnCycle(latest - 2 * c)
      BY <2>2 DEF OnCycle
    <2>4. start - c \in Int
      BY <1>1
    <2>5. Floor(start - c, c) \in Int /\ OnCycle(Floor(start - c, c))
      BY <2>4, FloorOnCycle
    <2> QED BY <2>2, <2>3, <2>5 DEF LookbackEarliest, Greatest
  <1>4. /\ kind = "hrrr" => Floor(start - Quarter, Hour) \in Int /\ OnCycle(Floor(start - Quarter, Hour))
        /\ kind = "hrrr_alaska" => Floor(start - Hour, c) \in Int /\ OnCycle(Floor(start - Hour, c))
    <2>1. start - Quarter \in Int /\ start - Hour \in Int
      BY <1>1 DEF Quarter, Hour
    <2>2. kind = "hrrr" => c = Hour
      BY GridCycles DEF Hour
    <2> QED BY <2>1, <2>2, FloorOnCycle
  <1>5. Least(latest, lookback) \in Int /\ OnCycle(Least(latest, lookback))
        /\ Least(latest, lookback) <= lookback
    BY <1>2, <1>3 DEF Least
  <1>6. Earliest(t) \in Int /\ OnCycle(Earliest(t))
    BY <1>3, <1>4, <1>5 DEF Earliest, GridNames
  <1>7. RunsToConsider(t) = RunsFrom(Earliest(t), t)
    BY DEF RunsToConsider, Earliest, HRRRRuns, AlaskaRuns, AROMERuns, LookbackRuns, GridNames
  <1>8. kind \notin {"hrrr", "hrrr_alaska"} => Earliest(t) <= lookback
    BY <1>3, <1>5 DEF Earliest
  <1> QED BY <1>2, <1>6, <1>7, <1>8 DEF LookbackEarliest

\* The newest published run that reaches u, at time t.
FreshestAt(u, t) == Least(LatestPublishedRun(t), Floor(u - Usable, Grid.cycle))

\* It is considered, and reaches u and the step after it.
LEMMA FreshestConsidered ==
    ASSUME kind \in GridNames, history \in Nat, horizon \in Nat, DelayFits, WindowFits,
           NEW t \in Int, NEW u \in Int, WindowStart(t) <= u, u <= WindowEnd(t)
    PROVE  /\ FreshestAt(u, t) \in Int /\ FreshestAt(u, t) \in RunsToConsider(t)
           /\ Usable <= u - FreshestAt(u, t) /\ u - FreshestAt(u, t) < Grid.reach
           /\ OnCycle(FreshestAt(u, t))
  <1> DEFINE c == Grid.cycle
             d == Grid.delay
             latest == LatestPublishedRun(t)
             run == FreshestAt(u, t)
             reaching == Floor(u - Usable, c)
             lookback == Floor(WindowStart(t) - c, c)
  <1>1. /\ c \in {12, 36, 72} /\ d \in 11 .. 84 /\ Usable \in {0, 3, 12}
        /\ Grid.reach \in Nat /\ Grid.reach >= 216
    BY GridCycles, GridReach DEF GridNames
  <1>2. u - Usable \in Int /\ t - d \in Int /\ WindowStart(t) - c \in Int
    BY <1>1 DEF WindowStart
  <1>3. /\ latest \in Int /\ latest <= t - d /\ t - d < latest + c
        /\ \A m \in Int : m * c <= t - d => m * c <= latest
    <2> DEFINE x == t - d
    <2>1. latest = Floor(x, c) /\ x \in Int
      BY <1>2 DEF LatestPublishedRun
    <2> HIDE DEF c, x
    <2>2. /\ Floor(x, c) \in Int /\ Floor(x, c) <= x /\ x < Floor(x, c) + c
          /\ \A m \in Int : m * c <= x => m * c <= Floor(x, c)
      BY <1>1, <2>1, CycleFloor
    <2> QED BY <2>1, <2>2 DEF x
  <1>4. /\ reaching \in Int /\ reaching <= u - Usable /\ u - Usable < reaching + c
        /\ \A m \in Int : m * c <= u - Usable => m * c <= reaching
    <2> HIDE DEF c
    <2> QED BY <1>1, <1>2, CycleFloor
  <1>5. lookback \in Int /\ lookback <= WindowStart(t) - c
    <2> HIDE DEF c
    <2> QED BY <1>1, <1>2, CycleFloor
  <1>6. run = Least(latest, reaching)
    BY DEF FreshestAt
  <1>7. OnCycle(reaching) /\ OnCycle(latest)
    BY <1>2, FloorOnCycle, LatestOnCycle
  <1>8. OnCycle(run)
    BY <1>6, <1>7 DEF Least
  <1>9. /\ Earliest(t) \in Int /\ OnCycle(Earliest(t))
        /\ kind \notin {"hrrr", "hrrr_alaska"} =>
             Earliest(t) <= Greatest(lookback, latest - 2 * c)
        /\ RunsToConsider(t) = RunsFrom(Earliest(t), t)
    BY EarliestOnCycle
  <1>10. PICK m \in Int : Earliest(t) = m * c
    BY <1>9 DEF OnCycle
  <1> HIDE DEF latest, run, reaching, lookback, c, d
  <1>11. run \in Int /\ run <= latest /\ run <= reaching /\ run \in {latest, reaching}
    BY <1>3, <1>4, <1>6 DEF Least
  <1>12. Usable <= u - run
    BY <1>1, <1>4, <1>11
  <1>13. u - run < Grid.reach
    <2>1. horizon + d + c <= Grid.reach
      BY DEF WindowFits, c, d
    <2>2. u <= t + horizon
      BY DEF WindowEnd
    <2>3. CASE run = latest
      BY <1>1, <1>3, <2>1, <2>2, <2>3
    <2>4. CASE run = reaching
      BY <1>1, <1>4, <2>4
    <2> QED BY <1>11, <2>3, <2>4
  <1>14. Earliest(t) <= u - Usable /\ Earliest(t) <= t - d
    <2>1. t - history <= u
      BY DEF WindowStart
    <2>2. CASE kind = "hrrr"
      <3>1. Usable = 3 /\ d <= history + 3
        BY <2>2, GridCycles DEF DelayFits, Quarter, d
      <3>2. WindowStart(t) - 3 \in Int
        BY DEF WindowStart
      <3>3. Earliest(t) = Floor(WindowStart(t) - 3, 12)
        BY <2>2 DEF Earliest, Quarter, Hour
      <3>4. Earliest(t) <= WindowStart(t) - 3
        BY <3>2, <3>3, CycleFloor
      <3> QED BY <1>1, <1>9, <2>1, <3>1, <3>4 DEF WindowStart
    <2>3. CASE kind = "hrrr_alaska"
      <3>1. Usable = 0 /\ d <= history + 12
        BY <2>3, GridCycles DEF DelayFits, Hour, d
      <3>2. WindowStart(t) - 12 \in Int
        BY DEF WindowStart
      <3>3. Earliest(t) = Floor(WindowStart(t) - 12, c)
        BY <2>3 DEF Earliest, Hour, c
      <3> DEFINE x == WindowStart(t) - 12
      <3>4. Earliest(t) <= x
        <4>1. Earliest(t) = Floor(x, c) /\ x \in Int
          BY <3>2, <3>3
        <4> HIDE DEF x
        <4>2. Floor(x, c) <= x
          BY <1>1, <4>1, CycleFloor
        <4> QED BY <4>1, <4>2
      <3> QED BY <1>1, <1>9, <2>1, <3>1, <3>4 DEF WindowStart
    <2>4. CASE kind \notin {"hrrr", "hrrr_alaska"}
      <3>1. Earliest(t) <= Greatest(lookback, latest - 2 * c)
        BY <1>9, <2>4
      <3>2. history + Usable <= d + 2 * c
        BY <2>4 DEF WindowFits, c, d
      <3>3. latest - 2 * c <= u - Usable
        BY <1>1, <1>3, <2>1, <3>2
      <3>4. lookback <= u - Usable
        BY <1>1, <1>5, <2>1 DEF WindowStart
      <3>5. Earliest(t) <= u - Usable
        BY <1>1, <1>3, <1>5, <1>9, <3>1, <3>3, <3>4 DEF Greatest
      <3>6. CASE kind = "arome"
        <4>1. Earliest(t) <= latest
          <5>1. LookbackEarliest(t) \in Int
            BY <1>1, <1>3, <1>5 DEF LookbackEarliest, Greatest, lookback, latest, c
          <5> QED BY <1>3, <3>6, <5>1 DEF Earliest, Least, latest
        <4> QED BY <1>1, <1>3, <1>9, <3>5, <4>1
      <3>7. CASE kind # "arome"
        <4>1. d <= history + c
          BY <2>4, <3>7 DEF DelayFits, c, d
        <4>2. lookback <= t - d
          BY <1>1, <1>5, <4>1 DEF WindowStart
        <4>3. latest - 2 * c <= t - d
          BY <1>1, <1>3
        <4> QED BY <1>1, <1>3, <1>5, <1>9, <3>1, <3>5, <4>2, <4>3 DEF Greatest
      <3> QED BY <3>6, <3>7
    <2> QED BY <2>2, <2>3, <2>4
  <1>15. Earliest(t) <= run
    BY <1>3, <1>4, <1>10, <1>11, <1>14
  <1>16. run \in RunsFrom(Earliest(t), t)
    BY <1>8, <1>9, <1>11, <1>15, RunsFromHas DEF latest
  <1> QED BY <1>8, <1>9, <1>11, <1>12, <1>13, <1>16 DEF run

\* The hours and quarters of a lead that a cycle asks for.
LEMMA HoursUpBelow ==
    ASSUME NEW x \in Int
    PROVE  HoursUp(x) * 12 < x + 12
  BY SMT DEF HoursUp, Hour

\* The lead below u and the one after it are asked for; of WRF-SMN, the one before
\* them as well.
LEMMA BracketWanted ==
    ASSUME kind \in GridNames, history \in Nat, horizon \in Nat,
           NEW t \in Int, NEW u \in Int, WindowStart(t) <= u, u <= WindowEnd(t),
           NEW run \in Int, Usable <= u - run, u - run < Grid.reach
    PROVE  /\ kind = "hrrr" => \A x \in {0, 3} : Floor(u - run, 3) + x \in LeadsWanted(run, t)
           /\ kind # "hrrr" => \A x \in {0, 12} : Floor(u - run, 12) + x \in LeadsWanted(run, t)
           /\ kind = "wrf_smn" => Floor(u - run, 12) - 12 \in LeadsWanted(run, t)
  <1> DEFINE d == u - run
             start == WindowStart(t) - run
             end == WindowEnd(t) - run
  <1>1. d \in Nat /\ start \in Int /\ end \in Int /\ start <= d /\ d <= end
    BY GridCycles DEF WindowStart, WindowEnd, GridNames
  <1>2. /\ Usable = (CASE kind \in {"hrrr_alaska", "jma_msm"} -> 0
                       [] kind = "hrrr" -> 3 [] OTHER -> 12)
        /\ Usable <= d /\ d < Grid.reach
    BY GridCycles
  <1>3. \A slack \in {0, 3, 12} :
          /\ MinLead(run, t, slack) = Greatest(0, start - slack)
          /\ MaxLead(run, t, slack) = Least(Grid.reach, end + slack)
    BY <1>1 DEF MinLead, MaxLead, WindowStart, WindowEnd
  <1> HIDE DEF d, start, end
  <1>4. CASE kind = "hrrr"
    <2> DEFINE lo == Greatest(3, start - 3)
               hi == Least(216, end + 3)
               up == HoursUp(lo)
               top == HoursUp(hi)
               q == d \div 3
    <2>1. /\ lo \in Int /\ (lo = 3 \/ lo <= d - 3) /\ lo <= d
          /\ hi \in Int /\ (hi = 216 \/ d + 3 <= hi) /\ 3 <= d /\ d <= 215 /\ lo <= hi
      BY <1>1, <1>2, <1>4, GridReach DEF Greatest, Least
    <2>2. Floor(d, 3) = q * 3 /\ q \in Int /\ q * 3 <= d /\ d < q * 3 + 3
      BY <1>1, SMT DEF Floor
    <2> HIDE DEF lo, hi, q
    <2>3. /\ up \in Int /\ lo <= up * 12 /\ up * 12 < lo + 12
          /\ top \in Int /\ hi <= top * 12
      BY <2>1, Hours, HoursUpBelow
    <2> HIDE DEF up, top
    <2>4. \A p \in {q, q + 1} : p \in (4 * (Greatest(1, up) - 1) + 1) .. 4 * Least(18, top)
      <3>1. 4 * (up - 1) + 1 <= q
        <4>1. CASE lo = 3
          <5>1. up = 1 BY <2>3, <4>1
          <5>2. 1 <= q BY <1>1, <2>1, <2>2
          <5> QED BY <2>2, <5>1, <5>2
        <4>2. CASE lo <= d - 3 BY <1>1, <2>1, <2>2, <2>3, <4>2
        <4> QED BY <2>1, <4>1, <4>2
      <3>2. 1 <= q
        BY <1>1, <2>1, <2>2
      <3>3. q + 1 <= 4 * top
        <4>1. CASE hi = 216 BY <1>1, <2>1, <2>2, <2>3, <4>1
        <4>2. CASE d + 3 <= hi BY <1>1, <2>1, <2>2, <2>3, <4>2
        <4> QED BY <2>1, <4>1, <4>2
      <3>4. q + 1 <= 72
        BY <1>1, <2>1, <2>2
      <3>5. 4 * (Greatest(1, up) - 1) + 1 \in Int /\ 4 * (Greatest(1, up) - 1) + 1 <= q
        BY <2>2, <2>3, <3>1, <3>2 DEF Greatest
      <3>6. 4 * Least(18, top) \in Int /\ q + 1 <= 4 * Least(18, top)
        BY <2>2, <2>3, <3>3, <3>4 DEF Least
      <3> QED BY <2>2, <3>5, <3>6
    <2>5. LeadsWanted(run, t) = HRRRLeads(run, t)
      BY <1>4, Zenon DEF LeadsWanted
    <2>6. HRRRLeads(run, t) = {p * 3 : p \in (4 * (Greatest(1, up) - 1) + 1) .. 4 * Least(18, top)}
      <3>1. Grid.reach = 216
        BY <1>4, GridReach
      <3>2. MaxLead(run, t, 3) = hi
        BY <1>3, <3>1 DEF hi
      <3>3. WindowStart(t) - run - 3 = start - 3
        BY DEF start
      <3>4. ~(hi < lo)
        BY <2>1
      <3> QED BY <3>2, <3>3, <3>4 DEF HRRRLeads, Quarter, lo, up, top
    <2>7. Floor(d, 3) + 0 = q * 3 /\ Floor(d, 3) + 3 = (q + 1) * 3
      BY <2>2
    <2> QED BY <1>4, <2>4, <2>5, <2>6, <2>7 DEF d
  <1>5. CASE kind # "hrrr"
    <2> DEFINE h == d \div 12
    <2>1. Floor(d, 12) = h * 12 /\ h \in Nat /\ h * 12 <= d /\ d < h * 12 + 12
      BY <1>1, SMT DEF Floor
    <2> HIDE DEF h
    <2>2. ASSUME NEW lo \in Int, NEW hi \in Int, lo <= hi, NEW low \in Int, NEW high \in Int,
                 LeadsWanted(run, t) = Asked(lo, hi, low .. high),
                 low <= h, h + 1 <= high, kind = "wrf_smn" => low <= h - 1
          PROVE  /\ \A x \in {0, 12} : Floor(d, 12) + x \in LeadsWanted(run, t)
                 /\ kind = "wrf_smn" => Floor(d, 12) - 12 \in LeadsWanted(run, t)
      <3>1. LeadsWanted(run, t) = InHours(low .. high)
        BY <2>2 DEF Asked
      <3>2. \A n \in low .. high : n * 12 \in LeadsWanted(run, t)
        BY <3>1 DEF InHours, Hour
      <3>3. h \in low .. high /\ h + 1 \in low .. high
            /\ (kind = "wrf_smn" => h - 1 \in low .. high)
        BY <2>1, <2>2
      <3>4. h * 12 \in LeadsWanted(run, t) /\ (h + 1) * 12 \in LeadsWanted(run, t)
            /\ (kind = "wrf_smn" => (h - 1) * 12 \in LeadsWanted(run, t))
        BY <3>2, <3>3
      <3>5. Floor(d, 12) + 0 = h * 12 /\ Floor(d, 12) + 12 = (h + 1) * 12
            /\ Floor(d, 12) - 12 = (h - 1) * 12
        BY <2>1
      <3> QED BY <3>4, <3>5
    <2>3. ASSUME NEW slack \in {0, 12}, NEW above \in {0, 12}
          PROVE  LET lo == Greatest(0, start - slack)
                     hi == Least(Grid.reach, end + above)
                 IN  /\ lo \in Int /\ hi \in Int /\ lo <= hi
                     /\ HoursDown(lo) \in Int /\ HoursDown(lo) <= h
                     /\ 12 <= d /\ slack = 12 => HoursDown(lo) <= h - 1 \/ HoursDown(lo) = 0
                     /\ 12 <= d /\ slack = 12 => HoursUp(lo) \in Int /\ HoursUp(lo) <= h
                     /\ HoursDown(hi) \in Int /\ h <= HoursDown(hi)
                     /\ HoursUp(hi) \in Int
                     /\ above = 12 => h + 1 <= HoursUp(hi) /\ h + 1 <= HoursDown(hi)
                     /\ (h + 1) * 12 <= Grid.reach
      <3> DEFINE lo == Greatest(0, start - slack)
                 hi == Least(Grid.reach, end + above)
      <3>1. PICK n \in Nat : Grid.reach = n * 12
        <4>1. Grid.reach \in {576, 360, 720, 864, 468}
          BY <1>5, GridReach DEF GridNames
        <4>2. \E n \in {48, 30, 60, 72, 39} : Grid.reach = n * 12
          BY <4>1
        <4> QED BY <4>2
      <3>2. /\ lo \in Int /\ lo <= d /\ (12 <= d /\ slack = 12 => lo <= d - 12)
            /\ 0 <= lo
            /\ hi \in Int /\ (hi = Grid.reach \/ d + above <= hi) /\ d <= hi
        BY <1>1, <1>2, <3>1 DEF Greatest, Least
      <3>3. (h + 1) * 12 <= Grid.reach
        BY <1>1, <1>2, <2>1, <3>1
      <3> HIDE DEF lo, hi
      <3>4. /\ HoursDown(lo) \in Int /\ HoursDown(lo) * 12 <= lo /\ lo < HoursDown(lo) * 12 + 12
            /\ HoursUp(lo) \in Int /\ HoursUp(lo) * 12 < lo + 12
            /\ HoursDown(hi) \in Int /\ hi < HoursDown(hi) * 12 + 12
            /\ HoursUp(hi) \in Int /\ hi <= HoursUp(hi) * 12
        BY <3>2, Hours, HoursUpBelow
      <3>5. lo <= hi
        BY <1>1, <3>2
      <3>6. HoursDown(lo) <= h
        BY <1>1, <2>1, <3>2, <3>4
      <3>7. ASSUME 12 <= d, slack = 12 PROVE HoursDown(lo) <= h - 1 /\ HoursUp(lo) <= h
        BY <1>1, <2>1, <3>2, <3>4, <3>7
      <3>8. h <= HoursDown(hi)
        BY <1>1, <2>1, <3>2, <3>4
      <3>9. ASSUME above = 12 PROVE h + 1 <= HoursUp(hi) /\ h + 1 <= HoursDown(hi)
        <4>1. (h + 1) * 12 <= hi
          BY <1>1, <2>1, <3>1, <3>2, <3>3, <3>9
        <4> QED BY <2>1, <3>2, <3>4, <4>1
      <3> QED BY <3>2, <3>3, <3>4, <3>5, <3>6, <3>7, <3>8, <3>9 DEF lo, hi
    <2>4. CASE kind = "hrrr_alaska"
      <3>1. LeadsWanted(run, t) = AlaskaLeads(run, t) BY <2>4, Zenon DEF LeadsWanted
      <3> DEFINE lo == Greatest(0, start - 12)
                 hi == Least(Grid.reach, end + 12)
      <3>2. LeadsWanted(run, t) = Asked(lo, hi, HoursDown(lo) .. Least(48, HoursUp(hi)))
        BY <1>3, <3>1 DEF AlaskaLeads, Hour
      <3>3. Grid.reach = 576 BY <2>4, GridReach
      <3>4. /\ lo \in Int /\ hi \in Int /\ lo <= hi /\ HoursDown(lo) \in Int /\ HoursDown(lo) <= h
            /\ HoursUp(hi) \in Int /\ h + 1 <= HoursUp(hi) /\ (h + 1) * 12 <= Grid.reach
        BY <2>3
      <3> HIDE DEF lo, hi
      <3>5. Least(48, HoursUp(hi)) \in Int /\ h + 1 <= Least(48, HoursUp(hi))
        BY <2>1, <3>3, <3>4 DEF Least
      <3> QED BY <2>2, <2>4, <3>2, <3>4, <3>5 DEF d
    <2>5. CASE kind = "hrdps"
      <3>1. LeadsWanted(run, t) = HRDPSLeads(run, t) BY <2>5, Zenon DEF LeadsWanted
      <3> DEFINE lo == Greatest(0, start - 12)
                 hi == Least(Grid.reach, end + 12)
      <3>2. LeadsWanted(run, t) =
              Asked(lo, hi, Greatest(1, HoursDown(lo)) .. Least(48, HoursUp(hi)))
        BY <1>3, <3>1 DEF HRDPSLeads, Hour
      <3>3. Grid.reach = 576 /\ 12 <= d BY <1>2, <2>5, GridReach
      <3>4. /\ lo \in Int /\ hi \in Int /\ lo <= hi /\ HoursDown(lo) \in Int /\ HoursDown(lo) <= h
            /\ HoursUp(hi) \in Int /\ h + 1 <= HoursUp(hi) /\ (h + 1) * 12 <= Grid.reach
        BY <2>3
      <3> HIDE DEF lo, hi
      <3>5. Least(48, HoursUp(hi)) \in Int /\ h + 1 <= Least(48, HoursUp(hi))
        BY <2>1, <3>3, <3>4 DEF Least
      <3>6. Greatest(1, HoursDown(lo)) \in Int /\ Greatest(1, HoursDown(lo)) <= h
        <4>1. 1 <= h
          BY <1>1, <2>1, <3>3
        <4> QED BY <2>1, <3>4, <4>1 DEF Greatest
      <3> QED BY <2>2, <2>5, <3>2, <3>4, <3>5, <3>6 DEF d
    <2>6. CASE kind \in {"icon_eu", "dmi_dini", "wrf_smn"}
      <3> DEFINE lo == Greatest(0, start - 12)
                 hi == Least(Grid.reach, end)
                 most == CASE kind = "icon_eu" -> 30 [] kind = "dmi_dini" -> 60 [] OTHER -> 72
      <3>1. end + 0 = end
        BY <1>1
      <3>2. LeadsWanted(run, t) = Asked(lo, hi, Greatest(0, HoursDown(lo) - 1)
                                                .. Least(most, HoursDown(hi) + 1))
        <4>1. CASE kind = "icon_eu"
          <5>1. LeadsWanted(run, t) = ICONLeads(run, t) BY <4>1, Zenon DEF LeadsWanted
          <5> QED BY <1>3, <3>1, <4>1, <5>1 DEF ICONLeads, Hour
        <4>2. CASE kind = "dmi_dini"
          <5>1. LeadsWanted(run, t) = DMILeads(run, t) BY <4>2, Zenon DEF LeadsWanted
          <5> QED BY <1>3, <3>1, <4>2, <5>1 DEF DMILeads, Hour
        <4>3. CASE kind = "wrf_smn"
          <5>1. LeadsWanted(run, t) = WRFLeads(run, t) BY <4>3, Zenon DEF LeadsWanted
          <5> QED BY <1>3, <3>1, <4>3, <5>1 DEF WRFLeads, Hour
        <4> QED BY <2>6, <4>1, <4>2, <4>3
      <3>3. Grid.reach = most * 12 /\ most \in Nat /\ 12 <= d
        BY <1>2, <2>6, GridReach
      <3>4. /\ lo \in Int /\ hi \in Int /\ lo <= hi /\ HoursDown(lo) \in Int /\ HoursDown(lo) <= h
            /\ HoursDown(lo) <= h - 1 \/ HoursDown(lo) = 0
            /\ HoursDown(hi) \in Int /\ h <= HoursDown(hi) /\ (h + 1) * 12 <= Grid.reach
        BY <2>3, <3>1, <3>3
      <3> HIDE DEF lo, hi, most
      <3>5. Least(most, HoursDown(hi) + 1) \in Int /\ h + 1 <= Least(most, HoursDown(hi) + 1)
        BY <2>1, <3>3, <3>4 DEF Least
      <3>6. Greatest(0, HoursDown(lo) - 1) \in Int /\ Greatest(0, HoursDown(lo) - 1) <= h - 1
        <4>1. 1 <= h
          BY <1>1, <2>1, <3>3
        <4> QED BY <2>1, <3>4, <4>1 DEF Greatest
      <3> HIDE DEF h
      <3>7. Greatest(0, HoursDown(lo) - 1) <= h
        BY <2>1, <3>6
      <3> QED BY <2>2, <3>2, <3>4, <3>5, <3>6, <3>7, <1>5 DEF d
    <2>7. CASE kind = "jma_msm"
      <3>1. LeadsWanted(run, t) = JMALeads(run, t) BY <2>7, Zenon DEF LeadsWanted
      <3> DEFINE lo == Greatest(0, start - 0)
                 hi == Least(Grid.reach, end + 0)
      <3>2. LeadsWanted(run, t) = Asked(lo, hi, HoursDown(lo) .. Least(39, HoursDown(hi) + 1))
        BY <1>3, <3>1 DEF JMALeads, Hour
      <3>3. Grid.reach = 468 BY <2>7, GridReach
      <3>4. /\ lo \in Int /\ hi \in Int /\ lo <= hi /\ HoursDown(lo) \in Int /\ HoursDown(lo) <= h
            /\ HoursDown(hi) \in Int /\ h <= HoursDown(hi) /\ (h + 1) * 12 <= Grid.reach
        BY <2>3
      <3> HIDE DEF lo, hi
      <3>5. Least(39, HoursDown(hi) + 1) \in Int /\ h + 1 <= Least(39, HoursDown(hi) + 1)
        BY <2>1, <3>3, <3>4 DEF Least
      <3> QED BY <2>2, <2>7, <3>2, <3>4, <3>5 DEF d
    <2>8. CASE kind = "arome"
      <3>1. LeadsWanted(run, t) = AROMELeads(run, t) BY <2>8, Zenon DEF LeadsWanted
      <3> DEFINE lo == Greatest(0, start - 12)
                 hi == Least(Grid.reach, end + 12)
      <3>2. LeadsWanted(run, t) = Asked(lo, hi, HoursUp(lo) .. Least(48, HoursDown(hi)))
        BY <1>3, <3>1 DEF AROMELeads, Hour
      <3>3. Grid.reach = 576 /\ 12 <= d BY <1>2, <2>8, GridReach
      <3>4. /\ lo \in Int /\ hi \in Int /\ lo <= hi /\ HoursUp(lo) \in Int /\ HoursUp(lo) <= h
            /\ HoursDown(hi) \in Int /\ h + 1 <= HoursDown(hi) /\ (h + 1) * 12 <= Grid.reach
        BY <2>3, <3>3
      <3> HIDE DEF lo, hi
      <3>5. Least(48, HoursDown(hi)) \in Int /\ h + 1 <= Least(48, HoursDown(hi))
        BY <2>1, <3>3, <3>4 DEF Least
      <3> QED BY <2>2, <2>8, <3>2, <3>4, <3>5 DEF d
    <2> QED BY <1>5, <2>4, <2>5, <2>6, <2>7, <2>8 DEF GridNames, d
  <1> QED BY <1>4, <1>5

\* What eviction keeps of the grids that interpolate: the window and an hour after
\* it, and before it an hour (JMA-MSM) or three.
Before == IF kind = "jma_msm" THEN 12 ELSE 36
LEMMA FlowingKeeps ==
    ASSUME kind \in Flowing, history \in Nat, horizon \in Nat, NEW v \in Int, NEW t \in Int
    PROVE  Keeps(v, t) <=> WindowStart(t) - Before <= v /\ v <= WindowEnd(t) + 12
  <1>1. /\ ICONKeeps(v, t) <=> WindowStart(t) - 36 <= v /\ v <= WindowEnd(t) + 12
        /\ DMIKeeps(v, t) <=> WindowStart(t) - 36 <= v /\ v <= WindowEnd(t) + 12
        /\ WRFKeeps(v, t) <=> WindowStart(t) - 36 <= v /\ v <= WindowEnd(t) + 12
        /\ JMAKeeps(v, t) <=> WindowStart(t) - 12 <= v /\ v <= WindowEnd(t) + 12
    BY DEF ICONKeeps, DMIKeeps, WRFKeeps, JMAKeeps, WithinSlack, Hour
  <1>2. CASE kind = "icon_eu"
    <2>1. Keeps(v, t) <=> ICONKeeps(v, t) BY <1>2, Zenon DEF Keeps
    <2> QED BY <1>1, <1>2, <2>1 DEF Before
  <1>3. CASE kind = "dmi_dini"
    <2>1. Keeps(v, t) <=> DMIKeeps(v, t) BY <1>3, Zenon DEF Keeps
    <2> QED BY <1>1, <1>3, <2>1 DEF Before
  <1>4. CASE kind = "wrf_smn"
    <2>1. Keeps(v, t) <=> WRFKeeps(v, t) BY <1>4, Zenon DEF Keeps
    <2> QED BY <1>1, <1>4, <2>1 DEF Before
  <1>5. CASE kind = "jma_msm"
    <2>1. Keeps(v, t) <=> JMAKeeps(v, t) BY <1>5, Zenon DEF Keeps
    <2> QED BY <1>1, <1>5, <2>1 DEF Before
  <1> QED BY <1>2, <1>3, <1>4, <1>5 DEF Flowing

\* No HRRR lead is asked for before the first quarter, and no step 0 of HRDPS.
LEMMA FirstWanted ==
    ASSUME kind \in {"hrrr", "hrdps"}, history \in Nat, horizon \in Nat,
           NEW t \in Int, NEW run \in Int, NEW lead \in LeadsWanted(run, t)
    PROVE  Usable <= lead
  <1>1. WindowStart(t) \in Int /\ WindowEnd(t) \in Int /\ Grid.reach \in Int
    BY GridReach DEF WindowStart, WindowEnd, GridNames
  <1>2. CASE kind = "hrrr"
    <2> DEFINE lo == Greatest(Quarter, WindowStart(t) - run - Quarter)
               hi == MaxLead(run, t, Quarter)
               low == 4 * (Greatest(1, HoursUp(lo)) - 1) + 1
    <2>1. lead \in HRRRLeads(run, t) BY <1>2, Zenon DEF LeadsWanted
    <2>2. PICK q \in low .. 4 * Least(18, HoursUp(hi)) : lead = q * 3
      BY <2>1 DEF HRRRLeads, Quarter
    <2>3. lo \in Int
      BY <1>1 DEF Greatest, Quarter
    <2>4. HoursUp(lo) \in Int
      BY <2>3, Hours
    <2> HIDE DEF lo, hi
    <2>5. low \in Int /\ 1 <= low
      BY <2>4 DEF Greatest
    <2> HIDE DEF low
    <2> QED BY <1>2, <2>2, <2>5, GridCycles DEF GridNames
  <1>3. CASE kind = "hrdps"
    <2> DEFINE lo == MinLead(run, t, Hour)
               hi == MaxLead(run, t, Hour)
               low == Greatest(1, HoursDown(lo))
    <2>1. lead \in HRDPSLeads(run, t) BY <1>3, Zenon DEF LeadsWanted
    <2>2. lead \in InHours(low .. Least(48, HoursUp(hi)))
      BY <2>1 DEF HRDPSLeads, Asked
    <2>3. PICK h \in low .. Least(48, HoursUp(hi)) : lead = h * 12
      BY <2>2 DEF InHours, Hour
    <2>4. lo \in Int
      BY <1>1 DEF MinLead, Greatest, Hour
    <2> HIDE DEF lo, hi
    <2>5. HoursDown(lo) \in Int
      BY <2>4, Hours
    <2>6. low \in Int /\ 1 <= low
      BY <2>5 DEF Greatest
    <2> HIDE DEF low
    <2> QED BY <1>3, <2>3, <2>6, GridCycles DEF GridNames
  <1> QED BY <1>2, <1>3

\* A frame that a cycle decodes is of a lead the grid can be sampled from; those of
\* the grids that interpolate are whole hours, none of them past the window.
LEMMA FrameLeads ==
    ASSUME IInv, NEW t \in Int, NEW run \in Int, NEW missing,
           NEW l \in Fetched(run, t, missing).frames
    PROVE  /\ l \in Int /\ Usable <= l
           /\ kind \in Flowing => /\ \E h \in Nat : l = h * 12
                                  /\ run + l <= WindowEnd(t) + 12
  <1> DEFINE wanted == LeadsWanted(run, t)
             lost == Lost(run, missing)
             fetched == Fetched(run, t, missing)
  <1>1. /\ \A w \in wanted : /\ w \in Int /\ 0 <= w
                             /\ kind # "hrrr" => \E h \in Nat : w = h * 12
        /\ kind \in {"hrrr", "hrdps"} => \A w \in wanted : Usable <= w
    BY WantedLeads, FirstWanted DEF IInv
  <1>2. kind \in {"wrf_smn", "jma_msm"} => \A w \in wanted : run + w <= WindowEnd(t) + 12
    <2> SUFFICES ASSUME kind \in {"wrf_smn", "jma_msm"}, NEW w \in wanted
                 PROVE  run + w <= WindowEnd(t) + 12
      OBVIOUS
    <2>1. Keeps(run + w, t)
      BY WantedIsKept DEF IInv
    <2>2. run + w \in Int
      BY <1>1
    <2> QED BY <2>1, <2>2, FlowingKeeps DEF IInv, Flowing
  <1>3. Usable = (CASE kind \in {"hrrr_alaska", "jma_msm"} -> 0
                    [] kind = "hrrr" -> 3 [] OTHER -> 12)
    BY GridCycles DEF IInv
  <1>4. CASE kind \in {"hrrr", "hrrr_alaska", "hrdps", "jma_msm"}
    <2>1. fetched = FetchDirect(run, wanted, lost)
      BY <1>4 DEF Fetched, HRRRFile, AlaskaFile, HRDPSStep, JMAStep, Lost
    <2> HIDE DEF wanted, lost, fetched
    <2>2. l \in wanted
      BY <2>1 DEF FetchDirect, fetched
    <2>3. Usable <= l
      BY <1>1, <1>3, <1>4, <2>2
    <2>4. kind \in Flowing => kind = "jma_msm"
      BY <1>4 DEF Flowing
    <2> QED BY <1>1, <1>2, <2>2, <2>3, <2>4
  <1>5. CASE kind \in Chained
    <2>1. PICK s \in 1 .. HoursDown(Grid.reach) : l = s * 12 /\ Reaches(run, wanted, lost, s)
      BY <1>5, ChainFetches
    <2>2. PICK w \in Nat : w * 12 \in wanted /\ s <= w
      BY <2>1 DEF Reaches
    <2>3. run + w * 12 <= WindowEnd(t) + 12 /\ WindowEnd(t) \in Int
      BY <1>5, <2>2, ChainWanted DEF IInv, WindowEnd
    <2>4. Usable = 12
      BY <1>3, <1>5 DEF Chained
    <2>5. s \in Nat /\ 1 <= s
      BY <2>1
    <2> QED BY <2>1, <2>2, <2>3, <2>4, <2>5
  <1>6. CASE kind = "wrf_smn"
    <2>1. fetched = FetchTwoPhase(run, wanted, lost)
      BY <1>6 DEF Fetched, Lost
    <2> HIDE DEF wanted, lost, fetched
    <2>2. l \in wanted /\ l > 0
      BY <2>1 DEF FetchTwoPhase, fetched
    <2>3. PICK h \in Nat : l = h * 12
      BY <1>1, <1>6, <2>2
    <2>4. Usable = 12
      BY <1>3, <1>6
    <2> QED BY <1>2, <1>6, <2>2, <2>3, <2>4
  <1>7. CASE kind = "arome"
    <2>1. fetched = FetchEnsured(run, wanted, lost)
      BY <1>7 DEF Fetched, Lost
    <2> HIDE DEF wanted, lost, fetched
    <2>2. l \in wanted /\ l > 0
      BY <2>1 DEF FetchEnsured, fetched
    <2>3. PICK h \in Nat : l = h * 12
      BY <1>1, <1>7, <2>2
    <2>4. Usable = 12 /\ kind \notin Flowing
      BY <1>3, <1>7 DEF Flowing
    <2> QED BY <2>2, <2>3, <2>4
  <1> QED BY <1>4, <1>5, <1>6, <1>7 DEF IInv, GridNames, Chained

\* A set of hours up to s that has 0 has a last one.
LEMMA LastAtHand ==
    ASSUME NEW s \in Nat, NEW hours \in SUBSET (0 .. s), 0 \in hours
    PROVE  \E b \in hours : \A r \in hours : r <= b
  <1> DEFINE gaps == {n \in Nat : s - n \in hours}
  <1>1. gaps \subseteq Nat /\ s \in gaps
    OBVIOUS
  <1>2. PICK n \in gaps : \A m \in gaps : ~(<<m, n>> \in OpToRel(<, Nat))
    BY <1>1, NatLessThanWellFounded, WFMin
  <1>3. \A m \in gaps : ~(m < n)
    BY <1>1, <1>2 DEF OpToRel
  <1>4. n \in Nat /\ s - n \in hours
    BY <1>1
  <1>5. \A r \in hours : s - r \in gaps
    OBVIOUS
  <1> HIDE DEF gaps
  <1>6. \A r \in hours : r <= s - n
    BY <1>3, <1>4, <1>5
  <1> QED BY <1>4, <1>6

\* When no file is missing, what is asked for is there once it was fetched, but for
\* the steps that only serve as a baseline.
LEMMA WantedLands ==
    ASSUME IInv, Sound, NEW t \in Int, NEW run \in Int, NEW l \in LeadsWanted(run, t),
           Usable <= l, kind = "wrf_smn" => l - 12 \in LeadsWanted(run, t)
    PROVE  l \in Leads(run, t, {})
  <1> DEFINE wanted == LeadsWanted(run, t)
             fetched == Fetched(run, t, {})
             loaded == LoadedLeads(run)
  <1>1. Lost(run, {}) = {}
    BY DEF Lost
  <1>2. SUFFICES ASSUME l \notin loaded PROVE l \in fetched.frames
    BY DEF Leads
  <1>3. kind # "hrrr" => \E h \in Nat : l = h * 12
    BY WantedLeads DEF IInv
  <1>4. kind \notin {"hrrr", "hrrr_alaska", "hrdps", "jma_msm"} => 12 <= l
    BY GridCycles DEF IInv
  <1>5. CASE kind \in {"hrrr", "hrrr_alaska", "hrdps", "jma_msm"}
    <2>1. fetched = FetchDirect(run, wanted, Lost(run, {}))
      BY <1>5 DEF Fetched, HRRRFile, AlaskaFile, HRDPSStep, JMAStep, Lost
    <2> QED BY <1>1, <1>2, <2>1 DEF FetchDirect
  <1>6. CASE kind \in Chained
    <2>1. PICK w \in Nat : l = w * 12
      BY <1>3, <1>6 DEF Chained
    <2>2. w \in 1 .. HoursDown(Grid.reach)
      <3>1. 12 <= l
        BY <1>4, <1>6 DEF Chained
      <3>2. w = 0 \/ w \in 1 .. HoursDown(Grid.reach)
        BY <1>6, <2>1, ChainWanted
      <3> QED BY <2>1, <3>1, <3>2
    <2> DEFINE hours == {b \in 0 .. w - 1 : AtHand(run, {}, b)}
    <2>3. w - 1 \in Nat /\ 0 \in hours
      BY <2>2 DEF AtHand
    <2>4. hours \in SUBSET (0 .. w - 1)
      OBVIOUS
    <2>5. \A b : b \in hours <=> b \in 0 .. w - 1 /\ AtHand(run, {}, b)
      OBVIOUS
    <2> HIDE DEF hours
    <2>6. PICK b \in hours : \A r \in hours : r <= b
      BY <2>3, <2>4, LastAtHand
    <2>7. b \in 0 .. w - 1 /\ AtHand(run, {}, b)
      BY <2>5, <2>6
    <2>8. ASSUME NEW r \in b + 1 .. w - 1
          PROVE  Opens(run, {}, r) /\ Unknown(run, r)
      <3>1. r \in 0 .. w - 1 /\ ~(r <= b)
        BY <2>7
      <3>2. ~AtHand(run, {}, r)
        BY <2>5, <2>6, <3>1
      <3> QED BY <3>2 DEF AtHand, Opens, Unknown
    <2>9. Based(run, {}, w - 1)
      BY <2>7, <2>8 DEF Based
    <2>10. Opens(run, {}, w)
      BY <1>2, <2>1 DEF Opens
    <2>11. Reaches(run, wanted, {}, w)
      <3>1. w * 12 \in wanted /\ w <= w /\ \A r \in w + 1 .. w : FALSE
        BY <2>1
      <3> QED BY <3>1 DEF Reaches
    <2>12. /\ Opens(run, Lost(run, {}), w) /\ Reaches(run, wanted, Lost(run, {}), w)
           /\ Based(run, Lost(run, {}), w - 1)
      BY <1>1, <2>9, <2>10, <2>11, Zenon
    <2>13. \A x : x \in fetched.frames <=>
             \E s \in 1 .. HoursDown(Grid.reach) :
                /\ x = s * 12 /\ Opens(run, Lost(run, {}), s)
                /\ Reaches(run, wanted, Lost(run, {}), s) /\ Based(run, Lost(run, {}), s - 1)
      BY <1>6, ChainFetches
    <2> HIDE DEF wanted, fetched
    <2> QED BY <2>1, <2>2, <2>12, <2>13
  <1>7. CASE kind = "wrf_smn"
    <2>1. fetched = FetchTwoPhase(run, wanted, Lost(run, {}))
      BY <1>7 DEF Fetched, Lost
    <2>2. \A w \in wanted : w \in Nat
      BY WantedLeads, GridReach DEF IInv
    <2> DEFINE have == Accumulated(run)
                  \cup {w \in wanted : w > 0 /\ w \notin Accumulated(run) \cup {}}
                  \cup (wanted \cap {0})
    <2>3. wanted \subseteq have
      <3> SUFFICES ASSUME NEW w \in wanted PROVE w \in have
        OBVIOUS
      <3>1. w \in Nat
        BY <2>2
      <3>2. CASE w = 0 BY <3>2
      <3>3. CASE w > 0 BY <3>3
      <3> QED BY <3>1, <3>2, <3>3
    <2>4. l > 0 /\ l - 12 < l /\ l - Hour = l - 12 /\ l \in wanted /\ l - 12 \in wanted
      BY <1>4, <1>7, <2>2 DEF Hour
    <2>5. {l, l - Hour} \subseteq have
      BY <2>3, <2>4
    <2>6. fetched.frames = {w \in wanted \ LoadedLeads(run) :
                              /\ w > 0 /\ \E m \in wanted : m < w
                              /\ {w, w - Hour} \subseteq have}
      BY <1>1, <2>1 DEF FetchTwoPhase
    <2> HIDE DEF have, wanted, fetched
    <2> QED BY <1>2, <2>4, <2>5, <2>6
  <1>8. CASE kind = "arome"
    <2>1. fetched = FetchEnsured(run, wanted, Lost(run, {}))
      BY <1>8 DEF Fetched, Lost
    <2>2. l > 0
      BY <1>3, <1>4, <1>8
    <2> DEFINE have == Accumulated(run) \cup {0}
               open == {w \in wanted \ LoadedLeads(run) : w > 0 /\ (w \in have \/ w \notin {})}
               down == (UNION {{w, w - Hour} : w \in open}) \ (have \cup {})
    <2>3. fetched.frames = {w \in open : w - Hour \in have \cup down}
      BY <1>1, <2>1 DEF FetchEnsured
    <2>4. l \in open
      BY <1>2, <2>2
    <2>5. l - Hour \in have \cup down
      BY <2>4
    <2> HIDE DEF have, open, down, fetched
    <2> QED BY <2>3, <2>4, <2>5
  <1> QED BY <1>5, <1>6, <1>7, <1>8 DEF IInv, GridNames, Chained

-----------------------------------------------------------------------------
(* What interpolation fills stays filled.                                    *)

LEMMA BetweenFills ==
    ASSUME NEW leads \in SUBSET Nat, \A l \in leads : l % 2 = 0,
           NEW a \in leads, NEW b \in leads,
           NEW x \in Nat, x % 2 = 0, a < x, x < b
    PROVE  x \in leads \cup Between(leads)
  <1> SUFFICES ASSUME x \notin leads PROVE x \in Between(leads)
    OBVIOUS
  <1> DEFINE gaps == {n \in Nat : x - n \in leads}
  <1>1. gaps \subseteq Nat /\ x - a \in gaps
    <2>1. x - a \in Nat /\ x - (x - a) = a
      OBVIOUS
    <2> QED BY <2>1
  <1>2. PICK n \in gaps : \A m \in gaps : ~(<<m, n>> \in OpToRel(<, Nat))
    BY <1>1, NatLessThanWellFounded, WFMin
  <1>3. \A m \in gaps : ~(m < n)
    BY <1>1, <1>2 DEF OpToRel
  <1>4. n \in Nat /\ x - n \in leads /\ n # 0
    <2>1. n \in Nat /\ x - n \in leads
      BY <1>1
    <2>2. n = 0 => x - n = x
      OBVIOUS
    <2> QED BY <2>1, <2>2
  <1>5. PICK c \in leads : c = x - n
    BY <1>4
  <1>6. c \in Nat /\ c < x
    BY <1>4, <1>5
  <1>7. \A l \in leads : l < x => l <= c
    <2> SUFFICES ASSUME NEW l \in leads, l < x PROVE l <= c
      OBVIOUS
    <2>1. x - l \in Nat /\ x - (x - l) = l /\ l \in Nat
      OBVIOUS
    <2>2. x - l \in gaps
      BY <2>1
    <2>3. ~(x - l < n)
      BY <1>3, <2>2
    <2> QED BY <1>4, <1>5, <2>1, <2>3
  <1> HIDE DEF gaps
  <1>8. \E m \in leads : m > c
    BY <1>6
  <1>9. PICK f \in leads : f = Following(c, leads) /\ f > c /\ f <= b
    <2>1. Following(c, leads) \in leads /\ Following(c, leads) > c
          /\ \A l \in leads : l > c => Following(c, leads) <= l
      BY <1>8, FollowingIs
    <2>2. b > c
      BY <1>6
    <2> QED BY <2>1, <2>2
  <1>10. x < f /\ f \in Nat
    <2>1. ~(f < x)
      BY <1>6, <1>7, <1>9
    <2> QED BY <1>9, <2>1
  <1>11. f % 2 = 0 /\ c % 2 = 0
    OBVIOUS
  <1>12. \E k \in 1 .. ((f - c) \div 2 - 1) : x = c + k * 2
    <2>1. PICK p \in Nat, q \in Nat, r \in Nat : f = p * 2 /\ c = q * 2 /\ x = r * 2
      <3>1. f = (f \div 2) * 2 /\ f \div 2 \in Nat BY <1>10, <1>11, SMT
      <3>2. c = (c \div 2) * 2 /\ c \div 2 \in Nat BY <1>6, <1>11, SMT
      <3>3. x = (x \div 2) * 2 /\ x \div 2 \in Nat BY SMT
      <3> QED BY <3>1, <3>2, <3>3
    <2>2. (f - c) \div 2 = p - q
      BY <2>1
    <2>3. r - q \in 1 .. (p - q - 1) /\ x = c + (r - q) * 2
      BY <1>6, <1>10, <2>1
    <2> QED BY <2>2, <2>3
  <1>13. x \in {c + k * Stored : k \in 1 .. ((Following(c, leads) - c) \div Stored - 1)}
    BY <1>9, <1>12 DEF Stored
  <1>14. c \in {l \in leads : \E m \in leads : m > l}
    BY <1>8
  <1> QED BY <1>13, <1>14, Zenon DEF Between

\* What a cycle remembers of a run are the leads it had when it was last filled; and
\* a run with two leads is remembered as it is (_interpolated_runs).
LEMMA FetchMemo ==
    ASSUME NEW t, NEW missing, Fetch(t, missing)
    PROVE  /\ \A run \in DOMAIN memo' :
                 \/ /\ run \in RunsToConsider(t) /\ Interpolating
                    /\ memo'[run] = NativeLeads(Leads(run, t, missing))
                    /\ \A x \in Between(Leads(run, t, missing)) :
                          Keeps(run + x, t) => <<run, x>> \in Loaded'
                 \/ run \in DOMAIN memo /\ memo'[run] = memo[run]
           /\ \A run \in RunsToConsider(t) :
                 /\ Interpolating /\ Cardinality(Leads(run, t, missing)) >= 2
                 /\ \E f \in Loaded' : f[1] = run
                 => run \in DOMAIN memo' /\ memo'[run] = NativeLeads(Leads(run, t, missing))
  <1> DEFINE runs == RunsToConsider(t)
             result == [run \in runs |-> Fetched(run, t, missing)]
             landed == Keyed([run \in runs |-> result[run].frames])
             leads == [run \in runs |-> LoadedLeads(run) \cup result[run].frames]
             touched == {run \in runs : ToInterpolate(run, leads[run])}
             made == Keyed([run \in touched |-> Between(leads[run])])
             kept == EvictOutsideWindow(Loaded \cup landed \cup made, t)
             live == {f[1] : f \in kept}
             seen == (DOMAIN memo) \cup touched
  <1>1. /\ frames' = (frames \cup landed) \cap kept
        /\ synthetic' = (synthetic \cup made) \cap kept
        /\ memo' = [run \in seen \cap live |->
                       IF run \in touched THEN NativeLeads(leads[run]) ELSE memo[run]]
    BY DEF Fetch
  <1>2. Loaded' = kept
    BY <1>1 DEF Loaded, EvictOutsideWindow
  <1>3. \A run \in runs : leads[run] = Leads(run, t, missing)
    BY DEF Leads
  <1>4. \A f : f \in made <=> /\ f[1] \in touched /\ f = <<f[1], f[2]>>
                              /\ f[2] \in Between(Leads(f[1], t, missing))
    <2> DEFINE leadsOf == [run \in touched |-> Between(leads[run])]
    <2>1. /\ DOMAIN leadsOf = touched
          /\ \A run \in DOMAIN leadsOf : leadsOf[run] = Between(Leads(run, t, missing))
      BY DEF Leads
    <2>2. made = Keyed(leadsOf)
      OBVIOUS
    <2> HIDE DEF leadsOf, touched, made
    <2> QED BY <2>1, <2>2, KeyedIs
  <1>5. \A run : run \in touched <=> run \in runs /\ ToInterpolate(run, Leads(run, t, missing))
    BY <1>3
  <1> HIDE DEF made
  <1>6. \A f : f \in kept <=> f \in Loaded \cup landed \cup made /\ Keeps(f[1] + f[2], t)
    BY DEF EvictOutsideWindow
  <1>7. /\ DOMAIN memo' = seen \cap live
        /\ \A run \in seen \cap live :
              memo'[run] = IF run \in touched THEN NativeLeads(leads[run]) ELSE memo[run]
    BY <1>1
  <1>8. \A run : run \in live <=> \E f \in Loaded' : f[1] = run
    BY <1>2
  <1> HIDE DEF kept, live, touched, leads
  <1>9. ASSUME NEW run \in DOMAIN memo', run \in touched
        PROVE  /\ run \in RunsToConsider(t) /\ Interpolating
               /\ memo'[run] = NativeLeads(Leads(run, t, missing))
               /\ \A x \in Between(Leads(run, t, missing)) :
                     Keeps(run + x, t) => <<run, x>> \in Loaded'
    <2>1. run \in runs /\ Interpolating
      BY <1>5, <1>9 DEF ToInterpolate
    <2>2. memo'[run] = NativeLeads(Leads(run, t, missing))
      BY <1>3, <1>7, <1>9, <2>1
    <2>3. ASSUME NEW x \in Between(Leads(run, t, missing)), Keeps(run + x, t)
          PROVE  <<run, x>> \in Loaded'
      <3>1. <<run, x>> \in made
        BY <1>4, <1>9
      <3> QED BY <1>2, <1>6, <2>3, <3>1
    <2> QED BY <2>1, <2>2, <2>3
  <1>10. ASSUME NEW run \in DOMAIN memo', run \notin touched
         PROVE  run \in DOMAIN memo /\ memo'[run] = memo[run]
    BY <1>7, <1>10
  <1>11. ASSUME NEW run \in runs, Interpolating,
                Cardinality(Leads(run, t, missing)) >= 2, \E f \in Loaded' : f[1] = run
         PROVE  run \in DOMAIN memo' /\ memo'[run] = NativeLeads(Leads(run, t, missing))
    <2>1. run \in live
      BY <1>8, <1>11
    <2>2. CASE run \in touched
      BY <1>3, <1>7, <2>1, <2>2
    <2>3. CASE run \notin touched
      <3>1. run \in DOMAIN memo /\ memo[run] = NativeLeads(Leads(run, t, missing))
        BY <1>5, <1>11, <2>3 DEF ToInterpolate
      <3> QED BY <1>7, <2>1, <2>3, <3>1
    <2> QED BY <2>2, <2>3
  <1> QED BY <1>9, <1>10, <1>11

\* What is remembered of a run is loaded while eviction keeps it, and between two of
\* its hours that are loaded every stored step is.
MemoTells(run) ==
    \A a \in memo[run] :
        /\ a \in Nat /\ run + a <= WindowEnd(now) + 12
        /\ Keeps(run + a, now) => a \in LoadedLeads(run)
        /\ a + 12 \in memo[run] /\ {a, a + 12} \subseteq LoadedLeads(run)
           => \A k \in 1 .. 5 : a + k * 2 \in LoadedLeads(run)

FreshInv ==
    \* Frames are of published runs, and of leads that can be sampled.
    /\ \A f \in Loaded : /\ OnCycle(f[1]) /\ f[1] <= LatestPublishedRun(now)
                         /\ Usable <= f[2]
    /\ kind \in Flowing => \A f \in Loaded : /\ f[2] % 2 = 0
                                             /\ f[1] + f[2] <= WindowEnd(now) + 12
    \* The memo of interpolation.
    /\ DOMAIN memo # {} => Interpolating
    /\ \A run \in DOMAIN memo : MemoTells(run)
    \* The freshest run answers for every time of the window.
    /\ last.clean /\ DelayFits /\ WindowFits => \A u \in Times : Freshest(u) \in RunsServing(u)

\* The leads of a run that a cycle has fetched.
LEMMA LeadsAre ==
    ASSUME IInv, Sound, FreshInv, NEW t \in Int, now <= t, NEW run \in Int, NEW missing,
           NEW l \in Leads(run, t, missing)
    PROVE  /\ l \in Nat /\ Usable <= l /\ l <= Grid.reach
           /\ kind \in Flowing => l % 2 = 0 /\ run + l <= WindowEnd(t) + 12
  <1>1. WindowEnd(now) <= WindowEnd(t) /\ WindowEnd(now) \in Int /\ WindowEnd(t) \in Int
    BY DEF WindowEnd, IInv
  <1>2. Grid.reach \in Nat /\ Usable \in Nat
    BY GridReach, GridCycles DEF IInv
  <1>3. CASE l \in LoadedLeads(run)
    <2>1. <<run, l>> \in Loaded /\ l \in 0 .. Grid.reach
      BY <1>3, KnownLeads
    <2>2. <<run, l>>[1] = run /\ <<run, l>>[2] = l
      OBVIOUS
    <2>3. Usable <= l /\ (kind \in Flowing => l % 2 = 0 /\ run + l <= WindowEnd(now) + 12)
      BY <2>1, <2>2 DEF FreshInv
    <2>4. l \in Nat /\ l <= Grid.reach
      BY <1>2, <2>1
    <2> QED BY <1>1, <2>3, <2>4
  <1>4. CASE l \in Fetched(run, t, missing).frames
    <2>1. l \in Int /\ Usable <= l
      BY <1>4, FrameLeads
    <2>2. l \in 0 .. Grid.reach
      BY <1>4, FetchedTypes
    <2>3. ASSUME kind \in Flowing PROVE l % 2 = 0 /\ run + l <= WindowEnd(t) + 12
      <3>1. PICK h \in Nat : l = h * 12
        BY <1>4, <2>3, FrameLeads
      <3>2. run + l <= WindowEnd(t) + 12
        BY <1>4, <2>3, FrameLeads
      <3>3. l % 2 = 0
        BY <3>1, SMT
      <3> QED BY <3>2, <3>3
    <2>4. l \in Nat /\ l <= Grid.reach
      BY <1>2, <2>2
    <2> QED BY <2>1, <2>3, <2>4
  <1> QED BY <1>3, <1>4 DEF Leads

\* A lead that was fetched or loaded, and that eviction keeps, is loaded after it.
LEMMA LeadStays ==
    ASSUME IInv, Sound, NEW t \in Int, NEW missing, Fetch(t, missing),
           NEW run \in RunsToConsider(t), NEW l \in Leads(run, t, missing), Keeps(run + l, t)
    PROVE  <<run, l>> \in Loaded'
  <1>1. CASE l \in LoadedLeads(run)
    <2>1. <<run, l>> \in Loaded
      BY <1>1, KnownLeads
    <2> QED BY <2>1, FetchKeeps
  <1>2. CASE l \in Fetched(run, t, missing).frames
    BY <1>2, FetchFacts
  <1> QED BY <1>1, <1>2 DEF Leads

\* The memo still tells after a cycle.
LEMMA FetchMemoTells ==
    ASSUME IInv, Sound, FreshInv, Sound', IInv', NEW missing, now' \in Int, now <= now',
           Fetch(now', missing), UNCHANGED settings, kind \in Flowing, NEW run \in DOMAIN memo'
    PROVE  MemoTells(run)'
  <1> DEFINE t == now'
             L == Leads(run, t, missing)
             Lower == WindowStart(t) - Before
             Upper == WindowEnd(t) + 12
  <1>1. run \in Int
    BY DEF Sound, TypeOK, IInv
  <1>2. \A l : l \in LoadedLeads(run)' <=> <<run, l>> \in Loaded'
    <2>1. \A f \in Loaded' : f = <<f[1], f[2]>>
      BY DEF Sound
    <2> QED BY <2>1 DEF LoadedLeads
  <1>3. /\ \A a : Keeps(run + a, now)' <=> Keeps(run + a, t)
        /\ WindowEnd(now)' = WindowEnd(t)
    BY DEF settings, Keeps, HRRRKeeps, AlaskaKeeps, HRDPSKeeps, ICONKeeps, DMIKeeps, WRFKeeps,
           JMAKeeps, AROMEKeeps, WithinSlack, WindowStart, WindowEnd
  <1>4. t \in Int /\ now \in Int /\ now <= t /\ history \in Nat /\ horizon \in Nat
    BY DEF IInv
  <1>5. Fetch(t, missing)
    OBVIOUS
  <1> HIDE DEF t
  <1>6. /\ Lower \in Int /\ Upper \in Int
        /\ WindowStart(now) - Before <= Lower /\ WindowEnd(now) + 12 <= Upper
        /\ WindowStart(now) - Before \in Int /\ WindowEnd(now) + 12 \in Int
    BY <1>4 DEF WindowStart, WindowEnd, Before
  <1>7. \A v \in Int : /\ Keeps(v, t) <=> Lower <= v /\ v <= Upper
                       /\ Keeps(v, now) <=> WindowStart(now) - Before <= v /\ v <= WindowEnd(now) + 12
    BY <1>4, FlowingKeeps
  <1>8. /\ \A l \in L : l \in Nat /\ l % 2 = 0 /\ run + l <= Upper
        /\ L \in SUBSET Nat
    BY <1>1, <1>4, LeadsAre
  <1>9. \A l : l \in LoadedLeads(run) <=> <<run, l>> \in Loaded
    BY KnownLeads
  <1>10. \A l \in LoadedLeads(run) : Keeps(run + l, t) => l \in LoadedLeads(run)'
    <2> SUFFICES ASSUME NEW l \in LoadedLeads(run), Keeps(run + l, t) PROVE l \in LoadedLeads(run)'
      OBVIOUS
    <2>1. <<run, l>> \in Loaded'
      BY <1>5, <1>9, FetchKeeps
    <2> QED BY <1>2, <2>1
  <1>11. \A l \in LoadedLeads(run)' : Keeps(run + l, t)
    <2> SUFFICES ASSUME NEW l \in LoadedLeads(run)' PROVE Keeps(run + l, t)
      OBVIOUS
    <2>1. <<run, l>> \in Loaded'
      BY <1>2
    <2>2. Keeps(<<run, l>>[1] + <<run, l>>[2], t)
      BY <1>5, <2>1, FetchFacts
    <2> QED BY <2>2
  <1> HIDE DEF L, Lower, Upper
  <1>12. CASE /\ run \in RunsToConsider(t) /\ memo'[run] = NativeLeads(L)
              /\ \A x \in Between(L) : Keeps(run + x, t) => <<run, x>> \in Loaded'
    <2>1. \A a \in memo'[run] : a \in L
      BY <1>12 DEF NativeLeads
    <2>2. \A l \in L : Keeps(run + l, t) => l \in LoadedLeads(run)'
      BY <1>2, <1>4, <1>5, <1>12, LeadStays DEF L
    <2>3. ASSUME NEW a \in L, a + 12 \in L, {a, a + 12} \subseteq LoadedLeads(run)',
                 NEW k \in 1 .. 5
          PROVE  a + k * 2 \in LoadedLeads(run)'
      <3> DEFINE x == a + k * 2
      <3>1. a \in Nat /\ a % 2 = 0
        BY <1>8
      <3>2. x \in Nat /\ a < x /\ x < a + 12
        BY <3>1
      <3>3. x % 2 = 0
        BY <3>1, SMT
      <3>4. Keeps(run + a, t) /\ run + (a + 12) <= Upper /\ run + a \in Int
        BY <1>1, <1>8, <1>11, <2>3, <3>1
      <3>5. Lower <= run + a
        BY <1>7, <3>4
      <3> HIDE DEF x
      <3>6. run + x \in Int /\ Lower <= run + x /\ run + x <= Upper
        BY <1>1, <1>6, <3>1, <3>2, <3>4, <3>5
      <3>7. Keeps(run + x, t)
        BY <1>7, <3>6
      <3>8. x \in L \cup Between(L)
        BY <1>8, <2>3, <3>1, <3>2, <3>3, BetweenFills
      <3>9. x \in LoadedLeads(run)'
        BY <1>2, <1>12, <2>2, <3>7, <3>8
      <3> QED BY <3>9 DEF x
    <2>4. ASSUME NEW a \in memo'[run]
          PROVE  /\ a \in Nat /\ run + a <= Upper
                 /\ Keeps(run + a, t) => a \in LoadedLeads(run)'
                 /\ a + 12 \in memo'[run] /\ {a, a + 12} \subseteq LoadedLeads(run)'
                    => \A k \in 1 .. 5 : a + k * 2 \in LoadedLeads(run)'
      BY <1>8, <2>1, <2>2, <2>3
    <2> QED BY <1>3, <2>4 DEF MemoTells, Upper
  <1>13. CASE run \in DOMAIN memo /\ memo'[run] = memo[run]
    <2>1. MemoTells(run)
      BY <1>13 DEF FreshInv
    <2>2. ASSUME NEW a \in memo[run], Keeps(run + a, t) PROVE a \in LoadedLeads(run)
      <3>1. a \in Nat /\ run + a <= WindowEnd(now) + 12 /\ run + a \in Int
        BY <1>1, <2>1 DEF MemoTells
      <3>2. Lower <= run + a
        BY <1>7, <2>2, <3>1
      <3>3. Keeps(run + a, now)
        BY <1>6, <1>7, <3>1, <3>2
      <3> QED BY <2>1, <3>3 DEF MemoTells
    <2>3. ASSUME NEW a \in memo[run], a + 12 \in memo[run],
                 {a, a + 12} \subseteq LoadedLeads(run)', NEW k \in 1 .. 5
          PROVE  a + k * 2 \in LoadedLeads(run)'
      <3> DEFINE x == a + k * 2
      <3>1. Keeps(run + a, t) /\ Keeps(run + (a + 12), t) /\ a \in Nat
        BY <1>11, <2>1, <2>3 DEF MemoTells
      <3>2. {a, a + 12} \subseteq LoadedLeads(run)
        BY <2>2, <2>3, <3>1
      <3>3. x \in LoadedLeads(run)
        BY <2>1, <2>3, <3>2 DEF MemoTells
      <3>4. run + a \in Int /\ run + (a + 12) \in Int
        BY <1>1, <3>1
      <3>5. Lower <= run + a /\ run + (a + 12) <= Upper
        BY <1>7, <3>1, <3>4
      <3>6. run + x \in Int /\ Lower <= run + x /\ run + x <= Upper
        BY <1>1, <1>6, <3>1, <3>5
      <3> HIDE DEF x
      <3>7. Keeps(run + x, t)
        BY <1>7, <3>6
      <3>8. x \in LoadedLeads(run)'
        BY <1>10, <3>3, <3>7
      <3> QED BY <3>8 DEF x
    <2>4. ASSUME NEW a \in memo'[run]
          PROVE  /\ a \in Nat /\ run + a <= Upper
                 /\ Keeps(run + a, t) => a \in LoadedLeads(run)'
                 /\ a + 12 \in memo'[run] /\ {a, a + 12} \subseteq LoadedLeads(run)'
                    => \A k \in 1 .. 5 : a + k * 2 \in LoadedLeads(run)'
      <3>1. a \in memo[run]
        BY <1>13
      <3>2. a \in Nat /\ run + a <= WindowEnd(now) + 12
        BY <2>1, <3>1 DEF MemoTells
      <3>3. run + a <= Upper
        BY <1>1, <1>6, <3>2
      <3>4. Keeps(run + a, t) => a \in LoadedLeads(run)'
        BY <1>10, <2>2, <3>1
      <3> QED BY <1>13, <2>3, <3>1, <3>2, <3>3, <3>4
    <2> QED BY <1>3, <2>4 DEF MemoTells, Upper
  <1> QED BY <1>5, <1>12, <1>13, FetchMemo DEF L

\* Two leads of a set of leads are two.
LEMMA TwoLeads ==
    ASSUME NEW n \in Nat, NEW leads \in SUBSET (0 .. n), NEW a \in leads, NEW b \in leads, a # b
    PROVE  Cardinality(leads) >= 2
  <1>1. IsFiniteSet(0 .. n)
    BY FS_Interval
  <1>2. IsFiniteSet(leads)
    BY <1>1, FS_Subset
  <1>3. Cardinality({a, b}) = 2
    <2>1. IsFiniteSet({b}) /\ Cardinality({b}) = 1
      BY FS_Singleton
    <2>2. Cardinality({b} \cup {a}) = Cardinality({b}) + 1
      BY <2>1, FS_AddElement
    <2>3. {b} \cup {a} = {a, b}
      OBVIOUS
    <2> QED BY <2>1, <2>2, <2>3
  <1>4. Cardinality({a, b}) <= Cardinality(leads)
    BY <1>2, FS_Subset
  <1>5. Cardinality(leads) \in Nat
    BY <1>2, FS_CardinalityType
  <1> QED BY <1>3, <1>4, <1>5

\* After a cycle that missed nothing, the freshest run answers for every time of the
\* window.
LEMMA FetchFreshest ==
    ASSUME IInv, Sound, FreshInv, Sound', IInv', now' \in Int, now <= now',
           Fetch(now', {}), UNCHANGED settings, DelayFits, WindowFits,
           Interpolating => \A r \in DOMAIN memo' : MemoTells(r)',
           NEW u \in Int, u % 2 = 0, WindowStart(now') <= u, u <= WindowEnd(now')
    PROVE  FreshestAt(u, now') \in RunsServing(u)'
  <1> PICK run : run = FreshestAt(u, now')
    OBVIOUS
  <1> DEFINE t == now'
             d == u - run
             L == Leads(run, t, {})
             i == BracketInterval
             low == Floor(d, i)
  <1>1. /\ kind \in GridNames /\ flow \in BOOLEAN /\ history \in Nat /\ horizon \in Nat
        /\ t \in Int /\ now <= t /\ Fetch(t, {}) /\ WindowStart(t) <= u /\ u <= WindowEnd(t)
    BY DEF IInv
  <1>2. /\ Grid' = Grid /\ \A x : Bracket(x)' = Bracket(x)
    BY DEF settings, Grid, HRRR, HRRRAlaska, HRDPS, ICONEU, DMIDINI, WRFSMN, JMAMSM,
           AROME, Bracket, BracketInterval, Interpolating
  <1>3. \A l : l \in LoadedLeads(run)' <=> <<run, l>> \in Loaded'
    <2>1. \A f \in Loaded' : f = <<f[1], f[2]>>
      BY DEF Sound
    <2> QED BY <2>1 DEF LoadedLeads
  <1>0. run = FreshestAt(u, t)
    OBVIOUS
  <1> HIDE DEF t
  <1>4. /\ run \in Int /\ run \in RunsToConsider(t) /\ Usable <= d /\ d < Grid.reach
        /\ OnCycle(run)
    BY <1>0, <1>1, FreshestConsidered
  <1>5. /\ Grid.first \in Int /\ Grid.first <= d /\ d \in Nat /\ Grid.reach \in Nat
        /\ Usable = (CASE kind \in {"hrrr_alaska", "jma_msm"} -> 0
                       [] kind = "hrrr" -> 3 [] OTHER -> 12)
    <2>1. /\ Grid.first \in 0 .. Usable
          /\ Usable = (CASE kind \in {"hrrr_alaska", "jma_msm"} -> 0
                         [] kind = "hrrr" -> 3 [] OTHER -> 12)
      BY <1>1, GridCycles
    <2>2. d \in Int /\ Usable \in Nat
      BY <1>4, <2>1
    <2> HIDE DEF d
    <2> QED BY <1>1, <1>4, <2>1, <2>2, GridReach
  <1>6. i = (IF kind = "hrrr" THEN 3 ELSE IF Interpolating THEN 2 ELSE 12)
    BY <1>1, GridTypes DEF BracketInterval, Interpolating, Flowing, Stored
  <1>7. Bracket(d) = {low, low + i}
    <2> HIDE DEF d
    <2>1. ~(kind = "hrrr" /\ d < Quarter)
      BY <1>4, <1>5 DEF Quarter
    <2> QED BY <2>1 DEF Bracket
  <1>8. /\ kind = "hrrr" => \A x \in {0, 3} : Floor(d, 3) + x \in LeadsWanted(run, t)
        /\ kind # "hrrr" => \A x \in {0, 12} : Floor(d, 12) + x \in LeadsWanted(run, t)
        /\ kind = "wrf_smn" => Floor(d, 12) - 12 \in LeadsWanted(run, t)
    <2> QED BY <1>1, <1>4, BracketWanted
  <1>9. \A lead \in Bracket(d) : Keeps(run + lead, t)
    <2> QED BY <1>1, <1>4, <1>5, BracketKept
  <1> HIDE DEF d, low, L
  <1>10. ASSUME NEW step \in {3, 12}, step = (IF kind = "hrrr" THEN 3 ELSE 12), NEW x \in {0, step}
         PROVE  Floor(d, step) + x \in L
    <2>1. Floor(d, step) \in Int /\ Floor(d, step) <= d /\ d < Floor(d, step) + step
      BY <1>5, FloorBounds
    <2>2. Usable <= Floor(d, step)
      <3>1. CASE step = 3
        <4>1. Floor(d, 3) = (d \div 3) * 3 /\ d \div 3 \in Int
          BY <1>5, SMT DEF Floor
        <4> QED BY <1>4, <1>5, <1>10, <2>1, <3>1, <4>1
      <3>2. CASE step = 12
        <4>1. Floor(d, 12) = (d \div 12) * 12 /\ d \div 12 \in Int
          BY <1>5, SMT DEF Floor
        <4> QED BY <1>4, <1>5, <1>10, <2>1, <3>2, <4>1
      <3> QED BY <3>1, <3>2
    <2>3. Usable <= Floor(d, step) + x
      BY <1>5, <2>1, <2>2
    <2>4. Floor(d, step) + x \in LeadsWanted(run, t)
      BY <1>8, <1>10
    <2>5. kind = "wrf_smn" => (Floor(d, step) + x) - 12 \in LeadsWanted(run, t)
      <3> SUFFICES ASSUME kind = "wrf_smn" PROVE (Floor(d, step) + x) - 12 \in LeadsWanted(run, t)
        OBVIOUS
      <3>1. step = 12
        BY <1>10
      <3>2. CASE x = 0
        <4>1. (Floor(d, step) + x) - 12 = Floor(d, 12) - 12
          BY <2>1, <3>1, <3>2
        <4> QED BY <1>8, <4>1
      <3>3. CASE x = 12
        <4>1. (Floor(d, step) + x) - 12 = Floor(d, 12) + 0
          BY <2>1, <3>1, <3>3
        <4> QED BY <1>8, <4>1
      <3> QED BY <3>1, <3>2, <3>3
    <2>6. PICK l : l = Floor(d, step) + x
      OBVIOUS
    <2>7. /\ l \in LeadsWanted(run, t) /\ Usable <= l
          /\ kind = "wrf_smn" => l - 12 \in LeadsWanted(run, t)
      BY <2>3, <2>4, <2>5, <2>6
    <2>8. l \in Leads(run, t, {})
      BY <1>1, <1>4, <2>7, WantedLands
    <2> QED BY <2>6, <2>8 DEF L
  <1>11. \A l \in L : Keeps(run + l, t) => <<run, l>> \in Loaded'
    BY <1>1, <1>4, LeadStays DEF L
  <1>12. \A lead \in Bracket(d) : <<run, lead>> \in Loaded'
    <2>1. CASE ~Interpolating
      <3>1. i \in {3, 12} /\ i = (IF kind = "hrrr" THEN 3 ELSE 12)
        BY <1>6, <2>1
      <3>2. low + 0 \in L /\ low + i \in L
        BY <1>10, <3>1 DEF low
      <3>3. low + 0 = low
        BY <1>5, <3>1, FloorBounds DEF low
      <3> QED BY <1>7, <1>9, <1>11, <3>2, <3>3
    <2>2. CASE Interpolating
      <3> DEFINE a == Floor(d, 12)
      <3>1. kind \in Flowing /\ kind # "hrrr" /\ i = 2
        BY <1>6, <2>2 DEF Interpolating, Flowing
      <3>2. a \in Int /\ a <= d /\ d < a + 12
        BY <1>5, FloorBounds
      <3>3. a \in L /\ a + 12 \in L
        <4>1. a + 0 \in L /\ a + 12 \in L
          BY <1>10, <3>1
        <4> HIDE DEF a
        <4> QED BY <3>2, <4>1
      <3>4. PICK h \in Int : a = h * 12
        <4>1. a = (d \div 12) * 12 /\ d \div 12 \in Int
          BY <1>5, SMT DEF Floor
        <4> QED BY <4>1
      <3> HIDE DEF a
      <3>5. Keeps(run + a, t) /\ Keeps(run + (a + 12), t)
        <4>1. WindowStart(t) \in Int /\ WindowEnd(t) \in Int
          BY <1>1 DEF WindowStart, WindowEnd
        <4>2. d = u - run
          BY DEF d
        <4>3. /\ WindowStart(t) - Before <= run + a /\ run + (a + 12) <= WindowEnd(t) + 12
              /\ WindowStart(t) - Before <= run + (a + 12) /\ run + a <= WindowEnd(t) + 12
              /\ run + a \in Int /\ run + (a + 12) \in Int
          BY <1>1, <1>4, <3>2, <4>1, <4>2 DEF Before
        <4> QED BY <1>1, <3>1, <4>3, FlowingKeeps
      <3>6. a \in LoadedLeads(run)' /\ a + 12 \in LoadedLeads(run)'
        BY <1>3, <1>11, <3>3, <3>5
      <3>7. Cardinality(L) >= 2
        <4>1. \A l \in L : l \in Nat /\ l <= Grid.reach
          BY <1>1, <1>4, LeadsAre DEF L
        <4>2. L \in SUBSET (0 .. Grid.reach)
          BY <1>5, <4>1
        <4>3. a # a + 12
          BY <3>2
        <4> QED BY <1>5, <3>3, <4>2, <4>3, TwoLeads
      <3>8. run \in DOMAIN memo' /\ memo'[run] = NativeLeads(L)
        <4>1. \E f \in Loaded' : f[1] = run
          <5>1. <<run, a>> \in Loaded' /\ <<run, a>>[1] = run
            BY <1>3, <3>6
          <5> QED BY <5>1
        <4> QED BY <1>1, <1>4, <2>2, <3>7, <4>1, FetchMemo DEF L
      <3>9. a % Hour = 0 /\ (a + 12) % Hour = 0
        BY <3>4, SMT DEF Hour
      <3>10. a \in memo'[run] /\ a + 12 \in memo'[run]
        BY <3>3, <3>8, <3>9 DEF NativeLeads
      <3>11. MemoTells(run)'
        BY <2>2, <3>8
      <3>12. \A k \in 1 .. 5 : a + k * 2 \in LoadedLeads(run)'
        BY <3>6, <3>10, <3>11 DEF MemoTells
      <3>13. \A k \in 0 .. 6 : a + k * 2 \in LoadedLeads(run)'
        <4> SUFFICES ASSUME NEW k \in 0 .. 6 PROVE a + k * 2 \in LoadedLeads(run)'
          OBVIOUS
        <4>1. CASE k = 0
          <5>1. a + k * 2 = a BY <3>2, <4>1
          <5> QED BY <3>6, <5>1
        <4>2. CASE k = 6
          <5>1. a + k * 2 = a + 12 BY <3>2, <4>2
          <5> QED BY <3>6, <5>1
        <4>3. CASE k \in 1 .. 5
          BY <3>12, <4>3
        <4> QED BY <4>1, <4>2, <4>3
      <3>14. PICK k \in 0 .. 5 : d = a + k * 2
        <4>1. PICK m \in Int : run = m * 2
          <5>1. PICK m \in Int : run = m * Grid.cycle
            BY <1>4 DEF OnCycle
          <5>2. Grid.cycle \in {12, 36, 72}
            BY <1>1, GridCycles
          <5>3. CASE Grid.cycle = 12
            <6>1. m * 6 \in Int /\ run = (m * 6) * 2 BY <5>1, <5>3
            <6> QED BY <6>1
          <5>4. CASE Grid.cycle = 36
            <6>1. m * 18 \in Int /\ run = (m * 18) * 2 BY <5>1, <5>4
            <6> QED BY <6>1
          <5>5. CASE Grid.cycle = 72
            <6>1. m * 36 \in Int /\ run = (m * 36) * 2 BY <5>1, <5>5
            <6> QED BY <6>1
          <5> QED BY <5>2, <5>3, <5>4, <5>5
        <4>2. u = (u \div 2) * 2 /\ u \div 2 \in Int
          BY SMT
        <4>3. PICK n \in Int : u = n * 2
          BY <4>2
        <4>4. d = u - run
          BY DEF d
        <4>5. n - m - h * 6 \in 0 .. 5 /\ d = a + (n - m - h * 6) * 2
          BY <3>2, <3>4, <4>1, <4>3, <4>4
        <4> QED BY <4>5
      <3>15. low = d
        <4>1. low = Floor(a + k * 2, 2)
          BY <3>1, <3>14 DEF low
        <4>2. a + k * 2 = (h * 6 + k) * 2 /\ h * 6 + k \in Int
          BY <3>4
        <4>3. low = Floor((h * 6 + k) * 2, 2)
          BY <4>1, <4>2
        <4>4. \A n \in Int : Floor(n * 2, 2) = n * 2
          BY SMT DEF Floor
        <4> QED BY <3>14, <4>2, <4>3, <4>4
      <3>16. low \in LoadedLeads(run)' /\ low + i \in LoadedLeads(run)'
        <4>1. low + i = a + (k + 1) * 2 /\ k + 1 \in 0 .. 6 /\ k \in 0 .. 6
          BY <3>1, <3>2, <3>14, <3>15
        <4> QED BY <3>13, <3>14, <3>15, <4>1
      <3> QED BY <1>3, <1>7, <3>16
    <2> QED BY <2>1, <2>2
  <1>13. run \in {f[1] : f \in Loaded'}
    <2>1. low \in Bracket(d) /\ <<run, low>>[1] = run
      BY <1>7
    <2> QED BY <1>12, <2>1
  <1>14. /\ u - run = d /\ Grid.first <= d /\ d <= Grid.reach
    BY <1>4, <1>5 DEF d
  <1>15. Key(run, Bracket(d)) \subseteq Loaded'
    BY <1>12 DEF Key
  <1>16. run \in RunsServing(u)'
    <2>1. RunsServing(u)' = {r \in {f[1] : f \in Loaded'} :
                               /\ Grid.first <= u - r /\ u - r <= Grid.reach
                               /\ Key(r, Bracket(u - r)) \subseteq Loaded'}
      BY <1>2 DEF RunsServing, Key
    <2> QED BY <1>13, <1>14, <1>15, <2>1
  <1> QED BY <1>16 DEF t

\* Between whole hours and stored steps interpolation puts stored steps.
LEMMA BetweenEven ==
    ASSUME NEW leads \in SUBSET Nat, \A l \in leads : l % 2 = 0, NEW x \in Between(leads)
    PROVE  x % 2 = 0
  <1>1. PICK a \in leads : /\ \E m \in leads : m > a
                           /\ \E k \in 1 .. ((Following(a, leads) - a) \div Stored - 1) :
                                 x = a + k * Stored
    BY DEF Between
  <1>2. PICK k \in 1 .. ((Following(a, leads) - a) \div Stored - 1) : x = a + k * Stored
    BY <1>1
  <1>3. PICK b \in leads : b = Following(a, leads)
    BY <1>1, FollowingIs
  <1>4. a \in Nat /\ b \in Nat /\ a % 2 = 0
    BY <1>1, <1>3
  <1>5. (b - a) \div 2 \in Int
    BY <1>4, SMT
  <1>6. k \in Int
    BY <1>2, <1>3, <1>5 DEF Stored
  <1>7. PICK q \in Int : a = q * 2
    <2>1. a = (a \div 2) * 2 /\ a \div 2 \in Int
      BY <1>4, SMT
    <2> QED BY <2>1
  <1>8. x = (q + k) * 2
    BY <1>2, <1>6, <1>7 DEF Stored
  <1> QED BY <1>6, <1>7, <1>8, SMT

\* The latest published run never goes back.
LEMMA LatestGrows ==
    ASSUME kind \in GridNames, NEW s \in Int, NEW t \in Int, s <= t
    PROVE  LatestPublishedRun(s) <= LatestPublishedRun(t)
  <1> DEFINE c == Grid.cycle
             x == s - Grid.delay
             y == t - Grid.delay
  <1>1. c \in {12, 36, 72} /\ Grid.delay \in Int
    BY GridCycles
  <1>2. x \in Int /\ y \in Int /\ x <= y
    BY <1>1
  <1>3. LatestPublishedRun(s) = Floor(x, c) /\ LatestPublishedRun(t) = Floor(y, c)
    BY DEF LatestPublishedRun
  <1>4. c \in {12, 36, 72}
    BY <1>1
  <1>5. x \in Int
    BY <1>2
  <1>6. y \in Int
    BY <1>2
  <1> HIDE DEF c, x, y
  <1>7. Floor(x, c) \in Int /\ Floor(x, c) <= x
    BY <1>4, <1>5, CycleFloor
  <1>8. \E m \in Int : Floor(x, c) = m * c
    BY <1>5, FloorOnCycle DEF OnCycle, c
  <1>9. PICK m \in Int : Floor(x, c) = m * c
    BY <1>8
  <1>10. \A n \in Int : n * c <= y => n * c <= Floor(y, c)
    BY <1>4, <1>6, CycleFloor
  <1>11. m * c <= y
    BY <1>2, <1>7, <1>9
  <1> QED BY <1>3, <1>9, <1>10, <1>11

\* The frames after a cycle are of published runs, and can be sampled.
LEMMA FetchFramesFresh ==
    ASSUME IInv, Sound, FreshInv, NEW t \in Int, now <= t, NEW missing, Fetch(t, missing),
           NEW f \in Loaded'
    PROVE  /\ OnCycle(f[1]) /\ f[1] <= LatestPublishedRun(t) /\ Usable <= f[2]
           /\ kind \in Flowing => f[2] % 2 = 0 /\ f[1] + f[2] <= WindowEnd(t) + 12
  <1>1. WindowEnd(now) <= WindowEnd(t) /\ WindowEnd(now) \in Int /\ WindowEnd(t) \in Int
    BY DEF WindowEnd, IInv
  <1>2. LatestPublishedRun(now) <= LatestPublishedRun(t)
    BY LatestGrows DEF IInv
  <1>3. LatestPublishedRun(now) \in Int /\ LatestPublishedRun(t) \in Int
    BY LatestOnCycle DEF IInv
  <1>4. CASE f \in Loaded
    <2>1. /\ OnCycle(f[1]) /\ f[1] <= LatestPublishedRun(now) /\ Usable <= f[2]
          /\ kind \in Flowing => f[2] % 2 = 0 /\ f[1] + f[2] <= WindowEnd(now) + 12
      BY <1>4 DEF FreshInv
    <2>2. f[1] \in Int /\ f[2] \in Int
      BY <1>4, GridReach DEF Sound, TypeOK, IInv
    <2> QED BY <1>1, <1>2, <1>3, <2>1, <2>2
  <1>5. CASE f \notin Loaded
    <2> DEFINE L == Leads(f[1], t, missing)
    <2>1. f[1] \in RunsToConsider(t) /\ (f[2] \in L \/ f[2] \in Between(L))
      BY <1>5, FetchFacts DEF Loaded, Leads
    <2>2. f[1] \in Int /\ OnCycle(f[1]) /\ f[1] <= LatestPublishedRun(t)
      <3>1. f[1] \in RunsFrom(Earliest(t), t) /\ Earliest(t) \in Int /\ OnCycle(Earliest(t))
        BY <2>1, EarliestOnCycle DEF IInv
      <3>2. f[1] \in Int
        BY <2>1, RunsInt DEF IInv
      <3> QED BY <3>1, <3>2, RunsFromOnly DEF IInv
    <2>3. /\ \A l \in L : /\ l \in Nat /\ Usable <= l
                          /\ kind \in Flowing => l % 2 = 0 /\ f[1] + l <= WindowEnd(t) + 12
          /\ L \in SUBSET Nat
      BY <2>2, LeadsAre
    <2>4. Usable \in Nat
      BY GridCycles DEF IInv
    <2>5. CASE f[2] \in L
      BY <2>2, <2>3, <2>5
    <2>6. CASE f[2] \in Between(L)
      <3> HIDE DEF L
      <3>1. PICK a \in L, b \in L : f[2] \in Nat /\ a < f[2] /\ f[2] < b
        BY <2>3, <2>6, BetweenIs
      <3>2. Usable <= f[2]
        BY <2>3, <2>4, <3>1
      <3>3. kind \in Flowing => f[1] + f[2] <= WindowEnd(t) + 12
        BY <1>1, <2>2, <2>3, <3>1
      <3>4. kind \in Flowing => f[2] % 2 = 0
        BY <2>3, <2>6, BetweenEven
      <3> QED BY <2>2, <3>2, <3>3, <3>4
    <2> QED BY <2>1, <2>5, <2>6
  <1> QED BY <1>4, <1>5

LEMMA FetchFreshInv ==
    ASSUME IInv, Sound, FreshInv, Sound', IInv', NEW missing, now' \in Int, now <= now',
           Fetch(now', missing), UNCHANGED settings
    PROVE  FreshInv'
  <1>1. /\ Grid' = Grid /\ kind' = kind /\ Usable' = Usable /\ (Interpolating' <=> Interpolating)
        /\ (DelayFits' <=> DelayFits) /\ (WindowFits' <=> WindowFits)
        /\ WindowEnd(now)' = WindowEnd(now') /\ WindowStart(now)' = WindowStart(now')
        /\ LatestPublishedRun(now)' = LatestPublishedRun(now')
    BY DEF settings, Grid, HRRR, HRRRAlaska, HRDPS, ICONEU, DMIDINI, WRFSMN, JMAMSM, AROME,
           Usable, Interpolating, DelayFits, WindowFits, WindowEnd, WindowStart,
           LatestPublishedRun
  <1>2. ASSUME NEW f \in Loaded'
        PROVE  /\ OnCycle(f[1])' /\ f[1] <= LatestPublishedRun(now)' /\ Usable' <= f[2]
               /\ kind' \in Flowing => f[2] % 2 = 0 /\ f[1] + f[2] <= WindowEnd(now)' + 12
    BY <1>1, <1>2, FetchFramesFresh DEF OnCycle
  <1>3. DOMAIN memo' # {} => Interpolating'
    <2> SUFFICES ASSUME NEW run \in DOMAIN memo' PROVE Interpolating'
      OBVIOUS
    <2>1. Interpolating \/ run \in DOMAIN memo
      BY FetchMemo
    <2> QED BY <1>1, <2>1 DEF FreshInv
  <1>4. ASSUME NEW run \in DOMAIN memo' PROVE MemoTells(run)'
    <2>1. Interpolating
      BY <1>1, <1>3
    <2>2. kind \in Flowing
      BY <2>1 DEF Interpolating
    <2> QED BY <2>2, FetchMemoTells
  <1>5. ASSUME last'.clean, DelayFits', WindowFits', NEW u \in Times'
        PROVE  Freshest(u)' \in RunsServing(u)'
    <2>1. missing = {}
      BY <1>5, FetchFacts
    <2>2. WindowStart(now') \in Int /\ WindowEnd(now') \in Int
      BY DEF WindowStart, WindowEnd, IInv
    <2>3. u \in Int /\ u % 2 = 0 /\ WindowStart(now') <= u /\ u <= WindowEnd(now')
      BY <1>1, <2>2 DEF Times
    <2>4. FreshestAt(u, now') \in RunsServing(u)'
      BY <1>1, <1>4, <1>5, <2>1, <2>3, FetchFreshest
    <2>5. Freshest(u)' = FreshestAt(u, now')
      BY <1>1 DEF Freshest, FreshestAt
    <2> QED BY <2>4, <2>5
  <1> QED BY <1>2, <1>3, <1>4, <1>5 DEF FreshInv

\* A cycle with no run to consider is not one of a grid whose delay fits, and loses
\* nothing the invariant is about.
LEMMA IdleFreshInv ==
    ASSUME IInv, Sound, FreshInv, now' \in Int, now <= now', UNCHANGED settings,
           UNCHANGED <<frames, synthetic>>, memo' = memo \/ DOMAIN memo' = {},
           \/ now' = now /\ last'.clean = last.clean
           \/ RunsToConsider(now') = {}
    PROVE  FreshInv'
  <1> DEFINE t == now'
  <1>1. /\ Grid' = Grid /\ kind' = kind /\ Usable' = Usable /\ (Interpolating' <=> Interpolating)
        /\ (DelayFits' <=> DelayFits) /\ (WindowFits' <=> WindowFits)
        /\ WindowEnd(now)' = WindowEnd(t) /\ WindowStart(now)' = WindowStart(t)
        /\ LatestPublishedRun(now)' = LatestPublishedRun(t)
        /\ history' = history /\ horizon' = horizon
    BY DEF settings, Grid, HRRR, HRRRAlaska, HRDPS, ICONEU, DMIDINI, WRFSMN, JMAMSM, AROME,
           Usable, Interpolating, DelayFits, WindowFits, WindowEnd, WindowStart,
           LatestPublishedRun
  <1>2. Loaded' = Loaded /\ \A run : LoadedLeads(run)' = LoadedLeads(run)
    BY DEF Loaded, LoadedLeads
  <1>3. t \in Int /\ now \in Int /\ now <= t /\ history \in Nat /\ horizon \in Nat
        /\ kind \in GridNames
    BY DEF IInv
  <1>4. /\ WindowEnd(now) <= WindowEnd(t) /\ WindowEnd(now) \in Int /\ WindowEnd(t) \in Int
        /\ WindowStart(now) <= WindowStart(t) /\ WindowStart(now) \in Int /\ WindowStart(t) \in Int
    <2> HIDE DEF t
    <2> QED BY <1>3 DEF WindowStart, WindowEnd
  <1>5. LatestPublishedRun(now) <= LatestPublishedRun(t) /\ LatestPublishedRun(now) \in Int
        /\ LatestPublishedRun(t) \in Int
    <2> HIDE DEF t
    <2> QED BY <1>3, LatestGrows, LatestOnCycle
  <1>6. \A a : Keeps(a, now)' <=> Keeps(a, t)
    BY <1>1 DEF settings, Keeps, HRRRKeeps, AlaskaKeeps, HRDPSKeeps, ICONKeeps, DMIKeeps,
           WRFKeeps, JMAKeeps, AROMEKeeps, WithinSlack, WindowStart, WindowEnd
  <1>7. ASSUME NEW f \in Loaded'
        PROVE  /\ OnCycle(f[1])' /\ f[1] <= LatestPublishedRun(now)' /\ Usable' <= f[2]
               /\ kind' \in Flowing => f[2] % 2 = 0 /\ f[1] + f[2] <= WindowEnd(now)' + 12
    <2>1. f \in Loaded
      BY <1>2
    <2>2. f[1] \in Int /\ f[2] \in Int
      BY <2>1, GridReach DEF Sound, TypeOK, IInv
    <2>3. /\ OnCycle(f[1]) /\ f[1] <= LatestPublishedRun(now) /\ Usable <= f[2]
          /\ kind \in Flowing => f[2] % 2 = 0 /\ f[1] + f[2] <= WindowEnd(now) + 12
      BY <2>1 DEF FreshInv
    <2> HIDE DEF t
    <2>4. f[1] <= LatestPublishedRun(t) /\ (kind \in Flowing => f[1] + f[2] <= WindowEnd(t) + 12)
      BY <1>4, <1>5, <2>2, <2>3
    <2> QED BY <1>1, <2>3, <2>4 DEF OnCycle
  <1>8. DOMAIN memo' # {} => Interpolating'
    BY <1>1 DEF FreshInv
  <1>9. ASSUME NEW run \in DOMAIN memo' PROVE MemoTells(run)'
    <2>1. memo' = memo /\ run \in DOMAIN memo
      BY <1>9
    <2>2. MemoTells(run) /\ Interpolating
      BY <2>1 DEF FreshInv
    <2>3. kind \in Flowing
      BY <2>2 DEF Interpolating
    <2>4. run \in Int
      BY <2>1 DEF Sound, TypeOK, IInv
    <2> HIDE DEF t
    <2>5. ASSUME NEW a \in memo[run]
          PROVE  /\ a \in Nat /\ run + a <= WindowEnd(t) + 12
                 /\ Keeps(run + a, t) => a \in LoadedLeads(run)
                 /\ a + 12 \in memo[run] /\ {a, a + 12} \subseteq LoadedLeads(run)
                    => \A k \in 1 .. 5 : a + k * 2 \in LoadedLeads(run)
      <3>1. a \in Nat /\ run + a <= WindowEnd(now) + 12 /\ run + a \in Int
        BY <2>2, <2>4 DEF MemoTells
      <3>2. run + a <= WindowEnd(t) + 12
        BY <1>4, <3>1
      <3>3. Keeps(run + a, t) => Keeps(run + a, now)
        <4>1. /\ Keeps(run + a, t) <=> /\ WindowStart(t) - Before <= run + a
                                       /\ run + a <= WindowEnd(t) + 12
              /\ Keeps(run + a, now) <=> /\ WindowStart(now) - Before <= run + a
                                         /\ run + a <= WindowEnd(now) + 12
          BY <1>3, <2>3, <3>1, FlowingKeeps
        <4>2. Before \in Nat
          BY DEF Before
        <4> QED BY <1>4, <3>1, <4>1, <4>2
      <3> QED BY <2>2, <3>1, <3>2, <3>3 DEF MemoTells
    <2> QED BY <1>1, <1>2, <1>6, <2>1, <2>5 DEF MemoTells
  <1>10. ASSUME last'.clean, DelayFits', WindowFits', NEW u \in Times'
         PROVE  Freshest(u)' \in RunsServing(u)'
    <2>1. CASE RunsToConsider(t) = {}
      <3> HIDE DEF t
      <3>1. DelayFits /\ WindowFits
        BY <1>1, <1>10
      <3>2. WindowEnd(t) \in Int /\ WindowStart(t) <= WindowEnd(t)
        BY <1>3 DEF WindowStart, WindowEnd
      <3> QED BY <1>3, <2>1, <3>1, <3>2, FreshestConsidered
    <2>2. CASE now' = now /\ last'.clean = last.clean
      <3>1. Times' = Times /\ Freshest(u)' = Freshest(u)
        BY <1>1, <2>2 DEF Times, Freshest
      <3>2. RunsServing(u)' = RunsServing(u)
        BY <1>1, <1>2 DEF RunsServing, Key, Bracket, BracketInterval
      <3> QED BY <1>1, <1>10, <2>2, <3>1, <3>2 DEF FreshInv
    <2> QED BY <2>1, <2>2
  <1> QED BY <1>7, <1>8, <1>9, <1>10 DEF FreshInv

LEMMA NextFreshInv ==
    ASSUME IInv, Sound, FreshInv, [Next]_vars
    PROVE  FreshInv'
  <1>1. IInv' /\ Sound'
    BY NextIInv, NextSound
  <1>2. now \in Int
    BY DEF IInv
  <1>3. CASE Cycle
    <2>1. now' \in Int /\ now <= now' /\ UNCHANGED settings
      BY <1>2, <1>3, ConstantsAssumption DEF Cycle
    <2>2. CASE NoRuns(now')
      BY <2>1, <2>2, IdleFreshInv DEF NoRuns
    <2>3. CASE \E missing : Fetch(now', missing)
      BY <1>1, <2>1, <2>3, FetchFreshInv
    <2> QED BY <1>3, <2>2, <2>3 DEF Cycle
  <1>4. CASE Restart
    <2>1. last'.clean = last.clean
      BY <1>4 DEF Restart
    <2>2. DOMAIN memo' = {} /\ now' = now /\ UNCHANGED settings /\ UNCHANGED <<frames, synthetic>>
      BY <1>4 DEF Restart
    <2> QED BY <1>2, <2>1, <2>2, IdleFreshInv
  <1>5. CASE UNCHANGED vars
    <2>1. /\ now' = now /\ last' = last /\ memo' = memo /\ UNCHANGED settings
          /\ UNCHANGED <<frames, synthetic>>
      BY <1>5 DEF vars, settings
    <2> QED BY <1>2, <2>1, IdleFreshInv
  <1> QED BY <1>3, <1>4, <1>5 DEF Next

\* What is loaded is of published runs and of leads that can be sampled, what the memo
\* of interpolation remembers is filled, and after a cycle that missed nothing the
\* freshest run answers for every time of the window.
THEOREM FreshInvariance == Spec => [](IInv /\ Sound /\ FreshInv)
  <1>1. Init => IInv /\ Sound /\ FreshInv
    <2> SUFFICES ASSUME Init PROVE IInv /\ Sound /\ FreshInv
      OBVIOUS
    <2>1. IInv /\ Sound
      BY InitGridInv DEF GridInv
    <2>2. Loaded = {} /\ DOMAIN memo = {} /\ ~last.clean
      BY DEF Init, Loaded
    <2>3. FreshInv
      BY <2>2 DEF FreshInv
    <2> QED BY <2>1, <2>3
  <1>2. IInv /\ Sound /\ FreshInv /\ [Next]_vars => (IInv /\ Sound /\ FreshInv)'
    BY NextIInv, NextSound, NextFreshInv
  <1> QED BY <1>1, <1>2, PTL DEF Spec

\* After a cycle that missed nothing every time of the window is answered, and from
\* the newest published run that reaches it, for every grid, every window it reaches
\* over, and whatever was missing before.
THEOREM FreshestAnswers == Spec => []FreshestServes
  <1>1. ASSUME IInv, Sound, FreshInv PROVE FreshestServes
    <2> SUFFICES ASSUME last.clean, DelayFits, WindowFits, NEW u \in Times
                 PROVE  HasDataAt(u) /\ PickRun(u) = Freshest(u)
      BY DEF FreshestServes
    <2>1. Freshest(u) \in RunsServing(u)
      BY <1>1 DEF FreshInv
    <2>2. u \in Int /\ u % 2 = 0
      BY <1>1 DEF Times, WindowStart, WindowEnd, IInv
    <2>3. ASSUME NEW run \in RunsServing(u) PROVE run \in Int /\ run <= Freshest(u)
      <3>1. PICK f \in Loaded : f[1] = run
        BY <2>3 DEF RunsServing
      <3>2. run \in Int /\ OnCycle(run) /\ run <= LatestPublishedRun(now)
        BY <1>1, <3>1 DEF IInv, FreshInv
      <3>3. Grid.first <= u - run /\ \A lead \in Bracket(u - run) : <<run, lead>> \in Loaded
        BY <2>3 DEF RunsServing, Key
      <3>4. \A lead \in Bracket(u - run) : Usable <= lead
        <4> SUFFICES ASSUME NEW lead \in Bracket(u - run) PROVE Usable <= lead
          OBVIOUS
        <4>1. Usable <= <<run, lead>>[2]
          BY <1>1, <3>3 DEF FreshInv
        <4> QED BY <4>1
      <3>5. Usable <= u - run
        <4> DEFINE i == BracketInterval
                   d == u - run
        <4>1. i \in {2, 3, 12}
          BY <1>1, GridTypes DEF BracketInterval, Stored, IInv
        <4>2. d \in Int
          BY <2>2, <3>2
        <4> HIDE DEF i, d
        <4>3. Floor(d, i) \in Int /\ Floor(d, i) <= d
          BY <4>1, <4>2, FloorBounds
        <4>4. Usable \in Nat /\ (kind = "hrrr" => Usable = 3 /\ Grid.first = 3)
          BY <1>1, GridCycles DEF IInv, Grid, HRRR, Quarter
        <4>5. CASE kind = "hrrr"
          BY <3>3, <4>4, <4>5
        <4>6. CASE kind # "hrrr"
          <5>1. Floor(d, i) \in Bracket(d)
            BY <4>6 DEF Bracket, i
          <5>2. Usable <= Floor(d, i)
            BY <3>4, <5>1 DEF d
          <5>3. Usable <= d
            BY <4>2, <4>3, <4>4, <5>2
          <5> QED BY <5>3 DEF d
        <4> QED BY <4>5, <4>6
      <3>6. run <= Floor(u - Usable, Grid.cycle)
        <4>1. PICK m \in Int : run = m * Grid.cycle
          BY <3>2 DEF OnCycle
        <4>2. Grid.cycle \in {12, 36, 72} /\ Usable \in Nat
          BY <1>1, GridCycles DEF IInv
        <4> DEFINE c == Grid.cycle
                   x == u - Usable
        <4>3. x \in Int /\ m * c <= x
          <5>1. x \in Int /\ run <= x
            BY <2>2, <3>2, <3>5, <4>2
          <5> QED BY <4>1, <5>1
        <4> HIDE DEF x, c
        <4>4. m * c <= Floor(x, c)
          BY <4>2, <4>3, CycleFloor DEF c
        <4> QED BY <4>1, <4>4 DEF x, c
      <3> QED BY <3>2, <3>6 DEF Freshest, Least
    <2>4. PickRun(u) \in RunsServing(u) /\ \A s \in RunsServing(u) : s <= PickRun(u)
      BY <2>1, <2>3 DEF PickRun
    <2>5. PickRun(u) <= Freshest(u) /\ Freshest(u) <= PickRun(u)
          /\ PickRun(u) \in Int /\ Freshest(u) \in Int
      BY <2>1, <2>3, <2>4
    <2>6. PickRun(u) = Freshest(u)
      BY <2>5
    <2> QED BY <2>1, <2>6 DEF HasDataAt
  <1> QED BY <1>1, FreshInvariance, PTL
=============================================================================
