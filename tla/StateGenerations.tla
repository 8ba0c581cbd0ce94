-------------------------- MODULE StateGenerations --------------------------
(***************************************************************************)
(* Publication of the pipeline's state to the render workers                *)
(* (data/master_state.py, driven by the on_cycle_complete hook of           *)
(* data_pipeline.py): snapshot the stores, hardlink the files into a        *)
(* staging directory, rename it to a generation, replace state.json, prune. *)
(*                                                                          *)
(* The linking runs in a worker thread while the event loop goes on storing *)
(* and unlinking files, the process may die between any two steps, and the  *)
(* render workers read without any lock: they load state.json, then open    *)
(* the files it names one at a time.                                        *)
(***************************************************************************)
EXTENDS Integers, FiniteSets

CONSTANTS
    Listed,         \* files a manifest lists by descriptor
    Scanned,        \* files below a root that is mirrored by walking it
    Readers,        \* the render workers
    Retention,      \* settings.state_retention_generations
    MaxGens,        \* bound: generation identifiers
    MaxRaced,       \* bound: publications one load of a reader spans
    MaxOrphans,     \* bound: generations completed but never published
    MaxFailures,    \* bound: writes and prunes that fail otherwise
    MaxCrashes      \* bound: deaths of the pipeline

ASSUME ConstantsAssumption ==
    /\ Listed \cap Scanned = {}
    /\ Retention \in Nat /\ Retention >= 2
    /\ {MaxGens, MaxRaced, MaxOrphans, MaxFailures, MaxCrashes} \subseteq Nat

VARIABLES
    phase,     \* where the publication stands
    live,      \* files in the store directories
    held,      \* files the stores would name in a snapshot
    manifest,  \* files named by the snapshot being published
    plan,      \* files still to be linked
    walked,    \* the scanned root has been listed
    gen,       \* identifier of the generation being built
    wall,      \* wall clock, never set back: identifier of the next generation
    staging,   \* identifiers of the .<id>.tmp directories
    complete,  \* identifiers of the generation directories
    names,     \* names[g]: files the state.json of generation g names
    linked,    \* linked[g]: files below generation (or staging) directory g
    pointer,   \* generation the top-level state.json names, None at first
    target,    \* target[r]: generation reader r is loading
    toOpen,    \* toOpen[r]: files r has still to open
    opened,    \* opened[r]: files r opened
    served,    \* served[r]: generation r last applied
    seen,      \* seen[r]: files it opened of that generation
    raced,     \* history: publications since r read state.json
    orphans,   \* history: generations completed but never published
    unpruned,  \* history: generations completed since the last whole prune
    failures, crashes  \* history: the other bounded events

buildVars == <<manifest, plan, walked, gen>>
diskVars == <<staging, complete, names, linked>>
readerVars == <<target, toOpen, opened, served, seen>>
bounds == <<failures, crashes>>
vars == <<phase, live, held, buildVars, wall, diskVars, pointer, readerVars,
          raced, orphans, unpruned, bounds>>

Files == Listed \cup Scanned
Ids == 1 .. MaxGens
None == 0

\* Generations with a later identifier, hence directory name, than g.
Later(g) == {h \in complete : h > g}

Init ==
    /\ phase = "idle"
    /\ live = {}
    /\ held = {}
    /\ manifest = {}
    /\ plan = {}
    /\ walked = FALSE
    /\ gen = None
    /\ wall = 1
    /\ staging = {}
    /\ complete = {}
    /\ names = [g \in Ids |-> {}]
    /\ linked = [g \in Ids |-> {}]
    /\ pointer = None
    /\ target = [r \in Readers |-> None]
    /\ toOpen = [r \in Readers |-> {}]
    /\ opened = [r \in Readers |-> {}]
    /\ served = [r \in Readers |-> None]
    /\ seen = [r \in Readers |-> {}]
    /\ raced = [r \in Readers |-> 0]
    /\ orphans = 0
    /\ unpruned = 0
    /\ failures = 0
    /\ crashes = 0

-----------------------------------------------------------------------------
(* The event loop: stores change while a publication is under way.          *)

\* A store writes a file, then names it.
Store(f) ==
    /\ phase # "down"
    /\ live' = live \cup {f}
    /\ held' = held \cup {f}
    /\ UNCHANGED <<phase, buildVars, wall, diskVars, pointer, readerVars, raced,
                   orphans, unpruned, bounds>>

\* Two-phase eviction of a listed file: the store stops naming it ...
Forget(f) ==
    /\ f \in held \cap Listed
    /\ held' = held \ {f}
    /\ UNCHANGED <<phase, live, buildVars, wall, diskVars, pointer, readerVars,
                   raced, orphans, unpruned, bounds>>

\* ... and unlinks it later.
Reap(f) ==
    /\ phase # "down"
    /\ f \in live \ held
    /\ live' = live \ {f}
    /\ UNCHANGED <<phase, held, buildVars, wall, diskVars, pointer, readerVars,
                   raced, orphans, unpruned, bounds>>

\* A scanned store (an NWP grid, GMGSI) drops the file and its entry at once.
EvictScanned(f) ==
    /\ f \in held \cap Scanned
    /\ held' = held \ {f}
    /\ live' = live \ {f}
    /\ UNCHANGED <<phase, buildVars, wall, diskVars, pointer, readerVars,
                   raced, orphans, unpruned, bounds>>

-----------------------------------------------------------------------------
(* A publication.                                                           *)

\* snapshot_state, on the event loop.
Snapshot ==
    /\ phase = "idle"
    /\ manifest' = held
    /\ phase' = "captured"
    /\ UNCHANGED <<live, held, plan, walked, gen, wall, diskVars, pointer,
                   readerVars, raced, orphans, unpruned, bounds>>

\* Mutant of Swept: staging directories of dead publications are kept.
SweptNothing == staging

\* What is left of the staging directories after the sweep.
Swept == {}

\* Mutant of GenerationId: the identifier of the publication before.
GenerationIdStale == gen

\* The identifier is the wall clock.
GenerationId == wall

\* write_state_snapshot, in its thread: sweep what dead publications left,
\* take the wall clock for an identifier, make the staging directory.
Stage ==
    /\ phase = "captured"
    /\ wall \in Ids
    /\ gen' = GenerationId
    /\ wall' = wall + 1
    /\ staging' = Swept \cup {GenerationId}
    /\ plan' = manifest \cap Listed
    /\ walked' = FALSE
    /\ phase' = "link"
    /\ UNCHANGED <<live, held, manifest, complete, names, linked, pointer,
                   readerVars, raced, orphans, unpruned, bounds>>

\* The hook returns: the local variables of the publication are gone.
Return ==
    /\ phase' = "idle"
    /\ manifest' = {}
    /\ plan' = {}
    /\ walked' = FALSE
    /\ gen' = None

\* The sweep fails: the publication is abandoned, the directories stay.
SweepFails ==
    /\ phase = "captured"
    /\ staging # {}
    /\ failures < MaxFailures
    /\ failures' = failures + 1
    /\ Return
    /\ UNCHANGED <<live, held, wall, diskVars, pointer, readerVars, raced,
                   orphans, unpruned, crashes>>

\* _hardlink_tree lists the scanned root, whatever the manifest names.
Walk ==
    /\ phase = "link"
    /\ ~walked
    /\ walked' = TRUE
    /\ plan' = plan \cup (live \cap Scanned)
    /\ UNCHANGED <<phase, live, held, manifest, gen, wall, diskVars, pointer,
                   readerVars, raced, orphans, unpruned, bounds>>

\* os.link of one file.
Link(f) ==
    /\ phase = "link"
    /\ f \in plan \cap live
    /\ linked' = [linked EXCEPT ![gen] = @ \cup {f}]
    /\ plan' = plan \ {f}
    /\ UNCHANGED <<phase, live, held, manifest, walked, gen, wall, staging,
                   complete, names, pointer, readerVars, raced, orphans,
                   unpruned, bounds>>

\* The staging directory is removed and the publication abandoned.
Abandon ==
    /\ Return
    /\ staging' = staging \ {gen}
    /\ linked' = [linked EXCEPT ![gen] = {}]
    /\ UNCHANGED <<live, held, wall, complete, names, pointer, readerVars, raced,
                   orphans, unpruned>>

\* A file to be linked no longer exists: os.link raises FileNotFoundError.
LinkFails ==
    /\ phase = "link"
    /\ plan \ live # {}
    /\ Abandon
    /\ UNCHANGED bounds

\* Writing below the staging directory fails.
StageFails ==
    /\ phase = "link"
    /\ failures < MaxFailures
    /\ failures' = failures + 1
    /\ Abandon
    /\ UNCHANGED crashes

\* Mutant of AllLinked: the rename does not wait for the last links.
AllLinkedEarly == walked

\* Every listed file and every file the walk found is linked.
AllLinked == walked /\ plan = {}

\* The manifest is written and the staging directory renamed.
Complete ==
    /\ phase = "link"
    /\ AllLinked
    /\ staging' = staging \ {gen}
    /\ complete' = complete \cup {gen}
    /\ names' = [names EXCEPT ![gen] = manifest]
    /\ unpruned' = unpruned + 1
    /\ phase' = "complete"
    /\ UNCHANGED <<live, held, buildVars, wall, linked, pointer, readerVars,
                   raced, orphans, bounds>>

\* state.json is replaced.  (Assumption on the environment: a reader's load
\* spans at most MaxRaced publications.)
Publish ==
    /\ phase = "complete"
    /\ \A r \in Readers : target[r] # None => raced[r] < MaxRaced
    /\ pointer' = gen
    /\ raced' = [r \in Readers |-> IF target[r] = None THEN 0 ELSE raced[r] + 1]
    /\ phase' = "prune"
    /\ UNCHANGED <<live, held, buildVars, wall, diskVars, readerVars, orphans,
                   unpruned, bounds>>

\* Writing .state.json.tmp fails: the generation stays, unpublished.
PublishFails ==
    /\ phase = "complete"
    /\ orphans < MaxOrphans
    /\ orphans' = orphans + 1
    /\ Return
    /\ UNCHANGED <<live, held, wall, diskVars, pointer, readerVars,
                   raced, unpruned, bounds>>

\* Mutant of Prunable: one generation too many goes.
PrunableOneMore == {g \in complete : Cardinality(Later(g)) >= Retention - 1}

\* Mutant of Prunable: one generation too few goes.
PrunableOneLess == {g \in complete : Cardinality(Later(g)) > Retention}

\* Mutant of Prunable: a slice that keeps the oldest.
PrunableNewest == {g \in complete : Cardinality({h \in complete : h < g}) >= Retention}

\* All but the newest Retention generations, by directory name.
Prunable == {g \in complete : Cardinality(Later(g)) >= Retention}

Prune ==
    /\ phase = "prune"
    /\ complete' = complete \ Prunable
    /\ linked' = [g \in Ids |-> IF g \in Prunable THEN {} ELSE linked[g]]
    /\ unpruned' = 0
    /\ Return
    /\ UNCHANGED <<live, held, wall, staging, names, pointer,
                   readerVars, raced, orphans, bounds>>

\* rmtree fails at generation g: the older ones are gone, g is left in part.
PruneFails ==
    /\ phase = "prune"
    /\ failures < MaxFailures
    /\ failures' = failures + 1
    /\ \E g \in Prunable : \E part \in SUBSET linked[g] :
         LET removed == {h \in Prunable : h < g}
         IN /\ complete' = complete \ removed
            /\ linked' = [h \in Ids |-> IF h \in removed THEN {}
                                        ELSE IF h = g THEN part ELSE linked[h]]
    /\ Return
    /\ UNCHANGED <<live, held, wall, staging, names, pointer,
                   readerVars, raced, orphans, unpruned, crashes>>

-----------------------------------------------------------------------------
(* The environment of a publication.                                        *)

\* The pipeline dies: its memory goes, the directories stay.
Crash ==
    /\ phase # "down"
    /\ crashes < MaxCrashes
    /\ crashes' = crashes + 1
    /\ IF phase = "complete"
       THEN orphans < MaxOrphans /\ orphans' = orphans + 1
       ELSE orphans' = orphans
    /\ phase' = "down"
    /\ held' = {}
    /\ manifest' = {}
    /\ plan' = {}
    /\ walked' = FALSE
    /\ gen' = None
    /\ UNCHANGED <<live, wall, diskVars, pointer, readerVars, raced, unpruned,
                   failures>>

\* A warm restart: the stores adopt the files they find.
Restart ==
    /\ phase = "down"
    /\ held' = live
    /\ phase' = "idle"
    /\ UNCHANGED <<live, buildVars, wall, diskVars, pointer, readerVars, raced,
                   orphans, unpruned, bounds>>

-----------------------------------------------------------------------------
(* A render worker's reload.                                                *)

\* state.json changed: load_state reads it.
ReadPointer(r) ==
    /\ target[r] = None
    /\ pointer \notin {None, served[r]}
    /\ target' = [target EXCEPT ![r] = pointer]
    /\ toOpen' = [toOpen EXCEPT ![r] = names[pointer]]
    /\ UNCHANGED <<phase, live, held, buildVars, wall, diskVars, pointer, opened,
                   served, seen, raced, orphans, unpruned, bounds>>

\* apply_state opens one file of the generation; a missing one is skipped.
Open(r, f) ==
    /\ f \in toOpen[r]
    /\ toOpen' = [toOpen EXCEPT ![r] = @ \ {f}]
    /\ opened' = [opened EXCEPT ![r] = IF target[r] \in complete /\ f \in linked[target[r]]
                                       THEN @ \cup {f} ELSE @]
    /\ UNCHANGED <<phase, live, held, buildVars, wall, diskVars, pointer, target,
                   served, seen, raced, orphans, unpruned, bounds>>

\* The reload is over.
Apply(r) ==
    /\ target[r] # None
    /\ toOpen[r] = {}
    /\ served' = [served EXCEPT ![r] = target[r]]
    /\ seen' = [seen EXCEPT ![r] = opened[r]]
    /\ target' = [target EXCEPT ![r] = None]
    /\ opened' = [opened EXCEPT ![r] = {}]
    /\ raced' = [raced EXCEPT ![r] = 0]
    /\ UNCHANGED <<phase, live, held, buildVars, wall, diskVars, pointer, toOpen,
                   orphans, unpruned, bounds>>

Publication ==
    \/ Snapshot \/ Stage \/ SweepFails \/ Walk \/ (\E f \in Files : Link(f))
    \/ LinkFails \/ StageFails \/ Complete \/ Publish \/ PublishFails
    \/ Prune \/ PruneFails

Next ==
    \/ \E f \in Files : Store(f) \/ Forget(f) \/ Reap(f) \/ EvictScanned(f)
    \/ Publication
    \/ Crash \/ Restart
    \/ \E r \in Readers : ReadPointer(r) \/ Apply(r) \/ \E f \in Files : Open(r, f)

Spec == Init /\ [][Next]_vars

-----------------------------------------------------------------------------
(* Properties.                                                              *)

PipelineTypes ==
    /\ phase \in {"idle", "captured", "link", "complete", "prune", "down"}
    /\ live \in SUBSET Files
    /\ held \in SUBSET Files
    /\ manifest \in SUBSET Files
    /\ plan \in SUBSET Files
    /\ walked \in BOOLEAN
    /\ gen \in Ids \cup {None}
    /\ phase \in {"link", "complete", "prune"} => gen \in Ids
    /\ wall \in Nat
    /\ pointer \in Ids \cup {None}

DiskTypes ==
    /\ staging \in SUBSET Ids
    /\ complete \in SUBSET Ids
    /\ names \in [Ids -> SUBSET Files]
    /\ linked \in [Ids -> SUBSET Files]

ReaderTypes ==
    /\ target \in [Readers -> Ids \cup {None}]
    /\ toOpen \in [Readers -> SUBSET Files]
    /\ opened \in [Readers -> SUBSET Files]
    /\ served \in [Readers -> Ids \cup {None}]
    /\ seen \in [Readers -> SUBSET Files]

HistoryTypes ==
    /\ raced \in [Readers -> Nat]
    /\ orphans \in Nat /\ unpruned \in Nat
    /\ failures \in Nat /\ crashes \in Nat

\* Every variable has its type.
TypeOK == PipelineTypes /\ DiskTypes /\ ReaderTypes /\ HistoryTypes

\* A generation directory holds every listed file its manifest names.
Whole(g) == g \in complete /\ names[g] \cap Listed \subseteq linked[g]

\* state.json always names a generation that is there as a whole, through
\* crashes, failed links and prunes: master_state.py:9-10, "never a manifest
\* whose files were already evicted".
PointerWhole == pointer # None => Whole(pointer)

\* A reader that applied a generation opened every listed file it names.
ReadersSeeWhole ==
    \A r \in Readers : served[r] # None => names[served[r]] \cap Listed \subseteq seen[r]

\* Outside a publication at most Retention generations are kept, besides those
\* completed since a prune last succeeded.
GenerationsBounded ==
    phase = "idle" => Cardinality(complete) <= Retention + unpruned

\* Staging directories do not pile up: while one is being filled no other is
\* left.
OneStaging == phase = "link" => staging = {gen}

\* A reader never goes back to an older generation, and what it serves is a
\* snapshot that was published as a whole: the promise of StatePromise.
Shot(g, files) == [id |-> g, files |-> files \cap Listed]
PublishedFiles(g) == IF g = None THEN {} ELSE names[g]

Promise == INSTANCE StatePromise WITH
    Files <- Listed,
    current <- Shot(pointer, PublishedFiles(pointer)),
    reading <- [r \in Readers |-> Shot(target[r], PublishedFiles(target[r]))],
    view <- [r \in Readers |-> Shot(served[r], seen[r])]

KeepsPromise == Promise!Spec

-----------------------------------------------------------------------------
(* The inductive invariant behind ReadersSeeWhole and KeepsPromise.  It      *)
(* needs Retention to exceed the publications a load spans plus the          *)
(* generations never published.                                              *)

Bounded ==
    /\ orphans <= MaxOrphans
    /\ \A r \in Readers : raced[r] <= MaxRaced

\* Generations whose publication is over, one way or another.
Settled == complete \ (IF phase = "complete" THEN {gen} ELSE {})

\* How many of them are newer than g.
Behind(g) == Cardinality({h \in Settled : h > g})

\* Identifiers grow: the one being built is the newest of all.
Order ==
    /\ \A g \in complete : g < wall
    /\ phase \in {"link", "complete", "prune"} => gen < wall
    /\ phase = "link" => \A g \in complete : g < gen
    /\ phase \in {"complete", "prune"} => gen \in complete /\ \A g \in complete : g <= gen
    /\ phase = "complete" => pointer < gen
    /\ phase = "prune" => pointer = gen
    /\ pointer # None => pointer \in complete
    /\ \A r \in Readers : target[r] <= pointer /\ served[r] <= pointer
    /\ \A r \in Readers : target[r] # None => served[r] < target[r]

\* What a generation being built lacks is still in the plan.
Building ==
    /\ phase = "link" => manifest \cap Listed \subseteq linked[gen] \cup plan
    /\ phase = "complete" => Whole(gen)

\* What state.json names and what a reader loads is there as a whole.
Protected ==
    /\ PointerWhole
    /\ \A r \in Readers : target[r] # None => Whole(target[r])

\* How far the pointer and the loads may lag behind the newest generation.
Lag ==
    /\ pointer # None => Behind(pointer) <= orphans
    /\ \A r \in Readers :
         IF target[r] = None THEN raced[r] = 0
         ELSE Behind(target[r]) <= orphans + raced[r]

\* A load has opened, or has still to open, the files of its generation.
Loading ==
    \A r \in Readers :
        /\ target[r] # None =>
             /\ names[target[r]] \cap Listed \subseteq opened[r] \cup toOpen[r]
             /\ opened[r] \cup toOpen[r] \subseteq names[target[r]]
        /\ target[r] = None => opened[r] = {}

Served ==
    \A r \in Readers :
        seen[r] \cap Listed = PublishedFiles(served[r]) \cap Listed

IInv ==
    /\ TypeOK
    /\ Bounded
    /\ Order
    /\ Building
    /\ Protected
    /\ Lag
    /\ Loading
    /\ Served
=============================================================================
