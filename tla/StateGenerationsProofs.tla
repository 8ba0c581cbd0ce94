----------------------- MODULE StateGenerationsProofs -----------------------
(***************************************************************************)
(* Proofs about StateGenerations, for any sets of files and readers, any    *)
(* retention and any number of crashes, failures and publications.          *)
(*                                                                          *)
(* That fewer than Retention publications and unpublished generations       *)
(* separate a load from its end is a hypothesis of the theorems.            *)
(***************************************************************************)
EXTENDS StateGenerations, FiniteSetTheorems, TLAPS

-----------------------------------------------------------------------------
(* Counting generations.                                                    *)

\* A set of identifiers is finite, and its size is a natural number that does
\* not grow when members leave and grows by at most one when one joins.
LEMMA Counting ==
  ASSUME NEW S \in SUBSET Ids
  PROVE  /\ IsFiniteSet(S)
         /\ Cardinality(S) \in Nat
         /\ \A T \in SUBSET S : Cardinality(T) <= Cardinality(S)
         /\ \A x \in Ids : \A T \in SUBSET (S \cup {x}) :
              Cardinality(T) <= Cardinality(S) + 1
  <1>1. IsFiniteSet(Ids)
    BY FS_Interval, ConstantsAssumption DEF Ids
  <1>2. IsFiniteSet(S) /\ Cardinality(S) \in Nat
    BY <1>1, FS_Subset, FS_CardinalityType
  <1>3. ASSUME NEW T \in SUBSET S PROVE Cardinality(T) <= Cardinality(S)
    BY <1>2, FS_Subset
  <1>4. ASSUME NEW x \in Ids, NEW T \in SUBSET (S \cup {x})
        PROVE  Cardinality(T) <= Cardinality(S) + 1
    <2>1. /\ IsFiniteSet(S \cup {x})
          /\ Cardinality(S \cup {x}) \in {Cardinality(S), Cardinality(S) + 1}
      BY <1>2, FS_AddElement
    <2>2. Cardinality(T) <= Cardinality(S \cup {x})
      BY <2>1, FS_Subset
    <2>3. Cardinality(T) \in Nat
      BY <2>1, FS_Subset, FS_CardinalityType
    <2> QED BY <1>2, <2>1, <2>2, <2>3
  <1> QED BY <1>2, <1>3, <1>4

-----------------------------------------------------------------------------
(* Type correctness.                                                        *)

\* The initial state has the declared types.
LEMMA InitTypeOK == Init => TypeOK
  <1> SUFFICES ASSUME Init PROVE TypeOK
    OBVIOUS
  <1>1. PipelineTypes
    BY DEF Init, PipelineTypes
  <1>2. DiskTypes
    BY DEF Init, DiskTypes
  <1>3. ReaderTypes
    BY DEF Init, ReaderTypes
  <1>4. HistoryTypes
    BY DEF Init, HistoryTypes
  <1> QED BY <1>1, <1>2, <1>3, <1>4 DEF TypeOK

\* The types of variables a step leaves alone.
LEMMA UnchangedTypes ==
  /\ DiskTypes /\ UNCHANGED diskVars => DiskTypes'
  /\ ReaderTypes /\ UNCHANGED readerVars => ReaderTypes'
  /\ HistoryTypes /\ UNCHANGED <<raced, orphans, unpruned, bounds>> => HistoryTypes'
  BY DEF DiskTypes, ReaderTypes, HistoryTypes, diskVars, readerVars, bounds

\* Every step preserves the declared types.
LEMMA StepTypeOK == TypeOK /\ [Next]_vars => TypeOK'
  <1> SUFFICES ASSUME PipelineTypes, DiskTypes, ReaderTypes, HistoryTypes, [Next]_vars
               PROVE  PipelineTypes' /\ DiskTypes' /\ ReaderTypes' /\ HistoryTypes'
    BY DEF TypeOK
  <1>1. CASE UNCHANGED vars
    BY <1>1, UnchangedTypes DEF PipelineTypes, vars, buildVars
  <1>2. ASSUME NEW f \in Files, Store(f) \/ Forget(f) \/ Reap(f) \/ EvictScanned(f)
        PROVE  PipelineTypes' /\ DiskTypes' /\ ReaderTypes' /\ HistoryTypes'
    <2>1. PipelineTypes'
      BY <1>2 DEF PipelineTypes, Store, Forget, Reap, EvictScanned, buildVars
    <2> QED BY <1>2, <2>1, UnchangedTypes DEF Store, Forget, Reap, EvictScanned
  <1>3. CASE Snapshot \/ Walk
    <2>1. PipelineTypes'
      BY <1>3 DEF PipelineTypes, Snapshot, Walk, Files
    <2> QED BY <1>3, <2>1, UnchangedTypes DEF Snapshot, Walk
  <1>4. CASE Stage
    <2>0. wall \in Ids /\ wall + 1 \in Nat
      BY <1>4 DEF PipelineTypes, Stage
    <2>1. PipelineTypes'
      <3>1. plan' \in SUBSET Files /\ phase' = "link" /\ gen' \in Ids /\ wall' \in Nat
            /\ walked' = FALSE /\ UNCHANGED <<live, held, manifest, pointer>>
        BY <1>4, <2>0 DEF Stage, GenerationId, PipelineTypes
      <3> QED BY <3>1 DEF PipelineTypes
    <2>2. DiskTypes'
      BY <1>4, <2>0 DEF DiskTypes, Stage, GenerationId, Swept
    <2> QED BY <1>4, <2>1, <2>2, UnchangedTypes DEF Stage
  <1>5. CASE SweepFails
    <2>1. PipelineTypes'
      BY <1>5 DEF PipelineTypes, SweepFails, Return
    <2>2. HistoryTypes'
      BY <1>5 DEF HistoryTypes, SweepFails
    <2> QED BY <1>5, <2>1, <2>2, UnchangedTypes DEF SweepFails
  <1>6. ASSUME NEW f \in Files, Link(f)
        PROVE  PipelineTypes' /\ DiskTypes' /\ ReaderTypes' /\ HistoryTypes'
    <2>1. PipelineTypes'
      BY <1>6 DEF PipelineTypes, Link
    <2>2. DiskTypes'
      BY <1>6 DEF DiskTypes, Link
    <2> QED BY <1>6, <2>1, <2>2, UnchangedTypes DEF Link
  <1>7. CASE LinkFails \/ StageFails
    <2>1. PipelineTypes'
      BY <1>7 DEF PipelineTypes, LinkFails, StageFails, Abandon, Return
    <2>2. DiskTypes'
      BY <1>7 DEF DiskTypes, LinkFails, StageFails, Abandon
    <2>3. HistoryTypes'
      BY <1>7 DEF HistoryTypes, LinkFails, StageFails, Abandon, bounds
    <2> QED BY <1>7, <2>1, <2>2, <2>3, UnchangedTypes
            DEF LinkFails, StageFails, Abandon
  <1>8. CASE Complete
    <2>1. PipelineTypes'
      BY <1>8 DEF PipelineTypes, Complete, buildVars
    <2>2. DiskTypes'
      BY <1>8 DEF DiskTypes, PipelineTypes, Complete
    <2>3. HistoryTypes'
      BY <1>8 DEF HistoryTypes, Complete, bounds
    <2> QED BY <1>8, <2>1, <2>2, <2>3, UnchangedTypes DEF Complete
  <1>9. CASE Publish
    <2>1. PipelineTypes'
      BY <1>9 DEF PipelineTypes, Publish, buildVars
    <2>2. HistoryTypes'
      BY <1>9 DEF HistoryTypes, Publish, bounds
    <2> QED BY <1>9, <2>1, <2>2, UnchangedTypes DEF Publish
  <1>10. CASE PublishFails
    <2>1. PipelineTypes'
      BY <1>10 DEF PipelineTypes, PublishFails, Return
    <2>2. HistoryTypes'
      BY <1>10 DEF HistoryTypes, PublishFails, bounds
    <2> QED BY <1>10, <2>1, <2>2, UnchangedTypes DEF PublishFails
  <1>11. CASE Prune
    <2>1. PipelineTypes'
      BY <1>11 DEF PipelineTypes, Prune, Return
    <2>2. DiskTypes'
      BY <1>11 DEF DiskTypes, Prune
    <2>3. HistoryTypes'
      BY <1>11 DEF HistoryTypes, Prune, bounds
    <2> QED BY <1>11, <2>1, <2>2, <2>3, UnchangedTypes DEF Prune
  <1>12. CASE PruneFails
    <2>1. PICK g \in Prunable : \E part \in SUBSET linked[g] :
            LET removed == {h \in Prunable : h < g}
            IN /\ complete' = complete \ removed
               /\ linked' = [h \in Ids |-> IF h \in removed THEN {}
                                           ELSE IF h = g THEN part ELSE linked[h]]
      BY <1>12 DEF PruneFails
    <2>2. g \in Ids
      BY <2>1 DEF Prunable, DiskTypes
    <2>3. DiskTypes'
      BY <1>12, <2>1, <2>2 DEF DiskTypes, PruneFails
    <2>4. PipelineTypes'
      BY <1>12 DEF PipelineTypes, PruneFails, Return
    <2>5. HistoryTypes'
      BY <1>12 DEF HistoryTypes, PruneFails
    <2> QED BY <1>12, <2>3, <2>4, <2>5, UnchangedTypes DEF PruneFails
  <1>13. CASE Crash
    <2>1. PipelineTypes'
      BY <1>13 DEF PipelineTypes, Crash
    <2>2. HistoryTypes'
      BY <1>13 DEF HistoryTypes, Crash
    <2> QED BY <1>13, <2>1, <2>2, UnchangedTypes DEF Crash
  <1>14. CASE Restart
    <2>1. PipelineTypes'
      BY <1>14 DEF PipelineTypes, Restart, buildVars
    <2> QED BY <1>14, <2>1, UnchangedTypes DEF Restart
  <1>15. ASSUME NEW r \in Readers, ReadPointer(r) \/ Apply(r)
         PROVE  PipelineTypes' /\ DiskTypes' /\ ReaderTypes' /\ HistoryTypes'
    <2>1. PipelineTypes'
      BY <1>15 DEF PipelineTypes, ReadPointer, Apply, buildVars
    <2>2. ReaderTypes'
      BY <1>15 DEF ReaderTypes, DiskTypes, PipelineTypes, ReadPointer, Apply, None
    <2>3. HistoryTypes'
      BY <1>15 DEF HistoryTypes, ReadPointer, Apply, bounds
    <2> QED BY <1>15, <2>1, <2>2, <2>3, UnchangedTypes DEF ReadPointer, Apply
  <1>16. ASSUME NEW r \in Readers, NEW f \in Files, Open(r, f)
         PROVE  PipelineTypes' /\ DiskTypes' /\ ReaderTypes' /\ HistoryTypes'
    <2>1. PipelineTypes'
      BY <1>16 DEF PipelineTypes, Open, buildVars
    <2>2. ReaderTypes'
      BY <1>16 DEF ReaderTypes, Open
    <2> QED BY <1>16, <2>1, <2>2, UnchangedTypes DEF Open
  <1> QED
    BY <1>1, <1>2, <1>3, <1>4, <1>5, <1>6, <1>7, <1>8, <1>9, <1>10, <1>11, <1>12,
       <1>13, <1>14, <1>15, <1>16 DEF Next, Publication

\* TypeOK is an invariant, whatever fails.
THEOREM GenerationTypes == Spec => []TypeOK
  <1>1. TypeOK /\ [Next]_vars => TypeOK'
    BY StepTypeOK
  <1> QED BY InitTypeOK, <1>1, PTL DEF Spec

-----------------------------------------------------------------------------
(* What is kept on disk.                                                    *)

\* Of any set of generations fewer than Retention newer ones are ahead of, at
\* most Retention remain: the number of newer ones tells the kept ones apart.
LEMMA KeptAreFew ==
  ASSUME NEW S \in SUBSET Ids
  PROVE  Cardinality({g \in S : ~(Cardinality({h \in S : h > g}) >= Retention)}) <= Retention
  <1> DEFINE Newer(g) == {h \in S : h > g}
             Kept == {g \in S : ~(Cardinality(Newer(g)) >= Retention)}
             rank == [g \in Kept |-> Cardinality(Newer(g))]
             Ranks == 0 .. Retention - 1
  <1>1. Retention \in Nat /\ Retention >= 1
    BY ConstantsAssumption
  <1>2. ASSUME NEW g PROVE IsFiniteSet(Newer(g)) /\ Cardinality(Newer(g)) \in Nat
    <2>1. Newer(g) \in SUBSET Ids
      OBVIOUS
    <2> HIDE DEF Newer
    <2> QED BY <2>1, Counting
  <1>3. ASSUME NEW g \in S, NEW k \in S, g < k
        PROVE  Cardinality(Newer(k)) < Cardinality(Newer(g))
    <2>1. g \in Int /\ k \in Int /\ \A h \in S : h \in Int
      BY DEF Ids
    <2>2. Newer(k) \cup {k} \in SUBSET Newer(g)
      <3>1. k \in Newer(g)
        BY <1>3
      <3>2. ASSUME NEW h \in Newer(k) PROVE h \in Newer(g)
        <4>1. h \in S /\ h > k
          OBVIOUS
        <4>2. h \in Int /\ g \in Int /\ k \in Int
          BY <2>1, <4>1
        <4>3. h > g
          BY <1>3, <4>1, <4>2
        <4> QED BY <4>1, <4>3
      <3> HIDE DEF Newer
      <3> QED BY <3>1, <3>2
    <2>3. k \notin Newer(k)
      BY <2>1
    <2> HIDE DEF Newer
    <2>4. Cardinality(Newer(k) \cup {k}) = Cardinality(Newer(k)) + 1
      BY <1>2, <2>3, FS_AddElement
    <2>5. Cardinality(Newer(k) \cup {k}) <= Cardinality(Newer(g))
      BY <1>2, <2>2, FS_Subset
    <2> QED BY <1>2, <2>4, <2>5
  <1>4. Kept \in SUBSET Ids
    OBVIOUS
  <1>5. \A g \in Kept : g \in S /\ g \in Int /\ ~(Cardinality(Newer(g)) >= Retention)
    BY DEF Ids
  <1> HIDE DEF Newer
  <1>6. rank \in [Kept -> Ranks]
    BY <1>1, <1>2
  <1>7. \A g \in Kept : rank[g] = Cardinality(Newer(g))
    OBVIOUS
  <1> HIDE DEF Kept, rank, Ranks
  <1>8. IsFiniteSet(Kept) /\ Cardinality(Kept) \in Nat
    BY <1>4, Counting
  <1>9. IsFiniteSet(Ranks) /\ Cardinality(Ranks) = Retention
    BY <1>1, FS_Interval DEF Ranks
  <1>10. ASSUME NEW g \in Kept, NEW k \in Kept, g # k PROVE rank[g] # rank[k]
    <2>1. g < k \/ k < g
      BY <1>5, <1>10
    <2>2. /\ Cardinality(Newer(g)) \in Nat /\ Cardinality(Newer(k)) \in Nat
          /\ rank[g] = Cardinality(Newer(g)) /\ rank[k] = Cardinality(Newer(k))
      BY <1>2, <1>7
    <2> QED BY <1>3, <1>5, <2>1, <2>2
  <1>11. Cardinality(Kept) <= Retention
    <2>1. ~(Retention < Cardinality(Kept))
      BY <1>6, <1>8, <1>9, <1>10, FS_PigeonHole
    <2> QED BY <1>1, <1>8, <2>1
  <1> QED BY <1>11 DEF Kept, Newer

\* GenerationsBounded in every phase: a generation that is completed counts as
\* unpruned from the same step on.
Housekept == Cardinality(complete) <= Retention + unpruned

\* Every step keeps the number of generations within the bound.
LEMMA StepHousekept == TypeOK /\ TypeOK' /\ Housekept /\ [Next]_vars => Housekept'
  <1> SUFFICES ASSUME TypeOK, TypeOK', Housekept, [Next]_vars PROVE Housekept'
    OBVIOUS
  <1>1. /\ complete \in SUBSET Ids /\ complete' \in SUBSET Ids /\ unpruned \in Nat
        /\ Retention \in Nat
    BY ConstantsAssumption DEF TypeOK, DiskTypes, HistoryTypes
  <1>2. Cardinality(complete) \in Nat /\ Cardinality(complete') \in Nat
    BY <1>1, Counting
  <1>3. ASSUME complete' \subseteq complete, unpruned' = unpruned PROVE Housekept'
    <2>1. Cardinality(complete') <= Cardinality(complete)
      BY <1>1, <1>3, Counting
    <2> QED BY <1>1, <1>2, <1>3, <2>1 DEF Housekept
  <1>4. CASE Complete
    <2>1. complete' = complete \cup {gen} /\ unpruned' = unpruned + 1
      BY <1>4 DEF Complete
    <2>2. gen \in Ids
      BY <1>4 DEF TypeOK, PipelineTypes, Complete
    <2>3. complete' \in SUBSET (complete \cup {gen})
      BY <2>1
    <2>4. Cardinality(complete') <= Cardinality(complete) + 1
      BY <1>1, <2>2, <2>3, Counting
    <2> QED BY <1>1, <1>2, <2>1, <2>4 DEF Housekept
  <1>5. CASE Prune
    <2>1. complete' = {g \in complete : ~(Cardinality({h \in complete : h > g}) >= Retention)}
      BY <1>5 DEF Prune, Prunable, Later
    <2>2. Cardinality(complete') <= Retention
      BY <1>1, <2>1, KeptAreFew
    <2>3. unpruned' = 0
      BY <1>5 DEF Prune
    <2> QED BY <1>1, <1>2, <2>2, <2>3 DEF Housekept
  <1>6. CASE PruneFails
    <2>1. complete' \subseteq complete /\ unpruned' = unpruned
      BY <1>6 DEF PruneFails
    <2> QED BY <1>3, <2>1
  <1>7. ASSUME NEW f \in Files, Store(f) \/ Forget(f) \/ Reap(f) \/ EvictScanned(f) \/ Link(f)
        PROVE  Housekept'
    BY <1>3, <1>7 DEF Store, Forget, Reap, EvictScanned, Link, diskVars
  <1>8. CASE Snapshot \/ Stage \/ SweepFails \/ Walk \/ LinkFails \/ StageFails
             \/ Publish \/ PublishFails
    BY <1>3, <1>8 DEF Snapshot, Stage, SweepFails, Walk, LinkFails, StageFails, Abandon,
                      Publish, PublishFails, diskVars
  <1>9. CASE Crash \/ Restart \/ UNCHANGED vars
    BY <1>3, <1>9 DEF Crash, Restart, vars, diskVars
  <1>10. ASSUME NEW r \in Readers, ReadPointer(r) \/ Apply(r) \/ \E f \in Files : Open(r, f)
         PROVE  Housekept'
    BY <1>3, <1>10 DEF ReadPointer, Apply, Open, diskVars
  <1> QED
    BY <1>4, <1>5, <1>6, <1>7, <1>8, <1>9, <1>10 DEF Next, Publication

\* Outside a publication at most Retention generations are on disk, besides
\* those completed since a prune last succeeded, whatever fails or dies: for
\* any retention, and with no assumption on the readers.
THEOREM GenerationsStayBounded == Spec => []GenerationsBounded
  <1>1. Init => Housekept
    BY ConstantsAssumption, FS_EmptySet DEF Init, Housekept
  <1>2. TypeOK /\ TypeOK' /\ Housekept /\ [Next]_vars => Housekept'
    BY StepHousekept
  <1>3. Housekept => GenerationsBounded
    BY DEF Housekept, GenerationsBounded
  <1> QED BY <1>1, <1>2, <1>3, GenerationTypes, PTL DEF Spec

\* While one staging directory is filled there is no other: the sweep that
\* begins a publication leaves none of those that deaths and failures left.
THEOREM StagingIsSwept == Spec => []OneStaging
  <1>1. Init => OneStaging
    BY DEF Init, OneStaging
  <1>2. OneStaging /\ [Next]_vars => OneStaging'
    <2> SUFFICES ASSUME OneStaging, [Next]_vars PROVE OneStaging'
      OBVIOUS
    <2>1. CASE Stage
      BY <2>1 DEF OneStaging, Stage, Swept
    <2>2. ASSUME NEW f \in Files, Store(f) \/ Forget(f) \/ Reap(f) \/ EvictScanned(f) \/ Link(f)
          PROVE  OneStaging'
      BY <2>2 DEF OneStaging, Store, Forget, Reap, EvictScanned, Link, diskVars, buildVars
    <2>3. CASE \/ Snapshot \/ SweepFails \/ LinkFails \/ StageFails \/ Complete \/ Publish
               \/ PublishFails \/ Prune \/ PruneFails \/ Crash \/ Restart
      BY <2>3 DEF OneStaging, Snapshot, SweepFails, LinkFails, StageFails, Abandon, Return,
                  Complete, Publish, PublishFails, Prune, PruneFails, Crash, Restart
    <2>4. CASE Walk \/ UNCHANGED vars
      BY <2>4 DEF OneStaging, Walk, vars, diskVars, buildVars
    <2>5. ASSUME NEW r \in Readers, ReadPointer(r) \/ Apply(r) \/ \E f \in Files : Open(r, f)
          PROVE  OneStaging'
      BY <2>5 DEF OneStaging, ReadPointer, Apply, Open, diskVars, buildVars
    <2> QED BY <2>1, <2>2, <2>3, <2>4, <2>5 DEF Next, Publication
  <1> QED BY <1>1, <1>2, PTL DEF Spec

-----------------------------------------------------------------------------
(* The inductive invariant, on the stated assumptions.                      *)

Assumptions == MaxRaced + MaxOrphans < Retention

\* How many members of S are newer than g.
NewerIn(S, g) == Cardinality({h \in S : h > g})

\* It does not grow when members leave, and grows by at most one when one joins.
LEMMA NewerFacts ==
  ASSUME NEW S \in SUBSET Ids, NEW T \in SUBSET Ids, NEW g
  PROVE  /\ NewerIn(S, g) \in Nat
         /\ T \subseteq S => NewerIn(T, g) <= NewerIn(S, g)
         /\ \A x \in Ids : T \subseteq S \cup {x} => NewerIn(T, g) <= NewerIn(S, g) + 1
  <1> DEFINE NS == {h \in S : h > g}
             NT == {h \in T : h > g}
  <1>1. NS \in SUBSET Ids /\ NT \in SUBSET Ids
    OBVIOUS
  <1>2. T \subseteq S => NT \in SUBSET NS
    OBVIOUS
  <1>3. \A x \in Ids : T \subseteq S \cup {x} => NT \in SUBSET (NS \cup {x})
    OBVIOUS
  <1> HIDE DEF NS, NT
  <1>4. /\ Cardinality(NS) \in Nat
        /\ T \subseteq S => Cardinality(NT) <= Cardinality(NS)
        /\ \A x \in Ids : T \subseteq S \cup {x} => Cardinality(NT) <= Cardinality(NS) + 1
    BY <1>1, <1>2, <1>3, Counting
  <1> QED BY <1>4 DEF NewerIn, NS, NT

\* The initial state satisfies the invariant.
LEMMA InitIInv == Init => IInv
  <1> SUFFICES ASSUME Init PROVE IInv
    OBVIOUS
  <1>1. TypeOK
    BY InitTypeOK
  <1>2. Bounded
    BY ConstantsAssumption DEF Init, Bounded
  <1>3. Order /\ Building
    BY DEF Init, Order, Building, None
  <1>4. Protected /\ Lag
    BY DEF Init, Protected, PointerWhole, Lag, None
  <1>5. Loading /\ Served
    BY DEF Init, Loading, Served, PublishedFiles, None
  <1> QED BY <1>1, <1>2, <1>3, <1>4, <1>5 DEF IInv

\* Steps that touch neither the generations nor the readers.
Quiet ==
    /\ UNCHANGED <<complete, names, linked, pointer, wall, readerVars, raced,
                   orphans>>
    /\ \/ UNCHANGED <<phase, gen, manifest>> /\ plan \subseteq plan'
       \/ phase # "complete" /\ phase' \in {"idle", "captured", "down"}

\* The rest of the invariant, besides the types.
Core == Bounded /\ Order /\ Building /\ Protected /\ Lag /\ Loading /\ Served

\* A quiet step preserves it.
LEMMA QuietStep == IInv /\ Quiet => Core'
  <1> SUFFICES ASSUME IInv, Quiet PROVE Core'
    OBVIOUS
  <1> USE DEF IInv, Quiet, readerVars
  <1>1. Bounded'
    BY DEF Bounded
  <1>2. Order'
    BY DEF Order
  <1>3. Building'
    BY DEF Building, Whole
  <1>4. Protected'
    BY DEF Protected, PointerWhole, Whole
  <1>5. Settled' = Settled
    BY DEF Settled
  <1>6. Lag'
    BY <1>5 DEF Lag, Behind
  <1>7. Loading' /\ Served'
    BY DEF Loading, Served, PublishedFiles
  <1> QED BY <1>1, <1>2, <1>3, <1>4, <1>6, <1>7 DEF Core

\* No generation a reader or state.json refers to has more than Retention - 1
\* newer ones, so a prune leaves it.
LEMMA PruneSpares ==
  ASSUME Assumptions, IInv, phase = "prune"
  PROVE  /\ pointer \notin Prunable
         /\ \A r \in Readers : target[r] \notin Prunable
  <1>1. Settled = complete
    BY DEF Settled
  <1>2. \A g \in Prunable : g \in Ids /\ Behind(g) >= Retention
    BY <1>1 DEF Prunable, Later, Behind, IInv, TypeOK, DiskTypes
  <1>3. orphans \in Nat /\ orphans <= MaxOrphans /\ MaxRaced \in Nat /\ MaxOrphans \in Nat
        /\ Retention \in Nat
    BY ConstantsAssumption DEF IInv, TypeOK, HistoryTypes, Bounded
  <1>4. complete \in SUBSET Ids
    BY DEF IInv, TypeOK, DiskTypes
  <1>5. \A g : Behind(g) \in Nat
    <2>1. ASSUME NEW g PROVE Behind(g) = NewerIn(complete, g)
      BY <1>1 DEF Behind, NewerIn
    <2> QED BY <2>1, <1>4, NewerFacts
  <1>6. pointer \notin Prunable
    <2>1. pointer # None => Behind(pointer) <= orphans
      BY DEF IInv, Lag
    <2> QED BY <2>1, <1>2, <1>3, <1>5 DEF Assumptions, Ids, None
  <1>7. ASSUME NEW r \in Readers PROVE target[r] \notin Prunable
    <2>1. target[r] # None => Behind(target[r]) <= orphans + raced[r]
      BY DEF IInv, Lag
    <2>2. raced[r] \in Nat /\ raced[r] <= MaxRaced
      BY DEF IInv, TypeOK, HistoryTypes, Bounded
    <2> QED BY <2>1, <2>2, <1>2, <1>3, <1>5 DEF Assumptions, Ids, None
  <1> QED BY <1>6, <1>7

\* Stage preserves the invariant: the wall clock is newer than everything.
LEMMA StageStep == IInv /\ Stage => Core'
  <1> SUFFICES ASSUME IInv, Stage PROVE Core'
    OBVIOUS
  <1>0. /\ phase = "captured" /\ phase' = "link" /\ wall \in Ids
        /\ gen' = wall /\ wall' = wall + 1 /\ plan' = manifest \cap Listed
        /\ UNCHANGED <<manifest, complete, names, linked, pointer, target, toOpen, opened,
                       served, seen, raced, orphans>>
    BY DEF Stage, GenerationId, readerVars, bounds
  <1>1. Bounded'
    BY <1>0 DEF IInv, Bounded
  <1>2. Order'
    <2>1. \A g \in complete : g \in Nat
      BY DEF IInv, TypeOK, DiskTypes, Ids
    <2> QED BY <1>0, <2>1 DEF IInv, Order, Ids
  <1>3. Building'
    BY <1>0 DEF Building
  <1>4. Protected'
    BY <1>0 DEF IInv, Protected, PointerWhole, Whole
  <1>5. Settled' = Settled
    BY <1>0 DEF Settled
  <1>6. Lag'
    BY <1>0, <1>5 DEF IInv, Lag, Behind
  <1>7. Loading' /\ Served'
    BY <1>0 DEF IInv, Loading, Served, PublishedFiles
  <1> QED BY <1>1, <1>2, <1>3, <1>4, <1>6, <1>7 DEF Core

\* The directory a publication fills or gives up is nobody's generation.
LEMMA BuildingApart ==
  ASSUME IInv, phase = "link"
  PROVE  /\ gen \in Ids /\ gen \notin complete /\ gen # pointer
         /\ pointer < gen
         /\ \A r \in Readers : gen # target[r] /\ gen # served[r]
  <1>1. gen \in Ids /\ gen \notin complete
    BY DEF IInv, TypeOK, PipelineTypes, DiskTypes, Order, Ids
  <1>2. pointer < gen
    BY <1>1 DEF IInv, Order, None, Ids
  <1>3. ASSUME NEW r \in Readers PROVE target[r] < gen /\ served[r] < gen
    <2>1. target[r] <= pointer /\ served[r] <= pointer
      BY DEF IInv, Order
    <2>2. target[r] \in Int /\ served[r] \in Int /\ pointer \in Int /\ gen \in Int
      BY <1>1 DEF IInv, TypeOK, PipelineTypes, ReaderTypes, Ids, None
    <2> QED BY <1>2, <2>1, <2>2
  <1>4. pointer \in Int /\ gen \in Int /\ \A r \in Readers : target[r] \in Int /\ served[r] \in Int
    BY <1>1 DEF IInv, TypeOK, PipelineTypes, ReaderTypes, Ids, None
  <1> QED BY <1>1, <1>2, <1>3, <1>4

\* Linking a file preserves the invariant.
LEMMA LinkStep == ASSUME IInv, NEW f \in Files, Link(f) PROVE Core'
  <1>0. /\ phase = "link" /\ phase' = "link"
        /\ linked' = [linked EXCEPT ![gen] = @ \cup {f}] /\ plan' = plan \ {f}
        /\ UNCHANGED <<gen, wall, manifest, complete, names, pointer, target, toOpen, opened,
                       served, seen, raced, orphans>>
    BY DEF Link, readerVars, bounds
  <1>1. linked \in [Ids -> SUBSET Files] /\ gen \in Ids
    BY <1>0, BuildingApart DEF IInv, TypeOK, DiskTypes
  <1>2. Bounded' /\ Order'
    BY <1>0 DEF IInv, Bounded, Order
  <1>3. Building'
    BY <1>0, <1>1 DEF IInv, Building
  <1>4. ASSUME NEW g, Whole(g) PROVE Whole(g)'
    <2>1. g \in Ids
      BY <1>4 DEF Whole, IInv, TypeOK, DiskTypes
    <2> QED BY <1>0, <1>1, <1>4, <2>1 DEF Whole
  <1>5. Protected'
    BY <1>0, <1>4 DEF IInv, Protected, PointerWhole, Whole
  <1>6. Settled' = Settled
    BY <1>0 DEF Settled
  <1>7. Lag'
    BY <1>0, <1>6 DEF IInv, Lag, Behind
  <1>8. Loading' /\ Served'
    BY <1>0 DEF IInv, Loading, Served, PublishedFiles
  <1> QED BY <1>2, <1>3, <1>5, <1>7, <1>8 DEF Core

\* Giving up a staging directory preserves the invariant.
LEMMA AbandonStep == IInv /\ (LinkFails \/ StageFails) => Core'
  <1> SUFFICES ASSUME IInv, LinkFails \/ StageFails PROVE Core'
    OBVIOUS
  <1>0. /\ phase = "link" /\ phase' = "idle"
        /\ linked' = [linked EXCEPT ![gen] = {}]
        /\ UNCHANGED <<wall, complete, names, pointer, target, toOpen, opened, served, seen,
                       raced, orphans>>
    BY DEF LinkFails, StageFails, Abandon, Return, readerVars, bounds
  <1>1. linked \in [Ids -> SUBSET Files] /\ gen \in Ids /\ gen \notin complete
    BY <1>0, BuildingApart DEF IInv, TypeOK, DiskTypes
  <1>2. Bounded' /\ Order'
    BY <1>0 DEF IInv, Bounded, Order
  <1>3. Building'
    BY <1>0 DEF Building
  <1>4. ASSUME NEW g, Whole(g) PROVE Whole(g)'
    <2>1. g \in Ids /\ g # gen
      BY <1>1, <1>4 DEF Whole, IInv, TypeOK, DiskTypes
    <2> QED BY <1>0, <1>1, <1>4, <2>1 DEF Whole
  <1>5. Protected'
    BY <1>0, <1>4 DEF IInv, Protected, PointerWhole, Whole
  <1>6. Settled' = Settled
    BY <1>0 DEF Settled
  <1>7. Lag'
    BY <1>0, <1>6 DEF IInv, Lag, Behind
  <1>8. Loading' /\ Served'
    BY <1>0 DEF IInv, Loading, Served, PublishedFiles
  <1> QED BY <1>2, <1>3, <1>5, <1>7, <1>8 DEF Core

\* Renaming the staging directory preserves the invariant: the plan is empty.
LEMMA CompleteStep == IInv /\ Complete => Core'
  <1> SUFFICES ASSUME IInv, Complete PROVE Core'
    OBVIOUS
  <1>0. /\ phase = "link" /\ phase' = "complete" /\ plan = {}
        /\ complete' = complete \cup {gen} /\ names' = [names EXCEPT ![gen] = manifest]
        /\ UNCHANGED <<manifest, plan, gen, wall, linked, pointer, target, toOpen, opened,
                       served, seen, raced, orphans>>
    BY DEF Complete, AllLinked, readerVars, buildVars, bounds
  <1>1. /\ gen \in Ids /\ gen \notin complete /\ gen # pointer /\ pointer < gen
        /\ \A r \in Readers : gen # target[r] /\ gen # served[r]
    BY <1>0, BuildingApart
  <1>2. names \in [Ids -> SUBSET Files] /\ complete \in SUBSET Ids
    BY DEF IInv, TypeOK, DiskTypes
  <1>3. Bounded'
    BY <1>0 DEF IInv, Bounded
  <1>4. Order'
    <2>1. \A g \in complete : g < gen /\ g \in Int
      BY <1>0, <1>2 DEF IInv, Order, Ids
    <2>2. gen < wall /\ gen \in Int
      BY <1>0, <1>1 DEF IInv, Order, Ids
    <2> QED BY <1>0, <1>1, <2>1, <2>2 DEF IInv, Order
  <1>5. Building'
    BY <1>0, <1>1, <1>2 DEF IInv, Building, Whole
  <1>6. ASSUME NEW g, Whole(g) PROVE Whole(g)' /\ names'[g] = names[g]
    <2>1. g \in Ids /\ g # gen
      BY <1>1, <1>2, <1>6 DEF Whole
    <2> QED BY <1>0, <1>2, <1>6, <2>1 DEF Whole
  <1>7. Protected'
    BY <1>0, <1>6 DEF IInv, Protected, PointerWhole, Whole
  <1>8. Settled' = Settled
    BY <1>0, <1>1 DEF Settled
  <1>9. Lag'
    BY <1>0, <1>8 DEF IInv, Lag, Behind
  <1>10. Loading'
    BY <1>0, <1>6 DEF IInv, Loading, Protected
  <1>11. ASSUME NEW r \in Readers PROVE PublishedFiles(served[r])' = PublishedFiles(served[r])
    <2>1. served[r] \in Ids \cup {None} /\ served[r] # gen /\ served'[r] = served[r]
      BY <1>0, <1>1 DEF IInv, TypeOK, ReaderTypes
    <2> QED BY <1>0, <1>2, <2>1 DEF PublishedFiles
  <1>12. Served'
    BY <1>0, <1>11 DEF IInv, Served
  <1> QED BY <1>3, <1>4, <1>5, <1>7, <1>9, <1>10, <1>12 DEF Core

\* Replacing state.json preserves the invariant: every load in progress falls
\* one publication further behind.
LEMMA PublishStep == IInv /\ Publish => Core'
  <1> SUFFICES ASSUME IInv, Publish PROVE Core'
    OBVIOUS
  <1>0. /\ phase = "complete" /\ phase' = "prune" /\ pointer' = gen
        /\ raced' = [r \in Readers |-> IF target[r] = None THEN 0 ELSE raced[r] + 1]
        /\ \A r \in Readers : target[r] # None => raced[r] < MaxRaced
        /\ UNCHANGED <<gen, wall, complete, names, linked, target, toOpen, opened, served,
                       seen, orphans>>
    BY DEF Publish, readerVars, buildVars, diskVars, bounds
  <1>1. /\ gen \in Ids /\ complete \in SUBSET Ids /\ orphans \in Nat
        /\ raced \in [Readers -> Nat] /\ MaxRaced \in Nat
    BY <1>0, ConstantsAssumption DEF IInv, TypeOK, PipelineTypes, DiskTypes, HistoryTypes
  <1>2. Bounded'
    BY <1>0, <1>1 DEF IInv, Bounded
  <1>3. Order'
    <2>1. /\ gen \in complete /\ pointer < gen
          /\ \A g \in complete : g <= gen /\ g < wall
      BY <1>0 DEF IInv, Order
    <2>2. \A r \in Readers : target[r] <= gen /\ served[r] <= gen
      <3> SUFFICES ASSUME NEW r \in Readers PROVE target[r] <= gen /\ served[r] <= gen
        OBVIOUS
      <3>1. target[r] \in Int /\ served[r] \in Int /\ pointer \in Int /\ gen \in Int
        BY <1>1 DEF IInv, TypeOK, PipelineTypes, ReaderTypes, Ids, None
      <3>2. target[r] <= pointer /\ served[r] <= pointer
        BY DEF IInv, Order
      <3> QED BY <2>1, <3>1, <3>2
    <2> QED BY <1>0, <2>1, <2>2 DEF IInv, Order
  <1>4. Building'
    BY <1>0 DEF Building
  <1>5. Protected'
    BY <1>0 DEF IInv, Protected, PointerWhole, Whole, Building
  <1>6. Settled \in SUBSET Ids /\ Settled' \in SUBSET Ids /\ Settled' = complete
        /\ Settled' \subseteq Settled \cup {gen}
    BY <1>0, <1>1 DEF Settled
  <1>7. Lag'
    <2>1. Behind(gen)' = 0
      <3>1. {h \in Settled' : h > gen'} = {}
        <4>1. \A h \in complete : h <= gen /\ h \in Int /\ gen \in Int
          BY <1>0, <1>1 DEF IInv, Order, Ids
        <4>2. gen' = gen
          BY <1>0
        <4> QED BY <1>6, <4>1, <4>2
      <3> QED BY <3>1, <1>0, FS_EmptySet DEF Behind
    <2>2. ASSUME NEW r \in Readers, target[r] # None
          PROVE  Behind(target[r])' <= orphans + (raced[r] + 1)
      <3>1. Behind(target[r]) <= orphans + raced[r]
        BY <2>2 DEF IInv, Lag
      <3>2. /\ Behind(target[r]) = NewerIn(Settled, target[r])
            /\ Behind(target[r])' = NewerIn(Settled', target[r])
        BY <1>0 DEF Behind, NewerIn
      <3>3. /\ NewerIn(Settled, target[r]) \in Nat
            /\ NewerIn(Settled', target[r]) \in Nat
            /\ NewerIn(Settled', target[r]) <= NewerIn(Settled, target[r]) + 1
        BY <1>1, <1>6, NewerFacts
      <3> QED BY <1>1, <3>1, <3>2, <3>3
    <2> QED BY <1>0, <1>1, <2>1, <2>2 DEF Lag
  <1>8. Loading' /\ Served'
    BY <1>0 DEF IInv, Loading, Served, PublishedFiles
  <1> QED BY <1>2, <1>3, <1>4, <1>5, <1>7, <1>8 DEF Core

\* A complete generation whose publication ends before state.json is replaced
\* is one more that separates a load from the newest.
LEMMA OrphanStep ==
  IInv /\ (PublishFails \/ (Crash /\ phase = "complete")) => Core'
  <1> SUFFICES ASSUME IInv, PublishFails \/ (Crash /\ phase = "complete") PROVE Core'
    OBVIOUS
  <1>0. /\ phase = "complete" /\ phase' \in {"idle", "down"}
        /\ orphans < MaxOrphans /\ orphans' = orphans + 1
        /\ UNCHANGED <<wall, complete, names, linked, pointer, target, toOpen, opened, served,
                       seen, raced>>
    BY DEF PublishFails, Crash, Return, readerVars, diskVars, bounds
  <1>1. /\ gen \in Ids /\ complete \in SUBSET Ids /\ orphans \in Nat
        /\ raced \in [Readers -> Nat] /\ MaxOrphans \in Nat
    BY <1>0, ConstantsAssumption DEF IInv, TypeOK, PipelineTypes, DiskTypes, HistoryTypes
  <1>2. Bounded' /\ Order'
    BY <1>0, <1>1 DEF IInv, Bounded, Order
  <1>3. Building' /\ Protected'
    BY <1>0 DEF IInv, Building, Protected, PointerWhole, Whole
  <1>4. Settled \in SUBSET Ids /\ Settled' \in SUBSET Ids /\ Settled' \subseteq Settled \cup {gen}
    BY <1>0, <1>1 DEF Settled
  <1>5. ASSUME NEW g PROVE /\ NewerIn(Settled, g) \in Nat /\ NewerIn(Settled', g) \in Nat
                           /\ NewerIn(Settled', g) <= NewerIn(Settled, g) + 1
    BY <1>1, <1>4, NewerFacts
  <1>6. Lag'
    <2>1. pointer # None => Behind(pointer)' <= orphans + 1
      <3>1. Behind(pointer) = NewerIn(Settled, pointer) /\ Behind(pointer)' = NewerIn(Settled', pointer)
        BY <1>0 DEF Behind, NewerIn
      <3> QED BY <1>1, <1>5, <3>1 DEF IInv, Lag
    <2>2. ASSUME NEW r \in Readers, target[r] # None
          PROVE  Behind(target[r])' <= orphans + 1 + raced[r]
      <3>1. /\ Behind(target[r]) = NewerIn(Settled, target[r])
            /\ Behind(target[r])' = NewerIn(Settled', target[r])
        BY <1>0 DEF Behind, NewerIn
      <3>2. Behind(target[r]) <= orphans + raced[r]
        BY <2>2 DEF IInv, Lag
      <3> QED BY <1>1, <1>5, <3>1, <3>2
    <2> QED BY <1>0, <2>1, <2>2 DEF IInv, Lag
  <1>7. Loading' /\ Served'
    BY <1>0 DEF IInv, Loading, Served, PublishedFiles
  <1> QED BY <1>2, <1>3, <1>6, <1>7 DEF Core

\* Pruning preserves the invariant, also when it stops half-way: what goes, or
\* is left in part, is nobody's generation.
LEMMA PruneStep == Assumptions /\ IInv /\ (Prune \/ PruneFails) => Core'
  <1> SUFFICES ASSUME Assumptions, IInv, Prune \/ PruneFails PROVE Core'
    OBVIOUS
  <1>0. /\ phase = "prune" /\ phase' = "idle"
        /\ UNCHANGED <<wall, names, pointer, target, toOpen, opened, served,
                       seen, raced, orphans>>
    BY DEF Prune, PruneFails, Return, readerVars, bounds
  <1>1. complete \in SUBSET Ids /\ linked \in [Ids -> SUBSET Files]
    BY DEF IInv, TypeOK, DiskTypes
  <1>2. /\ complete' \subseteq complete /\ complete \ Prunable \subseteq complete'
        /\ \A g \in Ids \ Prunable : linked'[g] = linked[g]
    <2>1. CASE Prune
      BY <1>1, <2>1 DEF Prune
    <2>2. CASE PruneFails
      <3>1. PICK g \in Prunable : \E part \in SUBSET linked[g] :
              LET removed == {h \in Prunable : h < g}
              IN /\ complete' = complete \ removed
                 /\ linked' = [h \in Ids |-> IF h \in removed THEN {}
                                             ELSE IF h = g THEN part ELSE linked[h]]
        BY <2>2 DEF PruneFails
      <3> QED BY <1>1, <3>1
    <2> QED BY <2>1, <2>2
  <1>3. ASSUME NEW g, g \notin Prunable, Whole(g) PROVE Whole(g)'
    <2>1. g \in Ids /\ g \in complete' /\ linked'[g] = linked[g]
      BY <1>1, <1>2, <1>3 DEF Whole
    <2> QED BY <1>0, <1>3, <2>1 DEF Whole
  <1>4. pointer \notin Prunable /\ \A r \in Readers : target[r] \notin Prunable
    BY <1>0, PruneSpares
  <1>5. Bounded'
    BY <1>0 DEF IInv, Bounded
  <1>6. Order'
    <2>1. pointer # None => pointer \in complete'
      BY <1>2, <1>4 DEF IInv, Order
    <2> QED BY <1>0, <1>2, <2>1 DEF IInv, Order
  <1>7. Building'
    BY <1>0 DEF Building
  <1>8. Protected'
    <2>1. pointer' # None => Whole(pointer)'
      <3>1. pointer' = pointer
        BY <1>0
      <3>2. pointer # None => Whole(pointer)
        BY DEF IInv, Protected, PointerWhole
      <3> QED BY <1>3, <1>4, <3>1, <3>2
    <2>2. ASSUME NEW r \in Readers, target'[r] # None PROVE Whole(target[r])'
      BY <1>0, <1>3, <1>4, <2>2 DEF IInv, Protected
    <2> QED BY <2>1, <2>2 DEF Protected, PointerWhole
  <1>9. Lag'
    <2>1. Settled \in SUBSET Ids /\ Settled' \in SUBSET Ids /\ Settled' \subseteq Settled
      BY <1>0, <1>1, <1>2 DEF Settled
    <2>2. ASSUME NEW g PROVE /\ NewerIn(Settled, g) \in Nat /\ NewerIn(Settled', g) \in Nat
                             /\ NewerIn(Settled', g) <= NewerIn(Settled, g)
      BY <2>1, NewerFacts
    <2>3. orphans \in Nat /\ \A r \in Readers : raced[r] \in Nat
      BY DEF IInv, TypeOK, HistoryTypes
    <2>4. pointer # None => Behind(pointer)' <= orphans
      <3>1. Behind(pointer) = NewerIn(Settled, pointer) /\ Behind(pointer)' = NewerIn(Settled', pointer)
        BY <1>0 DEF Behind, NewerIn
      <3> QED BY <2>2, <2>3, <3>1 DEF IInv, Lag
    <2>5. ASSUME NEW r \in Readers, target[r] # None
          PROVE  Behind(target[r])' <= orphans + raced[r]
      <3>1. /\ Behind(target[r]) = NewerIn(Settled, target[r])
            /\ Behind(target[r])' = NewerIn(Settled', target[r])
        BY <1>0 DEF Behind, NewerIn
      <3>2. Behind(target[r]) <= orphans + raced[r]
        BY <2>5 DEF IInv, Lag
      <3> QED BY <2>2, <2>3, <3>1, <3>2
    <2> QED BY <1>0, <2>4, <2>5 DEF IInv, Lag
  <1>10. Loading' /\ Served'
    BY <1>0 DEF IInv, Loading, Served, PublishedFiles
  <1> QED BY <1>5, <1>6, <1>7, <1>8, <1>9, <1>10 DEF Core

\* A load that begins takes the generation state.json names.
LEMMA ReadPointerStep == ASSUME IInv, NEW r \in Readers, ReadPointer(r) PROVE Core'
  <1>0. /\ target[r] = None /\ pointer \notin {None, served[r]}
        /\ target' = [target EXCEPT ![r] = pointer]
        /\ toOpen' = [toOpen EXCEPT ![r] = names[pointer]]
        /\ UNCHANGED <<phase, gen, manifest, plan, wall, complete, names, linked, pointer,
                       opened, served, seen, raced, orphans>>
    BY DEF ReadPointer, buildVars, diskVars, bounds
  <1>1. /\ target \in [Readers -> Ids \cup {None}] /\ toOpen \in [Readers -> SUBSET Files]
        /\ pointer \in Ids /\ served[r] \in Ids \cup {None} /\ orphans \in Nat
    BY <1>0 DEF IInv, TypeOK, PipelineTypes, ReaderTypes, HistoryTypes
  <1>2. Bounded'
    BY <1>0 DEF IInv, Bounded
  <1>3. Order'
    <2>1. served[r] < pointer
      BY <1>0, <1>1 DEF IInv, Order, Ids, None
    <2> QED BY <1>0, <1>1, <2>1 DEF IInv, Order, Ids
  <1>4. Building'
    BY <1>0 DEF IInv, Building, Whole
  <1>5. Protected'
    BY <1>0, <1>1 DEF IInv, Protected, PointerWhole, Whole
  <1>6. \A g : Behind(g)' = Behind(g)
    BY <1>0 DEF Behind, Settled
  <1>7. Lag'
    <2>1. ASSUME NEW q \in Readers
          PROVE  IF target'[q] = None THEN raced[q] = 0
                 ELSE Behind(target'[q]) <= orphans + raced[q]
      <3>1. CASE q = r
        <4>1. Behind(pointer) <= orphans /\ raced[r] = 0
          BY <1>0 DEF IInv, Lag
        <4> QED BY <1>0, <1>1, <3>1, <4>1
      <3>2. CASE q # r
        BY <1>0, <1>1, <3>2 DEF IInv, Lag
      <3> QED BY <3>1, <3>2
    <2>2. \A q \in Readers : Behind(target[q])' = Behind(target'[q])
      BY <1>0 DEF Behind, Settled
    <2>3. pointer # None => Behind(pointer)' <= orphans
      BY <1>0, <1>6 DEF IInv, Lag
    <2> QED BY <1>0, <2>1, <2>2, <2>3 DEF Lag
  <1>8. Loading'
    BY <1>0, <1>1 DEF IInv, Loading
  <1>9. Served'
    BY <1>0 DEF IInv, Served, PublishedFiles
  <1> QED BY <1>2, <1>3, <1>4, <1>5, <1>7, <1>8, <1>9 DEF Core

\* Opening a file of the generation being loaded: a listed one is there.
LEMMA OpenStep ==
  ASSUME IInv, NEW r \in Readers, NEW f \in Files, Open(r, f) PROVE Core'
  <1>0. /\ f \in toOpen[r] /\ toOpen' = [toOpen EXCEPT ![r] = @ \ {f}]
        /\ opened' = [opened EXCEPT ![r] = IF target[r] \in complete /\ f \in linked[target[r]]
                                          THEN @ \cup {f} ELSE @]
        /\ UNCHANGED <<phase, gen, manifest, plan, wall, complete, names, linked, pointer,
                       target, served, seen, raced, orphans>>
    BY DEF Open, buildVars, diskVars, bounds
  <1>1. /\ opened \in [Readers -> SUBSET Files] /\ toOpen \in [Readers -> SUBSET Files]
        /\ complete \in SUBSET Ids
    BY DEF IInv, TypeOK, ReaderTypes, DiskTypes
  <1>2. Bounded' /\ Order'
    BY <1>0 DEF IInv, Bounded, Order
  <1>3. Building' /\ Protected'
    BY <1>0 DEF IInv, Building, Protected, PointerWhole, Whole
  <1>4. Settled' = Settled
    BY <1>0 DEF Settled
  <1>5. Lag'
    BY <1>0, <1>4 DEF IInv, Lag, Behind
  <1>6. Loading'
    <2>1. ASSUME NEW q \in Readers
          PROVE  /\ target[q] # None =>
                      /\ names[target[q]] \cap Listed \subseteq opened'[q] \cup toOpen'[q]
                      /\ opened'[q] \cup toOpen'[q] \subseteq names[target[q]]
                 /\ target[q] = None => opened'[q] = {}
      <3>1. CASE q # r
        BY <1>0, <1>1, <3>1 DEF IInv, Loading
      <3>2. CASE q = r /\ target[r] = None
        BY <1>0, <1>1, <3>2 DEF IInv, Loading, Ids, None
      <3>3. CASE q = r /\ target[r] # None
        <4>1. Whole(target[r])
          BY <3>3 DEF IInv, Protected
        <4>2. /\ names[target[r]] \cap Listed \subseteq opened[r] \cup toOpen[r]
              /\ opened[r] \cup toOpen[r] \subseteq names[target[r]]
          BY <3>3 DEF IInv, Loading
        <4>3. f \in Listed => opened'[r] = opened[r] \cup {f}
          BY <1>0, <1>1, <4>1, <4>2 DEF Whole
        <4> QED BY <1>0, <1>1, <3>3, <4>2, <4>3
      <3> QED BY <3>1, <3>2, <3>3
    <2> QED BY <1>0, <2>1 DEF Loading
  <1>7. Served'
    BY <1>0 DEF IInv, Served, PublishedFiles
  <1> QED BY <1>2, <1>3, <1>5, <1>6, <1>7 DEF Core

\* A load that ends has opened every listed file.
LEMMA ApplyStep == ASSUME IInv, NEW r \in Readers, Apply(r) PROVE Core'
  <1>0. /\ target[r] # None /\ toOpen[r] = {}
        /\ served' = [served EXCEPT ![r] = target[r]]
        /\ seen' = [seen EXCEPT ![r] = opened[r]]
        /\ target' = [target EXCEPT ![r] = None]
        /\ opened' = [opened EXCEPT ![r] = {}]
        /\ raced' = [raced EXCEPT ![r] = 0]
        /\ UNCHANGED <<phase, gen, manifest, plan, wall, complete, names, linked, pointer,
                       toOpen, orphans>>
    BY DEF Apply, buildVars, diskVars, bounds
  <1>1. /\ opened \in [Readers -> SUBSET Files] /\ toOpen \in [Readers -> SUBSET Files]
        /\ seen \in [Readers -> SUBSET Files]
        /\ target \in [Readers -> Ids \cup {None}] /\ served \in [Readers -> Ids \cup {None}]
        /\ raced \in [Readers -> Nat] /\ pointer \in Ids \cup {None} /\ MaxRaced \in Nat
    BY ConstantsAssumption DEF IInv, TypeOK, ReaderTypes, HistoryTypes, PipelineTypes
  <1>2. Bounded'
    BY <1>0, <1>1 DEF IInv, Bounded
  <1>3. Order'
    BY <1>0, <1>1 DEF IInv, Order, Ids, None
  <1>4. Building'
    BY <1>0 DEF IInv, Building, Whole
  <1>5. Protected'
    BY <1>0, <1>1 DEF IInv, Protected, PointerWhole, Whole
  <1>6. Settled' = Settled
    BY <1>0 DEF Settled
  <1>7. Lag'
    BY <1>0, <1>1, <1>6 DEF IInv, Lag, Behind
  <1>8. Loading'
    BY <1>0, <1>1 DEF IInv, Loading
  <1>9. Served'
    <2>1. opened[r] \cap Listed = PublishedFiles(target[r]) \cap Listed
      BY <1>0, <1>1 DEF IInv, Loading, PublishedFiles
    <2> QED BY <1>0, <1>1, <2>1 DEF IInv, Served, PublishedFiles
  <1> QED BY <1>2, <1>3, <1>4, <1>5, <1>7, <1>8, <1>9 DEF Core

\* Every step preserves the invariant.
LEMMA StepIInv == Assumptions /\ IInv /\ [Next]_vars => Core'
  <1> SUFFICES ASSUME Assumptions, IInv, [Next]_vars PROVE Core'
    OBVIOUS
  <1>1. CASE UNCHANGED vars
    <2>1. Quiet
      BY <1>1 DEF Quiet, vars, readerVars, buildVars, diskVars, bounds
    <2> QED BY <2>1, QuietStep
  <1>2. ASSUME NEW f \in Files, Store(f) \/ Forget(f) \/ Reap(f) \/ EvictScanned(f)
        PROVE  Core'
    <2>1. Quiet
      BY <1>2 DEF Quiet, Store, Forget, Reap, EvictScanned, buildVars, diskVars, bounds
    <2> QED BY <2>1, QuietStep
  <1>3. CASE Snapshot \/ SweepFails \/ Walk \/ Restart
    <2>1. Quiet
      BY <1>3 DEF Quiet, Snapshot, SweepFails, Walk, Restart, Return, buildVars,
                  diskVars, bounds
    <2> QED BY <2>1, QuietStep
  <1>4. CASE Crash /\ phase # "complete"
    <2>1. Quiet
      BY <1>4 DEF Quiet, Crash, diskVars
    <2> QED BY <2>1, QuietStep
  <1>5. CASE Stage
    BY <1>5, StageStep
  <1>6. ASSUME NEW f \in Files, Link(f) PROVE Core'
    BY <1>6, LinkStep
  <1>7. CASE LinkFails \/ StageFails
    BY <1>7, AbandonStep
  <1>8. CASE Complete
    BY <1>8, CompleteStep
  <1>9. CASE Publish
    BY <1>9, PublishStep
  <1>10. CASE PublishFails \/ (Crash /\ phase = "complete")
    BY <1>10, OrphanStep
  <1>11. CASE Prune \/ PruneFails
    BY <1>11, PruneStep
  <1>12. ASSUME NEW r \in Readers, ReadPointer(r) PROVE Core'
    BY <1>12, ReadPointerStep
  <1>13. ASSUME NEW r \in Readers, Apply(r) PROVE Core'
    BY <1>13, ApplyStep
  <1>14. ASSUME NEW r \in Readers, NEW f \in Files, Open(r, f) PROVE Core'
    BY <1>14, OpenStep
  <1> QED
    BY <1>1, <1>2, <1>3, <1>4, <1>5, <1>6, <1>7, <1>8, <1>9, <1>10, <1>11,
       <1>12, <1>13, <1>14 DEF Next, Publication

\* IInv is an invariant of the publication.
THEOREM GenerationInvariance == ASSUME Assumptions PROVE Spec => []IInv
  <1>1. Init => IInv
    BY InitIInv
  <1>2. IInv /\ [Next]_vars => IInv'
    <2> SUFFICES ASSUME IInv, [Next]_vars PROVE IInv'
      OBVIOUS
    <2>1. TypeOK'
      BY StepTypeOK DEF IInv
    <2>2. Core'
      BY StepIInv
    <2> QED BY <2>1, <2>2 DEF IInv, Core
  <1> QED BY <1>1, <1>2, PTL DEF Spec

\* state.json always names a generation that is there as a whole, whatever
\* fails and wherever the pipeline dies.
THEOREM PointerSafe == ASSUME Assumptions PROVE Spec => []PointerWhole
  <1>1. IInv => PointerWhole
    BY DEF IInv, Protected
  <1> QED BY <1>1, GenerationInvariance, PTL

\* A reader that applied a generation opened every listed file it names.
THEOREM ReadersSafe == ASSUME Assumptions PROVE Spec => []ReadersSeeWhole
  <1>1. IInv => ReadersSeeWhole
    BY DEF IInv, Served, ReadersSeeWhole, PublishedFiles
  <1> QED BY <1>1, GenerationInvariance, PTL

-----------------------------------------------------------------------------
(* The publication keeps the promise of StatePromise.                       *)

\* What the mapping shows a reader of the promise.
Current == Shot(pointer, PublishedFiles(pointer))
Reading == [r \in Readers |-> Shot(target[r], PublishedFiles(target[r]))]
View == [r \in Readers |-> Shot(served[r], seen[r])]

\* The snapshot a reader that loads nothing is shown to load.
LEMMA NothingShown == Shot(None, PublishedFiles(None)) = Promise!NoSnapshot
  BY DEF Shot, PublishedFiles, None, Promise!NoSnapshot

\* Steps that leave every name in use alone are stuttering steps.
LEMMA StutterStep ==
  ASSUME UNCHANGED <<pointer, target, served, seen>>,
         \A g : g = pointer \/ (\E r \in Readers : g = target[r]) =>
            PublishedFiles(g)' = PublishedFiles(g)
  PROVE  UNCHANGED <<Current, Reading, View>>
  <1>1. Current' = Current
    <2>1. PublishedFiles(pointer)' = PublishedFiles(pointer)
      OBVIOUS
    <2> QED BY <2>1 DEF Current, Shot
  <1>2. Reading' = Reading
    <2>1. \A r \in Readers : PublishedFiles(target[r])' = PublishedFiles(target[r])
      OBVIOUS
    <2> QED BY <2>1 DEF Reading, Shot
  <1>3. View' = View
    BY DEF View, Shot
  <1> QED BY <1>1, <1>2, <1>3

\* Replacing state.json is a Publish of the promise.
LEMMA PublishMapped == ASSUME IInv, Publish PROVE Promise!Publish
  <1>0. /\ phase = "complete" /\ pointer' = gen
        /\ UNCHANGED <<names, target, served, seen>>
    BY DEF Publish, readerVars, diskVars
  <1>1. gen \in Ids /\ pointer < gen /\ names \in [Ids -> SUBSET Files]
    BY <1>0 DEF IInv, TypeOK, PipelineTypes, DiskTypes, Order
  <1>2. Current' = Shot(gen, names[gen])
    <2>1. gen # None
      BY <1>1 DEF Ids, None
    <2> QED BY <1>0, <2>1 DEF Current, Shot, PublishedFiles
  <1>3. /\ Current' \in Promise!Snapshots
        /\ Current'.id > Current.id
    <2>1. Current'.id = gen /\ Current.id = pointer
      BY <1>2 DEF Current, Shot
    <2>2. names[gen] \cap Listed \in SUBSET Listed /\ gen \in Nat
      BY <1>1 DEF Ids
    <2>3. Current' \in Promise!Snapshots
      BY <1>2, <2>2 DEF Shot, Promise!Snapshots
    <2>4. pointer \in Int /\ gen \in Int
      BY <1>1 DEF IInv, TypeOK, PipelineTypes, Ids, None
    <2> QED BY <1>1, <2>1, <2>3, <2>4
  <1>4. Reading' = Reading /\ View' = View
    BY <1>0 DEF Reading, View, Shot, PublishedFiles
  <1> QED BY <1>3, <1>4 DEF Promise!Publish, Current, Reading, View

\* Reading state.json is a BeginRead of the promise.
LEMMA ReadPointerMapped ==
  ASSUME IInv, NEW r \in Readers, ReadPointer(r) PROVE Promise!BeginRead(r)
  <1>0. /\ target[r] = None /\ pointer # None
        /\ target' = [target EXCEPT ![r] = pointer]
        /\ UNCHANGED <<names, pointer, served, seen>>
    BY DEF ReadPointer, diskVars
  <1>1. target \in [Readers -> Ids \cup {None}]
    BY DEF IInv, TypeOK, ReaderTypes
  <1>2. Reading[r] = Promise!NoSnapshot
    BY <1>0, NothingShown DEF Reading
  <1>3. Current # Promise!NoSnapshot
    BY <1>0 DEF Current, Shot, Promise!NoSnapshot, None
  <1>4. Reading' = [Reading EXCEPT ![r] = Current]
    BY <1>0, <1>1 DEF Reading, Current, Shot, PublishedFiles
  <1>5. Current' = Current /\ View' = View
    BY <1>0 DEF Current, View, Shot, PublishedFiles
  <1> QED BY <1>2, <1>3, <1>4, <1>5 DEF Promise!BeginRead, Current, Reading, View

\* The end of a load is an Adopt of the promise: every listed file was opened.
LEMMA ApplyMapped ==
  ASSUME IInv, NEW r \in Readers, Apply(r) PROVE Promise!Adopt(r)
  <1>0. /\ target[r] # None /\ toOpen[r] = {}
        /\ served' = [served EXCEPT ![r] = target[r]]
        /\ seen' = [seen EXCEPT ![r] = opened[r]]
        /\ target' = [target EXCEPT ![r] = None]
        /\ UNCHANGED <<names, pointer>>
    BY DEF Apply, diskVars
  <1>1. /\ target \in [Readers -> Ids \cup {None}] /\ served \in [Readers -> Ids \cup {None}]
        /\ seen \in [Readers -> SUBSET Files] /\ opened \in [Readers -> SUBSET Files]
    BY DEF IInv, TypeOK, ReaderTypes
  <1>2. opened[r] \cap Listed = PublishedFiles(target[r]) \cap Listed
    BY <1>0, <1>1 DEF IInv, Loading, PublishedFiles
  <1>3. Reading[r] # Promise!NoSnapshot
    BY <1>0 DEF Reading, Shot, Promise!NoSnapshot, None
  <1>4. Reading[r].id > View[r].id
    <2>1. Reading[r].id = target[r] /\ View[r].id = served[r]
      BY DEF Reading, View, Shot
    <2>2. served[r] < target[r]
      BY <1>0 DEF IInv, Order
    <2>3. served[r] \in Int /\ target[r] \in Int
      BY <1>1 DEF Ids, None
    <2> QED BY <2>1, <2>2, <2>3
  <1>5. View' = [View EXCEPT ![r] = Reading[r]]
    BY <1>0, <1>1, <1>2 DEF View, Reading, Shot
  <1>6. Reading' = [Reading EXCEPT ![r] = Promise!NoSnapshot]
    <2>1. ASSUME NEW q \in Readers
          PROVE Reading'[q] = [Reading EXCEPT ![r] = Promise!NoSnapshot][q]
      <3>1. CASE q = r
        BY <1>0, <1>1, <3>1, NothingShown DEF Reading, PublishedFiles, Shot, None
      <3>2. CASE q # r
        BY <1>0, <1>1, <3>2 DEF Reading, Shot, PublishedFiles
      <3> QED BY <3>1, <3>2
    <2> QED BY <2>1 DEF Reading
  <1>7. Current' = Current
    BY <1>0 DEF Current, Shot, PublishedFiles
  <1> QED BY <1>3, <1>4, <1>5, <1>6, <1>7 DEF Promise!Adopt, Current, Reading, View

\* A rename names a generation nobody refers to yet.
LEMMA CompleteMapped ==
  ASSUME IInv, Complete PROVE UNCHANGED <<Current, Reading, View>>
  <1>0. /\ phase = "link" /\ names' = [names EXCEPT ![gen] = manifest]
        /\ UNCHANGED <<pointer, target, served, seen>>
    BY DEF Complete, readerVars
  <1>1. gen # pointer /\ \A r \in Readers : gen # target[r]
    BY <1>0, BuildingApart
  <1>2. /\ names \in [Ids -> SUBSET Files] /\ pointer \in Ids \cup {None}
        /\ target \in [Readers -> Ids \cup {None}]
    BY DEF IInv, TypeOK, PipelineTypes, DiskTypes, ReaderTypes
  <1>3. ASSUME NEW g \in Ids \cup {None}, g # gen
        PROVE PublishedFiles(g)' = PublishedFiles(g)
    BY <1>0, <1>2, <1>3 DEF PublishedFiles
  <1>4. \A g : g = pointer \/ (\E r \in Readers : g = target[r]) =>
           PublishedFiles(g)' = PublishedFiles(g)
    BY <1>1, <1>2, <1>3
  <1> QED BY <1>0, <1>4, StutterStep

\* Every step is a step of the promise, or changes nothing it shows.
LEMMA StepMapped ==
  ASSUME IInv, [Next]_vars
  PROVE  [Promise!Next]_<<Current, Reading, View>>
  <1>1. CASE Publish
    BY <1>1, PublishMapped DEF Promise!Next
  <1>2. ASSUME NEW r \in Readers, ReadPointer(r) PROVE Promise!Next
    BY <1>2, ReadPointerMapped DEF Promise!Next
  <1>3. ASSUME NEW r \in Readers, Apply(r) PROVE Promise!Next
    BY <1>3, ApplyMapped DEF Promise!Next
  <1>4. CASE Complete
    BY <1>4, CompleteMapped
  <1>5. ASSUME UNCHANGED <<names, pointer, target, served, seen>>
        PROVE  UNCHANGED <<Current, Reading, View>>
    BY <1>5, StutterStep DEF PublishedFiles
  <1>6. ASSUME NEW f \in Files, Store(f) \/ Forget(f) \/ Reap(f) \/ EvictScanned(f) \/ Link(f)
        PROVE  UNCHANGED <<names, pointer, target, served, seen>>
    BY <1>6 DEF Store, Forget, Reap, EvictScanned, Link, readerVars, diskVars
  <1>7. CASE Snapshot \/ Stage \/ SweepFails \/ Walk \/ LinkFails \/ StageFails
             \/ PublishFails \/ Prune \/ PruneFails
    <2>1. UNCHANGED <<names, pointer, target, served, seen>>
      BY <1>7 DEF Snapshot, Stage, SweepFails, Walk, LinkFails, StageFails, Abandon,
                  PublishFails, Prune, PruneFails, readerVars, diskVars
    <2> QED BY <2>1, <1>5
  <1>8. CASE Crash \/ Restart \/ UNCHANGED vars
    <2>1. UNCHANGED <<names, pointer, target, served, seen>>
      BY <1>8 DEF Crash, Restart, vars, readerVars, diskVars
    <2> QED BY <2>1, <1>5
  <1>9. ASSUME NEW r \in Readers, NEW f \in Files, Open(r, f)
        PROVE  UNCHANGED <<names, pointer, target, served, seen>>
    BY <1>9 DEF Open, diskVars
  <1> QED
    BY <1>1, <1>2, <1>3, <1>4, <1>5, <1>6, <1>7, <1>8, <1>9 DEF Next, Publication

\* The publication implements the promise: a worker that reloads passes from
\* one published snapshot to a later one, each as a whole.
THEOREM Refinement == ASSUME Assumptions PROVE Spec => KeepsPromise
  <1>1. Init => Promise!Init
    BY DEF Init, Promise!Init, Promise!NoSnapshot, Shot, PublishedFiles, None
  <1>2. IInv /\ [Next]_vars =>
          [Promise!Next]_<<Shot(pointer, PublishedFiles(pointer)),
                           [r \in Readers |-> Shot(target[r], PublishedFiles(target[r]))],
                           [r \in Readers |-> Shot(served[r], seen[r])]>>
    BY StepMapped DEF Current, Reading, View
  <1> QED BY <1>1, <1>2, GenerationInvariance, PTL DEF Spec, KeepsPromise, Promise!Spec
=============================================================================
