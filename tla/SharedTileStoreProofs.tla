----------------------- MODULE SharedTileStoreProofs -----------------------
(***************************************************************************)
(* Proofs about SharedTileStore, for any keys, publishers, readers and      *)
(* inodes: what a key's readers find was encoded for that key, a sweep      *)
(* leaves none of the files it began with, a prune ends within its budget,  *)
(* and, while nothing fails, identical publishes of a key converge.         *)
(***************************************************************************)
EXTENDS SharedTileStore, FiniteSetTheorems, TLAPS

\* The initial state satisfies both invariants.
LEMMA InitIInv == Init => IInvWhole
  <1> SUFFICES ASSUME Init PROVE IInvWhole
    OBVIOUS
  <1>1. TypeOK
    BY StoreAssumption
    DEF Init, TypeOK, PublisherState, ReaderState, Content, IdlePublisher, IdleReader,
        IdleSweeper, IdlePruner
  <1>2. HandlesOpen /\ ReadsOwnKey
    BY StoreAssumption
    DEF Init, HandlesOpen, ReadsOwnKey, IdlePublisher, IdleReader, Tiles
  <1>3. KeysApart
    BY StoreAssumption DEF Init, KeysApart, Uses, IdlePublisher, IdleReader
  <1>4. /\ TmpUnpublished /\ SweepCatchesAll /\ TmpHasWriter /\ EmptiedHasWriter
        /\ NoneMixed
    BY StoreAssumption
    DEF Init, TmpUnpublished, SweepCatchesAll, TmpHasWriter, EmptiedHasWriter, NoneMixed
  <1> QED BY <1>1, <1>2, <1>3, <1>4 DEF IInv, IInvWhole

\* A step that gives no inode to a name or a handle and writes none keeps the
\* keys apart.
LEMMA NoNewUse ==
  ASSUME KeysApart, content' = content,
         \A i \in Inodes : \A k \in Keys : Uses(i, k)' => Uses(i, k)
  PROVE  KeysApart'
  BY DEF KeysApart

\* A publisher that opens the temporary file has one nobody uses, or that of
\* its own key.
LEMMA OpenStep ==
  ASSUME IInv, NEW p \in Publishers, NEW k \in Keys, NEW b \in Encodings, Open(p, k, b)
  PROVE  IInv'
  <1> DEFINE m(i) == [step |-> "opened", key |-> k, bytes |-> b, fd |-> i]
  <1>0. /\ TypeOK /\ HandlesOpen /\ KeysApart /\ TmpUnpublished
        /\ UNCHANGED <<final, reader, sweeper, pruner, failures>>
    BY DEF IInv, Open
  <1>1. PICK i \in Inodes :
          /\ i \in Free \/ i = tmp[k]
          /\ tmp' = [tmp EXCEPT ![k] = i]
          /\ content' = [j \in Inodes |-> IF j \in Free \cup {i} THEN Partial ELSE content[j]]
          /\ publisher' = [publisher EXCEPT ![p] = m(i)]
    <2>1. PICK i \in IF tmp[k] = None THEN Free ELSE {tmp[k]} :
            /\ tmp' = [tmp EXCEPT ![k] = i]
            /\ content' = [j \in Inodes |-> IF j \in Free \cup {i} THEN Partial ELSE content[j]]
            /\ publisher' = [publisher EXCEPT ![p] = m(i)]
      BY DEF Open, TmpName
    <2>2. i \in Inodes /\ (i \in Free \/ i = tmp[k])
      BY <1>0 DEF TypeOK, Free
    <2> QED BY <2>1, <2>2
  <1>2. m(i) \in PublisherState
    BY DEF PublisherState
  <1>3. /\ m(i).step = "opened" /\ m(i).key = k /\ m(i).bytes = b /\ m(i).fd = i
    OBVIOUS
  <1> HIDE DEF m
  <1>4. /\ publisher'[p] = m(i)
        /\ \A q \in Publishers \ {p} : publisher'[q] = publisher[q]
        /\ tmp'[k] = i /\ \A l \in Keys \ {k} : tmp'[l] = tmp[l]
    BY <1>0, <1>1 DEF TypeOK
  <1>5. TypeOK'
    BY <1>0, <1>1, <1>2 DEF TypeOK, Content
  <1>6. HandlesOpen' /\ ReadsOwnKey' /\ SweepCatchesAll'
    BY <1>0, <1>3, <1>4 DEF HandlesOpen, ReadsOwnKey, SweepCatchesAll, IInv
  <1>7. \A j \in Inodes : \A l \in Keys : Uses(j, l)' => Uses(j, l) \/ (j = i /\ l = k)
    BY <1>0, <1>3, <1>4 DEF Uses
  <1>8. \A l \in Keys : Uses(i, l) => l = k
    BY <1>0, <1>1 DEF Free, Uses, KeysApart
  <1>9. KeysApart'
    <2> SUFFICES ASSUME NEW j \in Inodes, NEW l \in Keys, Uses(j, l)'
                 PROVE  /\ content'[j] \in Tiles => content'[j].key = l
                        /\ \A n \in Keys : Uses(j, n)' => l = n
      BY DEF KeysApart
    <2>1. content'[j] \in Tiles => content'[j].key = l
      <3>1. CASE j = i
        BY <1>1, <3>1, StoreAssumption DEF Tiles
      <3>2. CASE j # i
        BY <1>0, <1>1, <1>7, <3>2, StoreAssumption DEF Tiles, KeysApart
      <3> QED BY <3>1, <3>2
    <2>2. \A n \in Keys : Uses(j, n)' => l = n
      BY <1>0, <1>7, <1>8 DEF KeysApart
    <2> QED BY <2>1, <2>2
  <1>10. TmpUnpublished'
    BY <1>0, <1>1, <1>4 DEF TmpUnpublished, Free
  <1> QED BY <1>5, <1>6, <1>9, <1>10 DEF IInv

\* A write fills the file of the publisher's own key.
LEMMA WriteStep ==
  ASSUME IInv, NEW p \in Publishers, Write(p) \/ WriteFails(p) PROVE IInv'
  <1> DEFINE i == publisher[p].fd
             t == [key |-> publisher[p].key, bytes |-> publisher[p].bytes]
             m == [publisher[p] EXCEPT !.step = IF Write(p) THEN "written" ELSE "cleanup",
                                       !.fd = None]
  <1>0. /\ TypeOK /\ HandlesOpen /\ KeysApart
        /\ UNCHANGED <<tmp, final, reader, sweeper, pruner>>
        /\ publisher[p].step = "opened"
        /\ publisher[p] \in PublisherState
        /\ failures' = failures \/ Fails
    BY DEF IInv, Write, WriteFails, TypeOK
  <1>1. i \in Inodes /\ publisher[p].key \in Keys /\ t \in Tiles /\ t.key = publisher[p].key
    BY <1>0 DEF HandlesOpen, Tiles
  <1>2. PICK c \in {t, Mixed, content[i]} : content' = [content EXCEPT ![i] = c]
    BY DEF Write, WriteFails, CutShort, Overwritten
  <1>3. /\ m \in PublisherState /\ m.step \in {"written", "cleanup"} /\ m.fd = None
        /\ m.key = publisher[p].key
    BY <1>0 DEF PublisherState
  <1>4. publisher' = [publisher EXCEPT ![p] = m]
    <2>1. CASE Write(p)
      BY <1>0, <2>1 DEF Write, TypeOK, PublisherState
    <2>2. CASE ~Write(p)
      BY <1>0, <2>2 DEF WriteFails, TypeOK, PublisherState
    <2> QED BY <2>1, <2>2
  <1>5. Uses(i, publisher[p].key)
    BY DEF Uses
  <1> HIDE DEF i, t, m
  <1>6. publisher'[p] = m /\ \A q \in Publishers \ {p} : publisher'[q] = publisher[q]
    BY <1>0, <1>4 DEF TypeOK
  <1>7. TypeOK'
    <2>1. failures' \in 0 .. MaxFailures
      BY <1>0, StoreAssumption DEF Fails, TypeOK
    <2> QED BY <1>0, <1>1, <1>2, <1>3, <1>4, <2>1 DEF TypeOK, Content
  <1>8. HandlesOpen' /\ ReadsOwnKey' /\ SweepCatchesAll' /\ TmpUnpublished'
    BY <1>0, <1>1, <1>3, <1>6
    DEF HandlesOpen, ReadsOwnKey, SweepCatchesAll, TmpUnpublished, IInv
  <1>9. \A j \in Inodes : \A l \in Keys : Uses(j, l)' => Uses(j, l)
    BY <1>0, <1>3, <1>6, StoreAssumption DEF Uses
  <1>10. KeysApart'
    <2> SUFFICES ASSUME NEW j \in Inodes, NEW l \in Keys, Uses(j, l)'
                 PROVE  /\ content'[j] \in Tiles => content'[j].key = l
                        /\ \A n \in Keys : Uses(j, n)' => l = n
      BY DEF KeysApart
    <2>1. \A n \in Keys : Uses(j, n)' => l = n
      BY <1>0, <1>9 DEF KeysApart
    <2>2. CASE j = i
      <3>1. l = publisher[p].key
        BY <1>0, <1>1, <1>5, <1>9, <2>2 DEF KeysApart
      <3>2. content'[j] = c
        BY <1>0, <1>1, <1>2, <2>2 DEF TypeOK
      <3>3. content[i] \in Tiles => content[i].key = l
        BY <1>0, <1>1, <1>5, <3>1 DEF KeysApart
      <3> QED BY <1>1, <2>1, <2>2, <3>1, <3>2, <3>3, StoreAssumption DEF Tiles
    <2>3. CASE j # i
      BY <1>0, <1>2, <1>9, <2>1, <2>3 DEF KeysApart, TypeOK
    <2> QED BY <2>2, <2>3
  <1> QED BY <1>7, <1>8, <1>10 DEF IInv

\* A rename moves the temporary file of a key to its published name, if there
\* is one.
LEMMA ReplaceStep == ASSUME IInv, NEW p \in Publishers, Replace(p) PROVE IInv'
  <1> DEFINE k == publisher[p].key
  <1>0. /\ TypeOK /\ HandlesOpen /\ KeysApart /\ TmpUnpublished /\ SweepCatchesAll
        /\ UNCHANGED <<content, reader, sweeper, failures>>
        /\ publisher[p] \in PublisherState
        /\ k \in Keys
    BY DEF IInv, Replace, Replaceable, TypeOK, HandlesOpen
  <1>1. IdlePublisher \in PublisherState /\ IdlePublisher.fd = None
        /\ IdlePublisher.step = "idle"
    BY DEF IdlePublisher, PublisherState
  <1>2. CASE tmp[k] # None
    <2>1. /\ final' = [final EXCEPT ![k] = tmp[k]]
          /\ tmp' = [tmp EXCEPT ![k] = None]
          /\ publisher' = [publisher EXCEPT ![p] = IdlePublisher]
          /\ pruner' \in {pruner, [pruner EXCEPT !.spared = @ \cup {k}]}
      BY <1>2 DEF Replace, Renamed, TmpName
    <2> HIDE DEF k
    <2>2. /\ publisher'[p] = IdlePublisher
          /\ \A q \in Publishers \ {p} : publisher'[q] = publisher[q]
          /\ tmp'[k] = None /\ \A l \in Keys \ {k} : tmp'[l] = tmp[l]
          /\ final'[k] = tmp[k] /\ \A l \in Keys \ {k} : final'[l] = final[l]
      BY <1>0, <2>1 DEF TypeOK
    <2>3. TypeOK'
      BY <1>0, <1>1, <2>1 DEF TypeOK
    <2>4. HandlesOpen' /\ ReadsOwnKey'
      BY <1>0, <1>1, <2>2 DEF HandlesOpen, ReadsOwnKey, IInv
    <2>5. \A j \in Inodes : \A l \in Keys : Uses(j, l)' => Uses(j, l)
      BY <1>0, <1>1, <2>2, StoreAssumption DEF Uses
    <2>6. KeysApart'
      BY <1>0, <2>5, NoNewUse
    <2>7. TmpUnpublished' /\ SweepCatchesAll'
      BY <1>0, <1>2, <2>2 DEF TmpUnpublished, SweepCatchesAll
    <2> QED BY <2>3, <2>4, <2>6, <2>7 DEF IInv
  <1>3. CASE tmp[k] = None
    <2> DEFINE m == [publisher[p] EXCEPT !.step = "cleanup"]
    <2>1. UNCHANGED <<tmp, final, pruner>> /\ publisher' = [publisher EXCEPT ![p] = m]
      BY <1>0, <1>3 DEF Replace, TmpName, TypeOK, PublisherState
    <2>2. m \in PublisherState /\ m.step = "cleanup" /\ m.key = k /\ m.fd = publisher[p].fd
      BY <1>0 DEF PublisherState
    <2> HIDE DEF k, m
    <2>3. publisher'[p] = m /\ \A q \in Publishers \ {p} : publisher'[q] = publisher[q]
      BY <1>0, <2>1 DEF TypeOK
    <2>4. TypeOK'
      BY <1>0, <2>1, <2>2 DEF TypeOK
    <2>5. HandlesOpen' /\ ReadsOwnKey' /\ TmpUnpublished' /\ SweepCatchesAll'
      BY <1>0, <2>1, <2>2, <2>3
      DEF HandlesOpen, ReadsOwnKey, IInv, TmpUnpublished, SweepCatchesAll
    <2>6. \A j \in Inodes : \A l \in Keys : Uses(j, l)' => Uses(j, l)
      BY <1>0, <2>1, <2>2, <2>3 DEF Uses, k
    <2>7. KeysApart'
      BY <1>0, <2>6, NoNewUse
    <2> QED BY <2>4, <2>5, <2>7 DEF IInv
  <1> QED BY <1>2, <1>3

\* The failures of a publish, its cleanup and a swept temporary file take
\* names and handles away.
LEMMA DropStep ==
  ASSUME IInv,
         \/ \E p \in Publishers :
              \/ Cleanup(p) \/ Die(p)
              \/ \E k \in Keys, b \in Encodings : OpenFails(p, k, b)
         \/ \E k \in Keys : SweepTmp(k)
  PROVE  IInv'
  <1>0. /\ TypeOK /\ HandlesOpen /\ KeysApart /\ TmpUnpublished /\ SweepCatchesAll
        /\ UNCHANGED <<final, content, reader, sweeper, pruner>>
    BY DEF IInv, Cleanup, Die, OpenFails, SweepTmp
  <1>1. failures' \in 0 .. MaxFailures
    <2>1. failures' = failures \/ Fails
      BY DEF Cleanup, Die, OpenFails, SweepTmp
    <2> QED BY <1>0, <2>1, StoreAssumption DEF Fails, TypeOK
  <1>2. /\ tmp' \in [Keys -> Inodes \cup {None}]
        /\ \A l \in Keys : tmp'[l] \in {tmp[l], None}
    BY <1>0 DEF Cleanup, Die, OpenFails, SweepTmp, TypeOK, TmpName
  <1>3. publisher' = publisher \/ \E p \in Publishers, m \in PublisherState :
          /\ publisher' = [publisher EXCEPT ![p] = m]
          /\ m.fd = None /\ m.step # "opened" /\ (m.step # "idle" => m.key \in Keys)
    <2>1. CASE \E k \in Keys : SweepTmp(k)
      BY <2>1 DEF SweepTmp
    <2>2. CASE \E p \in Publishers : Cleanup(p) \/ Die(p)
      <3>1. /\ IdlePublisher \in PublisherState /\ IdlePublisher.fd = None
            /\ IdlePublisher.step = "idle"
        BY DEF IdlePublisher, PublisherState
      <3> QED BY <2>2, <3>1 DEF Cleanup, Die
    <2>3. ASSUME NEW p \in Publishers, NEW k \in Keys, NEW b \in Encodings, OpenFails(p, k, b)
          PROVE  \E m \in PublisherState :
                   /\ publisher' = [publisher EXCEPT ![p] = m]
                   /\ m.fd = None /\ m.step # "opened" /\ (m.step # "idle" => m.key \in Keys)
      <3> DEFINE m == [step |-> "cleanup", key |-> k, bytes |-> b, fd |-> None]
      <3>1. m \in PublisherState /\ m.fd = None /\ m.step = "cleanup" /\ m.key \in Keys
        BY DEF PublisherState
      <3>2. publisher' = [publisher EXCEPT ![p] = m]
        BY <2>3 DEF OpenFails
      <3> HIDE DEF m
      <3> QED BY <3>1, <3>2
    <2> QED BY <2>1, <2>2, <2>3
  <1>4. TypeOK'
    BY <1>0, <1>1, <1>2, <1>3 DEF TypeOK
  <1>5. \A q \in Publishers :
          \/ publisher'[q] = publisher[q]
          \/ /\ publisher'[q].fd = None /\ publisher'[q].step # "opened"
             /\ publisher'[q].step # "idle" => publisher'[q].key \in Keys
    BY <1>0, <1>3 DEF TypeOK
  <1>6. HandlesOpen' /\ ReadsOwnKey' /\ TmpUnpublished' /\ SweepCatchesAll'
    BY <1>0, <1>2, <1>5 DEF HandlesOpen, ReadsOwnKey, IInv, TmpUnpublished, SweepCatchesAll
  <1>7. \A j \in Inodes : \A l \in Keys : Uses(j, l)' => Uses(j, l)
    BY <1>0, <1>2, <1>5, StoreAssumption DEF Uses
  <1>8. KeysApart'
    BY <1>0, <1>7, NoNewUse
  <1> QED BY <1>4, <1>6, <1>8 DEF IInv

\* A reader holds the file it opened and takes what it then holds.
LEMMA ReaderStep == ASSUME IInv, NEW r \in Readers, Get(r) PROVE IInv'
  <1>0. /\ TypeOK /\ HandlesOpen /\ KeysApart /\ ReadsOwnKey
        /\ UNCHANGED <<tmp, final, content, publisher, sweeper, pruner, failures>>
        /\ reader[r] \in ReaderState
    BY DEF IInv, Get, OpenFinal, Read, Served, TypeOK
  <1>1. PICK m \in ReaderState :
          /\ reader' = [reader EXCEPT ![r] = m]
          /\ m.fd = None \/ (m.fd \in Inodes /\ m.key \in Keys /\ Uses(m.fd, m.key))
          /\ m.step = "open" => m.fd # None
          /\ m.data \in Tiles => m.data.key = m.key
    <2> DEFINE Good(m) ==
          /\ reader' = [reader EXCEPT ![r] = m]
          /\ m.fd = None \/ (m.fd \in Inodes /\ m.key \in Keys /\ Uses(m.fd, m.key))
          /\ m.step = "open" => m.fd # None
          /\ m.data \in Tiles => m.data.key = m.key
    <2>1. ASSUME NEW k \in Keys, OpenFinal(r, k) PROVE \E m \in ReaderState : Good(m)
      <3> DEFINE m == [step |-> "open", key |-> k, fd |-> final[k], data |-> None]
      <3>1. final[k] \in Inodes /\ Uses(final[k], k)
        BY <1>0, <2>1 DEF OpenFinal, TypeOK, Uses
      <3>2. /\ m \in ReaderState /\ m.fd = final[k] /\ m.key = k /\ m.step = "open"
            /\ m.data = None
        BY <3>1 DEF ReaderState
      <3>3. reader' = [reader EXCEPT ![r] = m]
        BY <2>1 DEF OpenFinal
      <3> HIDE DEF m
      <3> QED BY <3>1, <3>2, <3>3, StoreAssumption DEF Tiles
    <2>2. CASE Read(r)
      <3> DEFINE m == [reader[r] EXCEPT !.step = "served", !.fd = None,
                                        !.data = content[reader[r].fd]]
      <3>1. /\ reader[r].fd \in Inodes /\ reader[r].key \in Keys
            /\ Uses(reader[r].fd, reader[r].key)
        BY <1>0, <2>2 DEF Read, HandlesOpen, Uses
      <3>2. content[reader[r].fd] \in Content
        BY <1>0, <3>1 DEF TypeOK
      <3>3. /\ m \in ReaderState /\ m.fd = None /\ m.key = reader[r].key
            /\ m.step = "served" /\ m.data = content[reader[r].fd]
        BY <1>0, <3>2 DEF ReaderState
      <3>4. reader' = [reader EXCEPT ![r] = m]
        BY <1>0, <2>2 DEF Read, TypeOK, ReaderState
      <3> HIDE DEF m
      <3> QED BY <1>0, <3>1, <3>3, <3>4 DEF KeysApart
    <2>3. CASE Served(r)
      <3>1. /\ IdleReader \in ReaderState /\ IdleReader.fd = None
            /\ IdleReader.step = "idle" /\ IdleReader.data = None
        BY DEF IdleReader, ReaderState
      <3>2. reader' = [reader EXCEPT ![r] = IdleReader]
        BY <2>3 DEF Served
      <3> QED BY <3>1, <3>2, StoreAssumption DEF Tiles
    <2> QED BY <2>1, <2>2, <2>3 DEF Get
  <1>2. reader'[r] = m /\ \A q \in Readers \ {r} : reader'[q] = reader[q]
    BY <1>0, <1>1 DEF TypeOK
  <1>3. TypeOK'
    BY <1>0, <1>1 DEF TypeOK
  <1>4. HandlesOpen' /\ ReadsOwnKey' /\ TmpUnpublished' /\ SweepCatchesAll'
    BY <1>0, <1>1, <1>2 DEF HandlesOpen, ReadsOwnKey, IInv, TmpUnpublished, SweepCatchesAll
  <1>5. \A j \in Inodes : \A l \in Keys : Uses(j, l)' => Uses(j, l)
    <2> SUFFICES ASSUME NEW j \in Inodes, NEW l \in Keys, Uses(j, l)' PROVE Uses(j, l)
      OBVIOUS
    <2>1. CASE reader'[r].fd = j /\ reader'[r].key = l
      BY <1>1, <1>2, <2>1, StoreAssumption
    <2>2. CASE ~(reader'[r].fd = j /\ reader'[r].key = l)
      BY <1>0, <1>2, <2>2 DEF Uses
    <2> QED BY <2>1, <2>2
  <1>6. KeysApart'
    BY <1>0, <1>5, NoNewUse
  <1> QED BY <1>3, <1>4, <1>6 DEF IInv

\* The files a sweep lists belong to one key each, and none has a temporary
\* name.
LEMMA BeginSweepStep == ASSUME IInv, NEW K \in SUBSET Keys, BeginSweep(K) PROVE IInv'
  <1>0. /\ TypeOK /\ KeysApart /\ TmpUnpublished /\ SweepCatchesAll
        /\ UNCHANGED <<tmp, final, content, publisher, reader, pruner, failures>>
        /\ sweeper' = [step |-> "sweep", left |-> Listed(K),
                       old |-> {final[k] : k \in Listed(K)}]
    BY DEF IInv, BeginSweep
  <1>1. /\ Listed(K) \in SUBSET Keys
        /\ \A k \in Listed(K) : final[k] \in Inodes
    BY <1>0 DEF Listed, Published, TypeOK
  <1>2. sweeper'.left = Listed(K) /\ sweeper'.old = {final[k] : k \in Listed(K)}
    BY <1>0
  <1>3. TypeOK'
    BY <1>0, <1>1 DEF TypeOK
  <1>4. \A k, l \in Keys : final[k] \in Inodes /\ (final[k] = final[l] \/ final[k] = tmp[l])
                             => k = l
    BY <1>0 DEF KeysApart, Uses
  <1>5. SweepCatchesAll'
    BY <1>0, <1>1, <1>2, <1>4 DEF SweepCatchesAll
  <1>6. TmpUnpublished'
    BY <1>0, <1>1, <1>2, <1>4 DEF TmpUnpublished
  <1>7. HandlesOpen' /\ KeysApart' /\ ReadsOwnKey'
    BY <1>0 DEF IInv, HandlesOpen, KeysApart, ReadsOwnKey, Uses
  <1> QED BY <1>3, <1>5, <1>6, <1>7 DEF IInv

\* The other steps of a sweep and a prune only take published names away.
LEMMA UnlinkStep ==
  ASSUME IInv,
         \/ \E k \in Keys : SweepFinal(k) \/ SweepSkips(k) \/ PruneOne(k) \/ PruneSkips(k)
         \/ EndSweep \/ BeginPrune \/ EndPrune
  PROVE  IInv'
  <1>0. /\ TypeOK /\ HandlesOpen /\ KeysApart /\ TmpUnpublished /\ SweepCatchesAll
        /\ UNCHANGED <<tmp, content, publisher, reader>>
    BY DEF IInv, SweepFinal, SweepSkips, PruneOne, PruneSkips, EndSweep, BeginPrune, EndPrune
  <1>1. /\ final' \in [Keys -> Inodes \cup {None}]
        /\ \A l \in Keys : final'[l] \in {final[l], None}
    BY <1>0
    DEF SweepFinal, SweepSkips, PruneOne, PruneSkips, EndSweep, BeginPrune, EndPrune,
        Unlinked, TypeOK
  <1>2. failures' \in 0 .. MaxFailures
    <2>1. failures' = failures \/ Fails
      BY DEF SweepFinal, SweepSkips, PruneOne, PruneSkips, EndSweep, BeginPrune, EndPrune
    <2> QED BY <1>0, <2>1, StoreAssumption DEF Fails, TypeOK
  <1>3. /\ sweeper' \in [step : {"idle", "sweep"}, left : SUBSET Keys, old : SUBSET Inodes]
        /\ sweeper'.old \subseteq sweeper.old
        /\ \A l \in Keys : final'[l] # None /\ final'[l] \in sweeper'.old => l \in sweeper'.left
    <2>1. ASSUME NEW k \in Keys, SweepFinal(k)
          PROVE  /\ sweeper' \in [step : {"idle", "sweep"}, left : SUBSET Keys,
                                  old : SUBSET Inodes]
                 /\ sweeper'.old = sweeper.old /\ sweeper'.left = sweeper.left \ {k}
                 /\ final'[k] = None
      BY <1>0, <2>1 DEF SweepFinal, Unlinked, TypeOK
    <2>2. ASSUME NEW k \in Keys, SweepSkips(k)
          PROVE  /\ sweeper' \in [step : {"idle", "sweep"}, left : SUBSET Keys,
                                  old : SUBSET Inodes]
                 /\ sweeper'.old = sweeper.old \ {final[k]}
                 /\ sweeper'.left = sweeper.left \ {k} /\ final' = final
      BY <1>0, <2>2 DEF SweepSkips, TypeOK
    <2>3. CASE EndSweep
      <3>1. /\ IdleSweeper \in [step : {"idle", "sweep"}, left : SUBSET Keys,
                                old : SUBSET Inodes]
            /\ IdleSweeper.old = {} /\ sweeper' = IdleSweeper
        BY <2>3 DEF EndSweep, IdleSweeper
      <3> QED BY <3>1
    <2>4. CASE sweeper' = sweeper
      BY <1>0, <1>1, <2>4 DEF TypeOK, SweepCatchesAll
    <2> QED
      BY <1>0, <1>1, <2>1, <2>2, <2>3, <2>4
      DEF SweepCatchesAll, PruneOne, PruneSkips, BeginPrune, EndPrune
  <1>4. pruner' \in [step : {"idle", "prune"}, left : SUBSET Keys, total : Nat,
                     spared : SUBSET Keys]
    <2>1. ASSUME NEW k \in Keys, PruneOne(k)
          PROVE  pruner' \in [step : {"idle", "prune"}, left : SUBSET Keys, total : Nat,
                              spared : SUBSET Keys]
      <3>1. pruner.total \in Nat /\ pruner.total > 0
        <4>1. pruner.total \in Nat
          BY <1>0 DEF TypeOK
        <4>2. pruner.total > Budget
          BY <2>1 DEF PruneOne, OverBudget
        <4> QED BY <4>1, <4>2, StoreAssumption
      <3>2. pruner.total - 1 \in Nat
        BY <3>1
      <3> QED BY <1>0, <2>1, <3>2 DEF PruneOne, TypeOK
    <2>2. ASSUME NEW k \in Keys, PruneSkips(k)
          PROVE  pruner' \in [step : {"idle", "prune"}, left : SUBSET Keys, total : Nat,
                              spared : SUBSET Keys]
      BY <1>0, <2>2 DEF PruneSkips, TypeOK
    <2>3. CASE BeginPrune
      <3>1. Published \in SUBSET Keys
        BY DEF Published
      <3>2. Cardinality(Published) \in Nat
        BY <3>1, StoreAssumption, FS_Subset, FS_CardinalityType
      <3> QED BY <2>3, <3>1, <3>2 DEF BeginPrune
    <2>4. CASE EndPrune
      BY <2>4 DEF EndPrune, IdlePruner
    <2>5. CASE pruner' = pruner
      BY <1>0, <2>5 DEF TypeOK
    <2> QED BY <2>1, <2>2, <2>3, <2>4, <2>5 DEF SweepFinal, SweepSkips, EndSweep
  <1>5. TypeOK'
    BY <1>0, <1>1, <1>2, <1>3, <1>4 DEF TypeOK
  <1>6. HandlesOpen' /\ ReadsOwnKey' /\ SweepCatchesAll'
    BY <1>0, <1>3 DEF HandlesOpen, ReadsOwnKey, IInv, SweepCatchesAll
  <1>7. TmpUnpublished'
    BY <1>0, <1>1, <1>3 DEF TmpUnpublished
  <1>8. \A j \in Inodes : \A l \in Keys : Uses(j, l)' => Uses(j, l)
    BY <1>0, <1>1, StoreAssumption DEF Uses
  <1>9. KeysApart'
    BY <1>0, <1>8, NoNewUse
  <1> QED BY <1>5, <1>6, <1>7, <1>9 DEF IInv

\* Every step keeps the invariant.
LEMMA NextIInv == ASSUME IInv, [Next]_vars PROVE IInv'
  <1>1. CASE UNCHANGED vars
    BY <1>1
    DEF vars, IInv, TypeOK, HandlesOpen, KeysApart, TmpUnpublished, SweepCatchesAll,
        ReadsOwnKey, Uses
  <1>2. ASSUME NEW p \in Publishers, Publish(p) PROVE IInv'
    BY <1>2, OpenStep, WriteStep, ReplaceStep, DropStep DEF Publish
  <1>3. ASSUME NEW r \in Readers, Get(r) PROVE IInv'
    BY <1>3, ReaderStep
  <1>4. CASE Maintain
    <2>1. \A k \in Keys : {k} \in SUBSET Keys
      OBVIOUS
    <2>2. Keys \in SUBSET Keys
      OBVIOUS
    <2> QED BY <1>4, <2>1, <2>2, DropStep, BeginSweepStep, UnlinkStep DEF Maintain
  <1> QED BY <1>1, <1>2, <1>3, <1>4 DEF Next

\* A step that writes nothing, publishes only what had the temporary name and
\* disturbs no publisher about to write leaves both facts as they are.
LEMMA KeepsWhole ==
  ASSUME TypeOK, TmpHasWriter, EmptiedHasWriter, content' = content,
         \A k \in Keys : tmp'[k] \in {tmp[k], None},
         \A k \in Keys : final'[k] \in {final[k], tmp[k], None},
         \A p \in Publishers : publisher[p].step = "opened" => publisher'[p] = publisher[p]
  PROVE  TmpHasWriter' /\ EmptiedHasWriter'
  BY DEF TmpHasWriter, EmptiedHasWriter, Writing

\* Only a step that fails is counted.
LEMMA FailuresCount ==
  ASSUME IInv, [Next]_vars
  PROVE  failures \in Nat /\ (Fails \/ failures' = failures)
  <1>1. failures \in Nat
    BY StoreAssumption DEF IInv, TypeOK
  <1>2. ASSUME NEW p \in Publishers, Publish(p) PROVE Fails \/ failures' = failures
    BY <1>2 DEF Publish, Open, OpenFails, Write, WriteFails, Replace, Cleanup, Die
  <1>3. ASSUME NEW r \in Readers, Get(r) PROVE Fails \/ failures' = failures
    BY <1>3 DEF Get, OpenFinal, Read, Served
  <1>4. ASSUME Maintain PROVE Fails \/ failures' = failures
    <2>1. ASSUME NEW k \in Keys, SweepTmp(k) \/ SweepFinal(k) \/ SweepSkips(k)
          PROVE  Fails \/ failures' = failures
      BY <2>1 DEF SweepTmp, SweepFinal, SweepSkips
    <2>2. ASSUME NEW k \in Keys, PruneOne(k) \/ PruneSkips(k)
          PROVE  Fails \/ failures' = failures
      BY <2>2 DEF PruneOne, PruneSkips
    <2>3. ASSUME BeginSweep(Keys) \/ \E k \in Keys : BeginSweep({k})
          PROVE  failures' = failures
      BY <2>3 DEF BeginSweep
    <2>4. CASE EndSweep \/ BeginPrune \/ EndPrune
      BY <2>4 DEF EndSweep, BeginPrune, EndPrune
    <2> QED BY <1>4, <2>1, <2>2, <2>3, <2>4 DEF Maintain
  <1>5. ASSUME UNCHANGED vars PROVE failures' = failures
    BY <1>5 DEF vars
  <1> QED BY <1>1, <1>2, <1>3, <1>4, <1>5 DEF Next

\* While publishers have the same bytes and none fails, a file is written over with
\* what it holds, if it holds anything.
LEMMA NextUnmixed ==
  ASSUME IInv, Identical, NoneMixed, ~Fails, [Next]_vars
  PROVE  NoneMixed'
  <1>1. ASSUME NEW p \in Publishers, Publish(p) PROVE NoneMixed'
    <2>1. CASE \E k \in Keys, b \in Encodings : Open(p, k, b)
      BY <2>1, StoreAssumption DEF Open, NoneMixed
    <2>2. CASE Write(p)
      <3> DEFINE i == publisher[p].fd
                 t == [key |-> publisher[p].key, bytes |-> publisher[p].bytes]
      <3>1. /\ i \in Inodes /\ publisher[p].key \in Keys /\ publisher[p].bytes \in Encodings
            /\ Uses(i, publisher[p].key) /\ t \in Tiles
        BY <2>2 DEF Write, IInv, HandlesOpen, Uses, Tiles
      <3>2. content[i] \in Tiles => content[i].key = publisher[p].key
        BY <3>1 DEF IInv, KeysApart
      <3>3. content[i] \in {Partial, t}
        <4>1. content[i] \in Tiles \cup {Partial}
          BY <3>1 DEF IInv, TypeOK, Content, NoneMixed
        <4>2. ASSUME content[i] \in Tiles PROVE content[i] = t
          BY <3>1, <3>2, <4>2 DEF Tiles, Identical
        <4> QED BY <4>1, <4>2
      <3>4. content' = [content EXCEPT ![i] = t]
        BY <2>2, <3>3 DEF Write, Overwritten
      <3>5. t # Mixed
        BY <3>1, StoreAssumption DEF Tiles
      <3> HIDE DEF t, i
      <3> QED BY <3>4, <3>5 DEF NoneMixed, IInv, TypeOK
    <2>3. CASE Replace(p) \/ Cleanup(p)
      BY <2>3 DEF Replace, Cleanup, NoneMixed
    <2> QED BY <1>1, <2>1, <2>2, <2>3 DEF Publish, OpenFails, WriteFails, Die
  <1>2. ASSUME NEW r \in Readers, Get(r) PROVE NoneMixed'
    BY <1>2 DEF Get, OpenFinal, Read, Served, NoneMixed
  <1>3. CASE Maintain
    <2>1. UNCHANGED content
      BY <1>3
      DEF Maintain, SweepTmp, SweepFinal, SweepSkips, PruneOne, PruneSkips, BeginSweep,
          EndSweep, BeginPrune, EndPrune
    <2> QED BY <2>1 DEF NoneMixed
  <1>4. CASE UNCHANGED vars
    BY <1>4 DEF vars, NoneMixed
  <1> QED BY <1>1, <1>2, <1>3, <1>4 DEF Next

\* Until something fails, a file with nothing in it has a publisher about to write
\* it, under either name.
LEMMA NextHasWriter ==
  ASSUME IInv, TmpHasWriter, EmptiedHasWriter, ~Fails, [Next]_vars
  PROVE  TmpHasWriter' /\ EmptiedHasWriter'
  <1> DEFINE HasWriter(i) == \E p \in Publishers : Writing(p, i)
             HasWriterNext(i) ==
               \E p \in Publishers : publisher'[p].step = "opened" /\ publisher'[p].fd = i
  <1>1. ~Fails
    OBVIOUS
  <1>0. TypeOK /\ HandlesOpen /\ KeysApart /\ TmpHasWriter /\ EmptiedHasWriter
    BY DEF IInv
  <1>3. ASSUME NEW p \in Publishers, NEW k \in Keys, NEW b \in Encodings, Open(p, k, b)
        PROVE  TmpHasWriter' /\ EmptiedHasWriter'
    <2>1. PICK i : /\ i \in IF tmp[k] = None THEN Free ELSE {tmp[k]}
                   /\ tmp' = [tmp EXCEPT ![k] = i]
                   /\ content' = [j \in Inodes |-> IF j \in Free \cup {i} THEN Partial
                                                   ELSE content[j]]
                   /\ publisher' = [publisher EXCEPT ![p] =
                          [step |-> "opened", key |-> k, bytes |-> b, fd |-> i]]
                   /\ publisher[p].step = "idle"
                   /\ final' = final
      BY <1>3 DEF Open, TmpName
    <2>2. /\ publisher'[p].step = "opened" /\ publisher'[p].fd = i
          /\ \A q \in Publishers \ {p} : publisher'[q] = publisher[q]
          /\ tmp'[k] = i /\ \A l \in Keys \ {k} : tmp'[l] = tmp[l]
      BY <1>0, <2>1 DEF TypeOK
    <2>3. HasWriterNext(i)
      BY <2>2
    <2>4. \A j : HasWriter(j) => HasWriterNext(j)
      BY <2>1, <2>2 DEF Writing
    <2>5. ASSUME NEW l \in Keys, tmp'[l] # None, content'[tmp'[l]] = Partial
          PROVE  HasWriterNext(tmp'[l])
      <3>1. CASE tmp'[l] = i
        BY <2>3, <3>1
      <3>2. CASE tmp'[l] # i
        <4>1. tmp'[l] = tmp[l] /\ tmp[l] \in Inodes /\ tmp[l] \notin Free
          BY <1>0, <2>2, <2>5, <3>2 DEF TypeOK, Free
        <4>2. content[tmp[l]] = Partial
          BY <2>1, <2>5, <3>2, <4>1
        <4>3. HasWriter(tmp[l])
          BY <1>0, <2>5, <4>1, <4>2 DEF TmpHasWriter
        <4> QED BY <2>4, <4>1, <4>3
      <3> QED BY <3>1, <3>2
    <2>6. ASSUME NEW l \in Keys, final'[l] # None, content'[final'[l]] = Partial
          PROVE  HasWriterNext(final'[l])
      <3>1. CASE final[l] = i
        BY <2>1, <2>3, <3>1
      <3>2. CASE final[l] # i
        <4>1. final'[l] = final[l] /\ final[l] \in Inodes /\ final[l] \notin Free
          BY <1>0, <2>1, <2>6 DEF TypeOK, Free
        <4>2. content[final[l]] = Partial
          BY <2>1, <2>6, <3>2, <4>1
        <4>3. HasWriter(final[l])
          BY <1>0, <2>6, <4>1, <4>2 DEF EmptiedHasWriter
        <4> QED BY <2>4, <4>1, <4>3
      <3> QED BY <3>1, <3>2
    <2> QED BY <2>5, <2>6 DEF TmpHasWriter, EmptiedHasWriter, Writing
  <1>4. ASSUME NEW p \in Publishers, Write(p) PROVE TmpHasWriter' /\ EmptiedHasWriter'
    <2> DEFINE i == publisher[p].fd
    <2>1. i \in Inodes /\ UNCHANGED <<tmp, final>> /\ publisher[p].key \in Keys
          /\ publisher[p].bytes \in Encodings
      BY <1>0, <1>4 DEF HandlesOpen, Write
    <2>2. PICK c : content' = [content EXCEPT ![i] = c] /\ c # Partial
      <3> DEFINE t == [key |-> publisher[p].key, bytes |-> publisher[p].bytes]
      <3>1. t # Partial /\ Mixed # Partial
        BY <2>1, StoreAssumption
      <3>2. \E c \in {t, Mixed} : content' = [content EXCEPT ![i] = c]
        BY <1>4 DEF Write, Overwritten
      <3> QED BY <3>1, <3>2
    <2> HIDE DEF i
    <2>3. \A q \in Publishers \ {p} : publisher'[q] = publisher[q]
      BY <1>0, <1>4 DEF Write, TypeOK
    <2>4. \A j \in Inodes : content'[j] = Partial => j # i /\ content[j] = Partial
      BY <1>0, <2>1, <2>2 DEF TypeOK
    <2>5. \A j \in Inodes \ {i} : HasWriter(j) => HasWriterNext(j)
      BY <2>3 DEF Writing, i
    <2>6. ASSUME NEW l \in Keys, tmp'[l] # None, content'[tmp'[l]] = Partial
          PROVE  HasWriterNext(tmp'[l])
      BY <1>0, <2>1, <2>4, <2>5, <2>6 DEF TmpHasWriter, TypeOK
    <2>7. ASSUME NEW l \in Keys, final'[l] # None, content'[final'[l]] = Partial
          PROVE  HasWriterNext(final'[l])
      BY <1>0, <2>1, <2>4, <2>5, <2>7 DEF EmptiedHasWriter, TypeOK
    <2> QED BY <2>6, <2>7 DEF TmpHasWriter, EmptiedHasWriter, Writing
  <1>5. ASSUME NEW p \in Publishers, Replace(p) \/ Cleanup(p)
        PROVE  TmpHasWriter' /\ EmptiedHasWriter'
    <2>1. /\ content' = content
          /\ publisher[p].step \in {"written", "cleanup"} /\ publisher[p].key \in Keys
      BY <1>0, <1>5 DEF Replace, Replaceable, Cleanup, HandlesOpen
    <2>2. \A q \in Publishers : publisher[q].step = "opened" => publisher'[q] = publisher[q]
      BY <1>0, <1>5, <2>1 DEF Replace, Cleanup, TypeOK
    <2>3. \A k \in Keys : tmp'[k] \in {tmp[k], None}
      BY <1>0, <1>5, <2>1 DEF Replace, Cleanup, Renamed, TmpName, TypeOK
    <2>4. \A k \in Keys : final'[k] \in {final[k], tmp[k], None}
      BY <1>0, <1>5, <2>1 DEF Replace, Cleanup, TmpName, TypeOK
    <2> QED BY <1>0, KeepsWhole, <2>1, <2>2, <2>3, <2>4
  <1>6. ASSUME NEW r \in Readers, Get(r) PROVE TmpHasWriter' /\ EmptiedHasWriter'
    <2>1. UNCHANGED <<content, tmp, final, publisher>>
      BY <1>6 DEF Get, OpenFinal, Read, Served
    <2> QED BY <1>0, KeepsWhole, <2>1
  <1>7. ASSUME Maintain PROVE TmpHasWriter' /\ EmptiedHasWriter'
    <2>1. UNCHANGED <<content, publisher>>
      BY <1>7
      DEF Maintain, SweepTmp, SweepFinal, SweepSkips, PruneOne, PruneSkips, BeginSweep,
          EndSweep, BeginPrune, EndPrune
    <2>2. \A k \in Keys : tmp'[k] \in {tmp[k], None}
      BY <1>0, <1>7
      DEF Maintain, SweepTmp, SweepFinal, SweepSkips, PruneOne, PruneSkips, BeginSweep,
          EndSweep, BeginPrune, EndPrune, TypeOK
    <2>3. \A k \in Keys : final'[k] \in {final[k], None}
      BY <1>0, <1>7
      DEF Maintain, SweepTmp, SweepFinal, SweepSkips, PruneOne, PruneSkips, BeginSweep,
          EndSweep, BeginPrune, EndPrune, Unlinked, TypeOK
    <2>4. \A k \in Keys : final'[k] \in {final[k], tmp[k], None}
      BY <2>3
    <2>5. \A q \in Publishers : publisher[q].step = "opened" => publisher'[q] = publisher[q]
      BY <2>1
    <2> QED BY <1>0, KeepsWhole, <2>1, <2>2, <2>4, <2>5
  <1>8. ASSUME UNCHANGED vars PROVE TmpHasWriter' /\ EmptiedHasWriter'
    <2>1. UNCHANGED <<content, tmp, final, publisher>>
      BY <1>8 DEF vars
    <2> QED BY <1>0, KeepsWhole, <2>1
  <1>9. TmpHasWriter' /\ EmptiedHasWriter'
    <2>1. ASSUME NEW p \in Publishers, Publish(p) PROVE TmpHasWriter' /\ EmptiedHasWriter'
      <3>1. \/ \E k \in Keys, b \in Encodings : Open(p, k, b)
            \/ Write(p) \/ Replace(p) \/ Cleanup(p)
        BY <1>1, <2>1 DEF Publish, OpenFails, WriteFails, Die
      <3> QED BY <1>3, <1>4, <1>5, <3>1
    <2> HIDE DEF HasWriter, HasWriterNext
    <2> QED BY <1>6, <1>7, <1>8, <2>1 DEF Next
  <1> QED BY <1>9

LEMMA NextWhole == ASSUME IInvWhole, [Next]_vars PROVE IInvWhole'
  <1>1. IInv'
    BY NextIInv DEF IInvWhole
  <1>2. ASSUME failures' = 0 PROVE failures = 0 /\ ~Fails
    BY <1>2, FailuresCount DEF IInvWhole, Fails
  <1>3. failures' = 0 => TmpHasWriter' /\ EmptiedHasWriter'
    BY <1>2, NextHasWriter DEF IInvWhole
  <1>4. failures' = 0 /\ Identical => NoneMixed'
    BY <1>2, NextUnmixed DEF IInvWhole
  <1> QED BY <1>1, <1>3, <1>4 DEF IInvWhole

\* The invariant of the store's names and open files, for every number of
\* processes and whatever fails.
THEOREM StoreInvariance == Spec => []IInv
  <1>1. Init => IInv
    BY InitIInv DEF IInvWhole
  <1>2. IInv /\ [Next]_vars => IInv'
    BY NextIInv
  <1> QED BY <1>1, <1>2, PTL DEF Spec

\* get(key) never returns what was encoded for another key, although publishers
\* empty, write and unlink each other's temporary files.
THEOREM ReadersKeyed == Spec => []ReadsOwnKey
  <1>1. IInv => ReadsOwnKey
    BY DEF IInv
  <1> QED BY <1>1, StoreInvariance, PTL

\* sweep_final_files and invalidate_timestamp leave none of the files there
\* were when they began, whatever is published meanwhile.
THEOREM SweepsComplete == Spec => []SweepCatchesAll
  <1>1. IInv => SweepCatchesAll
    BY DEF IInv
  <1> QED BY <1>1, StoreInvariance, PTL

\* Until a call fails or a process dies, a published file that is not the whole tile
\* is about to be written by the publisher that emptied it, as long as its publishers
\* have the same bytes.
THEOREM PublishesConverge == Spec => []IdenticalPublishesConverge
  <1>1. Init => IInvWhole
    BY InitIInv
  <1>2. IInvWhole /\ [Next]_vars => IInvWhole'
    BY NextWhole
  <1>3. IInvWhole => IdenticalPublishesConverge
    BY DEF IInvWhole, IInv, TypeOK, EmptiedHasWriter, NoneMixed, Published,
           IdenticalPublishesConverge
  <1> QED BY <1>1, <1>2, <1>3, PTL DEF Spec

-----------------------------------------------------------------------------
(* The prune.                                                                *)

\* A tile that was not published since the scan is among the entries left, and the
\* total counts no less than those.
PruneInv ==
  pruner.step = "prune" =>
    /\ Published \ pruner.spared \subseteq pruner.left
    /\ Cardinality(pruner.left) <= pruner.total

\* Names that go, or that lead elsewhere, leave the prune as it is.
LEMMA PruneKept ==
  ASSUME PruneInv, UNCHANGED pruner, Published' \subseteq Published
  PROVE  PruneInv'
  BY DEF PruneInv

\* A tile published while a prune runs is not the prune's.
LEMMA PublishPruneInv ==
  ASSUME IInv, PruneInv, NEW p \in Publishers, Publish(p)
  PROVE  PruneInv'
  <1>1. CASE Replace(p)
    <2> DEFINE k == publisher[p].key
    <2>0. TypeOK /\ Keys = DOMAIN final
      BY DEF IInv, TypeOK
    <2>1. CASE tmp[TmpName(k)] # None
      <3>1. final' = [final EXCEPT ![k] = tmp[TmpName(k)]]
            /\ pruner' = IF pruner.step = "idle" THEN pruner
                         ELSE [pruner EXCEPT !.spared = @ \cup {k}]
        BY <1>1, <2>1 DEF Replace
      <3>2. Published' \subseteq Published \cup {k}
        BY <2>0, <3>1 DEF Published
      <3>3. pruner \in [step : {"idle", "prune"}, left : SUBSET Keys, total : Nat,
                        spared : SUBSET Keys]
        BY <2>0 DEF TypeOK
      <3>4. CASE pruner.step = "idle"
        BY <3>1, <3>4 DEF PruneInv
      <3>5. CASE pruner.step = "prune"
        <4>1. /\ pruner'.step = "prune" /\ pruner'.left = pruner.left
              /\ pruner'.total = pruner.total /\ pruner'.spared = pruner.spared \cup {k}
          BY <3>1, <3>3, <3>5
        <4> HIDE DEF k
        <4> QED BY <3>2, <3>5, <4>1 DEF PruneInv
      <3> QED BY <3>3, <3>4, <3>5
    <2>2. CASE tmp[TmpName(k)] = None
      <3>1. UNCHANGED <<final, pruner>>
        BY <1>1, <2>2 DEF Replace
      <3> QED BY <3>1 DEF PruneInv, Published
    <2> QED BY <2>1, <2>2
  <1>2. CASE ~Replace(p)
    <2>1. UNCHANGED <<final, pruner>>
      BY <1>2 DEF Publish, Open, OpenFails, Write, WriteFails, Cleanup, Die
    <2> QED BY <2>1 DEF PruneInv, Published
  <1> QED BY <1>1, <1>2

\* One entry of a prune, removed or passed over.
LEMMA EntryPruneInv ==
  ASSUME IInv, PruneInv, NEW k \in Keys, PruneOne(k) \/ PruneSkips(k)
  PROVE  PruneInv'
  <1>1. /\ pruner \in [step : {"idle", "prune"}, left : SUBSET Keys, total : Nat,
                       spared : SUBSET Keys]
        /\ DOMAIN final = Keys
    BY DEF IInv, TypeOK
  <1>2. pruner.step = "prune" /\ k \in pruner.left
    BY DEF PruneOne, PruneSkips
  <1>3. IsFiniteSet(pruner.left) /\ pruner.left \subseteq Keys
    BY <1>1, StoreAssumption, FS_Subset
  <1>4. Cardinality(pruner.left \ {k}) = Cardinality(pruner.left) - 1
        /\ Cardinality(pruner.left) \in Nat
    BY <1>2, <1>3, FS_RemoveElement, FS_CardinalityType
  <1>5. Published \ pruner.spared \subseteq pruner.left /\ Cardinality(pruner.left) <= pruner.total
    BY <1>2 DEF PruneInv
  <1>6. CASE PruneOne(k)
    <2>1. /\ pruner'.left = pruner.left \ {k} /\ pruner'.spared = pruner.spared \ {k}
          /\ pruner'.total \in {pruner.total, pruner.total - 1} /\ pruner.total \in Nat
      BY <1>1, <1>6 DEF PruneOne
    <2>2. Published' \subseteq Published \ {k}
      BY <1>1, <1>6 DEF PruneOne, Unlinked, Published
    <2> QED BY <1>4, <1>5, <2>1, <2>2 DEF PruneInv
  <1>7. CASE PruneSkips(k)
    <2>1. /\ pruner'.left = pruner.left \ {k} /\ pruner'.spared = pruner.spared \cup {k}
          /\ pruner'.total = pruner.total /\ pruner.total \in Nat
      BY <1>1, <1>7 DEF PruneSkips
    <2>2. Published' = Published
      BY <1>7 DEF PruneSkips, Published
    <2> QED BY <1>4, <1>5, <2>1, <2>2 DEF PruneInv
  <1> QED BY <1>6, <1>7

LEMMA NextPruneInv == ASSUME IInv, PruneInv, [Next]_vars PROVE PruneInv'
  <1>1. ASSUME NEW p \in Publishers, Publish(p) PROVE PruneInv'
    BY <1>1, PublishPruneInv
  <1>2. ASSUME NEW r \in Readers, Get(r) PROVE PruneInv'
    <2>1. UNCHANGED <<final, pruner>>
      BY <1>2 DEF Get, OpenFinal, Read, Served
    <2> QED BY <2>1 DEF PruneInv, Published
  <1>3. ASSUME Maintain PROVE PruneInv'
    <2>1. ASSUME NEW k \in Keys, PruneOne(k) \/ PruneSkips(k) PROVE PruneInv'
      BY <2>1, EntryPruneInv
    <2>2. ASSUME NEW k \in Keys, SweepFinal(k) PROVE PruneInv'
      <3>1. Published' \subseteq Published
        BY <2>2 DEF SweepFinal, Unlinked, Published, IInv, TypeOK
      <3> QED BY <2>2, <3>1, PruneKept DEF SweepFinal
    <2>3. CASE BeginPrune
      <3>1. Published' = Published
        BY <2>3 DEF BeginPrune, Published
      <3>2. pruner'.left = Published /\ pruner'.total = Cardinality(Published)
        BY <2>3 DEF BeginPrune
      <3>3. Cardinality(Published) \in Nat
        <4>1. Published \subseteq Keys
          BY DEF Published
        <4> QED BY <4>1, StoreAssumption, FS_Subset, FS_CardinalityType
      <3> QED BY <3>1, <3>2, <3>3 DEF PruneInv
    <2>4. CASE EndPrune
      BY <2>4 DEF EndPrune, IdlePruner, PruneInv
    <2>5. CASE \/ \E k \in Keys : SweepTmp(k) \/ SweepSkips(k) \/ BeginSweep({k})
               \/ BeginSweep(Keys) \/ EndSweep
      <3>1. UNCHANGED <<final, pruner>>
        BY <2>5 DEF SweepTmp, SweepSkips, BeginSweep, EndSweep
      <3> QED BY <3>1 DEF PruneInv, Published
    <2> QED BY <1>3, <2>1, <2>2, <2>3, <2>4, <2>5 DEF Maintain
  <1>4. CASE UNCHANGED vars
    BY <1>4 DEF vars, PruneInv, Published
  <1> QED BY <1>1, <1>2, <1>3, <1>4 DEF Next

\* A prune ends within its budget but for what was published since its scan, although
\* sweeps, invalidations and other publishers change the directory under it, whatever
\* the budget.
THEOREM PrunesSuffice == Spec => []PrunedToBudget
  <1>1. Init => PruneInv
    BY DEF Init, IdlePruner, PruneInv
  <1>2. IInv /\ PruneInv => PrunedToBudget
    <2> SUFFICES ASSUME IInv, PruneInv, StopsPruning
                 PROVE  Cardinality(Published \ pruner.spared) <= Budget
      BY DEF PrunedToBudget
    <2>1. /\ pruner.left \subseteq Keys /\ pruner.total \in Nat /\ Budget \in Nat
      BY StoreAssumption DEF IInv, TypeOK
    <2>2. IsFiniteSet(pruner.left) /\ Cardinality(pruner.left) \in Nat
      BY <2>1, StoreAssumption, FS_Subset, FS_CardinalityType
    <2>3. /\ Published \ pruner.spared \subseteq pruner.left
          /\ Cardinality(pruner.left) <= pruner.total
      BY DEF PruneInv, StopsPruning
    <2>4. /\ Cardinality(Published \ pruner.spared) <= Cardinality(pruner.left)
          /\ Cardinality(Published \ pruner.spared) \in Nat
      BY <2>2, <2>3, FS_Subset, FS_CardinalityType
    <2>5. pruner.total <= Budget \/ pruner.left = {}
      BY <2>1 DEF StopsPruning, OverBudget
    <2>6. pruner.left = {} => Cardinality(pruner.left) = 0
      BY FS_EmptySet
    <2> QED BY <2>1, <2>2, <2>3, <2>4, <2>5, <2>6
  <1> QED BY <1>1, <1>2, NextPruneInv, StoreInvariance, PTL DEF Spec
=============================================================================
