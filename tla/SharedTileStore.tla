-------------------------- MODULE SharedTileStore --------------------------
(* The on-disk store of encoded tiles that the render workers share
   (tiles/shared_tile_store.py), at the grain of its system calls: any number of
   threads in any number of processes publish, read, sweep and prune the same
   directory with no lock.

   A NAME leads to an INODE; an open file keeps its inode when the name goes.
   publish writes ".<key>.tile.tmp", ONE name per key for every publisher, and
   renames it to "<key>.tile".  What a tile shows is an encoding; tiles have
   size 1 and the age that orders a prune is any order.                       *)
EXTENDS Naturals, FiniteSets

CONSTANTS Keys,        \* versioned keys
          Encodings,   \* what a key may be encoded to: more than one when the
                       \* key does not fold every input
          Publishers,  \* publish calls in flight at once, in any process
          Readers,     \* get calls in flight at once
          Inodes,      \* enough for the open files and the names
          None,
          Partial,     \* a file with nothing, or not all, written yet
          Mixed,       \* a short encoding with the end of a longer one behind it
          Budget,      \* max_mb, in tiles
          MaxFailures  \* bound: system calls that fail and processes that die

ASSUME StoreAssumption ==
    /\ Budget \in Nat /\ MaxFailures \in Nat /\ IsFiniteSet(Keys)
    /\ None \notin Inodes /\ None \notin Keys /\ Partial # Mixed
    /\ \A t \in [key : Keys, bytes : Encodings] : t \notin {None, Partial, Mixed}

VARIABLES tmp,       \* key -> inode under the temporary name
          final,     \* key -> inode under the published name
          content,   \* inode -> what it holds
          publisher, reader, sweeper, pruner,
          failures

vars == <<tmp, final, content, publisher, reader, sweeper, pruner, failures>>

Tiles   == [key : Keys, bytes : Encodings]
Content == Tiles \cup {Partial, Mixed}

IdlePublisher == [step |-> "idle", key |-> None, bytes |-> None, fd |-> None]
IdleReader    == [step |-> "idle", key |-> None, fd |-> None, data |-> None]
IdleSweeper   == [step |-> "idle", left |-> {}, old |-> {}]
IdlePruner    == [step |-> "idle", left |-> {}, total |-> 0, spared |-> {}]

Published == {k \in Keys : final[k] # None}

\* Inodes no name and no open file refers to.
Free == {i \in Inodes : /\ \A k \in Keys : tmp[k] # i /\ final[k] # i
                        /\ \A p \in Publishers : publisher[p].fd # i
                        /\ \A r \in Readers : reader[r].fd # i
                        /\ i \notin sweeper.old}

Init ==
    /\ tmp = [k \in Keys |-> None]
    /\ final = [k \in Keys |-> None]
    /\ content = [i \in Inodes |-> Partial]
    /\ publisher = [p \in Publishers |-> IdlePublisher]
    /\ reader = [r \in Readers |-> IdleReader]
    /\ sweeper = IdleSweeper
    /\ pruner = IdlePruner
    /\ failures = 0

Fails == failures < MaxFailures /\ failures' = failures + 1

-----------------------------------------------------------------------------
(* publish: open, write, os.replace, and the two except branches. *)

\* Mutant of TmpName: one temporary name for the whole shard.
TmpNameShard(k) == CHOOSE l \in Keys : TRUE

\* path.with_name(f".{path.name}.tmp").
TmpName(k) == k

\* open(tmp, "wb"): a new file, or the one another publisher has under the same
\* name, emptied.
Open(p, k, b) ==
    /\ publisher[p].step = "idle"
    /\ \E i \in IF tmp[TmpName(k)] = None THEN Free ELSE {tmp[TmpName(k)]} :
          /\ tmp' = [tmp EXCEPT ![TmpName(k)] = i]
          /\ content' = [j \in Inodes |-> IF j \in Free \cup {i} THEN Partial ELSE content[j]]
          /\ publisher' = [publisher EXCEPT ![p] =
                 [step |-> "opened", key |-> k, bytes |-> b, fd |-> i]]
    /\ UNCHANGED <<final, reader, sweeper, pruner, failures>>

\* What an inode may hold after a publisher wrote its bytes at its start.
Overwritten(i, t) ==
    IF content[i] \in {Partial, t} THEN {t} ELSE {t, Mixed}

Write(p) ==
    /\ publisher[p].step = "opened"
    /\ \E c \in Overwritten(publisher[p].fd,
                            [key |-> publisher[p].key, bytes |-> publisher[p].bytes]) :
          content' = [content EXCEPT ![publisher[p].fd] = c]
    /\ publisher' = [publisher EXCEPT ![p].step = "written", ![p].fd = None]
    /\ UNCHANGED <<tmp, final, reader, sweeper, pruner, failures>>

\* ... or after part of them: a new file has not all of its bytes yet.
CutShort(i, t) == {content[i]} \cup (Overwritten(i, t) \ {t})

\* The write or the open raises OSError: no space, no descriptor.
WriteFails(p) ==
    /\ publisher[p].step = "opened" /\ Fails
    /\ \E c \in CutShort(publisher[p].fd,
                         [key |-> publisher[p].key, bytes |-> publisher[p].bytes]) :
          content' = [content EXCEPT ![publisher[p].fd] = c]
    /\ publisher' = [publisher EXCEPT ![p].step = "cleanup", ![p].fd = None]
    /\ UNCHANGED <<tmp, final, reader, sweeper, pruner>>

OpenFails(p, k, b) ==
    /\ publisher[p].step = "idle" /\ Fails
    /\ publisher' = [publisher EXCEPT ![p] =
           [step |-> "cleanup", key |-> k, bytes |-> b, fd |-> None]]
    /\ UNCHANGED <<tmp, final, content, reader, sweeper, pruner>>

\* Mutant of Renamed: a link, the temporary name stays.
Linked(k) == tmp

\* Mutant of Replaceable: the file is renamed before it is written.
ReplaceableOpen(p) == publisher[p].step \in {"opened", "written"}

Renamed(k) == [tmp EXCEPT ![TmpName(k)] = None]

Replaceable(p) == publisher[p].step = "written"

\* os.replace publishes whatever has the name now; without one it raises
\* FileNotFoundError.
Replace(p) ==
    /\ Replaceable(p)
    /\ LET k == publisher[p].key IN
       IF tmp[TmpName(k)] # None
       THEN /\ final' = [final EXCEPT ![k] = tmp[TmpName(k)]]
            /\ tmp' = Renamed(k)
            /\ publisher' = [publisher EXCEPT ![p] = IdlePublisher]
            /\ pruner' = IF pruner.step = "idle" THEN pruner
                         ELSE [pruner EXCEPT !.spared = @ \cup {k}]
       ELSE /\ publisher' = [publisher EXCEPT ![p].step = "cleanup"]
            /\ UNCHANGED <<tmp, final, pruner>>
    /\ UNCHANGED <<content, reader, sweeper, failures>>

\* tmp.unlink(missing_ok=True), whoever's file has the name.
Cleanup(p) ==
    /\ publisher[p].step = "cleanup"
    /\ tmp' = [tmp EXCEPT ![TmpName(publisher[p].key)] = None]
    /\ publisher' = [publisher EXCEPT ![p] = IdlePublisher]
    /\ UNCHANGED <<final, content, reader, sweeper, pruner, failures>>

\* The process dies; its files stay as they are.
Die(p) ==
    /\ publisher[p].step # "idle" /\ Fails
    /\ publisher' = [publisher EXCEPT ![p] = IdlePublisher]
    /\ UNCHANGED <<tmp, final, content, reader, sweeper, pruner>>

\* The constructor of a booting worker's store removes an old temporary file,
\* that of a publisher stopped for longer than _STALE_TMP_AGE_S included.
SweepTmp(k) ==
    /\ tmp[k] # None
    /\ tmp' = [tmp EXCEPT ![k] = None]
    /\ UNCHANGED <<final, content, publisher, reader, sweeper, pruner, failures>>

-----------------------------------------------------------------------------
(* get: open and read. *)

OpenFinal(r, k) ==
    /\ reader[r].step = "idle" /\ final[k] # None
    /\ reader' = [reader EXCEPT ![r] =
           [step |-> "open", key |-> k, fd |-> final[k], data |-> None]]
    /\ UNCHANGED <<tmp, final, content, publisher, sweeper, pruner, failures>>

Read(r) ==
    /\ reader[r].step = "open"
    /\ reader' = [reader EXCEPT ![r].step = "served", ![r].fd = None,
                                ![r].data = content[reader[r].fd]]
    /\ UNCHANGED <<tmp, final, content, publisher, sweeper, pruner, failures>>

Served(r) ==
    /\ reader[r].step = "served"
    /\ reader' = [reader EXCEPT ![r] = IdleReader]
    /\ UNCHANGED <<tmp, final, content, publisher, sweeper, pruner, failures>>

-----------------------------------------------------------------------------
(* sweep_final_files (every key) and invalidate_timestamp (the keys of one). *)

\* Mutant of Listed: names without a file are listed too.
ListedAll(K) == K

Listed(K) == K \cap Published

\* The listing, one step here for all shards.  "old" is a ghost: the files there
\* were.
BeginSweep(K) ==
    /\ sweeper.step = "idle" /\ Listed(K) # {}
    /\ sweeper' = [step |-> "sweep", left |-> Listed(K), old |-> {final[k] : k \in Listed(K)}]
    /\ UNCHANGED <<tmp, final, content, publisher, reader, pruner, failures>>

Unlinked(k) == [final EXCEPT ![k] = None]

SweepFinal(k) ==
    /\ sweeper.step = "sweep" /\ k \in sweeper.left
    /\ final' = Unlinked(k)
    /\ sweeper' = [sweeper EXCEPT !.left = @ \ {k}]
    /\ UNCHANGED <<tmp, content, publisher, reader, pruner, failures>>

\* unlink raises: the file is passed over.
SweepSkips(k) ==
    /\ sweeper.step = "sweep" /\ k \in sweeper.left /\ Fails
    /\ sweeper' = [sweeper EXCEPT !.left = @ \ {k}, !.old = @ \ {final[k]}]
    /\ UNCHANGED <<tmp, final, content, publisher, reader, pruner>>

EndSweep ==
    /\ sweeper.step = "sweep" /\ sweeper.left = {}
    /\ sweeper' = IdleSweeper
    /\ UNCHANGED <<tmp, final, content, publisher, reader, pruner, failures>>

-----------------------------------------------------------------------------
(* prune, in the pipeline process. *)

\* The scan, one step here; within the budget it is all.  "spared" is a ghost:
\* what was published or could not be removed since.
BeginPrune ==
    /\ pruner.step = "idle" /\ Cardinality(Published) > Budget
    /\ pruner' = [step |-> "prune", left |-> Published, total |-> Cardinality(Published),
                  spared |-> {}]
    /\ UNCHANGED <<tmp, final, content, publisher, reader, sweeper, failures>>

\* Mutant of OverBudget: the loop stops one tile early.
OverBudgetByTwo == pruner.total > Budget + 1

OverBudget == pruner.total > Budget

\* The next entry: what is under its name goes, and counts only if there was
\* something.
PruneOne(k) ==
    /\ pruner.step = "prune" /\ OverBudget /\ k \in pruner.left
    /\ final' = Unlinked(k)
    /\ pruner' = [pruner EXCEPT !.left = @ \ {k},
                                !.total = IF final[k] # None THEN @ - 1 ELSE @,
                                !.spared = @ \ {k}]
    /\ UNCHANGED <<tmp, content, publisher, reader, sweeper, failures>>

PruneSkips(k) ==
    /\ pruner.step = "prune" /\ OverBudget /\ k \in pruner.left /\ Fails
    /\ pruner' = [pruner EXCEPT !.left = @ \ {k}, !.spared = @ \cup {k}]
    /\ UNCHANGED <<tmp, final, content, publisher, reader, sweeper>>

StopsPruning == pruner.step = "prune" /\ (~OverBudget \/ pruner.left = {})

EndPrune ==
    /\ StopsPruning
    /\ pruner' = IdlePruner
    /\ UNCHANGED <<tmp, final, content, publisher, reader, sweeper, failures>>

-----------------------------------------------------------------------------
Publish(p) == \/ \E k \in Keys, b \in Encodings : Open(p, k, b) \/ OpenFails(p, k, b)
              \/ Write(p) \/ WriteFails(p) \/ Replace(p) \/ Cleanup(p) \/ Die(p)

Get(r) == (\E k \in Keys : OpenFinal(r, k)) \/ Read(r) \/ Served(r)

Maintain == \/ \E k \in Keys : SweepTmp(k) \/ SweepFinal(k) \/ SweepSkips(k)
                               \/ PruneOne(k) \/ PruneSkips(k)
            \/ BeginSweep(Keys) \/ \E k \in Keys : BeginSweep({k})
            \/ EndSweep \/ BeginPrune \/ EndPrune

Next == \/ \E p \in Publishers : Publish(p)
        \/ \E r \in Readers : Get(r)
        \/ Maintain

Spec == Init /\ [][Next]_vars

-----------------------------------------------------------------------------
PublisherState == [step : {"idle", "opened", "written", "cleanup"}, key : Keys \cup {None},
                   bytes : Encodings \cup {None}, fd : Inodes \cup {None}]
ReaderState    == [step : {"idle", "open", "served"}, key : Keys \cup {None},
                   fd : Inodes \cup {None}, data : Content \cup {None}]

TypeOK ==
    /\ tmp \in [Keys -> Inodes \cup {None}]
    /\ final \in [Keys -> Inodes \cup {None}]
    /\ content \in [Inodes -> Content]
    /\ publisher \in [Publishers -> PublisherState]
    /\ reader \in [Readers -> ReaderState]
    /\ sweeper \in [step : {"idle", "sweep"}, left : SUBSET Keys, old : SUBSET Inodes]
    /\ pruner \in [step : {"idle", "prune"}, left : SUBSET Keys, total : Nat, spared : SUBSET Keys]
    /\ failures \in 0 .. MaxFailures

Writing(p, i) == publisher[p].step = "opened" /\ publisher[p].fd = i

\* Whatever a reader finds under a key was encoded for that key, however the
\* temporary files of its publishers get mixed up.
ReadsOwnKey ==
    \A r \in Readers : reader[r].data \in Tiles => reader[r].data.key = reader[r].key

\* Publishers of a key have the same bytes for it.
Identical == \A b, c \in Encodings : b = c

\* Identical publishes converge (publish): until something fails, whichever of them
\* renames the file they share, a published file that is empty, or of two tiles, is
\* open in one that has still to write it, so that it is whole once they are done.
\* Until then a reader may find it as it is: see ReadsWhole.
IdenticalPublishesConverge ==
    failures = 0 /\ Identical =>
        \A k \in Published : content[final[k]] \in {Partial, Mixed}
            => \E p \in Publishers : Writing(p, final[k])

\* A sweep leaves none of the files there were when it began, whatever is
\* published, pruned or renamed meanwhile (sweep_final_files,
\* invalidate_timestamp).
SweepCatchesAll ==
    \A k \in Keys : final[k] # None /\ final[k] \in sweeper.old => k \in sweeper.left

\* A prune ends within the budget but for what was published since its scan,
\* however many files others removed under it.
PrunedToBudget ==
    StopsPruning => Cardinality(Published \ pruner.spared) <= Budget

-----------------------------------------------------------------------------
(* What the code says of itself, and does not keep. *)

\* "Readers only ever see a complete file" (shared_tile_store.py:25), "never a partial
\* write" (161), though any number of workers publish concurrently.
ReadsWhole == \A r \in Readers : reader[r].data \notin {Partial, Mixed}

-----------------------------------------------------------------------------
(* The inductive invariant. *)

\* The names and open files of a key.
Uses(i, k) ==
    \/ tmp[k] = i \/ final[k] = i
    \/ \E p \in Publishers : publisher[p].fd = i /\ publisher[p].key = k
    \/ \E r \in Readers : reader[r].fd = i /\ reader[r].key = k

\* No inode serves two keys, and it holds what its key was encoded to.
KeysApart ==
    \A i \in Inodes : \A k \in Keys : Uses(i, k) =>
        /\ content[i] \in Tiles => content[i].key = k
        /\ \A l \in Keys : Uses(i, l) => k = l

\* A file is published once: the temporary name never leads to a published
\* file, nor to one that was swept.
TmpUnpublished ==
    \A k \in Keys : tmp[k] # None => tmp[k] # final[k] /\ tmp[k] \notin sweeper.old

TmpHasWriter ==
    \A k \in Keys : tmp[k] # None /\ content[tmp[k]] = Partial
        => \E p \in Publishers : Writing(p, tmp[k])

EmptiedHasWriter ==
    \A k \in Keys : final[k] # None /\ content[final[k]] = Partial
        => \E p \in Publishers : Writing(p, final[k])

\* No bytes are left behind those of a shorter tile.
NoneMixed == \A i \in Inodes : content[i] # Mixed

\* Who has a file open, and for which key.
HandlesOpen ==
    /\ \A p \in Publishers :
          /\ publisher[p].step # "idle" => publisher[p].key \in Keys
          /\ publisher[p].step = "opened" => publisher[p].fd \in Inodes
                                             /\ publisher[p].bytes \in Encodings
    /\ \A r \in Readers : reader[r].step = "open" =>
                              reader[r].fd \in Inodes /\ reader[r].key \in Keys

IInv == TypeOK /\ HandlesOpen /\ KeysApart /\ TmpUnpublished /\ SweepCatchesAll
        /\ ReadsOwnKey

\* ... and, while nothing fails, that of IdenticalPublishesConverge.
IInvWhole == /\ IInv
             /\ failures = 0 => TmpHasWriter /\ EmptiedHasWriter
             /\ failures = 0 /\ Identical => NoneMixed
=============================================================================
