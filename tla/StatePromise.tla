---------------------------- MODULE StatePromise ----------------------------
(***************************************************************************)
(* What data/master_state.py promises the render workers, whatever the      *)
(* directories behind it do: one current snapshot, replaced as a whole by   *)
(* later ones, and readers that adopt a snapshot as a whole or not at all.  *)
(* A snapshot is an identifier and the set of files it names.               *)
(***************************************************************************)
EXTENDS Integers

CONSTANTS Readers, Files

VARIABLES
    current,  \* the snapshot state.json names
    reading,  \* reading[r]: the snapshot reader r is loading
    view      \* view[r]: the snapshot reader r serves from

Snapshots == [id : Nat, files : SUBSET Files]
NoSnapshot == [id |-> 0, files |-> {}]

Init ==
    /\ current = NoSnapshot
    /\ reading = [r \in Readers |-> NoSnapshot]
    /\ view = [r \in Readers |-> NoSnapshot]

\* The current snapshot is replaced by a later one.
Publish ==
    /\ current' \in Snapshots
    /\ current'.id > current.id
    /\ UNCHANGED <<reading, view>>

\* A reader starts on the current snapshot.
BeginRead(r) ==
    /\ reading[r] = NoSnapshot
    /\ current # NoSnapshot
    /\ reading' = [reading EXCEPT ![r] = current]
    /\ UNCHANGED <<current, view>>

\* ... and serves every file of it, never an earlier snapshot than before.
Adopt(r) ==
    /\ reading[r] # NoSnapshot
    /\ reading[r].id > view[r].id
    /\ view' = [view EXCEPT ![r] = reading[r]]
    /\ reading' = [reading EXCEPT ![r] = NoSnapshot]
    /\ UNCHANGED current

Next == Publish \/ \E r \in Readers : BeginRead(r) \/ Adopt(r)

Spec == Init /\ [][Next]_<<current, reading, view>>
=============================================================================
