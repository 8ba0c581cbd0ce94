------------------------------ MODULE TileCache ------------------------------
(* The in-memory tile cache of a process (tiles/cache.py): a map in order of    *)
(* use, the sum of its sizes, and an index of the keys that lead with a         *)
(* timestamp.  Each operation takes the cache's lock for all it does, so it is  *)
(* one operator here, from a cache to a cache; the loops that take one entry    *)
(* after another off are the set of what they take.  A cache is a record:       *)
(* `value` what the keys hold, `older` their order of use, the pairs of a key    *)
(* and one used after it, `total` the sum it keeps, `byTs` the index, a set of  *)
(* <<timestamp, key>>.  A key is <<"radar", timestamp, ...>> for a tuple that     *)
(* leads with its timestamp, and <<name, ...>> for one that leads with a name:   *)
(* "sat", "cov" or "weather".                                                    *)
EXTENDS Integers, FiniteSets, Functions

CONSTANTS MaxBytes,       \* the budget
          SizeOf(_)       \* the size of a value

ASSUME BudgetAssumption == MaxBytes \in Nat

EmptyCache == [older |-> {}, value |-> << >>, total |-> 0, byTs |-> {}]

Cached(c, key) == key \in DOMAIN c.value

Indexed(key) == key[1] = "radar"
Entries(keys) == {<<k[2], k>> : k \in {k \in keys : Indexed(k)}}

\* The bytes of the entries of `keys`, each one told from the others by its key:
\* as many of them as the sizes add up to.
Bytes(c, keys) == UNION {{k} \X (1 .. SizeOf(c.value[k])) : k \in keys}
Size(c, keys) == Cardinality(Bytes(c, keys))

Older(c, key) == {k \in DOMAIN c.value : <<k, key>> \in c.older}

\* Mutant: an entry goes and the index keeps it.
DropKeepsIndex(c, keys) ==
    [older |-> {p \in c.older : p[1] \notin keys /\ p[2] \notin keys},
     value |-> Restrict(c.value, (DOMAIN c.value) \ keys),
     total |-> c.total - Size(c, keys),
     byTs  |-> c.byTs]

\* For each of `keys`: del self._cache[key], the bytes taken off, and _unindex_ts.
Drop(c, keys) ==
    [older |-> {p \in c.older : p[1] \notin keys /\ p[2] \notin keys},
     value |-> Restrict(c.value, (DOMAIN c.value) \ keys),
     total |-> c.total - Size(c, keys),
     byTs  |-> c.byTs \ Entries(keys)]

\* The order of use, with `key` the most recently used one.
MoveToEnd(c, key) ==
    {p \in c.older : key \notin {p[1], p[2]}} \cup (((DOMAIN c.value) \ {key}) \X {key})

Get(c, key) ==
    IF Cached(c, key) THEN [c EXCEPT !.older = MoveToEnd(c, key)] ELSE c

\* The oldest entry goes while the rest is beyond the budget.
EvictToBudget(c) ==
    Drop(c, {k \in DOMAIN c.value : c.total - Size(c, Older(c, k)) > MaxBytes})

Put(c, key, value) ==
    LET old == IF Cached(c, key) THEN SizeOf(c.value[key]) ELSE 0
    IN  EvictToBudget([older |-> MoveToEnd(c, key),
                       value |-> [k \in (DOMAIN c.value) \cup {key} |->
                                     IF k = key THEN value ELSE c.value[k]],
                       total |-> c.total - old + SizeOf(value),
                       byTs  |-> c.byTs \cup Entries({key})])

\* The oldest half goes, under memory pressure.
EvictHalf(c) ==
    Drop(c, {k \in DOMAIN c.value :
                Cardinality(Older(c, k)) < Cardinality(DOMAIN c.value) \div 2})

\* What the index has of the timestamps goes, whatever the map has of it.
InvalidateTimestamps(c, stamps) ==
    LET keys == {e[2] : e \in {e \in c.byTs : e[1] \in stamps}}
    IN  [Drop(c, {k \in keys : Cached(c, k)})
         EXCEPT !.byTs = {e \in c.byTs : e[1] \notin stamps}]

\* Radar and weather renders may have sampled a model; satellite and coverage
\* entries have not, and stay.
NwpDependent(key) == Indexed(key) \/ key[1] = "weather"

InvalidateNwpDependent(c) == Drop(c, {k \in DOMAIN c.value : NwpDependent(k)})

------------------------------------------------------------------------------
\* One entry is older than the other, of any two, and what is older than an older
\* one is older.
InOrder(older, keys) ==
    /\ older \subseteq keys \X keys
    /\ \A j, k \in keys : <<j, k>> \in older <=> j # k /\ <<k, j>> \notin older
    /\ \A i, j, k \in keys : <<i, j>> \in older /\ <<j, k>> \in older => <<i, k>> \in older

\* The map, its order, its index and its sum say the same, within the budget.
Consistent(c) ==
    /\ InOrder(c.older, DOMAIN c.value)
    /\ c.byTs = Entries(DOMAIN c.value)
    /\ c.total = Size(c, DOMAIN c.value)
    /\ c.total <= MaxBytes
=============================================================================
