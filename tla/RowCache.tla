------------------------------ MODULE RowCache ------------------------------
(***************************************************************************)
(* RowCache and QueryExecutor of src/src/query_executor.cpp.  Every call   *)
(* holds cache_mutex (executor_lock around it, always in that order) for   *)
(* its whole body, so one call is one step.                                *)
(*                                                                         *)
(* The key of an inserted row is its table and the second of the insert,   *)
(* so two inserts into a table within a second share a key.  put appends   *)
(* the key to lru_order whether it is there or not, and evicts by the      *)
(* first entry of lru_order, whether it is still cached or not: an entry   *)
(* whose key was evicted or erased through another entry is stale, and an  *)
(* eviction that meets it frees nothing.                                   *)
(***************************************************************************)
EXTENDS Integers, Sequences, SequencesExt, FiniteSets

CONSTANTS CacheTables, Columns, Values,
          Inputs,      \* the column and value lists of the inserts
          max_size,
          MaxTime,     \* bound on the clock
          MaxPuts      \* bound on the number of inserts

ASSUME InputsAssumption == Inputs \subseteq Seq(Columns) \X Seq(Values)
ASSUME SizeAssumption == max_size \in Nat \ {0}

VARIABLES cache,      \* the map from key to row
          lru_order,
          now,        \* time(nullptr)
          puts,       \* history: the keys and rows put, in order
          reputs,     \* history: how many puts found their key in lru_order
          since       \* history: since[k]: the cached keys put or got since k was

cacheVars == <<cache, lru_order, now, puts, reputs, since>>

(* table_name + ":row:" + std::to_string(time(nullptr)) *)
Key(table, second) == <<table, second>>
Keys == CacheTables \X Nat

Rows == UNION {[C -> Values] : C \in SUBSET Columns}

Put(map, k, v) == [x \in DOMAIN map \cup {k} |-> IF x = k THEN v ELSE map[x]]
Erase(map, k) == [x \in DOMAIN map \ {k} |-> map[x]]

(* Key k is put or got. *)
Used(k) == since' = [x \in DOMAIN cache' |->
                       IF x = k THEN {} ELSE (since[x] \cup {k}) \cap DOMAIN cache']

-----------------------------------------------------------------------------
CacheInit == /\ cache = <<>>
             /\ lru_order = <<>>
             /\ now = 0
             /\ puts = <<>>
             /\ reputs = 0
             /\ since = <<>>

(* An eviction only once the cache is over its size. *)
Full_Late == Cardinality(DOMAIN cache) > max_size /\ lru_order # <<>>

Full == Cardinality(DOMAIN cache) >= max_size /\ lru_order # <<>>

(* cache and lru_order after the eviction that put does first: none below  *)
(* max_size, else the first entry, cached or stale.                        *)
AfterEviction == IF Full THEN <<Erase(cache, Head(lru_order)), Tail(lru_order)>>
                         ELSE <<cache, lru_order>>

(* A put that does not enter the key into lru_order when it replaces a row. *)
put_NoEntry(k, row) ==
  /\ cache' = Put(AfterEviction[1], k, row)
  /\ lru_order' = IF k \in DOMAIN cache THEN AfterEviction[2]
                                        ELSE Append(AfterEviction[2], k)

(* A put through std::map::insert, which keeps a row that is there. *)
put_KeepOld(k, row) ==
  /\ cache' = IF k \in DOMAIN AfterEviction[1] THEN AfterEviction[1]
                                               ELSE Put(AfterEviction[1], k, row)
  /\ lru_order' = Append(AfterEviction[2], k)

put(k, row) == /\ cache' = Put(AfterEviction[1], k, row)
               /\ lru_order' = Append(AfterEviction[2], k)

(* std::find: the first entry of k, if there is one. *)
Find(k) == {i \in DOMAIN lru_order :
              lru_order[i] = k /\ \A j \in 1..(i - 1) : lru_order[j] # k}

erase(k) == /\ cache' = Erase(cache, k)
            /\ \/ Find(k) = {} /\ UNCHANGED lru_order
               \/ \E i \in Find(k) : lru_order' = RemoveAt(lru_order, i)
            /\ since' = [x \in DOMAIN cache' |-> since[x] \cap DOMAIN cache']
            /\ UNCHANGED <<now, puts, reputs>>

clear == /\ cache' = <<>>
         /\ lru_order' = <<>>
         /\ since' = <<>>
         /\ UNCHANGED <<now, puts, reputs>>

(* What a get finds: the set of the row, or of nothing. *)
get(k) == {cache[x] : x \in DOMAIN cache \cap {k}}

(* A get that finds a row uses it, and moves nothing in lru_order. *)
Hit(k) == /\ get(k) # {}
          /\ UNCHANGED <<cache, lru_order, now, puts, reputs>>
          /\ Used(k)

(* The loop over columns and values: it stops at the end of the shorter    *)
(* list, and the last value of a repeated column counts.                   *)
RowOf(columns, values) ==
  LET used == {i \in DOMAIN columns : i <= Len(values)}
  IN  [c \in {columns[i] : i \in used} |->
         values[CHOOSE i \in used : columns[i] = c /\ \A j \in used : columns[j] = c => j <= i]]

execute_insert(table, columns, values) ==
  LET k == Key(table, now)
      row == RowOf(columns, values)
  IN  /\ Len(puts) < MaxPuts
      /\ put(k, row)
      /\ puts' = Append(puts, <<k, row>>)
      /\ reputs' = IF Contains(lru_order, k) THEN reputs + 1 ELSE reputs
      /\ Used(k)
      /\ UNCHANGED now

Tick == /\ now < MaxTime
        /\ now' = now + 1
        /\ UNCHANGED <<cache, lru_order, puts, reputs, since>>

CacheNext == \/ \E t \in CacheTables, in \in Inputs : execute_insert(t, in[1], in[2])
             \/ \E t \in CacheTables, s \in 0..now : Hit(Key(t, s)) \/ erase(Key(t, s))
             \/ clear
             \/ Tick

CacheSpec == CacheInit /\ [][CacheNext]_cacheVars

-----------------------------------------------------------------------------
(* The cache maps keys to rows built from the inserted columns and values, *)
(* and lru_order lists keys.                                               *)
CacheTypeOK == /\ DOMAIN cache \subseteq Keys
               /\ \A k \in DOMAIN cache : cache[k] \in Rows
               /\ lru_order \in Seq(Keys)
               /\ now \in Nat
               /\ puts \in Seq(Keys \X Rows)
               /\ reputs \in Nat
               /\ since \in [DOMAIN cache -> SUBSET Keys]

(* Every cached row has an entry in lru_order, so evictions reach it: no   *)
(* row is cached for ever, whatever was put, evicted and erased before.    *)
EvictionReachesEveryRow == DOMAIN cache \subseteq ToSet(lru_order)

(* The cache exceeds max_size by no more than the number of puts whose key *)
(* was already listed: the check before the insert in put bounds it        *)
(* exactly as long as no key repeats.  lru_order is bounded likewise.      *)
OverflowBounded == /\ Cardinality(DOMAIN cache) <= max_size + reputs
                   /\ Len(lru_order) <= max_size + reputs

(* The position of the latest put of k. *)
PutAt(k) == SelectLastInSeq(puts, LAMBDA p : p[1] = k)

(* get never returns a stale row: a cached row is the last one put under   *)
(* its key.                                                                *)
GetReturnsLastPut ==
  \A k \in DOMAIN cache : get(k) = {puts[PutAt(k)][2]}

(* "Evict LRU if needed": an insert evicts the row whose last put or get   *)
(* is the longest ago, so every row it leaves was used since then.         *)
EvictsLeastRecentlyUsed ==
  [][puts' # puts =>
       \A gone \in DOMAIN cache \ DOMAIN cache' :
         \A kept \in DOMAIN cache \cap DOMAIN cache' :
           kept \in since[gone] \/ kept = Last(puts')[1]]_cacheVars
=============================================================================
