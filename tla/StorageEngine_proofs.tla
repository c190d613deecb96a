------------------------ MODULE StorageEngine_proofs ------------------------
(***************************************************************************)
(* For any number of threads, pages and tables and any size of the pool:   *)
(* the pool's size is right and within its limit, a page is in the pool    *)
(* until it is evicted and only then, and no page is ever dirty, so that   *)
(* evict_lru never asks for the lock it holds.  The statistics, which      *)
(* threads may overwrite with old values, never exceed the calls.  For a   *)
(* slotted page of any size: the rows it takes read back, and its checksum *)
(* notices the damage it has not shifted out and no other.                 *)
(***************************************************************************)
EXTENDS StorageEngine, StoragePage, SequenceTheorems, FiniteSetTheorems, WellFoundedInduction, TLAPS

(* Pages as the constructor leaves them: nobody ever changes one. *)
FreshPages == {Page(n) : n \in Nat}

Stations == {"idle", "lookup", "hit", "miss", "load", "save_lookup", "save", "flush", "db_wait", "insert"}

Calls == {"none", "get_page", "save_page", "flush_all",
          "create_table", "insert_row", "update_row", "delete_row"}

ThreadState == [at : Stations, call : Calls, page_num : Nat, count : Nat, page : Nat,
                todo : SUBSET PageNums, entry : {0}, table : Tables \cup {"none"}]

(* The types; no thread stands in undefined behaviour, and flush_all never *)
(* leaves its iterator.                                                    *)
Typed == /\ objects \in Seq(FreshPages)
         /\ pages_ \in [DOMAIN pages_ -> [page : Nat, last_access : Nat]]
         /\ total_hits_ \in Nat /\ total_misses_ \in Nat
         /\ th \in [Threads -> ThreadState]

(* A thread between its lookup and its count still finds its page. *)
HitStays == \A t \in Threads : At(t, "hit") => th[t].page_num \in DOMAIN pages_

(* The pool's size, counted, and within what fits. *)
Sized == /\ IsFiniteSet(DOMAIN pages_)
         /\ current_size_ = PAGE_SIZE * Cardinality(DOMAIN pages_)
         /\ Cardinality(DOMAIN pages_) <= MaxPages

(* No page object stands under two numbers. *)
Distinct == /\ \A m, n \in DOMAIN pages_ : pages_[m].page = pages_[n].page => m = n
            /\ \A n \in DOMAIN pages_ : pages_[n].page \in 1..Len(objects)
            /\ evicted \subseteq 1..Len(objects)

PoolInv == Typed /\ HitStays /\ Sized /\ Distinct /\ OnlyEvictionDetaches

(* Table ids are page numbers. *)
SchemasTyped == schemas_ \in [DOMAIN schemas_ -> Nat] /\ next_table_id_ \in Nat

IInv == PoolInv /\ SchemasTyped

-----------------------------------------------------------------------------
(* What is left of a length in 16 bits is a length. *)
LEMMA LengthsAreNat == \A len \in RowLengths : len \in Nat
BY PoolAssumption DEF RowLengths

(* A page as it was made refuses every row. *)
LEMMA FullFromTheStart ==
  ASSUME NEW pg \in FreshPages
  PROVE  /\ \A len \in Nat : ~HasRoom(pg, len)
         /\ pg.slots = <<>> /\ pg.is_dirty = FALSE
         /\ \A len \in Nat, txn \in Nat : insert_row(pg, len, txn) = pg
         /\ \A len \in Nat, slot \in Nat, txn \in Nat : update_row(pg, slot, len, txn) = pg
         /\ \A slot \in Nat, txn \in Nat : delete_row(pg, slot, txn) = pg
<1>0. PICK n \in Nat : pg = Page(n)
  BY DEF FreshPages
<1>1. pg.free_offset = FirstFree /\ pg.slots = <<>> /\ pg.is_dirty = FALSE
  BY <1>0 DEF Page
<1>2. FirstFree > PAGE_SIZE /\ FirstFree \in Nat
  BY DEF FirstFree, PAGE_SIZE, PAGE_HEADER_SIZE, MAX_SLOTS_PER_PAGE, SlotHeaderSize
<1>3. \A len \in Nat : ~HasRoom(pg, len)
  BY <1>1, <1>2 DEF HasRoom, PAGE_SIZE
<1>4. DOMAIN pg.slots = {}
  BY <1>1
<1>5. \A len \in Nat, txn \in Nat : insert_row(pg, len, txn) = pg
  BY <1>3, Zenon DEF insert_row
<1>6. \A len \in Nat, slot \in Nat, txn \in Nat : update_row(pg, slot, len, txn) = pg
  BY <1>3, Zenon DEF update_row
<1>7. \A slot \in Nat, txn \in Nat : delete_row(pg, slot, txn) = pg
  BY <1>4, Zenon DEF delete_row
<1> QED BY <1>1, <1>3, <1>5, <1>6, <1>7

(* Writing a field of a page record anew. *)
LEMMA SameField ==
  ASSUME NEW n, NEW f, NEW s, NEW d
  PROVE  [[page_num |-> n, free_offset |-> f, slots |-> s, is_dirty |-> d] EXCEPT !.is_dirty = d]
           = [page_num |-> n, free_offset |-> f, slots |-> s, is_dirty |-> d]
OBVIOUS

(* mark_clean changes no page. *)
LEMMA CleanAlready ==
  ASSUME NEW pg \in FreshPages
  PROVE  [pg EXCEPT !.is_dirty = FALSE] = pg
<1>1. PICK n \in Nat : pg = Page(n)
  BY DEF FreshPages
<1>2. [Page(n) EXCEPT !.is_dirty = FALSE] = Page(n)
  BY SameField DEF Page
<1> QED BY <1>1, <1>2, Zenon

(* Overwriting an element, or a field of it, by itself. *)
LEMMA SameObjects ==
  ASSUME NEW S, NEW s \in Seq(S), NEW i, NEW v, i \in 1..Len(s) => v = s[i]
  PROVE  [s EXCEPT ![i] = v] = s
OBVIOUS

LEMMA SameFlag ==
  ASSUME NEW S, NEW s \in Seq(S), NEW i, NEW d,
         i \in 1..Len(s) => [s[i] EXCEPT !.is_dirty = d] = s[i]
  PROVE  [s EXCEPT ![i].is_dirty = d] = s
<1>1. [s EXCEPT ![i].is_dirty = d] = [s EXCEPT ![i] = [s[i] EXCEPT !.is_dirty = d]]
  OBVIOUS
<1> QED BY <1>1, SameObjects

(* The loop around evict_lru takes out at most one page, and one exactly    *)
(* when the pool was full.                                                  *)
LEMMA OneVictim ==
  ASSUME NEW D, NEW n, IsFiniteSet(D), n \notin D, Cardinality(D) <= MaxPages,
         NEW pool, DOMAIN pool = D \cup {n},
         NEW V \in Victims(pool, PAGE_SIZE * Cardinality(D) + PAGE_SIZE)
  PROVE  /\ V \subseteq D \cup {n}
         /\ Cardinality(V) \in {0, 1}
         /\ IsFiniteSet((D \cup {n}) \ V)
         /\ Cardinality((D \cup {n}) \ V) = Cardinality(D) + 1 - Cardinality(V)
         /\ Cardinality((D \cup {n}) \ V) <= MaxPages
<1> DEFINE c == Cardinality(D)
           size == PAGE_SIZE * c + PAGE_SIZE
           excess == IF size > max_size_ THEN (size - max_size_ + PAGE_SIZE - 1) \div PAGE_SIZE ELSE 0
<1>0. c \in Nat /\ MaxPages \in Nat /\ c <= MaxPages
  BY FS_CardinalityType, PoolAssumption
<1>1. IsFiniteSet(D \cup {n}) /\ Cardinality(D \cup {n}) = c + 1
  BY FS_AddElement
<1>2. excess = IF c = MaxPages THEN 1 ELSE 0
  <2>1. CASE c = MaxPages
    <3>1. size - max_size_ = 8192
      BY <1>0, <2>1 DEF max_size_, PAGE_SIZE
    <3>2. size > max_size_
      BY <1>0, <2>1 DEF max_size_, PAGE_SIZE
    <3>3. size - max_size_ + PAGE_SIZE - 1 = 16383
      BY <3>1 DEF PAGE_SIZE
    <3>4. excess = 16383 \div 8192
      <4> HIDE DEF size
      <4> QED BY SMT, <3>2, <3>3 DEF PAGE_SIZE
    <3>5. 16383 \div 8192 = 1
      BY SMT
    <3> HIDE DEF excess
    <3> QED BY SMT, <2>1, <3>4, <3>5
  <2>2. CASE c # MaxPages
    <3>1. c + 1 <= MaxPages
      BY <1>0, <2>2
    <3>2. ~(size > max_size_)
      <4> HIDE DEF c
      <4> QED BY SMT, <1>0, <3>1 DEF max_size_, PAGE_SIZE
    <3> QED BY <2>2, <3>2
  <2> HIDE DEF excess, c
  <2> QED BY <2>1, <2>2
<1>3. V \subseteq D \cup {n} /\ Cardinality(V) = IF c = MaxPages THEN 1 ELSE 0
  <2>1. /\ V \in SUBSET DOMAIN pool
        /\ Cardinality(V) = IF excess < Cardinality(DOMAIN pool) THEN excess ELSE Cardinality(DOMAIN pool)
    BY DEF Victims
  <2> HIDE DEF excess
  <2> QED BY <1>0, <1>1, <1>2, <2>1
<1>4. IsFiniteSet(V)
  BY <1>1, <1>3, FS_Subset
<1>5. CASE c = MaxPages
  <2>1. PICK x : V = {x}
    BY <1>3, <1>4, <1>5, FS_Singleton
  <2>2. /\ IsFiniteSet((D \cup {n}) \ {x})
        /\ Cardinality((D \cup {n}) \ {x}) = Cardinality(D \cup {n}) - 1
    BY <1>1, <1>3, <2>1, FS_RemoveElement
  <2> QED BY <1>0, <1>1, <1>3, <1>5, <2>1, <2>2
<1>6. CASE c # MaxPages
  <2>1. V = {}
    BY <1>3, <1>4, <1>6, FS_EmptySet
  <2>2. (D \cup {n}) \ V = D \cup {n}
    BY <2>1
  <2> QED BY <1>0, <1>1, <1>3, <1>6, <2>2
<1> QED BY <1>5, <1>6

-----------------------------------------------------------------------------
LEMMA StationNames ==
  /\ "idle" \in Stations /\ "lookup" \in Stations /\ "hit" \in Stations /\ "miss" \in Stations
  /\ "load" \in Stations /\ "save_lookup" \in Stations /\ "save" \in Stations
  /\ "flush" \in Stations /\ "db_wait" \in Stations /\ "insert" \in Stations
BY DEF Stations

LEMMA CallNames ==
  /\ "get_page" \in Calls /\ "save_page" \in Calls /\ "flush_all" \in Calls
  /\ "create_table" \in Calls /\ "insert_row" \in Calls /\ "update_row" \in Calls
  /\ "delete_row" \in Calls
BY DEF Calls

(* get_page returns a page to its caller. *)
LEMMA ReturnTyped ==
  ASSUME th \in [Threads -> ThreadState], NEW t \in Threads, NEW p \in Nat, ReturnPage(t, p)
  PROVE  /\ th' \in [Threads -> ThreadState]
         /\ th'[t].at # "hit"
         /\ \A u \in Threads \ {t} : th'[u] = th[u]
<1> DEFINE next == IF th[t].call = "insert_row" THEN "insert" ELSE "idle"
<1>1. next \in Stations /\ next # "hit"
  BY StationNames
<1>2. th' = [th EXCEPT ![t].page = p, ![t].count = 0, ![t].at = next]
  BY DEF ReturnPage
<1> HIDE DEF next
<1> DEFINE r == [th[t] EXCEPT !.page = p, !.count = 0, !.at = next]
<1>3. th[t] \in ThreadState
  OBVIOUS
<1>4. r \in ThreadState /\ r.at = next
  BY <1>1, <1>3 DEF ThreadState
<1>5. th' = [th EXCEPT ![t] = r]
  BY <1>2, <1>3 DEF ThreadState
<1> HIDE DEF r
<1> QED BY <1>1, <1>4, <1>5

(* A step that leaves the pool's contents alone. *)
LEMMA PoolStands ==
  ASSUME PoolInv, objects' = objects, pages_' = pages_, current_size_' = current_size_,
         evicted' = evicted, total_hits_' \in Nat, total_misses_' \in Nat,
         th' \in [Threads -> ThreadState], HitStays'
  PROVE  PoolInv'
BY DEF PoolInv, Typed, Sized, Distinct, OnlyEvictionDetaches

LEMMA LookupKeeps ==
  ASSUME PoolInv, NEW t \in Threads, Lookup(t)
  PROVE  PoolInv'
<1> USE DEF PoolInv, Typed
<1>1. th' \in [Threads -> ThreadState]
  <2> DEFINE h == [th[t] EXCEPT !.at = "hit", !.count = total_hits_]
             m == [th[t] EXCEPT !.at = "miss", !.count = total_misses_]
  <2>1. th[t] \in ThreadState
    OBVIOUS
  <2>2. h \in ThreadState /\ m \in ThreadState
    BY <2>1, StationNames DEF ThreadState
  <2>3. th' = [th EXCEPT ![t] = h] \/ th' = [th EXCEPT ![t] = m]
    BY DEF Lookup
  <2> HIDE DEF h, m
  <2> QED BY <2>2, <2>3
<1>2. HitStays'
  BY DEF HitStays, Lookup, At, ThreadState
<1> QED BY <1>1, <1>2, PoolStands DEF Lookup

LEMMA CountHitKeeps ==
  ASSUME PoolInv, NEW t \in Threads, CountHit(t)
  PROVE  PoolInv'
<1> USE DEF PoolInv, Typed
<1> DEFINE n == th[t].page_num
<1>1. n \in DOMAIN pages_ /\ pages_[n].page \in Nat
  BY DEF CountHit, HitStays
<1>2. PICK now \in Times : pages_' = [pages_ EXCEPT ![n].last_access = now]
  BY DEF CountHit
<1>3. /\ DOMAIN pages_' = DOMAIN pages_
      /\ \A m \in DOMAIN pages_ : pages_'[m].page = pages_[m].page
      /\ pages_' \in [DOMAIN pages_ -> [page : Nat, last_access : Nat]]
  BY <1>1, <1>2, PoolAssumption
<1>4. /\ th' \in [Threads -> ThreadState]
      /\ th'[t].at # "hit"
      /\ \A u \in Threads \ {t} : th'[u] = th[u]
  BY <1>1, ReturnTyped DEF CountHit
<1>5. total_hits_' \in Nat
  BY DEF CountHit, ThreadState
<1>6. HitStays'
  BY <1>3, <1>4 DEF HitStays, At
<1>7. Sized'
  BY <1>3 DEF Sized, CountHit
<1>8. Distinct' /\ OnlyEvictionDetaches'
  BY <1>3 DEF Distinct, OnlyEvictionDetaches, CountHit
<1> QED BY <1>3, <1>4, <1>5, <1>6, <1>7, <1>8 DEF CountHit

LEMMA CountMissKeeps ==
  ASSUME PoolInv, NEW t \in Threads, CountMiss(t)
  PROVE  PoolInv'
<1>0. th \in [Threads -> ThreadState] /\ HitStays /\ total_hits_ \in Nat
  BY DEF PoolInv, Typed
<1>1. th' = [th EXCEPT ![t].at = "load", ![t].count = 0]
  BY DEF CountMiss
<1>2. th' \in [Threads -> ThreadState]
  BY <1>0, <1>1, StationNames DEF ThreadState
<1>3. total_misses_' \in Nat
  BY <1>0 DEF CountMiss, ThreadState
<1>4. HitStays'
  BY <1>0, <1>1 DEF CountMiss, HitStays, At, ThreadState
<1> QED BY <1>0, <1>2, <1>3, <1>4, PoolStands DEF CountMiss

(* A page made: the size follows, and what leaves the pool is evicted. *)
LEMMA MakePageKeeps ==
  ASSUME PoolInv, NEW t \in Threads, At(t, "load"), ~SharedHeld,
         th[t].page_num \notin DOMAIN pages_, MakePage(t),
         UNCHANGED <<total_hits_, total_misses_>>
  PROVE  PoolInv'
<1> USE DEF PoolInv, Typed
<1> DEFINE n == th[t].page_num
           new == Len(objects) + 1
           Pool(now) == [m \in DOMAIN pages_ \cup {n} |->
                           IF m = n THEN [page |-> new, last_access |-> now] ELSE pages_[m]]
           size == current_size_ + PAGE_SIZE
<1>0. PICK now \in Times : \E V \in Victims(Pool(now), size) : Evict(t, Pool(now), size, V)
  BY DEF MakePage
<1>1. PICK V \in Victims(Pool(now), size) : Evict(t, Pool(now), size, V)
  BY <1>0
<1> DEFINE pool == Pool(now)
<1>2. objects' = Append(objects, Page(n)) /\ n \in Nat /\ Page(n) \in FreshPages
  BY DEF MakePage, ThreadState, FreshPages
<1>3. /\ objects' \in Seq(FreshPages) /\ Len(objects') = new
      /\ \A i \in 1..Len(objects) : objects[i] \in FreshPages
      /\ Len(objects) \in Nat
  BY <1>2
<1>4. /\ DOMAIN pool = DOMAIN pages_ \cup {n}
      /\ pool[n].page = new
      /\ \A m \in DOMAIN pages_ : pool[m] = pages_[m]
      /\ \A m \in DOMAIN pool : pool[m] \in [page : Nat, last_access : Nat]
  BY <1>3, PoolAssumption
<1> HIDE DEF Pool
<1>5. /\ V \subseteq DOMAIN pages_ \cup {n}
      /\ Cardinality(V) \in {0, 1}
      /\ IsFiniteSet((DOMAIN pages_ \cup {n}) \ V)
      /\ Cardinality((DOMAIN pages_ \cup {n}) \ V) = Cardinality(DOMAIN pages_) + 1 - Cardinality(V)
      /\ Cardinality((DOMAIN pages_ \cup {n}) \ V) <= MaxPages
  BY <1>4, OneVictim DEF Sized
<1>6. ~\E v \in V : pool[v].page <= Len(objects) /\ objects[pool[v].page].is_dirty
  <2>1. SUFFICES ASSUME NEW v \in V, pool[v].page <= Len(objects), objects[pool[v].page].is_dirty
                 PROVE  FALSE
    OBVIOUS
  <2>2. v \in DOMAIN pages_ /\ pool[v].page \in 1..Len(objects)
    BY <1>3, <1>4, <1>5, <2>1 DEF Distinct
  <2>3. objects[pool[v].page].is_dirty = FALSE
    BY <1>3, <2>2, FullFromTheStart
  <2> QED BY <2>1, <2>3
<1>7. /\ pages_' = [m \in DOMAIN pool \ V |-> pool[m]]
      /\ current_size_' = size - Cardinality(V) * PAGE_SIZE
      /\ evicted' = evicted \cup {pool[v].page : v \in V}
      /\ ReturnPage(t, pool[n].page)
  BY <1>1, <1>6 DEF Evict
<1>8. /\ DOMAIN pages_' = (DOMAIN pages_ \cup {n}) \ V
      /\ \A m \in DOMAIN pages_' : pages_'[m] = pool[m]
  BY <1>4, <1>7
<1>9. pages_' \in [DOMAIN pages_' -> [page : Nat, last_access : Nat]]
  BY <1>4, <1>7, <1>8
<1>10. /\ th' \in [Threads -> ThreadState]
       /\ th'[t].at # "hit"
       /\ \A u \in Threads \ {t} : th'[u] = th[u]
  BY <1>3, <1>4, <1>7, ReturnTyped
<1>11. HitStays'
  BY <1>10 DEF HitStays, SharedHeld, At
<1>12. Sized'
  <2>1. Cardinality(DOMAIN pages_) \in Nat
    BY FS_CardinalityType DEF Sized
  <2>2. current_size_ = PAGE_SIZE * Cardinality(DOMAIN pages_)
    BY DEF Sized
  <2>3. current_size_' = PAGE_SIZE * (Cardinality(DOMAIN pages_) + 1 - Cardinality(V))
    <3>1. CASE Cardinality(V) = 0
      BY <1>7, <2>1, <2>2, <3>1 DEF PAGE_SIZE
    <3>2. CASE Cardinality(V) = 1
      BY <1>7, <2>1, <2>2, <3>2 DEF PAGE_SIZE
    <3> QED BY <1>5, <3>1, <3>2
  <2> QED BY <1>5, <1>8, <2>3 DEF Sized
<1>13. \A m \in DOMAIN pool : pool[m].page \in 1..new
  BY <1>3, <1>4 DEF Distinct
<1>14. \A m, k \in DOMAIN pool : pool[m].page = pool[k].page => m = k
  BY <1>3, <1>4 DEF Distinct
<1>15. Distinct'
  BY <1>3, <1>4, <1>5, <1>7, <1>8, <1>13, <1>14 DEF Distinct
<1>16. OnlyEvictionDetaches'
  <2>1. SUFFICES ASSUME NEW i \in 1..new
                 PROVE  i \in evicted' <=> ~\E m \in DOMAIN pages_' : pages_'[m].page = i
    BY <1>3 DEF OnlyEvictionDetaches
  <2>2. i \in evicted <=> ~\E m \in DOMAIN pool : pool[m].page = i
    <3>1. CASE i = new
      BY <1>3, <1>4, <3>1 DEF Distinct
    <3>2. CASE i # new
      BY <1>3, <1>4, <3>2 DEF OnlyEvictionDetaches
    <3> QED BY <3>1, <3>2
  <2>3. CASE i \in evicted
    BY <1>7, <1>8, <1>4, <2>2, <2>3
  <2>4. CASE i \notin evicted
    <3>1. PICK m \in DOMAIN pool : pool[m].page = i
      BY <2>2, <2>4
    <3>2. CASE m \in V
      <4>1. i \in evicted'
        BY <1>7, <3>1, <3>2
      <4>2. ~\E k \in DOMAIN pages_' : pages_'[k].page = i
        BY <1>4, <1>8, <1>14, <3>1, <3>2
      <4> QED BY <4>1, <4>2
    <3>3. CASE m \notin V
      <4>1. i \notin evicted'
        BY <1>4, <1>5, <1>7, <1>14, <2>4, <3>1, <3>3
      <4>2. m \in DOMAIN pages_' /\ pages_'[m].page = i
        BY <1>4, <1>8, <3>1, <3>3
      <4> QED BY <4>1, <4>2
    <3> QED BY <3>2, <3>3
  <2> QED BY <2>3, <2>4
<1> QED BY <1>3, <1>9, <1>10, <1>11, <1>12, <1>15, <1>16

LEMMA LoadKeeps ==
  ASSUME PoolInv, NEW t \in Threads, Load(t)
  PROVE  PoolInv'
<1> USE DEF PoolInv, Typed
<1>1. CASE th[t].page_num \in DOMAIN pages_
  <2>1. pages_[th[t].page_num].page \in Nat /\ ReturnPage(t, pages_[th[t].page_num].page)
    BY <1>1 DEF Load
  <2>2. /\ th' \in [Threads -> ThreadState]
        /\ th'[t].at # "hit"
        /\ \A u \in Threads \ {t} : th'[u] = th[u]
    BY <2>1, ReturnTyped
  <2>3. HitStays'
    BY <1>1, <2>2 DEF Load, HitStays, At
  <2> QED BY <1>1, <2>2, <2>3, PoolStands DEF Load
<1>2. CASE th[t].page_num \notin DOMAIN pages_
  BY <1>2, MakePageKeeps DEF Load
<1> QED BY <1>1, <1>2

LEMMA SaveLookupKeeps ==
  ASSUME PoolInv, NEW t \in Threads, SaveLookup(t)
  PROVE  PoolInv'
<1> USE DEF PoolInv, Typed
<1> DEFINE n == th[t].page_num
           found == n \in DOMAIN pages_
           where == IF found THEN "save" ELSE IF th[t].call = "flush_all" THEN "flush" ELSE "idle"
           p == IF found THEN pages_[n].page ELSE th[t].page
<1>1. where \in Stations /\ where # "hit" /\ p \in Nat
  BY StationNames DEF ThreadState
<1>2. th' = [th EXCEPT ![t].at = where, ![t].page = p]
  BY DEF SaveLookup, ThreadState
<1> HIDE DEF where, p
<1>3. th' \in [Threads -> ThreadState]
  BY <1>1, <1>2 DEF ThreadState
<1>4. HitStays'
  BY <1>1, <1>2 DEF SaveLookup, HitStays, At, ThreadState
<1> QED BY <1>3, <1>4, PoolStands DEF SaveLookup

(* Only clean pages are there to be marked clean. *)
LEMMA SaveKeeps ==
  ASSUME PoolInv, NEW t \in Threads, Save(t)
  PROVE  PoolInv'
<1> USE DEF PoolInv, Typed
<1> DEFINE where == IF th[t].call = "flush_all" THEN "flush" ELSE "idle"
<1>1. where \in Stations /\ where # "hit"
  BY StationNames
<1>2. th' = [th EXCEPT ![t].at = where]
  BY DEF Save, GoTo
<1> HIDE DEF where
<1>3. th' \in [Threads -> ThreadState]
  BY <1>1, <1>2 DEF ThreadState
<1>4. HitStays'
  BY <1>1, <1>2 DEF Save, HitStays, At, ThreadState
<1>5. objects' = objects
  <2>1. th[t].page \in 1..Len(objects) => objects[th[t].page] \in FreshPages
    OBVIOUS
  <2>2. th[t].page \in 1..Len(objects)
          => [objects[th[t].page] EXCEPT !.is_dirty = FALSE] = objects[th[t].page]
    BY <2>1, CleanAlready, Zenon
  <2>3. [objects EXCEPT ![th[t].page].is_dirty = FALSE] = objects
    BY <2>2, SameFlag
  <2> QED BY <2>3, Zenon DEF Save
<1> QED BY <1>3, <1>4, <1>5, PoolStands DEF Save

(* No page is dirty, so flush_all ends at once. *)
LEMMA FlushEnds ==
  ASSUME PoolInv, NEW t \in Threads, Flush(t)
  PROVE  th' = [th EXCEPT ![t].at = "idle", ![t].todo = {}, ![t].entry = 0]
<1> DEFINE dirty == {n \in th[t].todo \cap DOMAIN pages_ : objects[pages_[n].page].is_dirty}
<1>1. dirty = {}
  <2>1. SUFFICES ASSUME NEW n \in DOMAIN pages_
                 PROVE  ~objects[pages_[n].page].is_dirty
    OBVIOUS
  <2>2. objects[pages_[n].page] \in FreshPages
    BY DEF PoolInv, Typed, Distinct
  <2> QED BY <2>2, FullFromTheStart
<1>2. th[t].entry = 0
  BY DEF PoolInv, Typed, ThreadState
<1> QED BY <1>1, <1>2 DEF Flush

LEMMA FlushKeeps ==
  ASSUME PoolInv, NEW t \in Threads, Flush(t)
  PROVE  PoolInv'
<1>0. /\ th \in [Threads -> ThreadState] /\ HitStays
      /\ total_hits_ \in Nat /\ total_misses_ \in Nat
  BY DEF PoolInv, Typed
<1>2. th' = [th EXCEPT ![t].at = "idle", ![t].todo = {}, ![t].entry = 0]
  BY FlushEnds
<1>3. pages_' = pages_
  BY DEF Flush
<1> DEFINE r == [th[t] EXCEPT !.at = "idle", !.todo = {}, !.entry = 0]
<1>4. r \in ThreadState /\ r.at = "idle"
  <2>1. th[t] \in ThreadState
    BY <1>0
  <2> QED BY <2>1, StationNames DEF ThreadState
<1>5. th' = [th EXCEPT ![t] = r]
  BY <1>0, <1>2 DEF ThreadState
<1> HIDE DEF r
<1>6. th' \in [Threads -> ThreadState]
  BY <1>0, <1>4, <1>5
<1>7. HitStays'
  BY <1>0, <1>3, <1>4, <1>5 DEF HitStays, At
<1> QED BY <1>0, <1>6, <1>7, PoolStands DEF Flush

LEMMA PoolStepKeeps ==
  ASSUME PoolInv, NEW t \in Threads, PoolStep(t)
  PROVE  PoolInv'
<1>1. CASE Lookup(t) BY <1>1, LookupKeeps
<1>2. CASE CountHit(t) BY <1>2, CountHitKeeps
<1>3. CASE CountMiss(t) BY <1>3, CountMissKeeps
<1>4. CASE Load(t) BY <1>4, LoadKeeps
<1>5. CASE SaveLookup(t) BY <1>5, SaveLookupKeeps
<1>6. CASE Save(t) BY <1>6, SaveKeeps
<1>7. CASE Flush(t) BY <1>7, FlushKeeps
<1> QED BY <1>1, <1>2, <1>3, <1>4, <1>5, <1>6, <1>7 DEF PoolStep

(* A thread that begins a call or moves on within one, the pool untouched. *)
LEMMA ThreadMoves ==
  ASSUME PoolInv, NEW t \in Threads, NEW r \in ThreadState, r.at # "hit",
         th' = [th EXCEPT ![t] = r],
         UNCHANGED <<objects, pages_, current_size_, total_hits_, total_misses_, evicted>>
  PROVE  PoolInv'
<1>1. /\ th \in [Threads -> ThreadState] /\ HitStays
      /\ total_hits_ \in Nat /\ total_misses_ \in Nat
  BY DEF PoolInv, Typed
<1>2. th' \in [Threads -> ThreadState]
  BY <1>1
<1>3. HitStays'
  BY <1>1 DEF HitStays, At
<1> QED BY <1>1, <1>2, <1>3, PoolStands

LEMMA PoolCallKeeps ==
  ASSUME PoolInv, NEW t \in Threads, PoolCall(t)
  PROVE  PoolInv'
<1>0. th \in [Threads -> ThreadState] /\ th[t] \in ThreadState
  BY DEF PoolInv, Typed
<1>1. ASSUME NEW n \in PageNums, get_page(t, n)
      PROVE  PoolInv'
  <2> DEFINE r == [th[t] EXCEPT !.at = "lookup", !.call = "get_page", !.page_num = n]
  <2>1. r \in ThreadState /\ r.at # "hit"
    BY <1>0, StationNames, CallNames, PoolAssumption DEF ThreadState
  <2>2. th' = [th EXCEPT ![t] = r]
    BY <1>1 DEF get_page
  <2> HIDE DEF r
  <2> QED BY <1>1, <2>1, <2>2, ThreadMoves DEF get_page, MayCall
<1>2. ASSUME NEW n \in PageNums, save_page(t, n)
      PROVE  PoolInv'
  <2> DEFINE r == [th[t] EXCEPT !.at = "save_lookup", !.call = "save_page", !.page_num = n]
  <2>1. r \in ThreadState /\ r.at # "hit"
    BY <1>0, StationNames, CallNames, PoolAssumption DEF ThreadState
  <2>2. th' = [th EXCEPT ![t] = r]
    BY <1>2 DEF save_page
  <2> HIDE DEF r
  <2> QED BY <1>2, <2>1, <2>2, ThreadMoves DEF save_page, MayCall
<1>3. CASE flush_all(t)
  <2> DEFINE r == [th[t] EXCEPT !.at = "flush", !.call = "flush_all", !.todo = PageNums]
  <2>1. r \in ThreadState /\ r.at # "hit"
    BY <1>0, StationNames, CallNames DEF ThreadState
  <2>2. th' = [th EXCEPT ![t] = r]
    BY <1>3 DEF flush_all
  <2> HIDE DEF r
  <2> QED BY <1>3, <2>1, <2>2, ThreadMoves DEF flush_all, MayCall
<1>4. CASE ChangePage(t)
  <2> DEFINE p == th[t].page
  <2>1. PICK pg \in {insert_row(objects[p], len, 1) : len \in RowLengths}
                    \cup {update_row(objects[p], 1, len, 2) : len \in RowLengths}
                    \cup {delete_row(objects[p], 1, 2)} :
                objects' = [objects EXCEPT ![p] = pg]
    BY <1>4, Zenon DEF ChangePage
  <2>2. p \in 1..Len(objects) => pg = objects[p]
    <3>1. SUFFICES ASSUME p \in 1..Len(objects) PROVE pg = objects[p]
      OBVIOUS
    <3>2. objects[p] \in FreshPages
      BY <3>1 DEF PoolInv, Typed
    <3>3. (\A len \in RowLengths : len \in Nat) /\ 1 \in Nat /\ 2 \in Nat
      BY LengthsAreNat
    <3>4. /\ \A len \in Nat, txn \in Nat : insert_row(objects[p], len, txn) = objects[p]
          /\ \A len \in Nat, slot \in Nat, txn \in Nat : update_row(objects[p], slot, len, txn) = objects[p]
          /\ \A slot \in Nat, txn \in Nat : delete_row(objects[p], slot, txn) = objects[p]
      BY <3>2, FullFromTheStart, Zenon
    <3>5. /\ \A len \in RowLengths : insert_row(objects[p], len, 1) = objects[p]
          /\ \A len \in RowLengths : update_row(objects[p], 1, len, 2) = objects[p]
          /\ delete_row(objects[p], 1, 2) = objects[p]
      BY <3>3, <3>4, Zenon
    <3> QED BY <2>1, <3>5
  <2>3. objects' = objects
    BY <2>1, <2>2, SameObjects DEF PoolInv, Typed
  <2>4. th' = th /\ UNCHANGED <<pages_, current_size_, total_hits_, total_misses_, evicted>>
    BY <1>4 DEF ChangePage, MayCall
  <2>5. HitStays' /\ total_hits_ \in Nat /\ total_misses_ \in Nat
    BY <2>4 DEF PoolInv, Typed, HitStays, At
  <2> QED BY <1>0, <2>3, <2>4, <2>5, PoolStands
<1> QED BY <1>1, <1>2, <1>3, <1>4 DEF PoolCall

-----------------------------------------------------------------------------
(* The engine's calls; schemas_ maps names to page numbers. *)
LEMMA EngineCallKeeps ==
  ASSUME PoolInv, NEW t \in Threads, NEW name \in Tables,
         NEW c \in {"create_table", "insert_row", "update_row", "delete_row"}, EngineCall(t, c, name)
  PROVE  PoolInv'
<1>1. th \in [Threads -> ThreadState] /\ th[t] \in ThreadState
  BY DEF PoolInv, Typed
<1> DEFINE r == [th[t] EXCEPT !.at = "db_wait", !.call = c, !.table = name]
<1>2. c \in Calls
  BY CallNames
<1>3. r \in ThreadState /\ r.at # "hit"
  BY <1>1, <1>2, StationNames DEF ThreadState
<1>4. th' = [th EXCEPT ![t] = r]
  BY DEF EngineCall
<1> HIDE DEF r
<1> QED BY <1>3, <1>4, ThreadMoves DEF EngineCall

LEMMA ReturnAtOnceKeeps ==
  ASSUME PoolInv, NEW t \in Threads, ReturnAtOnce(t)
  PROVE  PoolInv'
<1>1. th \in [Threads -> ThreadState] /\ th[t] \in ThreadState
  BY DEF PoolInv, Typed
<1> DEFINE r == [th[t] EXCEPT !.at = "idle", !.table = "none"]
<1>2. r \in ThreadState /\ r.at # "hit"
  BY <1>1, StationNames DEF ThreadState
<1>3. th' = [th EXCEPT ![t] = r]
  BY DEF ReturnAtOnce
<1> HIDE DEF r
<1> QED BY <1>2, <1>3, ThreadMoves DEF ReturnAtOnce

LEMMA CreateTableKeeps ==
  ASSUME IInv, NEW t \in Threads, create_table(t)
  PROVE  IInv'
<1>1. PoolInv'
  BY ReturnAtOnceKeeps DEF IInv, create_table
<1>2. SchemasTyped'
  <2>1. CASE th[t].table \in DOMAIN schemas_
    BY <2>1 DEF IInv, create_table, SchemasTyped
  <2>2. CASE th[t].table \notin DOMAIN schemas_
    BY <2>2 DEF IInv, create_table, SchemasTyped
  <2> QED BY <2>1, <2>2
<1> QED BY <1>1, <1>2 DEF IInv

LEMMA InsertEnterKeeps ==
  ASSUME IInv, NEW t \in Threads, InsertEnter(t)
  PROVE  PoolInv'
<1>0. PoolInv /\ SchemasTyped
  BY DEF IInv
<1>1. CASE th[t].table \notin DOMAIN schemas_
  BY <1>0, <1>1, ReturnAtOnceKeeps DEF InsertEnter
<1>2. CASE th[t].table \in DOMAIN schemas_
  <2> DEFINE n == schemas_[th[t].table]
             r == [th[t] EXCEPT !.at = "lookup", !.page_num = n]
  <2>1. th \in [Threads -> ThreadState] /\ th[t] \in ThreadState /\ n \in Nat
    BY <1>0, <1>2 DEF PoolInv, Typed, SchemasTyped
  <2>2. th' = [th EXCEPT ![t] = r]
    BY <1>2 DEF InsertEnter
  <2> HIDE DEF n
  <2>3. r \in ThreadState /\ r.at # "hit"
    BY <2>1, StationNames DEF ThreadState
  <2> HIDE DEF r
  <2> QED BY <1>0, <1>2, <2>2, <2>3, ThreadMoves DEF InsertEnter
<1> QED BY <1>1, <1>2

(* No page has room, so the insert changes none. *)
LEMMA InsertFinishKeeps ==
  ASSUME PoolInv, NEW t \in Threads, InsertFinish(t)
  PROVE  PoolInv'
<1> DEFINE p == th[t].page
           r == [th[t] EXCEPT !.at = "idle", !.table = "none"]
<1>1. PICK len \in RowLengths : objects' = [objects EXCEPT ![p] = insert_row(objects[p], len, 1)]
  BY DEF InsertFinish
<1>2. p \in 1..Len(objects) => insert_row(objects[p], len, 1) = objects[p]
  <2>1. SUFFICES ASSUME p \in 1..Len(objects) PROVE insert_row(objects[p], len, 1) = objects[p]
    OBVIOUS
  <2>2. objects[p] \in FreshPages
    BY <2>1 DEF PoolInv, Typed
  <2>3. len \in Nat /\ 1 \in Nat
    BY LengthsAreNat
  <2> QED BY <2>2, <2>3, FullFromTheStart, Zenon
<1>3. objects' = objects
  BY <1>1, <1>2, SameObjects DEF PoolInv, Typed
<1>4. th \in [Threads -> ThreadState] /\ th[t] \in ThreadState
  BY DEF PoolInv, Typed
<1>5. r \in ThreadState /\ r.at # "hit"
  BY <1>4, StationNames DEF ThreadState
<1>6. th' = [th EXCEPT ![t] = r]
  BY DEF InsertFinish
<1> HIDE DEF r
<1> QED BY <1>3, <1>5, <1>6, ThreadMoves DEF InsertFinish

-----------------------------------------------------------------------------
LEMMA InitHolds == StorageInit => IInv
<1> SUFFICES ASSUME StorageInit PROVE IInv
  OBVIOUS
<1>1. /\ objects = <<>> /\ pages_ = <<>> /\ current_size_ = 0 /\ evicted = {}
      /\ total_hits_ = 0 /\ total_misses_ = 0 /\ th = [t \in Threads |-> Idle]
      /\ schemas_ = <<>> /\ next_table_id_ = 1
  BY DEF StorageInit, PoolInit
<1>2. Idle \in ThreadState /\ Idle.at # "hit"
  BY DEF Idle, ThreadState, Stations, Calls
<1>3. DOMAIN pages_ = {} /\ DOMAIN schemas_ = {} /\ Len(objects) = 0
  BY <1>1
<1>4. Typed
  BY <1>1, <1>2, <1>3 DEF Typed
<1>5. HitStays
  BY <1>1, <1>2 DEF HitStays, At
<1>6. Sized
  BY <1>1, <1>3, FS_EmptySet, PoolAssumption DEF Sized, PAGE_SIZE
<1>7. Distinct /\ OnlyEvictionDetaches
  BY <1>1, <1>3 DEF Distinct, OnlyEvictionDetaches
<1>8. SchemasTyped
  BY <1>1, <1>3 DEF SchemasTyped
<1> QED BY <1>4, <1>5, <1>6, <1>7, <1>8 DEF IInv, PoolInv

LEMMA StepKeeps == IInv /\ [StorageNext]_storageVars => IInv'
<1> SUFFICES ASSUME IInv, [StorageNext]_storageVars PROVE IInv'
  OBVIOUS
<1>0. PoolInv /\ SchemasTyped
  BY DEF IInv
<1>1. CASE UNCHANGED storageVars
  <2>1. /\ UNCHANGED <<objects, pages_, current_size_, total_hits_, total_misses_, th, evicted>>
        /\ UNCHANGED <<schemas_, next_table_id_>>
    BY <1>1 DEF storageVars, poolVars, engineVars
  <2>2. th \in [Threads -> ThreadState] /\ total_hits_ \in Nat /\ total_misses_ \in Nat
    BY <1>0 DEF PoolInv, Typed
  <2>3. HitStays'
    BY <1>0, <2>1 DEF PoolInv, HitStays, At
  <2>4. PoolInv'
    BY <1>0, <2>1, <2>2, <2>3, PoolStands
  <2> QED BY <1>0, <2>1, <2>4 DEF IInv, SchemasTyped
<1>2. ASSUME NEW t \in Threads, ThreadStep(t) PROVE IInv'
  <2>1. CASE PoolStep(t) /\ UNCHANGED engineVars
    BY <1>0, <2>1, PoolStepKeeps DEF IInv, SchemasTyped, engineVars
  <2>2. CASE create_table(t)
    BY <2>2, CreateTableKeeps
  <2>3. CASE CountOnly(t)
    BY <1>0, <2>3, ReturnAtOnceKeeps DEF CountOnly, IInv, SchemasTyped
  <2>4. CASE InsertEnter(t)
    BY <1>0, <2>4, InsertEnterKeeps DEF InsertEnter, IInv, SchemasTyped
  <2>5. CASE InsertFinish(t)
    BY <1>0, <2>5, InsertFinishKeeps DEF InsertFinish, IInv, SchemasTyped
  <2> QED BY <1>2, <2>1, <2>2, <2>3, <2>4, <2>5 DEF ThreadStep
<1>3. ASSUME NEW t \in Threads, PoolCall(t), UNCHANGED engineVars PROVE IInv'
  BY <1>0, <1>3, PoolCallKeeps DEF IInv, SchemasTyped, engineVars
<1>4. ASSUME NEW t \in Threads, NEW name \in Tables,
             NEW c \in {"create_table", "insert_row", "update_row", "delete_row"},
             EngineCall(t, c, name)
      PROVE  IInv'
  <2>1. PoolInv'
    BY <1>0, <1>4, EngineCallKeeps
  <2> QED BY <1>0, <1>4, <2>1 DEF EngineCall, IInv, SchemasTyped, engineVars
<1> QED BY <1>1, <1>2, <1>3, <1>4 DEF StorageNext

LEMMA Inductive == StorageSpec => []IInv
BY InitHolds, StepKeeps, PTL DEF StorageSpec

LEMMA NobodyStuck == IInv => ~ExclusiveHeld
BY DEF IInv, PoolInv, Typed, ThreadState, Stations, ExclusiveHeld

(* However many threads load, hit and evict, current_size_ is what the pool *)
(* holds, and within max_size_.                                             *)
THEOREM PoolSizeRight == StorageSpec => []PoolAccounting
<1>1. IInv => PoolAccounting
  <2> SUFFICES ASSUME IInv PROVE PoolAccounting
    OBVIOUS
  <2>1. Sized
    BY DEF IInv, PoolInv
  <2>2. Cardinality(DOMAIN pages_) \in Nat
    BY <2>1, FS_CardinalityType DEF Sized
  <2> QED BY <2>1, <2>2, PoolAssumption DEF Sized, PoolAccounting, max_size_, PAGE_SIZE
<1> QED BY <1>1, Inductive, PTL

(* The second lookup of get_page suffices for any number of threads: no     *)
(* Page is made twice for one number while it is in the pool.               *)
THEOREM PagesStayUntilEvicted == StorageSpec => []OnlyEvictionDetaches
<1>1. IInv => OnlyEvictionDetaches
  BY DEF IInv, PoolInv
<1> QED BY <1>1, Inductive, PTL

(* No page is ever dirty, whatever rows of whatever length are offered, and *)
(* evict_lru never meets the lock it holds.                                 *)
THEOREM NeverDirty == StorageSpec => []NothingToSave
<1>1. IInv => NothingToSave
  <2> SUFFICES ASSUME IInv PROVE NothingToSave
    OBVIOUS
  <2>1. \A i \in 1..Len(objects) : objects[i] \in FreshPages
    BY DEF IInv, PoolInv, Typed
  <2>2. \A i \in 1..Len(objects) : ~objects[i].is_dirty /\ objects[i].slots = <<>>
    BY <2>1, FullFromTheStart
  <2> QED BY <2>2, NobodyStuck DEF NothingToSave
<1> QED BY <1>1, Inductive, PTL

-----------------------------------------------------------------------------
(* The threads whose get_page has not written its statistic yet. *)
Counting == {"lookup", "hit", "miss"}
Uncounted == {t \in Threads : th[t].at \in Counting}

(* A thread may write back an old value, so the statistics are not what was *)
(* counted.  But they, and every value read and not yet written back, are   *)
(* at most some numbers of hits and misses that have been counted.          *)
Counted ==
  /\ gets \in Nat /\ IsFiniteSet(Uncounted)
  /\ \E H, M \in Nat :
       /\ total_hits_ <= H /\ \A t \in Threads : At(t, "hit") => th[t].count <= H
       /\ total_misses_ <= M /\ \A t \in Threads : At(t, "miss") => th[t].count <= M
       /\ H + M + Cardinality(Uncounted) = gets

(* Behind db_mutex_ only its holder is in the pool, and what it has read is *)
(* what it overwrites.                                                      *)
InPool == {"lookup", "hit", "miss", "load", "insert"}
Serial ==
  owner = "engine" =>
    /\ \A t \in Threads : th[t].at \in InPool => db_mutex_ = t
    /\ \A t \in Threads : /\ At(t, "hit") => th[t].count = total_hits_
                          /\ At(t, "miss") => th[t].count = total_misses_
    /\ total_hits_ + total_misses_ + (IF Uncounted = {} THEN 0 ELSE 1) = gets

Statistics == Counted /\ Serial

(* A step outside the counting part of get_page. *)
LEMMA QuietStep ==
  ASSUME IInv, Statistics, NEW t \in Threads, NEW r, th' = [th EXCEPT ![t] = r],
         th[t].at \notin Counting, r.at \notin Counting,
         r.at \in InPool => th[t].at \in InPool,
         UNCHANGED <<total_hits_, total_misses_, gets, owner>>,
         db_mutex_' = db_mutex_ \/ (th[t].at \in InPool /\ r.at \notin InPool)
  PROVE  Statistics'
<1>1. th \in [Threads -> ThreadState]
  BY DEF IInv, PoolInv, Typed
<1>2. th'[t] = r /\ \A u \in Threads : u # t => th'[u] = th[u]
  BY <1>1
<1>3. Uncounted' = Uncounted
  BY <1>2 DEF Uncounted
<1>4. \A u \in Threads : (At(u, "hit") \/ At(u, "miss"))' => u # t /\ th'[u] = th[u]
  BY <1>2 DEF At, Counting
<1>5. \A u \in Threads : /\ At(u, "hit")' => At(u, "hit") /\ th'[u].count = th[u].count
                         /\ At(u, "miss")' => At(u, "miss") /\ th'[u].count = th[u].count
  BY <1>4 DEF At
<1>6. Counted'
  <2>1. PICK H, M \in Nat :
           /\ total_hits_ <= H /\ \A u \in Threads : At(u, "hit") => th[u].count <= H
           /\ total_misses_ <= M /\ \A u \in Threads : At(u, "miss") => th[u].count <= M
           /\ H + M + Cardinality(Uncounted) = gets
    BY DEF Statistics, Counted
  <2>2. /\ total_hits_' <= H /\ \A u \in Threads : At(u, "hit")' => th'[u].count <= H
        /\ total_misses_' <= M /\ \A u \in Threads : At(u, "miss")' => th'[u].count <= M
        /\ H + M + Cardinality(Uncounted') = gets'
    BY <1>3, <1>5, <2>1
  <2>3. gets' \in Nat /\ IsFiniteSet(Uncounted')
    BY <1>3 DEF Statistics, Counted
  <2> QED BY <2>2, <2>3 DEF Counted
<1>7. Serial'
  <2> SUFFICES ASSUME owner' = "engine"
               PROVE  /\ \A u \in Threads : th'[u].at \in InPool => db_mutex_' = u
                      /\ \A u \in Threads : /\ At(u, "hit")' => th'[u].count = total_hits_'
                                            /\ At(u, "miss")' => th'[u].count = total_misses_'
                      /\ total_hits_' + total_misses_' + (IF Uncounted' = {} THEN 0 ELSE 1) = gets'
    BY DEF Serial
  <2>1. /\ \A u \in Threads : th[u].at \in InPool => db_mutex_ = u
        /\ \A u \in Threads : /\ At(u, "hit") => th[u].count = total_hits_
                              /\ At(u, "miss") => th[u].count = total_misses_
        /\ total_hits_ + total_misses_ + (IF Uncounted = {} THEN 0 ELSE 1) = gets
    BY DEF Statistics, Serial
  <2>2. \A u \in Threads : th'[u].at \in InPool => db_mutex_' = u
    BY <1>2, <2>1
  <2> QED BY <1>3, <1>5, <2>1, <2>2
<1> QED BY <1>6, <1>7 DEF Statistics

(* get_page is entered. *)
LEMMA EnterStep ==
  ASSUME IInv, Statistics, NEW t \in Threads, NEW r, th' = [th EXCEPT ![t] = r],
         th[t].at \notin InPool, r.at = "lookup", gets' = gets + 1,
         UNCHANGED <<total_hits_, total_misses_, owner>>,
         owner = "engine" => db_mutex_ = Nobody /\ db_mutex_' = t
  PROVE  Statistics'
<1>1. /\ th \in [Threads -> ThreadState] /\ total_hits_ \in Nat /\ total_misses_ \in Nat
  BY DEF IInv, PoolInv, Typed
<1>2. th'[t] = r /\ \A u \in Threads : u # t => th'[u] = th[u]
  BY <1>1
<1>3. Uncounted' = Uncounted \cup {t} /\ t \notin Uncounted
  BY <1>2 DEF Uncounted, Counting, InPool
<1>4. \A u \in Threads : /\ At(u, "hit")' => At(u, "hit") /\ th'[u].count = th[u].count
                         /\ At(u, "miss")' => At(u, "miss") /\ th'[u].count = th[u].count
  BY <1>2 DEF At
<1>5. /\ IsFiniteSet(Uncounted') /\ Cardinality(Uncounted') = Cardinality(Uncounted) + 1
      /\ Cardinality(Uncounted) \in Nat
  BY <1>3, FS_AddElement, FS_CardinalityType DEF Statistics, Counted
<1>6. Counted'
  <2>1. PICK H, M \in Nat :
           /\ total_hits_ <= H /\ \A u \in Threads : At(u, "hit") => th[u].count <= H
           /\ total_misses_ <= M /\ \A u \in Threads : At(u, "miss") => th[u].count <= M
           /\ H + M + Cardinality(Uncounted) = gets
    BY DEF Statistics, Counted
  <2>2. /\ total_hits_' <= H /\ \A u \in Threads : At(u, "hit")' => th'[u].count <= H
        /\ total_misses_' <= M /\ \A u \in Threads : At(u, "miss")' => th'[u].count <= M
        /\ H + M + Cardinality(Uncounted') = gets'
    BY <1>4, <1>5, <2>1
  <2>3. gets' \in Nat
    BY DEF Statistics, Counted
  <2> QED BY <1>5, <2>2, <2>3 DEF Counted
<1>7. Serial'
  <2> SUFFICES ASSUME owner' = "engine"
               PROVE  /\ \A u \in Threads : th'[u].at \in InPool => db_mutex_' = u
                      /\ \A u \in Threads : /\ At(u, "hit")' => th'[u].count = total_hits_'
                                            /\ At(u, "miss")' => th'[u].count = total_misses_'
                      /\ total_hits_' + total_misses_' + (IF Uncounted' = {} THEN 0 ELSE 1) = gets'
    BY DEF Serial
  <2>1. /\ \A u \in Threads : th[u].at \in InPool => db_mutex_ = u
        /\ \A u \in Threads : /\ At(u, "hit") => th[u].count = total_hits_
                              /\ At(u, "miss") => th[u].count = total_misses_
        /\ total_hits_ + total_misses_ + (IF Uncounted = {} THEN 0 ELSE 1) = gets
    BY DEF Statistics, Serial
  <2>2. \A u \in Threads : th[u].at \notin InPool
    BY <2>1, EngineAssumption
  <2>3. Uncounted = {} /\ Uncounted' # {}
    BY <1>3, <2>2 DEF Uncounted, Counting, InPool
  <2>4. \A u \in Threads : th'[u].at \in InPool => db_mutex_' = u
    BY <1>2, <2>2
  <2>5. total_hits_' + total_misses_' + 1 = gets'
    BY <1>1, <2>1, <2>3
  <2> QED BY <1>4, <2>1, <2>3, <2>4, <2>5
<1> QED BY <1>6, <1>7 DEF Statistics

LEMMA LookupCounts ==
  ASSUME IInv, Statistics, NEW t \in Threads, Lookup(t), UNCHANGED db_mutex_
  PROVE  Statistics'
<1>1. /\ th \in [Threads -> ThreadState] /\ total_hits_ \in Nat /\ total_misses_ \in Nat
  BY DEF IInv, PoolInv, Typed
<1>2. /\ th[t].at = "lookup" /\ UNCHANGED <<total_hits_, total_misses_, gets, owner>>
      /\ \A u \in Threads : u # t => th'[u] = th[u]
      /\ \/ th'[t].at = "hit" /\ th'[t].count = total_hits_
         \/ th'[t].at = "miss" /\ th'[t].count = total_misses_
  BY <1>1 DEF Lookup, At, ThreadState
<1>3. Uncounted' = Uncounted
  BY <1>2 DEF Uncounted, Counting
<1>4. Counted'
  <2>1. PICK H, M \in Nat :
           /\ total_hits_ <= H /\ \A u \in Threads : At(u, "hit") => th[u].count <= H
           /\ total_misses_ <= M /\ \A u \in Threads : At(u, "miss") => th[u].count <= M
           /\ H + M + Cardinality(Uncounted) = gets
    BY DEF Statistics, Counted
  <2>2. /\ total_hits_' <= H /\ \A u \in Threads : At(u, "hit")' => th'[u].count <= H
        /\ total_misses_' <= M /\ \A u \in Threads : At(u, "miss")' => th'[u].count <= M
        /\ H + M + Cardinality(Uncounted') = gets'
    BY <1>2, <1>3, <2>1 DEF At
  <2>3. gets' \in Nat /\ IsFiniteSet(Uncounted')
    BY <1>2, <1>3 DEF Statistics, Counted
  <2> QED BY <2>2, <2>3 DEF Counted
<1>5. Serial'
  <2> SUFFICES ASSUME owner' = "engine"
               PROVE  /\ \A u \in Threads : th'[u].at \in InPool => db_mutex_' = u
                      /\ \A u \in Threads : /\ At(u, "hit")' => th'[u].count = total_hits_'
                                            /\ At(u, "miss")' => th'[u].count = total_misses_'
                      /\ total_hits_' + total_misses_' + (IF Uncounted' = {} THEN 0 ELSE 1) = gets'
    BY DEF Serial
  <2>1. /\ \A u \in Threads : th[u].at \in InPool => db_mutex_ = u
        /\ \A u \in Threads : /\ At(u, "hit") => th[u].count = total_hits_
                              /\ At(u, "miss") => th[u].count = total_misses_
        /\ total_hits_ + total_misses_ + (IF Uncounted = {} THEN 0 ELSE 1) = gets
    BY <1>2 DEF Statistics, Serial
  <2>2. th[t].at \in InPool
    BY <1>2 DEF InPool
  <2>3. \A u \in Threads : th'[u].at \in InPool => db_mutex_' = u
    BY <1>2, <2>1, <2>2
  <2>4. \A u \in Threads : /\ At(u, "hit")' => th'[u].count = total_hits_'
                           /\ At(u, "miss")' => th'[u].count = total_misses_'
    BY <1>2, <2>1 DEF At
  <2> QED BY <1>2, <1>3, <2>1, <2>3, <2>4
<1> QED BY <1>4, <1>5 DEF Statistics

(* The statistic is written back, from what was read before. *)
LEMMA WriteBackCounts ==
  ASSUME IInv, Statistics, NEW t \in Threads, NEW r, th' = [th EXCEPT ![t] = r],
         r.at \notin Counting, UNCHANGED <<gets, owner, db_mutex_>>,
         \/ th[t].at = "hit" /\ total_hits_' = th[t].count + 1 /\ total_misses_' = total_misses_
         \/ th[t].at = "miss" /\ total_misses_' = th[t].count + 1 /\ total_hits_' = total_hits_
  PROVE  Statistics'
<1>1. /\ th \in [Threads -> ThreadState] /\ total_hits_ \in Nat /\ total_misses_ \in Nat
  BY DEF IInv, PoolInv, Typed
<1>2. th'[t] = r /\ \A u \in Threads : u # t => th'[u] = th[u]
  BY <1>1
<1>3. Uncounted' = Uncounted \ {t} /\ t \in Uncounted
  BY <1>2 DEF Uncounted, Counting
<1>4. \A u \in Threads : /\ At(u, "hit")' => u # t /\ At(u, "hit") /\ th'[u].count = th[u].count
                         /\ At(u, "miss")' => u # t /\ At(u, "miss") /\ th'[u].count = th[u].count
  BY <1>2 DEF At, Counting
<1>5. /\ IsFiniteSet(Uncounted') /\ Cardinality(Uncounted') + 1 = Cardinality(Uncounted)
      /\ Cardinality(Uncounted') \in Nat /\ gets \in Nat
  <2>1. IsFiniteSet(Uncounted) /\ gets \in Nat
    BY DEF Statistics, Counted
  <2>2. /\ IsFiniteSet(Uncounted \ {t})
        /\ Cardinality(Uncounted \ {t}) = Cardinality(Uncounted) - 1
    BY <1>3, <2>1, FS_RemoveElement
  <2> QED BY <1>3, <2>1, <2>2, FS_CardinalityType
<1>6. th[t].count \in Nat
  BY <1>1 DEF ThreadState
<1>7. Counted'
  <2>1. PICK H, M \in Nat :
           /\ total_hits_ <= H /\ \A u \in Threads : At(u, "hit") => th[u].count <= H
           /\ total_misses_ <= M /\ \A u \in Threads : At(u, "miss") => th[u].count <= M
           /\ H + M + Cardinality(Uncounted) = gets
    BY DEF Statistics, Counted
  <2>0. \A u \in Threads : th[u].count \in Nat
    BY <1>1 DEF ThreadState
  <2>2. CASE th[t].at = "hit" /\ total_hits_' = th[t].count + 1 /\ total_misses_' = total_misses_
    <3>1. total_hits_' <= H + 1 /\ total_misses_' <= M
      BY <1>6, <2>1, <2>2 DEF At
    <3>2. \A u \in Threads : /\ At(u, "hit")' => th'[u].count <= H + 1
                             /\ At(u, "miss")' => th'[u].count <= M
      BY <1>4, <2>0, <2>1
    <3>3. (H + 1) + M + Cardinality(Uncounted') = gets' /\ (H + 1) \in Nat
      BY <1>5, <2>1
    <3> QED BY <1>5, <3>1, <3>2, <3>3 DEF Counted
  <2>3. CASE th[t].at = "miss" /\ total_misses_' = th[t].count + 1 /\ total_hits_' = total_hits_
    <3>1. total_hits_' <= H /\ total_misses_' <= M + 1
      BY <1>6, <2>1, <2>3 DEF At
    <3>2. \A u \in Threads : /\ At(u, "hit")' => th'[u].count <= H
                             /\ At(u, "miss")' => th'[u].count <= M + 1
      BY <1>4, <2>0, <2>1
    <3>3. H + (M + 1) + Cardinality(Uncounted') = gets' /\ (M + 1) \in Nat
      BY <1>5, <2>1
    <3> QED BY <1>5, <3>1, <3>2, <3>3 DEF Counted
  <2> QED BY <2>2, <2>3
<1>8. Serial'
  <2> SUFFICES ASSUME owner' = "engine"
               PROVE  /\ \A u \in Threads : th'[u].at \in InPool => db_mutex_' = u
                      /\ \A u \in Threads : /\ At(u, "hit")' => th'[u].count = total_hits_'
                                            /\ At(u, "miss")' => th'[u].count = total_misses_'
                      /\ total_hits_' + total_misses_' + (IF Uncounted' = {} THEN 0 ELSE 1) = gets'
    BY DEF Serial
  <2>1. /\ \A u \in Threads : th[u].at \in InPool => db_mutex_ = u
        /\ At(t, "hit") => th[t].count = total_hits_
        /\ At(t, "miss") => th[t].count = total_misses_
        /\ total_hits_ + total_misses_ + (IF Uncounted = {} THEN 0 ELSE 1) = gets
    BY DEF Statistics, Serial
  <2>2. th[t].at \in InPool /\ db_mutex_ = t
    BY <2>1 DEF InPool
  <2>3. \A u \in Threads : u # t => th[u].at \notin InPool /\ th[u].at \notin Counting
    BY <2>1, <2>2 DEF InPool, Counting
  <2>4. Uncounted' = {} /\ Uncounted # {}
    BY <1>3, <2>3 DEF Uncounted
  <2>5. \A u \in Threads : ~At(u, "hit")' /\ ~At(u, "miss")'
    BY <1>4, <2>3 DEF At, Counting
  <2>6. \A u \in Threads : th'[u].at \in InPool => db_mutex_' = u
    BY <1>2, <2>2, <2>3
  <2>7. total_hits_' + total_misses_' = gets'
    BY <1>1, <2>1, <2>4 DEF At
  <2> QED BY <1>1, <1>5, <1>6, <2>4, <2>5, <2>6, <2>7
<1> QED BY <1>7, <1>8 DEF Statistics

(* What ReturnPage does to the thread that returns. *)
LEMMA ReturnMoves ==
  ASSUME th \in [Threads -> ThreadState], NEW t \in Threads, NEW p, ReturnPage(t, p)
  PROVE  \E r : th' = [th EXCEPT ![t] = r] /\ r.at \in {"insert", "idle"}
<1> DEFINE next == IF th[t].call = "insert_row" THEN "insert" ELSE "idle"
           r == [th[t] EXCEPT !.page = p, !.count = 0, !.at = next]
<1>1. th[t] \in ThreadState /\ next \in {"insert", "idle"}
  OBVIOUS
<1>2. th' = [th EXCEPT ![t].page = p, ![t].count = 0, ![t].at = next]
  BY DEF ReturnPage
<1> HIDE DEF next
<1>3. th' = [th EXCEPT ![t] = r]
  BY <1>2
<1>4. r.at = next
  BY <1>1 DEF ThreadState
<1> QED BY <1>1, <1>3, <1>4

LEMMA PoolStepCounts ==
  ASSUME IInv, Statistics, NEW t \in Threads, PoolStep(t), UNCHANGED db_mutex_
  PROVE  Statistics'
<1>0. /\ th \in [Threads -> ThreadState] /\ th[t] \in ThreadState
      /\ "insert" \in InPool /\ "load" \in InPool /\ "idle" \notin InPool /\ "idle" \notin Counting
      /\ "insert" \notin Counting /\ "load" \notin Counting
      /\ \A where \in {"save_lookup", "save", "flush"} : where \notin InPool /\ where \notin Counting
  BY DEF IInv, PoolInv, Typed, InPool, Counting
<1>1. CASE Lookup(t)
  BY <1>1, LookupCounts
<1>2. CASE CountHit(t)
  <2>1. PICK r : th' = [th EXCEPT ![t] = r] /\ r.at \in {"insert", "idle"}
    BY <1>0, <1>2, ReturnMoves DEF CountHit
  <2> QED BY <1>0, <1>2, <2>1, WriteBackCounts DEF CountHit, At
<1>3. CASE CountMiss(t)
  <2> DEFINE r == [th[t] EXCEPT !.at = "load", !.count = 0]
  <2>1. th' = [th EXCEPT ![t] = r] /\ r.at = "load"
    BY <1>0, <1>3 DEF CountMiss, ThreadState
  <2> HIDE DEF r
  <2>2. /\ th[t].at = "miss" /\ total_misses_' = th[t].count + 1
        /\ UNCHANGED <<total_hits_, gets, owner>>
    BY <1>3 DEF CountMiss, At
  <2> QED BY <1>0, <2>1, <2>2, WriteBackCounts
<1>4. CASE Load(t)
  <2>1. PICK r : th' = [th EXCEPT ![t] = r] /\ r.at \in {"insert", "idle"}
    <3>1. CASE th[t].page_num \in DOMAIN pages_
      BY <1>0, <1>4, <3>1, ReturnMoves DEF Load
    <3>2. CASE th[t].page_num \notin DOMAIN pages_
      <4>1. \E p : ReturnPage(t, p)
        <5>1. MakePage(t)
          BY <1>4, <3>2 DEF Load
        <5>2. ~GoTo(t, "undefined")
          <6>1. PoolInv'
            BY <1>4, LoadKeeps DEF IInv
          <6>2. th'[t].at \in Stations
            BY <6>1 DEF PoolInv, Typed, ThreadState
          <6>3. "undefined" \notin Stations
            BY DEF Stations
          <6>4. ASSUME GoTo(t, "undefined") PROVE th'[t].at = "undefined"
            BY <1>0, <6>4 DEF GoTo, ThreadState
          <6> QED BY <6>2, <6>3, <6>4
        <5> QED BY <5>1, <5>2 DEF MakePage, Evict
      <4> QED BY <1>0, <4>1, ReturnMoves
    <3> QED BY <3>1, <3>2
  <2> QED BY <1>0, <1>4, <2>1, QuietStep DEF Load, At
<1>5. CASE SaveLookup(t)
  <2> DEFINE n == th[t].page_num
             found == n \in DOMAIN pages_
             after == IF th[t].call = "flush_all" THEN "flush" ELSE "idle"
             where == IF found THEN "save" ELSE after
             page == IF found THEN pages_[n].page ELSE th[t].page
             r == [th[t] EXCEPT !.at = where, !.page = page]
  <2>1. th' = [th EXCEPT ![t].at = where, ![t].page = page]
    BY <1>5 DEF SaveLookup
  <2>2. where \in {"save", "flush", "idle"}
    OBVIOUS
  <2> HIDE DEF where, page
  <2>3. th' = [th EXCEPT ![t] = r] /\ r.at = where
    BY <1>0, <2>1 DEF ThreadState
  <2> HIDE DEF r
  <2>4. r.at \notin InPool /\ r.at \notin Counting
    BY <1>0, <2>2, <2>3
  <2> QED BY <1>0, <1>5, <2>3, <2>4, QuietStep DEF SaveLookup, At
<1>6. CASE Save(t)
  <2> DEFINE where == IF th[t].call = "flush_all" THEN "flush" ELSE "idle"
             r == [th[t] EXCEPT !.at = where]
  <2>1. th' = [th EXCEPT ![t].at = where] /\ where \in {"flush", "idle"}
    BY <1>6 DEF Save, GoTo
  <2> HIDE DEF where
  <2>2. th' = [th EXCEPT ![t] = r] /\ r.at = where
    BY <1>0, <2>1 DEF ThreadState
  <2> HIDE DEF r
  <2>3. r.at \notin InPool /\ r.at \notin Counting
    BY <1>0, <2>1, <2>2
  <2> QED BY <1>0, <1>6, <2>2, <2>3, QuietStep DEF Save, At
<1>7. CASE Flush(t)
  <2> DEFINE r == [th[t] EXCEPT !.at = "idle", !.todo = {}, !.entry = 0]
  <2>1. th' = [th EXCEPT ![t].at = "idle", ![t].todo = {}, ![t].entry = 0]
    BY <1>7, FlushEnds DEF IInv
  <2>2. th' = [th EXCEPT ![t] = r] /\ r.at = "idle"
    BY <1>0, <2>1 DEF ThreadState
  <2> HIDE DEF r
  <2>3. r.at \notin InPool /\ r.at \notin Counting
    BY <1>0, <2>2
  <2> QED BY <1>0, <1>7, <2>2, <2>3, QuietStep DEF Flush, At
<1> QED BY <1>1, <1>2, <1>3, <1>4, <1>5, <1>6, <1>7 DEF PoolStep

(* The calls of threads with a pool of their own, and of the engine. *)
LEMMA CallCounts ==
  ASSUME IInv, Statistics, NEW t \in Threads,
         \/ PoolCall(t) /\ UNCHANGED db_mutex_
         \/ \E name \in Tables, c \in {"create_table", "insert_row", "update_row", "delete_row"} :
              EngineCall(t, c, name)
  PROVE  Statistics'
<1>0. /\ th \in [Threads -> ThreadState] /\ th[t] \in ThreadState
      /\ "idle" \notin InPool /\ "idle" \notin Counting
      /\ \A where \in {"save_lookup", "flush", "db_wait"} : where \notin InPool /\ where \notin Counting
  BY DEF IInv, PoolInv, Typed, InPool, Counting
<1>1. ASSUME NEW n \in PageNums, get_page(t, n) PROVE Statistics'
  <2> DEFINE r == [th[t] EXCEPT !.at = "lookup", !.call = "get_page", !.page_num = n]
  <2>1. th' = [th EXCEPT ![t] = r] /\ r.at = "lookup"
    BY <1>0, <1>1 DEF get_page, ThreadState
  <2> HIDE DEF r
  <2>2. /\ th[t].at \notin InPool /\ gets' = gets + 1 /\ owner # "engine"
        /\ UNCHANGED <<total_hits_, total_misses_, owner>>
    BY <1>0, <1>1 DEF get_page, MayCall, At
  <2> QED BY <2>1, <2>2, EnterStep
<1>2. ASSUME NEW n \in PageNums, save_page(t, n), UNCHANGED db_mutex_ PROVE Statistics'
  <2> DEFINE r == [th[t] EXCEPT !.at = "save_lookup", !.call = "save_page", !.page_num = n]
  <2>1. th' = [th EXCEPT ![t] = r] /\ r.at = "save_lookup"
    BY <1>0, <1>2 DEF save_page, ThreadState
  <2> HIDE DEF r
  <2>2. UNCHANGED <<total_hits_, total_misses_, gets, owner>> /\ th[t].at = "idle"
    BY <1>2 DEF save_page, MayCall, At
  <2> QED BY <1>0, <1>2, <2>1, <2>2, QuietStep
<1>3. ASSUME flush_all(t), UNCHANGED db_mutex_ PROVE Statistics'
  <2> DEFINE r == [th[t] EXCEPT !.at = "flush", !.call = "flush_all", !.todo = PageNums]
  <2>1. th' = [th EXCEPT ![t] = r] /\ r.at = "flush"
    BY <1>0, <1>3 DEF flush_all, ThreadState
  <2> HIDE DEF r
  <2>2. UNCHANGED <<total_hits_, total_misses_, gets, owner>> /\ th[t].at = "idle"
    BY <1>3 DEF flush_all, MayCall, At
  <2> QED BY <1>0, <1>3, <2>1, <2>2, QuietStep
<1>4. ASSUME ChangePage(t), UNCHANGED db_mutex_ PROVE Statistics'
  <2> DEFINE r == th[t]
  <2>1. th' = [th EXCEPT ![t] = r] /\ r.at = "idle"
    BY <1>0, <1>4 DEF ChangePage, MayCall, At
  <2> HIDE DEF r
  <2>2. UNCHANGED <<total_hits_, total_misses_, gets, owner>> /\ th[t].at = "idle"
    BY <1>4 DEF ChangePage, MayCall, At
  <2> QED BY <1>0, <1>4, <2>1, <2>2, QuietStep
<1>5. ASSUME NEW name \in Tables, NEW c \in {"create_table", "insert_row", "update_row", "delete_row"},
             EngineCall(t, c, name)
      PROVE  Statistics'
  <2> DEFINE r == [th[t] EXCEPT !.at = "db_wait", !.call = c, !.table = name]
  <2>1. th' = [th EXCEPT ![t] = r] /\ r.at = "db_wait"
    BY <1>0, <1>5 DEF EngineCall, ThreadState
  <2> HIDE DEF r
  <2>2. /\ UNCHANGED <<total_hits_, total_misses_, gets, owner, db_mutex_>> /\ th[t].at = "idle"
    BY <1>5 DEF EngineCall, At, engineVars
  <2> QED BY <1>0, <2>1, <2>2, QuietStep
<1> QED BY <1>1, <1>2, <1>3, <1>4, <1>5 DEF PoolCall

(* What the engine does under db_mutex_. *)
LEMMA EngineCounts ==
  ASSUME IInv, Statistics, NEW t \in Threads,
         create_table(t) \/ CountOnly(t) \/ InsertEnter(t) \/ InsertFinish(t)
  PROVE  Statistics'
<1>0. /\ th \in [Threads -> ThreadState] /\ th[t] \in ThreadState
      /\ "idle" \notin InPool /\ "idle" \notin Counting
      /\ "db_wait" \notin InPool /\ "db_wait" \notin Counting
      /\ "insert" \in InPool /\ "insert" \notin Counting
  BY DEF IInv, PoolInv, Typed, InPool, Counting
<1>1. ASSUME ReturnAtOnce(t), th[t].at = "db_wait" PROVE Statistics'
  <2> DEFINE r == [th[t] EXCEPT !.at = "idle", !.table = "none"]
  <2>1. th' = [th EXCEPT ![t] = r] /\ r.at = "idle"
    BY <1>0, <1>1 DEF ReturnAtOnce, ThreadState
  <2> HIDE DEF r
  <2>2. UNCHANGED <<total_hits_, total_misses_, gets, owner, db_mutex_>>
    BY <1>1 DEF ReturnAtOnce
  <2> QED BY <1>0, <1>1, <2>1, <2>2, QuietStep
<1>2. CASE InsertEnter(t) /\ th[t].table \in DOMAIN schemas_
  <2> DEFINE n == schemas_[th[t].table]
             r == [th[t] EXCEPT !.at = "lookup", !.page_num = n]
  <2>1. th' = [th EXCEPT ![t].at = "lookup", ![t].page_num = n]
    BY <1>2 DEF InsertEnter
  <2> HIDE DEF n
  <2>2. th' = [th EXCEPT ![t] = r] /\ r.at = "lookup"
    BY <1>0, <2>1 DEF ThreadState
  <2> HIDE DEF r
  <2>3. /\ th[t].at \notin InPool /\ gets' = gets + 1 /\ db_mutex_ = Nobody /\ db_mutex_' = t
        /\ UNCHANGED <<total_hits_, total_misses_, owner>>
    BY <1>0, <1>2 DEF InsertEnter, Entering, At
  <2> QED BY <2>2, <2>3, EnterStep
<1>3. CASE InsertFinish(t)
  <2> DEFINE r == [th[t] EXCEPT !.at = "idle", !.table = "none"]
  <2>1. th' = [th EXCEPT ![t] = r] /\ r.at = "idle"
    BY <1>0, <1>3 DEF InsertFinish, ThreadState
  <2> HIDE DEF r
  <2>2. th[t].at = "insert" /\ UNCHANGED <<total_hits_, total_misses_, gets, owner>>
    BY <1>3 DEF InsertFinish, At
  <2> QED BY <1>0, <2>1, <2>2, QuietStep
<1> QED BY <1>1, <1>2, <1>3 DEF create_table, CountOnly, InsertEnter, Entering, At

LEMMA NextStatistics == IInv /\ Statistics /\ [StorageNext]_storageVars => Statistics'
<1> SUFFICES ASSUME IInv, Statistics, [StorageNext]_storageVars PROVE Statistics'
  OBVIOUS
<1>1. CASE UNCHANGED storageVars
  <2>1. UNCHANGED <<total_hits_, total_misses_, gets, owner, th, db_mutex_>>
    BY <1>1 DEF storageVars, poolVars, engineVars
  <2>2. Uncounted' = Uncounted
    BY <2>1 DEF Uncounted
  <2>3. Counted'
    BY <2>1, <2>2 DEF Statistics, Counted, At
  <2>4. Serial'
    BY <2>1, <2>2 DEF Statistics, Serial, At
  <2> QED BY <2>3, <2>4 DEF Statistics
<1>2. ASSUME NEW t \in Threads, ThreadStep(t) PROVE Statistics'
  BY <1>2, PoolStepCounts, EngineCounts DEF ThreadStep, engineVars
<1>3. ASSUME NEW t \in Threads, PoolCall(t), UNCHANGED engineVars PROVE Statistics'
  BY <1>3, CallCounts DEF engineVars
<1>4. ASSUME NEW t \in Threads, NEW name \in Tables,
             NEW c \in {"create_table", "insert_row", "update_row", "delete_row"},
             EngineCall(t, c, name)
      PROVE  Statistics'
  BY <1>4, CallCounts
<1> QED BY <1>1, <1>2, <1>3, <1>4 DEF StorageNext

LEMMA InitStatistics == StorageInit => Statistics
<1> SUFFICES ASSUME StorageInit PROVE Statistics
  OBVIOUS
<1>1. total_hits_ = 0 /\ total_misses_ = 0 /\ gets = 0 /\ \A t \in Threads : th[t].at = "idle"
  BY DEF StorageInit, PoolInit, Idle
<1>2. Uncounted = {} /\ \A t \in Threads : ~At(t, "hit") /\ ~At(t, "miss") /\ th[t].at \notin InPool
  BY <1>1 DEF Uncounted, Counting, InPool, At
<1>3. IsFiniteSet(Uncounted) /\ Cardinality(Uncounted) = 0
  BY <1>2, FS_EmptySet
<1>4. 0 \in Nat /\ 0 <= 0 /\ 0 + 0 + 0 = 0
  OBVIOUS
<1>5. Counted
  BY <1>1, <1>2, <1>3, <1>4 DEF Counted
<1>6. Serial
  BY <1>1, <1>2, <1>4 DEF Serial
<1> QED BY <1>5, <1>6 DEF Statistics

(* Threads that overwrite each other's increments only ever lose counts,    *)
(* and behind db_mutex_ none is lost.                                       *)
THEOREM StatisticsRight == StorageSpec => []StatisticsBounded
<1>1. IInv /\ Statistics => StatisticsBounded
  <2> SUFFICES ASSUME IInv, Statistics PROVE StatisticsBounded
    OBVIOUS
  <2>1. total_hits_ \in Nat /\ total_misses_ \in Nat /\ gets \in Nat
    BY DEF IInv, PoolInv, Typed, Statistics, Counted
  <2>2. total_hits_ + total_misses_ <= gets
    <3>1. PICK H, M \in Nat : /\ total_hits_ <= H /\ total_misses_ <= M
                              /\ H + M + Cardinality(Uncounted) = gets
      BY DEF Statistics, Counted
    <3>2. Cardinality(Uncounted) \in Nat
      BY FS_CardinalityType DEF Statistics, Counted
    <3> QED BY <2>1, <3>1, <3>2
  <2>3. ASSUME owner = "engine", AllIdle PROVE total_hits_ + total_misses_ = gets
    <3>1. Uncounted = {}
      BY <2>3 DEF AllIdle, At, Uncounted, Counting
    <3> QED BY <2>1, <2>3, <3>1 DEF Statistics, Serial
  <2> QED BY <2>2, <2>3 DEF StatisticsBounded
<1> QED BY <1>1, InitStatistics, NextStatistics, Inductive, PTL DEF StorageSpec

-----------------------------------------------------------------------------
(* THE PAGE OF storage_complete.cpp.                                        *)
Byte == 0..255
Addresses == 0..(PAGE_BYTES - 1)
Pages == [Addresses -> Byte]

(* The areas of a page: the header has at least 16 bytes. *)
LEMMA Areas ==
  /\ HEADER_SIZE \in Nat /\ HEADER_SIZE >= 16 /\ MaxSlots \in Nat /\ MaxSlots <= 65535
  /\ PAYLOAD_SIZE \in Nat /\ PAYLOAD_SIZE <= 65535
  /\ PAYLOAD_START \in Nat /\ PAYLOAD_START = HEADER_SIZE + 8 * MaxSlots
  /\ PAGE_BYTES \in Nat /\ PAGE_BYTES = PAYLOAD_START + PAYLOAD_SIZE /\ PAGE_BYTES >= 16
<1>1. /\ HEADER_SIZE \in Nat /\ HEADER_SIZE >= 16
  BY LayoutAssumption
<1>2. /\ MaxSlots \in Nat /\ MaxSlots <= 65535 /\ PAYLOAD_SIZE \in Nat /\ PAYLOAD_SIZE <= 65535
  BY LayoutAssumption
<1>3. PAYLOAD_START \in Nat /\ PAYLOAD_START = HEADER_SIZE + 8 * MaxSlots /\ PAYLOAD_START >= 16
  BY SMT, <1>1, <1>2 DEF PAYLOAD_START
<1>4. PAGE_BYTES \in Nat /\ PAGE_BYTES = PAYLOAD_START + PAYLOAD_SIZE /\ PAGE_BYTES >= 16
  BY SMT, <1>2, <1>3 DEF PAGE_BYTES
<1> QED BY <1>1, <1>2, <1>3, <1>4

(* A page is no sequence of no bytes. *)
LEMMA PageNotNone == ASSUME NEW d \in Pages PROVE d # NoImage
<1>1. 0 \in Addresses
  BY Areas DEF Addresses
<1>2. DOMAIN d = Addresses
  BY DEF Pages
<1>3. DOMAIN NoImage = {}
  BY DEF NoImage
<1> QED BY <1>1, <1>2, <1>3

(* The bytes bs stand in e from address off on, the rest is as in d. *)
Written(e, d, off, bs) ==
  /\ e \in Pages
  /\ \A j \in 1..Len(bs) : off + j - 1 \in Addresses => e[off + j - 1] = bs[j]
  /\ \A i \in Addresses : i < off \/ i >= off + Len(bs) => e[i] = d[i]

LEMMA WriteWrites ==
  ASSUME NEW d \in Pages, NEW off \in Nat, NEW bs \in Seq(Byte)
  PROVE  Written(Write(d, off, bs), d, off, bs)
<1> DEFINE e == Write(d, off, bs)
           n == Len(bs)
<1>1. n \in Nat /\ \A j \in 1..n : bs[j] \in Byte
  OBVIOUS
<1>2. DOMAIN d = Addresses /\ \A i \in Addresses : d[i] \in Byte
  BY DEF Pages
<1>3. e = [i \in Addresses |-> IF i \in off..(off + n - 1) THEN bs[i - off + 1] ELSE d[i]]
  BY <1>2 DEF Write
<1> HIDE DEF e, n
<1>4. \A i \in Addresses : i \in Int
  BY Areas DEF Addresses
<1>5. \A i \in Addresses : i \in off..(off + n - 1) => i - off + 1 \in 1..n
  BY <1>1, <1>4
<1>6. e \in Pages
  BY <1>1, <1>2, <1>3, <1>5 DEF Pages
<1>7. \A j \in 1..n : off + j - 1 \in off..(off + n - 1) /\ (off + j - 1) - off + 1 = j
  BY <1>1
<1>8. \A j \in 1..n : off + j - 1 \in Addresses => e[off + j - 1] = bs[j]
  BY <1>3, <1>7
<1>9. ASSUME NEW i \in Addresses, i < off \/ i >= off + n PROVE e[i] = d[i]
  <2>1. i \notin off..(off + n - 1)
    BY <1>1, <1>4, <1>9
  <2> QED BY <1>3, <2>1
<1> QED BY <1>6, <1>8, <1>9 DEF Written, e, n

(* Two bytes as one number. *)
Number(x, y) == x + 256 * y

(* The numbers of two bytes, and their bytes. *)
Short == {n \in Nat : n <= 65535}

LEMMA Int16Bytes ==
  ASSUME NEW n \in Short
  PROVE  /\ Int16(n) \in Seq(Byte) /\ Len(Int16(n)) = 2
         /\ Number(Int16(n)[1], Int16(n)[2]) = n
<1> DEFINE x == n % 256
           y == n \div 256
<1>1. x \in 0..255 /\ y \in Nat /\ n = (256 * y) + x
  BY SMT DEF Short
<1>2. Int16(n) = <<x, y>>
  BY DEF Int16
<1> HIDE DEF x, y
<1>3. y \in 0..255 /\ Number(x, y) = n
  BY SMT, <1>1 DEF Number, Short
<1>4. <<x, y>> \in Seq(Byte) /\ Len(<<x, y>>) = 2
  BY SMT, <1>1, <1>3 DEF Byte
<1> QED BY SMT, <1>2, <1>3, <1>4

(* b is s followed by r. *)
Joined(b, s, r) == /\ b \in Seq(Byte) /\ Len(b) = Len(s) + Len(r)
                   /\ \A i \in 1..Len(s) : b[i] = s[i]
                   /\ \A i \in 1..Len(r) : b[Len(s) + i] = r[i]

LEMMA Concat == ASSUME NEW s \in Seq(Byte), NEW r \in Seq(Byte) PROVE Joined(s \o r, s, r)
<1>1. Len(s) \in Nat /\ Len(r) \in Nat
  OBVIOUS
<1>2. /\ s \o r \in Seq(Byte) /\ Len(s \o r) = Len(s) + Len(r)
      /\ \A i \in 1..(Len(s) + Len(r)) : (s \o r)[i] = IF i <= Len(s) THEN s[i] ELSE r[i - Len(s)]
  BY ConcatProperties
<1>3. \A i \in 1..Len(r) : /\ Len(s) + i \in 1..(Len(s) + Len(r)) /\ ~(Len(s) + i <= Len(s))
                           /\ Len(s) + i - Len(s) = i
  BY <1>1
<1>4. \A i \in 1..Len(s) : i \in 1..(Len(s) + Len(r)) /\ i <= Len(s)
  BY <1>1
<1> QED BY <1>1, <1>2, <1>3, <1>4 DEF Joined

(* Two numbers in four bytes: num_slots and free_offset. *)
LEMMA TwoNumbers ==
  ASSUME NEW m \in Short, NEW n \in Short
  PROVE  LET b == Int16(m) \o Int16(n) IN
           /\ b \in Seq(Byte) /\ Len(b) = 4
           /\ Number(b[1], b[2]) = m /\ Number(b[3], b[4]) = n
<1> DEFINE x == Int16(m)
           y == Int16(n)
           b == x \o y
<1>1. x \in Seq(Byte) /\ Len(x) = 2 /\ Number(x[1], x[2]) = m
  BY Int16Bytes
<1>2. y \in Seq(Byte) /\ Len(y) = 2 /\ Number(y[1], y[2]) = n
  BY Int16Bytes
<1> HIDE DEF x, y
<1>3. Joined(b, x, y)
  BY <1>1, <1>2, Concat
<1> HIDE DEF b
<1>4. /\ b \in Seq(Byte) /\ Len(b) = 4 /\ (\A i \in 1..2 : b[i] = x[i]) /\ \A i \in 1..2 : b[2 + i] = y[i]
  BY <1>1, <1>2, <1>3 DEF Joined
<1>5. b[1] = x[1] /\ b[2] = x[2] /\ b[2 + 1] = y[1] /\ b[2 + 2] = y[2]
  BY <1>4
<1> QED BY <1>1, <1>2, <1>4, <1>5 DEF b, x, y

(* A number that takes the first two of four bytes. *)
Padded(b, n) == b \in Seq(Byte) /\ Len(b) = 4 /\ Number(b[1], b[2]) = n

LEMMA PaddedNumber ==
  ASSUME NEW n \in Short
  PROVE  Padded(Int16(n) \o <<0, 0>>, n)
<1> DEFINE x == Int16(n)
           y == <<0, 0>>
           b == x \o y
<1>1. x \in Seq(Byte) /\ Len(x) = 2 /\ Number(x[1], x[2]) = n
  BY Int16Bytes
<1>2. y \in Seq(Byte) /\ Len(y) = 2
  BY DEF Byte
<1> HIDE DEF x, y
<1>3. Joined(b, x, y)
  BY <1>1, <1>2, Concat
<1> HIDE DEF b
<1>4. /\ b \in Seq(Byte) /\ Len(b) = 4 /\ (\A i \in 1..2 : b[i] = x[i])
  BY <1>1, <1>2, <1>3 DEF Joined
<1>5. b[1] = x[1] /\ b[2] = x[2]
  BY <1>4
<1> QED BY <1>1, <1>4, <1>5 DEF b, x, y, Padded

(* A slot: offset and length with two bytes of padding each. *)
IsSlot(b, m, n) == /\ b \in Seq(Byte) /\ Len(b) = 8
                   /\ Number(b[1], b[2]) = m /\ Number(b[5], b[6]) = n

LEMMA SlotBytes ==
  ASSUME NEW m \in Short, NEW n \in Short
  PROVE  IsSlot(Int16(m) \o <<0, 0>> \o Int16(n) \o <<0, 0>>, m, n)
<1> DEFINE x == Int16(m) \o <<0, 0>>
           z == <<0, 0>>
           y == Int16(n)
           yz == y \o z
           b == x \o yz
<1>1. x \in Seq(Byte) /\ Len(x) = 4 /\ Number(x[1], x[2]) = m
  BY PaddedNumber DEF Padded
<1>2. yz \in Seq(Byte) /\ Len(yz) = 4 /\ Number(yz[1], yz[2]) = n
  BY PaddedNumber DEF Padded
<1>3. y \in Seq(Byte) /\ z \in Seq(Byte)
  BY Int16Bytes DEF Byte
<1> HIDE DEF x, y, z
<1>4. (x \o y) \o z = b
  BY <1>1, <1>3, ConcatAssociative
<1> HIDE DEF yz
<1>5. Joined(b, x, yz)
  BY <1>1, <1>2, Concat
<1> HIDE DEF b
<1>6. /\ b \in Seq(Byte) /\ Len(b) = 8 /\ (\A i \in 1..4 : b[i] = x[i]) /\ \A i \in 1..4 : b[4 + i] = yz[i]
  BY <1>1, <1>2, <1>5 DEF Joined
<1>7. b[1] = x[1] /\ b[2] = x[2] /\ b[4 + 1] = yz[1] /\ b[4 + 2] = yz[2]
  BY <1>6
<1>8. Number(b[1], b[2]) = m /\ Number(b[5], b[6]) = n
  BY <1>1, <1>2, <1>7
<1>9. Int16(m) \o <<0, 0>> \o Int16(n) \o <<0, 0>> = b
  BY <1>4 DEF x, y, z
<1>10. IsSlot(b, m, n)
  BY <1>6, <1>8 DEF IsSlot
<1> QED BY <1>9, <1>10

-----------------------------------------------------------------------------
(* Slot k, counted from 1. *)
SlotAt(k) == HEADER_SIZE + 8 * (k - 1)

(* Slot k of page d leads to the row, which lies in front of the free space. *)
RowAt(d, k, row) ==
  /\ Read16(d, SlotAt(k)) + Len(row) <= free_offset(d)
  /\ Read16(d, SlotAt(k) + 4) = Len(row)
  /\ \A j \in 1..Len(row) : d[PAYLOAD_START + Read16(d, SlotAt(k)) + j - 1] = row[j]

(* Page d holds the rows. *)
Holding(d, taken) ==
  /\ d \in Pages /\ taken \in Seq(RowBytes)
  /\ num_slots(d) = Len(taken) /\ Len(taken) <= MaxSlots /\ free_offset(d) <= PAYLOAD_SIZE
  /\ \A k \in 1..Len(taken) : RowAt(d, k, taken[k])

(* The bytes of a page as numbers. *)
LEMMA ShortRead ==
  ASSUME NEW d \in Pages, NEW i \in Nat, i + 1 < PAGE_BYTES
  PROVE  Read16(d, i) = Number(d[i], d[i + 1]) /\ Read16(d, i) \in Nat
<1>1. i \in Addresses /\ i + 1 \in Addresses
  BY Areas DEF Addresses
<1>2. d[i] \in Byte /\ d[i + 1] \in Byte
  BY <1>1 DEF Pages
<1> DEFINE x == d[i]
           y == d[i + 1]
           r == Read16(d, i)
<1>3. r = Number(x, y)
  BY DEF Read16, Number
<1>4. x \in Byte /\ y \in Byte
  BY <1>2
<1> HIDE DEF x, y, r
<1>5. Number(x, y) \in Nat
  BY <1>4 DEF Number, Byte
<1> QED BY <1>3, <1>5 DEF x, y, r

LEMMA RowType ==
  ASSUME NEW row \in RowBytes
  PROVE  row \in Seq(Byte) /\ Len(row) \in Short /\ Len(row) \in Nat
<1>1. row \in Seq(Byte) /\ Len(row) < 65536
  BY SMT, LayoutAssumption DEF Byte
<1>2. Len(row) \in Nat
  BY <1>1, LenProperties
<1> DEFINE n == Len(row)
<1>3. n \in Nat /\ n < 65536
  BY <1>1, <1>2
<1> HIDE DEF n
<1>4. n \in Short
  BY SMT, <1>3 DEF Short
<1> QED BY <1>1, <1>2, <1>4 DEF n

(* What insert_row does to a page with n slots and off bytes of rows. *)
Inserted(e, d, row, n, off) ==
  /\ e \in Pages
  /\ num_slots(e) = n + 1 /\ free_offset(e) = off + Len(row)
  /\ Read16(e, HEADER_SIZE + 8 * n) = off /\ Read16(e, HEADER_SIZE + 8 * n + 4) = Len(row)
  /\ \A j \in 1..Len(row) : e[PAYLOAD_START + off + j - 1] = row[j]
  /\ \A i \in Nat : HEADER_SIZE <= i /\ i < HEADER_SIZE + 8 * n => e[i] = d[i]
  /\ \A i \in Nat : PAYLOAD_START <= i /\ i < PAYLOAD_START + off => e[i] = d[i]

LEMMA InsertWrites ==
  ASSUME NEW d \in Pages, NEW row \in RowBytes, Accepts(d, row)
  PROVE  Inserted(insert(d, row), d, row, num_slots(d), free_offset(d))
<1> DEFINE n == num_slots(d)
           off == free_offset(d)
           len == Len(row)
           H == HEADER_SIZE
           P == PAYLOAD_START
           bs == Int16(off) \o <<0, 0>> \o Int16(len) \o <<0, 0>>
           hs == Int16(n + 1) \o Int16(off + len)
           slotted == Write(d, H + 8 * n, bs)
           stored == Write(slotted, P + off, row)
           e == Write(stored, 8, hs)
<1>1. insert(d, row) = e
  BY DEF insert
<1>2. n \in Nat /\ off \in Nat
  <2>1. 8 \in Nat /\ 8 + 1 < PAGE_BYTES /\ 10 \in Nat /\ 10 + 1 < PAGE_BYTES
    BY Areas
  <2> QED BY <2>1, ShortRead DEF num_slots, free_offset
<1>3. n < MaxSlots /\ off + len <= PAYLOAD_SIZE
  BY DEF Accepts
<1>4. len \in Nat /\ len \in Short /\ row \in Seq(Byte)
  BY RowType
<1>5. /\ H \in Nat /\ H >= 16 /\ P \in Nat /\ P = H + 8 * MaxSlots /\ MaxSlots \in Nat
      /\ PAYLOAD_SIZE \in Nat /\ PAGE_BYTES \in Nat /\ PAGE_BYTES = P + PAYLOAD_SIZE
  BY Areas
<1> HIDE DEF n, off, len
<1>6. n + 1 \in Short /\ off \in Short /\ off + len \in Short
  BY SMT, <1>2, <1>3, <1>4, Areas DEF Short
<1>7. bs \in Seq(Byte) /\ Len(bs) = 8 /\ Number(bs[1], bs[2]) = off /\ Number(bs[5], bs[6]) = len
  <2>1. IsSlot(bs, off, len)
    BY <1>4, <1>6, SlotBytes
  <2> HIDE DEF bs
  <2> QED BY <2>1 DEF IsSlot
<1>8. hs \in Seq(Byte) /\ Len(hs) = 4 /\ Number(hs[1], hs[2]) = n + 1 /\ Number(hs[3], hs[4]) = off + len
  BY <1>6, TwoNumbers
<1> HIDE DEF bs, hs, H, P
<1>9. H + 8 * n \in Nat /\ P + off \in Nat /\ 8 \in Nat
  BY <1>2, <1>5
<1>10. Written(slotted, d, H + 8 * n, bs)
  BY <1>7, <1>9, WriteWrites
<1> HIDE DEF slotted
<1>11. slotted \in Pages
  BY <1>10 DEF Written
<1>12. Written(stored, slotted, P + off, row)
  BY <1>4, <1>9, <1>11, WriteWrites
<1> HIDE DEF stored
<1>13. stored \in Pages
  BY <1>12 DEF Written
<1>14. Written(e, stored, 8, hs)
  BY <1>8, <1>9, <1>13, WriteWrites
<1> HIDE DEF e
<1>15. e \in Pages
  BY <1>14 DEF Written
<1>16. \A i \in Nat : i < PAGE_BYTES => i \in Addresses
  BY <1>5 DEF Addresses
<1>17. ASSUME NEW i \in Nat, i >= 12, i < PAGE_BYTES PROVE e[i] = stored[i]
  <2>1. i \in Addresses /\ i >= 8 + Len(hs)
    BY <1>8, <1>16, <1>17
  <2> QED BY <1>14, <2>1 DEF Written
<1>18. ASSUME NEW i \in Nat, i < PAGE_BYTES, i < P + off PROVE stored[i] = slotted[i]
  <2>1. i \in Addresses
    BY <1>16, <1>18
  <2> QED BY <1>12, <1>18, <2>1 DEF Written
<1>19. num_slots(e) = n + 1 /\ free_offset(e) = off + len
  <2>1. /\ 8 \in Addresses /\ 9 \in Addresses /\ 10 \in Addresses /\ 11 \in Addresses
    BY <1>5 DEF Addresses
  <2>2. /\ 8 + 1 - 1 = 8 /\ 8 + 2 - 1 = 9 /\ 8 + 3 - 1 = 10 /\ 8 + 4 - 1 = 11
        /\ 1 \in 1..4 /\ 2 \in 1..4 /\ 3 \in 1..4 /\ 4 \in 1..4
    OBVIOUS
  <2>3. \A j \in 1..4 : 8 + j - 1 \in Addresses => e[8 + j - 1] = hs[j]
    BY <1>8, <1>14 DEF Written
  <2>4. e[8] = hs[1] /\ e[9] = hs[2] /\ e[10] = hs[3] /\ e[11] = hs[4]
    BY <2>1, <2>2, <2>3
  <2>5. /\ 8 + 1 = 9 /\ 10 + 1 = 11 /\ 8 \in Nat /\ 10 \in Nat /\ 8 + 1 < PAGE_BYTES /\ 10 + 1 < PAGE_BYTES
    BY <1>5
  <2>6. Read16(e, 8) = Number(e[8], e[8 + 1]) /\ Read16(e, 10) = Number(e[10], e[10 + 1])
    BY <1>15, <2>5, ShortRead
  <2> QED BY <1>8, <2>4, <2>5, <2>6 DEF num_slots, free_offset
<1> DEFINE s == H + 8 * n
<1>20. s \in Nat /\ s >= 16 /\ s + 8 <= P
  BY <1>2, <1>3, <1>5
<1>21. Read16(e, s) = off /\ Read16(e, s + 4) = len
  <2> HIDE DEF s
  <2>1. ASSUME NEW j \in 1..8 PROVE e[s + j - 1] = bs[j]
    <3> DEFINE i == s + j - 1
    <3>1. i \in Nat /\ i >= 12 /\ i < PAGE_BYTES /\ i < P + off
      BY <1>2, <1>5, <1>20
    <3>2. slotted[i] = bs[j]
      <4>1. i \in Addresses /\ j \in 1..Len(bs)
        BY <1>7, <1>16, <3>1
      <4> QED BY <1>10, <4>1 DEF Written, s
    <3> HIDE DEF i
    <3>3. e[i] = bs[j]
      BY <1>17, <1>18, <3>1, <3>2
    <3> QED BY <3>3 DEF i
  <2>2. s + 1 - 1 = s /\ s + 2 - 1 = s + 1 /\ s + 5 - 1 = s + 4 /\ s + 6 - 1 = s + 4 + 1
    BY <1>20
  <2>3. e[s + 1 - 1] = bs[1] /\ e[s + 2 - 1] = bs[2] /\ e[s + 5 - 1] = bs[5] /\ e[s + 6 - 1] = bs[6]
    BY <2>1
  <2>4. e[s] = bs[1] /\ e[s + 1] = bs[2] /\ e[s + 4] = bs[5] /\ e[s + 4 + 1] = bs[6]
    BY <2>2, <2>3
  <2>5. s + 4 \in Nat /\ s + 1 < PAGE_BYTES /\ s + 4 + 1 < PAGE_BYTES
    BY <1>5, <1>20
  <2>6. Read16(e, s) = Number(e[s], e[s + 1]) /\ Read16(e, s + 4) = Number(e[s + 4], e[s + 4 + 1])
    BY <1>15, <1>20, <2>5, ShortRead
  <2> QED BY <1>7, <2>4, <2>6
<1>22. ASSUME NEW j \in 1..len PROVE e[P + off + j - 1] = row[j]
  <2> DEFINE i == P + off + j - 1
  <2>1. i \in Nat /\ i >= 12 /\ i < PAGE_BYTES
    BY <1>2, <1>3, <1>4, <1>5
  <2>2. stored[i] = row[j]
    BY <1>12, <1>16, <2>1 DEF Written, len
  <2> HIDE DEF i
  <2>3. e[i] = row[j]
    BY <1>17, <2>1, <2>2
  <2> QED BY <2>3 DEF i
<1>23. ASSUME NEW i \in Nat, \/ H <= i /\ i < H + 8 * n
                             \/ P <= i /\ i < P + off
       PROVE  e[i] = d[i]
  <2>1. /\ i >= 12 /\ i < PAGE_BYTES /\ i < P + off /\ (i < s \/ i >= s + 8)
    BY <1>2, <1>3, <1>4, <1>5, <1>20, <1>23
  <2>2. i \in Addresses
    BY <1>16, <2>1
  <2>3. slotted[i] = d[i]
    BY <1>7, <1>10, <2>1, <2>2 DEF Written
  <2> QED BY <1>17, <1>18, <2>1, <2>3
<1>24. Inserted(e, d, row, n, off)
  BY <1>15, <1>19, <1>21, <1>22, <1>23 DEF Inserted, H, P, len
<1> QED BY <1>1, <1>24 DEF n, off

(* A page that takes a row holds it behind the rows it held. *)
LEMMA InsertHolds ==
  ASSUME NEW d, NEW taken, NEW row \in RowBytes, Holding(d, taken), Accepts(d, row)
  PROVE  Holding(insert(d, row), Append(taken, row))
<1> DEFINE n == num_slots(d)
           off == free_offset(d)
           len == Len(row)
           H == HEADER_SIZE
           P == PAYLOAD_START
           e == insert(d, row)
           all == Append(taken, row)
<1>1. /\ d \in Pages /\ taken \in Seq(RowBytes) /\ n = Len(taken) /\ n \in Nat
  BY DEF Holding
<1>2. off \in Nat
  <2>1. 10 \in Nat /\ 10 + 1 < PAGE_BYTES
    BY Areas
  <2> QED BY <1>1, <2>1, ShortRead DEF free_offset
<1>3. n < MaxSlots /\ off + len <= PAYLOAD_SIZE
  BY DEF Accepts
<1>4. len \in Nat
  BY RowType
<1>5. /\ H \in Nat /\ H >= 16 /\ P \in Nat /\ P = H + 8 * MaxSlots /\ MaxSlots \in Nat
      /\ PAYLOAD_SIZE \in Nat /\ PAGE_BYTES \in Nat /\ PAGE_BYTES = P + PAYLOAD_SIZE
  BY Areas
<1>6. Inserted(e, d, row, n, off)
  BY <1>1, InsertWrites
<1>7. all \in Seq(RowBytes) /\ Len(all) = n + 1 /\ all[n + 1] = row /\ \A k \in 1..n : all[k] = taken[k]
  BY <1>1
<1> HIDE DEF e, n, off, len, all
<1>8. /\ e \in Pages /\ num_slots(e) = n + 1 /\ free_offset(e) = off + len
      /\ Read16(e, H + 8 * n) = off /\ Read16(e, H + 8 * n + 4) = len
      /\ \A j \in 1..len : e[P + off + j - 1] = row[j]
  BY <1>6 DEF Inserted, len
<1>9. /\ \A i \in Nat : H <= i /\ i < H + 8 * n => e[i] = d[i]
      /\ \A i \in Nat : P <= i /\ i < P + off => e[i] = d[i]
  BY <1>6 DEF Inserted
<1> HIDE DEF H, P
<1>10. RowAt(e, n + 1, row)
  <2>1. SlotAt(n + 1) = H + 8 * n
    BY <1>1, <1>5 DEF SlotAt, H
  <2>2. Read16(e, SlotAt(n + 1)) = off /\ Read16(e, SlotAt(n + 1) + 4) = len
    BY <1>8, <2>1
  <2>3. off + len <= free_offset(e)
    BY <1>2, <1>4, <1>8
  <2> QED BY <1>8, <2>2, <2>3 DEF RowAt, len, P
<1>11. ASSUME NEW k \in 1..n PROVE RowAt(e, k, taken[k])
  <2> DEFINE s == SlotAt(k)
             at == Read16(d, s)
             size == Len(taken[k])
  <2>1. s \in Nat /\ H <= s /\ s + 8 <= H + 8 * n /\ s + 8 <= P
    BY <1>1, <1>3, <1>5 DEF SlotAt, H
  <2>2. RowAt(d, k, taken[k])
    BY <1>1, <1>11 DEF Holding
  <2>3. size \in Nat
    <3>1. taken[k] \in RowBytes
      BY <1>1, <1>11
    <3> QED BY <3>1, RowType
  <2>4. /\ at + size <= off /\ Read16(d, s + 4) = size
        /\ \A j \in 1..size : d[P + at + j - 1] = taken[k][j]
    BY <2>2 DEF RowAt, off, P
  <2> HIDE DEF s
  <2>5. /\ s + 1 < PAGE_BYTES /\ s + 4 \in Nat /\ s + 4 + 1 < PAGE_BYTES
    BY <1>5, <2>1
  <2>6. /\ Read16(d, s) = Number(d[s], d[s + 1]) /\ Read16(d, s) \in Nat
        /\ Read16(d, s + 4) = Number(d[s + 4], d[s + 4 + 1])
    BY <1>1, <2>1, <2>5, ShortRead
  <2>7. /\ Read16(e, s) = Number(e[s], e[s + 1])
        /\ Read16(e, s + 4) = Number(e[s + 4], e[s + 4 + 1])
    BY <1>8, <2>1, <2>5, ShortRead
  <2>8. e[s] = d[s] /\ e[s + 1] = d[s + 1] /\ e[s + 4] = d[s + 4] /\ e[s + 4 + 1] = d[s + 4 + 1]
    <3> DEFINE top == H + 8 * n
    <3>1. /\ s + 1 \in Nat /\ s + 4 \in Nat /\ s + 4 + 1 \in Nat /\ H <= s /\ s < top
          /\ H <= s + 1 /\ s + 1 < top /\ H <= s + 4 /\ s + 4 < top /\ H <= s + 4 + 1 /\ s + 4 + 1 < top
      BY <1>1, <1>5, <2>1
    <3>2. \A i \in Nat : H <= i /\ i < top => e[i] = d[i]
      BY <1>9
    <3> HIDE DEF top
    <3> QED BY <2>1, <3>1, <3>2
  <2>9. Read16(e, s) = at /\ Read16(e, s + 4) = size /\ at \in Nat
    BY <2>4, <2>6, <2>7, <2>8
  <2> HIDE DEF at, size
  <2>10. ASSUME NEW j \in 1..size PROVE e[P + at + j - 1] = taken[k][j]
    <3> DEFINE i == P + at + j - 1
    <3>1. i \in Nat /\ P <= i /\ i < P + off
      BY <1>2, <1>5, <2>3, <2>4, <2>9
    <3>2. d[i] = taken[k][j]
      BY <2>4
    <3> HIDE DEF i
    <3>3. e[i] = taken[k][j]
      BY <1>9, <3>1, <3>2
    <3> QED BY <3>3 DEF i
  <2>11. at + size <= free_offset(e)
    BY <1>2, <1>4, <1>8, <2>3, <2>4, <2>9
  <2> QED BY <2>9, <2>10, <2>11 DEF RowAt, s, size, P
<1>12. ASSUME NEW k \in 1..(n + 1) PROVE RowAt(e, k, all[k])
  <2>1. CASE k = n + 1
    BY <1>7, <1>10, <2>1
  <2>2. CASE k # n + 1
    <3>1. k \in 1..n
      BY <1>1, <2>2
    <3> QED BY <1>7, <1>11, <3>1
  <2> QED BY <2>1, <2>2
<1>13. n + 1 <= MaxSlots /\ off + len <= PAYLOAD_SIZE
  BY <1>1, <1>3, <1>5
<1> QED BY <1>7, <1>8, <1>12, <1>13 DEF Holding, e, all

(* A row a page holds is read back. *)
LEMMA HoldingReads ==
  ASSUME NEW d, NEW taken, Holding(d, taken), NEW k \in DOMAIN taken
  PROVE  read(d, k - 1) = taken[k]
<1> DEFINE row == taken[k]
           at == Read16(d, SlotAt(k))
           size == Len(row)
<1>1. taken \in Seq(RowBytes) /\ k \in 1..Len(taken)
  BY DEF Holding
<1>2. row \in RowBytes
  BY <1>1
<1>3. row \in Seq(Byte) /\ size \in Nat
  BY <1>2, RowType
<1>4. /\ Read16(d, SlotAt(k) + 4) = size /\ \A j \in 1..size : d[PAYLOAD_START + at + j - 1] = row[j]
  BY <1>1 DEF Holding, RowAt
<1>5. read(d, k - 1) = [j \in 1..Read16(d, SlotAt(k) + 4) |-> d[PAYLOAD_START + at + j - 1]]
  BY DEF read, SlotAt
<1> HIDE DEF at
<1>6. read(d, k - 1) = [j \in 1..size |-> row[j]]
  BY <1>4, <1>5
<1> HIDE DEF row
<1>7. row = [j \in 1..size |-> row[j]]
  BY <1>3
<1> QED BY <1>6, <1>7 DEF row

(* Two pages that differ in the checksum field at most. *)
Alike(d, e) == d \in Pages /\ e \in Pages /\ \A i \in Addresses \ ChecksumField : e[i] = d[i]

(* The field holds no part of a row. *)
LEMMA AlikeHolds ==
  ASSUME NEW d, NEW e, NEW taken, Alike(d, e), Holding(d, taken)
  PROVE  Holding(e, taken)
<1> DEFINE H == HEADER_SIZE
           P == PAYLOAD_START
           n == Len(taken)
           off == free_offset(d)
<1>1. /\ d \in Pages /\ e \in Pages /\ taken \in Seq(RowBytes) /\ n \in Nat
      /\ num_slots(d) = n /\ n <= MaxSlots /\ off <= PAYLOAD_SIZE
  BY DEF Holding, Alike
<1>2. /\ H \in Nat /\ H >= 16 /\ P \in Nat /\ P = H + 8 * MaxSlots /\ MaxSlots \in Nat
      /\ PAYLOAD_SIZE \in Nat /\ PAGE_BYTES \in Nat /\ PAGE_BYTES = P + PAYLOAD_SIZE
  BY Areas
<1>3. ASSUME NEW i \in Nat, i < PAGE_BYTES, i < 12 \/ i >= 16 PROVE e[i] = d[i]
  <2>1. i \in Addresses \ ChecksumField
    BY <1>2, <1>3 DEF Addresses, ChecksumField
  <2> QED BY <2>1 DEF Alike
<1>4. ASSUME NEW i \in Nat, i + 1 < PAGE_BYTES, i + 1 < 12 \/ i >= 16
      PROVE  Read16(e, i) = Read16(d, i) /\ Read16(d, i) \in Nat
  <2>1. i + 1 \in Nat /\ i < PAGE_BYTES /\ (i < 12 \/ i >= 16) /\ (i + 1 < 12 \/ i + 1 >= 16)
    BY <1>2, <1>4
  <2>2. e[i] = d[i] /\ e[i + 1] = d[i + 1]
    BY <1>3, <1>4, <2>1
  <2>3. /\ Read16(e, i) = Number(e[i], e[i + 1])
        /\ Read16(d, i) = Number(d[i], d[i + 1]) /\ Read16(d, i) \in Nat
    BY <1>1, <1>4, ShortRead
  <2> QED BY <2>2, <2>3
<1>5. num_slots(e) = n /\ free_offset(e) = off /\ off \in Nat
  <2>1. 8 \in Nat /\ 10 \in Nat /\ 8 + 1 < PAGE_BYTES /\ 10 + 1 < PAGE_BYTES /\ 8 + 1 < 12 /\ 10 + 1 < 12
    BY <1>2
  <2> QED BY <1>1, <1>4, <2>1 DEF num_slots, free_offset
<1> HIDE DEF n, off, H, P
<1>6. ASSUME NEW k \in 1..n PROVE RowAt(e, k, taken[k])
  <2> DEFINE s == SlotAt(k)
             at == Read16(d, s)
             size == Len(taken[k])
  <2>1. s \in Nat /\ s >= 16 /\ s + 8 <= P
    BY <1>1, <1>2 DEF SlotAt, H
  <2>2. RowAt(d, k, taken[k])
    BY <1>6 DEF Holding, n
  <2>3. size \in Nat
    <3>1. taken[k] \in RowBytes
      BY <1>1, <1>6 DEF n
    <3> QED BY <3>1, RowType
  <2>4. /\ at + size <= off /\ Read16(d, s + 4) = size
        /\ \A j \in 1..size : d[P + at + j - 1] = taken[k][j]
    BY <2>2 DEF RowAt, off, P
  <2> HIDE DEF s
  <2>5. s + 1 < PAGE_BYTES /\ s + 4 \in Nat /\ s + 4 + 1 < PAGE_BYTES /\ s + 4 >= 16
    BY <1>2, <2>1
  <2>6. Read16(e, s) = at /\ Read16(e, s + 4) = size /\ at \in Nat
    BY <1>4, <2>1, <2>4, <2>5
  <2> HIDE DEF at, size
  <2>7. ASSUME NEW j \in 1..size PROVE e[P + at + j - 1] = taken[k][j]
    <3> DEFINE i == P + at + j - 1
    <3>1. i \in Nat /\ i >= 16 /\ i < PAGE_BYTES
      BY <1>1, <1>2, <1>5, <2>3, <2>4, <2>6
    <3>2. d[i] = taken[k][j]
      BY <2>4
    <3> HIDE DEF i
    <3>3. e[i] = taken[k][j]
      BY <1>3, <3>1, <3>2
    <3> QED BY <3>3 DEF i
  <2> QED BY <1>5, <2>4, <2>6, <2>7 DEF RowAt, s, size, P
<1> QED BY <1>1, <1>5, <1>6 DEF Holding, n

-----------------------------------------------------------------------------
(* Induction up to n: S is the set of the numbers for which the claim holds. *)
LEMMA Forward ==
  ASSUME NEW n \in Nat, NEW S, 0 \in S, \A m \in 0..n : m < n /\ m \in S => m + 1 \in S
  PROVE  \A m \in 0..n : m \in S
<1> DEFINE V == {m \in 0..n : m \notin S}
<1> SUFFICES ASSUME V # {} PROVE FALSE
  OBVIOUS
<1>1. V \in SUBSET Nat
  OBVIOUS
<1>2. PICK m \in V : \A y \in V : <<y, m>> \notin OpToRel(<, Nat)
  <2> HIDE DEF V
  <2> QED BY <1>1, WFMin, NatLessThanWellFounded
<1>3. \A y \in V : ~(y < m)
  <2> HIDE DEF V
  <2> QED BY <1>1, <1>2 DEF OpToRel
<1>4. m \in 0..n /\ m \notin S /\ m # 0
  OBVIOUS
<1>5. m - 1 \in 0..n /\ m - 1 < m /\ m - 1 < n /\ m - 1 + 1 = m
  BY <1>4
<1>6. m - 1 \in S
  BY <1>3, <1>5
<1> QED BY <1>4, <1>5, <1>6

(* Words of 32 bits, as the sets of their 1 bits. *)
Word32 == SUBSET (0..31)

LEMMA AccumulateType ==
  ASSUME NEW w \in Word32, NEW b
  PROVE  /\ Bits(b) \in SUBSET (0..7) /\ Bits(b) \in Word32
         /\ ShiftLeft(w) \in Word32 /\ Accumulate(w, b) \in Word32
<1>1. Bits(b) \in SUBSET (0..7)
  BY DEF Bits
<1>2. 0..7 \in Word32
  BY DEF Word32
<1>3. Bits(b) \in Word32
  BY <1>1, <1>2 DEF Word32
<1>4. ShiftLeft(w) \in Word32
  BY DEF ShiftLeft, Word32
<1> QED BY <1>1, <1>3, <1>4 DEF Accumulate, Xor, Word32

(* What the loop of compute_checksum does with byte n - 1. *)
Body(s, d, n) == IF n = 0 THEN {}
                 ELSE IF n - 1 \in ChecksumField THEN s[n - 1]
                 ELSE Accumulate(s[n - 1], d[n - 1])
Sums(s, d, m) == s = [n \in 0..m |-> Body(s, d, n)]

LEMMA SumsExist == ASSUME NEW d, NEW p \in Nat PROVE \E s : Sums(s, d, p)
<1> DEFINE S == {m \in 0..p : \E s : Sums(s, d, m)}
<1>1. 0 \in S
  <2> DEFINE s == [n \in 0..0 |-> {}]
  <2>1. \A n \in 0..0 : Body(s, d, n) = {}
    BY DEF Body
  <2>2. Sums(s, d, 0)
    BY <2>1 DEF Sums
  <2> HIDE DEF s
  <2> QED BY <2>2
<1>2. ASSUME NEW m \in 0..p, m < p, m \in S PROVE m + 1 \in S
  <2>1. PICK s : Sums(s, d, m)
    BY <1>2
  <2> DEFINE t == [n \in 0..(m + 1) |-> IF n = m + 1 THEN Body(s, d, m + 1) ELSE s[n]]
  <2>2. \A n \in 0..m : n \in 0..(m + 1) /\ n # m + 1
    BY <1>2
  <2>3. \A n \in 0..m : t[n] = s[n] /\ s[n] = Body(s, d, n)
    BY <2>1, <2>2 DEF Sums
  <2>4. m + 1 \in 0..(m + 1) /\ \A n \in 0..(m + 1) : n = m + 1 \/ n \in 0..m
    BY <1>2
  <2>5. t[m + 1] = Body(s, d, m + 1)
    BY <2>4
  <2>6. \A n \in 0..(m + 1) : n # 0 => n - 1 \in 0..m
    BY <1>2
  <2>7. DOMAIN t = 0..(m + 1) /\ t = [n \in 0..(m + 1) |-> t[n]]
    OBVIOUS
  <2> HIDE DEF t
  <2>8. \A n \in 0..(m + 1) : Body(t, d, n) = Body(s, d, n)
    BY <2>3, <2>6 DEF Body
  <2>9. \A n \in 0..(m + 1) : t[n] = Body(t, d, n)
    BY <2>3, <2>4, <2>5, <2>8
  <2>10. Sums(t, d, m + 1)
    BY <2>7, <2>9 DEF Sums
  <2>11. m + 1 \in 0..p
    BY <1>2
  <2> QED BY <2>10, <2>11
<1> HIDE DEF S
<1>3. \A m \in 0..p : m \in S
  BY <1>1, <1>2, Forward
<1>4. p \in 0..p
  OBVIOUS
<1> QED BY <1>3, <1>4 DEF S

(* s holds the sums after each number of bytes. *)
Adds(s, d) == /\ s[0] = {}
              /\ \A n \in 0..PAGE_BYTES : s[n] \in Word32
              /\ \A n \in Addresses : s[n + 1] = IF n \in ChecksumField THEN s[n] ELSE Accumulate(s[n], d[n])

LEMMA ChecksumAdds == ASSUME NEW d PROVE \E s : Adds(s, d) /\ compute_checksum(d) = s[PAGE_BYTES]
<1> DEFINE p == PAGE_BYTES
           s == CHOOSE f : Sums(f, d, p)
<1>1. p \in Nat /\ Addresses = 0..(p - 1)
  BY Areas DEF Addresses
<1>2. Sums(s, d, p)
  BY <1>1, SumsExist
<1>3. compute_checksum(d) = s[p]
  BY DEF compute_checksum, Sums, Body
<1> HIDE DEF s
<1>4. \A n \in 0..p : s[n] = Body(s, d, n)
  BY <1>2 DEF Sums
<1>5. \A n \in 0..(p - 1) : n + 1 \in 0..p /\ n + 1 # 0 /\ n + 1 - 1 = n
  BY <1>1
<1>6. \A n \in 0..(p - 1) : s[n + 1] = IF n \in ChecksumField THEN s[n] ELSE Accumulate(s[n], d[n])
  BY <1>4, <1>5 DEF Body
<1>7. s[0] = {}
  <2>1. 0 \in 0..p
    BY <1>1
  <2> QED BY <1>4, <2>1 DEF Body
<1>8. \A n \in 0..p : s[n] \in Word32
  <2> DEFINE S == {n \in 0..p : s[n] \in Word32}
  <2>1. 0 \in S
    <3>1. 0 \in 0..p
      BY <1>1
    <3>2. {} \in Word32
      BY Zenon DEF Word32
    <3> QED BY <1>7, <3>1, <3>2
  <2>2. ASSUME NEW n \in 0..p, n < p, n \in S PROVE n + 1 \in S
    <3>1. n \in 0..(p - 1) /\ n + 1 \in 0..p
      BY <1>1, <2>2
    <3>2. s[n + 1] \in Word32
      BY <1>6, <2>2, <3>1, AccumulateType
    <3> QED BY <3>1, <3>2
  <2> HIDE DEF S
  <2>3. \A n \in 0..p : n \in S
    BY <1>1, <2>1, <2>2, Forward
  <2> QED BY <2>3 DEF S
<1>9. Adds(s, d)
  BY <1>1, <1>6, <1>7, <1>8 DEF Adds
<1> QED BY <1>3, <1>9

(* The sum does not depend on its field. *)
LEMMA AlikeSums ==
  ASSUME NEW d, NEW e, Alike(d, e)
  PROVE  compute_checksum(e) = compute_checksum(d)
<1>1. PICK s : Adds(s, d) /\ compute_checksum(d) = s[PAGE_BYTES]
  BY ChecksumAdds
<1>2. PICK t : Adds(t, e) /\ compute_checksum(e) = t[PAGE_BYTES]
  BY ChecksumAdds
<1> DEFINE p == PAGE_BYTES
           S == {n \in 0..p : t[n] = s[n]}
<1>3. p \in Nat
  BY Areas
<1>4. 0 \in S
  BY <1>1, <1>2, <1>3 DEF Adds
<1>5. ASSUME NEW n \in 0..p, n < p, n \in S PROVE n + 1 \in S
  <2>1. n \in Addresses /\ n + 1 \in 0..p
    BY <1>3, <1>5 DEF Addresses
  <2>2. n \notin ChecksumField => e[n] = d[n]
    BY <2>1 DEF Alike
  <2>3. t[n] = s[n]
    BY <1>5
  <2>4. t[n + 1] = s[n + 1]
    BY <1>1, <1>2, <2>1, <2>2, <2>3 DEF Adds
  <2> QED BY <2>1, <2>4
<1> HIDE DEF S
<1>6. \A n \in 0..p : n \in S
  BY <1>3, <1>4, <1>5, Forward
<1>7. p \in S
  BY <1>3, <1>6
<1> QED BY <1>1, <1>2, <1>7 DEF S

-----------------------------------------------------------------------------
(* The bits of D that are still in the word after c shifts. *)
Moved(D, c) == {b + c : b \in {x \in D : x + c < 32}}

(* Facts about words. *)
LEMMA XorFacts ==
  ASSUME NEW a, NEW b, NEW c, NEW d
  PROVE  /\ Xor(Xor(a, c), Xor(b, c)) = Xor(a, b)
         /\ Xor(Xor(a, c), Xor(a, d)) = Xor(c, d)
         /\ Xor(a, b) = {} <=> a = b
<1>1. Xor(Xor(a, c), Xor(b, c)) = Xor(a, b)
  BY DEF Xor
<1>2. Xor(Xor(a, c), Xor(a, d)) = Xor(c, d)
  BY DEF Xor
<1>3. Xor(a, b) = {} <=> a = b
  BY DEF Xor
<1> QED BY <1>1, <1>2, <1>3

LEMMA ShiftXor ==
  ASSUME NEW a \in Word32, NEW b \in Word32
  PROVE  Xor(ShiftLeft(a), ShiftLeft(b)) = ShiftLeft(Xor(a, b))
<1>1. \A x \in a \cup b : x \in Int
  BY DEF Word32
<1>2. \A x, y \in a \cup b : x + 1 = y + 1 => x = y
  BY <1>1
<1> QED BY <1>2 DEF Xor, ShiftLeft

LEMMA MovedFacts ==
  ASSUME NEW D \in SUBSET (0..7), NEW c \in Nat
  PROVE  /\ Moved(D, 0) = D
         /\ ShiftLeft(Moved(D, c)) = Moved(D, c + 1)
         /\ Moved(D, c) = {} <=> ~\E b \in D : b + c < 32
<1>1. \A b \in D : b \in Nat /\ b <= 7
  OBVIOUS
<1>2. Moved(D, 0) = D
  <2>1. \A b \in D : b + 0 = b /\ b + 0 < 32
    BY <1>1
  <2> QED BY <2>1 DEF Moved
<1>3. ShiftLeft(Moved(D, c)) = Moved(D, c + 1)
  <2>1. \A b \in D : /\ b + c + 1 = b + (c + 1)
                     /\ (b + c < 32 /\ b + c # 31) <=> b + (c + 1) < 32
    BY <1>1
  <2>2. ASSUME NEW x \in ShiftLeft(Moved(D, c)) PROVE x \in Moved(D, c + 1)
    <3>1. PICK b \in D : b + c < 32 /\ b + c # 31 /\ x = b + c + 1
      BY <2>2 DEF ShiftLeft, Moved
    <3> QED BY <2>1, <3>1 DEF Moved
  <2>3. ASSUME NEW x \in Moved(D, c + 1) PROVE x \in ShiftLeft(Moved(D, c))
    <3>1. PICK b \in D : b + (c + 1) < 32 /\ x = b + (c + 1)
      BY <2>3 DEF Moved
    <3>2. b + c < 32 /\ b + c # 31 /\ x = b + c + 1
      BY <2>1, <3>1
    <3>3. b + c \in Moved(D, c) \ {31}
      BY <3>2 DEF Moved
    <3> QED BY <3>2, <3>3 DEF ShiftLeft
  <2> QED BY <2>2, <2>3
<1>4. Moved(D, c) = {} <=> ~\E b \in D : b + c < 32
  BY DEF Moved
<1> QED BY <1>2, <1>3, <1>4

(* How many of the first n bytes shift the sum after byte i went in. *)
Behind(i, n) == Cardinality(((i + 1)..(n - 1)) \ ChecksumField)

LEMMA BehindGrows ==
  ASSUME NEW i \in Nat, NEW n \in Nat, i < n
  PROVE  /\ Behind(i, n) \in Nat /\ Behind(i, i + 1) = 0
         /\ Behind(i, n + 1) = IF n \in ChecksumField THEN Behind(i, n) ELSE Behind(i, n) + 1
<1> DEFINE S == ((i + 1)..(n - 1)) \ ChecksumField
           T == ((i + 1)..(n + 1 - 1)) \ ChecksumField
<1>1. IsFiniteSet(S)
  <2>1. IsFiniteSet((i + 1)..(n - 1))
    BY FS_Interval
  <2> QED BY <2>1, FS_Difference
<1>2. Cardinality(S) \in Nat
  BY <1>1, FS_CardinalityType
<1>3. Behind(i, i + 1) = 0
  <2>1. ((i + 1)..(i + 1 - 1)) \ ChecksumField = {}
    OBVIOUS
  <2> QED BY <2>1, FS_EmptySet DEF Behind
<1>4. (i + 1)..(n + 1 - 1) = ((i + 1)..(n - 1)) \cup {n} /\ n \notin (i + 1)..(n - 1)
  OBVIOUS
<1>5. CASE n \in ChecksumField
  <2>1. T = S
    BY <1>4, <1>5
  <2> QED BY <1>2, <1>3, <1>5, <2>1 DEF Behind
<1>6. CASE n \notin ChecksumField
  <2>1. T = S \cup {n} /\ n \notin S
    BY <1>4, <1>6
  <2> HIDE DEF S, T
  <2>2. Cardinality(T) = Cardinality(S) + 1
    BY <1>1, <2>1, FS_AddElement
  <2> QED BY <1>2, <1>3, <1>6, <2>2 DEF Behind, S, T
<1> QED BY <1>5, <1>6

(* Two pages that differ in byte i only: their sums differ in the bits of    *)
(* that byte that the shifts behind it have not pushed out.                  *)
LEMMA DifferingSums ==
  ASSUME NEW d \in Pages, NEW e \in Pages, NEW i \in Addresses \ ChecksumField,
         \A j \in Addresses : j # i => e[j] = d[j]
  PROVE  compute_checksum(d) = compute_checksum(e)
           <=> ~\E b \in Xor(Bits(d[i]), Bits(e[i])) : b + ShiftsBehind(i) < 32
<1> DEFINE p == PAGE_BYTES
           D == Xor(Bits(d[i]), Bits(e[i]))
<1>1. PICK s : Adds(s, d) /\ compute_checksum(d) = s[PAGE_BYTES]
  BY ChecksumAdds
<1>2. PICK t : Adds(t, e) /\ compute_checksum(e) = t[PAGE_BYTES]
  BY ChecksumAdds
<1>3. p \in Nat /\ i \in Nat /\ i < p
  BY Areas DEF Addresses
<1>4. D \in SUBSET (0..7)
  <2>1. {} \in Word32
    BY Zenon DEF Word32
  <2>2. Bits(d[i]) \in SUBSET (0..7) /\ Bits(e[i]) \in SUBSET (0..7)
    BY <2>1, AccumulateType
  <2> QED BY <2>2 DEF Xor
<1> HIDE DEF D
<1> DEFINE Diff(n) == IF n <= i THEN {} ELSE Moved(D, Behind(i, n))
           S == {n \in 0..p : Xor(s[n], t[n]) = Diff(n)}
<1>5. 0 \in S
  <2>1. 0 \in 0..p /\ 0 <= i
    BY <1>3
  <2>2. Xor(s[0], t[0]) = {}
    BY <1>1, <1>2, XorFacts DEF Adds
  <2> QED BY <2>1, <2>2
<1>6. ASSUME NEW n \in 0..p, n < p, n \in S PROVE n + 1 \in S
  <2>1. n \in Addresses /\ n + 1 \in 0..p /\ n \in 0..p /\ n \in Nat
    BY <1>3, <1>6 DEF Addresses
  <2>2. /\ s[n] \in Word32 /\ t[n] \in Word32
        /\ s[n + 1] = IF n \in ChecksumField THEN s[n] ELSE Accumulate(s[n], d[n])
        /\ t[n + 1] = IF n \in ChecksumField THEN t[n] ELSE Accumulate(t[n], e[n])
    BY <1>1, <1>2, <2>1 DEF Adds
  <2>3. Xor(s[n], t[n]) = Diff(n)
    BY <1>6
  <2>4. n \notin ChecksumField /\ n # i => Xor(s[n + 1], t[n + 1]) = ShiftLeft(Diff(n))
    <3> SUFFICES ASSUME n \notin ChecksumField, n # i PROVE Xor(s[n + 1], t[n + 1]) = ShiftLeft(Diff(n))
      OBVIOUS
    <3>1. e[n] = d[n]
      BY <2>1
    <3>2. s[n + 1] = Xor(ShiftLeft(s[n]), Bits(d[n])) /\ t[n + 1] = Xor(ShiftLeft(t[n]), Bits(d[n]))
      BY <2>2, <3>1 DEF Accumulate
    <3>3. Xor(s[n + 1], t[n + 1]) = Xor(ShiftLeft(s[n]), ShiftLeft(t[n]))
      BY <3>2, XorFacts
    <3> HIDE DEF Diff
    <3> QED BY <2>2, <2>3, <3>3, ShiftXor
  <2>5. n \in ChecksumField => Xor(s[n + 1], t[n + 1]) = Diff(n)
    <3> HIDE DEF Diff
    <3> QED BY <2>2, <2>3
  <2>6. CASE n < i
    <3>1. n <= i /\ n + 1 <= i /\ n # i
      BY <1>3, <2>1, <2>6
    <3>2. Diff(n) = {} /\ Diff(n + 1) = {}
      BY <3>1
    <3>3. ShiftLeft({}) = {}
      BY DEF ShiftLeft
    <3>4. Xor(s[n + 1], t[n + 1]) = {}
      <4> HIDE DEF Diff
      <4> QED BY <2>4, <2>5, <3>1, <3>2, <3>3
    <3> QED BY <2>1, <3>2, <3>4
  <2>7. CASE n = i
    <3>1. n \notin ChecksumField /\ n <= i /\ ~(n + 1 <= i)
      BY <1>3, <2>7
    <3>2. Xor(s[n], t[n]) = {}
      BY <2>3, <3>1
    <3>3. s[n] = t[n]
      BY <3>2, XorFacts
    <3>4. Xor(s[n + 1], t[n + 1]) = Xor(Bits(d[n]), Bits(e[n]))
      BY <2>2, <3>1, <3>3, XorFacts DEF Accumulate
    <3>5. Behind(i, n + 1) = 0
      BY <1>3, <2>7, BehindGrows
    <3>6. Diff(n + 1) = D
      BY <1>4, <3>1, <3>5, MovedFacts
    <3> QED BY <2>1, <2>7, <3>4, <3>6 DEF D
  <2>8. CASE n > i
    <3>1. ~(n <= i) /\ ~(n + 1 <= i) /\ n # i /\ i < n
      BY <1>3, <2>1, <2>8
    <3>2. /\ Behind(i, n) \in Nat
          /\ Behind(i, n + 1) = IF n \in ChecksumField THEN Behind(i, n) ELSE Behind(i, n) + 1
      BY <1>3, <2>1, <3>1, BehindGrows
    <3>3. Diff(n) = Moved(D, Behind(i, n)) /\ Diff(n + 1) = Moved(D, Behind(i, n + 1))
      BY <3>1
    <3>4. ShiftLeft(Moved(D, Behind(i, n))) = Moved(D, Behind(i, n) + 1)
      BY <1>4, <3>2, MovedFacts
    <3> HIDE DEF Diff
    <3>5. Xor(s[n + 1], t[n + 1]) = Diff(n + 1)
      BY <2>4, <2>5, <3>1, <3>2, <3>3, <3>4
    <3> QED BY <2>1, <3>5
  <2> QED BY <1>3, <2>1, <2>6, <2>7, <2>8
<1>7. \A n \in 0..p : n \in S
  <2> HIDE DEF S
  <2> QED BY <1>3, <1>5, <1>6, Forward
<1>8. p \in S
  BY <1>3, <1>7
<1>9. ~(p <= i)
  BY <1>3
<1>10. Xor(s[p], t[p]) = Moved(D, Behind(i, p))
  BY <1>8, <1>9
<1>11. Behind(i, p) \in Nat /\ Behind(i, p) = ShiftsBehind(i)
  BY <1>3, BehindGrows DEF Behind, ShiftsBehind
<1>12. Xor(s[p], t[p]) = {} <=> ~\E b \in D : b + ShiftsBehind(i) < 32
  BY <1>4, <1>10, <1>11, MovedFacts
<1>13. Xor(s[p], t[p]) = {} <=> s[p] = t[p]
  BY XorFacts
<1> QED BY <1>1, <1>2, <1>12, <1>13 DEF D

(* The four bytes of a word. *)
Value(x, k) == IF x THEN k ELSE 0

LEMMA ByteOfBits ==
  ASSUME NEW w, NEW k
  PROVE  ByteOf(w, k) = Value(8 * k + 0 \in w, 1) + Value(8 * k + 1 \in w, 2) + Value(8 * k + 2 \in w, 4)
                      + Value(8 * k + 3 \in w, 8) + Value(8 * k + 4 \in w, 16) + Value(8 * k + 5 \in w, 32)
                      + Value(8 * k + 6 \in w, 64) + Value(8 * k + 7 \in w, 128)
<1>1. 2^0 = 1 /\ 2^1 = 2 /\ 2^2 = 4 /\ 2^3 = 8 /\ 2^4 = 16 /\ 2^5 = 32 /\ 2^6 = 64 /\ 2^7 = 128
  BY SMT
<1> QED BY SMT, <1>1 DEF ByteOf, Value

LEMMA ByteOfType == ASSUME NEW w, NEW k PROVE ByteOf(w, k) \in Byte
  BY SMT, ByteOfBits DEF Value, Byte

LEMMA ByteOfExact ==
  ASSUME NEW v, NEW w, NEW k \in 0..3, ByteOf(v, k) = ByteOf(w, k)
  PROVE  \A b \in 0..7 : 8 * k + b \in v <=> 8 * k + b \in w
  BY SMT, ByteOfBits DEF Value

LEMMA WordBytesExact ==
  ASSUME NEW v \in Word32, NEW w \in Word32
  PROVE  /\ WordBytes(w) \in Seq(Byte) /\ Len(WordBytes(w)) = 4
         /\ WordBytes(v) = WordBytes(w) <=> v = w
<1>1. WordBytes(w) \in Seq(Byte) /\ Len(WordBytes(w)) = 4
  <2> DEFINE B(k) == ByteOf(w, k)
  <2>1. B(0) \in Byte /\ B(1) \in Byte /\ B(2) \in Byte /\ B(3) \in Byte
    BY ByteOfType
  <2> HIDE DEF B
  <2>2. <<B(0), B(1), B(2), B(3)>> \in Seq(Byte) /\ Len(<<B(0), B(1), B(2), B(3)>>) = 4
    BY <2>1
  <2> QED BY <2>2 DEF WordBytes, B
<1>2. ASSUME WordBytes(v) = WordBytes(w) PROVE v = w
  <2>1. /\ ByteOf(v, 0) = ByteOf(w, 0) /\ ByteOf(v, 1) = ByteOf(w, 1)
        /\ ByteOf(v, 2) = ByteOf(w, 2) /\ ByteOf(v, 3) = ByteOf(w, 3)
    BY <1>2 DEF WordBytes
  <2>2. \A k \in 0..3 : ByteOf(v, k) = ByteOf(w, k)
    BY <2>1
  <2>3. \A k \in 0..3, b \in 0..7 : 8 * k + b \in v <=> 8 * k + b \in w
    BY <2>2, ByteOfExact
  <2>4. \A x \in 0..31 : \E k \in 0..3, b \in 0..7 : x = 8 * k + b
    <3> SUFFICES ASSUME NEW x \in 0..31 PROVE \E k \in 0..3, b \in 0..7 : x = 8 * k + b
      OBVIOUS
    <3> DEFINE k == x \div 8
               b == x % 8
    <3>1. k \in 0..3 /\ b \in 0..7 /\ x = 8 * k + b
      BY SMT
    <3> QED BY <3>1
  <2>5. \A x \in 0..31 : x \in v <=> x \in w
    BY <2>3, <2>4
  <2> QED BY <2>5 DEF Word32
<1> QED BY <1>1, <1>2

(* The sum is a word. *)
LEMMA ChecksumType == ASSUME NEW d PROVE compute_checksum(d) \in Word32
<1>1. PICK s : Adds(s, d) /\ compute_checksum(d) = s[PAGE_BYTES]
  BY ChecksumAdds
<1>2. PAGE_BYTES \in 0..PAGE_BYTES
  BY Areas
<1> QED BY <1>1, <1>2 DEF Adds

-----------------------------------------------------------------------------
(* Four bytes go into the checksum field and nowhere else. *)
FieldIs(d, bs) == \A k \in 1..4 : d[11 + k] = bs[k]

LEMMA FieldWritten ==
  ASSUME NEW d \in Pages, NEW bs \in Seq(Byte), Len(bs) = 4
  PROVE  Alike(d, Write(d, 12, bs)) /\ FieldIs(Write(d, 12, bs), bs)
<1> DEFINE e == Write(d, 12, bs)
<1>1. Written(e, d, 12, bs)
  BY WriteWrites
<1> HIDE DEF e
<1>2. e \in Pages
  BY <1>1 DEF Written
<1>3. ASSUME NEW i \in Addresses \ ChecksumField PROVE e[i] = d[i]
  <2>1. i < 12 \/ i >= 12 + Len(bs)
    BY <1>3, Areas DEF Addresses, ChecksumField
  <2> QED BY <1>1, <2>1 DEF Written
<1>4. ASSUME NEW k \in 1..4 PROVE e[11 + k] = bs[k]
  <2>1. 12 + k - 1 = 11 + k /\ 11 + k \in Addresses
    BY Areas DEF Addresses
  <2> QED BY <1>1, <2>1 DEF Written
<1> QED BY <1>2, <1>3, <1>4 DEF Alike, FieldIs, e

(* Pages that are alike and have the same bytes in the field are equal. *)
LEMMA AlikeEqual ==
  ASSUME NEW d, NEW e, Alike(d, e), NEW bs, FieldIs(d, bs), FieldIs(e, bs)
  PROVE  d = e
<1>1. ASSUME NEW i \in Addresses PROVE d[i] = e[i]
  <2>1. CASE i \in ChecksumField
    <3>1. i - 11 \in 1..4 /\ 11 + (i - 11) = i
      BY <2>1 DEF ChecksumField
    <3> QED BY <3>1 DEF FieldIs
  <2>2. CASE i \notin ChecksumField
    BY <2>2 DEF Alike
  <2> QED BY <2>1, <2>2
<1> QED BY <1>1 DEF Alike, Pages

(* The field of d holds the sum of d. *)
Summed(d) == FieldIs(d, WordBytes(compute_checksum(d)))

(* serialize: the rows stay, and the image carries its sum. *)
LEMMA SerializedPage ==
  ASSUME NEW d \in Pages
  PROVE  Alike(d, serialized(d)) /\ Summed(serialized(d))
<1> DEFINE bs == WordBytes(compute_checksum(d))
<1>1. bs \in Seq(Byte) /\ Len(bs) = 4
  BY ChecksumType, WordBytesExact
<1> HIDE DEF bs
<1>2. Alike(d, serialized(d)) /\ FieldIs(serialized(d), bs)
  BY <1>1, FieldWritten DEF serialized, bs
<1>3. compute_checksum(serialized(d)) = compute_checksum(d)
  BY <1>2, AlikeSums
<1> QED BY <1>2, <1>3 DEF Summed, bs

LEMMA AlikeTurns == ASSUME NEW d, NEW e, NEW f, Alike(d, e), Alike(e, f) PROVE Alike(e, d) /\ Alike(d, f)
  BY DEF Alike

(* A page that only lost its sum is written out as the image it came from. *)
LEMMA SerializedAgain ==
  ASSUME NEW d, NEW im, Alike(d, im), Summed(im)
  PROVE  serialized(d) = im
<1>1. d \in Pages
  BY DEF Alike
<1>2. Alike(d, serialized(d)) /\ Summed(serialized(d))
  BY <1>1, SerializedPage
<1>3. Alike(serialized(d), d)
  BY <1>2 DEF Alike
<1>4. Alike(serialized(d), im)
  BY <1>3, AlikeTurns
<1>5. compute_checksum(im) = compute_checksum(serialized(d))
  BY <1>4, AlikeSums
<1> HIDE DEF Alike, Summed
<1> QED BY <1>2, <1>4, <1>5, AlikeEqual DEF Summed

-----------------------------------------------------------------------------
(* An image with one changed byte, and the image it was. *)
Hit(dm) == dm \in [at : Addresses, was : Byte]
Original(im, dm) == IF dm = NoDamage THEN im ELSE [im EXCEPT ![dm.at] = dm.was]

LEMMA HitIsDamage == ASSUME NEW dm, Hit(dm) PROVE dm # NoDamage
<1>1. dm.at \in Addresses
  BY DEF Hit
<1>2. dm.at # -1
  BY <1>1 DEF Addresses
<1> QED BY <1>2 DEF NoDamage

(* What the medium changed in a page that carries its sum is seen when it is *)
(* in the field, or when the sum still has a bit of it.                      *)
LEMMA SumSeesDamage ==
  ASSUME NEW im \in Pages, NEW dm, Hit(dm), im[dm.at] # dm.was, Summed(Original(im, dm))
  PROVE  ~Summed(im) <=> \/ dm.at \in ChecksumField
                         \/ \E b \in Xor(Bits(dm.was), Bits(im[dm.at])) : b + ShiftsBehind(dm.at) < 32
<1> DEFINE o == Original(im, dm)
           i == dm.at
           bs == WordBytes(compute_checksum(o))
<1>1. i \in Addresses /\ dm.was \in Byte
  BY DEF Hit
<1>2. o = [im EXCEPT ![i] = dm.was]
  BY HitIsDamage DEF Original
<1>3. o \in Pages /\ o[i] = dm.was /\ \A j \in Addresses : j # i => im[j] = o[j]
  BY <1>1, <1>2 DEF Pages
<1>4. FieldIs(o, bs)
  BY DEF Summed
<1> HIDE DEF o, bs
<1>5. CASE i \in ChecksumField
  <2>1. \A j \in Addresses \ ChecksumField : j # i
    BY <1>5
  <2>2. Alike(o, im)
    BY <1>3, <2>1 DEF Alike
  <2>3. compute_checksum(im) = compute_checksum(o)
    BY <2>2, AlikeSums
  <2>4. i - 11 \in 1..4 /\ 11 + (i - 11) = i
    BY <1>5 DEF ChecksumField
  <2>5. o[i] = bs[i - 11]
    BY <1>4, <2>4 DEF FieldIs
  <2>6. im[i] # bs[i - 11]
    BY <1>3, <2>5
  <2>7. ~FieldIs(im, bs)
    BY <2>4, <2>6 DEF FieldIs
  <2> QED BY <1>5, <2>3, <2>7 DEF Summed, bs
<1>6. CASE i \notin ChecksumField
  <2> DEFINE v == compute_checksum(o)
             w == compute_checksum(im)
  <2>1. v = w <=> ~\E b \in Xor(Bits(o[i]), Bits(im[i])) : b + ShiftsBehind(i) < 32
    BY <1>1, <1>3, <1>6, DifferingSums
  <2>2. v \in Word32 /\ w \in Word32
    BY ChecksumType
  <2>3. ASSUME NEW k \in 1..4 PROVE im[11 + k] = o[11 + k]
    <3>1. 11 + k \in Addresses /\ 11 + k \in ChecksumField
      BY Areas DEF Addresses, ChecksumField
    <3> QED BY <1>3, <1>6, <3>1
  <2>4. FieldIs(im, bs)
    BY <1>4, <2>3 DEF FieldIs
  <2> HIDE DEF v, w
  <2>5. /\ WordBytes(v) \in Seq(Byte) /\ Len(WordBytes(v)) = 4
        /\ WordBytes(w) \in Seq(Byte) /\ Len(WordBytes(w)) = 4
        /\ WordBytes(v) = WordBytes(w) <=> v = w
    BY <2>2, WordBytesExact
  <2>6. bs = WordBytes(v) /\ (Summed(im) <=> FieldIs(im, WordBytes(w)))
    BY DEF bs, v, w, Summed
  <2>7. FieldIs(im, WordBytes(w)) <=> WordBytes(v) = WordBytes(w)
    <3> DEFINE x == WordBytes(v)
               y == WordBytes(w)
    <3>1. x \in Seq(Byte) /\ Len(x) = 4 /\ y \in Seq(Byte) /\ Len(y) = 4
      BY <2>5
    <3>2. \A k \in 1..4 : im[11 + k] = x[k]
      BY <2>4, <2>6 DEF FieldIs
    <3> HIDE DEF x, y
    <3>3. (\A k \in 1..4 : x[k] = y[k]) <=> x = y
      BY <3>1, SeqEqual
    <3>4. FieldIs(im, y) <=> \A k \in 1..4 : x[k] = y[k]
      BY <3>2 DEF FieldIs
    <3> QED BY <3>3, <3>4 DEF x, y
  <2> QED BY <1>3, <1>6, <2>1, <2>5, <2>6, <2>7 DEF v, w
<1> QED BY <1>5, <1>6

-----------------------------------------------------------------------------
(* The page holds the rows it took, unless it came from a damaged image.    *)
PageHolds == Usable => Holding(data, accepted)

(* Undoing the damage gives an image with the saved rows and their sum.     *)
ImageHolds ==
  IF image = NoImage THEN damage = NoDamage /\ verdict = "none"
  ELSE /\ image \in Pages
       /\ damage = NoDamage \/ (Hit(damage) /\ image[damage.at] # damage.was)
       /\ Holding(Original(image, damage), saved)
       /\ Summed(Original(image, damage))

(* The page is its image but for the sum, or has taken rows since.          *)
PageFollows ==
  Usable /\ image # NoImage =>
    \/ accepted = saved /\ Alike(data, Original(image, damage))
    \/ Len(accepted) > Len(saved)

(* The verdict is about the image that is there. *)
VerdictRight ==
  /\ verdict \in {"none", "short", "good", "bad"}
  /\ verdict \in {"good", "bad"} => (verdict = "bad" <=> ~Summed(image))

PageInv == PageHolds /\ ImageHolds /\ PageFollows /\ VerdictRight

(* An untouched image carries its sum. *)
LEMMA UntouchedSummed ==
  ASSUME ImageHolds, image # NoImage, damage = NoDamage
  PROVE  image \in Pages /\ Holding(image, saved) /\ Summed(image)
  BY DEF ImageHolds, Original

(* An empty page holds no rows. *)
LEMMA NewPageHolds == Holding(NewPage, <<>>)
<1> DEFINE zero == [i \in 0..(PAGE_BYTES - 1) |-> 0]
           one == <<1>>
<1>1. zero \in Pages /\ one \in Seq(Byte) /\ Len(one) = 1 /\ 4 \in Nat
  BY DEF Pages, Addresses, Byte
<1>2. \A i \in Addresses : zero[i] = 0
  BY DEF Addresses
<1> HIDE DEF zero, one
<1>3. Written(NewPage, zero, 4, one)
  BY <1>1, WriteWrites DEF NewPage, zero, one
<1>4. 8 \in Addresses /\ 8 + 1 \in Addresses /\ 10 \in Addresses /\ 10 + 1 \in Addresses
  BY Areas DEF Addresses
<1>5. 8 >= 4 + Len(one) /\ 8 + 1 >= 4 + Len(one) /\ 10 >= 4 + Len(one) /\ 10 + 1 >= 4 + Len(one)
  BY <1>1
<1>6. /\ NewPage \in Pages /\ NewPage[8] = 0 /\ NewPage[8 + 1] = 0
      /\ NewPage[10] = 0 /\ NewPage[10 + 1] = 0
  BY <1>2, <1>3, <1>4, <1>5 DEF Written
<1>7. num_slots(NewPage) = 0 /\ free_offset(NewPage) = 0
  <2> DEFINE a == NewPage[8]
             b == NewPage[8 + 1]
             x == NewPage[10]
             y == NewPage[10 + 1]
  <2>1. num_slots(NewPage) = a + 256 * b /\ free_offset(NewPage) = x + 256 * y
    BY DEF num_slots, free_offset, Read16
  <2>2. a = 0 /\ b = 0 /\ x = 0 /\ y = 0
    BY <1>6
  <2> QED BY <2>1, <2>2
<1> DEFINE none == <<>>
<1>8. none \in Seq(RowBytes) /\ Len(none) = 0
  OBVIOUS
<1> HIDE DEF none
<1>9. 1..Len(none) = {} /\ Len(none) <= MaxSlots /\ 0 <= PAYLOAD_SIZE
  BY <1>8, Areas
<1>10. Holding(NewPage, none)
  BY <1>6, <1>7, <1>8, <1>9 DEF Holding
<1> QED BY <1>10 DEF none

LEMMA PageInitHolds == PageInit => PageInv
<1> SUFFICES ASSUME PageInit PROVE PageInv
  OBVIOUS
<1>1. PageHolds
  BY NewPageHolds DEF PageInit, PageHolds
<1>2. ImageHolds /\ PageFollows /\ VerdictRight
  BY DEF PageInit, ImageHolds, PageFollows, VerdictRight
<1> QED BY <1>1, <1>2 DEF PageInv

LEMMA InsertRowKeeps ==
  ASSUME PageInv, NEW row \in RowBytes, InsertRow(row)
  PROVE  PageInv'
<1>1. Usable /\ Usable' /\ UNCHANGED <<image, damage, verdict, saved>>
  BY DEF InsertRow, Usable
<1>2. Holding(data, accepted)
  BY <1>1 DEF PageInv, PageHolds
<1>3. ImageHolds' /\ VerdictRight'
  BY <1>1 DEF PageInv, ImageHolds, VerdictRight
<1>4. CASE Accepts(data, row)
  <2>1. data' = insert(data, row) /\ accepted' = Append(accepted, row)
    BY <1>4 DEF InsertRow
  <2>2. Holding(data, accepted)'
    BY <1>2, <1>4, <2>1, InsertHolds
  <2>3. ASSUME image # NoImage PROVE Len(accepted') > Len(saved)
    <3>1. accepted \in Seq(RowBytes)
      BY <1>2 DEF Holding
    <3>2. saved \in Seq(RowBytes)
      BY <2>3 DEF PageInv, ImageHolds, Holding
    <3>3. Len(accepted') = Len(accepted) + 1 /\ Len(accepted) \in Nat /\ Len(saved) \in Nat
      BY <2>1, <3>1, <3>2
    <3>4. Len(accepted) = Len(saved) \/ Len(accepted) > Len(saved)
      BY <1>1, <2>3 DEF PageInv, PageFollows
    <3> QED BY <3>3, <3>4
  <2>4. PageFollows'
    BY <1>1, <2>3 DEF PageFollows
  <2> QED BY <1>3, <2>2, <2>4 DEF PageInv, PageHolds
<1>5. CASE ~Accepts(data, row)
  <2>1. UNCHANGED <<data, accepted>>
    BY <1>5 DEF InsertRow
  <2> QED BY <1>1, <1>3, <2>1 DEF PageInv, PageHolds, PageFollows
<1> QED BY <1>4, <1>5

LEMMA SerializeKeeps ==
  ASSUME PageInv, serialize
  PROVE  PageInv'
<1>1. /\ Usable /\ data' = serialized(data) /\ image' = serialized(data)
      /\ saved' = accepted /\ damage' = NoDamage /\ verdict' = verdict /\ accepted' = accepted
  BY DEF serialize
<1>2. Holding(data, accepted) /\ data \in Pages
  BY <1>1 DEF PageInv, PageHolds, Holding
<1>3. Alike(data, data') /\ Summed(data')
  BY <1>1, <1>2, SerializedPage
<1>4. Holding(data', accepted') /\ data' \in Pages
  BY <1>1, <1>2, <1>3, AlikeHolds DEF Alike
<1>5. Original(image', damage') = data' /\ image' # NoImage
  BY <1>1, <1>4, PageNotNone DEF Original
<1>6. ImageHolds'
  BY <1>1, <1>3, <1>4, <1>5 DEF ImageHolds
<1>7. PageFollows'
  <2>1. Alike(data', data')
    BY <1>4 DEF Alike
  <2> QED BY <1>1, <1>5, <2>1 DEF PageFollows
<1>8. VerdictRight'
  <2> SUFFICES ASSUME verdict \in {"good", "bad"} PROVE verdict # "bad"
    BY <1>1, <1>3 DEF PageInv, VerdictRight
  <2>1. damage = NoDamage
    BY <1>1 DEF Usable
  <2>2. image # NoImage
    BY DEF PageInv, ImageHolds
  <2>3. Summed(image)
    BY <2>1, <2>2, UntouchedSummed DEF PageInv
  <2> QED BY <2>3 DEF PageInv, VerdictRight
<1> QED BY <1>4, <1>6, <1>7, <1>8 DEF PageInv, PageHolds

LEMMA DamageKeeps ==
  ASSUME PageInv, NEW i \in 0..(PAGE_BYTES - 1), NEW byte \in BadBytes, Damage(i, byte)
  PROVE  PageInv'
<1>1. /\ image # NoImage /\ damage = NoDamage /\ image[i] # byte /\ verdict' = "none"
      /\ damage' = [at |-> i, was |-> image[i]] /\ image' = [image EXCEPT ![i] = byte]
      /\ data' = data /\ accepted' = accepted /\ saved' = saved
  BY DEF Damage
<1>2. i \in Addresses /\ byte \in Byte
  BY LayoutAssumption DEF Addresses, Byte
<1>3. image \in Pages /\ Holding(image, saved) /\ Summed(image)
  BY <1>1, UntouchedSummed DEF PageInv
<1>4. image[i] \in Byte
  BY <1>2, <1>3 DEF Pages
<1>5. image' \in Pages /\ image'[i] = byte
  BY <1>1, <1>2, <1>3 DEF Pages
<1>6. Hit(damage') /\ damage'.at = i /\ damage'.was = image[i]
  BY <1>1, <1>2, <1>4 DEF Hit
<1>7. image' # NoImage /\ damage' # NoDamage
  BY <1>5, <1>6, PageNotNone, HitIsDamage
<1>8. Original(image', damage') = image
  <2>1. Original(image', damage') = [[image EXCEPT ![i] = byte] EXCEPT ![i] = image[i]]
    BY <1>1, <1>6, <1>7 DEF Original
  <2> QED BY <1>2, <1>3, <2>1 DEF Pages
<1>9. ImageHolds'
  BY <1>1, <1>3, <1>5, <1>6, <1>7, <1>8 DEF ImageHolds
<1>10. PageHolds' /\ VerdictRight'
  BY <1>1 DEF PageInv, PageHolds, VerdictRight, Usable
<1>11. PageFollows'
  <2>1. Original(image, damage) = image /\ Usable
    BY <1>1 DEF Original, Usable
  <2> QED BY <1>1, <1>8, <2>1 DEF PageInv, PageFollows
<1> QED BY <1>9, <1>10, <1>11 DEF PageInv

(* Bytes that are no page change nothing but the verdict. *)
LEMMA ShortKeeps ==
  ASSUME PageInv, NEW size, size # PAGE_BYTES, deserialize(size)
  PROVE  PageInv'
<1>1. /\ image # NoImage /\ Usable /\ verdict' = "short"
      /\ data' = data /\ accepted' = accepted /\ image' = image /\ damage' = damage /\ saved' = saved
  BY DEF deserialize
<1>2. PageHolds' /\ PageFollows'
  BY <1>1 DEF PageInv, PageHolds, PageFollows
<1>3. ImageHolds' /\ VerdictRight'
  BY <1>1 DEF PageInv, ImageHolds, VerdictRight
<1> QED BY <1>2, <1>3 DEF PageInv

LEMMA DeserializeKeeps ==
  ASSUME PageInv, deserialize(PAGE_BYTES)
  PROVE  PageInv'
<1> DEFINE zeros == <<0, 0, 0, 0>>
           bs == WordBytes(compute_checksum(image))
           field == [k \in 1..4 |-> image[11 + k]]
<1>1. /\ image # NoImage /\ data' = Write(image, 12, zeros) /\ accepted' = saved
      /\ image' = image /\ damage' = damage /\ saved' = saved
      /\ verdict' = IF field = bs THEN "good" ELSE "bad"
  BY DEF deserialize, verify
<1>2. zeros \in Seq(Byte) /\ Len(zeros) = 4
  BY DEF Byte
<1> HIDE DEF zeros
<1>3. image \in Pages
  BY <1>1 DEF PageInv, ImageHolds
<1>4. Alike(image, data')
  BY <1>1, <1>2, <1>3, FieldWritten
<1>5. bs \in Seq(Byte) /\ Len(bs) = 4
  BY ChecksumType, WordBytesExact
<1>6. field = bs <=> Summed(image)
  <2>1. Summed(image) <=> \A k \in 1..4 : image[11 + k] = bs[k]
    BY DEF Summed, FieldIs
  <2> HIDE DEF bs
  <2>2. bs = [k \in 1..4 |-> bs[k]]
    BY <1>5
  <2> QED BY <2>1, <2>2
<1>7. verdict' \in {"good", "bad"} /\ (verdict' = "bad" <=> ~Summed(image))
  <2> HIDE DEF bs, field
  <2> QED BY <1>1, <1>6
<1>8. ImageHolds' /\ VerdictRight'
  BY <1>1, <1>7 DEF PageInv, ImageHolds, VerdictRight
<1>9. ASSUME Usable' PROVE Holding(data', accepted') /\ Alike(data', Original(image', damage'))
  <2>1. damage = NoDamage
    BY <1>1, <1>7, <1>9 DEF Usable
  <2>2. Holding(image, saved) /\ Original(image', damage') = image
    BY <1>1, <2>1, UntouchedSummed DEF PageInv, Original
  <2>3. Alike(data', image)
    BY <1>4 DEF Alike
  <2> QED BY <1>1, <1>4, <2>2, <2>3, AlikeHolds
<1> QED BY <1>1, <1>8, <1>9 DEF PageInv, PageHolds, PageFollows

LEMMA PageNextKeeps == PageInv /\ [PageNext]_pageVars => PageInv'
<1> SUFFICES ASSUME PageInv, [PageNext]_pageVars PROVE PageInv'
  OBVIOUS
<1>1. ASSUME NEW row \in RowBytes, InsertRow(row) PROVE PageInv'
  BY <1>1, InsertRowKeeps
<1>2. CASE serialize
  BY <1>2, SerializeKeeps
<1>3. ASSUME NEW i \in 0..(PAGE_BYTES - 1), NEW byte \in BadBytes, Damage(i, byte) PROVE PageInv'
  BY <1>3, DamageKeeps
<1>4. ASSUME NEW size \in 0..(PAGE_BYTES + 1), deserialize(size) PROVE PageInv'
  BY <1>4, DeserializeKeeps, ShortKeeps
<1>5. CASE UNCHANGED pageVars
  BY <1>5 DEF pageVars, PageInv, PageHolds, ImageHolds, PageFollows, VerdictRight, Usable
<1> QED BY <1>1, <1>2, <1>3, <1>4, <1>5 DEF PageNext

LEMMA PageInductive == PageSpec => []PageInv
  BY PageInitHolds, PageNextKeeps, PTL DEF PageSpec

(* In a page of any size, whatever rows are inserted, however often it is   *)
(* written out and read in: every row insert_row took reads back byte for   *)
(* byte from the page and from its image, and an unchanged page that was    *)
(* read in is written out as the same image.                                *)
THEOREM RowsSurvive == PageSpec => []RowsReadBack
<1>1. PageInv => RowsReadBack
  <2> SUFFICES ASSUME PageInv PROVE RowsReadBack
    OBVIOUS
  <2>1. ASSUME Usable
        PROVE  /\ num_slots(data) = Len(accepted)
               /\ \A k \in DOMAIN accepted : read(data, k - 1) = accepted[k]
    <3>1. Holding(data, accepted)
      BY <2>1 DEF PageInv, PageHolds
    <3>2. num_slots(data) = Len(accepted)
      BY <3>1 DEF Holding
    <3> QED BY <3>1, <3>2, HoldingReads
  <2>2. ASSUME image # NoImage, damage = NoDamage
        PROVE  \A k \in DOMAIN saved : read(image, k - 1) = saved[k]
    BY <2>2, UntouchedSummed, HoldingReads DEF PageInv
  <2>3. ASSUME Usable, image # NoImage, damage = NoDamage, accepted = saved
        PROVE  serialized(data) = image
    <3>1. Holding(data, accepted) /\ Holding(image, saved) /\ Summed(image)
      BY <2>3, UntouchedSummed DEF PageInv, PageHolds
    <3>2. ~(Len(accepted) > Len(saved))
      <4>1. Len(saved) \in Nat
        BY <3>1 DEF Holding
      <4> QED BY <2>3, <4>1
    <3>3. Alike(data, image)
      BY <2>3, <3>2 DEF PageInv, PageFollows, Original
    <3> QED BY <3>1, <3>3, SerializedAgain
  <2> QED BY <2>1, <2>2, <2>3 DEF RowsReadBack
<1> QED BY <1>1, PageInductive, PTL

(* What the sum tells of one changed byte, exactly: a change in the field,  *)
(* or of a bit that is not shifted out.                                     *)
Visible == /\ damage # NoDamage
           /\ \/ damage.at \in ChecksumField
              \/ \E b \in Xor(Bits(damage.was), Bits(image[damage.at])) :
                   b + ShiftsBehind(damage.at) < 32

LEMMA VerdictIsVisible ==
  ASSUME PageInv, verdict \in {"good", "bad"}
  PROVE  verdict = "bad" <=> Visible
<1>1. image # NoImage
  BY DEF PageInv, ImageHolds
<1>2. verdict = "bad" <=> ~Summed(image)
  BY DEF PageInv, VerdictRight
<1>3. CASE damage = NoDamage
  BY <1>1, <1>2, <1>3, UntouchedSummed DEF PageInv, Visible
<1>4. CASE damage # NoDamage
  <2>1. /\ image \in Pages /\ Hit(damage) /\ image[damage.at] # damage.was
        /\ Summed(Original(image, damage))
    BY <1>1, <1>4 DEF PageInv, ImageHolds
  <2> QED BY <1>2, <1>4, <2>1, SumSeesDamage DEF Visible
<1> QED BY <1>3, <1>4

(* On a page of any size, deserialize accepts an image nobody touched and   *)
(* refuses one with a change in the field of the sum, or of a bit the sum   *)
(* has not shifted out.                                                     *)
THEOREM DamageFound == PageSpec => []DamageNoticed
<1>1. PageInv => DamageNoticed
  <2> SUFFICES ASSUME PageInv, verdict \in {"good", "bad"}
               PROVE  /\ damage = NoDamage => verdict = "good"
                      /\ \/ damage.at \in ChecksumField
                         \/ /\ damage # NoDamage
                            /\ \E b \in Xor(Bits(damage.was), Bits(image[damage.at])) :
                                 b + ShiftsBehind(damage.at) < 32
                         => verdict = "bad"
    BY DEF DamageNoticed
  <2>1. verdict = "bad" <=> Visible
    BY VerdictIsVisible
  <2>2. damage.at \in ChecksumField => damage # NoDamage
    BY DEF NoDamage, ChecksumField
  <2> QED BY <2>1, <2>2 DEF Visible
<1> QED BY <1>1, PageInductive, PTL

(* And nothing else: in front of the last 32 bytes of a page of any size no *)
(* changed byte outside the field is refused, which is why the image of     *)
(* CorruptionDetected's counterexample is accepted.                         *)
Unprotected(i) == i \notin ChecksumField /\ ShiftsBehind(i) >= 32

THEOREM ShiftedOutAccepted ==
  PageSpec => [](verdict \in {"good", "bad"} /\ Unprotected(damage.at) => verdict = "good")
<1>1. PageInv => (verdict \in {"good", "bad"} /\ Unprotected(damage.at) => verdict = "good")
  <2> SUFFICES ASSUME PageInv, verdict = "bad", Unprotected(damage.at)
               PROVE  FALSE
    OBVIOUS
  <2>1. Visible
    BY VerdictIsVisible
  <2>2. PICK b \in Xor(Bits(damage.was), Bits(image[damage.at])) : b + ShiftsBehind(damage.at) < 32
    BY <2>1 DEF Visible, Unprotected
  <2>3. b \in Nat
    BY <2>2 DEF Xor, Bits
  <2>4. ShiftsBehind(damage.at) \in Nat
    <3> DEFINE i == damage.at
    <3>1. image # NoImage
      BY DEF PageInv, ImageHolds
    <3>2. i \in Addresses
      BY <2>1, <3>1 DEF PageInv, ImageHolds, Visible, Hit
    <3> HIDE DEF i
    <3>3. i + 1 \in Int /\ PAGE_BYTES - 1 \in Int
      BY <3>2, Areas DEF Addresses
    <3>4. IsFiniteSet((i + 1)..(PAGE_BYTES - 1))
      BY <3>3, FS_Interval
    <3>5. IsFiniteSet(((i + 1)..(PAGE_BYTES - 1)) \ ChecksumField)
      BY <3>4, FS_Subset
    <3>6. ShiftsBehind(i) \in Nat
      BY <3>5, FS_CardinalityType DEF ShiftsBehind
    <3> QED BY <3>6 DEF i
  <2> DEFINE n == ShiftsBehind(damage.at)
  <2>5. n \in Nat /\ n >= 32 /\ b + n < 32
    BY <2>2, <2>4 DEF Unprotected
  <2> HIDE DEF n
  <2> QED BY <2>3, <2>5
<1> QED BY <1>1, PageInductive, PTL
=============================================================================
