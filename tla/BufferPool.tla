----------------------------- MODULE BufferPool -----------------------------
(***************************************************************************)
(* Page and BufferPool of src/src/storage_engine_production.cpp.  Threads  *)
(* ask the pool for pages, save and flush them, and change the pages they  *)
(* were given.  get_page looks a page up under the shared lock, drops it,  *)
(* takes the exclusive lock, looks again and evicts; its statistics are    *)
(* read and written under the shared lock only.  Each stretch between two  *)
(* lock operations, and each half of such an unprotected increment, is one *)
(* step of the thread.  Pages are objects with an identity: a thread may   *)
(* keep using one that is no longer in the pool.                           *)
(***************************************************************************)
EXTENDS Integers, Sequences, FiniteSets

CONSTANTS Threads,    \* callers' threads
          PageNums,   \* page numbers asked for
          MaxPages,   \* pages that fit: pool_size_mb * 1024 * 1024 / PAGE_SIZE
          Times,      \* readings of the system clock, which may tie and go back
          RowLens,    \* lengths of the rows inserted
          MaxCalls    \* bound on the calls made

ASSUME PoolAssumption == /\ PageNums \subseteq Nat /\ Times \subseteq Nat /\ RowLens \subseteq Nat
                         /\ MaxPages \in Nat /\ MaxCalls \in Nat

VARIABLES objects,        \* every Page ever made, in the order of making
          pages_,         \* page number -> [page: an index into objects, last_access]
          current_size_,
          total_hits_, total_misses_,
          owner,          \* who calls the pool: "threads", or the "engine" that owns it
          th,             \* what each thread is doing
          calls,          \* counter for the bound
          gets,           \* history: calls of get_page
          evicted         \* history: the objects evict_lru took out

poolVars == <<objects, pages_, current_size_, total_hits_, total_misses_, owner, th, calls, gets, evicted>>

PAGE_SIZE == 8192
PAGE_HEADER_SIZE == 512
MAX_SLOTS_PER_PAGE == 1024
SlotHeaderSize == 32
max_size_ == MaxPages * PAGE_SIZE

-----------------------------------------------------------------------------
(* Page: a slot directory, where the next row goes, and the dirty flag.     *)

(* Where the constructor lets the rows start, in the 16 bits of the field. *)
FirstFree == (PAGE_HEADER_SIZE + MAX_SLOTS_PER_PAGE * SlotHeaderSize) % 65536

Page(n) == [page_num |-> n, free_offset |-> FirstFree, slots |-> <<>>, is_dirty |-> FALSE]

(* The lengths that reach a page: its calls take them in 16 bits. *)
RowLengths == {len % 65536 : len \in RowLens}

Slot(len, txn) == [length |-> len, creating_txn |-> txn, expiring_txn |-> 0]

HasRoom(pg, len) == Len(pg.slots) < MAX_SLOTS_PER_PAGE /\ pg.free_offset + len <= PAGE_SIZE

WithRow(pg, len, txn) ==
  [pg EXCEPT !.slots = Append(@, Slot(len, txn)), !.free_offset = @ + len, !.is_dirty = TRUE]

insert_row(pg, len, txn) == IF HasRoom(pg, len) THEN WithRow(pg, len, txn) ELSE pg

Expired(pg, slot, txn) ==
  [pg EXCEPT !.slots = [@ EXCEPT ![slot].expiring_txn = txn], !.is_dirty = TRUE]

delete_row(pg, slot, txn) == IF slot \in DOMAIN pg.slots THEN Expired(pg, slot, txn) ELSE pg

update_row(pg, slot, len, txn) ==
  IF slot \in DOMAIN pg.slots /\ HasRoom(pg, len) THEN WithRow(Expired(pg, slot, txn), len, txn) ELSE pg

-----------------------------------------------------------------------------
(* at: where the thread stands.  count: a statistic it has read and not yet *)
(* written back.  page: the object its last call worked on, 0 for none.     *)
(* entry: the object in the entry that flush_all's iterator stands on.      *)
Idle == [at |-> "idle", call |-> "none", page_num |-> 0, count |-> 0, page |-> 0,
         todo |-> {}, entry |-> 0, table |-> "none"]

PoolInit == /\ objects = <<>> /\ pages_ = <<>> /\ current_size_ = 0
            /\ total_hits_ = 0 /\ total_misses_ = 0
            /\ owner \in {"threads", "engine"}
            /\ th = [t \in Threads |-> Idle]
            /\ calls = 0 /\ gets = 0 /\ evicted = {}

(* pool_mutex_: readers between their lookup and their last statistic, and  *)
(* a thread whose undefined behaviour keeps the lock.                       *)
SharedHeld == \E t \in Threads : th[t].at \in {"hit", "miss"}
ExclusiveHeld == \E t \in Threads : th[t].at = "undefined"

At(t, where) == th[t].at = where
GoTo(t, where) == th' = [th EXCEPT ![t].at = where]

(* get_page returns: to its caller, or to DatabaseEngine::insert_row. *)
ReturnPage(t, p) ==
  th' = [th EXCEPT ![t].page = p, ![t].count = 0,
                   ![t].at = IF th[t].call = "insert_row" THEN "insert" ELSE "idle"]

(* First half of get_page: the lookup and the reading of a statistic. *)
Lookup(t) ==
  /\ At(t, "lookup") /\ ~ExclusiveHeld
  /\ th' = IF th[t].page_num \in DOMAIN pages_
             THEN [th EXCEPT ![t].at = "hit", ![t].count = total_hits_]
             ELSE [th EXCEPT ![t].at = "miss", ![t].count = total_misses_]
  /\ UNCHANGED <<objects, pages_, current_size_, total_hits_, total_misses_, owner, calls, gets, evicted>>

CountHit(t) ==
  /\ At(t, "hit")
  /\ \E now \in Times : pages_' = [pages_ EXCEPT ![th[t].page_num].last_access = now]
  /\ total_hits_' = th[t].count + 1
  /\ ReturnPage(t, pages_[th[t].page_num].page)
  /\ UNCHANGED <<objects, current_size_, total_misses_, owner, calls, gets, evicted>>

CountMiss(t) ==
  /\ At(t, "miss")
  /\ total_misses_' = th[t].count + 1
  /\ th' = [th EXCEPT ![t].at = "load", ![t].count = 0]
  /\ UNCHANGED <<objects, pages_, current_size_, total_hits_, owner, calls, gets, evicted>>

(* The sets of pages the loop around evict_lru may take out of pool, which  *)
(* accounts for size bytes: as many as bring it down to max_size_, each the *)
(* least recently used of those left.  Ties go by the order of the hash     *)
(* table, which may be any.                                                 *)
Victims(pool, size) ==
  LET excess == IF size > max_size_ THEN (size - max_size_ + PAGE_SIZE - 1) \div PAGE_SIZE ELSE 0
      number == IF excess < Cardinality(DOMAIN pool) THEN excess ELSE Cardinality(DOMAIN pool)
  IN  {V \in SUBSET DOMAIN pool :
         /\ Cardinality(V) = number
         /\ \A v \in V, w \in DOMAIN pool \ V : pool[v].last_access <= pool[w].last_access}

(* An eviction that forgets the size. *)
Evict_KeepsSize(t, pool, size, V) ==
  /\ pages_' = [n \in DOMAIN pool \ V |-> pool[n]]
  /\ current_size_' = size
  /\ evicted' = evicted \cup {pool[v].page : v \in V}
  /\ ReturnPage(t, pool[th[t].page_num].page)

(* An eviction that writes every victim back. *)
Evict_SavesAll(t, pool, size, V) ==
  IF V # {}
    THEN /\ GoTo(t, "undefined")
         /\ pages_' = pool /\ current_size_' = size
         /\ UNCHANGED evicted
    ELSE /\ pages_' = pool /\ current_size_' = size
         /\ UNCHANGED evicted
         /\ ReturnPage(t, pool[th[t].page_num].page)

(* evict_lru for each victim.  A dirty one is saved by save_page, which     *)
(* asks for pool_mutex_ while this thread holds it: undefined behaviour, a  *)
(* deadlock or an exception.                                                *)
Evict(t, pool, size, V) ==
  IF \E v \in V : pool[v].page <= Len(objects) /\ objects[pool[v].page].is_dirty
    THEN /\ GoTo(t, "undefined")
         /\ pages_' = pool /\ current_size_' = size
         /\ UNCHANGED evicted
    ELSE /\ pages_' = [n \in DOMAIN pool \ V |-> pool[n]]
         /\ current_size_' = size - Cardinality(V) * PAGE_SIZE
         /\ evicted' = evicted \cup {pool[v].page : v \in V}
         /\ ReturnPage(t, pool[th[t].page_num].page)

(* A new page goes into the pool, and others out. *)
MakePage(t) ==
  LET n == th[t].page_num
      new == Len(objects) + 1
  IN  /\ objects' = Append(objects, Page(n))
      /\ \E now \in Times :
           LET pool == [m \in DOMAIN pages_ \cup {n} |->
                          IF m = n THEN [page |-> new, last_access |-> now] ELSE pages_[m]]
               size == current_size_ + PAGE_SIZE
           IN  \E V \in Victims(pool, size) : Evict(t, pool, size, V)

(* A second half that does not look again. *)
Load_NoSecondLookup(t) ==
  /\ At(t, "load") /\ ~SharedHeld /\ ~ExclusiveHeld
  /\ MakePage(t)
  /\ UNCHANGED <<total_hits_, total_misses_, owner, calls, gets>>

(* Second half of get_page, under the exclusive lock: the page may have     *)
(* arrived in between.                                                      *)
Load(t) ==
  /\ At(t, "load") /\ ~SharedHeld /\ ~ExclusiveHeld
  /\ IF th[t].page_num \in DOMAIN pages_
       THEN /\ ReturnPage(t, pages_[th[t].page_num].page)
            /\ UNCHANGED <<objects, pages_, current_size_, evicted>>
       ELSE MakePage(t)
  /\ UNCHANGED <<total_hits_, total_misses_, owner, calls, gets>>

(* save_page: the lookup under the shared lock, ... *)
SaveLookup(t) ==
  /\ At(t, "save_lookup") /\ ~ExclusiveHeld
  /\ LET n == th[t].page_num
         found == n \in DOMAIN pages_
         after == IF th[t].call = "flush_all" THEN "flush" ELSE "idle"
     IN  th' = [th EXCEPT ![t].at = IF found THEN "save" ELSE after,
                          ![t].page = IF found THEN pages_[n].page ELSE @]
  /\ UNCHANGED <<objects, pages_, current_size_, total_hits_, total_misses_, owner, calls, gets, evicted>>

(* ... then, without it, serialize (which reaches no file) and mark_clean. *)
Save(t) ==
  /\ At(t, "save")
  /\ objects' = [objects EXCEPT ![th[t].page].is_dirty = FALSE]
  /\ GoTo(t, IF th[t].call = "flush_all" THEN "flush" ELSE "idle")
  /\ UNCHANGED <<pages_, current_size_, total_hits_, total_misses_, owner, calls, gets, evicted>>

(* flush_all: on to the next dirty page.  Clean ones are passed over under  *)
(* the lock; for a dirty one the lock is released around save_page, with    *)
(* the iterator on its entry.  When another thread evicts that entry        *)
(* meanwhile, the step to the next one is undefined.                        *)
Flush(t) ==
  /\ At(t, "flush") /\ ~ExclusiveHeld
  /\ LET dirty == {n \in th[t].todo \cap DOMAIN pages_ : objects[pages_[n].page].is_dirty}
         gone == th[t].entry # 0 /\ ~\E n \in DOMAIN pages_ : pages_[n].page = th[t].entry
     IN  IF gone THEN GoTo(t, "undefined")
         ELSE IF dirty = {}
           THEN th' = [th EXCEPT ![t].at = "idle", ![t].todo = {}, ![t].entry = 0]
           ELSE \E n \in dirty :
                  th' = [th EXCEPT ![t].at = "save_lookup", ![t].page_num = n,
                                   ![t].todo = @ \ {n}, ![t].entry = pages_[n].page]
  /\ UNCHANGED <<objects, pages_, current_size_, total_hits_, total_misses_, owner, calls, gets, evicted>>

PoolStep(t) == Lookup(t) \/ CountHit(t) \/ CountMiss(t) \/ Load(t) \/ SaveLookup(t) \/ Save(t) \/ Flush(t)

-----------------------------------------------------------------------------
(* The calls of threads that use a pool of their own. *)
MayCall(t) == /\ owner = "threads" /\ At(t, "idle") /\ calls < MaxCalls
              /\ calls' = calls + 1
              /\ UNCHANGED <<pages_, current_size_, total_hits_, total_misses_, owner, evicted>>

get_page(t, n) == /\ MayCall(t)
                  /\ th' = [th EXCEPT ![t].at = "lookup", ![t].call = "get_page", ![t].page_num = n]
                  /\ gets' = gets + 1
                  /\ UNCHANGED objects

save_page(t, n) == /\ MayCall(t)
                   /\ th' = [th EXCEPT ![t].at = "save_lookup", ![t].call = "save_page", ![t].page_num = n]
                   /\ UNCHANGED <<objects, gets>>

flush_all(t) == /\ MayCall(t)
                /\ th' = [th EXCEPT ![t].at = "flush", ![t].call = "flush_all", ![t].todo = PageNums]
                /\ UNCHANGED <<objects, gets>>

(* A thread changes the page it was given, in the pool or not. *)
ChangePage(t) ==
  /\ MayCall(t) /\ th[t].page # 0
  /\ \E pg \in {insert_row(objects[th[t].page], len, 1) : len \in RowLengths}
            \cup {update_row(objects[th[t].page], 1, len, 2) : len \in RowLengths}
            \cup {delete_row(objects[th[t].page], 1, 2)} :
       objects' = [objects EXCEPT ![th[t].page] = pg]
  /\ UNCHANGED <<th, gets>>

PoolCall(t) == \/ \E n \in PageNums : get_page(t, n) \/ save_page(t, n)
               \/ flush_all(t)
               \/ ChangePage(t)

-----------------------------------------------------------------------------
(* The pool's size is what its pages occupy, and within the limit, whatever *)
(* threads load, hit and evict in between: the loop around evict_lru stops  *)
(* by this number alone.                                                    *)
PoolAccounting == /\ current_size_ = PAGE_SIZE * Cardinality(DOMAIN pages_)
                  /\ ~ExclusiveHeld => current_size_ <= max_size_

(* Two threads that miss the same page at once get the same object: a Page  *)
(* that was made is the one in the pool, unless evict_lru took it out.      *)
OnlyEvictionDetaches ==
  \A i \in 1..Len(objects) : i \in evicted <=> ~\E n \in DOMAIN pages_ : pages_[n].page = i

(* The constructor puts the first row behind a slot directory larger than   *)
(* the page, so no page ever takes a row or becomes dirty; and that alone   *)
(* keeps evict_lru from asking for the lock it holds.                       *)
NothingToSave == /\ \A i \in 1..Len(objects) : ~objects[i].is_dirty /\ objects[i].slots = <<>>
                 /\ ~ExclusiveHeld

(* Every call returns: nobody waits for a lock that is never released. *)
EveryCallReturns == \A t \in Threads : ~At(t, "idle") ~> At(t, "idle")
=============================================================================
