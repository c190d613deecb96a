---------------------------- MODULE StorageEngine ----------------------------
(***************************************************************************)
(* SchemaManager and DatabaseEngine of src/src/storage_engine_production.  *)
(* cpp on top of BufferPool.  The engine owns its pool and keeps db_mutex_ *)
(* for the whole of a call, so that only one of its threads is inside the  *)
(* pool.  A table's id is also the number of its only page.                *)
(***************************************************************************)
EXTENDS BufferPool

CONSTANTS Tables      \* table names

VARIABLES schemas_,         \* table name -> table_id
          next_table_id_,
          db_mutex_,        \* the thread that holds it, or Nobody
          rows              \* total_rows_inserted_, _updated_, _deleted_

Nobody == "nobody"
engineVars == <<schemas_, next_table_id_, db_mutex_, rows>>
storageVars == <<poolVars, engineVars>>

ASSUME EngineAssumption == Nobody \notin Threads

StorageInit == /\ PoolInit
               /\ schemas_ = <<>> /\ next_table_id_ = 1
               /\ db_mutex_ = Nobody
               /\ rows = [inserted |-> 0, updated |-> 0, deleted |-> 0]

(* A thread calls the engine and waits for db_mutex_. *)
EngineCall(t, c, name) ==
  /\ owner = "engine" /\ At(t, "idle") /\ calls < MaxCalls
  /\ calls' = calls + 1
  /\ th' = [th EXCEPT ![t].at = "db_wait", ![t].call = c, ![t].table = name]
  /\ UNCHANGED <<objects, pages_, current_size_, total_hits_, total_misses_, owner, gets, evicted, engineVars>>

(* The calls that finish under the lock without the pool. *)
ReturnAtOnce(t) == /\ th' = [th EXCEPT ![t].at = "idle", ![t].table = "none"]
                   /\ UNCHANGED <<objects, pages_, current_size_, total_hits_, total_misses_, owner,
                                  calls, gets, evicted, db_mutex_>>

Entering(t, c) == At(t, "db_wait") /\ th[t].call = c /\ db_mutex_ = Nobody

create_table(t) ==
  /\ Entering(t, "create_table")
  /\ IF th[t].table \in DOMAIN schemas_
       THEN UNCHANGED <<schemas_, next_table_id_>>
       ELSE /\ schemas_' = [n \in DOMAIN schemas_ \cup {th[t].table} |->
                              IF n = th[t].table THEN next_table_id_ ELSE schemas_[n]]
            /\ next_table_id_' = next_table_id_ + 1
  /\ ReturnAtOnce(t)
  /\ UNCHANGED rows

(* Row updates and deletes touch no row; they count. *)
CountOnly(t) ==
  /\ \/ Entering(t, "update_row") /\ rows' = [rows EXCEPT !.updated = @ + 1]
     \/ Entering(t, "delete_row") /\ rows' = [rows EXCEPT !.deleted = @ + 1]
  /\ ReturnAtOnce(t)
  /\ UNCHANGED <<schemas_, next_table_id_>>

(* An insert_row that does not keep db_mutex_ while it is in the pool. *)
InsertEnter_Unlocked(t) ==
  /\ Entering(t, "insert_row")
  /\ IF th[t].table \notin DOMAIN schemas_
       THEN ReturnAtOnce(t)
       ELSE /\ th' = [th EXCEPT ![t].at = "lookup", ![t].page_num = schemas_[th[t].table]]
            /\ gets' = gets + 1
            /\ UNCHANGED <<objects, pages_, current_size_, total_hits_, total_misses_, owner,
                           calls, evicted, db_mutex_>>
  /\ UNCHANGED <<schemas_, next_table_id_, rows>>

(* insert_row up to its call of get_page: an unknown table is refused. *)
InsertEnter(t) ==
  /\ Entering(t, "insert_row")
  /\ IF th[t].table \notin DOMAIN schemas_
       THEN ReturnAtOnce(t)
       ELSE /\ db_mutex_' = t
            /\ th' = [th EXCEPT ![t].at = "lookup", ![t].page_num = schemas_[th[t].table]]
            /\ gets' = gets + 1
            /\ UNCHANGED <<objects, pages_, current_size_, total_hits_, total_misses_, owner, calls, evicted>>
  /\ UNCHANGED <<schemas_, next_table_id_, rows>>

(* insert_row with the page it was given, which may be evicted already. *)
InsertFinish(t) ==
  /\ At(t, "insert")
  /\ \E len \in RowLengths :
       LET pg == objects[th[t].page] IN
       /\ objects' = [objects EXCEPT ![th[t].page] = insert_row(pg, len, 1)]
       /\ rows' = [rows EXCEPT !.inserted = IF HasRoom(pg, len) THEN @ + 1 ELSE @]
  /\ th' = [th EXCEPT ![t].at = "idle", ![t].table = "none"]
  /\ db_mutex_' = Nobody
  /\ UNCHANGED <<pages_, current_size_, total_hits_, total_misses_, owner, calls, gets, evicted,
                 schemas_, next_table_id_>>

(* What a thread does once its call has begun. *)
ThreadStep(t) == \/ PoolStep(t) /\ UNCHANGED engineVars
                 \/ create_table(t) \/ CountOnly(t) \/ InsertEnter(t) \/ InsertFinish(t)

StorageNext == \E t \in Threads :
  \/ ThreadStep(t)
  \/ PoolCall(t) /\ UNCHANGED engineVars
  \/ \E name \in Tables, c \in {"create_table", "insert_row", "update_row", "delete_row"} :
       EngineCall(t, c, name)

StorageSpec == StorageInit /\ [][StorageNext]_storageVars

-----------------------------------------------------------------------------
(* "Page Insert Tests ... passed": an insert_row that is given a page       *)
(* without rows stores its row.                                             *)
FirstInsertStored ==
  [][\A t \in Threads :
       InsertFinish(t) /\ objects[th[t].page].slots = <<>> =>
         rows'.inserted = rows.inserted + 1]_storageVars

AllIdle == \A t \in Threads : At(t, "idle")

(* The statistics never count a call twice, though threads may overwrite    *)
(* each other's increments; behind the engine's lock they count every call. *)
StatisticsBounded ==
  /\ total_hits_ + total_misses_ <= gets
  /\ owner = "engine" /\ AllIdle => total_hits_ + total_misses_ = gets
=============================================================================
