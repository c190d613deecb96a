------------------------------ MODULE MCStorage ------------------------------
(***************************************************************************)
(* What stores rows: the buffer pool with its engine, the slotted page,    *)
(* the log readers and the row cache.  They share no state, so each        *)
(* behaviour exercises one of them: part says which.                       *)
(***************************************************************************)
EXTENDS StorageEngine, StoragePage, HardenedWAL, MCRowCache

VARIABLE part

vars == <<storageVars, pageVars, logVars, cacheVars, part>>

(* Empty, short, and one that fills the payload area. *)
MCRowBytes == {<<>>, <<5>>, <<6, 255>>, <<1, 2, 3, 4, 5, 6, 7, 8>>}
MCLogData == {<<>>, <<9>>}

Init == /\ StorageInit /\ PageInit /\ LogInit /\ CacheInit
        /\ part \in {"storage", "page", "log", "cache"}
        /\ owner = "engine" => part = "storage"
        /\ ~exists => part = "log"

Next == \/ part = "storage" /\ StorageNext /\ UNCHANGED <<pageVars, logVars, cacheVars, part>>
        \/ part = "page" /\ PageNext /\ UNCHANGED <<storageVars, logVars, cacheVars, part>>
        \/ part = "log" /\ LogNext /\ UNCHANGED <<storageVars, pageVars, cacheVars, part>>
        \/ part = "cache" /\ CacheNext /\ UNCHANGED <<storageVars, pageVars, logVars, part>>

(* A thread whose next step is possible takes it; calls need not be made. *)
Fairness == \A t \in Threads :
  WF_vars(part = "storage" /\ ThreadStep(t) /\ UNCHANGED <<pageVars, logVars, cacheVars, part>>)

Spec == Init /\ [][Next]_vars /\ Fairness
=============================================================================
