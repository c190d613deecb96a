---------------------------- MODULE EventCycles ----------------------------
(***************************************************************************)
(* EventSystem::detect_cycle of src/src/advanced_features.cpp.  The set of *)
(* visited ids is passed by reference but holds on return what it held at  *)
(* the call, unless a cycle was found: it is the path from the first call. *)
(* It reads events_ without event_mutex_: what it returns while a          *)
(* raise_event runs is undefined and not modelled.                         *)
(***************************************************************************)
EXTENDS EventSystem

(* The recursion, as a function of the pair of id and visited. *)
cycle_from[p \in Nat \X SUBSET Nat] ==
  \/ p[1] \in p[2]
  \/ /\ p[1] \in DOMAIN events_
     /\ \E i \in 1..Len(events_[p[1]].child_events) :
          cycle_from[<<events_[p[1]].child_events[i], p[2] \cup {p[1]}>>]

detect_cycle(id, visited) == cycle_from[<<id, visited>>]

(* Parents are looked up before the event is stored, so the child links    *)
(* that raise_event records never close a cycle and detect_cycle has       *)
(* nothing to find, from whatever event it starts.                         *)
NeverCyclic == \A id \in DOMAIN events_ : ~detect_cycle(id, {})
=============================================================================
