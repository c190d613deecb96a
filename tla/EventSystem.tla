---------------------------- MODULE EventSystem ----------------------------
(***************************************************************************)
(* EventSystem of src/src/advanced_features.cpp.  raise_event,             *)
(* register_handler and process_events hold event_mutex_ for their whole   *)
(* body, so one call is one step; detect_cycle (EventCycles) takes no lock *)
(* and is modelled between the calls of the others.  process_events holds  *)
(* the mutex while it runs the handlers, too.  A handler that throws ends  *)
(* it: the mutex is released, and the event, which is off the queue by     *)
(* then, is never marked.  A handler that raises an event locks a mutex    *)
(* its own thread holds, which is undefined: std::shared_mutex waits for   *)
(* ever, so that no later call begins, or throws std::system_error.        *)
(*                                                                         *)
(* depth is assigned only when the parent is known: for any other event it *)
(* is whatever the memory held.  total_events_ is next_event_id_ - 1 and   *)
(* is left out, as are the fields of an event that nothing reads.          *)
(***************************************************************************)
EXTENDS Integers, Sequences, FiniteSets

CONSTANTS EventTypes,
          MAX_EVENT_DEPTH,
          DepthModulus,    \* depth is an unsigned integer below this
          MaxEvents,       \* bound on the calls of raise_event
          MaxHandlers      \* bound on the handlers

ASSUME DepthAssumption == /\ MAX_EVENT_DEPTH \in Nat
                          /\ DepthModulus \in Nat
                          /\ MAX_EVENT_DEPTH + 1 < DepthModulus
ASSUME BoundsAssumption == MaxEvents \in Nat /\ MaxHandlers \in Nat

VARIABLES events_,           \* the map from id to event
          event_queue_,
          handlers_,
          next_event_id_,
          cascaded_events_,
          stuck,             \* a handler waits for the mutex of its own thread
          lost,              \* history: the events whose handlers did not all return
          level,             \* history: how far an event is from the root of its cascade
          seed               \* history: the depth that root happened to have

eventVars == <<events_, event_queue_, handlers_, next_event_id_, cascaded_events_,
               stuck, lost, level, seed>>

EventInit == /\ events_ = [id \in {} |-> 0]
             /\ event_queue_ = <<>>
             /\ handlers_ = <<>>
             /\ next_event_id_ = 1
             /\ cascaded_events_ = 0
             /\ stuck = FALSE
             /\ lost = {}
             /\ level = [id \in {} |-> 0]
             /\ seed = [id \in {} |-> 0]

Event(type, depth) ==
  [event_type |-> type, depth |-> depth, child_events |-> <<>>, processed |-> FALSE]

-----------------------------------------------------------------------------
(* events_[id] = event *)
With(id, event, map) == [e \in DOMAIN map \cup {id} |-> IF e = id THEN event ELSE map[e]]

(* The event is stored before its parent is looked up. *)
RaiseRoot_StoredFirst(type, parent) ==
  LET id == next_event_id_
      root(depth) == [Event(type, depth) EXCEPT !.child_events = IF parent = id THEN <<id>> ELSE <<>>]
  IN  /\ parent \notin DOMAIN events_
      /\ \E depth \in 0..(DepthModulus - 1) : /\ events_' = With(id, root(depth), events_)
                                              /\ seed' = With(id, depth, seed)
      /\ event_queue_' = Append(event_queue_, id)
      /\ level' = With(id, 0, level)
      /\ UNCHANGED cascaded_events_

(* An event without a known parent.  Its depth is uninitialised. *)
RaiseRoot(type, parent) ==
  LET id == next_event_id_
  IN  /\ parent \notin DOMAIN events_
      /\ \E depth \in 0..(DepthModulus - 1) : /\ events_' = With(id, Event(type, depth), events_)
                                              /\ seed' = With(id, depth, seed)
      /\ event_queue_' = Append(event_queue_, id)
      /\ level' = With(id, 0, level)
      /\ UNCHANGED cascaded_events_

ChildDepth(parent) == (events_[parent].depth + 1) % DepthModulus

(* The limit is off by one. *)
BelowLimit_Late(parent) == ChildDepth(parent) <= MAX_EVENT_DEPTH + 1

BelowLimit(parent) == ChildDepth(parent) <= MAX_EVENT_DEPTH

(* A child within the depth limit is linked to its parent. *)
RaiseChild(type, parent) ==
  LET id == next_event_id_
      linked == [events_ EXCEPT ![parent].child_events = Append(@, id)]
  IN  /\ parent \in DOMAIN events_
      /\ BelowLimit(parent)
      /\ events_' = With(id, Event(type, ChildDepth(parent)), linked)
      /\ event_queue_' = Append(event_queue_, id)
      /\ level' = With(id, level[parent] + 1, level)
      /\ seed' = With(id, seed[parent], seed)
      /\ cascaded_events_' = cascaded_events_ + 1

(* A child beyond the limit: the id is used up, nothing else is stored. *)
RaiseRefused(parent) ==
  /\ parent \in DOMAIN events_
  /\ ~BelowLimit(parent)
  /\ UNCHANGED <<events_, event_queue_, level, seed, cascaded_events_>>

raise_event(type, parent) ==
  /\ ~stuck
  /\ next_event_id_ <= MaxEvents
  /\ next_event_id_' = next_event_id_ + 1
  /\ \/ RaiseRoot(type, parent)
     \/ RaiseChild(type, parent)
     \/ RaiseRefused(parent)
  /\ UNCHANGED <<handlers_, stuck, lost>>

(* What a handler does when it is called. *)
Outcomes == {"returns", "raises", "throws"}

register_handler(type, does) ==
  /\ ~stuck
  /\ Len(handlers_) < MaxHandlers
  /\ handlers_' = Append(handlers_, [event_type |-> type, does |-> does])
  /\ UNCHANGED <<events_, event_queue_, next_event_id_, cascaded_events_, stuck, lost, level, seed>>

(* The handlers of the event that do not return, and the one called first. *)
Failing(id) == {h \in 1..Len(handlers_) : /\ handlers_[h].event_type = events_[id].event_type
                                          /\ handlers_[h].does # "returns"}
FirstFailing(id) == {h \in Failing(id) : \A g \in Failing(id) : h <= g}

(* An event without a handler is skipped and never marked. *)
Processed_IfHandled(done) ==
  [id \in DOMAIN events_ |->
     IF id \in done /\ \E h \in 1..Len(handlers_) : handlers_[h].event_type = events_[id].event_type
     THEN [events_[id] EXCEPT !.processed = TRUE] ELSE events_[id]]

Processed(done) ==
  [id \in DOMAIN events_ |->
     IF id \in done THEN [events_[id] EXCEPT !.processed = TRUE] ELSE events_[id]]

(* The first n events of the queue are processed; event n + 1, if there is *)
(* one, is off the queue when its handler throws or waits for ever.        *)
process_events ==
  /\ ~stuck
  /\ \E n \in 0..Len(event_queue_) :
       LET done == {event_queue_[i] : i \in 1..n}
           next == event_queue_[n + 1]
       IN  /\ \A id \in done : Failing(id) = {}
           /\ event_queue_' = SubSeq(event_queue_, n + 2, Len(event_queue_))
           /\ events_' = Processed(done)
           /\ \/ n = Len(event_queue_) /\ UNCHANGED <<stuck, lost>>
              \/ /\ n < Len(event_queue_)
                 /\ \E h \in FirstFailing(next) :
                      stuck' \in IF handlers_[h].does = "raises" THEN BOOLEAN ELSE {FALSE}
                 /\ lost' = lost \cup {next}
  /\ UNCHANGED <<handlers_, next_event_id_, cascaded_events_, level, seed>>

EventNext ==
  \/ \E type \in EventTypes, parent \in 0..MaxEvents : raise_event(type, parent)
  \/ \E type \in EventTypes, does \in Outcomes : register_handler(type, does)
  \/ process_events

EventSpec == EventInit /\ [][EventNext]_eventVars

-----------------------------------------------------------------------------
EventRecords == [event_type : EventTypes, depth : 0..(DepthModulus - 1),
                 child_events : Seq(Nat), processed : BOOLEAN]

(* The maps, the queue and the counters of the event system have their     *)
(* types, whatever the uninitialised depths were, and the queue holds ids  *)
(* of stored events only.                                                  *)
EventTypeOK ==
  /\ next_event_id_ \in Nat \ {0}
  /\ DOMAIN events_ \subseteq 1..(next_event_id_ - 1)
  /\ events_ \in [DOMAIN events_ -> EventRecords]
  /\ level \in [DOMAIN events_ -> Nat]
  /\ seed \in [DOMAIN events_ -> 0..(DepthModulus - 1)]
  /\ event_queue_ \in Seq(DOMAIN events_)
  /\ handlers_ \in Seq([event_type : EventTypes, does : Outcomes])
  /\ cascaded_events_ \in Nat
  /\ stuck \in BOOLEAN
  /\ lost \subseteq DOMAIN events_

(* The depth check of raise_event bounds every cascade by what the memory  *)
(* of its root held, although the sum wraps: below a root of depth d the   *)
(* levels have the depths (d + 1) % DepthModulus and up, without another   *)
(* wrap, and none beyond MAX_EVENT_DEPTH.  A root of depth 0 has           *)
(* MAX_EVENT_DEPTH levels below it, any other has fewer, but one: the      *)
(* greatest number wraps to 0 and gives one level more.                    *)
CascadeBounded ==
  \A id \in DOMAIN events_ : level[id] > 0 =>
    level[id] + ((seed[id] + 1) % DepthModulus) <= MAX_EVENT_DEPTH + 1

(* The limit as it is documented ("MAX_DEPTH=15"): raise_event refuses     *)
(* every event that is more than MAX_EVENT_DEPTH steps from its root.      *)
DepthCapEnforced == \A id \in DOMAIN events_ : level[id] <= MAX_EVENT_DEPTH

(* raise_event and process_events repeat nothing, and lose an event only   *)
(* to a handler that does not return: an event is in the queue once until  *)
(* it is processed and never afterwards, unless a handler of its type      *)
(* threw or blocked when it was its turn.                                  *)
QueuedUntilProcessed ==
  /\ \A i, j \in 1..Len(event_queue_) : i # j => event_queue_[i] # event_queue_[j]
  /\ LET open == {id \in DOMAIN events_ : ~events_[id].processed}
     IN  /\ {event_queue_[i] : i \in 1..Len(event_queue_)} = open \ lost
         /\ lost \subseteq open
  /\ \A id \in lost : Failing(id) # {}
  /\ stuck => lost # {}
=============================================================================
