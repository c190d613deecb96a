----------------------- MODULE AdvancedFeatures_proofs -----------------------
(***************************************************************************)
(* For every depth limit, every width of depth and any number of events    *)
(* and handlers: the event system keeps its types, the depth check bounds  *)
(* every cascade by the uninitialised depth of its root, an event is lost  *)
(* only to a handler that does not return, and detect_cycle never finds a  *)
(* cycle.  For any rows, people and levels: the approval states of a       *)
(* declared intent table stay in step with the approvals given.            *)
(* For every graph: both traversals reach what can be reached, each node   *)
(* once, and the propagated cost charges each of them once.                *)
(***************************************************************************)
EXTENDS EventCycles, DeclaredIntentTable, GraphEngine, SequenceTheorems, FiniteSetTheorems,
        WellFoundedInduction, TLAPS

(* What ties the stored depth to the true one: the root's depth is its     *)
(* seed; below the root the depth has passed the limit check, and it       *)
(* counts the levels from the seed, which wraps only in the step from the  *)
(* root.                                                                   *)
DepthTracksLevel ==
  \A id \in DOMAIN events_ :
    /\ level[id] = 0 => events_[id].depth = seed[id]
    /\ level[id] > 0 => /\ events_[id].depth <= MAX_EVENT_DEPTH
                        /\ level[id] + ((seed[id] + 1) % DepthModulus) = events_[id].depth + 1

IInv == EventTypeOK /\ DepthTracksLevel

(* A remainder is smaller than its divisor. *)
LEMMA ModRange == ASSUME NEW x \in Nat, NEW m \in Nat, m > 0 PROVE x % m \in 0..(m - 1)
  OBVIOUS

(* A number below the divisor is its own remainder. *)
LEMMA ModSmall == ASSUME NEW x \in Nat, NEW m \in Nat, x < m PROVE x % m = x
  OBVIOUS

(* The initial state. *)
LEMMA InitInv == EventInit => IInv
<1> SUFFICES ASSUME EventInit PROVE IInv
  OBVIOUS
<1>1. DOMAIN events_ = {} /\ DOMAIN level = {} /\ events_ \in [{} -> EventRecords]
      /\ level \in [{} -> Nat] /\ seed \in [{} -> 0..(DepthModulus - 1)] /\ lost = {}
  BY DEF EventInit
<1>2. event_queue_ \in Seq(DOMAIN events_) /\ handlers_ \in Seq([event_type : EventTypes, does : Outcomes])
  BY DEF EventInit
<1>3. EventTypeOK
  <2>1. next_event_id_ \in Nat \ {0} /\ cascaded_events_ \in Nat BY DEF EventInit
  <2>2. stuck \in BOOLEAN BY DEF EventInit
  <2>3. DOMAIN events_ \subseteq 1..(next_event_id_ - 1) BY <1>1
  <2>4. /\ events_ \in [DOMAIN events_ -> EventRecords] /\ level \in [DOMAIN events_ -> Nat]
        /\ seed \in [DOMAIN events_ -> 0..(DepthModulus - 1)] /\ lost \subseteq DOMAIN events_
    BY <1>1
  <2> QED BY <1>2, <2>1, <2>2, <2>3, <2>4 DEF EventTypeOK
<1>4. DepthTracksLevel
  BY <1>1 DEF DepthTracksLevel
<1> QED BY <1>3, <1>4 DEF IInv

(* A new event record has its type. *)
LEMMA EventType ==
  ASSUME NEW type \in EventTypes, NEW depth \in 0..(DepthModulus - 1)
  PROVE  Event(type, depth) \in EventRecords
  BY DEF Event, EventRecords

(* raise_event, when the parent is unknown. *)
LEMMA RootInv ==
  ASSUME IInv, NEW type \in EventTypes, NEW parent, RaiseRoot(type, parent),
         next_event_id_' = next_event_id_ + 1, UNCHANGED <<handlers_, stuck, lost>>
  PROVE  IInv'
<1>1. PICK depth \in 0..(DepthModulus - 1) :
        /\ events_' = With(next_event_id_, Event(type, depth), events_)
        /\ seed' = With(next_event_id_, depth, seed)
  BY DEF RaiseRoot
<1> DEFINE id == next_event_id_
<1>2. id \notin DOMAIN events_ /\ id \in Nat
  BY DEF IInv, EventTypeOK
<1>3. /\ events_' \in [DOMAIN events_ \cup {id} -> EventRecords]
      /\ DOMAIN events_' = DOMAIN events_ \cup {id}
      /\ \A e \in DOMAIN events_ : events_'[e] = events_[e]
      /\ events_'[id].depth = depth
  <2>1. Event(type, depth) \in EventRecords /\ Event(type, depth).depth = depth
    BY EventType DEF Event
  <2> QED BY <1>1, <1>2, <2>1 DEF With, IInv, EventTypeOK
<1>4. /\ level' \in [DOMAIN events_ \cup {id} -> Nat]
      /\ level'[id] = 0
      /\ \A e \in DOMAIN events_ : level'[e] = level[e]
  <2>1. level' = With(id, 0, level) /\ DOMAIN level = DOMAIN events_ /\ level \in [DOMAIN level -> Nat]
    BY DEF RaiseRoot, IInv, EventTypeOK
  <2> QED BY <2>1, <1>2 DEF With
<1>8. /\ seed' \in [DOMAIN events_ \cup {id} -> 0..(DepthModulus - 1)]
      /\ seed'[id] = depth
      /\ \A e \in DOMAIN events_ : seed'[e] = seed[e]
  <2>1. DOMAIN seed = DOMAIN events_ /\ seed \in [DOMAIN seed -> 0..(DepthModulus - 1)]
    BY DEF IInv, EventTypeOK
  <2> QED BY <1>1, <1>2, <2>1 DEF With
<1>5. event_queue_' \in Seq(DOMAIN events_')
  BY <1>3 DEF RaiseRoot, IInv, EventTypeOK
<1>6. EventTypeOK'
  <2>1. DOMAIN events_' \subseteq 1..(next_event_id_' - 1)
    BY <1>3 DEF IInv, EventTypeOK
  <2>2. lost' \subseteq DOMAIN events_'
    BY <1>3 DEF IInv, EventTypeOK
  <2>3. cascaded_events_' \in Nat /\ next_event_id_' \in Nat \ {0}
    BY DEF RaiseRoot, IInv, EventTypeOK
  <2>4. handlers_' \in Seq([event_type : EventTypes, does : Outcomes]) /\ stuck' \in BOOLEAN
    <3>1. handlers_ \in Seq([event_type : EventTypes, does : Outcomes]) /\ stuck \in BOOLEAN
      BY DEF IInv, EventTypeOK
    <3> QED BY <3>1
  <2>5. /\ events_' \in [DOMAIN events_' -> EventRecords] /\ level' \in [DOMAIN events_' -> Nat]
        /\ seed' \in [DOMAIN events_' -> 0..(DepthModulus - 1)]
    BY <1>3, <1>4, <1>8
  <2> QED BY <2>1, <2>2, <2>3, <2>4, <2>5, <1>5 DEF EventTypeOK
<1>7. DepthTracksLevel'
  BY <1>3, <1>4, <1>8 DEF IInv, DepthTracksLevel
<1> QED BY <1>6, <1>7 DEF IInv

(* raise_event within the limit: the case the bound is about.  A parent    *)
(* that is a root may have any depth, and the child then starts at 0 or    *)
(* above; any other parent passed the check, so its depth cannot wrap.     *)
LEMMA ChildInv ==
  ASSUME IInv, NEW type \in EventTypes, NEW parent, RaiseChild(type, parent),
         next_event_id_' = next_event_id_ + 1, UNCHANGED <<handlers_, stuck, lost>>
  PROVE  IInv'
<1> DEFINE id == next_event_id_
           depth == ChildDepth(parent)
           linked == [events_ EXCEPT ![parent].child_events = Append(@, id)]
<1>1. /\ parent \in DOMAIN events_ /\ depth <= MAX_EVENT_DEPTH
      /\ events_' = With(id, Event(type, depth), linked)
      /\ level' = With(id, level[parent] + 1, level)
      /\ seed' = With(id, seed[parent], seed)
  BY DEF RaiseChild, BelowLimit
<1>2. id \notin DOMAIN events_ /\ id \in Nat
  BY DEF IInv, EventTypeOK
<1>3. events_[parent].depth \in 0..(DepthModulus - 1) /\ level[parent] \in Nat
  BY <1>1 DEF IInv, EventTypeOK, EventRecords
<1>4. depth \in 0..(DepthModulus - 1)
  <2>1. events_[parent].depth + 1 \in Nat BY <1>3, DepthAssumption
  <2> QED BY <2>1, ModRange, DepthAssumption DEF ChildDepth
<1>5. /\ linked \in [DOMAIN events_ -> EventRecords]
      /\ \A e \in DOMAIN events_ : linked[e].depth = events_[e].depth
  <2>1. Append(events_[parent].child_events, id) \in Seq(Nat)
    BY <1>1, <1>2 DEF IInv, EventTypeOK, EventRecords
  <2> QED BY <2>1, <1>1 DEF IInv, EventTypeOK, EventRecords
<1>6. /\ events_' \in [DOMAIN events_ \cup {id} -> EventRecords]
      /\ DOMAIN events_' = DOMAIN events_ \cup {id}
      /\ events_'[id].depth = depth
      /\ \A e \in DOMAIN events_ : events_'[e].depth = events_[e].depth
  <2>1. Event(type, depth) \in EventRecords /\ Event(type, depth).depth = depth
    BY <1>4, EventType DEF Event
  <2>2. DOMAIN linked = DOMAIN events_ OBVIOUS
  <2>3. /\ events_' \in [DOMAIN linked \cup {id} -> EventRecords]
        /\ DOMAIN events_' = DOMAIN linked \cup {id}
        /\ events_'[id] = Event(type, depth)
        /\ \A e \in DOMAIN linked \ {id} : events_'[e] = linked[e]
    <3> HIDE DEF linked, depth, id
    <3> QED BY <1>1, <1>5, <2>1, <2>2 DEF With
  <2> QED BY <2>1, <2>2, <2>3, <1>2, <1>5
<1>7. /\ level' \in [DOMAIN events_ \cup {id} -> Nat]
      /\ level'[id] = level[parent] + 1
      /\ \A e \in DOMAIN events_ : level'[e] = level[e]
  <2>1. DOMAIN level = DOMAIN events_ /\ level \in [DOMAIN level -> Nat]
    BY DEF IInv, EventTypeOK
  <2>2. level[parent] + 1 \in Nat BY <1>3
  <2> QED BY <1>1, <2>1, <2>2, <1>2 DEF With
<1>11. /\ seed' \in [DOMAIN events_ \cup {id} -> 0..(DepthModulus - 1)]
       /\ seed'[id] = seed[parent] /\ seed[parent] \in 0..(DepthModulus - 1)
       /\ \A e \in DOMAIN events_ : seed'[e] = seed[e]
  <2>1. DOMAIN seed = DOMAIN events_ /\ seed \in [DOMAIN seed -> 0..(DepthModulus - 1)]
    BY DEF IInv, EventTypeOK
  <2> QED BY <1>1, <1>2, <2>1 DEF With
<1>8. EventTypeOK'
  <2>1. DOMAIN events_' \subseteq 1..(next_event_id_' - 1)
    BY <1>6 DEF IInv, EventTypeOK
  <2>2. event_queue_' \in Seq(DOMAIN events_')
    BY <1>6 DEF RaiseChild, IInv, EventTypeOK
  <2>3. cascaded_events_' \in Nat /\ next_event_id_' \in Nat \ {0}
    BY DEF RaiseChild, IInv, EventTypeOK
  <2>4. lost' \subseteq DOMAIN events_'
    BY <1>6 DEF IInv, EventTypeOK
  <2>5. handlers_' \in Seq([event_type : EventTypes, does : Outcomes]) /\ stuck' \in BOOLEAN
    <3>1. handlers_ \in Seq([event_type : EventTypes, does : Outcomes]) /\ stuck \in BOOLEAN
      BY DEF IInv, EventTypeOK
    <3> QED BY <3>1
  <2>6. /\ events_' \in [DOMAIN events_' -> EventRecords] /\ level' \in [DOMAIN events_' -> Nat]
        /\ seed' \in [DOMAIN events_' -> 0..(DepthModulus - 1)]
    BY <1>6, <1>7, <1>11
  <2> QED BY <2>1, <2>2, <2>3, <2>4, <2>5, <2>6 DEF EventTypeOK
<1>9. level'[id] + ((seed'[id] + 1) % DepthModulus) = events_'[id].depth + 1
  <2> DEFINE first == (seed[parent] + 1) % DepthModulus
  <2>0. first \in Nat
    <3>1. seed[parent] + 1 \in Nat
      BY <1>11, DepthAssumption
    <3> QED BY <3>1, ModRange, DepthAssumption
  <2>1. CASE level[parent] = 0
    <3>1. depth = first
      BY <1>1, <2>1 DEF IInv, DepthTracksLevel, ChildDepth
    <3> HIDE DEF first, depth
    <3>2. level'[id] = 1 /\ events_'[id].depth = depth
      BY <1>6, <1>7, <2>1
    <3>3. (seed'[id] + 1) % DepthModulus = first
      BY <1>11 DEF first
    <3> QED BY <2>0, <3>1, <3>2, <3>3
  <2>2. CASE level[parent] > 0
    <3>1. /\ events_[parent].depth <= MAX_EVENT_DEPTH
          /\ level[parent] + first = events_[parent].depth + 1
      BY <2>2, <1>1 DEF IInv, DepthTracksLevel
    <3>2. events_[parent].depth + 1 < DepthModulus /\ events_[parent].depth + 1 \in Nat
      BY <3>1, <1>3, DepthAssumption
    <3>3. depth = events_[parent].depth + 1
      BY <3>2, ModSmall, DepthAssumption DEF ChildDepth
    <3>4. (seed'[id] + 1) % DepthModulus = first
      BY <1>11
    <3> HIDE DEF first, depth
    <3> QED BY <2>0, <3>1, <3>3, <3>4, <1>3, <1>6, <1>7
  <2> QED BY <2>1, <2>2, <1>3
<1>10. DepthTracksLevel'
  <2> SUFFICES ASSUME NEW e \in DOMAIN events_'
               PROVE  /\ level'[e] = 0 => events_'[e].depth = seed'[e]
                      /\ level'[e] > 0 =>
                           /\ events_'[e].depth <= MAX_EVENT_DEPTH
                           /\ level'[e] + ((seed'[e] + 1) % DepthModulus) = events_'[e].depth + 1
    BY DEF DepthTracksLevel
  <2>1. CASE e = id
    <3>1. level'[id] # 0 /\ events_'[id].depth <= MAX_EVENT_DEPTH
      BY <1>1, <1>3, <1>6, <1>7
    <3> QED BY <1>9, <2>1, <3>1
  <2>2. CASE e \in DOMAIN events_
    <3>1. level'[e] = level[e] /\ seed'[e] = seed[e] /\ events_'[e].depth = events_[e].depth
      BY <1>6, <1>7, <1>11, <2>2
    <3> QED BY <2>2, <3>1 DEF IInv, DepthTracksLevel
  <2> QED BY <1>6, <2>1, <2>2
<1> QED BY <1>8, <1>10 DEF IInv

(* process_events takes events off the queue and marks them. *)
LEMMA ProcessInv == ASSUME IInv, process_events PROVE IInv'
<1>1. PICK n \in 0..Len(event_queue_) :
        /\ event_queue_' = SubSeq(event_queue_, n + 2, Len(event_queue_))
        /\ events_' = Processed({event_queue_[i] : i \in 1..n})
        /\ stuck' \in BOOLEAN
        /\ \/ lost' = lost
           \/ n < Len(event_queue_) /\ lost' = lost \cup {event_queue_[n + 1]}
  <2>1. stuck \in BOOLEAN BY DEF IInv, EventTypeOK
  <2> QED BY <2>1 DEF process_events
<1>2. /\ events_' \in [DOMAIN events_ -> EventRecords]
      /\ DOMAIN events_' = DOMAIN events_
      /\ \A e \in DOMAIN events_ : events_'[e].depth = events_[e].depth
  BY <1>1 DEF Processed, IInv, EventTypeOK, EventRecords
<1>3. event_queue_' \in Seq(DOMAIN events_)
  <2>0. event_queue_ \in Seq(DOMAIN events_)
    BY DEF IInv, EventTypeOK
  <2>2. n \in Nat /\ n + 2 \in Int /\ Len(event_queue_) \in Nat
    BY <2>0, LenProperties
  <2>1. \A i \in (n + 2)..Len(event_queue_) : event_queue_[i] \in DOMAIN events_
    <3>1. \A i \in (n + 2)..Len(event_queue_) : i \in 1..Len(event_queue_)
      BY <2>2
    <3> QED BY <2>0, <3>1, ElementOfSeq
  <2> QED BY <1>1, <2>0, <2>1, <2>2, SubSeqProperties
<1>4. EventTypeOK'
  <2>1. stuck' \in BOOLEAN BY <1>1
  <2>2. UNCHANGED <<handlers_, next_event_id_, cascaded_events_, level, seed>> BY DEF process_events
  <2>3. lost' \subseteq DOMAIN events_'
    <3>1. lost \subseteq DOMAIN events_ /\ event_queue_ \in Seq(DOMAIN events_)
      BY DEF IInv, EventTypeOK
    <3>2. n < Len(event_queue_) => event_queue_[n + 1] \in DOMAIN events_
      BY <3>1
    <3> QED BY <1>1, <1>2, <3>1, <3>2
  <2> QED BY <1>2, <1>3, <2>1, <2>2, <2>3 DEF IInv, EventTypeOK
<1>5. DepthTracksLevel'
  BY <1>2 DEF process_events, IInv, DepthTracksLevel
<1> QED BY <1>4, <1>5 DEF IInv

(* The events that are not processed. *)
Open == {id \in DOMAIN events_ : ~events_[id].processed}

(* QueuedUntilProcessed when a new event goes into the map and the queue. *)
LEMMA QueueGrows ==
  ASSUME IInv, QueuedUntilProcessed, ~stuck', NEW id, id \notin DOMAIN events_,
         event_queue_' = Append(event_queue_, id), UNCHANGED <<handlers_, lost>>,
         DOMAIN events_' = DOMAIN events_ \cup {id},
         ~events_'[id].processed,
         \A e \in DOMAIN events_ : /\ events_'[e].processed = events_[e].processed
                                   /\ events_'[e].event_type = events_[e].event_type
  PROVE  QueuedUntilProcessed'
<1> DEFINE q == event_queue_
<1>1. q \in Seq(DOMAIN events_) BY DEF IInv, EventTypeOK
<1>2. /\ Len(q') = Len(q) + 1 /\ Len(q) \in Nat
      /\ q'[Len(q) + 1] = id
      /\ \A i \in 1..Len(q) : q'[i] = q[i] /\ q[i] \in DOMAIN events_
  BY <1>1
<1>3. {q[i] : i \in 1..Len(q)} = Open \ lost /\ lost \subseteq Open /\ id \notin lost
  BY DEF QueuedUntilProcessed, Open
<1>4. {q'[i] : i \in 1..Len(q')} = {q[i] : i \in 1..Len(q)} \cup {id}
  BY <1>2
<1>5. \A i, j \in 1..Len(q') : i # j => q'[i] # q'[j]
  BY <1>2 DEF QueuedUntilProcessed
<1>7. Open' = Open \cup {id}
  BY DEF Open
<1>8. {q'[i] : i \in 1..Len(q')} = Open' \ lost' /\ lost' \subseteq Open'
  BY <1>3, <1>4, <1>7
<1>9. \A e \in lost' : Failing(e)' # {}
  BY <1>3 DEF QueuedUntilProcessed, Failing, Open
<1> QED BY <1>5, <1>8, <1>9 DEF QueuedUntilProcessed, Open

(* QueuedUntilProcessed in process_events. *)
LEMMA QueueShrinks ==
  ASSUME IInv, QueuedUntilProcessed, process_events
  PROVE  QueuedUntilProcessed'
<1> DEFINE q == event_queue_
<1>1. PICK n \in 0..Len(q) :
        /\ q' = SubSeq(q, n + 2, Len(q))
        /\ events_' = Processed({q[i] : i \in 1..n})
        /\ \/ n = Len(q) /\ stuck' = stuck /\ lost' = lost
           \/ n < Len(q) /\ Failing(q[n + 1]) # {} /\ lost' = lost \cup {q[n + 1]}
  BY DEF process_events, FirstFailing
<1>2. /\ q \in Seq(DOMAIN events_) /\ Len(q) \in Nat
      /\ \A i \in 1..Len(q) : q[i] \in DOMAIN events_ /\ ~events_[q[i]].processed
      /\ \A i, j \in 1..Len(q) : i # j => q[i] # q[j]
      /\ {q[i] : i \in 1..Len(q)} = Open \ lost /\ lost \subseteq Open
      /\ ~stuck /\ handlers_' = handlers_
  <2>1. q \in Seq(DOMAIN events_) BY DEF IInv, EventTypeOK
  <2>2. ~stuck /\ handlers_' = handlers_ BY DEF process_events
  <2>3. {q[i] : i \in 1..Len(q)} = Open \ lost /\ lost \subseteq Open
    BY DEF QueuedUntilProcessed, Open
  <2>4. Len(q) \in Nat BY <2>1
  <2>5. \A i \in 1..Len(q) : q[i] \in Open
    BY <2>3
  <2>6. \A i, j \in 1..Len(q) : i # j => q[i] # q[j]
    BY DEF QueuedUntilProcessed
  <2> QED BY <2>1, <2>2, <2>3, <2>4, <2>5, <2>6 DEF Open
<1>3. /\ Len(q') = IF n + 2 <= Len(q) THEN Len(q) - n - 1 ELSE 0
      /\ \A i \in 1..(Len(q) - n - 1) : q'[i] = q[n + 1 + i]
  <2>1. \A i \in (n + 2)..Len(q) : q[i] \in DOMAIN events_ BY <1>2
  <2>2. n + 2 \in Int /\ Len(q) \in Int BY <1>2
  <2>3. /\ Len(q') = IF n + 2 <= Len(q) THEN Len(q) - (n + 2) + 1 ELSE 0
        /\ \A i \in 1..(Len(q) - (n + 2) + 1) : q'[i] = q[(n + 2) + i - 1]
    BY <1>1, <2>1, <2>2, SubSeqProperties
  <2> QED BY <2>3, <1>2
<1>4. /\ DOMAIN events_' = DOMAIN events_
      /\ \A e \in DOMAIN events_ :
           /\ events_'[e].event_type = events_[e].event_type
           /\ (~events_'[e].processed) <=> (~events_[e].processed /\ e \notin {q[i] : i \in 1..n})
  BY <1>1 DEF Processed, IInv, EventTypeOK, EventRecords
<1>5. \A i, j \in 1..Len(q') : i # j => q'[i] # q'[j]
  BY <1>2, <1>3
<1>7. {q'[i] : i \in 1..Len(q')} = {q[i] : i \in (n + 2)..Len(q)}
  <2>1. ASSUME NEW i \in 1..Len(q') PROVE q'[i] \in {q[k] : k \in (n + 2)..Len(q)}
    <3>1. n + 1 + i \in (n + 2)..Len(q) BY <1>2, <1>3
    <3> QED BY <3>1, <1>2, <1>3
  <2>2. ASSUME NEW k \in (n + 2)..Len(q) PROVE q[k] \in {q'[i] : i \in 1..Len(q')}
    <3>1. k - n - 1 \in 1..Len(q') /\ q'[k - n - 1] = q[k] BY <1>2, <1>3
    <3> QED BY <3>1
  <2> QED BY <2>1, <2>2
<1>8. Open' = Open \ {q[i] : i \in 1..n}
  BY <1>4 DEF Open
<1>9. {q'[i] : i \in 1..Len(q')} = Open' \ lost' /\ lost' \subseteq Open'
  <2>1. \A i \in 1..Len(q) : q[i] \notin lost /\ q[i] \in Open
    BY <1>2
  <2>2. CASE n = Len(q) /\ lost' = lost
    <3>1. {q[i] : i \in (n + 2)..Len(q)} = {}
      BY <1>2, <2>2
    <3> QED BY <1>2, <1>7, <1>8, <2>1, <2>2, <3>1
  <2>3. CASE n < Len(q) /\ lost' = lost \cup {q[n + 1]}
    <3>1. n + 1 \in 1..Len(q) /\ \A i \in 1..n : i \in 1..Len(q) /\ i # n + 1
      BY <1>2, <2>3
    <3>2. q[n + 1] \in Open'
      BY <1>2, <1>8, <2>1, <3>1
    <3>3. lost' \subseteq Open'
      <4>1. lost \cap {q[i] : i \in 1..n} = {}
        BY <2>1, <3>1
      <4> QED BY <1>2, <1>8, <2>3, <3>2, <4>1
    <3>4. ASSUME NEW i \in (n + 2)..Len(q)
          PROVE  q[i] \in Open' \ lost'
      <4>1. i \in 1..Len(q) /\ i # n + 1 /\ \A k \in 1..n : k # i
        BY <1>2, <3>4
      <4> QED BY <1>2, <1>8, <2>1, <2>3, <3>1, <4>1
    <3>5. ASSUME NEW e \in Open' \ lost'
          PROVE  e \in {q[i] : i \in (n + 2)..Len(q)}
      <4>1. e \in Open \ lost /\ e # q[n + 1] /\ \A k \in 1..n : e # q[k]
        BY <1>8, <2>3, <3>5
      <4>2. PICK i \in 1..Len(q) : e = q[i]
        BY <1>2, <4>1
      <4>3. i \in (n + 2)..Len(q)
        BY <1>2, <4>1, <4>2
      <4> QED BY <4>2, <4>3
    <3> QED BY <1>7, <3>3, <3>4, <3>5
  <2> QED BY <1>1, <2>2, <2>3
<1>10. ASSUME NEW e \in lost' PROVE Failing(e)' # {}
  <2>1. Failing(e) # {} /\ e \in DOMAIN events_
    <3>1. e \in lost => Failing(e) # {} /\ e \in DOMAIN events_
      BY <1>2 DEF QueuedUntilProcessed, Open
    <3>2. e \notin lost => Failing(e) # {} /\ e \in DOMAIN events_
      BY <1>1, <1>2
    <3> QED BY <3>1, <3>2
  <2>2. Failing(e)' = Failing(e)
    BY <1>2, <1>4, <2>1 DEF Failing
  <2> QED BY <2>1, <2>2
<1>11. stuck' => lost' # {}
  BY <1>1, <1>2
<1> QED BY <1>5, <1>9, <1>10, <1>11 DEF QueuedUntilProcessed, Open

(* Every step of the event system keeps the invariant. *)
LEMMA NextInv == IInv /\ [EventNext]_eventVars => IInv'
<1> SUFFICES ASSUME IInv, [EventNext]_eventVars PROVE IInv'
  OBVIOUS
<1>1. ASSUME NEW type \in EventTypes, NEW parent \in 0..MaxEvents, raise_event(type, parent)
      PROVE  IInv'
  <2>1. CASE RaiseRoot(type, parent)
    BY <1>1, <2>1, RootInv DEF raise_event
  <2>2. CASE RaiseChild(type, parent)
    BY <1>1, <2>2, ChildInv DEF raise_event
  <2>3. CASE RaiseRefused(parent)
    <3>1. EventTypeOK'
      BY <1>1, <2>3 DEF raise_event, RaiseRefused, IInv, EventTypeOK
    <3>2. DepthTracksLevel'
      BY <1>1, <2>3 DEF raise_event, RaiseRefused, IInv, DepthTracksLevel
    <3> QED BY <3>1, <3>2 DEF IInv
  <2> QED BY <1>1, <2>1, <2>2, <2>3 DEF raise_event
<1>2. ASSUME NEW type \in EventTypes, NEW does \in Outcomes, register_handler(type, does)
      PROVE  IInv'
  <2>1. handlers_' \in Seq([event_type : EventTypes, does : Outcomes])
    BY <1>2 DEF register_handler, IInv, EventTypeOK
  <2>2. EventTypeOK'
    BY <1>2, <2>1 DEF register_handler, IInv, EventTypeOK
  <2>3. DepthTracksLevel'
    BY <1>2 DEF register_handler, IInv, DepthTracksLevel
  <2> QED BY <2>2, <2>3 DEF IInv
<1>3. CASE process_events
  BY <1>3, ProcessInv
<1>4. CASE UNCHANGED eventVars
  BY <1>4 DEF eventVars, IInv, EventTypeOK, DepthTracksLevel
<1> QED BY <1>1, <1>2, <1>3, <1>4 DEF EventNext

(* EventTypeOK is an invariant of the event system. *)
THEOREM TypeCorrect == EventSpec => []EventTypeOK
<1>1. IInv => EventTypeOK BY DEF IInv
<1> QED BY InitInv, NextInv, <1>1, PTL DEF EventSpec

(* CascadeBounded: raise_event's depth check limits every cascade by the   *)
(* depth its root happened to have, whatever that was: MAX_EVENT_DEPTH     *)
(* levels below a root of depth 0, one more below the greatest depth.      *)
THEOREM CascadesEnd == EventSpec => []CascadeBounded
<1>1. IInv => CascadeBounded
  <2> SUFFICES ASSUME IInv, NEW id \in DOMAIN events_, level[id] > 0
               PROVE  level[id] + ((seed[id] + 1) % DepthModulus) <= MAX_EVENT_DEPTH + 1
    BY DEF CascadeBounded
  <2>1. events_[id].depth \in Nat
    BY DepthAssumption DEF IInv, EventTypeOK, EventRecords
  <2>2. /\ events_[id].depth <= MAX_EVENT_DEPTH
        /\ level[id] + ((seed[id] + 1) % DepthModulus) = events_[id].depth + 1
    BY DEF IInv, DepthTracksLevel
  <2> QED BY <2>1, <2>2, DepthAssumption
<1> QED BY InitInv, NextInv, <1>1, PTL DEF EventSpec

(* Every step of the event system keeps QueuedUntilProcessed. *)
LEMMA NextQueue == IInv /\ QueuedUntilProcessed /\ [EventNext]_eventVars => QueuedUntilProcessed'
<1> SUFFICES ASSUME IInv, QueuedUntilProcessed, [EventNext]_eventVars PROVE QueuedUntilProcessed'
  OBVIOUS
<1> DEFINE id == next_event_id_
<1>0. id \notin DOMAIN events_ /\ id \in Nat
  BY DEF IInv, EventTypeOK
<1>1. ASSUME NEW type \in EventTypes, NEW parent \in 0..MaxEvents, raise_event(type, parent)
      PROVE  QueuedUntilProcessed'
  <2>1. ~stuck' /\ UNCHANGED <<handlers_, lost>> BY <1>1 DEF raise_event
  <2>2. CASE RaiseRoot(type, parent)
    <3>1. PICK depth : events_' = With(id, Event(type, depth), events_)
      BY <2>2 DEF RaiseRoot
    <3>2. /\ DOMAIN events_' = DOMAIN events_ \cup {id} /\ ~events_'[id].processed
          /\ \A e \in DOMAIN events_ : /\ events_'[e].processed = events_[e].processed
                                       /\ events_'[e].event_type = events_[e].event_type
      BY <3>1, <1>0 DEF With, Event
    <3>3. event_queue_' = Append(event_queue_, id) BY <2>2 DEF RaiseRoot
    <3> HIDE DEF id
    <3> QED BY <2>1, <3>2, <3>3, <1>0, QueueGrows
  <2>3. CASE RaiseChild(type, parent)
    <3> DEFINE linked == [events_ EXCEPT ![parent].child_events = Append(@, id)]
    <3>1. events_' = With(id, Event(type, ChildDepth(parent)), linked)
      BY <2>3 DEF RaiseChild
    <3>2. /\ DOMAIN linked = DOMAIN events_
          /\ \A e \in DOMAIN events_ : /\ linked[e].processed = events_[e].processed
                                       /\ linked[e].event_type = events_[e].event_type
      BY DEF IInv, EventTypeOK, EventRecords
    <3>3. /\ DOMAIN events_' = DOMAIN events_ \cup {id} /\ ~events_'[id].processed
          /\ \A e \in DOMAIN events_ : /\ events_'[e].processed = events_[e].processed
                                       /\ events_'[e].event_type = events_[e].event_type
      <4> HIDE DEF linked
      <4> QED BY <3>1, <3>2, <1>0 DEF With, Event
    <3>4. event_queue_' = Append(event_queue_, id) BY <2>3 DEF RaiseChild
    <3> HIDE DEF id
    <3> QED BY <2>1, <3>3, <3>4, <1>0, QueueGrows
  <2>4. CASE RaiseRefused(parent)
    BY <1>1, <2>1, <2>4 DEF raise_event, RaiseRefused, QueuedUntilProcessed, Failing
  <2> QED BY <1>1, <2>2, <2>3, <2>4 DEF raise_event
<1>2. ASSUME NEW type \in EventTypes, NEW does \in Outcomes, register_handler(type, does)
      PROVE  QueuedUntilProcessed'
  <2>1. /\ handlers_ \in Seq([event_type : EventTypes, does : Outcomes])
        /\ handlers_' = Append(handlers_, [event_type |-> type, does |-> does])
    BY <1>2 DEF register_handler, IInv, EventTypeOK
  <2>2. Len(handlers_) \in Nat /\ Len(handlers_') = Len(handlers_) + 1
        /\ \A h \in 1..Len(handlers_) : handlers_'[h] = handlers_[h]
    BY <2>1
  <2>3. \A e : events_' = events_ => Failing(e) \subseteq Failing(e)'
    BY <2>2 DEF Failing
  <2>4. UNCHANGED <<events_, event_queue_, stuck, lost>>
    BY <1>2 DEF register_handler
  <2>5. \A e \in lost' : Failing(e)' # {}
    BY <2>3, <2>4 DEF QueuedUntilProcessed
  <2> QED BY <2>4, <2>5 DEF QueuedUntilProcessed
<1>3. CASE process_events
  BY <1>3, QueueShrinks
<1>4. CASE UNCHANGED eventVars
  BY <1>4 DEF eventVars, QueuedUntilProcessed, Failing
<1> QED BY <1>1, <1>2, <1>3, <1>4 DEF EventNext

(* QueuedUntilProcessed: process_events and raise_event repeat no event,   *)
(* and lose one only to a handler that throws or blocks, for any number of *)
(* events and handlers.                                                    *)
THEOREM NoEventLost == EventSpec => []QueuedUntilProcessed
<1>1. EventInit => QueuedUntilProcessed
  BY DEF EventInit, QueuedUntilProcessed
<1> QED BY InitInv, NextInv, NextQueue, <1>1, PTL DEF EventSpec

-----------------------------------------------------------------------------
(* b is a child of a. *)
Link(a, b) == /\ a \in DOMAIN events_
              /\ \E i \in 1..Len(events_[a].child_events) : events_[a].child_events[i] = b

(* Some path of links from id ends in visited or closes a cycle: what        *)
(* detect_cycle computes, without its recursion.                             *)
Path(q, n, id, visited) ==
  /\ q[1] = id
  /\ \A k \in 1..(n - 1) : Link(q[k], q[k + 1])
  /\ q[n] \in visited \/ \E k \in 1..(n - 1) : q[k] = q[n]
Reaches(id, visited) == \E n \in Nat \ {0} : \E q \in [1..n -> Nat] : Path(q, n, id, visited)

(* Reaches obeys the recursion of detect_cycle: drop, or add, the first id  *)
(* of the path.                                                            *)
LEMMA ReachesUnfolds ==
  ASSUME NEW id \in Nat, NEW visited \in SUBSET Nat, \A a, b : Link(a, b) => b \in Nat
  PROVE  Reaches(id, visited) <=> \/ id \in visited
                                  \/ \E c \in Nat : Link(id, c) /\ Reaches(c, visited \cup {id})
<1>1. ASSUME Reaches(id, visited), id \notin visited
      PROVE  \E c \in Nat : Link(id, c) /\ Reaches(c, visited \cup {id})
  <2>0. PICK n \in Nat \ {0} : \E r \in [1..n -> Nat] : Path(r, n, id, visited)
    BY <1>1 DEF Reaches
  <2>1. PICK q \in [1..n -> Nat] : Path(q, n, id, visited)
    BY <2>0
  <2>2. n # 1
    BY <1>1, <2>1 DEF Path
  <2> DEFINE m == n - 1
             q2 == [k \in 1..m |-> q[k + 1]]
  <2>3. m \in Nat \ {0} /\ n = m + 1 /\ \A k \in 1..m : k + 1 \in 1..n
    BY <2>2
  <2>4. q2 \in [1..m -> Nat]
    BY <2>3
  <2>5. q2[1] = q[2] /\ q[2] \in Nat /\ q2[m] = q[n]
    BY <2>3, <2>4
  <2>6. Link(id, q[2])
    BY <2>1, <2>3 DEF Path
  <2>7. ASSUME NEW k \in 1..(m - 1) PROVE Link(q2[k], q2[k + 1])
    <3>1. k + 1 \in 1..(n - 1) /\ k \in 1..m /\ k + 1 \in 1..m
      BY <2>3
    <3> QED BY <2>1, <3>1 DEF Path
  <2>8. q2[m] \in visited \cup {id} \/ \E k \in 1..(m - 1) : q2[k] = q2[m]
    <3>1. CASE q[n] \in visited
      BY <2>5, <3>1
    <3>2. ASSUME NEW k \in 1..(n - 1), q[k] = q[n]
          PROVE  q2[m] \in visited \cup {id} \/ \E j \in 1..(m - 1) : q2[j] = q2[m]
      <4>1. CASE k = 1
        BY <2>1, <2>5, <3>2, <4>1 DEF Path
      <4>2. CASE k # 1
        <5>1. k - 1 \in 1..(m - 1) /\ q2[k - 1] = q[k]
          BY <2>3, <4>2
        <5> QED BY <2>5, <3>2, <5>1
      <4> QED BY <4>1, <4>2
    <3> QED BY <2>1, <3>1, <3>2 DEF Path
  <2> HIDE DEF q2, m
  <2>9. Path(q2, m, q[2], visited \cup {id})
    BY <2>5, <2>7, <2>8 DEF Path
  <2> QED BY <2>3, <2>4, <2>5, <2>6, <2>9 DEF Reaches
<1>2. ASSUME id \in visited PROVE Reaches(id, visited)
  <2> DEFINE q == [k \in 1..1 |-> id]
  <2>1. q \in [1..1 -> Nat] /\ q[1] = id
    OBVIOUS
  <2> HIDE DEF q
  <2>2. Path(q, 1, id, visited)
    BY <1>2, <2>1 DEF Path
  <2>3. 1 \in Nat \ {0}
    OBVIOUS
  <2> QED BY <2>1, <2>2, <2>3 DEF Reaches
<1>3. ASSUME NEW c \in Nat, Link(id, c), Reaches(c, visited \cup {id})
      PROVE  Reaches(id, visited)
  <2>0. PICK m \in Nat \ {0} : \E r \in [1..m -> Nat] : Path(r, m, c, visited \cup {id})
    BY <1>3 DEF Reaches
  <2>1. PICK q2 \in [1..m -> Nat] : Path(q2, m, c, visited \cup {id})
    BY <2>0
  <2> DEFINE n == m + 1
             q == [k \in 1..n |-> IF k = 1 THEN id ELSE q2[k - 1]]
  <2>2. n \in Nat \ {0} /\ n # 1 /\ \A k \in 1..n : k = 1 \/ k - 1 \in 1..m
    OBVIOUS
  <2>3. q \in [1..n -> Nat]
    BY <2>2
  <2>4. q[1] = id /\ \A k \in 1..m : q[k + 1] = q2[k]
    BY <2>2
  <2>5. q[n] = q2[m]
    BY <2>4
  <2>6. ASSUME NEW k \in 1..(n - 1) PROVE Link(q[k], q[k + 1])
    <3>1. CASE k = 1
      BY <1>3, <2>1, <2>4, <3>1 DEF Path
    <3>2. CASE k # 1
      <4>1. k - 1 \in 1..(m - 1) /\ k \in 1..m /\ k = (k - 1) + 1
        BY <3>2
      <4>2. q[k] = q2[k - 1] /\ q[k + 1] = q2[k]
        BY <2>4, <4>1
      <4> QED BY <2>1, <4>1, <4>2 DEF Path
    <3> QED BY <3>1, <3>2
  <2>7. q[n] \in visited \/ \E k \in 1..(n - 1) : q[k] = q[n]
    <3>1. CASE q2[m] = id
      <4>1. 1 \in 1..(n - 1)
        BY <2>2
      <4> QED BY <2>4, <2>5, <3>1, <4>1
    <3>2. CASE q2[m] \in visited
      BY <2>5, <3>2
    <3>3. ASSUME NEW k \in 1..(m - 1), q2[k] = q2[m] PROVE \E j \in 1..(n - 1) : q[j] = q[n]
      <4>1. k + 1 \in 1..(n - 1) /\ q[k + 1] = q2[k]
        BY <2>4
      <4> QED BY <2>5, <3>3, <4>1
    <3> QED BY <2>1, <3>1, <3>2, <3>3 DEF Path
  <2> HIDE DEF q, n
  <2>8. Path(q, n, id, visited)
    BY <2>4, <2>6, <2>7 DEF Path
  <2> QED BY <2>2, <2>3, <2>8 DEF Reaches
<1> QED BY <1>1, <1>2, <1>3

(* One unfolding of the recursion. *)
Step(f, p) == \/ p[1] \in p[2]
              \/ /\ p[1] \in DOMAIN events_
                 /\ \E i \in 1..Len(events_[p[1]].child_events) :
                      f[<<events_[p[1]].child_events[i], p[2] \cup {p[1]}>>]

(* So a function with this recursion exists, and cycle_from is one. *)
LEMMA CycleFromUnfolds ==
  ASSUME \A a, b : Link(a, b) => b \in Nat
  PROVE  cycle_from = [p \in Nat \X SUBSET Nat |-> Step(cycle_from, p)]
<1> DEFINE g == [p \in Nat \X SUBSET Nat |-> Reaches(p[1], p[2])]
<1>1. ASSUME NEW p \in Nat \X SUBSET Nat PROVE g[p] = Step(g, p)
  <2>1. p[1] \in Nat /\ p[2] \in SUBSET Nat /\ (p[2] \cup {p[1]}) \in SUBSET Nat
    OBVIOUS
  <2>2. g[p] = Reaches(p[1], p[2])
    OBVIOUS
  <2>3. \A c \in Nat : g[<<c, p[2] \cup {p[1]}>>] = Reaches(c, p[2] \cup {p[1]})
    <3>1. \A c \in Nat : <<c, p[2] \cup {p[1]}>> \in Nat \X SUBSET Nat
      BY <2>1
    <3> QED BY <3>1
  <2> HIDE DEF g
  <2>4. Reaches(p[1], p[2]) <=> \/ p[1] \in p[2]
                                \/ \E c \in Nat : Link(p[1], c) /\ Reaches(c, p[2] \cup {p[1]})
    BY <2>1, ReachesUnfolds
  <2>5. Step(g, p) <=> \/ p[1] \in p[2]
                       \/ \E c \in Nat : Link(p[1], c) /\ Reaches(c, p[2] \cup {p[1]})
    <3>1. ASSUME p[1] \in DOMAIN events_, NEW i \in 1..Len(events_[p[1]].child_events)
          PROVE  LET c == events_[p[1]].child_events[i]
                 IN  c \in Nat /\ Link(p[1], c) /\ g[<<c, p[2] \cup {p[1]}>>] = Reaches(c, p[2] \cup {p[1]})
      <4>1. Link(p[1], events_[p[1]].child_events[i])
        BY <3>1 DEF Link
      <4> QED BY <2>3, <4>1
    <3>2. ASSUME NEW c \in Nat, Link(p[1], c)
          PROVE  /\ p[1] \in DOMAIN events_
                 /\ \E i \in 1..Len(events_[p[1]].child_events) : events_[p[1]].child_events[i] = c
      BY <3>2 DEF Link
    <3> QED BY <2>3, <3>1, <3>2 DEF Step
  <2> QED BY <2>2, <2>4, <2>5 DEF Step, Reaches
<1>2. g = [p \in Nat \X SUBSET Nat |-> Step(g, p)]
  <2>1. \A p \in Nat \X SUBSET Nat : Reaches(p[1], p[2]) = Step(g, p)
    BY <1>1
  <2> QED BY <2>1, Zenon
<1> HIDE DEF g
<1>3. \E f : f = [p \in Nat \X SUBSET Nat |-> Step(f, p)]
  BY <1>2
<1> QED BY <1>3 DEF cycle_from, Step

(* Every child is a later event than its parent. *)
ForwardLinks ==
  \A id \in DOMAIN events_ : \A i \in 1..Len(events_[id].child_events) :
    LET c == events_[id].child_events[i] IN c \in Nat /\ id < c /\ c < next_event_id_

(* Links that only lead forward close no cycle. *)
LEMMA ForwardNoCycle == ASSUME EventTypeOK, ForwardLinks PROVE NeverCyclic
<1>1. \A a, b : Link(a, b) => a \in Nat /\ b \in Nat /\ a < b /\ b < next_event_id_
  BY DEF Link, ForwardLinks, EventTypeOK
<1>2. cycle_from = [p \in Nat \X SUBSET Nat |-> Step(cycle_from, p)]
  BY <1>1, CycleFromUnfolds
<1>3. ASSUME NEW id \in Nat, NEW v \in SUBSET Nat
      PROVE  cycle_from[<<id, v>>] => \/ id \in v
                                      \/ \E c \in Nat : Link(id, c) /\ cycle_from[<<c, v \cup {id}>>]
  <2>1. <<id, v>> \in Nat \X SUBSET Nat /\ <<id, v>>[1] = id /\ <<id, v>>[2] = v
    OBVIOUS
  <2>2. cycle_from[<<id, v>>] = Step(cycle_from, <<id, v>>)
    BY <1>2, <2>1
  <2>3. Step(cycle_from, <<id, v>>) => \/ id \in v
                                      \/ \E c \in Nat : Link(id, c) /\ cycle_from[<<c, v \cup {id}>>]
    <3>1. ASSUME id \in DOMAIN events_, NEW i \in 1..Len(events_[id].child_events)
          PROVE  Link(id, events_[id].child_events[i]) /\ events_[id].child_events[i] \in Nat
      BY <1>1, <3>1 DEF Link
    <3> QED BY <2>1, <3>1 DEF Step
  <2> QED BY <2>2, <2>3
<1> DEFINE N == next_event_id_
           Bad(id) == \E v \in SUBSET Nat : (\A x \in v : x < id) /\ cycle_from[<<id, v>>]
           T == {id \in 0..N : Bad(id)}
<1>4. N \in Nat
  BY DEF EventTypeOK
<1>5. T = {}
  <2> SUFFICES ASSUME T # {} PROVE FALSE
    OBVIOUS
  <2> DEFINE V == {N - id : id \in T}
  <2>1. \A id \in T : N - id \in Nat /\ id \in Nat
    BY <1>4
  <2> HIDE DEF T
  <2>2. V \in SUBSET Nat /\ V # {}
    BY <2>1
  <2>3. PICK x \in V : \A y \in V : <<y, x>> \notin OpToRel(<, Nat)
    BY <2>2, WFMin, NatLessThanWellFounded
  <2>4. \A y \in V : ~(y < x)
    BY <2>2, <2>3 DEF OpToRel
  <2>5. PICK id \in T : x = N - id
    OBVIOUS
  <2>6. PICK v \in SUBSET Nat : (\A y \in v : y < id) /\ cycle_from[<<id, v>>]
    BY DEF T
  <2>7. id \notin v
    BY <2>1, <2>6
  <2>8. PICK c \in Nat : Link(id, c) /\ cycle_from[<<c, v \cup {id}>>]
    BY <1>3, <2>1, <2>6, <2>7
  <2>9. id < c /\ c < N
    BY <1>1, <2>8
  <2>10. (v \cup {id}) \in SUBSET Nat /\ \A y \in v \cup {id} : y < c
    <3>1. id \in Nat /\ \A y \in v : y \in Nat /\ y < id
      BY <2>1, <2>6
    <3>2. \A y \in v \cup {id} : y \in Nat /\ y < c
      <4> SUFFICES ASSUME NEW y \in v \cup {id} PROVE y \in Nat /\ y < c
        OBVIOUS
      <4>1. CASE y = id
        BY <2>9, <3>1, <4>1
      <4>2. CASE y \in v
        BY <2>9, <3>1, <4>2
      <4> QED BY <4>1, <4>2
    <3> QED BY <3>2
  <2>11. Bad(c)
    BY <2>8, <2>10
  <2>12. c \in T
    <3> HIDE DEF Bad
    <3> QED BY <1>4, <2>9, <2>11 DEF T
  <2>13. N - c \in V /\ N - c < x
    BY <1>4, <2>1, <2>5, <2>9, <2>12
  <2> QED BY <2>4, <2>13
<1>6. ASSUME NEW id \in DOMAIN events_, cycle_from[<<id, {}>>] PROVE FALSE
  <2>1. id \in 0..N
    BY <1>4 DEF EventTypeOK
  <2>2. {} \in SUBSET Nat /\ \A x \in {} : x < id
    OBVIOUS
  <2>3. Bad(id)
    BY <1>6, <2>2
  <2>4. id \in T
    <3> HIDE DEF Bad
    <3> QED BY <2>1, <2>3
  <2> QED BY <1>5, <2>4
<1> QED BY <1>6 DEF NeverCyclic, detect_cycle

(* Every step keeps the links forward. *)
LEMMA NextForward == IInv /\ ForwardLinks /\ [EventNext]_eventVars => ForwardLinks'
<1> SUFFICES ASSUME IInv, ForwardLinks, [EventNext]_eventVars PROVE ForwardLinks'
  OBVIOUS
<1> DEFINE n == next_event_id_
<1>0. n \notin DOMAIN events_ /\ n \in Nat /\ \A e \in DOMAIN events_ : e \in Nat /\ e < n
  BY DEF IInv, EventTypeOK
<1>1. ASSUME NEW type \in EventTypes, NEW parent \in 0..MaxEvents, raise_event(type, parent)
      PROVE  ForwardLinks'
  <2>1. n' = n + 1
    BY <1>1 DEF raise_event
  <2>2. CASE RaiseRoot(type, parent)
    <3>1. PICK depth : events_' = With(n, Event(type, depth), events_)
      BY <2>2 DEF RaiseRoot
    <3>2. /\ DOMAIN events_' = DOMAIN events_ \cup {n}
          /\ events_'[n].child_events = <<>>
          /\ \A e \in DOMAIN events_ : events_'[e] = events_[e]
      BY <1>0, <3>1 DEF With, Event
    <3> QED BY <1>0, <2>1, <3>2 DEF ForwardLinks
  <2>3. CASE RaiseChild(type, parent)
    <3> DEFINE linked == [events_ EXCEPT ![parent].child_events = Append(@, n)]
    <3>1. events_' = With(n, Event(type, ChildDepth(parent)), linked) /\ parent \in DOMAIN events_
      BY <2>3 DEF RaiseChild
    <3>2. /\ DOMAIN linked = DOMAIN events_
          /\ \A e \in DOMAIN events_ : e # parent => linked[e] = events_[e]
          /\ linked[parent].child_events = Append(events_[parent].child_events, n)
      BY <3>1 DEF IInv, EventTypeOK, EventRecords
    <3>3. /\ DOMAIN events_' = DOMAIN events_ \cup {n}
          /\ events_'[n].child_events = <<>>
          /\ \A e \in DOMAIN events_ : events_'[e] = linked[e]
      <4> HIDE DEF linked
      <4> QED BY <1>0, <3>1, <3>2 DEF With, Event
    <3>4. events_[parent].child_events \in Seq(Nat)
      BY <3>1 DEF IInv, EventTypeOK, EventRecords
    <3> DEFINE old == events_[parent].child_events
    <3>5. /\ Len(Append(old, n)) = Len(old) + 1 /\ Len(old) \in Nat
          /\ \A i \in 1..Len(old) : Append(old, n)[i] = old[i]
          /\ Append(old, n)[Len(old) + 1] = n
      BY <3>4
    <3>6. ASSUME NEW i \in 1..Len(Append(old, n))
          PROVE  LET c == Append(old, n)[i] IN c \in Nat /\ parent < c /\ c < n + 1
      <4>1. CASE i = Len(old) + 1
        BY <1>0, <3>1, <3>5, <4>1
      <4>2. CASE i \in 1..Len(old)
        BY <1>0, <3>1, <3>5, <4>2 DEF ForwardLinks
      <4> QED BY <3>5, <4>1, <4>2
    <3> HIDE DEF linked, old
    <3>7. ASSUME NEW e \in DOMAIN events_', NEW i \in 1..Len(events_'[e].child_events)
          PROVE  LET c == events_'[e].child_events[i] IN c \in Nat /\ e < c /\ c < n + 1
      <4>1. CASE e = n
        BY <3>3, <3>7, <4>1
      <4>2. CASE e = parent
        BY <3>1, <3>2, <3>3, <3>6, <3>7, <4>2 DEF old
      <4>3. CASE e # n /\ e # parent
        BY <1>0, <3>2, <3>3, <3>7, <4>3 DEF ForwardLinks
      <4> QED BY <4>1, <4>2, <4>3
    <3> QED BY <2>1, <3>7 DEF ForwardLinks
  <2>4. CASE RaiseRefused(parent)
    BY <1>0, <2>1, <2>4 DEF RaiseRefused, ForwardLinks
  <2> QED BY <1>1, <2>2, <2>3, <2>4 DEF raise_event
<1>2. ASSUME NEW type \in EventTypes, NEW does \in Outcomes, register_handler(type, does)
      PROVE  ForwardLinks'
  BY <1>2 DEF register_handler, ForwardLinks
<1>3. CASE process_events
  <2>1. PICK done : events_' = Processed(done)
    BY <1>3 DEF process_events
  <2>2. /\ DOMAIN events_' = DOMAIN events_ /\ next_event_id_' = next_event_id_
        /\ \A e \in DOMAIN events_ : events_'[e].child_events = events_[e].child_events
    BY <1>3, <2>1 DEF process_events, Processed, IInv, EventTypeOK, EventRecords
  <2> QED BY <2>2 DEF ForwardLinks
<1>4. CASE UNCHANGED eventVars
  BY <1>4 DEF eventVars, ForwardLinks
<1> QED BY <1>1, <1>2, <1>3, <1>4 DEF EventNext

(* NeverCyclic: the cascades raise_event records have no cycle, so          *)
(* detect_cycle answers no for every event, for any number of events.       *)
THEOREM CascadesAcyclic == EventSpec => []NeverCyclic
<1>1. EventInit => ForwardLinks
  BY DEF EventInit, ForwardLinks
<1>2. IInv /\ ForwardLinks => NeverCyclic
  BY ForwardNoCycle DEF IInv
<1> QED BY InitInv, NextInv, NextForward, <1>1, <1>2, PTL DEF EventSpec

-----------------------------------------------------------------------------
(* The states of approval have their types. *)
ApprovalStates == [approval_level : Nat, approvers : Seq(People), is_approved : BOOLEAN]

(* The levels given to a row, and a state that agrees with them. *)
Given(g) == {g[i] : i \in 1..Len(g)}
Recorded(state, g) ==
  /\ Len(state.approvers) = Len(g)
  /\ \A l \in Given(g) : l <= state.approval_level
  /\ state.approval_level \in Given(g) \cup {0}
  /\ state.is_approved <=> \E l \in Given(g) : l >= 3

TableInv == /\ DOMAIN granted = DOMAIN approval_states_
            /\ \A row \in DOMAIN approval_states_ :
                 /\ approval_states_[row] \in ApprovalStates
                 /\ granted[row] \in Seq(Nat)
                 /\ Recorded(approval_states_[row], granted[row])

(* An inserted row has a state in step with no approval at all. *)
LEMMA NewRecorded == /\ NewApproval \in ApprovalStates
                     /\ Recorded(NewApproval, <<>>)
<1>1. Len(NewApproval.approvers) = Len(<<>>) /\ NewApproval.approval_level = 0
      /\ NewApproval.is_approved = FALSE
  BY DEF NewApproval
<1>2. Given(<<>>) = {}
  BY DEF Given
<1>3. NewApproval \in ApprovalStates
  BY DEF NewApproval, ApprovalStates
<1> QED BY <1>1, <1>2, <1>3 DEF Recorded

(* An approval keeps the state in step. *)
LEMMA ApprovedRecorded ==
  ASSUME NEW s \in ApprovalStates, NEW g \in Seq(Nat), Recorded(s, g),
         NEW approver \in People, NEW l \in Nat
  PROVE  /\ Approved(s, approver, l) \in ApprovalStates
         /\ Append(g, l) \in Seq(Nat)
         /\ Recorded(Approved(s, approver, l), Append(g, l))
<1> DEFINE top == Max({s.approval_level, l})
           a == s.is_approved \/ l >= 3
           who == Append(s.approvers, approver)
<1>1. s.approval_level \in Nat /\ s.approvers \in Seq(People) /\ s.is_approved \in BOOLEAN
  BY DEF ApprovalStates
<1>2. top \in Nat /\ (top = s.approval_level \/ top = l) /\ top >= s.approval_level /\ top >= l
  <2>1. \E m \in {s.approval_level, l} : \A y \in {s.approval_level, l} : m >= y
    BY <1>1
  <2> QED BY <1>1, <2>1 DEF Max
<1>3. a \in BOOLEAN
  BY Zenon
<1>4. /\ Approved(s, approver, l).approval_level = top
      /\ Approved(s, approver, l).approvers = who
      /\ Approved(s, approver, l).is_approved = a
      /\ Approved(s, approver, l) = [approval_level |-> top, is_approved |-> a, approvers |-> who]
  BY Zenon DEF Approved
<1>5. who \in Seq(People) /\ Len(who) = Len(s.approvers) + 1
  BY <1>1
<1>6. Append(g, l) \in Seq(Nat) /\ Len(Append(g, l)) = Len(g) + 1
      /\ Given(Append(g, l)) = Given(g) \cup {l}
  <2>1. /\ Append(g, l) \in Seq(Nat) /\ Len(Append(g, l)) = Len(g) + 1 /\ Len(g) \in Nat
        /\ Append(g, l)[Len(g) + 1] = l
        /\ \A i \in 1..Len(g) : Append(g, l)[i] = g[i]
    OBVIOUS
  <2> QED BY <2>1 DEF Given
<1>7. Given(g) \subseteq Nat
  BY DEF Given
<1> HIDE DEF top, a, who
<1>8. Approved(s, approver, l) \in ApprovalStates
  BY <1>2, <1>3, <1>4, <1>5 DEF ApprovalStates
<1>9. \A x \in Given(Append(g, l)) : x <= top
  BY <1>1, <1>2, <1>6, <1>7 DEF Recorded
<1>10. top \in Given(Append(g, l)) \cup {0}
  BY <1>2, <1>6 DEF Recorded
<1>11. a <=> \E x \in Given(Append(g, l)) : x >= 3
  BY <1>6 DEF Recorded, a
<1>12. Len(who) = Len(Append(g, l))
  BY <1>5, <1>6 DEF Recorded
<1> QED BY <1>4, <1>6, <1>8, <1>9, <1>10, <1>11, <1>12 DEF Recorded

(* Every step of the table keeps the approvals in order. *)
LEMMA TableNextInv == TableInv /\ [TableNext]_tableVars => TableInv'
<1> SUFFICES ASSUME TableInv, [TableNext]_tableVars PROVE TableInv'
  OBVIOUS
<1> DEFINE Good(s, g) == s \in ApprovalStates /\ g \in Seq(Nat) /\ Recorded(s, g)
<1>0. /\ DOMAIN granted = DOMAIN approval_states_
      /\ \A row \in DOMAIN approval_states_ : Good(approval_states_[row], granted[row])
  BY DEF TableInv
<1>1. ASSUME DOMAIN granted' = DOMAIN approval_states_',
             \A row \in DOMAIN approval_states_' : Good(approval_states_'[row], granted'[row])
      PROVE  TableInv'
  BY <1>1 DEF TableInv
<1>2. ASSUME NEW row \in RowIds, NEW performer \in People, insert_with_intent(row, performer)
      PROVE  TableInv'
  <2>1. Good(NewApproval, <<>>)
    BY NewRecorded
  <2> HIDE DEF Good
  <2>2. CASE approval_states_' = Gated(row) /\ granted' = Assigned(granted, row, <<>>)
    <3>1. /\ DOMAIN approval_states_' = DOMAIN approval_states_ \cup {row}
          /\ DOMAIN granted' = DOMAIN granted \cup {row}
          /\ \A r \in DOMAIN approval_states_' :
               /\ approval_states_'[r] = IF r = row THEN NewApproval ELSE approval_states_[r]
               /\ r \in DOMAIN granted' => granted'[r] = IF r = row THEN <<>> ELSE granted[r]
      BY <2>2 DEF Gated, Assigned
    <3> QED BY <1>0, <1>1, <2>1, <3>1
  <2>3. CASE UNCHANGED <<approval_states_, granted>>
    BY <1>0, <1>1, <2>3
  <2> QED BY <1>2, <2>2, <2>3 DEF insert_with_intent
<1>3. ASSUME NEW row \in RowIds, NEW approver \in People, NEW l \in Levels,
             approve_row(row, approver, l)
      PROVE  TableInv'
  <2>1. /\ row \in DOMAIN approval_states_ /\ l \in Nat
        /\ approval_states_' = [approval_states_ EXCEPT ![row] = Approved(@, approver, l)]
        /\ granted' = [granted EXCEPT ![row] = Append(@, l)]
    BY <1>3, LevelsAssumption DEF approve_row
  <2>2. Good(Approved(approval_states_[row], approver, l), Append(granted[row], l))
    BY <1>0, <2>1, ApprovedRecorded
  <2> HIDE DEF Good
  <2>3. /\ DOMAIN approval_states_' = DOMAIN approval_states_ /\ DOMAIN granted' = DOMAIN granted
        /\ approval_states_'[row] = Approved(approval_states_[row], approver, l)
        /\ granted'[row] = Append(granted[row], l)
        /\ \A r \in DOMAIN approval_states_ : r # row =>
             approval_states_'[r] = approval_states_[r] /\ granted'[r] = granted[r]
    BY <1>0, <2>1
  <2> QED BY <1>0, <1>1, <2>2, <2>3
<1>4. CASE UNCHANGED tableVars
  <2>1. UNCHANGED <<approval_states_, granted>>
    BY <1>4 DEF tableVars
  <2> QED BY <1>0, <1>1, <2>1
<1> QED BY <1>2, <1>3, <1>4 DEF TableNext

(* ApprovedByDirector: for any rows, people and levels, a row is approved   *)
(* exactly when a director approved it since it was last inserted, and its  *)
(* level is the highest it was given since then.                            *)
THEOREM DirectorsApprove == TableSpec => []ApprovedByDirector
<1>1. TableInit => TableInv
  <2> SUFFICES ASSUME TableInit PROVE TableInv
    OBVIOUS
  <2>1. DOMAIN granted = {} /\ DOMAIN approval_states_ = {}
    BY DEF TableInit
  <2> QED BY <2>1 DEF TableInv
<1>2. TableInv => ApprovedByDirector
  BY DEF TableInv, ApprovedByDirector, Recorded, Given
<1> QED BY <1>1, <1>2, TableNextInv, PTL DEF TableSpec

-----------------------------------------------------------------------------
(* The graph: edges lead to known nodes. *)
EdgeRecords == [to : NodeIds, weight : Weights]
GraphOK == /\ DOMAIN nodes_ \subseteq NodeIds
           /\ DOMAIN adjacency_list_ \subseteq NodeIds
           /\ \A n \in DOMAIN adjacency_list_ : adjacency_list_[n] \in Seq(EdgeRecords)

Frames == [node : NodeIds, next : Nat]
PathRecords == [from : NodeIds, to : NodeIds, weight : Weights]

(* No node is open twice. *)
Distinct(open) == \A i, j \in 1..Len(open) : i # j => open[i].node # open[j].node

FramesOf(open) == {open[i] : i \in 1..Len(open)}

OpenIs(open, F) == open \in Seq(Frames) /\ Distinct(open) /\ FramesOf(open) = F

(* Edges gives a list of edges. *)
LEMMA EdgesType == ASSUME GraphOK, NEW n PROVE Edges(n) \in Seq(EdgeRecords)
<1>1. <<>> \in Seq(EdgeRecords)
  BY EmptySeq
<1> QED BY <1>1 DEF GraphOK, Edges

(* A frame that goes. *)
LEMMA OpenClosed ==
  ASSUME NEW open \in Seq(Frames), Distinct(open), NEW k \in 1..Len(open)
  PROVE  OpenIs(RemoveAt(open, k), FramesOf(open) \ {open[k]})
<1> DEFINE n == Len(open)
           a == SubSeq(open, 1, k - 1)
           b == SubSeq(open, k + 1, n)
           c == a \o b
<1>1. n \in Nat /\ k \in Nat /\ 1 <= k /\ k <= n /\ \A i \in 1..n : open[i] \in Frames
  BY ElementOfSeq
<1>2. /\ a \in Seq(Frames) /\ Len(a) = (IF 1 <= k - 1 THEN k - 1 - 1 + 1 ELSE 0)
      /\ \A i \in 1..(k - 1 - 1 + 1) : a[i] = open[1 + i - 1]
  <2>1. \A i \in 1..(k - 1) : open[i] \in Frames
    BY <1>1
  <2>2. 1 \in Int /\ k - 1 \in Int
    BY <1>1
  <2> QED BY <2>1, <2>2, SubSeqProperties
<1>3. /\ b \in Seq(Frames) /\ Len(b) = (IF k + 1 <= n THEN n - (k + 1) + 1 ELSE 0)
      /\ \A i \in 1..(n - (k + 1) + 1) : b[i] = open[(k + 1) + i - 1]
  <2>1. \A i \in (k + 1)..n : open[i] \in Frames
    BY <1>1
  <2>2. k + 1 \in Int /\ n \in Int
    BY <1>1
  <2> QED BY <2>1, <2>2, SubSeqProperties
<1> HIDE DEF a, b
<1>4. Len(a) = k - 1 /\ Len(b) = n - k
  BY <1>1, <1>2, <1>3
<1>5. /\ \A i \in 1..(k - 1) : a[i] = open[i]
      /\ \A i \in 1..(n - k) : b[i] = open[k + i]
  <2>1. k - 1 - 1 + 1 = k - 1 /\ n - (k + 1) + 1 = n - k
    BY <1>1
  <2>2. \A i \in 1..(k - 1) : 1 + i - 1 = i
    BY <1>1
  <2>3. \A i \in 1..(n - k) : (k + 1) + i - 1 = k + i
    BY <1>1
  <2> QED BY <1>2, <1>3, <2>1, <2>2, <2>3
<1>6. /\ c \in Seq(Frames) /\ Len(c) = Len(a) + Len(b)
      /\ \A i \in 1..(Len(a) + Len(b)) : c[i] = IF i <= Len(a) THEN a[i] ELSE b[i - Len(a)]
  BY <1>2, <1>3, ConcatProperties
<1> HIDE DEF c
<1>7. Len(c) = n - 1
  BY <1>1, <1>4, <1>6
<1>8. \A i \in 1..(n - 1) : c[i] = IF i < k THEN open[i] ELSE open[i + 1]
  <2> SUFFICES ASSUME NEW i \in 1..(n - 1) PROVE c[i] = IF i < k THEN open[i] ELSE open[i + 1]
    OBVIOUS
  <2>1. c[i] = IF i <= k - 1 THEN a[i] ELSE b[i - (k - 1)]
    BY <1>1, <1>4, <1>6
  <2>2. CASE i < k
    BY <1>1, <1>5, <2>1, <2>2
  <2>3. CASE ~(i < k)
    <3>1. i - (k - 1) \in 1..(n - k) /\ k + (i - (k - 1)) = i + 1 /\ ~(i <= k - 1)
      BY <1>1, <2>3
    <3> QED BY <1>5, <2>1, <2>3, <3>1
  <2> QED BY <2>2, <2>3
<1>9. Distinct(c)
  <2> SUFFICES ASSUME NEW i \in 1..(n - 1), NEW j \in 1..(n - 1), i # j PROVE c[i].node # c[j].node
    BY <1>7 DEF Distinct
  <2> DEFINE x == IF i < k THEN i ELSE i + 1
             y == IF j < k THEN j ELSE j + 1
  <2>1. x \in 1..n /\ y \in 1..n /\ x # y
    BY <1>1
  <2>2. c[i] = open[x] /\ c[j] = open[y]
    BY <1>8
  <2> HIDE DEF x, y
  <2> QED BY <2>1, <2>2 DEF Distinct
<1>10. FramesOf(c) = FramesOf(open) \ {open[k]}
  <2>1. ASSUME NEW i \in 1..(n - 1) PROVE c[i] \in FramesOf(open) \ {open[k]}
    <3> DEFINE x == IF i < k THEN i ELSE i + 1
    <3>1. x \in 1..n /\ x # k
      BY <1>1
    <3>2. c[i] = open[x]
      BY <1>8
    <3> HIDE DEF x
    <3>3. open[x] # open[k]
      BY <3>1 DEF Distinct
    <3> QED BY <3>1, <3>2, <3>3 DEF FramesOf
  <2>2. ASSUME NEW x \in 1..n, open[x] # open[k] PROVE \E i \in 1..(n - 1) : c[i] = open[x]
    <3>1. CASE x < k
      <4>1. x \in 1..(n - 1)
        BY <1>1, <3>1
      <4> QED BY <1>8, <3>1, <4>1
    <3>2. CASE ~(x < k)
      <4>1. x - 1 \in 1..(n - 1) /\ ~(x - 1 < k) /\ x - 1 + 1 = x
        <5>1. x # k
          BY <2>2
        <5> QED BY <1>1, <3>2, <5>1
      <4>2. c[x - 1] = open[x]
        BY <1>8, <4>1
      <4> QED BY <4>1, <4>2
    <3> QED BY <3>1, <3>2
  <2> QED BY <1>7, <2>1, <2>2 DEF FramesOf
<1> QED BY <1>6, <1>9, <1>10 DEF OpenIs, RemoveAt, c, a, b

(* A frame that goes on to its next edge. *)
LEMMA OpenAdvanced ==
  ASSUME NEW open \in Seq(Frames), Distinct(open), NEW k \in 1..Len(open)
  PROVE  LET advanced == [i \in 1..Len(open) |-> IF i = k THEN [open[i] EXCEPT !.next = @ + 1] ELSE open[i]]
         IN  OpenIs(advanced, (FramesOf(open) \ {open[k]})
                              \cup {[node |-> open[k].node, next |-> open[k].next + 1]})
<1> DEFINE n == Len(open)
           g == [node |-> open[k].node, next |-> open[k].next + 1]
           adv == [i \in 1..n |-> IF i = k THEN [open[i] EXCEPT !.next = @ + 1] ELSE open[i]]
<1>1. n \in Nat /\ \A i \in 1..n : open[i] \in Frames
  BY ElementOfSeq
<1>2. g \in Frames /\ [open[k] EXCEPT !.next = @ + 1] = g
  BY <1>1 DEF Frames
<1>3. \A i \in 1..n : adv[i] = IF i = k THEN g ELSE open[i]
  BY <1>2
<1>4. adv \in [1..n -> Frames]
  <2>1. adv = [i \in 1..n |-> adv[i]]
    OBVIOUS
  <2> HIDE DEF adv, g
  <2> QED BY <1>1, <1>2, <1>3, <2>1
<1>5. g.node = open[k].node
  OBVIOUS
<1> HIDE DEF adv, g
<1>6. adv \in Seq(Frames) /\ Len(adv) = n
  BY <1>1, <1>4
<1>7. Distinct(adv)
  BY <1>3, <1>5, <1>6 DEF Distinct
<1>8. FramesOf(adv) = (FramesOf(open) \ {open[k]}) \cup {g}
  <2>1. \A i \in 1..n : i # k => open[i] # open[k]
    BY DEF Distinct
  <2>2. \A i \in 1..n : adv[i] \in (FramesOf(open) \ {open[k]}) \cup {g}
    BY <1>3, <2>1 DEF FramesOf
  <2>3. \A i \in 1..n : open[i] # open[k] => adv[i] = open[i]
    BY <1>3
  <2>4. adv[k] = g
    BY <1>3
  <2> QED BY <1>6, <2>2, <2>3, <2>4 DEF FramesOf
<1> QED BY <1>6, <1>7, <1>8 DEF OpenIs, adv, g

(* A frame that joins. *)
LEMMA OpenJoined ==
  ASSUME NEW open \in Seq(Frames), Distinct(open), NEW g \in Frames,
         \A f \in FramesOf(open) : f.node # g.node
  PROVE  OpenIs(Append(open, g), FramesOf(open) \cup {g})
<1> DEFINE n == Len(open)
           c == Append(open, g)
<1>1. /\ c \in Seq(Frames) /\ Len(c) = n + 1 /\ n \in Nat
      /\ \A i \in 1..n : c[i] = open[i]
      /\ c[n + 1] = g
  BY AppendProperties
<1> HIDE DEF c
<1>2. \A i \in 1..(n + 1) : i \in 1..n \/ i = n + 1
  BY <1>1
<1>3. \A i \in 1..n : i \in 1..(n + 1) /\ n + 1 \in 1..(n + 1)
  BY <1>1
<1>35. n + 1 \in 1..(n + 1)
  BY <1>1
<1>4. \A i \in 1..n : open[i].node # g.node
  BY DEF FramesOf
<1>5. Distinct(c)
  BY <1>1, <1>2, <1>4 DEF Distinct
<1>6. FramesOf(c) = FramesOf(open) \cup {g}
  <2>1. \A i \in 1..(n + 1) : c[i] \in FramesOf(open) \cup {g}
    BY <1>1, <1>2 DEF FramesOf
  <2>2. \A i \in 1..n : open[i] \in FramesOf(c)
    BY <1>1, <1>3 DEF FramesOf
  <2>3. g \in FramesOf(c)
    BY <1>1, <1>35 DEF FramesOf
  <2>4. FramesOf(c) \subseteq FramesOf(open) \cup {g}
    BY <1>1, <2>1 DEF FramesOf
  <2>5. FramesOf(open) \subseteq FramesOf(c)
    BY <2>2 DEF FramesOf
  <2> QED BY <2>3, <2>4, <2>5
<1> QED BY <1>1, <1>5, <1>6 DEF OpenIs, c

(* The frames of the nodes that are open, of a traversal that has visited  *)
(* the nodes V.                                                            *)
FramesOK(F, V) ==
  /\ F \subseteq Frames
  /\ \A f, g \in F : f.node = g.node => f = g
  /\ \A f \in F : f.node \in V /\ 1 <= f.next /\ f.next <= Len(Edges(f.node)) + 1

(* What it has scanned. *)
Scanned(F, V) == {p \in Scans : p[1] \in V /\ \A f \in F : f.node = p[1] => p[2] < f.next}

(* The place of a frame is one of the scans. *)
LEMMA ScansIs ==
  ASSUME GraphOK
  PROVE  /\ \A p \in Scans : /\ p = <<p[1], p[2]>> /\ p[1] \in NodeIds /\ p[2] \in Nat
                             /\ 1 <= p[2] /\ p[2] <= Len(Edges(p[1])) + 1
         /\ \A n \in NodeIds, i \in Nat : 1 <= i /\ i <= Len(Edges(n)) + 1 => <<n, i>> \in Scans
<1>1. \A n : Len(Edges(n)) \in Nat
  BY EdgesType
<1>2. \A p : p \in Scans <=> \E n \in NodeIds : p \in {n} \X (1..(Len(Edges(n)) + 1))
  BY DEF Scans
<1>3. ASSUME NEW p \in Scans
      PROVE  /\ p = <<p[1], p[2]>> /\ p[1] \in NodeIds /\ p[2] \in Nat
             /\ 1 <= p[2] /\ p[2] <= Len(Edges(p[1])) + 1
  <2>1. PICK n \in NodeIds : p \in {n} \X (1..(Len(Edges(n)) + 1))
    BY <1>2
  <2>2. Len(Edges(n)) \in Nat
    BY <1>1
  <2>3. p = <<p[1], p[2]>> /\ p[1] = n /\ p[2] \in 1..(Len(Edges(n)) + 1)
    BY <2>1
  <2> QED BY <2>2, <2>3
<1>4. ASSUME NEW n \in NodeIds, NEW i \in Nat, 1 <= i, i <= Len(Edges(n)) + 1
      PROVE  <<n, i>> \in Scans
  <2>1. i \in 1..(Len(Edges(n)) + 1)
    BY <1>1, <1>4
  <2>2. <<n, i>> \in {n} \X (1..(Len(Edges(n)) + 1))
    BY <2>1
  <2> QED BY <1>2, <2>2
<1> QED BY <1>3, <1>4

(* At the end of a node. *)
LEMMA ScanClosed ==
  ASSUME GraphOK, NEW V \in SUBSET NodeIds, NEW F, FramesOK(F, V),
         NEW f \in F, f.next > Len(Edges(f.node))
  PROVE  /\ FramesOK(F \ {f}, V)
         /\ <<f.node, f.next>> \in Scans \ Scanned(F, V)
         /\ Scanned(F \ {f}, V) = Scanned(F, V) \cup {<<f.node, f.next>>}
<1> DEFINE q == <<f.node, f.next>>
<1>1. FramesOK(F \ {f}, V)
  BY DEF FramesOK
<1>2. f.node \in V /\ f.node \in NodeIds /\ f.next \in Nat /\ 1 <= f.next /\ f.next = Len(Edges(f.node)) + 1
  <2>1. Len(Edges(f.node)) \in Nat
    BY EdgesType
  <2> QED BY <2>1 DEF FramesOK, Frames
<1>3. q \in Scans
  BY <1>2, ScansIs
<1>4. q[1] = f.node /\ q[2] = f.next
  OBVIOUS
<1> HIDE DEF q
<1>5. q \notin Scanned(F, V)
  BY <1>2, <1>4 DEF Scanned
<1>6. ASSUME NEW p \in Scans, p[1] # f.node
      PROVE  p \in Scanned(F \ {f}, V) <=> p \in Scanned(F, V)
  BY <1>6 DEF Scanned
<1>7. ASSUME NEW p \in Scans, p[1] = f.node
      PROVE  p \in Scanned(F \ {f}, V) /\ (p \in Scanned(F, V) \/ p = q)
  <2>1. p = <<p[1], p[2]>> /\ p[2] \in Nat /\ p[2] <= f.next
    BY <1>2, <1>7, ScansIs
  <2>2. \A g \in F : g.node = f.node => g = f
    BY DEF FramesOK
  <2>3. p \in Scanned(F \ {f}, V)
    BY <1>2, <1>7, <2>2 DEF Scanned
  <2>4. CASE p[2] = f.next
    BY <1>7, <2>1, <2>3, <2>4 DEF q
  <2>5. CASE p[2] # f.next
    <3>1. p[2] < f.next
      BY <1>2, <2>1, <2>5
    <3>2. p \in Scanned(F, V)
      BY <1>2, <1>7, <2>2, <3>1 DEF Scanned
    <3> QED BY <2>3, <3>2
  <2> QED BY <2>3, <2>4, <2>5
<1>8. Scanned(F \ {f}, V) = Scanned(F, V) \cup {q}
  <2>1. Scanned(F \ {f}, V) \subseteq Scans /\ Scanned(F, V) \subseteq Scans
    BY DEF Scanned
  <2> QED BY <1>3, <1>4, <1>6, <1>7, <2>1
<1> QED BY <1>1, <1>3, <1>5, <1>8 DEF q

(* At one of the edges. *)
LEMMA ScanAdvanced ==
  ASSUME GraphOK, NEW V \in SUBSET NodeIds, NEW F, FramesOK(F, V),
         NEW f \in F, ~(f.next > Len(Edges(f.node)))
  PROVE  LET G == (F \ {f}) \cup {[node |-> f.node, next |-> f.next + 1]}
         IN  /\ FramesOK(G, V)
             /\ <<f.node, f.next>> \in Scans \ Scanned(F, V)
             /\ Scanned(G, V) = Scanned(F, V) \cup {<<f.node, f.next>>}
<1> DEFINE q == <<f.node, f.next>>
           h == [node |-> f.node, next |-> f.next + 1]
           G == (F \ {f}) \cup {h}
<1>0. h.node = f.node /\ h.next = f.next + 1
  OBVIOUS
<1>2. f.node \in V /\ f.node \in NodeIds /\ f.next \in Nat /\ 1 <= f.next /\ f.next <= Len(Edges(f.node))
  <2>1. Len(Edges(f.node)) \in Nat
    BY EdgesType
  <2> QED BY <2>1 DEF FramesOK, Frames
<1>01. h \in Frames
  BY <1>2 DEF Frames
<1> HIDE DEF h
<1>1. FramesOK(G, V)
  <2>1. 1 <= h.next /\ h.next <= Len(Edges(h.node)) + 1
    <3>1. Len(Edges(f.node)) \in Nat
      BY EdgesType
    <3> QED BY <1>0, <1>2, <3>1
  <2> QED BY <1>0, <1>2, <1>01, <2>1 DEF FramesOK
<1>3. q \in Scans
  <2>1. Len(Edges(f.node)) \in Nat
    BY EdgesType
  <2>2. f.next <= Len(Edges(f.node)) + 1
    BY <1>2, <2>1
  <2> QED BY <1>2, <2>2, ScansIs
<1>4. q[1] = f.node /\ q[2] = f.next
  OBVIOUS
<1> HIDE DEF q
<1>5. q \notin Scanned(F, V)
  BY <1>2, <1>4 DEF Scanned
<1>6. ASSUME NEW p \in Scans, p[1] # f.node
      PROVE  p \in Scanned(G, V) <=> p \in Scanned(F, V)
  BY <1>0, <1>6 DEF Scanned
<1>7. ASSUME NEW p \in Scans, p[1] = f.node
      PROVE  p \in Scanned(G, V) <=> (p \in Scanned(F, V) \/ p = q)
  <2>1. p = <<p[1], p[2]>> /\ p[2] \in Nat
    BY ScansIs
  <2>2. \A g \in F : g.node = f.node => g = f
    BY DEF FramesOK
  <2>3. p \in Scanned(G, V) <=> p[2] < f.next + 1
    BY <1>0, <1>2, <1>7, <2>2 DEF Scanned
  <2>4. p \in Scanned(F, V) <=> p[2] < f.next
    BY <1>2, <1>7, <2>2 DEF Scanned
  <2>5. p = q <=> p[2] = f.next
    BY <1>7, <2>1, <1>4 DEF q
  <2>6. p[2] < f.next + 1 <=> (p[2] < f.next \/ p[2] = f.next)
    BY <1>2, <2>1
  <2> QED BY <2>3, <2>4, <2>5, <2>6, Zenon
<1>8. Scanned(G, V) = Scanned(F, V) \cup {q}
  <2>1. Scanned(G, V) \subseteq Scans /\ Scanned(F, V) \subseteq Scans
    BY DEF Scanned
  <2>2. q[1] = f.node
    BY <1>4
  <2> HIDE DEF G
  <2>3. \A p \in Scans : p \in Scanned(G, V) <=> (p \in Scanned(F, V) \/ p = q)
    BY <1>6, <1>7, <2>2
  <2> QED BY <1>3, <2>1, <2>3
<1> QED BY <1>1, <1>3, <1>5, <1>8 DEF q, h

(* A new node has nothing scanned. *)
LEMMA ScanJoined ==
  ASSUME GraphOK, NEW V \in SUBSET NodeIds, NEW F, FramesOK(F, V), NEW m \in NodeIds \ V
  PROVE  /\ FramesOK(F \cup {Frame(m)}, V \cup {m})
         /\ Scanned(F \cup {Frame(m)}, V \cup {m}) = Scanned(F, V)
         /\ Frame(m) \in Frames
         /\ \A f \in F : f.node # Frame(m).node
<1> DEFINE h == Frame(m)
<1>1. h.node = m /\ h.next = 1 /\ h \in Frames
  BY DEF Frame, Frames
<1> HIDE DEF h
<1>2. Len(Edges(m)) \in Nat
  BY EdgesType
<1>3. 1 <= h.next /\ h.next <= Len(Edges(m)) + 1
  BY <1>1, <1>2
<1>4. \A f \in F : f.node # m
  BY DEF FramesOK
<1>5. FramesOK(F \cup {h}, V \cup {m})
  BY <1>1, <1>3, <1>4 DEF FramesOK
<1>6. Scanned(F \cup {h}, V \cup {m}) = Scanned(F, V)
  <2>1. ASSUME NEW p \in Scans PROVE p \in Scanned(F \cup {h}, V \cup {m}) <=> p \in Scanned(F, V)
    <3>1. CASE p[1] = m
      <4>1. ~(p[2] < h.next)
        BY <1>1, ScansIs
      <4> QED BY <1>1, <3>1, <4>1 DEF Scanned
    <3>2. CASE p[1] # m
      BY <1>1, <3>2 DEF Scanned
    <3> QED BY <3>1, <3>2
  <2>2. Scanned(F \cup {h}, V \cup {m}) \subseteq Scans /\ Scanned(F, V) \subseteq Scans
    BY DEF Scanned
  <2> QED BY <2>1, <2>2
<1> QED BY <1>1, <1>4, <1>5, <1>6 DEF h

(* A set of nodes that no edge leaves. *)
Closed(S) == \A m \in S : \A i \in 1..Len(Edges(m)) : Edges(m)[i].to \in S

(* What a traversal from start has open and visited: nothing it could not  *)
(* reach, and the target of every edge that it has scanned.                *)
WalkOK(s, start) ==
  /\ s.visited \subseteq NodeIds /\ start \in s.visited
  /\ s.open \in Seq(Frames) /\ Distinct(s.open)
  /\ FramesOK(FramesOf(s.open), s.visited)
  /\ \A S \in SUBSET NodeIds : start \in S /\ Closed(S) => s.visited \subseteq S
  /\ \A p \in Scanned(FramesOf(s.open), s.visited) :
       p[2] <= Len(Edges(p[1])) => Edges(p[1])[p[2]].to \in s.visited

Progress(s) == Scanned(FramesOf(s.open), s.visited)

(* t scans one place more than s. *)
OneMore(s, t) == \E q \in Scans \ Progress(s) : Progress(t) = Progress(s) \cup {q}

(* A step of a traversal, at position k. *)
LEMMA StepOK ==
  ASSUME GraphOK, NEW start, NEW s, WalkOK(s, start), NEW k \in 1..Len(s.open), NEW t,
         t.open = OpenAfter(s, k), t.visited = VisitedAfter(s, k)
  PROVE  /\ WalkOK(t, start) /\ OneMore(s, t)
         /\ s.open[k] \in Frames /\ s.open[k].node \in s.visited
         /\ ~AtEnd(s, k) => NextEdge(s, k) \in EdgeRecords
<1> DEFINE f == s.open[k]
           F == FramesOf(s.open)
           V == s.visited
           q == <<f.node, f.next>>
           L == Len(Edges(f.node))
<1>1. f \in F /\ f \in Frames /\ F \subseteq Frames
  <2>1. \A i \in 1..Len(s.open) : s.open[i] \in Frames
    BY ElementOfSeq DEF WalkOK
  <2> QED BY <2>1 DEF FramesOf
<1>2. f.node \in V /\ f.next \in Nat /\ 1 <= f.next /\ f.next <= L + 1 /\ L \in Nat
  BY <1>1, EdgesType DEF WalkOK, FramesOK, Frames
<1>3. /\ V \in SUBSET NodeIds /\ start \in V /\ FramesOK(F, V)
      /\ s.open \in Seq(Frames) /\ Distinct(s.open)
  BY DEF WalkOK
<1>4. /\ \A S \in SUBSET NodeIds : start \in S /\ Closed(S) => V \subseteq S
      /\ \A p \in Scanned(F, V) : p[2] <= Len(Edges(p[1])) => Edges(p[1])[p[2]].to \in V
  BY DEF WalkOK
<1>5. AtEnd(s, k) <=> f.next > L
  BY DEF AtEnd
<1>6. ~AtEnd(s, k) => /\ NextEdge(s, k) \in EdgeRecords /\ f.next \in 1..L
                      /\ NextEdge(s, k) = Edges(f.node)[f.next]
  <2>1. \A i \in 1..L : Edges(f.node)[i] \in EdgeRecords
    BY EdgesType, ElementOfSeq
  <2> QED BY <1>2, <1>5, <2>1 DEF NextEdge
<1>7. q[1] = f.node /\ q[2] = f.next
  OBVIOUS
<1> HIDE DEF f, F, V, q, L
<1>8. CASE AtEnd(s, k)
  <2>1. t.open = RemoveAt(s.open, k) /\ t.visited = V
    BY <1>8 DEF OpenAfter, VisitedAfter, Fresh, V
  <2>2. t.open \in Seq(Frames) /\ Distinct(t.open) /\ FramesOf(t.open) = F \ {f}
    BY <1>3, <2>1, OpenClosed DEF OpenIs, F, f
  <2>3. /\ FramesOK(F \ {f}, V) /\ q \in Scans \ Scanned(F, V)
        /\ Scanned(F \ {f}, V) = Scanned(F, V) \cup {q}
    <3>1. f.next > Len(Edges(f.node))
      BY <1>5, <1>8 DEF L
    <3> QED BY <1>1, <1>3, <3>1, ScanClosed DEF q
  <2>4. \A p \in Scanned(F \ {f}, V) : p[2] <= Len(Edges(p[1])) => Edges(p[1])[p[2]].to \in V
    <3>1. ~(q[2] <= Len(Edges(q[1])))
      BY <1>2, <1>5, <1>7, <1>8 DEF L
    <3> QED BY <1>4, <2>3, <3>1
  <2>5. WalkOK(t, start)
    BY <1>3, <1>4, <2>1, <2>2, <2>3, <2>4 DEF WalkOK
  <2>6. OneMore(s, t)
    BY <2>1, <2>2, <2>3 DEF OneMore, Progress, F, V
  <2> QED BY <1>1, <1>2, <1>8, <2>5, <2>6 DEF f, V
<1>9. CASE ~AtEnd(s, k)
  <2> DEFINE advanced == [i \in 1..Len(s.open) |-> IF i = k THEN [s.open[i] EXCEPT !.next = @ + 1] ELSE s.open[i]]
             h == [node |-> f.node, next |-> f.next + 1]
             G == (F \ {f}) \cup {h}
             m == NextEdge(s, k).to
  <2>1. advanced \in Seq(Frames) /\ Distinct(advanced) /\ FramesOf(advanced) = G
    BY <1>3, OpenAdvanced DEF OpenIs, F, f
  <2>2. /\ FramesOK(G, V) /\ q \in Scans \ Scanned(F, V)
        /\ Scanned(G, V) = Scanned(F, V) \cup {q}
    <3>1. ~(f.next > Len(Edges(f.node)))
      BY <1>5, <1>9 DEF L
    <3> QED BY <1>1, <1>3, <3>1, ScanAdvanced DEF q
  <2>3. m \in NodeIds /\ m = Edges(q[1])[q[2]].to
    BY <1>6, <1>7, <1>9 DEF EdgeRecords
  <2>4. \A S \in SUBSET NodeIds : start \in S /\ Closed(S) => m \in S
    BY <1>2, <1>4, <1>6, <1>9 DEF Closed, L
  <2>5. CASE Fresh(s, k)
    <3>1. t.open = Append(advanced, Frame(m)) /\ t.visited = V \cup {m} /\ m \notin V
      BY <1>9, <2>5 DEF OpenAfter, VisitedAfter, Fresh, V
    <3> HIDE DEF advanced, h, G, m
    <3>2. /\ FramesOK(G \cup {Frame(m)}, V \cup {m})
          /\ Scanned(G \cup {Frame(m)}, V \cup {m}) = Scanned(G, V)
          /\ Frame(m) \in Frames
          /\ \A g \in G : g.node # Frame(m).node
      <4>1. m \in NodeIds \ V /\ V \in SUBSET NodeIds /\ FramesOK(G, V)
        BY <1>3, <2>2, <2>3, <3>1
      <4> QED BY ONLY <4>1, GraphOK, ScanJoined
    <3>3. t.open \in Seq(Frames) /\ Distinct(t.open) /\ FramesOf(t.open) = G \cup {Frame(m)}
      BY <2>1, <3>1, <3>2, OpenJoined DEF OpenIs
    <3>4. \A p \in Scanned(F, V) \cup {q} : p[2] <= Len(Edges(p[1])) => Edges(p[1])[p[2]].to \in V \cup {m}
      BY <1>4, <2>3
    <3>5. \A p \in Scanned(FramesOf(t.open), t.visited) :
             p[2] <= Len(Edges(p[1])) => Edges(p[1])[p[2]].to \in t.visited
      BY <2>2, <3>1, <3>2, <3>3, <3>4
    <3>6. t.visited \subseteq NodeIds /\ start \in t.visited /\ FramesOK(FramesOf(t.open), t.visited)
      BY <1>3, <2>3, <3>1, <3>2, <3>3
    <3>7. \A S \in SUBSET NodeIds : start \in S /\ Closed(S) => t.visited \subseteq S
      BY <1>4, <2>4, <3>1
    <3>8. WalkOK(t, start)
      BY <3>3, <3>5, <3>6, <3>7 DEF WalkOK
    <3>9. OneMore(s, t)
      <4>1. Progress(t) = Scanned(F, V) \cup {q}
        BY <2>2, <3>1, <3>2, <3>3 DEF Progress
      <4> QED BY <2>2, <4>1 DEF OneMore, Progress, F, V
    <3> QED BY <1>1, <1>2, <1>6, <3>8, <3>9 DEF f, V
  <2>6. CASE ~Fresh(s, k)
    <3>1. t.open = advanced /\ t.visited = V /\ m \in V
      BY <1>9, <2>6 DEF OpenAfter, VisitedAfter, Fresh, V
    <3> HIDE DEF advanced, h, G, m
    <3>4. \A p \in Scanned(F, V) \cup {q} : p[2] <= Len(Edges(p[1])) => Edges(p[1])[p[2]].to \in V
      BY <1>4, <2>3, <3>1
    <3>8. WalkOK(t, start)
      BY <1>3, <1>4, <2>1, <2>2, <3>1, <3>4 DEF WalkOK
    <3>9. OneMore(s, t)
      <4>1. Progress(t) = Scanned(F, V) \cup {q}
        BY <2>1, <2>2, <3>1 DEF Progress
      <4> QED BY <2>2, <4>1 DEF OneMore, Progress, F, V
    <3> QED BY <1>1, <1>2, <1>6, <3>8, <3>9 DEF f, V
  <2> QED BY <2>5, <2>6
<1> QED BY <1>8, <1>9

(* Induction up to n: S is the set of the numbers for which the claim holds. *)
LEMMA Forward ==
  ASSUME NEW n \in Nat, NEW S, 0 \in S, \A m \in 0..n : m < n /\ m \in S => m + 1 \in S
  PROVE  \A m \in 0..n : m \in S
<1> DEFINE V == {m \in 0..n : m \notin S}
<1> SUFFICES ASSUME V # {} PROVE FALSE
  OBVIOUS
<1>1. V \in SUBSET Nat
  OBVIOUS
<1>2. PICK m \in V : \A y \in V : <<y, m>> \notin OpToRel(<, Nat)
  <2> HIDE DEF V
  <2> QED BY <1>1, WFMin, NatLessThanWellFounded
<1>3. \A y \in V : ~(y < m)
  <2> HIDE DEF V
  <2> QED BY <1>1, <1>2 DEF OpToRel
<1>4. m \in 0..n /\ m \notin S /\ m # 0
  OBVIOUS
<1>5. m - 1 \in 0..n /\ m - 1 < m /\ m - 1 < n /\ m - 1 + 1 = m
  BY <1>4
<1>6. m - 1 \in S
  BY <1>3, <1>5
<1> QED BY <1>4, <1>5, <1>6

(* The four loops of the module: the queue of bfs_traversal, the calls of  *)
(* dfs_recursive, those of propagate_cost_recursive, and CostAlong.        *)
LoopBegin(loop, start) ==
  IF loop = "bfs" \/ loop = "dfs" THEN Begin(start)
  ELSE IF loop = "cost" THEN [open |-> <<Frame(start)>>, visited |-> {start}, total |-> CostOf(start)]
  ELSE CostOf(start)

LoopStep(loop, paths, x, k) ==
  IF loop = "bfs" THEN Traverse(x, 1)
  ELSE IF loop = "dfs" THEN dfs_recursive(x)
  ELSE IF loop = "cost" THEN propagate_cost_recursive(x)
  ELSE x + nodes_[paths[k].to] * paths[k].weight

Loop(f, n, loop, start, paths) ==
  f = [k \in 0..n |-> IF k = 0 THEN LoopBegin(loop, start) ELSE LoopStep(loop, paths, f[k - 1], k)]

(* The functions that they define by recursion exist. *)
LEMMA LoopExists ==
  ASSUME NEW loop, NEW start, NEW paths, NEW n \in Nat
  PROVE  \E f : Loop(f, n, loop, start, paths)
<1> DEFINE E(m) == \E f : Loop(f, m, loop, start, paths)
           S == {m \in 0..n : E(m)}
<1>1. 0 \in S
  <2> DEFINE f == [k \in 0..0 |-> LoopBegin(loop, start)]
  <2>1. f = [k \in 0..0 |-> IF k = 0 THEN LoopBegin(loop, start) ELSE LoopStep(loop, paths, f[k - 1], k)]
    OBVIOUS
  <2>2. Loop(f, 0, loop, start, paths)
    BY <2>1 DEF Loop
  <2>3. E(0)
    <3> HIDE DEF f
    <3> QED BY <2>2
  <2> HIDE DEF E
  <2> QED BY <2>3
<1>2. ASSUME NEW m \in 0..n, m < n, m \in S PROVE m + 1 \in S
  <2>1. PICK g : Loop(g, m, loop, start, paths)
    BY <1>2
  <2> DEFINE l == m + 1
             f == [k \in 0..l |-> IF k = l THEN LoopStep(loop, paths, g[m], l) ELSE g[k]]
  <2>2. \A k \in 0..m : g[k] = IF k = 0 THEN LoopBegin(loop, start) ELSE LoopStep(loop, paths, g[k - 1], k)
    BY <2>1 DEF Loop
  <2>3. \A k \in 0..l : f[k] = IF k = l THEN LoopStep(loop, paths, g[m], l) ELSE g[k]
    OBVIOUS
  <2>4. f = [k \in 0..l |-> f[k]]
    OBVIOUS
  <2>5. l \in 0..n /\ l \in Nat /\ l - 1 = m /\ l # 0 /\ m \in 0..l /\ m # l
    BY <1>2
  <2>6. \A k \in 0..l : k # l => k \in 0..m /\ (k # 0 => k - 1 \in 0..l /\ k - 1 # l)
    BY <1>2
  <2> HIDE DEF f, E, S, l
  <2>7. ASSUME NEW k \in 0..l
        PROVE  f[k] = IF k = 0 THEN LoopBegin(loop, start) ELSE LoopStep(loop, paths, f[k - 1], k)
    <3>1. CASE k = l
      BY <2>3, <2>5, <3>1
    <3>2. CASE k # l
      BY <2>2, <2>3, <2>6, <3>2
    <3> QED BY <3>1, <3>2
  <2>8. Loop(f, l, loop, start, paths)
    BY <2>4, <2>7 DEF Loop
  <2>9. E(l)
    BY <2>8 DEF E
  <2> QED BY <2>5, <2>9 DEF S, l
<1>3. \A m \in 0..n : m \in S
  <2> HIDE DEF S
  <2> QED BY <1>1, <1>2, Forward
<1> QED BY <1>3

(* The steps of a loop, named. *)
IsLoop(f, n, loop, start, paths) ==
  /\ f[0] = LoopBegin(loop, start)
  /\ \A m \in 0..n : m < n => f[m + 1] = LoopStep(loop, paths, f[m], m + 1)

(* What such a function satisfies, step by step. *)
LEMMA LoopUnfolds ==
  ASSUME NEW f, NEW n \in Nat, NEW loop, NEW start, NEW paths, Loop(f, n, loop, start, paths)
  PROVE  IsLoop(f, n, loop, start, paths)
<1>1. \A k \in 0..n : f[k] = IF k = 0 THEN LoopBegin(loop, start) ELSE LoopStep(loop, paths, f[k - 1], k)
  BY DEF Loop
<1>2. f[0] = LoopBegin(loop, start)
  BY <1>1
<1>3. ASSUME NEW m \in 0..n, m < n PROVE f[m + 1] = LoopStep(loop, paths, f[m], m + 1)
  <2> DEFINE k == m + 1
  <2>1. k \in 0..n /\ k # 0 /\ k - 1 = m
    BY <1>3
  <2> HIDE DEF k
  <2>2. f[k] = LoopStep(loop, paths, f[m], k)
    BY <1>1, <2>1
  <2> QED BY <2>2 DEF k
<1> QED BY <1>2, <1>3 DEF IsLoop

(* The scans are finite, so the rounds are a number. *)
LEMMA RoundsFinite == ASSUME GraphOK PROVE IsFiniteSet(Scans) /\ Rounds \in Nat
<1> DEFINE of == [n \in NodeIds |-> {n} \X (1..(Len(Edges(n)) + 1))]
           parts == {of[n] : n \in NodeIds}
<1>1. \A n : Len(Edges(n)) \in Nat
  BY EdgesType
<1>2. IsFiniteSet(parts)
  <2>1. of \in Surjection(NodeIds, parts)
    BY DEF Surjection
  <2> HIDE DEF of, parts
  <2> QED BY <2>1, NodesAssumption, FS_Surjection
<1>3. ASSUME NEW n \in NodeIds PROVE IsFiniteSet(of[n])
  <2> DEFINE L == Len(Edges(n)) + 1
  <2>1. L \in Int /\ 1 \in Int
    BY <1>1
  <2>2. IsFiniteSet({n}) /\ IsFiniteSet(1..L)
    <3> HIDE DEF L
    <3> QED BY <2>1, FS_Singleton, FS_Interval
  <2>3. IsFiniteSet({n} \X (1..L))
    <3> HIDE DEF L
    <3> QED BY <2>2, FS_Product
  <2> QED BY <2>3
<1>4. \A T \in parts : IsFiniteSet(T)
  BY <1>3
<1>5. IsFiniteSet(UNION parts)
  <2> HIDE DEF parts
  <2> QED BY <1>2, <1>4, FS_UNION
<1>6. Scans = UNION parts
  BY DEF Scans
<1>7. IsFiniteSet(Scans)
  <2> HIDE DEF parts
  <2> QED BY <1>5, <1>6
<1> QED BY <1>7, FS_CardinalityType DEF Rounds

(* The paths reported once V has been visited: each node but start by one  *)
(* path, from start or from a node reported before.                        *)
PathsOK(paths, V, start) ==
  /\ paths \in Seq(PathRecords)
  /\ \A i, j \in 1..Len(paths) : i # j => paths[i].to # paths[j].to
  /\ {paths[i].to : i \in 1..Len(paths)} = V \ {start}
  /\ \A i \in 1..Len(paths) :
       paths[i].from = start \/ \E j \in 1..(i - 1) : paths[j].to = paths[i].from

(* The path to a new node. *)
LEMMA PathsJoined ==
  ASSUME NEW start, NEW V \in SUBSET NodeIds, start \in V, NEW paths, PathsOK(paths, V, start),
         NEW n \in V, NEW e \in EdgeRecords, e.to \notin V
  PROVE  PathsOK(Append(paths, TraversalPath(n, e)), V \cup {e.to}, start)
<1> DEFINE p == TraversalPath(n, e)
           c == Append(paths, p)
           l == Len(paths)
<1>1. p \in PathRecords /\ p.from = n /\ p.to = e.to
  BY DEF TraversalPath, PathRecords, EdgeRecords
<1>2. paths \in Seq(PathRecords) /\ l \in Nat
  BY DEF PathsOK
<1> HIDE DEF p
<1>3. /\ c \in Seq(PathRecords) /\ Len(c) = l + 1
      /\ \A i \in 1..l : c[i] = paths[i]
      /\ c[l + 1] = p
  BY <1>1, <1>2, AppendProperties
<1> HIDE DEF c
<1>4. \A i \in 1..(l + 1) : i \in 1..l \/ i = l + 1
  BY <1>2
<1>5. \A i \in 1..l : i \in 1..(l + 1)
  BY <1>2
<1>6. l + 1 \in 1..(l + 1)
  BY <1>2
<1>7. {paths[i].to : i \in 1..l} = V \ {start}
  BY DEF PathsOK
<1>8. \A i \in 1..l : paths[i].to # e.to
  BY <1>7
<1> HIDE DEF l
<1>9. \A i, j \in 1..(l + 1) : i # j => c[i].to # c[j].to
  <2>1. \A i, j \in 1..l : i # j => paths[i].to # paths[j].to
    BY DEF PathsOK, l
  <2> QED BY <1>1, <1>3, <1>4, <1>8, <2>1
<1>10. {c[i].to : i \in 1..(l + 1)} = (V \cup {e.to}) \ {start}
  <2>1. \A i \in 1..(l + 1) : c[i].to \in (V \cup {e.to}) \ {start}
    BY <1>1, <1>3, <1>4, <1>7
  <2>2. \A v \in V \ {start} : \E i \in 1..(l + 1) : c[i].to = v
    <3>1. \A v \in V \ {start} : \E i \in 1..l : paths[i].to = v
      BY <1>7
    <3> QED BY <1>3, <1>5, <3>1
  <2>3. c[l + 1].to = e.to
    BY <1>1, <1>3
  <2> QED BY <1>6, <2>1, <2>2, <2>3
<1>11. ASSUME NEW i \in 1..(l + 1)
       PROVE  c[i].from = start \/ \E j \in 1..(i - 1) : c[j].to = c[i].from
  <2>1. CASE i \in 1..l
    <3>1. \A j \in 1..(i - 1) : j \in 1..l
      BY <1>2, <2>1
    <3>2. paths[i].from = start \/ \E j \in 1..(i - 1) : paths[j].to = paths[i].from
      BY <2>1 DEF PathsOK, l
    <3> QED BY <1>3, <2>1, <3>1, <3>2
  <2>2. CASE i = l + 1
    <3>1. i - 1 = l
      BY <1>2, <2>2
    <3>2. n = start \/ \E j \in 1..l : paths[j].to = n
      BY <1>7
    <3>3. c[i].from = n
      BY <1>1, <1>3, <2>2
    <3> QED BY <1>3, <3>1, <3>2, <3>3
  <2> QED BY <1>4, <2>1, <2>2
<1> QED BY <1>3, <1>9, <1>10, <1>11 DEF PathsOK, c, p

(* The state of a traversal after m steps: it is through, or has scanned m *)
(* places.                                                                 *)
TraversalOK(s, start, m) ==
  /\ WalkOK(s, start) /\ PathsOK(s.paths, s.visited, start)
  /\ s.open = <<>> \/ Cardinality(Progress(s)) = m

(* Before the first step. *)
LEMMA TraversalBegins ==
  ASSUME GraphOK, NEW start \in NodeIds
  PROVE  TraversalOK(Begin(start), start, 0)
<1> DEFINE s == Begin(start)
           h == Frame(start)
           o == <<h>>
           E == {}
<1>1. h \in Frames /\ h.node = start /\ h.next = 1
  BY DEF Frame, Frames
<1>2. s.open = o /\ s.visited = {start} /\ s.paths = <<>>
  BY DEF Begin
<1>3. Len(Edges(start)) \in Nat
  BY EdgesType
<1> HIDE DEF h
<1>4. o \in Seq(Frames) /\ Len(o) = 1 /\ o[1] = h
  BY <1>1
<1> HIDE DEF o, s
<1>5. Distinct(o) /\ FramesOf(o) = {h}
  BY <1>4 DEF Distinct, FramesOf
<1>6. FramesOK({h}, {start})
  <2>1. 1 <= 1 /\ 1 <= Len(Edges(start)) + 1
    BY <1>3
  <2> QED BY <1>1, <2>1 DEF FramesOK
<1>7. Progress(s) = {}
  <2>1. Scanned({h}, {start}) = {}
    <3>1. \A p \in Scans : 1 <= p[2] /\ p[2] \in Nat
      BY ScansIs
    <3>2. \A p \in Scans : ~(p[2] < 1)
      BY <3>1
    <3> QED BY <1>1, <3>2 DEF Scanned
  <2> QED BY <1>2, <1>5, <2>1 DEF Progress
<1>8. WalkOK(s, start)
  BY <1>2, <1>4, <1>5, <1>6, <1>7 DEF WalkOK, Progress
<1>9. PathsOK(s.paths, s.visited, start)
  <2>1. <<>> \in Seq(PathRecords) /\ Len(<<>>) = 0
    BY EmptySeq
  <2> DEFINE e == <<>>
  <2> HIDE DEF e
  <2>2. e \in Seq(PathRecords) /\ 1..Len(e) = {}
    BY <2>1 DEF e
  <2>3. PathsOK(e, {start}, start)
    BY <2>2 DEF PathsOK
  <2> QED BY <1>2, <2>3 DEF e
<1> QED BY <1>7, <1>8, <1>9, FS_EmptySet DEF TraversalOK, s

(* A traversal takes one more step, at position k. *)
LEMMA TraversalSteps ==
  ASSUME GraphOK, NEW start, NEW m \in Nat, NEW s, TraversalOK(s, start, m),
         NEW k, s.open # <<>> => k \in 1..Len(s.open)
  PROVE  TraversalOK(Traverse(s, k), start, m + 1)
<1>1. CASE s.open = <<>>
  BY <1>1 DEF Traverse, TraversalOK
<1>2. CASE s.open # <<>>
  <2> DEFINE t == Traverse(s, k)
             e == NextEdge(s, k)
             V == s.visited
  <2>1. /\ t.open = OpenAfter(s, k) /\ t.visited = VisitedAfter(s, k)
        /\ t.paths = IF Fresh(s, k) THEN Append(s.paths, TraversalPath(s.open[k].node, e)) ELSE s.paths
    BY <1>2 DEF Traverse
  <2> HIDE DEF t
  <2>2. /\ WalkOK(t, start) /\ OneMore(s, t)
        /\ s.open[k].node \in V
        /\ ~AtEnd(s, k) => e \in EdgeRecords
    <3>1. k \in 1..Len(s.open) /\ WalkOK(s, start)
      BY <1>2 DEF TraversalOK
    <3> QED BY <2>1, <3>1, StepOK
  <2>3. V \in SUBSET NodeIds /\ start \in V /\ PathsOK(s.paths, V, start)
    BY DEF TraversalOK, WalkOK
  <2>4. PathsOK(t.paths, t.visited, start)
    <3>1. CASE Fresh(s, k)
      <4>1. e \in EdgeRecords /\ e.to \notin V /\ t.visited = V \cup {e.to}
        BY <2>1, <2>2, <3>1 DEF Fresh, VisitedAfter
      <4> HIDE DEF e, V
      <4>2. t.paths = Append(s.paths, TraversalPath(s.open[k].node, e))
        BY <2>1, <3>1
      <4> QED BY <2>2, <2>3, <4>1, <4>2, PathsJoined
    <3>2. CASE ~Fresh(s, k)
      BY <2>1, <2>3, <3>2 DEF VisitedAfter
    <3> QED BY <3>1, <3>2
  <2>5. Cardinality(Progress(t)) = m + 1
    <3>1. PICK q \in Scans \ Progress(s) : Progress(t) = Progress(s) \cup {q}
      BY <2>2 DEF OneMore
    <3>2. Progress(s) \in SUBSET Scans
      BY DEF Progress, Scanned
    <3>3. IsFiniteSet(Progress(s))
      BY <3>2, RoundsFinite, FS_Subset
    <3>4. Cardinality(Progress(s)) = m
      BY <1>2 DEF TraversalOK
    <3> QED BY <3>1, <3>3, <3>4, FS_AddElement
  <2> QED BY <2>2, <2>4, <2>5 DEF TraversalOK, t
<1> QED BY <1>1, <1>2

(* Position 1 and the last one are there. *)
LEMMA Positions ==
  ASSUME NEW s, s.open \in Seq(Frames), s.open # <<>>
  PROVE  1 \in 1..Len(s.open) /\ Len(s.open) \in 1..Len(s.open)
<1>1. Len(s.open) \in Nat /\ Len(s.open) # 0
  BY EmptySeq
<1> QED BY <1>1

(* So it stays, to the last round. *)
LEMMA TraversalRuns ==
  ASSUME GraphOK, NEW start \in NodeIds, NEW loop \in {"bfs", "dfs"}, NEW paths, NEW f, NEW n \in Nat,
         IsLoop(f, n, loop, start, paths)
  PROVE  \A m \in 0..n : TraversalOK(f[m], start, m)
<1> DEFINE S == {m \in 0..n : TraversalOK(f[m], start, m)}
<1>1. 0 \in S
  <2>1. f[0] = Begin(start)
    BY DEF IsLoop, LoopBegin
  <2> QED BY <2>1, TraversalBegins
<1>2. ASSUME NEW m \in 0..n, m < n, m \in S PROVE m + 1 \in S
  <2> DEFINE s == f[m]
  <2>1. TraversalOK(s, start, m) /\ m \in Nat /\ m + 1 \in 0..n
    BY <1>2
  <2>2. f[m + 1] = Traverse(s, 1) \/ f[m + 1] = Traverse(s, Len(s.open))
    <3>1. f[m + 1] = LoopStep(loop, paths, s, m + 1)
      BY <1>2 DEF IsLoop
    <3> QED BY <3>1 DEF LoopStep, dfs_recursive
  <2> HIDE DEF s
  <2>3. s.open # <<>> => 1 \in 1..Len(s.open) /\ Len(s.open) \in 1..Len(s.open)
    BY <2>1, Positions DEF TraversalOK, WalkOK
  <2>4. TraversalOK(f[m + 1], start, m + 1)
    BY <2>1, <2>2, <2>3, TraversalSteps
  <2> QED BY <2>1, <2>4
<1>3. \A m \in 0..n : m \in S
  <2> HIDE DEF S
  <2> QED BY <1>1, <1>2, Forward
<1> QED BY <1>3

(* After the last round nothing is open. *)
LEMMA RoundsEnough ==
  ASSUME GraphOK, NEW start, NEW s, TraversalOK(s, start, Rounds)
  PROVE  s.open = <<>>
<1> SUFFICES ASSUME s.open # <<>> PROVE FALSE
  OBVIOUS
<1>1. Cardinality(Progress(s)) = Cardinality(Scans)
  BY DEF TraversalOK, Rounds
<1>2. Progress(s) \in SUBSET Scans
  BY DEF Progress, Scanned
<1>3. Progress(s) = Scans
  BY <1>1, <1>2, RoundsFinite, FS_Subset
<1>4. 1 \in 1..Len(s.open)
  BY Positions DEF TraversalOK, WalkOK
<1> DEFINE f == s.open[1]
           q == <<f.node, f.next>>
<1>5. f \in FramesOf(s.open) /\ f \in Frames
  BY <1>4, ElementOfSeq DEF FramesOf, TraversalOK, WalkOK
<1> HIDE DEF f
<1>6. f.node \in NodeIds /\ f.next \in Nat /\ 1 <= f.next /\ f.next <= Len(Edges(f.node)) + 1
  BY <1>5 DEF TraversalOK, WalkOK, FramesOK, Frames
<1>7. q \in Scans /\ q[1] = f.node /\ q[2] = f.next
  BY <1>6, ScansIs
<1> HIDE DEF q
<1>8. ~(q[2] < f.next)
  BY <1>6, <1>7
<1>9. q \notin Progress(s)
  BY <1>5, <1>7, <1>8 DEF Progress, Scanned
<1> QED BY <1>3, <1>7, <1>9

(* Then what has been visited is what can be reached. *)
LEMMA AllVisited ==
  ASSUME GraphOK, NEW start \in NodeIds, NEW s, WalkOK(s, start), s.open = <<>>
  PROVE  s.visited = Reachable(start)
<1> DEFINE V == s.visited
<1>1. V \in SUBSET NodeIds /\ start \in V
  BY DEF WalkOK
<1>2. FramesOf(s.open) = {}
  <2>1. 1..Len(s.open) = {}
    BY EmptySeq
  <2> QED BY <2>1 DEF FramesOf
<1>3. Closed(V)
  <2> SUFFICES ASSUME NEW m \in V, NEW i \in 1..Len(Edges(m)) PROVE Edges(m)[i].to \in V
    BY DEF Closed
  <2> DEFINE p == <<m, i>>
  <2>1. Len(Edges(m)) \in Nat
    BY EdgesType
  <2>2. m \in NodeIds /\ i \in Nat /\ 1 <= i /\ i <= Len(Edges(m)) /\ i <= Len(Edges(m)) + 1
    BY <1>1, <2>1
  <2>3. p \in Scans /\ p[1] = m /\ p[2] = i
    BY <2>2, ScansIs
  <2> HIDE DEF p
  <2>4. p \in Scanned(FramesOf(s.open), V)
    BY <1>2, <2>3 DEF Scanned
  <2> QED BY <2>2, <2>3, <2>4 DEF WalkOK
<1>4. \A S \in SUBSET NodeIds : start \in S /\ Closed(S) => V \subseteq S
  BY DEF WalkOK
<1> HIDE DEF V
<1>5. Reachable(start) = {n \in NodeIds : \A S \in SUBSET NodeIds : start \in S /\ Closed(S) => n \in S}
  BY DEF Reachable, Closed
<1>6. V \subseteq Reachable(start)
  BY <1>1, <1>4, <1>5
<1>7. Reachable(start) \subseteq V
  BY <1>1, <1>3, <1>5
<1> QED BY <1>6, <1>7 DEF V

(* bfs_traversal is where its loop ends. *)
LEMMA BfsIsLoop ==
  ASSUME GraphOK, NEW start
  PROVE  \E f : IsLoop(f, Rounds, "bfs", start, <<>>) /\ bfs_traversal(start) = f[Rounds].paths
<1> DEFINE Is(f) == f = [k \in 0..Rounds |-> IF k = 0 THEN Begin(start) ELSE Traverse(f[k - 1], 1)]
           run == CHOOSE f : Is(f)
<1>1. Rounds \in Nat
  BY RoundsFinite
<1>2. /\ LoopBegin("bfs", start) = Begin(start)
      /\ \A x, k : LoopStep("bfs", <<>>, x, k) = Traverse(x, 1)
  BY DEF LoopBegin, LoopStep
<1>3. \A f : Loop(f, Rounds, "bfs", start, <<>>) <=> Is(f)
  BY <1>2 DEF Loop
<1>4. \E f : Loop(f, Rounds, "bfs", start, <<>>)
  BY <1>1, LoopExists
<1>5. bfs_traversal(start) = run[Rounds].paths
  BY DEF bfs_traversal
<1>6. Is(run)
  <2>1. \E f : Is(f)
    <3> HIDE DEF Is
    <3> QED BY <1>3, <1>4
  <2> HIDE DEF Is
  <2> QED BY <2>1
<1> HIDE DEF Is, run
<1>7. Loop(run, Rounds, "bfs", start, <<>>)
  BY <1>3, <1>6
<1>8. IsLoop(run, Rounds, "bfs", start, <<>>)
  BY <1>1, <1>7, LoopUnfolds
<1> QED BY <1>5, <1>8

(* dfs_traversal is where its loop ends. *)
LEMMA DfsIsLoop ==
  ASSUME GraphOK, NEW start
  PROVE  \E f : IsLoop(f, Rounds, "dfs", start, <<>>) /\ dfs_traversal(start) = f[Rounds].paths
<1> DEFINE Is(f) == f = [k \in 0..Rounds |-> IF k = 0 THEN Begin(start) ELSE dfs_recursive(f[k - 1])]
           run == CHOOSE f : Is(f)
<1>1. Rounds \in Nat
  BY RoundsFinite
<1>2. /\ LoopBegin("dfs", start) = Begin(start)
      /\ \A x, k : LoopStep("dfs", <<>>, x, k) = dfs_recursive(x)
  BY DEF LoopBegin, LoopStep
<1>3. \A f : Loop(f, Rounds, "dfs", start, <<>>) <=> Is(f)
  BY <1>2 DEF Loop
<1>4. \E f : Loop(f, Rounds, "dfs", start, <<>>)
  BY <1>1, LoopExists
<1>5. dfs_traversal(start) = run[Rounds].paths
  BY DEF dfs_traversal
<1>6. Is(run)
  <2>1. \E f : Is(f)
    <3> HIDE DEF Is
    <3> QED BY <1>3, <1>4
  <2> HIDE DEF Is
  <2> QED BY <2>1
<1> HIDE DEF Is, run
<1>7. Loop(run, Rounds, "dfs", start, <<>>)
  BY <1>3, <1>6
<1>8. IsLoop(run, Rounds, "dfs", start, <<>>)
  BY <1>1, <1>7, LoopUnfolds
<1> QED BY <1>5, <1>8

(* What the paths of a traversal are. *)
LEMMA TraversalReports ==
  ASSUME GraphOK, NEW start \in NodeIds, NEW loop \in {"bfs", "dfs"}, NEW paths, NEW f,
         IsLoop(f, Rounds, loop, start, paths)
  PROVE  PathsOK(f[Rounds].paths, Reachable(start), start)
<1>1. Rounds \in Nat /\ Rounds \in 0..Rounds
  BY RoundsFinite
<1>2. TraversalOK(f[Rounds], start, Rounds)
  BY <1>1, TraversalRuns
<1>3. f[Rounds].open = <<>>
  BY <1>2, RoundsEnough
<1>4. f[Rounds].visited = Reachable(start)
  BY <1>2, <1>3, AllVisited DEF TraversalOK
<1> QED BY <1>2, <1>4 DEF TraversalOK

(* So both traversals report what can be reached, each node once. *)
LEMMA TraversalsReport == ASSUME GraphOK PROVE TraversalsAgree
<1> SUFFICES ASSUME NEW start \in NodeIds
             PROVE  \A paths \in {bfs_traversal(start), dfs_traversal(start)} :
                      PathsOK(paths, Reachable(start), start)
  BY DEF TraversalsAgree, PathsOK, ReachesAllOnce
<1>1. PathsOK(bfs_traversal(start), Reachable(start), start)
  BY BfsIsLoop, TraversalReports
<1>2. PathsOK(dfs_traversal(start), Reachable(start), start)
  BY DfsIsLoop, TraversalReports
<1> QED BY <1>1, <1>2

-----------------------------------------------------------------------------
(* The share of one path in CostAlong. *)
Charge(p) == nodes_[p.to] * p.weight

(* CostAlong is where its loop ends. *)
LEMMA CostIsLoop ==
  ASSUME NEW start, NEW paths, Len(paths) \in Nat
  PROVE  \E f : IsLoop(f, Len(paths), "sum", start, paths) /\ CostAlong(start, paths) = f[Len(paths)]
<1> DEFINE n == Len(paths)
           Is(f) == f = [i \in 0..n |-> IF i = 0 THEN CostOf(start)
                                        ELSE f[i - 1] + nodes_[paths[i].to] * paths[i].weight]
           run == CHOOSE f : Is(f)
<1>2. /\ LoopBegin("sum", start) = CostOf(start)
      /\ \A x, k : LoopStep("sum", paths, x, k) = x + nodes_[paths[k].to] * paths[k].weight
  BY DEF LoopBegin, LoopStep
<1>3. \A f : Loop(f, n, "sum", start, paths) <=> Is(f)
  BY <1>2 DEF Loop
<1>4. \E f : Loop(f, n, "sum", start, paths)
  BY LoopExists
<1>5. CostAlong(start, paths) = run[n]
  BY DEF CostAlong
<1>6. Is(run)
  <2>1. \E f : Is(f)
    <3> HIDE DEF Is
    <3> QED BY <1>3, <1>4
  <2> HIDE DEF Is
  <2> QED BY <2>1
<1> HIDE DEF Is, run
<1>7. Loop(run, n, "sum", start, paths)
  BY <1>3, <1>6
<1>8. IsLoop(run, n, "sum", start, paths)
  BY <1>7, LoopUnfolds
<1> QED BY <1>5, <1>8

(* No path, no cost but that of start. *)
LEMMA CostAlongNone == ASSUME NEW start PROVE CostAlong(start, <<>>) = CostOf(start)
<1>1. Len(<<>>) = 0 /\ Len(<<>>) \in Nat
  OBVIOUS
<1>2. PICK f : IsLoop(f, Len(<<>>), "sum", start, <<>>) /\ CostAlong(start, <<>>) = f[Len(<<>>)]
  BY <1>1, CostIsLoop
<1> QED BY <1>1, <1>2 DEF IsLoop, LoopBegin

(* One path more, one share more. *)
LEMMA CostAlongMore ==
  ASSUME NEW start, NEW paths \in Seq(PathRecords), NEW p \in PathRecords
  PROVE  CostAlong(start, Append(paths, p)) = CostAlong(start, paths) + Charge(p)
<1> DEFINE c == Append(paths, p)
           n == Len(paths)
           l == n + 1
<1>1. n \in Nat /\ c \in Seq(PathRecords) /\ Len(c) = l /\ c[l] = p /\ \A i \in 1..n : c[i] = paths[i]
  BY AppendProperties
<1> HIDE DEF c
<1>2. PICK f : IsLoop(f, n, "sum", start, paths) /\ CostAlong(start, paths) = f[n]
  BY <1>1, CostIsLoop
<1>3. Len(c) \in Nat
  BY <1>1
<1>4. PICK g : IsLoop(g, l, "sum", start, c) /\ CostAlong(start, c) = g[l]
  BY <1>1, <1>3, CostIsLoop
<1>5. \A q, x, k : LoopStep("sum", q, x, k) = x + Charge(q[k])
  BY DEF LoopStep, Charge
<1>6. f[0] = LoopBegin("sum", start) /\ \A m \in 0..n : m < n => f[m + 1] = f[m] + Charge(paths[m + 1])
  BY <1>2, <1>5 DEF IsLoop
<1>7. g[0] = LoopBegin("sum", start) /\ \A m \in 0..l : m < l => g[m + 1] = g[m] + Charge(c[m + 1])
  BY <1>4, <1>5 DEF IsLoop
<1> DEFINE S == {m \in 0..n : f[m] = g[m]}
<1>8. 0 \in S
  BY <1>1, <1>6, <1>7
<1>9. ASSUME NEW m \in 0..n, m < n, m \in S PROVE m + 1 \in S
  <2>1. m + 1 \in 0..n /\ m \in 0..l /\ m < l /\ m + 1 \in 1..n
    BY <1>1, <1>9
  <2>2. f[m + 1] = f[m] + Charge(paths[m + 1]) /\ g[m + 1] = g[m] + Charge(c[m + 1])
    BY <1>6, <1>7, <1>9, <2>1
  <2>3. f[m] = g[m] /\ c[m + 1] = paths[m + 1]
    BY <1>1, <1>9, <2>1
  <2> QED BY <2>1, <2>2, <2>3
<1>10. \A m \in 0..n : m \in S
  <2> HIDE DEF S
  <2> QED BY <1>1, <1>8, <1>9, Forward
<1>11. f[n] = g[n] /\ n \in 0..l /\ n < l
  BY <1>1, <1>10
<1>12. g[l] = g[n] + Charge(c[l])
  BY <1>7, <1>11
<1> QED BY <1>1, <1>2, <1>4, <1>11, <1>12 DEF c

(* PropagatedCost is where its loop ends. *)
LEMMA PropagatedIsLoop ==
  ASSUME GraphOK, NEW start
  PROVE  \E f : IsLoop(f, Rounds, "cost", start, <<>>) /\ PropagatedCost(start) = f[Rounds].total
<1> DEFINE first == [open |-> <<Frame(start)>>, visited |-> {start}, total |-> CostOf(start)]
           Is(f) == f = [k \in 0..Rounds |-> IF k = 0 THEN first ELSE propagate_cost_recursive(f[k - 1])]
           run == CHOOSE f : Is(f)
<1>1. Rounds \in Nat
  BY RoundsFinite
<1>2. /\ LoopBegin("cost", start) = first
      /\ \A x, k : LoopStep("cost", <<>>, x, k) = propagate_cost_recursive(x)
  BY DEF LoopBegin, LoopStep
<1>4. \E f : Loop(f, Rounds, "cost", start, <<>>)
  BY <1>1, LoopExists
<1>5. PropagatedCost(start) = run[Rounds].total
  BY DEF PropagatedCost
<1> HIDE DEF first
<1>3. \A f : Loop(f, Rounds, "cost", start, <<>>) <=> Is(f)
  BY <1>2 DEF Loop
<1>6. Is(run)
  <2>1. \E f : Is(f)
    <3> HIDE DEF Is
    <3> QED BY <1>3, <1>4
  <2> HIDE DEF Is
  <2> QED BY <2>1
<1> HIDE DEF Is, run
<1>7. Loop(run, Rounds, "cost", start, <<>>)
  BY <1>3, <1>6
<1>8. IsLoop(run, Rounds, "cost", start, <<>>)
  BY <1>1, <1>7, LoopUnfolds
<1> QED BY <1>5, <1>8

(* The propagation walks with the depth-first traversal, and its total is  *)
(* the cost along the paths of that one.                                   *)
InStep(c, d, start) == /\ c.open = d.open /\ c.visited = d.visited
                       /\ c.total = CostAlong(start, d.paths)

(* One step of both. *)
LEMMA StepsTogether ==
  ASSUME GraphOK, NEW start, NEW m, NEW d, TraversalOK(d, start, m), NEW c, InStep(c, d, start)
  PROVE  InStep(propagate_cost_recursive(c), dfs_recursive(d), start)
<1> DEFINE k == Len(d.open)
<1>1. c.open = d.open /\ c.visited = d.visited /\ Len(c.open) = k
  BY DEF InStep
<1>2. CASE d.open = <<>>
  <2>1. propagate_cost_recursive(c) = c /\ dfs_recursive(d) = d
    BY <1>1, <1>2 DEF propagate_cost_recursive, dfs_recursive, Traverse
  <2> QED BY <2>1
<1>3. CASE d.open # <<>>
  <2> DEFINE e == NextEdge(d, k)
             p == TraversalPath(d.open[k].node, e)
  <2>1. /\ OpenAfter(c, k) = OpenAfter(d, k) /\ VisitedAfter(c, k) = VisitedAfter(d, k)
        /\ Fresh(c, k) = Fresh(d, k) /\ NextEdge(c, k) = e
    BY <1>1 DEF OpenAfter, VisitedAfter, Fresh, NextEdge, AtEnd
  <2> DEFINE a == propagate_cost_recursive(c)
             b == dfs_recursive(d)
  <2>2. /\ b.open = OpenAfter(d, k) /\ b.visited = VisitedAfter(d, k)
        /\ b.paths = IF Fresh(d, k) THEN Append(d.paths, p) ELSE d.paths
    BY <1>3 DEF dfs_recursive, Traverse
  <2>3. /\ a.open = OpenAfter(c, k) /\ a.visited = VisitedAfter(c, k)
        /\ a.total = IF Fresh(c, k) THEN c.total + nodes_[e.to] * e.weight ELSE c.total
    BY <1>1, <1>3, <2>1 DEF propagate_cost_recursive
  <2> HIDE DEF a, b
  <2>4. a.total = CostAlong(start, b.paths)
    <3>1. CASE ~Fresh(d, k)
      BY <2>1, <2>2, <2>3, <3>1 DEF InStep
    <3>2. CASE Fresh(d, k)
      <4>1. k \in 1..Len(d.open) /\ WalkOK(d, start)
        BY <1>3, Positions DEF TraversalOK, WalkOK
      <4>2. d.open[k] \in Frames /\ e \in EdgeRecords
        <5> DEFINE t == [open |-> OpenAfter(d, k), visited |-> VisitedAfter(d, k)]
        <5>1. t.open = OpenAfter(d, k) /\ t.visited = VisitedAfter(d, k)
          OBVIOUS
        <5> HIDE DEF t
        <5>2. ~AtEnd(d, k)
          BY <3>2 DEF Fresh
        <5> QED BY <4>1, <5>1, <5>2, StepOK
      <4> HIDE DEF e, k
      <4>3. p \in PathRecords /\ p.to = e.to /\ p.weight = e.weight
        BY <4>2 DEF TraversalPath, PathRecords, EdgeRecords, Frames
      <4>4. d.paths \in Seq(PathRecords)
        BY DEF TraversalOK, PathsOK
      <4> HIDE DEF p
      <4>5. CostAlong(start, Append(d.paths, p)) = CostAlong(start, d.paths) + Charge(p)
        BY <4>3, <4>4, CostAlongMore
      <4>6. Charge(p) = nodes_[e.to] * e.weight
        BY <4>3 DEF Charge
      <4>7. a.total = c.total + Charge(p)
        BY <2>1, <2>3, <3>2, <4>6
      <4> QED BY <2>2, <3>2, <4>5, <4>7 DEF InStep
    <3> QED BY <3>1, <3>2
  <2> QED BY <2>1, <2>2, <2>3, <2>4 DEF InStep, a, b
<1> QED BY <1>2, <1>3

(* So the propagated cost is the cost along the paths of dfs_traversal. *)
LEMMA CostCounts == ASSUME GraphOK PROVE CostCountedOnce
<1> SUFFICES ASSUME NEW start \in NodeIds
             PROVE  PropagatedCost(start) = CostAlong(start, dfs_traversal(start))
  BY DEF CostCountedOnce
<1>1. PICK d : IsLoop(d, Rounds, "dfs", start, <<>>) /\ dfs_traversal(start) = d[Rounds].paths
  BY DfsIsLoop
<1>2. PICK c : IsLoop(c, Rounds, "cost", start, <<>>) /\ PropagatedCost(start) = c[Rounds].total
  BY PropagatedIsLoop
<1>3. Rounds \in Nat /\ Rounds \in 0..Rounds
  BY RoundsFinite
<1>4. \A m \in 0..Rounds : TraversalOK(d[m], start, m)
  BY <1>1, <1>3, TraversalRuns
<1> DEFINE S == {m \in 0..Rounds : InStep(c[m], d[m], start)}
<1>5. 0 \in S
  <2>1. d[0] = Begin(start)
    BY <1>1 DEF IsLoop, LoopBegin
  <2>2. c[0] = [open |-> <<Frame(start)>>, visited |-> {start}, total |-> CostOf(start)]
    BY <1>2 DEF IsLoop, LoopBegin
  <2>3. InStep(c[0], d[0], start)
    BY <2>1, <2>2, CostAlongNone DEF Begin, InStep
  <2> QED BY <1>3, <2>3
<1>6. ASSUME NEW m \in 0..Rounds, m < Rounds, m \in S PROVE m + 1 \in S
  <2>1. InStep(c[m], d[m], start) /\ TraversalOK(d[m], start, m) /\ m + 1 \in 0..Rounds
    BY <1>3, <1>4, <1>6
  <2>2. d[m + 1] = dfs_recursive(d[m])
    BY <1>1, <1>6 DEF IsLoop, LoopStep
  <2>3. c[m + 1] = propagate_cost_recursive(c[m])
    BY <1>2, <1>6 DEF IsLoop, LoopStep
  <2>4. InStep(c[m + 1], d[m + 1], start)
    BY <2>1, <2>2, <2>3, StepsTogether
  <2> QED BY <2>1, <2>4
<1>7. \A m \in 0..Rounds : m \in S
  <2> HIDE DEF S
  <2> QED BY <1>3, <1>5, <1>6, Forward
<1>8. InStep(c[Rounds], d[Rounds], start)
  BY <1>3, <1>7
<1> QED BY <1>1, <1>2, <1>8 DEF InStep

-----------------------------------------------------------------------------
(* The initial graph. *)
LEMMA GraphInitInv == GraphInit => GraphOK
  BY DEF GraphInit, GraphOK

(* add_node, add_edge and the node that calculate_cost_propagation creates. *)
LEMMA GraphNextInv == GraphOK /\ [GraphNext]_graphVars => GraphOK'
<1> SUFFICES ASSUME GraphOK, [GraphNext]_graphVars PROVE GraphOK'
  OBVIOUS
<1>1. ASSUME NEW id \in NodeIds, NEW cost \in Costs, add_node(id, cost) PROVE GraphOK'
  BY <1>1 DEF add_node, Assign, GraphOK, EdgeRecords
<1>2. ASSUME NEW from \in NodeIds, NEW to \in NodeIds, NEW weight \in Weights, add_edge(from, to, weight)
      PROVE  GraphOK'
  <2> DEFINE e == [to |-> to, weight |-> weight]
             l == Append(Edges(from), e)
  <2>1. e \in EdgeRecords
    BY DEF EdgeRecords
  <2> HIDE DEF e
  <2>2. l \in Seq(EdgeRecords)
    BY <2>1, EdgesType, AppendProperties
  <2>3. adjacency_list_' = Assign(adjacency_list_, from, l) /\ nodes_' = nodes_
    BY <1>2 DEF add_edge, e
  <2> HIDE DEF l
  <2> QED BY <2>2, <2>3 DEF Assign, GraphOK, EdgeRecords
<1>3. ASSUME NEW start \in NodeIds, calculate_cost_propagation(start) PROVE GraphOK'
  BY <1>3 DEF calculate_cost_propagation, Assign, GraphOK, EdgeRecords
<1>4. CASE UNCHANGED graphVars
  BY <1>4 DEF graphVars, GraphOK, EdgeRecords
<1> QED BY <1>1, <1>2, <1>3, <1>4 DEF GraphNext

(* bfs_traversal and dfs_traversal report every reachable node exactly     *)
(* once, in any graph that add_node and add_edge can build.                *)
THEOREM TraversalsReachAll == GraphSpec => []TraversalsAgree
  BY GraphInitInv, GraphNextInv, TraversalsReport, PTL DEF GraphSpec

(* calculate_cost_propagation charges every node it reaches exactly once.  *)
THEOREM CostsCountedOnce == GraphSpec => []CostCountedOnce
  BY GraphInitInv, GraphNextInv, CostCounts, PTL DEF GraphSpec
=============================================================================
