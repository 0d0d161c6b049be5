--------------------------- MODULE EventBusProofs ---------------------------
(* Theorems about EventBus, for every value of its constants. *)
EXTENDS EventBus, SequenceTheorems, TLAPS

-----------------------------------------------------------------------------
(* What the operations are given and what they make of it *)

(* The empty string has no namespace. *)
LEMMA EmptyNotNamespaced == ~Namespaced(EmptyString)
  <1>1. Len(<<"">>) = 1
    OBVIOUS
  <1> QED BY <1>1 DEF Namespaced, EmptyString

(* A valid publication is for a topic and a tenant. *)
LEMMA PublishTyped ==
    ASSUME NEW q \in PublishRequests, PublishValid(q)
    PROVE  PublishTopic(q) \in Topics /\ q.head.tenant \in Tenants
  <1>1. q \in PublishRequest
    BY BusRequestsTyped
  <1>2. PublishTopic(q) # EmptyString
    BY EmptyNotNamespaced DEF PublishValid
  <1>3. PublishTopic(q) \in Topics
    BY <1>1, <1>2 DEF PublishTopic, PublishRequest
  <1>4. q.head.tenant \in Tenants
    BY <1>1 DEF PublishValid, Normalizable, PublishRequest, Header
  <1> QED BY <1>3, <1>4

(* A valid subscription is for a topic, and starts within its log. *)
LEMMA SubscribeTyped ==
    ASSUME TypeOK, NEW q \in SubscribeRequests, SubscribeValid(q)
    PROVE  /\ q.topic \in Topics
           /\ q.cursor \in Cursor
           /\ StartOf(q) \in 0..Len(events[q.topic])
  <1>1. q \in SubscribeRequest
    BY BusRequestsTyped
  <1>2. q.topic # EmptyString
    BY EmptyNotNamespaced DEF SubscribeValid
  <1>3. q.topic \in Topics /\ q.cursor \in Cursor
    BY <1>1, <1>2 DEF SubscribeRequest
  <1>4. Len(events[q.topic]) \in Nat
    BY <1>3, LenProperties DEF TypeOK
  <1>5. q.cursor.value \in Int
    BY <1>3 DEF Cursor
  <1> QED BY <1>3, <1>4, <1>5 DEF StartOf, SubscribeValid

(* The replayed snapshot is a sequence of events. *)
LEMMA SnapshotTyped ==
    ASSUME TypeOK, NEW t \in Topics, NEW n \in 0..Len(events[t])
    PROVE  Snapshot(t, n) \in Seq(EventSet)
  <1>1. events[t] \in Seq(EventSet) /\ Len(events[t]) \in Nat
    BY LenProperties DEF TypeOK
  <1>2. ASSUME NEW i \in 1..(Len(events[t]) - n)
        PROVE  [events[t][n + i] EXCEPT !.replay = TRUE] \in EventSet
    <2>1. n + i \in 1..Len(events[t])
      BY <1>1
    <2>2. events[t][n + i] \in EventSet
      BY <1>1, <2>1, ElementOfSeq
    <2> QED BY <2>2 DEF EventSet
  <1>3. Len(events[t]) - n \in Nat
    BY <1>1
  <1> QED BY <1>2, <1>3 DEF Snapshot

-----------------------------------------------------------------------------
(* Type correctness *)

(* Publishing keeps the types, the bound of every channel included. *)
LEMMA PublishKeepsTypes ==
    ASSUME TypeOK, NEW q \in PublishRequests, Publish(q)
    PROVE  TypeOK'
  <1> DEFINE t == PublishTopic(q)
             event == Event(t, NextSequence(t), q.head.tenant)
  <1>1. PublishValid(q)
    BY DEF Publish
  <1>2. t \in Topics /\ q.head.tenant \in Tenants
    BY <1>1, PublishTyped
  <1>3. event \in EventSet
    <2>1. Len(events[t]) \in Nat
      BY <1>2, LenProperties DEF TypeOK
    <2> QED BY <1>2, <2>1 DEF Event, NextSequence, EventSet
  <1>4. /\ events' = [events EXCEPT ![t] = Append(@, event)]
        /\ ch' = [s \in Handlers |-> IF s \in subscribers[t] /\ Offered(s)
                                     THEN Append(ch[s], event) ELSE ch[s]]
        /\ dropped' = [s \in Handlers |-> IF s \in subscribers[t] /\ ~Offered(s)
                                          THEN dropped[s] \cup {event.sequence}
                                          ELSE dropped[s]]
        /\ wire' = (IF natsConn THEN Append(wire, event) ELSE wire)
        /\ UNCHANGED <<natsConn, subscribers, phase, sub, pending, received,
                       requestErrors>>
    BY DEF Publish, publishEventToNATS
  <1> HIDE DEF t, event
  <1>5. events' \in [Topics -> Seq(EventSet)]
    BY <1>2, <1>3, <1>4 DEF TypeOK
  <1>6. ASSUME NEW s \in Handlers
        PROVE  ch'[s] \in Seq(EventSet) /\ Len(ch'[s]) <= ChanCap
    <2>1. ch[s] \in Seq(EventSet) /\ Len(ch[s]) \in Nat /\ Len(ch[s]) <= ChanCap
      BY LenProperties DEF TypeOK
    <2>2. CASE s \in subscribers[t] /\ Offered(s)
      <3>1. ch'[s] = Append(ch[s], event)
        BY <1>4, <2>2
      <3>2. Len(Append(ch[s], event)) = Len(ch[s]) + 1
        BY <1>3, <2>1, AppendProperties
      <3> QED BY <1>3, <2>1, <2>2, <3>1, <3>2, AppendProperties, BusBounds DEF Offered
    <2>3. CASE ~(s \in subscribers[t] /\ Offered(s))
      BY <1>4, <2>1, <2>3
    <2> QED BY <2>2, <2>3
  <1>7. ch' \in [Handlers -> Seq(EventSet)]
    BY <1>4, <1>6
  <1>8. dropped' \in [Handlers -> SUBSET Nat]
    BY <1>3, <1>4 DEF TypeOK, EventSet
  <1>9. wire' \in Seq(EventSet)
    BY <1>3, <1>4 DEF TypeOK
  <1> QED
    BY <1>4, <1>5, <1>6, <1>7, <1>8, <1>9 DEF TypeOK

(* Every step of a handler keeps the types. *)
LEMMA HandlerKeepsTypes ==
    ASSUME TypeOK, NEW s \in Handlers, Handler(s)
    PROVE  TypeOK'
  <1> USE DEF Phases
  <1>1. ASSUME NEW q \in SubscribeRequests, Subscribe(s, q)
        PROVE  TypeOK'
    <2>1. /\ q.topic \in Topics /\ q.cursor \in Cursor
          /\ StartOf(q) \in 0..Len(events[q.topic])
      BY <1>1, SubscribeTyped DEF Subscribe
    <2>2. Len(events[q.topic]) \in Nat
      BY <2>1, LenProperties DEF TypeOK
    <2>3. pending' \in [Handlers -> Seq(EventSet)]
      BY <1>1, <2>1, SnapshotTyped DEF Subscribe, TypeOK
    <2>4. /\ DOMAIN sub' = DOMAIN sub \cup {s}
          /\ sub' \in [DOMAIN sub' -> Subscription]
      BY <1>1, <2>1, <2>2 DEF Subscribe, TypeOK, Put, Subscription
    <2>5. subscribers' \in [Topics -> SUBSET Handlers]
      BY <1>1, <2>1 DEF Subscribe, TypeOK
    <2>6. /\ phase' \in [Handlers -> Phases]
          /\ \A x \in Handlers : phase'[x] \in Phases \ {"idle", "refused"} => x \in DOMAIN sub'
      BY <1>1, <2>4 DEF Subscribe, TypeOK
    <2> QED
      BY <1>1, <2>3, <2>4, <2>5, <2>6 DEF Subscribe, TypeOK, bus
  <1>2. ASSUME NEW q \in SubscribeRequests, SubscribeReject(s, q)
        PROVE  TypeOK'
    BY <1>2 DEF SubscribeReject, TypeOK, bus
  <1>3. CASE SendReplay(s)
    <2>1. /\ Head(pending[s]) \in EventSet
          /\ Tail(pending[s]) \in Seq(EventSet)
      BY <1>3, HeadTailProperties DEF SendReplay, TypeOK
    <2> QED BY <1>3, <2>1 DEF SendReplay, TypeOK, bus
  <1>4. CASE ReplayDone(s)
    BY <1>4 DEF ReplayDone, TypeOK, bus
  <1>5. ASSUME phase[s] = "live", ch[s] # <<>>
        PROVE  /\ Head(ch[s]) \in EventSet
               /\ Tail(ch[s]) \in Seq(EventSet)
               /\ Len(Tail(ch[s])) <= ChanCap
    <2>1. ch[s] \in Seq(EventSet) /\ Len(ch[s]) \in Nat /\ Len(ch[s]) <= ChanCap
      BY LenProperties DEF TypeOK
    <2> QED BY <1>5, <2>1, HeadTailProperties, BusBounds
  <1>6. CASE SendLive(s)
    BY <1>5, <1>6 DEF SendLive, TypeOK, bus
  <1>7. CASE ContextDone(s)
    BY <1>7 DEF ContextDone, TypeOK, bus
  <1>8. CASE SendFails(s)
    <2>1. CASE /\ phase[s] = "replay" /\ pending[s] # <<>>
               /\ pending' = [pending EXCEPT ![s] = Tail(@)] /\ ch' = ch
      <3>1. Tail(pending[s]) \in Seq(EventSet)
        BY <2>1, HeadTailProperties DEF TypeOK
      <3> QED BY <1>8, <2>1, <3>1 DEF SendFails, TypeOK, bus
    <2>2. CASE /\ phase[s] = "live" /\ ch[s] # <<>>
               /\ ch' = [ch EXCEPT ![s] = Tail(@)] /\ pending' = pending
      BY <1>5, <1>8, <2>2 DEF SendFails, TypeOK, bus
    <2> QED BY <1>8, <2>1, <2>2 DEF SendFails
  <1>9. CASE Unregister(s)
    BY <1>9 DEF Unregister, TypeOK, bus, Subscription
  <1>10. CASE CloseChannel(s)
    BY <1>10 DEF CloseChannel, TypeOK, bus
  <1> QED
    BY <1>1, <1>2, <1>3, <1>4, <1>6, <1>7, <1>8, <1>9, <1>10 DEF Handler

(* Publishers and stream handlers keep every variable in its type, and no  *)
(* channel ever holds more than its capacity.                              *)
THEOREM TypeCorrect == Spec => []TypeOK
  <1>1. Init => TypeOK
    BY BusBounds DEF Init, TypeOK, Phases
  <1>2. TypeOK /\ [Next]_vars => TypeOK'
    <2> SUFFICES ASSUME TypeOK, [Next]_vars
                 PROVE  TypeOK'
      OBVIOUS
    <2>1. ASSUME NEW q \in PublishRequests, Publish(q)
          PROVE  TypeOK'
      BY <2>1, PublishKeepsTypes
    <2>2. ASSUME NEW q \in PublishRequests, PublishReject(q)
          PROVE  TypeOK'
      BY <2>2 DEF PublishReject, TypeOK, bus, streams
    <2>3. ASSUME NEW s \in Handlers, Handler(s)
          PROVE  TypeOK'
      BY <2>3, HandlerKeepsTypes
    <2>4. CASE Close
      BY <2>4 DEF Close, TypeOK, streams
    <2>5. CASE UNCHANGED vars
      BY <2>5 DEF vars, bus, streams, TypeOK
    <2> QED BY <2>1, <2>2, <2>3, <2>4, <2>5 DEF Next
  <1> QED BY <1>1, <1>2, PTL DEF Spec

-----------------------------------------------------------------------------
(* Sends on open channels *)

(* A step that changes neither the map of subscribers nor the topics keeps *)
(* SendsOnlyToOpen if no handler registers or unregisters.                 *)
LEMMA OpenFrame ==
    ASSUME SendsOnlyToOpen, Registered' = Registered,
           UNCHANGED <<subscribers, sub>>
    PROVE  SendsOnlyToOpen'
  BY DEF SendsOnlyToOpen

(* A handler that goes from one phase with a registered channel, or from   *)
(* one without, to another of the same kind does not change Registered.    *)
LEMMA PhaseFrame ==
    ASSUME TypeOK, NEW s \in Handlers, NEW p \in Phases,
           phase' = [phase EXCEPT ![s] = p],
           phase[s] \in {"replay", "live", "leaving"}
             <=> p \in {"replay", "live", "leaving"}
    PROVE  Registered' = Registered
  BY DEF TypeOK, Registered

(* Every step of a handler keeps SendsOnlyToOpen. *)
LEMMA HandlerKeepsOpen ==
    ASSUME TypeOK, SendsOnlyToOpen, NEW s \in Handlers, Handler(s)
    PROVE  SendsOnlyToOpen'
  <1>1. ASSUME NEW q \in SubscribeRequests, Subscribe(s, q)
        PROVE  SendsOnlyToOpen'
    <2>1. q.topic \in Topics
      BY <1>1, SubscribeTyped DEF Subscribe
    <2>2. /\ phase[s] = "idle"
          /\ phase' = [phase EXCEPT ![s] = "replay"]
          /\ subscribers' = [subscribers EXCEPT ![q.topic] = @ \cup {s}]
      BY <1>1 DEF Subscribe
    <2>3. Registered' = Registered \cup {s} /\ s \notin Registered
      BY <2>2 DEF Registered, TypeOK
    <2>4. sub'[s].topic = q.topic
      BY <1>1 DEF Subscribe, Put
    <2>5. \A x \in Registered : sub'[x] = sub[x]
      <3>1. Registered \subseteq DOMAIN sub
        BY DEF Registered, TypeOK, Phases
      <3> QED BY <1>1, <2>3, <3>1 DEF Subscribe, Put
    <2>6. ASSUME NEW t \in Topics
          PROVE  subscribers'[t] = {x \in Registered' : sub'[x].topic = t}
      <3>1. subscribers[t] = {x \in Registered : sub[x].topic = t}
        BY DEF SendsOnlyToOpen
      <3>2. CASE t = q.topic
        BY <2>1, <2>2, <2>3, <2>4, <2>5, <3>1, <3>2 DEF TypeOK
      <3>3. CASE t # q.topic
        BY <2>1, <2>2, <2>3, <2>4, <2>5, <3>1, <3>3 DEF TypeOK
      <3> QED BY <3>2, <3>3
    <2> QED BY <2>6 DEF SendsOnlyToOpen
  <1>2. ASSUME NEW q \in SubscribeRequests, SubscribeReject(s, q)
        PROVE  SendsOnlyToOpen'
    BY <1>2, PhaseFrame, OpenFrame DEF SubscribeReject, Phases
  <1>3. CASE SendReplay(s)
    BY <1>3, OpenFrame DEF SendReplay, Registered
  <1>4. CASE ReplayDone(s)
    BY <1>4, PhaseFrame, OpenFrame DEF ReplayDone, Phases
  <1>5. CASE SendLive(s)
    BY <1>5, OpenFrame DEF SendLive, Registered
  <1>6. CASE ContextDone(s)
    BY <1>6, PhaseFrame, OpenFrame DEF ContextDone, Phases
  <1>7. CASE SendFails(s)
    BY <1>7, PhaseFrame, OpenFrame DEF SendFails, Phases
  <1>8. CASE Unregister(s)
    <2>1. /\ phase[s] = "leaving"
          /\ phase' = [phase EXCEPT ![s] = "removed"]
          /\ subscribers' = [subscribers EXCEPT ![sub[s].topic] = @ \ {s}]
          /\ sub' = sub
      BY <1>8 DEF Unregister
    <2>2. Registered' = Registered \ {s} /\ s \in Registered
      BY <2>1 DEF Registered, TypeOK
    <2>3. ASSUME NEW t \in Topics
          PROVE  subscribers'[t] = {x \in Registered' : sub'[x].topic = t}
      <3>1. subscribers[t] = {x \in Registered : sub[x].topic = t}
        BY DEF SendsOnlyToOpen
      <3>2. CASE t = sub[s].topic
        BY <2>1, <2>2, <3>1, <3>2 DEF TypeOK
      <3>3. CASE t # sub[s].topic
        BY <2>1, <2>2, <3>1, <3>3 DEF TypeOK
      <3> QED BY <3>2, <3>3
    <2> QED BY <2>3 DEF SendsOnlyToOpen
  <1>9. CASE CloseChannel(s)
    BY <1>9, PhaseFrame, OpenFrame DEF CloseChannel, Phases
  <1> QED
    BY <1>1, <1>2, <1>3, <1>4, <1>5, <1>6, <1>7, <1>8, <1>9 DEF Handler

(* Publish never sends on a closed channel, however many handlers come and *)
(* go while it runs: a channel is closed only after it has left the map.   *)
THEOREM ChannelsOpen == Spec => []SendsOnlyToOpen
  <1>1. Init => SendsOnlyToOpen
    BY DEF Init, SendsOnlyToOpen, Registered
  <1>2. TypeOK /\ SendsOnlyToOpen /\ [Next]_vars => SendsOnlyToOpen'
    <2> SUFFICES ASSUME TypeOK, SendsOnlyToOpen, [Next]_vars
                 PROVE  SendsOnlyToOpen'
      OBVIOUS
    <2>1. ASSUME NEW s \in Handlers, Handler(s)
          PROVE  SendsOnlyToOpen'
      BY <2>1, HandlerKeepsOpen
    <2>2. CASE UNCHANGED <<subscribers, phase, sub>>
      BY <2>2, OpenFrame DEF Registered
    <2>3. ASSUME NEW q \in PublishRequests, Publish(q) \/ PublishReject(q)
          PROVE  SendsOnlyToOpen'
      BY <2>2, <2>3 DEF Publish, PublishReject, streams
    <2>4. CASE Close
      BY <2>2, <2>4 DEF Close, streams
    <2>5. CASE UNCHANGED vars
      BY <2>2, <2>5 DEF vars, streams
    <2> QED BY <2>1, <2>3, <2>4, <2>5 DEF Next
  <1> QED BY <1>1, <1>2, TypeCorrect, PTL DEF Spec
=============================================================================
