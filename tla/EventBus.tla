------------------------------ MODULE EventBus ------------------------------
(***************************************************************************)
(* Publish and Subscribe (service.go) with the stream handlers that serve  *)
(* a subscription: handleSubscribe (http.go, server-sent events) and       *)
(* Subscribe (grpc_server.go), whose loops are the same.                   *)
(*                                                                         *)
(* Every element of Handlers is one goroutine that serves one              *)
(* subscription: it takes a snapshot of the log and registers its channel  *)
(* in one critical section, sends the snapshot, then what arrives in the   *)
(* channel, and on leaving unregisters the channel (under the lock) and    *)
(* closes it (after the unlock).  A publisher holds the lock from the      *)
(* numbering of its event to the last send, and its sends never block.     *)
(***************************************************************************)
EXTENDS Envelope, Integers, FiniteSets

CONSTANTS
    Handlers,             \* goroutines, each serving one subscription
    Topics,               \* topic names, as sequences of "."-free segments
    Tenants,              \* tenant ids
    PublishRequests,      \* the requests Publish may be given
    SubscribeRequests,    \* the requests Subscribe may be given
    ChanCap,              \* capacity of a subscriber's channel: 32 in the code
    MaxEvents,            \* bound on the events published
    MaxRejected,          \* bound on the Publish calls refused
    NATSConfigured        \* is NATSURL set?

PublishRequest ==
    [head : Header(STRING, {EmptyString}, Tenants \cup {EmptyString}, {EmptyString}),
     path : Topics \cup {EmptyString}, topic : Topics \cup {EmptyString}]

(* resume_cursor: absent, not a number for Atoi, or an integer. *)
Cursor == [given : BOOLEAN, number : BOOLEAN, value : Int]
SubscribeRequest == [topic : Topics \cup {EmptyString}, cursor : Cursor]

ASSUME BusRequestsTyped ==
    /\ PublishRequests \subseteq PublishRequest
    /\ SubscribeRequests \subseteq SubscribeRequest
ASSUME BusBounds ==
    /\ ChanCap \in Nat \ {0}
    /\ MaxEvents \in Nat
    /\ MaxRejected \in Nat
    /\ NATSConfigured \in BOOLEAN

VARIABLES
    events,         \* s.events
    subscribers,    \* s.subscribers: the handlers whose channel is registered
    ch,             \* the contents of each handler's channel
    phase,          \* where each handler is
    sub,            \* topic, cursor and length of the log of each subscription
    pending,        \* the part of the snapshot not yet sent
    received,       \* what the client of each handler has been sent
    dropped,        \* history: sequences a full channel made Publish discard
    wire,           \* messages handed to the NATS connection
    natsConn,       \* s.natsConn # nil
    requestErrors   \* the MIG_INVALID_REQUEST counters

bus     == <<events, wire, natsConn>>
streams == <<subscribers, ch, phase, sub, pending, received, dropped>>
vars    == <<bus, streams, requestErrors>>

-----------------------------------------------------------------------------
Init ==
    /\ events = [t \in Topics |-> <<>>]
    /\ subscribers = [t \in Topics |-> {}]
    /\ ch = [s \in Handlers |-> <<>>]
    /\ phase = [s \in Handlers |-> "idle"]
    /\ sub = <<>>
    /\ pending = [s \in Handlers |-> <<>>]
    /\ received = [s \in Handlers |-> <<>>]
    /\ dropped = [s \in Handlers |-> {}]
    /\ wire = <<>>
    /\ natsConn = NATSConfigured
    /\ requestErrors = [o \in {"publish", "subscribe"} |-> 0]

(* strings.Contains(topic, ".") *)
Namespaced(topic) == Len(topic) > 1

PublishTopic(q) == IF q.path = EmptyString THEN q.topic ELSE q.path

PublishValid(q) == Normalizable(q.head) /\ Namespaced(PublishTopic(q))

(* EventMessage.  EventID, payload and time belong to the publication, so  *)
(* topic and sequence identify the event.                                  *)
Event(topic, sequence, tenant) ==
    [topic |-> topic, sequence |-> sequence, tenant |-> tenant, replay |-> FALSE]

(* Mutant of Offered: the send does not look at the capacity. *)
OfferedAlways(s) == TRUE

(* The non-blocking send of the event to a registered channel goes through *)
(* when the channel has room.                                              *)
Offered(s) == Len(ch[s]) < ChanCap

(* publishEventToNATS: nothing without a connection, errors are ignored. *)
publishEventToNATS(event) ==
    wire' = IF natsConn THEN Append(wire, event) ELSE wire

(* Mutant of NextSequence: numbers start at 0. *)
NextSequenceFromZero(t) == Len(events[t])

NextSequence(t) == Len(events[t]) + 1

(* One critical section: number, append, send to everyone, mirror. *)
Publish(q) ==
    LET t == PublishTopic(q)
        event == Event(t, NextSequence(t), q.head.tenant)
    IN  /\ PublishValid(q)
        /\ Len(events[t]) < MaxEvents
        /\ events' = [events EXCEPT ![t] = Append(@, event)]
        /\ ch' = [s \in Handlers |-> IF s \in subscribers[t] /\ Offered(s)
                                     THEN Append(ch[s], event) ELSE ch[s]]
        /\ dropped' = [s \in Handlers |-> IF s \in subscribers[t] /\ ~Offered(s)
                                          THEN dropped[s] \cup {event.sequence}
                                          ELSE dropped[s]]
        /\ publishEventToNATS(event)
        /\ UNCHANGED <<natsConn, subscribers, phase, sub, pending, received,
                       requestErrors>>

PublishReject(q) ==
    /\ ~PublishValid(q)
    /\ requestErrors["publish"] < MaxRejected
    /\ requestErrors' = [requestErrors EXCEPT !["publish"] = @ + 1]
    /\ UNCHANGED <<bus, streams>>

-----------------------------------------------------------------------------
(* Subscribe and the handler's loop *)

SubscribeValid(q) ==
    /\ Namespaced(q.topic)
    /\ q.cursor.given => q.cursor.number /\ q.cursor.value >= 0

(* Mutant of StartOf: the cursor is taken as the first event wanted. *)
StartOfInclusive(q) ==
    LET n == IF q.cursor.given THEN q.cursor.value ELSE 0
    IN  IF n > Len(events[q.topic]) THEN Len(events[q.topic])
        ELSE IF n > 0 THEN n - 1 ELSE n

(* The number of events the client does not want again: its cursor, cut    *)
(* off at the length of the log.                                           *)
StartOf(q) ==
    LET n == IF q.cursor.given THEN q.cursor.value ELSE 0
    IN  IF n > Len(events[q.topic]) THEN Len(events[q.topic]) ELSE n

(* A copy of the events after start, marked as replayed. *)
Snapshot(topic, start) ==
    [i \in 1..(Len(events[topic]) - start) |->
        [events[topic][start + i] EXCEPT !.replay = TRUE]]

SubscribeReject(s, q) ==
    /\ phase[s] = "idle"
    /\ ~SubscribeValid(q)
    /\ phase' = [phase EXCEPT ![s] = "refused"]
    /\ requestErrors' = [requestErrors EXCEPT !["subscribe"] = @ + 1]
    /\ UNCHANGED <<bus, subscribers, ch, sub, pending, received, dropped>>

(* One critical section: snapshot and registration. *)
Subscribe(s, q) ==
    /\ phase[s] = "idle"
    /\ SubscribeValid(q)
    /\ phase' = [phase EXCEPT ![s] = "replay"]
    /\ sub' = Put(sub, s, [topic |-> q.topic, cursor |-> q.cursor,
                              length |-> Len(events[q.topic])])
    /\ pending' = [pending EXCEPT ![s] = Snapshot(q.topic, StartOf(q))]
    /\ subscribers' = [subscribers EXCEPT ![q.topic] = @ \cup {s}]
    /\ UNCHANGED <<bus, ch, received, dropped, requestErrors>>

SendReplay(s) ==
    /\ phase[s] = "replay"
    /\ pending[s] # <<>>
    /\ received' = [received EXCEPT ![s] = Append(@, Head(pending[s]))]
    /\ pending' = [pending EXCEPT ![s] = Tail(@)]
    /\ UNCHANGED <<bus, subscribers, ch, phase, sub, dropped, requestErrors>>

(* Mutant of ReplayDone: only an empty channel ends the replay. *)
ReplayDoneQuiet(s) ==
    /\ phase[s] = "replay"
    /\ pending[s] = <<>>
    /\ ch[s] = <<>>
    /\ phase' = [phase EXCEPT ![s] = "live"]
    /\ UNCHANGED <<bus, subscribers, ch, sub, pending, received, dropped, requestErrors>>

ReplayDone(s) ==
    /\ phase[s] = "replay"
    /\ pending[s] = <<>>
    /\ phase' = [phase EXCEPT ![s] = "live"]
    /\ UNCHANGED <<bus, subscribers, ch, sub, pending, received, dropped, requestErrors>>

(* Mutant of SendLive: the channel is served during the replay too. *)
SendLiveEarly(s) ==
    /\ phase[s] \in {"replay", "live"}
    /\ ch[s] # <<>>
    /\ received' = [received EXCEPT ![s] = Append(@, Head(ch[s]))]
    /\ ch' = [ch EXCEPT ![s] = Tail(@)]
    /\ UNCHANGED <<bus, subscribers, phase, sub, pending, dropped, requestErrors>>

SendLive(s) ==
    /\ phase[s] = "live"
    /\ ch[s] # <<>>
    /\ received' = [received EXCEPT ![s] = Append(@, Head(ch[s]))]
    /\ ch' = [ch EXCEPT ![s] = Tail(@)]
    /\ UNCHANGED <<bus, subscribers, phase, sub, pending, dropped, requestErrors>>

(* The client's context is done, noticed between two live events. *)
ContextDone(s) ==
    /\ phase[s] = "live"
    /\ phase' = [phase EXCEPT ![s] = "leaving"]
    /\ UNCHANGED <<bus, subscribers, ch, sub, pending, received, dropped, requestErrors>>

(* The event taken from the snapshot or the channel cannot be written. *)
SendFails(s) ==
    /\ \/ /\ phase[s] = "replay" /\ pending[s] # <<>>
          /\ pending' = [pending EXCEPT ![s] = Tail(@)] /\ ch' = ch
       \/ /\ phase[s] = "live" /\ ch[s] # <<>>
          /\ ch' = [ch EXCEPT ![s] = Tail(@)] /\ pending' = pending
    /\ phase' = [phase EXCEPT ![s] = "leaving"]
    /\ UNCHANGED <<bus, subscribers, sub, received, dropped, requestErrors>>

(* Mutant of Unregister: the channel is closed first. *)
CloseFirst(s) ==
    /\ phase[s] = "leaving"
    /\ phase' = [phase EXCEPT ![s] = "closed"]
    /\ UNCHANGED <<bus, subscribers, ch, sub, pending, received, dropped, requestErrors>>

(* The deferred unsubscribe: delete under the lock ... *)
Unregister(s) ==
    /\ phase[s] = "leaving"
    /\ phase' = [phase EXCEPT ![s] = "removed"]
    /\ subscribers' = [subscribers EXCEPT ![sub[s].topic] = @ \ {s}]
    /\ UNCHANGED <<bus, ch, sub, pending, received, dropped, requestErrors>>

(* ... and close after the unlock. *)
CloseChannel(s) ==
    /\ phase[s] = "removed"
    /\ phase' = [phase EXCEPT ![s] = "closed"]
    /\ UNCHANGED <<bus, subscribers, ch, sub, pending, received, dropped, requestErrors>>

(* The part of Close that concerns events; subscriptions are left alone. *)
Close ==
    /\ natsConn
    /\ natsConn' = FALSE
    /\ UNCHANGED <<events, wire, streams, requestErrors>>

Handler(s) ==
    \/ \E q \in SubscribeRequests : Subscribe(s, q) \/ SubscribeReject(s, q)
    \/ SendReplay(s) \/ ReplayDone(s) \/ SendLive(s)
    \/ ContextDone(s) \/ SendFails(s) \/ Unregister(s) \/ CloseChannel(s)

Next ==
    \/ \E q \in PublishRequests : Publish(q) \/ PublishReject(q)
    \/ \E s \in Handlers : Handler(s)
    \/ Close

Spec == Init /\ [][Next]_vars

(* The steps of a handler that wait for no client are those of a runnable  *)
(* goroutine.  A write to a client may wait for ever: the servers have no  *)
(* write timeout, so a client that stays and does not read blocks its      *)
(* handler.  No fairness either for publishers and for clients that        *)
(* subscribe or leave.                                                     *)
FairSpec ==
    /\ Spec
    /\ \A s \in Handlers :
         /\ WF_vars(ReplayDone(s))
         /\ WF_vars(Unregister(s))
         /\ WF_vars(CloseChannel(s))

(* The client of s goes on reading: no write to it waits for ever. *)
Reads(s) == WF_vars(SendReplay(s)) /\ WF_vars(SendLive(s))

-----------------------------------------------------------------------------
(* Properties *)

EventSet ==
    [topic : Topics, sequence : Nat, tenant : Tenants, replay : BOOLEAN]

Phases ==
    {"idle", "refused", "replay", "live", "leaving", "removed", "closed"}

Subscription == [topic : Topics, cursor : Cursor, length : Nat]

(* Handlers between the registration and the removal of their channel. *)
Registered == {s \in Handlers : phase[s] \in {"replay", "live", "leaving"}}

(* Every variable has the type of the Go value it stands for; a channel    *)
(* never holds more than make(chan EventMessage, 32) has room for.         *)
TypeOK ==
    /\ events \in [Topics -> Seq(EventSet)]
    /\ subscribers \in [Topics -> SUBSET Handlers]
    /\ ch \in [Handlers -> Seq(EventSet)]
    /\ \A s \in Handlers : Len(ch[s]) <= ChanCap
    /\ phase \in [Handlers -> Phases]
    /\ DOMAIN sub \subseteq Handlers
    /\ sub \in [DOMAIN sub -> Subscription]
    /\ \A s \in Handlers :
         phase[s] \in Phases \ {"idle", "refused"} => s \in DOMAIN sub
    /\ pending \in [Handlers -> Seq(EventSet)]
    /\ received \in [Handlers -> Seq(EventSet)]
    /\ dropped \in [Handlers -> SUBSET Nat]
    /\ wire \in Seq(EventSet)
    /\ natsConn \in BOOLEAN
    /\ requestErrors \in [{"publish", "subscribe"} -> Nat]

(* A publisher sends only to channels that are open: a handler is in the   *)
(* map of its topic, and in no other, exactly while its channel is         *)
(* registered.  A send on a closed channel would panic the process with    *)
(* the service lock held.                                                  *)
SendsOnlyToOpen ==
    \A t \in Topics :
        subscribers[t] = {s \in Registered : sub[s].topic = t}

(* What a handler has sent, has still to replay and has in its channel. *)
Stream(s) == received[s] \o pending[s] \o ch[s]

(* A client sees the sequence numbers of its topic strictly increasing     *)
(* across the switch from the replayed snapshot to the live channel,       *)
(* replayed events first.                                                  *)
DeliveryInOrder ==
    \A s \in Handlers : \A i, j \in DOMAIN Stream(s) : i < j =>
        /\ Stream(s)[i].sequence < Stream(s)[j].sequence
        /\ Stream(s)[j].replay => Stream(s)[i].replay

(* Nothing is lost or doubled between the snapshot and the registration,   *)
(* or by a resumption at a cursor: the events of the topic that come after *)
(* the cursor, or after the subscription, and only those, have been sent,  *)
(* are on their way, or were dropped because the channel was full.         *)
EventsAccounted ==
    \A s \in Handlers : phase[s] \in {"replay", "live"} =>
        LET onItsWay == {Stream(s)[i].sequence : i \in DOMAIN Stream(s)}
            n == Len(events[sub[s].topic])
            after == {i \in 1..n : \/ ~sub[s].cursor.given
                                   \/ i > sub[s].cursor.value
                                   \/ i > sub[s].length}
        IN  /\ onItsWay \cup dropped[s] = after
            /\ onItsWay \cap dropped[s] = {}

(* The bus implements a set of append-only logs shown in order. *)
Plain(e) == [topic |-> e.topic, sequence |-> e.sequence, tenant |-> e.tenant]
PlainSeq(q) == [i \in DOMAIN q |-> Plain(q[i])]

Feed == INSTANCE OrderedFeed WITH
    log <- [t \in Topics |-> PlainSeq(events[t])],
    view <- [s \in Handlers |-> PlainSeq(received[s])]

(* What clients are shown is what was published, once and in order, from   *)
(* logs that are only ever appended to (OrderedFeed!Spec).                 *)
FeedRefines == Feed!Spec

(* A client that goes on reading gets every event its handler was given,   *)
(* unless it leaves, whatever was published during the replay and although *)
(* the other clients may have stopped reading for good: who does not read  *)
(* blocks its own handler only.                                            *)
StreamDrains ==
    \A s \in Handlers : Reads(s) =>
        \A n \in 1..MaxEvents :
            (\E i \in DOMAIN Stream(s) : Stream(s)[i].sequence = n)
              ~> \/ phase[s] = "closed"
                 \/ \E i \in DOMAIN received[s] : received[s][i].sequence = n

-----------------------------------------------------------------------------
(* What the code claims and does not do *)

(* bootstrapDefaults advertises DeliverySemantics "at_least_once" for the  *)
(* capability's events: a client that stays subscribed misses none.        *)
AtLeastOnce ==
    \A s \in Handlers : phase[s] \in {"replay", "live"} => dropped[s] = {}
=============================================================================
