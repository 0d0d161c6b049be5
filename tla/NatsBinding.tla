---------------------------- MODULE NatsBinding ----------------------------
(***************************************************************************)
(* The event side of the NATS binding (nats_binding.go) on top of the      *)
(* event bus.  Publish mirrors every event to a subject of the broker; the *)
(* binding subscribes, on the same connection, to the subjects on which    *)
(* clients of the broker publish events, and hands what arrives to         *)
(* Publish.                                                                *)
(*                                                                         *)
(* The broker delivers a message to every subscription whose pattern       *)
(* matches its subject, those of the sending connection included: the      *)
(* connection is made without the NoEcho option.                           *)
(***************************************************************************)
EXTENDS EventBus

CONSTANT
    SubjectTokens   \* by tenant or topic: the tokens of its sanitized form

VARIABLES
    natsBinding,    \* s.natsBinding # nil
    delivered,      \* how much of wire the broker has dealt with
    publications    \* history: the Publish calls that clients made

natsVars == <<vars, natsBinding, delivered, publications>>

NatsInit ==
    /\ Init
    /\ natsBinding = FALSE
    /\ delivered = 0
    /\ publications = 0

(* mig.v0_1.<tenant>.events.<topic>, with blanks and slashes replaced. *)
MirrorSubject(event) ==
    <<"mig", "v0_1">> \o SubjectTokens[event.tenant]
        \o <<"events">> \o SubjectTokens[event.topic]

(* The broker's match of a subject with "mig.v0_1.*.events.>". *)
MatchesEvents(subject) ==
    /\ Len(subject) > 4
    /\ SubSeq(subject, 1, 2) = <<"mig", "v0_1">>
    /\ subject[4] = "events"

(* Subscriptions see what is sent after they are made. *)
StartNATSBinding ==
    /\ ~natsBinding
    /\ natsConn
    /\ natsBinding' = TRUE
    /\ delivered' = Len(wire)
    /\ UNCHANGED <<vars, publications>>

ClientPublish(q) ==
    /\ Publish(q)
    /\ publications' = publications + 1
    /\ UNCHANGED <<natsBinding, delivered>>

(* An EventMessage, read as a PublishRequest: header and topic are set, so *)
(* handlePublish takes neither from the subject.                           *)
AsPublishRequest(event) ==
    [head |-> [version |-> MIGVersion, messageID |-> EmptyString,
               tenant |-> event.tenant, key |-> EmptyString],
     path |-> event.topic, topic |-> event.topic]

(* The broker deals with the next message: the binding's callback runs     *)
(* when its pattern matches.                                               *)
Deliver ==
    /\ natsBinding
    /\ delivered < Len(wire)
    /\ delivered' = delivered + 1
    /\ LET event == wire[delivered + 1]
       IN  IF MatchesEvents(MirrorSubject(event))
           THEN Publish(AsPublishRequest(event))
           ELSE UNCHANGED vars
    /\ UNCHANGED <<natsBinding, publications>>

NatsClose ==
    /\ Close
    /\ natsBinding' = FALSE
    /\ UNCHANGED <<delivered, publications>>

NatsNext ==
    \/ StartNATSBinding
    \/ \E q \in PublishRequests : ClientPublish(q)
    \/ Deliver
    \/ NatsClose

NatsSpec == NatsInit /\ [][NatsNext]_natsVars

(* "Published MIG events are mirrored" (USER-GUIDE.md): a publication      *)
(* makes one event, also when the binding listens to the broker.           *)
OneEventPerPublication ==
    \A t \in Topics : Len(events[t]) <= publications
=============================================================================
