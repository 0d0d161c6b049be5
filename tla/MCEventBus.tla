----------------------------- MODULE MCEventBus -----------------------------
(* Instances of EventBus for TLC. *)
EXTENDS EventBus, TLC

CONSTANTS s1, s2

done  == <<"inference", "completed">>
start == <<"inference", "started">>
bare  == <<"inference">>
acme  == <<"acme">>

Head0(tenant) == [version |-> "", messageID |-> EmptyString, tenant |-> tenant,
                  key |-> EmptyString]

ToPath(t) == [head |-> Head0(acme), path |-> t, topic |-> EmptyString]

(* A good publication and three kinds of refusal: no namespace, no topic,  *)
(* no tenant.                                                              *)
MCPublishRequests ==
    {ToPath(done), ToPath(bare), ToPath(EmptyString),
     [ToPath(done) EXCEPT !.head = Head0(EmptyString)]}

OneTopicRequests == {[ToPath(EmptyString) EXCEPT !.topic = done]}

NoCursor  == [given |-> FALSE, number |-> FALSE, value |-> 0]
BadCursor == [given |-> TRUE, number |-> FALSE, value |-> 0]
At(n)     == [given |-> TRUE, number |-> TRUE, value |-> n]

From(t, c) == [topic |-> t, cursor |-> c]

(* A subscription at a cursor, which is within the log or beyond it by the *)
(* time of the subscription, one without a cursor to the other topic; and  *)
(* the refusals: no namespace, a cursor that is not a number, a negative   *)
(* one.                                                                    *)
MCSubscribeRequests ==
    {From(done, At(1)), From(start, NoCursor),
     From(done, At(-1)), From(done, BadCursor), From(bare, NoCursor)}

(* A subscription without a cursor. *)
PlainSubscribe == {From(done, NoCursor)}

MCTopics == {done, start, bare}
OneTopic == {done}
MCTenants == {acme}
=============================================================================
