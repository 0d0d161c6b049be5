---------------------------- MODULE MCInvocation ----------------------------
(* Instances of Invocation for TLC: the names, and the requests of the     *)
(* scenarios the configurations choose from.                               *)
EXTENDS Invocation, TLC

CONSTANTS r1, r2, r3

Symmetry == Permutations(Calls)

acme   == <<"acme">>
globex == <<"globex">>
infer  == <<"infer">>
embed  == <<"embed">>
k1     == <<"k1">>
m1     == <<"m1">>

Desc(id, scopes, schema) ==
    [id |-> id, version |-> "1.0.0", inputSchema |-> "in", outputSchema |-> schema,
     scopes |-> scopes, delivery |-> "at_least_once"]

(* bootstrapDefaults registers one capability, with one scope. *)
MCBootstrap == [c \in {infer} |-> Desc(infer, {"scope"}, "out1")]

(* Re-registration of infer, registration of embed, an invalid descriptor. *)
MCDescriptors ==
    {Desc(infer, {}, "out2"), Desc(embed, {}, "out1"), Desc(embed, {}, "")}

Anonymous == [authenticated |-> FALSE, scopes |-> {}]
Unscoped  == [authenticated |-> TRUE, scopes |-> {}]

Req(id, tenant, key, cap, payload, principal) ==
    [head |-> [version |-> "", messageID |-> id, tenant |-> tenant, key |-> key],
     path |-> cap, capability |-> EmptyString, payload |-> payload,
     principal |-> principal]

(* One tenant, one key, two payloads; a second tenant and a second         *)
(* capability with the same key.                                           *)
KeyedRequests ==
    {Req(m1, acme, k1, infer, "p1", Anonymous),
     Req(EmptyString, acme, k1, infer, "p2", Anonymous),
     Req(EmptyString, globex, k1, infer, "p1", Anonymous),
     Req(EmptyString, acme, k1, embed, "p2", Anonymous)}

(* Every early return: bad version, no tenant, no capability, no scope, a  *)
(* capability named in the body only, and a call that gets through.        *)
MixedRequests ==
    {[Req(m1, acme, k1, infer, "p1", Anonymous) EXCEPT !.head.version = "9.9"],
     Req(m1, EmptyString, k1, infer, "p1", Anonymous),
     Req(m1, acme, k1, EmptyString, "p1", Anonymous),
     Req(m1, acme, k1, infer, "p1", Unscoped),
     [Req(m1, acme, EmptyString, EmptyString, "p1", Anonymous)
        EXCEPT !.capability = embed],
     Req(m1, acme, EmptyString, infer, "p1", Anonymous),
     Req(EmptyString, globex, EmptyString, infer, "p1", Anonymous)}

(* Identifiers that contain the separator: "acme":"a:b":"c" and            *)
(* "acme":"a":"b:c" are two calls.                                         *)
ab == <<"a", "b">>
ColonBootstrap == [c \in {<<"a">>, ab} |-> Desc(c, {}, "out1")]
ColonRequests ==
    {Req(EmptyString, acme, <<"c">>, ab, "p1", Anonymous),
     Req(EmptyString, acme, <<"b", "c">>, <<"a">>, "p1", Anonymous)}

MCQuotas == {[tenant |-> acme, max |-> n] : n \in {-1, 1, 2}}
              \cup {[tenant |-> EmptyString, max |-> 1]}

CancelHead(t) == [version |-> "0.1", messageID |-> EmptyString, tenant |-> t,
                  key |-> EmptyString]
CancelM1 == [head |-> CancelHead(acme), path |-> m1, target |-> EmptyString]
MCCancels ==
    {CancelM1,
     [head |-> CancelHead(acme), path |-> EmptyString, target |-> EmptyString],
     [head |-> CancelHead(EmptyString), path |-> m1, target |-> EmptyString]}

MCTenants == {acme, globex}
MCCapabilityIDs == {infer, embed}
ColonCapabilityIDs == {<<"a">>, ab}
MCKeys == {k1}
ColonKeys == {<<"c">>, <<"b", "c">>}
MCMessageIDs == {m1}
OneCancel == {CancelM1}
OneQuota == {[tenant |-> acme, max |-> n] : n \in {-1, 1}}
NoDescriptors == {}
NoQuotas == {}
NoCancels == {}
=============================================================================
