----------------------------- MODULE MCSessions -----------------------------
(* Instances of Sessions for TLC. *)
EXTENDS Sessions, TLC

CONSTANTS c1, c2

Symmetry == Permutations(Conns)

acme   == <<"acme">>
globex == <<"globex">>
m1     == <<"m1">>

MCTenantNames == {acme, globex}
MCMessageIDs  == {m1}

NoToken   == [bearer |-> FALSE, valid |-> FALSE, tenantID |-> EmptyString,
              tenant |-> EmptyString]
Claim(t)  == [bearer |-> TRUE, valid |-> TRUE, tenantID |-> t, tenant |-> EmptyString]
OldClaim  == [bearer |-> TRUE, valid |-> TRUE, tenantID |-> EmptyString, tenant |-> acme]

To(kind, valid) ==
    [kind |-> kind, auth |-> Claim(acme), xTenant |-> EmptyString,
     tenant |-> EmptyString, valid |-> valid]

(* One connection of each kind that serves, and ways to fail: a            *)
(* subscription that is refused after others were booked, one that names   *)
(* another tenant, a request without a token.                              *)
Serving ==
    {To("sse", TRUE), To("websocket", TRUE), To("grpc_events", TRUE),
     [To("grpc_bidi", TRUE) EXCEPT !.auth = OldClaim]}
Failing ==
    {[To("grpc_events", TRUE) EXCEPT !.tenant = globex],
     [To("websocket", TRUE) EXCEPT !.auth = NoToken]}

MCOpenRequests   == Serving \cup {To("grpc_events", FALSE)}
LiveOpenRequests == Serving \cup Failing

(* A request without a tenant, one for another tenant, a control frame     *)
(* that is a cancellation over gRPC and an unknown action on a websocket.  *)
Request(t) == [kind |-> "request", action |-> "other", id |-> m1, tenant |-> t]
Control(a) == [kind |-> "control", action |-> a, id |-> m1, tenant |-> acme]

MCFrames   == {Request(EmptyString), Request(globex), Control("other")}
LiveFrames == {Request(EmptyString), Control("other")}

(* An invocation over HTTP and over gRPC, a cancellation over NATS. *)
HTTPInvoke == [binding |-> "http", auth |-> Claim(acme), xTenant |-> acme,
               tenant |-> EmptyString, operation |-> "invoke", id |-> EmptyString]
GRPCInvoke == [binding |-> "grpc", auth |-> Claim(acme), xTenant |-> EmptyString,
               tenant |-> acme, operation |-> "invoke", id |-> EmptyString]
NATSCancel == [binding |-> "nats", auth |-> NoToken, xTenant |-> globex,
               tenant |-> EmptyString, operation |-> "cancel", id |-> m1]

MCUnaryRequests   == {HTTPInvoke, GRPCInvoke}
LiveUnaryRequests == {NATSCancel}
=============================================================================
