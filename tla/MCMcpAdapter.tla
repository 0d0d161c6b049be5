---------------------------- MODULE MCMcpAdapter ----------------------------
(***************************************************************************)
(* Instances of McpAdapter for TLC: one organisation's token, the          *)
(* adapter's token, and clients without one; every operation with the      *)
(* inputs that take each of its ways out.                                  *)
(***************************************************************************)
EXTENDS McpAdapter

Acme == <<"acme">>
MCTenants == {Acme, AdapterTenant}

Auth(tenant) ==
    [bearer |-> tenant # EmptyString, valid |-> TRUE, tenantID |-> tenant, tenant |-> EmptyString]
Cred(tenant, scopes) == [auth |-> Auth(tenant), xTenant |-> EmptyString, scopes |-> scopes]

AcmeCred == Cred(Acme, {"capability:infer"})

MCAdapterCreds == {Cred(AdapterTenant, {"capability:infer"})}

Infer == <<"observatory", "infer">>
Tool  == <<"acme", "tool">>

Descriptor(id, scopes, mode) ==
    [id |-> id, version |-> "1.0.0", modes |-> {mode}, inputSchema |-> "in",
     outputSchema |-> "out", scopes |-> scopes, delivery |-> "at_least_once"]

MCCapabilityIDs == {Infer, Tool}
MCBootstrap == Put(EmptyMap, Infer, Descriptor(Infer, {"capability:infer"}, "unary"))
MCBootstrapSchemas == {"in", "out"}

MsgHead(tenant, deadline) ==
    [version |-> "", messageID |-> EmptyString, tenant |-> tenant, key |-> EmptyString,
     deadline |-> deadline, meta |-> EmptyMap]

Req(op, binding, c, head, body) ==
    [op |-> op, binding |-> binding, cred |-> c, decodes |-> TRUE, head |-> head, body |-> body]
HTTP(op, body) == Req(op, "http", AcmeCred, MsgHead(EmptyString, 0), body)

MigRequests ==
    {Req("hello", "grpc", AcmeCred, MsgHead(Acme, 15),
         [versions |-> {"0.1", "0.2"},
          bindings |-> <<"BINDING_TYPE_UNSPECIFIED", "BINDING_TYPE_NATS">>]),
     Req("discover", "http", AcmeCred, MsgHead(AdapterTenant, 0), [query |-> "infer"]),
     Req("heartbeat", "grpc", AcmeCred, MsgHead(EmptyString, 3), [interval |-> 15]),
     Req("invoke", "http", AcmeCred, MsgHead(Acme, -1), [capability |-> Infer]),
     Req("invoke", "grpc", AcmeCred, MsgHead(Acme, 15), [capability |-> Tool])}

AdminRequests ==
    {HTTP("addCapability", Descriptor(Tool, {}, "batch")),
     HTTP("listCapabilities", NoBody),
     HTTP("addSchema", [uri |-> "in", empty |-> FALSE]),
     HTTP("validatePolicy", [tenant |-> Acme, capability |-> Tool, action |-> "invoke"]),
     HTTP("setQuota", [tenant |-> Acme, max |-> 1]),
     HTTP("auditExport", [tenant |-> Acme])}

(* The ids a first and a second request make up. *)
CloudRequests ==
    {HTTP("createOrg", [id |-> EmptyString, name |-> "org"]),
     HTTP("createTenant", [id |-> EmptyString, orgID |-> <<"org", 1>>, name |-> "tenant"]),
     HTTP("createGateway",
          [id |-> EmptyString, tenantID |-> <<"tenant", 2>>, region |-> "eu",
           binding |-> "grpc"])}

MCRequests == MigRequests \cup AdminRequests \cup CloudRequests

MCManifests ==
    {[defaultBinding |-> "",
      tools |-> <<[name |-> "infer", capability |-> Infer], [name |-> "infer", capability |-> Tool]>>]}

RPC(method, tool) ==
    [post |-> TRUE, parses |-> TRUE, method |-> method, params |-> TRUE, tool |-> tool]

MCRPCs ==
    {RPC("initialize", ""), RPC("tools/list", ""), RPC("tools/call", "infer"),
     RPC("tools/call", "other")}
=============================================================================
