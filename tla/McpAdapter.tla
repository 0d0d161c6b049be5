----------------------------- MODULE McpAdapter -----------------------------
(***************************************************************************)
(* The MCP adapter (adapters/mcp) in front of the gateway of module        *)
(* Registry: an HTTP server that turns each JSON-RPC request into at most  *)
(* one request of its own, with the credentials and the manifest it was    *)
(* started with.  Each JSON-RPC request has its own goroutine; it answers  *)
(* at once, or waits in postJSON for the gateway and then answers.         *)
(***************************************************************************)
EXTENDS Registry

CONSTANTS
    Manifests,      \* the manifest files the adapter may be started with
    AdapterCreds,   \* the credentials it may be started with
    RPCs,           \* the JSON-RPC requests MCP clients may send
    MaxRPCs         \* bound on their number

(* The tenant of every header the adapter writes, whoever its client is. *)
AdapterTenant == <<"mcp-adapter">>

(* ToolMapping: a tool of MCP and the capability it stands for. *)
Mapping == [name : STRING, capability : CapabilityIDs \cup {EmptyString}]

ASSUME AdapterAssumption ==
    /\ MaxRPCs \in Nat
    /\ AdapterTenant \in TenantNames
    /\ \A c \in AdapterCreds : c.auth \in Authorization /\ c.xTenant \in MaybeTenant
    /\ \A file \in Manifests : file \in [defaultBinding : STRING, tools : Seq(Mapping)]

VARIABLES
    manifest,   \* Adapter.manifest
    cred,       \* Adapter.token and Adapter.tenantID
    calls       \* the JSON-RPC requests, each with its own request and answer

adapterVars == <<manifest, cred, calls>>
vars == <<registryVars, adapterVars>>

-----------------------------------------------------------------------------
(* Mutant of LoadManifest: without defaults. *)
LoadManifestRaw(file) == file

(* LoadManifest.  Of a manifest the adapter reads the default binding and  *)
(* the tools; resources, prompts, policy and billing are never looked at.  *)
LoadManifest(file) ==
    [file EXCEPT !.defaultBinding = IF @ = Blank THEN "http" ELSE @]

(* Mutant of CapabilityForTool: the last mapping wins. *)
CapabilityForToolLast(name) ==
    LET found == {i \in DOMAIN manifest.tools : manifest.tools[i].name = name} IN
    manifest.tools[CHOOSE i \in found : \A j \in found : j <= i].capability

Mapped(name) == \E i \in DOMAIN manifest.tools : manifest.tools[i].name = name

(* The first mapping of the tool. *)
CapabilityForTool(name) ==
    LET found == {i \in DOMAIN manifest.tools : manifest.tools[i].name = name} IN
    manifest.tools[CHOOSE i \in found : \A j \in found : i <= j].capability

(* The header of every request of the adapter; only handleToolsCall puts   *)
(* something into meta, the keys of AddIDGMeta.                            *)
AdapterHeader(meta) ==
    [version |-> MIGVersion, messageID |-> EmptyString, tenant |-> AdapterTenant,
     key |-> EmptyString, deadline |-> 0, meta |-> meta]

-----------------------------------------------------------------------------
RPCAnswer(status, code, message) == [status |-> status, code |-> code, message |-> message]

Pending == RPCAnswer(0, 0, "pending")

(* The errors ServeHTTP and handleToolsCall find themselves, in the order  *)
(* in which they look; Pending when there are none.                        *)
LocalAnswer(m) ==
    IF ~m.post THEN RPCAnswer(405, -32600, "POST_required")
    ELSE IF ~m.parses THEN RPCAnswer(400, -32700, "parse_error")
    ELSE IF m.method \notin {"initialize", "tools/list", "tools/call"}
      THEN RPCAnswer(200, -32601, "method_not_found")
    ELSE IF m.method = "tools/call" /\ ~m.params THEN RPCAnswer(200, -32602, "invalid_params")
    ELSE IF m.method = "tools/call" /\ ~Mapped(m.tool)
      THEN RPCAnswer(200, -32601, "tool_not_mapped")
    ELSE Pending

(* The request of handleInitialize, handleToolsList and handleToolsCall. *)
Forward(m) ==
    LET request(op, meta, body) ==
          [op |-> op, binding |-> "http", cred |-> cred, decodes |-> TRUE,
           head |-> AdapterHeader(meta), body |-> body]
    IN  CASE m.method = "initialize" ->
               request("hello", EmptyMap, [versions |-> {MIGVersion},
                                           bindings |-> <<manifest.defaultBinding>>])
          [] m.method = "tools/list" -> request("discover", EmptyMap, [query |-> Blank])
          [] m.method = "tools/call" ->
               request("invoke", AddIDGMeta(EmptyMap),
                       [capability |-> CapabilityForTool(m.tool)])

(* What postJSON and its callers make of the end of the request: errors of *)
(* the gateway lose their MIG code, and what tools/list answers is the     *)
(* manifest, not what the gateway has discovered.                          *)
RPCResult(outcome) ==
    Lookup([ok |-> RPCAnswer(200, 0, "result"),
            unavailable |-> RPCAnswer(200, -32011, "unavailable")],
           outcome, RPCAnswer(200, -32603, outcome))

-----------------------------------------------------------------------------
Init ==
    /\ RegistryInit
    /\ \E file \in Manifests : manifest = LoadManifest(file)
    /\ cred \in AdapterCreds
    /\ calls = <<>>

(* ServeHTTP answers without the gateway (no request gets the number) ... *)
AnswerLocally(m) ==
    /\ Len(calls) < MaxRPCs /\ sent < MaxRequests
    /\ LocalAnswer(m) # Pending
    /\ sent' = sent + 1
    /\ calls' = Append(calls, [rpc |-> m, request |-> sent + 1, answer |-> LocalAnswer(m)])
    /\ UNCHANGED <<process, queue, waiting, replies, learned, results, manifest, cred>>

(* ... or sends it a request. *)
Bridge(m) ==
    /\ Len(calls) < MaxRPCs
    /\ LocalAnswer(m) = Pending
    /\ Send(Forward(m))
    /\ calls' = Append(calls, [rpc |-> m, request |-> sent + 1, answer |-> Pending])
    /\ UNCHANGED <<manifest, cred>>

(* The end of request n, if the adapter waits for it. *)
AnswerRPC(n, outcome) ==
    /\ calls' = [i \in DOMAIN calls |->
                   IF calls[i].request = n THEN [calls[i] EXCEPT !.answer = RPCResult(outcome)]
                   ELSE calls[i]]
    /\ UNCHANGED <<manifest, cred>>

Returns(n) ==
    \/ Receive(n) /\ AnswerRPC(n, IF Refused(n) THEN "backend_error" ELSE "ok")
    \/ ReceivePart(n) /\ AnswerRPC(n, "decode_failed")
    \/ GiveUp(n) /\ AnswerRPC(n, "unavailable")

Next ==
    \/ \E q \in Requests : Send(q) /\ UNCHANGED adapterVars
    \/ \E m \in RPCs : AnswerLocally(m) \/ Bridge(m)
    \/ \E n \in 1..sent : Handle(n) /\ UNCHANGED adapterVars
    \/ \E n \in 1..sent : Returns(n)
    \/ Restart /\ UNCHANGED adapterVars

Spec == Init /\ [][Next]_vars

-----------------------------------------------------------------------------
(* The shape of the state. *)
TypeOK ==
    /\ RegistryTypeOK
    /\ manifest.defaultBinding # Blank
    /\ Len(calls) <= MaxRPCs
    /\ \A i \in DOMAIN calls : calls[i].request \in 1..sent

(* The answers, the one not given yet among them, that leave it open       *)
(* whether the call was executed.                                          *)
Undecided == {"pending", "unavailable", "decode_failed"}

(* What an MCP client may conclude from the answer to tools/call, over     *)
(* timeouts, broken connections and restarts of the gateway: a result is   *)
(* one execution of the capability that the first mapping of the tool      *)
(* names; "backend unavailable" and "decode backend response failed" are   *)
(* at most one, possibly later, and every other error none, ever           *)
(* (server.go:164-232).  Nothing is said of the tenant the call is billed  *)
(* to or of the number of an error: there the adapter does not follow its  *)
(* mapping document.                                                       *)
ToolCallsTold ==
    \A i \in {j \in DOMAIN calls : calls[j].rpc.method = "tools/call"} :
        LET call == calls[i] IN
        /\ \A k \in Executions(call.request) :
             \E j \in DOMAIN manifest.tools :
                 /\ manifest.tools[j].name = call.rpc.tool
                 /\ manifest.tools[j].capability = History[k].capability
                 /\ \A l \in 1..(j - 1) : manifest.tools[l].name # call.rpc.tool
        /\ Cardinality(Executions(call.request)) <= 1
        /\ call.answer.message = "result" => Executions(call.request) # {}
        /\ call.answer.message \notin Undecided \cup {"result"} =>
             Executions(call.request) = {} /\ call.request \notin DOMAIN queue
=============================================================================
