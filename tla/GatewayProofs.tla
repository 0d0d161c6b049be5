--------------------------- MODULE GatewayProofs ---------------------------
(* Theorems about the gateway, its clients and the MCP adapter (modules    *)
(* Registry and McpAdapter), for every value of the constants.             *)
EXTENDS McpAdapter, SequenceTheorems, FiniteSetTheorems, WellFoundedInduction, TLAPS

-----------------------------------------------------------------------------
(* What the requests and the answers look like *)

Messages ==
    Outcomes \cup {"pending", "POST_required", "parse_error", "method_not_found",
                 "invalid_params", "tool_not_mapped", "result"}

Calls == [rpc : RPCs, request : Nat, answer : [status : Int, code : Int, message : Messages]]

(* The strengthening of TypeOK that is inductive. *)
TypeInv ==
    /\ RegistryTypeOK
    /\ manifest.defaultBinding # Blank /\ manifest.tools \in Seq(Mapping)
    /\ cred \in AdapterCreds
    /\ calls \in Seq(Calls) /\ Len(calls) <= MaxRPCs
    /\ \A i \in DOMAIN calls : calls[i].request \in 1..sent

(* The tool mapping LoadManifest keeps is the one of the file. *)
LEMMA LoadManifestTyped ==
    ASSUME NEW file \in Manifests
    PROVE  /\ LoadManifest(file).defaultBinding # Blank
           /\ LoadManifest(file).tools \in Seq(Mapping)
  <1>1. file \in [defaultBinding : STRING, tools : Seq(Mapping)]
    BY AdapterAssumption
  <1>2. "http" # Blank
    BY DEF Blank
  <1> QED BY <1>1, <1>2 DEF LoadManifest

(* A mapped tool has a first mapping, which CapabilityForTool finds. *)
LEMMA FirstMapping ==
    ASSUME TypeInv, NEW name, Mapped(name)
    PROVE  \E i \in DOMAIN manifest.tools :
             /\ manifest.tools[i].name = name
             /\ manifest.tools[i].capability = CapabilityForTool(name)
             /\ \A j \in 1..(i - 1) : manifest.tools[j].name # name
  <1> DEFINE found == {i \in DOMAIN manifest.tools : manifest.tools[i].name = name}
  <1>1. DOMAIN manifest.tools = 1..Len(manifest.tools) /\ Len(manifest.tools) \in Nat
    BY LenProperties DEF TypeInv
  <1>2. found \subseteq Nat /\ found # {}
    BY <1>1 DEF Mapped
  <1>3. PICK i \in found : \A j \in found : ~(<<j, i>> \in OpToRel(<, Nat))
    <2> DEFINE R == OpToRel(<, Nat)
    <2>1. IsWellFoundedOn(R, Nat)
      BY NatLessThanWellFounded
    <2> HIDE DEF found, R
    <2>2. \E i \in found : \A j \in found : ~(<<j, i>> \in R)
      BY <1>2, <2>1, WFMin
    <2> QED BY <2>2 DEF R
  <1>4. \A j \in found : i <= j
    <2>1. OpToRel(<, Nat) = {r \in Nat \X Nat : r[1] < r[2]}
      BY DEF OpToRel
    <2> HIDE DEF found
    <2>2. ASSUME NEW j \in found, j < i PROVE FALSE
      <3>1. <<j, i>> \in {r \in Nat \X Nat : r[1] < r[2]}
        BY <1>2, <2>2
      <3> QED BY <1>3, <2>1, <3>1
    <2> QED BY <1>2, <2>2
  <1> DEFINE first == CHOOSE k \in found : \A j \in found : k <= j
  <1>5. first \in found /\ \A j \in found : first <= j
    <2> HIDE DEF found
    <2> QED BY <1>4
  <1>6. \A j \in 1..(first - 1) : j \notin found
    <2> HIDE DEF found, first
    <2> QED BY <1>2, <1>5
  <1>7. manifest.tools[first].capability = CapabilityForTool(name)
    BY DEF CapabilityForTool
  <1>8. ASSUME NEW j \in 1..(first - 1) PROVE manifest.tools[j].name # name
    <2>1. j \in DOMAIN manifest.tools
      BY <1>1, <1>5
    <2> QED BY <1>6, <2>1
  <1> QED BY <1>5, <1>7, <1>8

(* What the adapter sends is a request the gateway can have. *)
LEMMA ForwardWellformed ==
    ASSUME TypeInv, NEW m \in RPCs, LocalAnswer(m) = Pending
    PROVE  Wellformed(Forward(m))
  <1> DEFINE methods == {"initialize", "tools/list", "tools/call"}
  <1>1. m.method \in methods /\ (m.method = "tools/call" => Mapped(m.tool))
    <2>1. \A x, c, d : RPCAnswer(x, c, d) = Pending => x = 0
      BY DEF Pending, RPCAnswer
    <2> QED BY <2>1 DEF LocalAnswer
  <1>2. m.method = "tools/call" =>
          CapabilityForTool(m.tool) \in CapabilityIDs \cup {EmptyString}
    <2> SUFFICES ASSUME m.method = "tools/call"
                 PROVE  CapabilityForTool(m.tool) \in CapabilityIDs \cup {EmptyString}
      OBVIOUS
    <2>1. PICK i \in DOMAIN manifest.tools :
              manifest.tools[i].capability = CapabilityForTool(m.tool)
      BY <1>1, FirstMapping
    <2>2. manifest.tools[i] \in Mapping
      <3>1. manifest.tools \in Seq(Mapping)
        BY DEF TypeInv
      <3> QED BY <2>1, <3>1, LenProperties, ElementOfSeq
    <2> QED BY <2>1, <2>2 DEF Mapping
  <1>4. cred.auth \in Authorization /\ cred.xTenant \in MaybeTenant
    BY AdapterAssumption DEF TypeInv
  <1>5. \A meta : /\ DOMAIN AdapterHeader(meta) = HeaderFields
                  /\ AdapterHeader(meta).tenant \in MaybeTenant
                  /\ AdapterHeader(meta).deadline \in Int
    BY AdapterAssumption DEF AdapterHeader, HeaderFields, MaybeTenant
  <1>6. CASE m.method = "initialize"
    <2>1. \A x : DOMAIN <<x>> = 1..Len(<<x>>)
      OBVIOUS
    <2> QED BY <1>4, <1>5, <1>6, <2>1 DEF Forward, Wellformed, Ops, MigOps, BodyFields
  <1>7. CASE m.method = "tools/list"
    BY <1>4, <1>5, <1>7 DEF Forward, Wellformed, Ops, MigOps, BodyFields
  <1>8. CASE m.method = "tools/call"
    BY <1>2, <1>4, <1>5, <1>8 DEF Forward, Wellformed, Ops, MigOps, BodyFields
  <1> QED BY <1>1, <1>6, <1>7, <1>8

-----------------------------------------------------------------------------
(* The steps of the process *)

(* What every handler does to the requests and answers: request n leaves   *)
(* the queue, and the only new answer is the one to it.                    *)
Frame(n) ==
    /\ n \in DOMAIN queue
    /\ queue' = Without(queue, n)
    /\ UNCHANGED <<sent, waiting, learned, results, past, epoch>>
    /\ DOMAIN replies' = DOMAIN replies \cup ({n} \cap DOMAIN waiting)
    /\ \A k \in DOMAIN replies \ {n} : replies'[k] = replies[k]

(* Reply makes such a step. *)
LEMMA ReplyFrame ==
    ASSUME NEW n \in DOMAIN queue, NEW a, Reply(n, a)
    PROVE  Frame(n) /\ (n \in DOMAIN waiting => replies'[n] = a)
  <1>1. \A k \in DOMAIN replies \ {n} : Put(replies, n, a)[k] = replies[k]
    BY DEF Put
  <1>2. DOMAIN Put(replies, n, a) = DOMAIN replies \cup {n} /\ Put(replies, n, a)[n] = a
    BY DEF Put
  <1> QED BY <1>1, <1>2 DEF Reply, Frame, clients

(* Every handler does. *)
LEMMA HandleFrame ==
    ASSUME NEW n, Handle(n)
    PROVE  Frame(n)
  <1>1. n \in DOMAIN queue
    BY DEF Handle, Refuse, handleHello, handleDiscover, handleHeartbeat, handleInvoke,
           handleAddCapability, handleListCapabilities, handleAddSchema,
           handlePolicyValidate, handleSetQuota, handleAuditExport, handleCreateOrg,
           handleCreateTenant, handleCreateGateway, Read, Store, Serves
  <1>2. \E a : Reply(n, a)
    BY Zenon DEF Handle, Refuse, handleHello, handleDiscover, handleHeartbeat, handleInvoke,
           handleAddCapability, handleListCapabilities, handleAddSchema,
           handlePolicyValidate, handleSetQuota, handleAuditExport, handleCreateOrg,
           handleCreateTenant, handleCreateGateway, Read, Store
  <1> QED BY <1>1, <1>2, ReplyFrame

(* The parts of the service. *)
LEMMA ServiceFields ==
    DOMAIN NewService = {"capabilities", "schemas", "quotas", "orgs", "tenants", "gateways",
                         "audit"}
  BY DEF NewService

(* The tenant of a request is one a client may have given, or "unknown". *)
LEMMA ReceivedTenant ==
    ASSUME NEW q, Wellformed(q)
    PROVE  /\ Received(q).tenant =
                 HeaderTenant(q.binding, q.head.tenant, Principal(q).tenant, q.cred.xTenant)
           /\ Received(q).tenant \in MaybeTenant \cup {Unknown}
  <1>1. DOMAIN q.head = HeaderFields /\ q.head.tenant \in MaybeTenant
    BY DEF Wellformed
  <1>2. Received(q).tenant =
          HeaderTenant(q.binding, q.head.tenant, Principal(q).tenant, q.cred.xTenant)
    BY <1>1 DEF Received, messageHeaderFromProto, HeaderFields
  <1>3. q.cred.auth \in Authorization /\ q.cred.xTenant \in MaybeTenant
    BY DEF Wellformed
  <1>4. Principal(q).tenant \in MaybeTenant
    BY <1>3 DEF Principal, PrincipalTenant, Claimed, Authorization
  <1>5. HeaderTenant(q.binding, q.head.tenant, Principal(q).tenant, q.cred.xTenant)
          \in MaybeTenant \cup {Unknown}
    BY <1>1, <1>3, <1>4 DEF HeaderTenant, HTTPTenant, GRPCTenant, tenantFromRequest
  <1> QED BY <1>2, <1>5

(* An execution appends one record, of the request, to the log, and writes *)
(* it to the file.                                                         *)
Executes(n) ==
    /\ queue[n].op = "invoke"
    /\ AuditRecord(queue[n], n) \in AuditRecords
    /\ s' = [s EXCEPT !.audit = Append(@, AuditRecord(queue[n], n))]
    /\ writeAuditLogLocked(AuditRecord(queue[n], n))

(* Audit log and audit file change by executions only. *)
LEMMA HandleAudit ==
    ASSUME TypeInv, NEW n, Handle(n)
    PROVE  /\ DOMAIN s' = DOMAIN s
           /\ \/ Executes(n)
              \/ s'.audit = s.audit /\ auditFile' = auditFile
  <1>1. DOMAIN s = DOMAIN NewService
    BY DEF TypeInv, RegistryTypeOK
  <1>2. CASE handleInvoke(n)
    <2>1. n \in DOMAIN queue /\ queue[n].op = "invoke" /\ n \in Nat
      BY <1>2 DEF handleInvoke, Serves, TypeInv, RegistryTypeOK
    <2>2. Wellformed(queue[n])
      BY <2>1 DEF TypeInv, RegistryTypeOK
    <2>3. AuditRecord(queue[n], n) \in AuditRecords
      BY <2>1, <2>2, ReceivedTenant DEF AuditRecord, AuditRecords, Wellformed
    <2>4. Execute(n) \/ UNCHANGED <<s, auditFile>>
      BY <1>2 DEF handleInvoke
    <2> QED BY <2>1, <2>3, <2>4 DEF Execute, Executes
  <1>3. CASE \/ Refuse(n) \/ handleHello(n) \/ handleDiscover(n) \/ handleHeartbeat(n)
             \/ handleListCapabilities(n) \/ handlePolicyValidate(n) \/ handleAuditExport(n)
    BY <1>3 DEF Refuse, handleHello, handleDiscover, handleHeartbeat, handleListCapabilities,
                handlePolicyValidate, handleAuditExport, Read
  <1>4. CASE handleAddCapability(n)
    BY <1>1, <1>4, ServiceFields DEF handleAddCapability, Store
  <1>5. CASE handleAddSchema(n)
    BY <1>1, <1>5, ServiceFields DEF handleAddSchema, Store
  <1>6. CASE handleSetQuota(n)
    BY <1>1, <1>6, ServiceFields DEF handleSetQuota, Store
  <1>7. CASE handleCreateOrg(n)
    BY <1>1, <1>7, ServiceFields DEF handleCreateOrg, Store
  <1>8. CASE handleCreateTenant(n)
    BY <1>1, <1>8, ServiceFields DEF handleCreateTenant, Store
  <1>9. CASE handleCreateGateway(n)
    BY <1>1, <1>9, ServiceFields DEF handleCreateGateway, Store
  <1> QED BY <1>2, <1>3, <1>4, <1>5, <1>6, <1>7, <1>8, <1>9 DEF Handle

-----------------------------------------------------------------------------
(* Types *)

(* A write that may be in the file, whole or not. *)
AuditWrites == [record : AuditRecords, part : WriteParts]

(* What writing one record leaves of the file. *)
LEMMA WriteAppends ==
    ASSUME NEW r \in AuditRecords, writeAuditLogLocked(r)
    PROVE  \E w \in AuditWrites :
             /\ w.record = r
             /\ auditFile' = IF AuditLogConfigured THEN Append(auditFile, w) ELSE auditFile
  <1>1. PICK part \in AuditParts :
          auditFile' = IF AuditLogConfigured THEN Append(auditFile, Written(r, part))
                       ELSE auditFile
    BY DEF writeAuditLogLocked
  <1>2. part \in WriteParts
    BY DEF AuditParts, WriteParts
  <1>3. Written(r, part) \in AuditWrites /\ Written(r, part).record = r
    BY <1>2 DEF Written, AuditWrites
  <1> QED BY <1>1, <1>3

(* Init makes the types right. *)
LEMMA InitTypes == Init => TypeInv
  <1> SUFFICES ASSUME Init PROVE TypeInv
    OBVIOUS
  <1>1. RegistryTypeOK
    <2>1. <<>> \in Seq(AuditRecords) /\ <<>> \in Seq(AuditWrites) /\ DOMAIN <<>> = {}
      OBVIOUS
    <2>2. NewService.audit = <<>>
      BY DEF NewService
    <2> QED BY <2>1, <2>2 DEF Init, RegistryInit, RegistryTypeOK, EmptyMap, AuditWrites
  <1>2. manifest.defaultBinding # Blank /\ manifest.tools \in Seq(Mapping)
    BY LoadManifestTyped DEF Init
  <1>3. calls \in Seq(Calls) /\ Len(calls) <= MaxRPCs /\ DOMAIN calls = {}
    BY AdapterAssumption DEF Init
  <1> QED BY <1>1, <1>2, <1>3 DEF TypeInv, Init

(* A client's new request is well-formed and has a number of its own. *)
LEMMA SendTypes ==
    ASSUME TypeInv, NEW q, Wellformed(q), Send(q)
    PROVE  RegistryTypeOK'
  <1>1. sent \in Nat /\ sent' = sent + 1 /\ 1..sent \subseteq 1..sent'
    BY DEF TypeInv, RegistryTypeOK, Send
  <1>2. /\ DOMAIN queue' = DOMAIN queue \cup {sent + 1}
        /\ DOMAIN waiting' = DOMAIN waiting \cup {sent + 1}
    BY DEF Send, Put
  <1>3. DOMAIN queue' \cup DOMAIN waiting' \subseteq 1..sent'
    BY <1>1, <1>2 DEF TypeInv, RegistryTypeOK
  <1>4. /\ \A n \in DOMAIN queue' : Wellformed(queue'[n])
        /\ \A n \in DOMAIN waiting' : Wellformed(waiting'[n])
    BY DEF TypeInv, RegistryTypeOK, Send, Put
  <1>5. sent + 1 \notin 1..sent
    BY <1>1
  <1>6. DOMAIN replies' \subseteq DOMAIN waiting' \ DOMAIN queue'
    BY <1>2, <1>5 DEF TypeInv, RegistryTypeOK, Send
  <1>7. DOMAIN results' \subseteq (1..sent') \ DOMAIN waiting'
    BY <1>1, <1>2, <1>5 DEF TypeInv, RegistryTypeOK, Send
  <1> QED BY <1>1, <1>3, <1>4, <1>6, <1>7 DEF TypeInv, RegistryTypeOK, Send, process

(* A handler answers at most the client that waits for it. *)
LEMMA HandleTypes ==
    ASSUME TypeInv, NEW n, Handle(n)
    PROVE  RegistryTypeOK'
  <1>1. Frame(n)
    BY HandleFrame
  <1>2. DOMAIN s' = DOMAIN NewService
    BY HandleAudit DEF TypeInv, RegistryTypeOK
  <1>3. s'.audit \in Seq(AuditRecords) /\ auditFile' \in Seq(AuditWrites)
    <2>1. s.audit \in Seq(AuditRecords) /\ auditFile \in Seq(AuditWrites)
      BY DEF TypeInv, RegistryTypeOK, AuditWrites
    <2>2. CASE Executes(n)
      <3>1. /\ s'.audit = Append(s.audit, AuditRecord(queue[n], n))
            /\ AuditRecord(queue[n], n) \in AuditRecords
        BY <2>2, ServiceFields DEF Executes, TypeInv, RegistryTypeOK
      <3>2. PICK w \in AuditWrites :
              auditFile' = IF AuditLogConfigured THEN Append(auditFile, w) ELSE auditFile
        BY <2>2, WriteAppends DEF Executes
      <3> QED BY <2>1, <3>1, <3>2, AppendProperties
    <2> QED BY <2>1, <2>2, HandleAudit
  <1>4. /\ DOMAIN queue' = DOMAIN queue \ {n}
        /\ \A k \in DOMAIN queue' : queue'[k] = queue[k]
    BY <1>1 DEF Frame, Without
  <1>5. DOMAIN replies' \subseteq DOMAIN waiting' \ DOMAIN queue'
    BY <1>1, <1>4 DEF Frame, TypeInv, RegistryTypeOK
  <1> QED BY <1>1, <1>2, <1>3, <1>4, <1>5 DEF Frame, TypeInv, RegistryTypeOK, AuditWrites

(* What every return of a call does. *)
LEMMA ReturnsFinish ==
    ASSUME NEW n, Returns(n)
    PROVE  \E outcome \in Outcomes :
             /\ Finish(n, outcome) /\ AnswerRPC(n, outcome)
             /\ outcome \in {"ok", "decode_failed", "backend_error"} => n \in DOMAIN replies
             /\ outcome \in {"ok", "decode_failed"} => ~Refused(n)
             /\ outcome = "backend_error" => Refused(n)
  <1>1. CASE Receive(n) /\ AnswerRPC(n, IF Refused(n) THEN "backend_error" ELSE "ok")
    BY <1>1 DEF Receive, Outcomes
  <1>2. CASE ReceivePart(n) /\ AnswerRPC(n, "decode_failed")
    BY <1>2 DEF ReceivePart, Outcomes
  <1>3. CASE GiveUp(n) /\ AnswerRPC(n, "unavailable")
    BY <1>3 DEF GiveUp, Outcomes
  <1> QED BY <1>1, <1>2, <1>3 DEF Returns

(* A client that has its result waits no more. *)
LEMMA FinishTypes ==
    ASSUME TypeInv, NEW n \in DOMAIN waiting, NEW outcome \in Outcomes, Finish(n, outcome)
    PROVE  RegistryTypeOK'
  <1>1. /\ DOMAIN waiting' = DOMAIN waiting \ {n}
        /\ \A k \in DOMAIN waiting' : waiting'[k] = waiting[k]
    BY DEF Finish, Without
  <1>2. DOMAIN replies' = DOMAIN replies \ {n}
    BY DEF Finish, Without
  <1>3. /\ DOMAIN results' \subseteq DOMAIN results \cup {n}
        /\ \A k \in DOMAIN results' : results'[k] \in Outcomes
    BY DEF Finish, Put, TypeInv, RegistryTypeOK
  <1>4. UNCHANGED <<s, auditFile, past, epoch, sent, queue>>
    BY DEF Finish, process
  <1>5. DOMAIN results' \subseteq (1..sent') \ DOMAIN waiting'
    BY <1>1, <1>3, <1>4 DEF TypeInv, RegistryTypeOK
  <1>6. DOMAIN replies' \subseteq DOMAIN waiting' \ DOMAIN queue'
    BY <1>1, <1>2, <1>4 DEF TypeInv, RegistryTypeOK
  <1> QED BY <1>1, <1>3, <1>4, <1>5, <1>6 DEF TypeInv, RegistryTypeOK

(* A restart forgets the service and the requests in it. *)
LEMMA RestartTypes ==
    ASSUME TypeInv, Restart
    PROVE  RegistryTypeOK'
  <1>1. <<>> \in Seq(AuditRecords) /\ DOMAIN <<>> = {}
    OBVIOUS
  <1>2. s'.audit = <<>> /\ DOMAIN s' = DOMAIN NewService
    BY DEF Restart, NewService
  <1>3. past' \in Seq(AuditRecords)
    BY ConcatProperties DEF Restart, TypeInv, RegistryTypeOK
  <1> QED BY <1>1, <1>2, <1>3 DEF Restart, clients, openAuditLog, EmptyMap, TypeInv, RegistryTypeOK

(* The adapter notes a new call, with the number of its request. *)
LEMMA NewCallTypes ==
    ASSUME TypeInv, NEW m \in RPCs, sent' = sent + 1, Len(calls) < MaxRPCs,
           NEW a \in [status : Int, code : Int, message : Messages],
           calls' = Append(calls, [rpc |-> m, request |-> sent + 1, answer |-> a])
    PROVE  /\ calls' \in Seq(Calls) /\ Len(calls') <= MaxRPCs
           /\ \A i \in DOMAIN calls' : calls'[i].request \in 1..sent'
  <1> DEFINE c == [rpc |-> m, request |-> sent + 1, answer |-> a]
  <1>1. sent \in Nat /\ calls \in Seq(Calls) /\ Len(calls) \in Nat
        /\ DOMAIN calls = 1..Len(calls) /\ MaxRPCs \in Nat
    BY LenProperties, AdapterAssumption DEF TypeInv, RegistryTypeOK
  <1>2. c \in Calls
    BY <1>1 DEF Calls
  <1>3. /\ calls' \in Seq(Calls) /\ Len(calls') = Len(calls) + 1
        /\ \A i \in 1..Len(calls) : calls'[i] = calls[i]
        /\ calls'[Len(calls) + 1] = c
    <2> HIDE DEF c
    <2> QED BY <1>1, <1>2, AppendProperties DEF c
  <1>4. DOMAIN calls' = 1..(Len(calls) + 1)
    BY <1>3, LenProperties
  <1>5. ASSUME NEW i \in DOMAIN calls' PROVE calls'[i].request \in 1..sent'
    <2>1. CASE i = Len(calls) + 1
      BY <1>1, <1>3, <2>1
    <2>2. CASE i \in 1..Len(calls)
      BY <1>1, <1>3, <2>2 DEF TypeInv
    <2> QED BY <1>1, <1>4, <2>1, <2>2
  <1> QED BY <1>1, <1>3, <1>5

(* The adapter notes the answer to a call. *)
LEMMA AnswerRPCTypes ==
    ASSUME TypeInv, NEW n, NEW outcome \in Outcomes, AnswerRPC(n, outcome), sent' = sent
    PROVE  /\ calls' \in Seq(Calls) /\ Len(calls') = Len(calls)
           /\ \A i \in DOMAIN calls' : calls'[i].request \in 1..sent'
           /\ UNCHANGED <<manifest, cred>>
  <1>1. /\ calls \in Seq(Calls) /\ Len(calls) \in Nat /\ DOMAIN calls = 1..Len(calls)
        /\ \A i \in 1..Len(calls) : calls[i] \in Calls
    BY LenProperties, ElementOfSeq DEF TypeInv
  <1>2. RPCResult(outcome) \in [status : Int, code : Int, message : Messages]
    BY DEF RPCResult, RPCAnswer, Lookup, Messages, Outcomes
  <1>3. ASSUME NEW i \in 1..Len(calls)
        PROVE  /\ [calls[i] EXCEPT !.answer = RPCResult(outcome)] \in Calls
               /\ [calls[i] EXCEPT !.answer = RPCResult(outcome)].request = calls[i].request
    BY <1>1, <1>2, <1>3 DEF Calls
  <1>4. /\ DOMAIN calls' = 1..Len(calls)
        /\ \A i \in 1..Len(calls) : calls'[i] \in Calls /\ calls'[i].request = calls[i].request
        /\ calls' = [i \in 1..Len(calls) |-> calls'[i]]
    BY <1>1, <1>3 DEF AnswerRPC
  <1>5. calls' \in [1..Len(calls) -> Calls]
    BY <1>4
  <1>6. calls' \in Seq(Calls)
    BY <1>1, <1>5, SeqDef
  <1>7. Len(calls') = Len(calls)
    <2>1. DOMAIN calls' = 1..Len(calls') /\ Len(calls') \in Nat
      BY <1>6, LenProperties
    <2> QED BY <1>1, <1>4, <2>1
  <1> QED BY <1>1, <1>4, <1>6, <1>7 DEF AnswerRPC, TypeInv

(* Every step keeps the types. *)
LEMMA NextTypes ==
    ASSUME TypeInv, [Next]_vars
    PROVE  TypeInv'
  <1> DEFINE CallsOK == /\ calls \in Seq(Calls) /\ Len(calls) <= MaxRPCs
                        /\ \A i \in DOMAIN calls : calls[i].request \in 1..sent
  <1>1. ASSUME NEW q \in Requests, Send(q), UNCHANGED adapterVars
        PROVE  TypeInv'
    <2>1. RegistryTypeOK'
      BY <1>1, RequestsAssumption, SendTypes
    <2>2. CallsOK'
      BY <1>1 DEF TypeInv, RegistryTypeOK, Send, adapterVars
    <2> QED BY <1>1, <2>1, <2>2 DEF TypeInv, adapterVars
  <1>2. ASSUME NEW m \in RPCs, AnswerLocally(m)
        PROVE  TypeInv'
    <2>1. LocalAnswer(m) \in [status : Int, code : Int, message : Messages]
      BY DEF LocalAnswer, Pending, RPCAnswer, Messages
    <2>2. CallsOK'
      BY <1>2, <2>1, NewCallTypes DEF AnswerLocally
    <2>3. RegistryTypeOK'
      BY <1>2 DEF TypeInv, RegistryTypeOK, AnswerLocally, process
    <2> QED BY <1>2, <2>2, <2>3 DEF TypeInv, AnswerLocally
  <1>3. ASSUME NEW m \in RPCs, Bridge(m)
        PROVE  TypeInv'
    <2>1. RegistryTypeOK'
      BY <1>3, ForwardWellformed, SendTypes DEF Bridge
    <2>2. Pending \in [status : Int, code : Int, message : Messages]
      BY DEF Pending, RPCAnswer, Messages
    <2>3. CallsOK'
      BY <1>3, <2>2, NewCallTypes DEF Bridge, Send
    <2> QED BY <1>3, <2>1, <2>3 DEF TypeInv, Bridge
  <1>4. ASSUME NEW n, Handle(n), UNCHANGED adapterVars
        PROVE  TypeInv'
    <2>1. RegistryTypeOK' /\ sent' = sent
      BY <1>4, HandleTypes, HandleFrame DEF Frame
    <2> QED BY <1>4, <2>1 DEF TypeInv, adapterVars
  <1>5. ASSUME NEW n, Returns(n)
        PROVE  TypeInv'
    <2>1. n \in DOMAIN waiting
      BY <1>5 DEF Returns, Receive, ReceivePart, GiveUp, TypeInv, RegistryTypeOK
    <2>2. PICK outcome \in Outcomes : Finish(n, outcome) /\ AnswerRPC(n, outcome)
      BY <1>5, ReturnsFinish
    <2>3. RegistryTypeOK' /\ sent' = sent
      BY <2>1, <2>2, FinishTypes DEF Finish
    <2>4. CallsOK' /\ UNCHANGED <<manifest, cred>>
      BY <2>2, <2>3, AnswerRPCTypes DEF TypeInv
    <2> QED BY <2>3, <2>4 DEF TypeInv
  <1>6. ASSUME Restart, UNCHANGED adapterVars
        PROVE  TypeInv'
    <2>1. RegistryTypeOK' /\ sent' = sent
      BY <1>6, RestartTypes DEF Restart, clients
    <2> QED BY <1>6, <2>1 DEF TypeInv, adapterVars
  <1>7. CASE UNCHANGED vars
    BY <1>7 DEF TypeInv, RegistryTypeOK, vars, registryVars, process, clients, adapterVars
  <1> QED BY <1>1, <1>2, <1>3, <1>4, <1>5, <1>6, <1>7 DEF Next

(* The shape of the state: an answer only travels to a client that waits   *)
(* for it, no client has both a result and a wait, every request, the      *)
(* adapter's too, is one the handlers can decode (http.go:534,             *)
(* server.go:203).                                                         *)
THEOREM TypeCorrect == Spec => []TypeOK
  <1>1. Init => TypeInv
    BY InitTypes
  <1>2. TypeInv /\ [Next]_vars => TypeInv'
    BY NextTypes
  <1>3. TypeInv => TypeOK
    BY DEF TypeInv, TypeOK
  <1> QED BY <1>1, <1>2, <1>3, PTL DEF Spec

(* The same for the strengthening, on which the other theorems build. *)
LEMMA TypesHold == Spec => []TypeInv
  <1>1. Init => TypeInv
    BY InitTypes
  <1>2. TypeInv /\ [Next]_vars => TypeInv'
    BY NextTypes
  <1> QED BY <1>1, <1>2, PTL DEF Spec

(* Only handlers and restarts change the process. *)
LEMMA ProcessStep ==
    ASSUME [Next]_vars
    PROVE  (\E n : Handle(n)) \/ Restart \/ UNCHANGED <<s, auditFile, past, epoch>>
  <1>1. ASSUME NEW q, Send(q) PROVE UNCHANGED <<s, auditFile, past, epoch>>
    BY <1>1 DEF Send, process
  <1>2. ASSUME NEW m, AnswerLocally(m) PROVE UNCHANGED <<s, auditFile, past, epoch>>
    BY <1>2 DEF AnswerLocally, process
  <1>3. ASSUME NEW m, Bridge(m) PROVE UNCHANGED <<s, auditFile, past, epoch>>
    BY <1>1, <1>3 DEF Bridge
  <1>4. ASSUME NEW n, Returns(n) PROVE UNCHANGED <<s, auditFile, past, epoch>>
    BY <1>4, ReturnsFinish DEF Finish, process
  <1>5. CASE UNCHANGED vars
    BY <1>5 DEF vars, registryVars, process
  <1> QED BY <1>1, <1>2, <1>3, <1>4, <1>5 DEF Next

-----------------------------------------------------------------------------
(* The audit file *)

(* Appending to the second of two sequences. *)
LEMMA ConcatAppend ==
    ASSUME NEW S, NEW a \in Seq(S), NEW b \in Seq(S), NEW e \in S
    PROVE  a \o Append(b, e) = Append(a \o b, e)
  <1>1. a \o b \in Seq(S) /\ <<e>> \in Seq(S)
    BY ConcatProperties
  <1> DEFINE c == a \o b
  <1> HIDE DEF c
  <1>2. c \in Seq(S)
    BY <1>1 DEF c
  <1>3. Append(c, e) = c \o <<e>>
    BY <1>2, AppendIsConcat
  <1>4. Append(b, e) = b \o <<e>>
    BY AppendIsConcat
  <1>5. c \o <<e>> = a \o (b \o <<e>>)
    BY <1>1, ConcatAssociative DEF c
  <1> QED BY <1>3, <1>4, <1>5 DEF c

(* A restart moves the log into the past; an execution writes to the file  *)
(* what it adds to the log.                                                *)
LEMMA AuditStep ==
    ASSUME TypeInv, AuditFileIsHistory, [Next]_vars
    PROVE  AuditFileIsHistory'
  <1>0. s.audit \in Seq(AuditRecords) /\ past \in Seq(AuditRecords)
    BY DEF TypeInv, RegistryTypeOK
  <1>1. CASE UNCHANGED <<s, auditFile, past>>
    BY <1>1 DEF AuditFileIsHistory, History
  <1>2. ASSUME NEW n, Handle(n)
        PROVE  AuditFileIsHistory'
    <2>1. past' = past
      BY <1>2, HandleFrame DEF Frame
    <2>2. CASE Executes(n)
      <3> DEFINE r == AuditRecord(queue[n], n)
      <3>1. r \in AuditRecords /\ writeAuditLogLocked(r)
        BY <2>2 DEF Executes
      <3>2. s'.audit = Append(s.audit, r)
        BY <2>2, ServiceFields DEF Executes, TypeInv, RegistryTypeOK
      <3> HIDE DEF r
      <3>3. past \o Append(s.audit, r) = Append(past \o s.audit, r)
        BY <1>0, <3>1, ConcatAppend
      <3>4. History' = Append(History, r)
        BY <2>1, <3>2, <3>3 DEF History
      <3>5. PICK w \in AuditWrites :
              /\ w.record = r
              /\ auditFile' = IF AuditLogConfigured THEN Append(auditFile, w) ELSE auditFile
        BY <3>1, WriteAppends
      <3>6. History \in Seq(AuditRecords) /\ auditFile \in Seq(AuditWrites)
        BY <1>0, ConcatProperties DEF History, TypeInv, RegistryTypeOK, AuditWrites
      <3> SUFFICES ASSUME AuditLogConfigured
                   PROVE  /\ Len(auditFile') = Len(History')
                          /\ \A i \in DOMAIN auditFile' : auditFile'[i].record = History'[i]
        BY DEF AuditFileIsHistory
      <3>7. /\ Len(auditFile') = Len(auditFile) + 1 /\ auditFile' \in Seq(AuditWrites)
            /\ \A i \in 1..Len(auditFile) : auditFile'[i] = auditFile[i]
            /\ auditFile'[Len(auditFile) + 1] = w
        BY <3>5, <3>6, AppendProperties
      <3>8. /\ Len(History') = Len(History) + 1
            /\ \A i \in 1..Len(History) : History'[i] = History[i]
            /\ History'[Len(History) + 1] = r
        BY <3>1, <3>4, <3>6, AppendProperties
      <3>9. /\ Len(auditFile) \in Nat /\ DOMAIN auditFile = 1..Len(auditFile)
            /\ DOMAIN auditFile' = 1..(Len(auditFile) + 1)
        BY <3>6, <3>7, LenProperties
      <3>10. /\ Len(auditFile) = Len(History)
             /\ \A i \in DOMAIN auditFile : auditFile[i].record = History[i]
        BY DEF AuditFileIsHistory
      <3> QED BY <3>5, <3>7, <3>8, <3>9, <3>10
    <2>3. CASE s'.audit = s.audit /\ auditFile' = auditFile
      BY <2>1, <2>3 DEF AuditFileIsHistory, History
    <2> QED BY <1>2, <2>2, <2>3, HandleAudit
  <1>3. CASE Restart
    <2>1. s'.audit = <<>>
      BY <1>3 DEF Restart, NewService
    <2>2. past' \o <<>> = past'
      BY <1>0, <1>3, ConcatProperties, ConcatEmptySeq DEF Restart
    <2> QED BY <1>3, <2>1, <2>2 DEF Restart, openAuditLog, AuditFileIsHistory, History
  <1> QED BY <1>1, <1>2, <1>3, ProcessStep

(* Over any number of restarts, and whatever part of a line a failed write *)
(* leaves, the writes to the audit file are those of the history of all    *)
(* executions, in their order: the file is opened with O_APPEND            *)
(* (service.go:82) and each execution writes its record under the lock     *)
(* that appends it to the log (service.go:645).                            *)
THEOREM AuditFileComplete == Spec => []AuditFileIsHistory
  <1>1. Init => AuditFileIsHistory
    <2>1. <<>> \o <<>> = <<>>
      BY EmptySeq, ConcatEmptySeq
    <2>2. NewService.audit = <<>>
      BY DEF NewService
    <2>3. Len(<<>>) = 0 /\ DOMAIN <<>> = {}
      OBVIOUS
    <2> QED BY <2>1, <2>2, <2>3 DEF Init, RegistryInit, AuditFileIsHistory, History
  <1>2. TypeInv /\ AuditFileIsHistory /\ [Next]_vars => AuditFileIsHistory'
    BY AuditStep
  <1> QED BY <1>1, <1>2, TypesHold, PTL DEF Spec

-----------------------------------------------------------------------------
(* The registry *)

Same(fields) == \A f \in fields : s'[f] = s[f]

(* What one step of the process may do to the maps of the registry. *)
MapStep ==
    \/ Same({"capabilities", "orgs", "tenants", "gateways"})
    \/ /\ \E d : /\ DOMAIN d = DescriptorFields
                  /\ s'.capabilities = Put(s.capabilities, d.id, d)
       /\ Same({"orgs", "tenants", "gateways"})
    \/ /\ \E b : s'.orgs = Put(s.orgs, b.id, b)
       /\ Same({"capabilities", "tenants", "gateways"})
    \/ /\ \E b : b.orgID \in DOMAIN s.orgs /\ s'.tenants = Put(s.tenants, b.id, b)
       /\ Same({"capabilities", "orgs", "gateways"})
    \/ /\ \E b : b.tenantID \in DOMAIN s.tenants /\ s'.gateways = Put(s.gateways, b.id, b)
       /\ Same({"capabilities", "orgs", "tenants"})

(* The tenant that CreateTenant stores belongs to an organisation. *)
LEMMA CreateTenantChecks ==
    ASSUME NEW b, NEW n, DOMAIN b = {"id", "orgID", "name"}, CreateTenant(b, n).code = Granted
    PROVE  CreateTenant(b, n).body.orgID \in DOMAIN s.orgs
  <1>1. b.orgID \in DOMAIN s.orgs /\ CreateTenant(b, n) = Success(Named(b, "tenant", n))
    BY DEF CreateTenant, Checked, Failure, Granted, ErrorInvalidRequest, ErrorNotFound
  <1> QED BY <1>1 DEF Success, Named

(* The gateway that CreateGateway stores belongs to a tenant. *)
LEMMA CreateGatewayChecks ==
    ASSUME NEW b, NEW n, DOMAIN b = {"id", "tenantID", "region", "binding"},
           CreateGateway(b, n).code = Granted
    PROVE  CreateGateway(b, n).body.tenantID \in DOMAIN s.tenants
  <1>1. b.tenantID \in DOMAIN s.tenants /\ CreateGateway(b, n) = Success(Named(b, "gw", n))
    BY DEF CreateGateway, Checked, Failure, Granted, ErrorInvalidRequest, ErrorNotFound
  <1> QED BY <1>1 DEF Success, Named

(* The handlers change at most one of the maps, by one thing at a time. *)
LEMMA HandleMaps ==
    ASSUME TypeInv, NEW n, Handle(n)
    PROVE  MapStep
  <1>1. /\ DOMAIN s = {"capabilities", "schemas", "quotas", "orgs", "tenants", "gateways",
                       "audit"}
        /\ \A k \in DOMAIN queue : DOMAIN queue[k].body = BodyFields[queue[k].op]
    BY ServiceFields DEF TypeInv, RegistryTypeOK, Wellformed
  <1>2. CASE handleInvoke(n)
    <2>1. s' = [s EXCEPT !.audit = Append(@, AuditRecord(queue[n], n))] \/ s' = s
      BY <1>2 DEF handleInvoke, Execute
    <2> QED BY <1>1, <2>1 DEF MapStep, Same
  <1>3. CASE \/ Refuse(n) \/ handleHello(n) \/ handleDiscover(n) \/ handleHeartbeat(n)
             \/ handleListCapabilities(n) \/ handlePolicyValidate(n) \/ handleAuditExport(n)
    <2>1. s' = s
      BY <1>3 DEF Refuse, handleHello, handleDiscover, handleHeartbeat,
                  handleListCapabilities, handlePolicyValidate, handleAuditExport, Read
    <2> QED BY <2>1 DEF MapStep, Same
  <1>4. CASE handleAddCapability(n)
    <2>1. n \in DOMAIN queue /\ DOMAIN queue[n].body = DescriptorFields
      BY <1>1, <1>4 DEF handleAddCapability, Store, Serves, BodyFields
    <2>2. CASE s' = [s EXCEPT !.capabilities = Put(@, queue[n].body.id, queue[n].body)]
      <3>1. s'.capabilities = Put(s.capabilities, queue[n].body.id, queue[n].body)
        BY <1>1, <2>2
      <3>2. Same({"orgs", "tenants", "gateways"})
        BY <1>1, <2>2 DEF Same
      <3> QED BY <2>1, <3>1, <3>2 DEF MapStep
    <2> QED BY <1>4, <2>2 DEF handleAddCapability, Store, MapStep, Same
  <1>5. CASE handleAddSchema(n)
    BY <1>1, <1>5 DEF handleAddSchema, Store, MapStep, Same
  <1>6. CASE handleSetQuota(n)
    BY <1>1, <1>6 DEF handleSetQuota, Store, MapStep, Same
  <1>7. CASE handleCreateOrg(n)
    <2> DEFINE r == CreateOrg(queue[n].body, n)
    <2>1. s' = [s EXCEPT !.orgs = Put(@, r.body.id, r.body)] \/ s' = s
      BY <1>7 DEF handleCreateOrg, Store
    <2> HIDE DEF r
    <2>2. CASE s' = [s EXCEPT !.orgs = Put(@, r.body.id, r.body)]
      <3>1. s'.orgs = Put(s.orgs, r.body.id, r.body)
        BY <1>1, <2>2
      <3>2. Same({"capabilities", "tenants", "gateways"})
        BY <1>1, <2>2 DEF Same
      <3> QED BY <3>1, <3>2 DEF MapStep
    <2> QED BY <2>1, <2>2 DEF MapStep, Same
  <1>8. CASE handleCreateTenant(n)
    <2> DEFINE r == CreateTenant(queue[n].body, n)
    <2>1. \/ s' = [s EXCEPT !.tenants = Put(@, r.body.id, r.body)] /\ r.code = Granted
          \/ s' = s
      BY <1>8 DEF handleCreateTenant, Store
    <2>2. DOMAIN queue[n].body = {"id", "orgID", "name"}
      BY <1>1, <1>8 DEF handleCreateTenant, Store, Serves, BodyFields
    <2>3. r.code = Granted => r.body.orgID \in DOMAIN s.orgs
      BY <2>2, CreateTenantChecks
    <2> HIDE DEF r
    <2>4. CASE s' = [s EXCEPT !.tenants = Put(@, r.body.id, r.body)] /\ r.code = Granted
      <3>1. s'.tenants = Put(s.tenants, r.body.id, r.body)
        BY <1>1, <2>4
      <3>2. Same({"capabilities", "orgs", "gateways"})
        BY <1>1, <2>4 DEF Same
      <3> QED BY <2>3, <2>4, <3>1, <3>2 DEF MapStep
    <2> QED BY <2>1, <2>4 DEF MapStep, Same
  <1>9. CASE handleCreateGateway(n)
    <2> DEFINE r == CreateGateway(queue[n].body, n)
    <2>1. \/ s' = [s EXCEPT !.gateways = Put(@, r.body.id, r.body)] /\ r.code = Granted
          \/ s' = s
      BY <1>9 DEF handleCreateGateway, Store
    <2>2. DOMAIN queue[n].body = {"id", "tenantID", "region", "binding"}
      BY <1>1, <1>9 DEF handleCreateGateway, Store, Serves, BodyFields
    <2>3. r.code = Granted => r.body.tenantID \in DOMAIN s.tenants
      BY <2>2, CreateGatewayChecks
    <2> HIDE DEF r
    <2>4. CASE s' = [s EXCEPT !.gateways = Put(@, r.body.id, r.body)] /\ r.code = Granted
      <3>1. s'.gateways = Put(s.gateways, r.body.id, r.body)
        BY <1>1, <2>4
      <3>2. Same({"capabilities", "orgs", "tenants"})
        BY <1>1, <2>4 DEF Same
      <3> QED BY <2>3, <2>4, <3>1, <3>2 DEF MapStep
    <2> QED BY <2>1, <2>4 DEF MapStep, Same
  <1> QED BY <1>2, <1>3, <1>4, <1>5, <1>6, <1>7, <1>8, <1>9 DEF Handle

(* What is stored stays referred to by something that is stored. *)
LEMMA IntegrityStep ==
    ASSUME TypeInv, ReferentialIntegrity, [Next]_vars
    PROVE  ReferentialIntegrity'
  <1>1. CASE MapStep
    <2>1. CASE Same({"orgs", "tenants", "gateways"})
      BY <2>1 DEF Same, ReferentialIntegrity
    <2>2. CASE /\ \E b : s'.orgs = Put(s.orgs, b.id, b)
               /\ Same({"capabilities", "tenants", "gateways"})
      <3>1. DOMAIN s.orgs \subseteq DOMAIN s'.orgs
        BY <2>2 DEF Put
      <3> QED BY <2>2, <3>1 DEF Same, ReferentialIntegrity
    <2>3. CASE /\ \E b : b.orgID \in DOMAIN s.orgs /\ s'.tenants = Put(s.tenants, b.id, b)
               /\ Same({"capabilities", "orgs", "gateways"})
      <3>1. /\ DOMAIN s.tenants \subseteq DOMAIN s'.tenants
            /\ \A t \in DOMAIN s'.tenants : s'.tenants[t].orgID \in DOMAIN s.orgs
        BY <2>3 DEF Put, ReferentialIntegrity
      <3> QED BY <2>3, <3>1 DEF Same, ReferentialIntegrity
    <2>4. CASE /\ \E b : b.tenantID \in DOMAIN s.tenants
                         /\ s'.gateways = Put(s.gateways, b.id, b)
               /\ Same({"capabilities", "orgs", "tenants"})
      <3>1. \A g \in DOMAIN s'.gateways : s'.gateways[g].tenantID \in DOMAIN s.tenants
        BY <2>4 DEF Put, ReferentialIntegrity
      <3> QED BY <2>4, <3>1 DEF Same, ReferentialIntegrity
    <2>5. Same({"capabilities", "orgs", "tenants", "gateways"})
            => Same({"orgs", "tenants", "gateways"})
      BY DEF Same
    <2> QED BY <1>1, <2>1, <2>2, <2>3, <2>4, <2>5 DEF MapStep
  <1>2. CASE Restart
    <2>1. DOMAIN s'.tenants = {} /\ DOMAIN s'.gateways = {}
      BY <1>2 DEF Restart, NewService, EmptyMap
    <2> QED BY <2>1 DEF ReferentialIntegrity
  <1>3. CASE UNCHANGED s
    BY <1>3 DEF ReferentialIntegrity
  <1> QED BY <1>1, <1>2, <1>3, HandleMaps, ProcessStep

(* Every gateway has its tenant and every tenant its organisation, though  *)
(* clients still hold ids from before a restart: CreateTenant and          *)
(* CreateGateway look the id up in the critical section in which they      *)
(* store (service.go:567, 584).                                            *)
THEOREM RegistryIntegrity == Spec => []ReferentialIntegrity
  <1>1. Init => ReferentialIntegrity
    <2>1. Init => DOMAIN s.tenants = {} /\ DOMAIN s.gateways = {}
      BY DEF Init, RegistryInit, NewService, EmptyMap
    <2> QED BY <2>1 DEF ReferentialIntegrity
  <1>2. TypeInv /\ ReferentialIntegrity /\ [Next]_vars => ReferentialIntegrity'
    BY IntegrityStep
  <1> QED BY <1>1, <1>2, TypesHold, PTL DEF Spec

-----------------------------------------------------------------------------
(* What clients are told *)

(* A client waits for the request the process has. *)
SameRequest == \A n \in DOMAIN queue \cap DOMAIN waiting : queue[n] = waiting[n]

(* Requests never change on their way. *)
LEMMA SameRequestStep ==
    ASSUME TypeInv, SameRequest, [Next]_vars
    PROVE  SameRequest'
  <1>1. ASSUME NEW q, Send(q) PROVE SameRequest'
    BY <1>1 DEF Send, Put, SameRequest
  <1>2. ASSUME NEW m, AnswerLocally(m) PROVE SameRequest'
    BY <1>2 DEF AnswerLocally, SameRequest
  <1>3. ASSUME NEW m, Bridge(m) PROVE SameRequest'
    BY <1>1, <1>3 DEF Bridge
  <1>4. ASSUME NEW n, Returns(n) PROVE SameRequest'
    <2>1. queue' = queue /\ waiting' = Without(waiting, n)
      BY <1>4, ReturnsFinish DEF Finish
    <2> QED BY <2>1 DEF Without, SameRequest
  <1>5. ASSUME NEW n, Handle(n) PROVE SameRequest'
    <2>1. waiting' = waiting /\ queue' = Without(queue, n)
      BY <1>5, HandleFrame DEF Frame
    <2> QED BY <2>1 DEF Without, SameRequest
  <1>6. CASE Restart
    <2>1. DOMAIN queue' = {}
      BY <1>6 DEF Restart, EmptyMap
    <2> QED BY <2>1 DEF SameRequest
  <1>7. CASE UNCHANGED vars
    BY <1>7 DEF vars, registryVars, clients, SameRequest
  <1> QED BY <1>1, <1>2, <1>3, <1>4, <1>5, <1>6, <1>7 DEF Next

(* Capabilities are stored under their ids. *)
CapabilitiesNamed ==
    \A id \in DOMAIN s.capabilities :
        DOMAIN s.capabilities[id] = DescriptorFields /\ s.capabilities[id].id = id

(* AddCapability stores a descriptor under its id. *)
LEMMA CapabilitiesStep ==
    ASSUME TypeInv, CapabilitiesNamed, [Next]_vars
    PROVE  CapabilitiesNamed'
  <1>1. CASE MapStep
    <2>1. CASE s'.capabilities = s.capabilities
      BY <2>1 DEF CapabilitiesNamed
    <2>2. CASE \E d : /\ DOMAIN d = DescriptorFields
                      /\ s'.capabilities = Put(s.capabilities, d.id, d)
      BY <2>2 DEF Put, CapabilitiesNamed
    <2> QED BY <1>1, <2>1, <2>2 DEF MapStep, Same
  <1>2. CASE Restart
    <2>1. s'.capabilities = BootstrapCapabilities
      BY <1>2 DEF Restart, NewService
    <2> QED BY <2>1, BootstrapAssumption DEF CapabilitiesNamed
  <1>3. CASE UNCHANGED s
    BY <1>3 DEF CapabilitiesNamed
  <1> QED BY <1>1, <1>2, <1>3, HandleMaps, ProcessStep

(* Nothing is removed from the maps but by a restart. *)
LEMMA ExistsMonotonic ==
    ASSUME TypeInv, NEW n, Handle(n), NEW x, Exists(x)
    PROVE  Exists(x)'
  <1>1. MapStep
    BY HandleMaps
  <1>2. /\ DOMAIN s.orgs \subseteq DOMAIN s'.orgs
        /\ DOMAIN s.tenants \subseteq DOMAIN s'.tenants
        /\ DOMAIN s.gateways \subseteq DOMAIN s'.gateways
        /\ DOMAIN s.capabilities \subseteq DOMAIN s'.capabilities
    BY <1>1 DEF MapStep, Same, Put
  <1> QED BY <1>2 DEF Exists

(* The answer to a valid call carries its body, over HTTP as it is. *)
LEMMA AnswerBody ==
    ASSUME NEW q, NEW n, NEW r
    PROVE  /\ Answer(q, n, r).code = r.code
           /\ Answer(q, n, r).epoch = epoch
           /\ Answer(q, n, r).status = Status(q, r.code)
           /\ q.binding = "http" => Answer(q, n, r).body = r.body
  BY DEF Answer

(* The capabilities a client is told of are stored. *)
LEMMA DiscoverTold ==
    ASSUME CapabilitiesNamed, NEW q, NEW n, Wellformed(q), q.op = "discover",
           Discover(q).code = Granted,
           NEW d \in Answer(q, n, Discover(q)).body.capabilities
    PROVE  d.id \in DOMAIN s.capabilities
  <1> DEFINE found == {s.capabilities[id] :
                         id \in {i \in DOMAIN s.capabilities : Visible(q, i)}}
  <1>1. Discover(q) = Success([capabilities |-> found])
    BY DEF Discover, Checked, Failure, Granted, ErrorInvalidRequest
  <1>2. \A c \in found : /\ c.id \in DOMAIN s.capabilities
                        /\ capabilityToProto(c).id \in DOMAIN s.capabilities
    BY DEF CapabilitiesNamed, capabilityToProto, DescriptorFields
  <1> HIDE DEF found
  <1>3. CASE q.binding = "grpc"
    <2>1. Answer(q, n, Discover(q)).body
            = ToProto("discover", [capabilities |-> found])
      BY <1>1, <1>3 DEF Answer, Success
    <2>2. ToProto("discover", [capabilities |-> found]).capabilities
            = {capabilityToProto(c) : c \in found}
      BY DEF ToProto
    <2> QED BY <1>2, <2>1, <2>2
  <1>4. CASE q.binding = "http"
    BY <1>1, <1>2, <1>4, AnswerBody DEF Success
  <1> QED BY <1>3, <1>4 DEF Wellformed

(* An error tells of nothing, nor do the answers of the other operations. *)
LEMMA ToldNothing ==
    ASSUME NEW q, NEW a,
           \/ a.code # Granted
           \/ q.op \notin {"createOrg", "createTenant", "createGateway", "addCapability",
                            "discover", "listCapabilities"}
    PROVE  Told(q, a) = {}
  BY DEF Told, StoredKind

(* The operations that store, over HTTP only, tell of what they store. *)
LEMMA StoreTold ==
    ASSUME NEW q, NEW n, NEW r, Wellformed(q), q.op \in DOMAIN StoredKind, r.code = Granted
    PROVE  Told(q, Answer(q, n, r)) = {<<StoredKind[q.op], r.body.id>>}
  <1>1. q.binding = "http"
    BY DEF Wellformed, StoredKind, MigOps
  <1> QED BY <1>1, AnswerBody DEF Told

(* What a handler tells the client that waits exists once it has run. *)
LEMMA HandleTold ==
    ASSUME TypeInv, CapabilitiesNamed, NEW n, Handle(n), n \in DOMAIN waiting
    PROVE  /\ replies'[n].epoch = epoch
           /\ \A x \in Told(queue[n], replies'[n]) : Exists(x)'
  <1> DEFINE q == queue[n]
  <1> DEFINE Tells(a) == a.epoch = epoch /\ \A x \in Told(queue[n], a) : Exists(x)'
  <1>0. n \in DOMAIN queue
    BY HandleFrame DEF Frame
  <1>w. Wellformed(q)
    BY <1>0 DEF TypeInv, RegistryTypeOK
  <1>f. /\ DOMAIN s = {"capabilities", "schemas", "quotas", "orgs", "tenants", "gateways",
                       "audit"}
    BY ServiceFields DEF TypeInv, RegistryTypeOK
  <1>r. ASSUME NEW a, Reply(n, a), Tells(a) PROVE Tells(replies'[n])
    BY <1>0, <1>r, ReplyFrame
  <1>1. CASE Refuse(n)
    <2> DEFINE a == [status |-> RefusalStatus(q), code |-> Refusal(q), epoch |-> epoch,
                     head |-> NoHead, body |-> NoBody]
    <2>1. Reply(n, a) /\ a.code # Granted /\ a.epoch = epoch
      BY <1>1 DEF Refuse
    <2> QED BY <1>r, <2>1, ToldNothing
  <1>2. ASSUME NEW r, Reply(n, Answer(q, n, r)),
               q.op \notin {"createOrg", "createTenant", "createGateway", "addCapability",
                            "discover", "listCapabilities"}
        PROVE  Tells(replies'[n])
    BY <1>r, <1>2, AnswerBody, ToldNothing
  <1>3. CASE \/ handleHello(n) \/ handleHeartbeat(n) \/ handlePolicyValidate(n)
             \/ handleAuditExport(n)
    BY <1>2, <1>3 DEF handleHello, handleHeartbeat, handlePolicyValidate,
                      handleAuditExport, Read, Serves
  <1>4. CASE handleAddSchema(n) \/ handleSetQuota(n)
    BY <1>2, <1>4 DEF handleAddSchema, handleSetQuota, Store, Serves
  <1>5. CASE handleInvoke(n)
    BY <1>2, <1>5 DEF handleInvoke, Serves
  <1>6. CASE handleDiscover(n)
    <2> DEFINE a == Answer(q, n, Discover(q))
    <2>1. Reply(n, a) /\ q.op = "discover" /\ s' = s
      BY <1>6 DEF handleDiscover, Read, Serves
    <2>2. a.code = Discover(q).code /\ a.epoch = epoch
      BY AnswerBody
    <2>3. CASE Discover(q).code = Granted
      <3>1. \A d \in a.body.capabilities : d.id \in DOMAIN s.capabilities
        BY <1>w, <2>1, <2>3, DiscoverTold
      <3> HIDE DEF a
      <3>2. Told(q, a) = {<<"capability", d.id>> : d \in a.body.capabilities}
        BY <2>1, <2>2, <2>3 DEF Told, StoredKind
      <3>3. \A x \in Told(q, a) : Exists(x)'
        BY <2>1, <3>1, <3>2 DEF Exists
      <3> QED BY <1>r, <2>1, <2>2, <3>3
    <2>4. CASE Discover(q).code # Granted
      BY <1>r, <2>1, <2>2, <2>4, ToldNothing
    <2> QED BY <2>3, <2>4
  <1>7. CASE handleListCapabilities(n)
    <2> DEFINE all == {s.capabilities[id] : id \in DOMAIN s.capabilities}
    <2> DEFINE a == Answer(q, n, Success([capabilities |-> all]))
    <2>1. Reply(n, a) /\ q.op = "listCapabilities" /\ s' = s
      BY <1>7 DEF handleListCapabilities, Read, Serves
    <2>2. \A d \in all : d.id \in DOMAIN s.capabilities
      BY DEF CapabilitiesNamed
    <2>3. q.binding = "http"
      BY <1>w, <2>1 DEF Wellformed, MigOps
    <2> HIDE DEF all
    <2>4. a.code = Granted /\ a.epoch = epoch /\ a.body.capabilities = all
      BY <2>3, AnswerBody DEF Success
    <2> HIDE DEF a
    <2>5. Told(q, a) = {<<"capability", d.id>> : d \in all}
      BY <2>1, <2>4 DEF Told, StoredKind
    <2>6. \A x \in Told(q, a) : Exists(x)'
      BY <2>1, <2>2, <2>5 DEF Exists
    <2> QED BY <1>r, <2>1, <2>4, <2>6
  <1>s. ASSUME NEW r, Reply(n, Answer(q, n, r)), q.op \in DOMAIN StoredKind,
               r.code = Granted => \A x \in {<<StoredKind[q.op], r.body.id>>} : Exists(x)'
        PROVE  Tells(replies'[n])
    <2>1. CASE r.code = Granted
      BY <1>r, <1>s, <1>w, <2>1, StoreTold, AnswerBody
    <2>2. CASE r.code # Granted
      BY <1>r, <1>s, <2>2, ToldNothing, AnswerBody
    <2> QED BY <2>1, <2>2
  <1>8. CASE handleAddCapability(n)
    <2> DEFINE r == AddCapability(q.body)
    <2>1. /\ Reply(n, Answer(q, n, r)) /\ q.op = "addCapability"
          /\ r.code = Granted => s' = [s EXCEPT !.capabilities = Put(@, q.body.id, q.body)]
      BY <1>8 DEF handleAddCapability, Store, Serves
    <2>2. r.code = Granted => r.body = q.body
      BY DEF AddCapability, Checked, Failure, Success, Granted, ErrorInvalidRequest
    <2> HIDE DEF r
    <2>3. r.code = Granted => q.body.id \in DOMAIN s'.capabilities
      BY <1>f, <2>1 DEF Put
    <2>4. r.code = Granted => \A x \in {<<StoredKind[q.op], r.body.id>>} : Exists(x)'
      BY <2>1, <2>2, <2>3 DEF Exists, StoredKind
    <2> QED BY <1>s, <2>1, <2>4 DEF StoredKind
  <1>9. CASE handleCreateOrg(n)
    <2> DEFINE r == CreateOrg(q.body, n)
    <2>1. /\ Reply(n, Answer(q, n, r)) /\ q.op = "createOrg"
          /\ r.code = Granted => s' = [s EXCEPT !.orgs = Put(@, r.body.id, r.body)]
      BY <1>9 DEF handleCreateOrg, Store, Serves
    <2> HIDE DEF r
    <2>2. r.code = Granted => r.body.id \in DOMAIN s'.orgs
      BY <1>f, <2>1 DEF Put
    <2>3. r.code = Granted => \A x \in {<<StoredKind[q.op], r.body.id>>} : Exists(x)'
      BY <2>1, <2>2 DEF Exists, StoredKind
    <2> QED BY <1>s, <2>1, <2>3 DEF StoredKind
  <1>10. CASE handleCreateTenant(n)
    <2> DEFINE r == CreateTenant(q.body, n)
    <2>1. /\ Reply(n, Answer(q, n, r)) /\ q.op = "createTenant"
          /\ r.code = Granted => s' = [s EXCEPT !.tenants = Put(@, r.body.id, r.body)]
      BY <1>10 DEF handleCreateTenant, Store, Serves
    <2> HIDE DEF r
    <2>2. r.code = Granted => r.body.id \in DOMAIN s'.tenants
      BY <1>f, <2>1 DEF Put
    <2>3. r.code = Granted => \A x \in {<<StoredKind[q.op], r.body.id>>} : Exists(x)'
      BY <2>1, <2>2 DEF Exists, StoredKind
    <2> QED BY <1>s, <2>1, <2>3 DEF StoredKind
  <1>11. CASE handleCreateGateway(n)
    <2> DEFINE r == CreateGateway(q.body, n)
    <2>1. /\ Reply(n, Answer(q, n, r)) /\ q.op = "createGateway"
          /\ r.code = Granted => s' = [s EXCEPT !.gateways = Put(@, r.body.id, r.body)]
      BY <1>11 DEF handleCreateGateway, Store, Serves
    <2> HIDE DEF r
    <2>2. r.code = Granted => r.body.id \in DOMAIN s'.gateways
      BY <1>f, <2>1 DEF Put
    <2>3. r.code = Granted => \A x \in {<<StoredKind[q.op], r.body.id>>} : Exists(x)'
      BY <2>1, <2>2 DEF Exists, StoredKind
    <2> QED BY <1>s, <2>1, <2>3 DEF StoredKind
  <1> QED BY <1>1, <1>3, <1>4, <1>5, <1>6, <1>7, <1>8, <1>9, <1>10, <1>11 DEF Handle

(* LearnedResolves is not inductive: what an answer of this process tells  *)
(* must exist while the answer is still on its way, and neither an answer  *)
(* nor what was learned comes from a process that is not started yet.      *)
ToldInv ==
    /\ LearnedResolves
    /\ \A l \in learned : l.process \in Nat /\ l.process <= epoch
    /\ \A n \in DOMAIN replies :
         /\ replies[n].epoch \in Nat /\ replies[n].epoch <= epoch
         /\ replies[n].epoch = epoch => \A x \in Told(waiting[n], replies[n]) : Exists(x)

(* Every step keeps it. *)
LEMMA ToldStep ==
    ASSUME TypeInv, SameRequest, CapabilitiesNamed, ToldInv, [Next]_vars
    PROVE  ToldInv'
  <1>0. epoch \in Nat /\ sent \in Nat /\ DOMAIN replies \subseteq DOMAIN waiting
        /\ DOMAIN waiting \subseteq 1..sent
    BY DEF TypeInv, RegistryTypeOK
  <1>1. ASSUME NEW q, Send(q) PROVE ToldInv'
    <2>1. \A n \in DOMAIN replies : waiting'[n] = waiting[n]
      BY <1>0, <1>1 DEF Send, Put
    <2> QED BY <1>1, <2>1 DEF Send, process, ToldInv, LearnedResolves, Exists
  <1>2. ASSUME NEW m, AnswerLocally(m) PROVE ToldInv'
    BY <1>2 DEF AnswerLocally, process, ToldInv, LearnedResolves, Exists
  <1>3. ASSUME NEW m, Bridge(m) PROVE ToldInv'
    BY <1>1, <1>3 DEF Bridge
  <1>4. ASSUME NEW n, Handle(n) PROVE ToldInv'
    <2>1. /\ UNCHANGED <<waiting, learned, epoch>> /\ n \in DOMAIN queue
          /\ DOMAIN replies' = DOMAIN replies \cup ({n} \cap DOMAIN waiting)
          /\ \A k \in DOMAIN replies \ {n} : replies'[k] = replies[k]
      BY <1>4, HandleFrame DEF Frame
    <2>2. \A x : Exists(x) => Exists(x)'
      BY <1>4, ExistsMonotonic
    <2>3. LearnedResolves' /\ \A l \in learned' : l.process \in Nat /\ l.process <= epoch'
      BY <2>1, <2>2 DEF ToldInv, LearnedResolves
    <2>4. ASSUME NEW k \in DOMAIN replies'
          PROVE  /\ replies'[k].epoch \in Nat /\ replies'[k].epoch <= epoch'
                 /\ replies'[k].epoch = epoch' =>
                      \A x \in Told(waiting'[k], replies'[k]) : Exists(x)'
      <3>1. CASE k = n
        <4>1. n \in DOMAIN waiting
          BY <1>0, <2>1, <2>4, <3>1
        <4>2. waiting'[n] = queue[n]
          BY <2>1, <4>1 DEF SameRequest
        <4>3. replies'[n].epoch = epoch /\ \A x \in Told(queue[n], replies'[n]) : Exists(x)'
          BY <1>4, <4>1, HandleTold
        <4> QED BY <1>0, <2>1, <3>1, <4>2, <4>3
      <3>2. CASE k # n
        <4>1. k \in DOMAIN replies /\ replies'[k] = replies[k] /\ waiting'[k] = waiting[k]
          BY <2>1, <2>4, <3>2
        <4> QED BY <2>1, <2>2, <4>1 DEF ToldInv
      <3> QED BY <3>1, <3>2
    <2> QED BY <2>3, <2>4 DEF ToldInv
  <1>5. ASSUME NEW n, Returns(n) PROVE ToldInv'
    <2>1. /\ UNCHANGED <<s, epoch>>
          /\ waiting' = Without(waiting, n) /\ replies' = Without(replies, n)
      BY <1>5, ReturnsFinish DEF Finish, process
    <2>2. \A x : Exists(x)' <=> Exists(x)
      BY <2>1 DEF Exists
    <2>3. \/ learned' = learned
          \/ /\ n \in DOMAIN replies
             /\ learned' = learned \cup {[process |-> replies[n].epoch, thing |-> x] :
                                           x \in Told(waiting[n], replies[n])}
      BY <1>5 DEF Returns, Receive, ReceivePart, GiveUp
    <2>4. LearnedResolves' /\ \A l \in learned' : l.process \in Nat /\ l.process <= epoch'
      <3>1. ASSUME NEW l \in learned'
            PROVE  /\ l.process \in Nat /\ l.process <= epoch
                   /\ l.process = epoch => Exists(l.thing)
        <4>1. CASE l \in learned
          BY <4>1 DEF ToldInv, LearnedResolves
        <4>2. CASE /\ n \in DOMAIN replies
                   /\ \E x \in Told(waiting[n], replies[n]) :
                        l = [process |-> replies[n].epoch, thing |-> x]
          BY <4>2 DEF ToldInv
        <4> QED BY <2>3, <3>1, <4>1, <4>2
      <3> QED BY <2>1, <2>2, <3>1 DEF LearnedResolves
    <2>5. \A k \in DOMAIN replies' : /\ k \in DOMAIN replies /\ replies'[k] = replies[k]
                                     /\ waiting'[k] = waiting[k]
      BY <1>0, <2>1 DEF Without
    <2> QED BY <2>1, <2>2, <2>4, <2>5 DEF ToldInv
  <1>6. CASE Restart
    <2>1. learned' = learned /\ epoch' = epoch + 1 /\ replies' = replies
      BY <1>6 DEF Restart, clients
    <2>2. \A n \in DOMAIN replies' : /\ replies'[n].epoch \in Nat
                                     /\ replies'[n].epoch < epoch'
      BY <1>0, <2>1 DEF ToldInv
    <2>3. LearnedResolves' /\ \A l \in learned' : l.process \in Nat /\ l.process < epoch'
      BY <1>0, <2>1 DEF ToldInv, LearnedResolves
    <2>4. epoch' \in Nat
      BY <1>0, <2>1
    <2> QED BY <2>2, <2>3, <2>4 DEF ToldInv
  <1>7. CASE UNCHANGED vars
    BY <1>7 DEF vars, registryVars, clients, process, ToldInv, LearnedResolves, Exists
  <1> QED BY <1>1, <1>2, <1>3, <1>4, <1>5, <1>6, <1>7 DEF Next

(* The auxiliary invariants of the theorems below. *)
LEMMA RequestsHold == Spec => [](SameRequest /\ CapabilitiesNamed)
  <1>1. Init => SameRequest /\ CapabilitiesNamed
    <2> SUFFICES ASSUME Init PROVE SameRequest /\ CapabilitiesNamed
      OBVIOUS
    <2>1. DOMAIN queue = {} /\ s.capabilities = BootstrapCapabilities
      BY DEF Init, RegistryInit, EmptyMap, NewService
    <2> QED BY <2>1, BootstrapAssumption DEF SameRequest, CapabilitiesNamed
  <1>2. TypeInv /\ SameRequest /\ CapabilitiesNamed /\ [Next]_vars
          => SameRequest' /\ CapabilitiesNamed'
    BY SameRequestStep, CapabilitiesStep
  <1> QED BY <1>1, <1>2, TypesHold, PTL DEF Spec

(* Whatever this process has told a client to exist exists under the id    *)
(* the client was given, however late the answer arrives: ids are made up  *)
(* before the store (service.go:552), nothing is ever removed, and the     *)
(* answers of an earlier process promise nothing about this one.           *)
THEOREM ToldExists == Spec => []LearnedResolves
  <1>1. Init => ToldInv
    <2> SUFFICES ASSUME Init PROVE ToldInv
      OBVIOUS
    <2>1. DOMAIN replies = {} /\ learned = {}
      BY DEF Init, RegistryInit, EmptyMap
    <2> QED BY <2>1 DEF ToldInv, LearnedResolves
  <1>2. TypeInv /\ SameRequest /\ CapabilitiesNamed /\ ToldInv /\ [Next]_vars => ToldInv'
    BY ToldStep
  <1>3. ToldInv => LearnedResolves
    BY DEF ToldInv
  <1> QED BY <1>1, <1>2, <1>3, TypesHold, RequestsHold, PTL DEF Spec

-----------------------------------------------------------------------------
(* What clients may conclude about executions *)

(* The numbers of the requests that were executed, each of them once. *)
Executed == {History[i].request : i \in DOMAIN History}
ExecutedOnce ==
    \A i, j \in DOMAIN History : History[i].request = History[j].request => i = j

(* No error has the status of a success, nor the other way round. *)
LEMMA StatusTells ==
    ASSUME NEW q, Wellformed(q), q.op = "invoke", NEW code
    PROVE  /\ q.binding = "http" => (Status(q, code) >= 400 <=> code # Granted)
           /\ q.binding # "http" => (Status(q, code) # "OK" <=> code # Granted)
  <1>1. invokeStatus(code) \in {404, 504, 429, 403, 400}
    BY DEF invokeStatus, Lookup
  <1>2. grpcStatusFromMigError(code) # "OK"
    BY DEF grpcStatusFromMigError, Lookup
  <1>3. q.op \notin Created
    BY DEF Created, CloudOps
  <1> QED BY <1>1, <1>2, <1>3 DEF Status, HTTPStatus

(* No refusal has. *)
LEMMA RefusalTells ==
    ASSUME NEW q, Wellformed(q)
    PROVE  IF q.binding = "http" THEN RefusalStatus(q) >= 400 ELSE RefusalStatus(q) # "OK"
  <1>1. grpcStatusFromMigError(Refusal(q)) # "OK"
    BY DEF grpcStatusFromMigError, Lookup
  <1>2. \A k : Lookup(Put(Put(Put(EmptyMap, NoRoute, 404), BadBody, 400),
                          ErrorUnauthorized, 401), k, 403) \in {404, 400, 401, 403}
    BY DEF Lookup, Put, EmptyMap
  <1> QED BY <1>1, <1>2 DEF RefusalStatus, Wellformed

(* The history grows by executions. *)
LEMMA HistoryGrows ==
    ASSUME TypeInv, NEW n, Handle(n)
    PROVE  /\ Executes(n) => History' = Append(History, AuditRecord(queue[n], n))
           /\ ~Executes(n) => History' = History
  <1>1. s.audit \in Seq(AuditRecords) /\ past \in Seq(AuditRecords) /\ past' = past
    BY HandleFrame DEF TypeInv, RegistryTypeOK, Frame
  <1>2. CASE Executes(n)
    <2>1. s'.audit = Append(s.audit, AuditRecord(queue[n], n))
      BY <1>2, ServiceFields DEF Executes, TypeInv, RegistryTypeOK
    <2>2. past \o Append(s.audit, AuditRecord(queue[n], n))
            = Append(past \o s.audit, AuditRecord(queue[n], n))
      BY <1>1, <1>2, ConcatAppend DEF Executes
    <2> QED BY <1>1, <1>2, <2>1, <2>2 DEF History
  <1>3. CASE ~Executes(n)
    <2>1. s'.audit = s.audit
      BY <1>3, HandleAudit
    <2> QED BY <1>1, <1>3, <2>1 DEF History
  <1> QED BY <1>2, <1>3

(* An execution of a request that was not executed before. *)
LEMMA ExecutesOnce ==
    ASSUME TypeInv, NEW n, Executes(n), History' = Append(History, AuditRecord(queue[n], n))
    PROVE  /\ Executed' = Executed \cup {n}
           /\ ExecutedOnce /\ n \notin Executed => ExecutedOnce'
  <1> DEFINE r == AuditRecord(queue[n], n)
  <1>1. History \in Seq(AuditRecords)
    BY ConcatProperties DEF History, TypeInv, RegistryTypeOK
  <1>2. r \in AuditRecords /\ r.request = n
    BY DEF Executes, AuditRecord
  <1> HIDE DEF r
  <1>3. /\ History' \in Seq(AuditRecords) /\ Len(History') = Len(History) + 1
        /\ \A i \in 1..Len(History) : History'[i] = History[i]
        /\ History'[Len(History) + 1] = r
    BY <1>1, <1>2, AppendProperties DEF r
  <1>4. DOMAIN History = 1..Len(History) /\ DOMAIN History' = 1..(Len(History) + 1)
        /\ Len(History) \in Nat
    BY <1>1, <1>3, LenProperties
  <1>5. \A i \in DOMAIN History' :
          \/ i \in DOMAIN History /\ History'[i] = History[i]
          \/ i = Len(History) + 1 /\ History'[i] = r
    BY <1>3, <1>4
  <1>6. Executed' = Executed \cup {n}
    <2>1. Executed' \subseteq Executed \cup {n}
      BY <1>2, <1>5 DEF Executed
    <2>2. Executed \subseteq Executed'
      <3>1. DOMAIN History \subseteq DOMAIN History'
        BY <1>4
      <3> QED BY <1>3, <1>4, <3>1 DEF Executed
    <2>3. n \in Executed'
      <3>1. Len(History) + 1 \in DOMAIN History'
        BY <1>4
      <3> QED BY <1>2, <1>3, <3>1 DEF Executed
    <2> QED BY <2>1, <2>2, <2>3
  <1>7. ASSUME ExecutedOnce, n \notin Executed PROVE ExecutedOnce'
    <2>1. \A i \in DOMAIN History : History[i].request # n
      BY <1>7 DEF Executed
    <2> QED BY <1>2, <1>5, <1>7, <2>1 DEF ExecutedOnce
  <1> QED BY <1>6, <1>7

(* An invocation is answered with success exactly when it is executed. *)
LEMMA InvokeAnswered ==
    ASSUME TypeInv, NEW n, Handle(n), n \in DOMAIN waiting, waiting[n] = queue[n],
           queue[n].op = "invoke"
    PROVE  \/ Executes(n) /\ ~Refused(n)'
           \/ History' = History /\ Refused(n)'
  <1> DEFINE q == queue[n]
  <1>1. n \in DOMAIN queue /\ waiting' = waiting /\ past' = past
    BY HandleFrame DEF Frame
  <1>2. Wellformed(q) /\ (q.binding = "http" \/ q.binding = "grpc")
    BY <1>1 DEF TypeInv, RegistryTypeOK, Wellformed
  <1>3. CASE Refuse(n)
    <2>1. replies'[n].status = RefusalStatus(q)
      BY <1>1, <1>3, ReplyFrame DEF Refuse
    <2>2. Refused(n)'
      BY <1>1, <1>2, <2>1, RefusalTells DEF Refused
    <2>3. s' = s
      BY <1>3 DEF Refuse
    <2> QED BY <1>1, <2>2, <2>3 DEF History
  <1>4. CASE handleInvoke(n)
    <2> DEFINE r == Invoke(q)
    <2>1. CASE r.code # Granted /\ Reply(n, Answer(q, n, r)) /\ UNCHANGED <<s, auditFile>>
      <3>1. replies'[n].status = Status(q, r.code)
        BY <1>1, <2>1, ReplyFrame, AnswerBody
      <3> HIDE DEF r
      <3>2. Refused(n)'
        BY <1>1, <1>2, <2>1, <3>1, StatusTells DEF Refused
      <3> QED BY <1>1, <2>1, <3>2 DEF History
    <2>2. CASE r.code = Granted /\ Reply(n, Answer(q, n, r)) /\ Execute(n)
      <3>1. replies'[n].status = Status(q, r.code)
        BY <1>1, <2>2, ReplyFrame, AnswerBody
      <3>2. Executes(n)
        <4>1. n \in Nat
          BY <1>1 DEF TypeInv, RegistryTypeOK
        <4>2. AuditRecord(q, n) \in AuditRecords
          BY <1>2, <4>1, ReceivedTenant DEF AuditRecord, AuditRecords, Wellformed
        <4> QED BY <2>2, <4>2 DEF Executes, Execute
      <3> HIDE DEF r
      <3>3. ~Refused(n)'
        BY <1>1, <1>2, <2>2, <3>1, StatusTells DEF Refused
      <3> QED BY <3>2, <3>3
    <2>3. CASE /\ Reply(n, Answer(q, n, Failure(ErrorTimeout)))
               /\ UNCHANGED <<s, auditFile>>
      <3>1. replies'[n].status = Status(q, ErrorTimeout)
        BY <1>1, <2>3, ReplyFrame, AnswerBody DEF Failure
      <3>2. ErrorTimeout # Granted
        BY DEF ErrorTimeout, Granted
      <3>3. Refused(n)'
        BY <1>1, <1>2, <3>1, <3>2, StatusTells DEF Refused
      <3> QED BY <1>1, <2>3, <3>3 DEF History
    <2> QED BY <1>4, <2>1, <2>2, <2>3 DEF handleInvoke
  <1>5. Refuse(n) \/ handleInvoke(n)
    BY DEF Handle, handleHello, handleDiscover, handleHeartbeat, handleAddCapability,
           handleListCapabilities, handleAddSchema, handlePolicyValidate, handleSetQuota,
           handleAuditExport, handleCreateOrg, handleCreateTenant, handleCreateGateway,
           Read, Store, Serves
  <1> QED BY <1>3, <1>4, <1>5

(* AnswerTellsExecution is not inductive: it speaks of the calls that have *)
(* ended.  Of the others, one that is answered is executed if and only if  *)
(* the answer is no error, and one that is still in the queue is not.      *)
ExecutionInv ==
    /\ ExecutedOnce
    /\ Executed \subseteq (1..sent) \ DOMAIN queue
    /\ \A n \in DOMAIN replies :
         waiting[n].op = "invoke" => (Refused(n) <=> n \notin Executed)
    /\ \A n \in DOMAIN results :
         /\ results[n] \in {"ok", "decode_failed"} => n \in Executed
         /\ results[n] = "backend_error" => n \notin Executed \cup DOMAIN queue

(* Every step keeps it. *)
LEMMA ExecutionStep ==
    ASSUME TypeInv, SameRequest, ExecutionInv, [Next]_vars
    PROVE  ExecutionInv'
  <1>0. /\ sent \in Nat /\ DOMAIN queue \subseteq 1..sent /\ DOMAIN waiting \subseteq 1..sent
        /\ DOMAIN replies \subseteq DOMAIN waiting \ DOMAIN queue
        /\ DOMAIN results \subseteq (1..sent) \ DOMAIN waiting
    BY DEF TypeInv, RegistryTypeOK
  <1>h. ASSUME History' = History
        PROVE  Executed' = Executed /\ (ExecutedOnce => ExecutedOnce')
    BY <1>h DEF Executed, ExecutedOnce
  <1>1. ASSUME NEW q, Send(q) PROVE ExecutionInv'
    <2>1. /\ History' = History /\ sent' = sent + 1
          /\ UNCHANGED <<replies, results>>
          /\ DOMAIN queue' = DOMAIN queue \cup {sent + 1}
      BY <1>1 DEF Send, process, History, Put
    <2>2. \A n \in DOMAIN replies : waiting'[n] = waiting[n] /\ (Refused(n)' <=> Refused(n))
      BY <1>0, <1>1, <2>1 DEF Send, Put, Refused
    <2>3. sent + 1 \notin 1..sent /\ 1..sent \subseteq 1..(sent + 1)
      BY <1>0
    <2>4. Executed' = Executed /\ ExecutedOnce'
      BY <1>h, <2>1 DEF ExecutionInv
    <2>5. Executed' \subseteq (1..sent') \ DOMAIN queue'
      BY <2>1, <2>3, <2>4 DEF ExecutionInv
    <2>6. \A n \in DOMAIN results : n \notin {sent + 1}
      BY <1>0, <2>3
    <2> QED BY <2>1, <2>2, <2>4, <2>5, <2>6 DEF ExecutionInv
  <1>2. ASSUME NEW m, AnswerLocally(m) PROVE ExecutionInv'
    <2>1. /\ History' = History /\ sent' = sent + 1
          /\ UNCHANGED <<replies, results, queue, waiting>>
      BY <1>2 DEF AnswerLocally, process, History
    <2>2. \A n : Refused(n)' <=> Refused(n)
      BY <2>1 DEF Refused
    <2>3. Executed' = Executed /\ ExecutedOnce'
      BY <1>h, <2>1 DEF ExecutionInv
    <2>4. 1..sent \subseteq 1..sent'
      BY <1>0, <2>1
    <2> QED BY <2>1, <2>2, <2>3, <2>4 DEF ExecutionInv
  <1>3. ASSUME NEW m, Bridge(m) PROVE ExecutionInv'
    BY <1>1, <1>3 DEF Bridge
  <1>4. ASSUME NEW n, Handle(n) PROVE ExecutionInv'
    <2>1. /\ UNCHANGED <<waiting, results, sent>> /\ n \in DOMAIN queue
          /\ DOMAIN queue' = DOMAIN queue \ {n}
          /\ DOMAIN replies' = DOMAIN replies \cup ({n} \cap DOMAIN waiting)
          /\ \A k \in DOMAIN replies \ {n} : replies'[k] = replies[k]
      <3>1. Frame(n)
        BY <1>4, HandleFrame
      <3>2. DOMAIN queue' = DOMAIN queue \ {n}
        BY <3>1 DEF Frame, Without
      <3> QED BY <3>1, <3>2 DEF Frame
    <2>2. n \notin Executed /\ ExecutedOnce
      BY <2>1 DEF ExecutionInv
    <2>3. \/ Executes(n) /\ Executed' = Executed \cup {n}
          \/ History' = History /\ Executed' = Executed
      BY <1>4, <1>h, HistoryGrows, ExecutesOnce
    <2>4. ExecutedOnce'
      BY <1>4, <1>h, <2>2, HistoryGrows, ExecutesOnce
    <2>5. Executed' \subseteq (1..sent') \ DOMAIN queue'
      BY <1>0, <2>1, <2>3 DEF ExecutionInv
    <2>6. ASSUME NEW k \in DOMAIN replies', waiting'[k].op = "invoke"
          PROVE  Refused(k)' <=> k \notin Executed'
      <3>1. CASE k = n
        <4>1. n \in DOMAIN waiting /\ waiting[n] = queue[n]
          BY <1>0, <2>1, <2>6, <3>1 DEF SameRequest
        <4>2. \/ Executes(n) /\ ~Refused(n)'
              \/ History' = History /\ Refused(n)'
          BY <1>4, <2>1, <2>6, <3>1, <4>1, InvokeAnswered
        <4>3. CASE Executes(n) /\ ~Refused(n)'
          <5>1. History' = Append(History, AuditRecord(queue[n], n))
            BY <1>4, <4>3, HistoryGrows
          <5>2. n \in Executed'
            BY <4>3, <5>1, ExecutesOnce
          <5> QED BY <3>1, <4>3, <5>2
        <4>4. CASE History' = History /\ Refused(n)'
          BY <1>h, <2>2, <3>1, <4>4
        <4> QED BY <4>2, <4>3, <4>4
      <3>2. CASE k # n
        <4>1. k \in DOMAIN replies /\ replies'[k] = replies[k] /\ waiting'[k] = waiting[k]
          BY <2>1, <2>6, <3>2
        <4>2. Refused(k)' <=> Refused(k)
          BY <4>1 DEF Refused
        <4> QED BY <2>3, <2>6, <3>2, <4>1, <4>2 DEF ExecutionInv
      <3> QED BY <3>1, <3>2
    <2>7. ASSUME NEW k \in DOMAIN results'
          PROVE  /\ results'[k] \in {"ok", "decode_failed"} => k \in Executed'
                 /\ results'[k] = "backend_error" => k \notin Executed' \cup DOMAIN queue'
      BY <2>1, <2>3 DEF ExecutionInv
    <2> QED BY <2>4, <2>5, <2>6, <2>7 DEF ExecutionInv
  <1>5. ASSUME NEW n, Returns(n) PROVE ExecutionInv'
    <2>1. PICK outcome \in Outcomes :
            /\ Finish(n, outcome)
            /\ outcome \in {"ok", "decode_failed", "backend_error"} => n \in DOMAIN replies
            /\ outcome \in {"ok", "decode_failed"} => ~Refused(n)
            /\ outcome = "backend_error" => Refused(n)
      BY <1>5, ReturnsFinish
    <2>2. /\ History' = History /\ UNCHANGED <<sent, queue>>
          /\ waiting' = Without(waiting, n) /\ replies' = Without(replies, n)
          /\ results' = IF waiting[n].op = "invoke" THEN Put(results, n, outcome) ELSE results
      BY <2>1 DEF Finish, process, History
    <2>3. Executed' = Executed /\ ExecutedOnce'
      BY <1>h, <2>2 DEF ExecutionInv
    <2>4. \A k \in DOMAIN replies' :
            /\ k \in DOMAIN replies /\ waiting'[k] = waiting[k]
            /\ Refused(k)' <=> Refused(k)
      BY <1>0, <2>2 DEF Without, Refused
    <2>5. ASSUME NEW k \in DOMAIN results'
          PROVE  /\ results'[k] \in {"ok", "decode_failed"} => k \in Executed'
                 /\ results'[k] = "backend_error" => k \notin Executed' \cup DOMAIN queue'
      <3>1. CASE k = n /\ waiting[n].op = "invoke"
        <4>1. results'[k] = outcome
          BY <2>2, <3>1 DEF Put
        <4> QED BY <1>0, <2>1, <2>2, <2>3, <3>1, <4>1 DEF ExecutionInv
      <3>2. CASE k \in DOMAIN results /\ results'[k] = results[k]
        BY <2>2, <2>3, <3>2 DEF ExecutionInv
      <3> QED BY <2>2, <2>5, <3>1, <3>2 DEF Put
    <2> QED BY <2>2, <2>3, <2>4, <2>5 DEF ExecutionInv
  <1>6. CASE Restart
    <2>1. /\ UNCHANGED <<sent, waiting, replies, results>> /\ DOMAIN queue' = {}
          /\ past' = History /\ s'.audit = <<>>
      BY <1>6 DEF Restart, clients, EmptyMap, NewService, History
    <2>2. History \in Seq(AuditRecords)
      BY ConcatProperties DEF History, TypeInv, RegistryTypeOK
    <2>3. History' = History
      BY <2>1, <2>2, ConcatEmptySeq DEF History
    <2>4. Executed' = Executed /\ ExecutedOnce'
      BY <1>h, <2>3 DEF ExecutionInv
    <2>5. \A k : Refused(k)' <=> Refused(k)
      BY <2>1 DEF Refused
    <2> QED BY <2>1, <2>4, <2>5 DEF ExecutionInv
  <1>7. CASE UNCHANGED vars
    <2>1. /\ UNCHANGED <<sent, queue, waiting, replies, results>> /\ History' = History
      BY <1>7 DEF vars, registryVars, clients, process, History
    <2>2. \A k : Refused(k)' <=> Refused(k)
      BY <2>1 DEF Refused
    <2> QED BY <1>h, <2>1, <2>2 DEF ExecutionInv
  <1> QED BY <1>1, <1>2, <1>3, <1>4, <1>5, <1>6, <1>7 DEF Next

(* The executions of one request, in terms of the history. *)
LEMMA ExecutionsOf ==
    ASSUME TypeInv, ExecutedOnce, NEW n
    PROVE  /\ Executions(n) = {} <=> n \notin Executed
           /\ Cardinality(Executions(n)) <= 1
  <1>1. Executions(n) = {} <=> n \notin Executed
    BY DEF Executions, Executed
  <1>2. CASE Executions(n) = {}
    BY <1>1, <1>2, FS_EmptySet
  <1>3. CASE Executions(n) # {}
    <2>1. PICK i : i \in Executions(n)
      BY <1>3
    <2>2. Executions(n) = {i}
      BY <2>1 DEF Executions, ExecutedOnce
    <2>3. Cardinality({i}) = 1
      BY FS_Singleton
    <2> QED BY <1>1, <2>2, <2>3
  <1> QED BY <1>2, <1>3

(* ExecutionInv holds. *)
LEMMA ExecutionsHold == Spec => []ExecutionInv
  <1>1. Init => ExecutionInv
    <2> SUFFICES ASSUME Init PROVE ExecutionInv
      OBVIOUS
    <2>1. past = <<>> /\ s.audit = <<>> /\ DOMAIN replies = {} /\ DOMAIN results = {}
      BY DEF Init, RegistryInit, NewService, EmptyMap
    <2>2. History = <<>>
      BY <2>1, EmptySeq, ConcatEmptySeq DEF History
    <2>3. DOMAIN History = {}
      BY <2>2
    <2> QED BY <2>1, <2>3 DEF ExecutionInv, ExecutedOnce, Executed
  <1>2. TypeInv /\ SameRequest /\ ExecutionInv /\ [Next]_vars => ExecutionInv'
    BY ExecutionStep
  <1> QED BY <1>1, <1>2, TypesHold, RequestsHold, PTL DEF Spec

(* What a client knows when its call has ended, whatever was lost, late or *)
(* restarted: a response means exactly one execution, an error of the      *)
(* gateway none and none to come (http.go:100, grpc_server.go:388), and    *)
(* no ending means more than one.                                          *)
THEOREM EndsTellExecutions == Spec => []AnswerTellsExecution
  <1>1. TypeInv /\ ExecutionInv => AnswerTellsExecution
    <2> SUFFICES ASSUME TypeInv, ExecutionInv, NEW n \in DOMAIN results
                 PROVE  /\ Cardinality(Executions(n)) <= 1
                        /\ results[n] \in {"ok", "decode_failed"} => Executions(n) # {}
                        /\ results[n] = "backend_error" =>
                             Executions(n) = {} /\ n \notin DOMAIN queue
      BY DEF AnswerTellsExecution
    <2>1. /\ Executions(n) = {} <=> n \notin Executed
          /\ Cardinality(Executions(n)) <= 1
      BY ExecutionsOf DEF ExecutionInv
    <2> QED BY <2>1 DEF ExecutionInv
  <1> QED BY <1>1, TypesHold, ExecutionsHold, PTL

-----------------------------------------------------------------------------
(* Tool calls *)

ToolCalls ==
    {calls[i] : i \in {j \in DOMAIN calls : calls[j].rpc.method = "tools/call"}}

FirstMapped(tool, capability) ==
    \E j \in DOMAIN manifest.tools :
        /\ manifest.tools[j].name = tool
        /\ manifest.tools[j].capability = capability
        /\ \A l \in 1..(j - 1) : manifest.tools[l].name # tool

(* The strengthening of ToolCallsTold: the request of a call in flight is  *)
(* the one the adapter has made for it.                                    *)
ToolCall(c) ==
    /\ c.request \in DOMAIN queue \cup DOMAIN waiting => LocalAnswer(c.rpc) = Pending
    /\ c.request \in DOMAIN queue => queue[c.request] = Forward(c.rpc)
    /\ c.request \in DOMAIN waiting => waiting[c.request] = Forward(c.rpc)
    /\ \A k \in DOMAIN History :
         History[k].request = c.request => FirstMapped(c.rpc.tool, History[k].capability)
    /\ c.answer.message = "result" => c.request \in Executed
    /\ c.answer.message \notin Undecided \cup {"result"} =>
         c.request \notin Executed \cup DOMAIN queue

ToolInv == \A c \in ToolCalls : ToolCall(c)

(* The adapter sends the same for a call as long as it runs. *)
LEMMA AdapterConstant ==
    ASSUME UNCHANGED <<manifest, cred>>
    PROVE  /\ \A m : LocalAnswer(m)' = LocalAnswer(m)
           /\ \A m : Forward(m)' = Forward(m)
           /\ \A x, y : FirstMapped(x, y)' <=> FirstMapped(x, y)
  <1>1. \A x : Mapped(x)' <=> Mapped(x)
    BY DEF Mapped
  <1>2. \A m : LocalAnswer(m)' = LocalAnswer(m)
    BY <1>1 DEF LocalAnswer
  <1>3. \A x : CapabilityForTool(x)' = CapabilityForTool(x)
    BY DEF CapabilityForTool
  <1>4. \A m : Forward(m)' = Forward(m)
    BY <1>3 DEF Forward
  <1>5. \A x, y : FirstMapped(x, y)' <=> FirstMapped(x, y)
    BY DEF FirstMapped
  <1> QED BY <1>2, <1>4, <1>5

(* A step that leaves the request of a call alone keeps what is said of    *)
(* the call.                                                               *)
LEMMA ToolCallKept ==
    ASSUME NEW c, ToolCall(c), UNCHANGED <<manifest, cred>>,
           c.request \in DOMAIN queue' =>
             c.request \in DOMAIN queue /\ queue'[c.request] = queue[c.request],
           c.request \in DOMAIN waiting' =>
             c.request \in DOMAIN waiting /\ waiting'[c.request] = waiting[c.request],
           c.request \in Executed' <=> c.request \in Executed,
           \A k \in DOMAIN History' :
             History'[k].request = c.request => k \in DOMAIN History /\ History'[k] = History[k]
    PROVE  ToolCall(c)'
  <1>1. Pending' = Pending /\ Undecided' = Undecided
    BY DEF Pending, RPCAnswer, Undecided
  <1> QED BY <1>1, AdapterConstant DEF ToolCall

(* A new call adds itself to the calls. *)
LEMMA NewToolCall ==
    ASSUME TypeInv, NEW c \in Calls, calls' = Append(calls, c)
    PROVE  \A d \in ToolCalls' : d \in ToolCalls \/ (d = c /\ c.rpc.method = "tools/call")
  <1>1. calls \in Seq(Calls) /\ Len(calls) \in Nat /\ DOMAIN calls = 1..Len(calls)
    BY LenProperties DEF TypeInv
  <1>2. /\ calls' \in Seq(Calls) /\ Len(calls') = Len(calls) + 1
        /\ \A i \in 1..Len(calls) : calls'[i] = calls[i]
        /\ calls'[Len(calls) + 1] = c
    BY <1>1, AppendProperties
  <1>3. DOMAIN calls' = 1..(Len(calls) + 1)
    BY <1>2, LenProperties
  <1>4. \A i \in DOMAIN calls' : \/ i \in DOMAIN calls /\ calls'[i] = calls[i]
                                 \/ calls'[i] = c
    BY <1>1, <1>2, <1>3
  <1>5. ASSUME NEW d \in ToolCalls'
        PROVE  d \in ToolCalls \/ (d = c /\ c.rpc.method = "tools/call")
    <2>1. PICK i \in DOMAIN calls' : d = calls'[i] /\ calls'[i].rpc.method = "tools/call"
      BY <1>5 DEF ToolCalls
    <2>2. CASE i \in DOMAIN calls /\ calls'[i] = calls[i]
      <3>1. i \in {j \in DOMAIN calls : calls[j].rpc.method = "tools/call"} /\ d = calls[i]
        BY <2>1, <2>2
      <3> QED BY <3>1 DEF ToolCalls
    <2>3. CASE calls'[i] = c
      BY <2>1, <2>3
    <2> QED BY <1>4, <2>1, <2>2, <2>3
  <1> QED BY <1>5

(* An execution for a call of the adapter is one of the tool's first       *)
(* capability.                                                             *)
LEMMA ForwardExecuted ==
    ASSUME TypeInv, NEW n \in DOMAIN queue, NEW m, LocalAnswer(m) = Pending,
           m.method = "tools/call", queue[n] = Forward(m)
    PROVE  FirstMapped(m.tool, AuditRecord(queue[n], n).capability)
  <1>1. Forward(m).body.capability = CapabilityForTool(m.tool)
    BY DEF Forward
  <1>2. Mapped(m.tool)
    <2>1. \A x, c, d : RPCAnswer(x, c, d) = Pending => x = 0
      BY DEF Pending, RPCAnswer
    <2> QED BY <2>1 DEF LocalAnswer
  <1>3. FirstMapped(m.tool, CapabilityForTool(m.tool))
    BY <1>2, FirstMapping DEF FirstMapped
  <1> QED BY <1>1, <1>3 DEF AuditRecord

(* The step of a handler. *)
LEMMA ToolHandle ==
    ASSUME TypeInv, SameRequest, ExecutionInv, ToolInv, NEW n, Handle(n), UNCHANGED adapterVars,
           NEW c \in ToolCalls
    PROVE  ToolCall(c)'
  <1>1. ToolCall(c) /\ c.rpc.method = "tools/call"
    BY DEF ToolInv, ToolCalls
  <1>2. UNCHANGED <<manifest, cred>>
    BY DEF adapterVars
  <1>3. /\ n \in DOMAIN queue /\ waiting' = waiting
        /\ DOMAIN queue' = DOMAIN queue \ {n}
        /\ \A k \in DOMAIN queue' : queue'[k] = queue[k]
    <2>1. Frame(n)
      BY HandleFrame
    <2> QED BY <2>1 DEF Frame, Without
  <1>4. n \notin Executed
    BY <1>3 DEF ExecutionInv
  <1>5. CASE ~Executes(n)
    <2>1. History' = History
      BY <1>5, HistoryGrows
    <2>2. Executed' = Executed
      BY <2>1 DEF Executed
    <2> QED BY <1>1, <1>2, <1>3, <2>1, <2>2, ToolCallKept
  <1>6. CASE Executes(n)
    <2> DEFINE r == AuditRecord(queue[n], n)
    <2>1. History' = Append(History, r) /\ Executed' = Executed \cup {n}
      BY <1>6, HistoryGrows, ExecutesOnce
    <2>2. History \in Seq(AuditRecords) /\ r \in AuditRecords /\ r.request = n
      BY <1>6, ConcatProperties DEF History, TypeInv, RegistryTypeOK, Executes, AuditRecord
    <2>3. \A k \in DOMAIN History' : \/ k \in DOMAIN History /\ History'[k] = History[k]
                                     \/ History'[k] = r
      <3> HIDE DEF r
      <3>1. /\ History' \in Seq(AuditRecords) /\ Len(History') = Len(History) + 1
            /\ \A i \in 1..Len(History) : History'[i] = History[i]
            /\ History'[Len(History) + 1] = r
        BY <2>1, <2>2, AppendProperties
      <3>2. DOMAIN History = 1..Len(History) /\ DOMAIN History' = 1..(Len(History) + 1)
            /\ Len(History) \in Nat
        BY <2>2, <3>1, LenProperties
      <3> QED BY <3>1, <3>2
    <2>4. CASE c.request # n
      <3>1. \A k \in DOMAIN History' :
              History'[k].request = c.request => k \in DOMAIN History /\ History'[k] = History[k]
        BY <2>2, <2>3, <2>4
      <3> QED BY <1>1, <1>2, <1>3, <2>1, <2>4, <3>1, ToolCallKept
    <2>5. CASE c.request = n
      <3>1. LocalAnswer(c.rpc) = Pending /\ queue[n] = Forward(c.rpc)
        BY <1>1, <1>3, <2>5 DEF ToolCall
      <3>2. FirstMapped(c.rpc.tool, r.capability)
        BY <1>1, <1>3, <3>1, ForwardExecuted
      <3>3. \A k \in DOMAIN History' :
              History'[k].request = c.request => History'[k] = r
        <4> HIDE DEF r
        <4>1. \A k \in DOMAIN History : History[k].request # n
          BY <1>4 DEF Executed
        <4> QED BY <2>3, <2>5, <4>1
      <3>4. Pending' = Pending /\ Undecided' = Undecided
        BY DEF Pending, RPCAnswer, Undecided
      <3>5. c.request \in Executed' /\ n \notin DOMAIN queue'
        BY <1>3, <2>1, <2>5
      <3>6. c.answer.message \in Undecided \cup {"result"}
        BY <1>1, <1>3, <2>5 DEF ToolCall
      <3> HIDE DEF r
      <3>7. \A k \in DOMAIN History' :
              History'[k].request = c.request =>
                FirstMapped(c.rpc.tool, History'[k].capability)
        BY <3>2, <3>3, <3>4
      <3>8. c.request \in DOMAIN waiting => waiting[c.request] = Forward(c.rpc)
        BY <1>1 DEF ToolCall
      <3> QED BY <1>2, <1>3, <2>5, <3>1, <3>4, <3>5, <3>6, <3>7, <3>8, AdapterConstant
              DEF ToolCall
    <2> QED BY <2>4, <2>5
  <1> QED BY <1>5, <1>6

(* A call of the adapter ends as its request does. *)
LEMMA ToolReturns ==
    ASSUME TypeInv, SameRequest, ExecutionInv, ToolInv, NEW n, Returns(n)
    PROVE  ToolInv'
  <1>1. PICK outcome \in Outcomes :
          /\ Finish(n, outcome) /\ AnswerRPC(n, outcome)
          /\ outcome \in {"ok", "decode_failed", "backend_error"} => n \in DOMAIN replies
          /\ outcome \in {"ok", "decode_failed"} => ~Refused(n)
          /\ outcome = "backend_error" => Refused(n)
    BY ReturnsFinish
  <1>2. /\ UNCHANGED <<manifest, cred, queue>> /\ History' = History
        /\ waiting' = Without(waiting, n)
    BY <1>1 DEF AnswerRPC, Finish, process, History
  <1>3. Executed' = Executed
    BY <1>2 DEF Executed
  <1>4. \A c : ToolCall(c) => ToolCall(c)'
    BY <1>2, <1>3, ToolCallKept DEF Without
  <1>5. ASSUME NEW d \in ToolCalls' PROVE ToolCall(d)'
    <2>1. PICK i \in DOMAIN calls' : d = calls'[i] /\ calls'[i].rpc.method = "tools/call"
      BY <1>5 DEF ToolCalls
    <2>2. /\ i \in DOMAIN calls
          /\ calls'[i] = IF calls[i].request = n
                           THEN [calls[i] EXCEPT !.answer = RPCResult(outcome)]
                           ELSE calls[i]
      BY <1>1, <2>1 DEF AnswerRPC
    <2>3. calls[i] \in Calls
      BY <2>2, LenProperties, ElementOfSeq DEF TypeInv
    <2>4. calls[i].rpc.method = "tools/call"
      BY <2>1, <2>2, <2>3 DEF Calls
    <2>5. PICK c : c = calls[i]
      OBVIOUS
    <2>6. ToolCall(c)
      BY <2>2, <2>4, <2>5 DEF ToolInv, ToolCalls
    <2>7. CASE c.request # n
      BY <1>4, <2>1, <2>2, <2>5, <2>6, <2>7
    <2>8. CASE c.request = n
      <3>1. /\ d.rpc = c.rpc /\ d.request = n /\ d.answer = RPCResult(outcome)
        BY <2>1, <2>2, <2>3, <2>5, <2>8 DEF Calls
      <3>2. outcome # "unavailable" =>
              n \in DOMAIN waiting /\ n \notin DOMAIN queue /\ waiting[n].op = "invoke"
        <4>1. outcome # "unavailable" => n \in DOMAIN replies
          BY <1>1 DEF Outcomes
        <4>2. DOMAIN replies \subseteq DOMAIN waiting \ DOMAIN queue
          BY DEF TypeInv, RegistryTypeOK
        <4>3. Forward(c.rpc).op = "invoke"
          BY <2>4, <2>5 DEF Forward
        <4> QED BY <2>6, <2>8, <4>1, <4>2, <4>3 DEF ToolCall
      <3>3. outcome \in {"ok", "decode_failed"} => n \in Executed
        BY <1>1, <3>2 DEF ExecutionInv
      <3>4. outcome = "backend_error" => n \notin Executed \cup DOMAIN queue
        BY <1>1, <3>2 DEF ExecutionInv
      <3>5. /\ d.answer.message = "result" => outcome = "ok"
            /\ d.answer.message \notin Undecided \cup {"result"} => outcome = "backend_error"
        BY <3>1 DEF RPCResult, RPCAnswer, Lookup, Outcomes, Undecided
      <3>6. ToolCall(c)'
        BY <1>4, <2>6
      <3> QED BY <1>2, <1>3, <2>8, <3>1, <3>3, <3>4, <3>5, <3>6 DEF ToolCall
    <2> QED BY <2>7, <2>8
  <1> QED BY <1>5 DEF ToolInv

(* Every step keeps ToolInv. *)
LEMMA ToolStep ==
    ASSUME TypeInv, SameRequest, ExecutionInv, ToolInv, [Next]_vars
    PROVE  ToolInv'
  <1>0. /\ sent \in Nat /\ DOMAIN queue \subseteq 1..sent /\ DOMAIN waiting \subseteq 1..sent
        /\ \A c \in ToolCalls : c.request \in 1..sent
    BY DEF TypeInv, RegistryTypeOK, ToolCalls
  <1>1. sent + 1 \notin 1..sent
    BY <1>0
  <1>2. ASSUME NEW q, Send(q), UNCHANGED <<manifest, cred>>, NEW c \in ToolCalls
        PROVE  ToolCall(c)'
    <2>1. History' = History /\ Executed' = Executed
      BY <1>2 DEF Send, process, History, Executed
    <2>2. c.request # sent + 1
      BY <1>0, <1>1
    <2>3. /\ c.request \in DOMAIN queue' =>
               c.request \in DOMAIN queue /\ queue'[c.request] = queue[c.request]
          /\ c.request \in DOMAIN waiting' =>
               c.request \in DOMAIN waiting /\ waiting'[c.request] = waiting[c.request]
      BY <1>2, <2>2 DEF Send, Put
    <2>4. ToolCall(c)
      BY DEF ToolInv
    <2> QED BY <1>2, <2>1, <2>3, <2>4, ToolCallKept
  <1>3. ASSUME NEW q, Send(q), UNCHANGED adapterVars PROVE ToolInv'
    <2>1. ToolCalls' = ToolCalls /\ UNCHANGED <<manifest, cred>>
      BY <1>3 DEF adapterVars, ToolCalls
    <2> QED BY <1>2, <1>3, <2>1 DEF ToolInv
  <1>n. Executed \subseteq 1..sent /\ \A k \in DOMAIN History : History[k].request \in Executed
    BY DEF ExecutionInv, Executed
  <1>4. ASSUME NEW m \in RPCs, AnswerLocally(m) PROVE ToolInv'
    <2>1. PICK c : c = [rpc |-> m, request |-> sent + 1, answer |-> LocalAnswer(m)]
      OBVIOUS
    <2>2. /\ UNCHANGED <<manifest, cred, queue, waiting>> /\ History' = History
          /\ Executed' = Executed /\ calls' = Append(calls, c)
      BY <1>4, <2>1 DEF AnswerLocally, process, History, Executed
    <2>3. c \in Calls
      <3>1. LocalAnswer(m) \in [status : Int, code : Int, message : Messages]
        BY DEF LocalAnswer, Pending, RPCAnswer, Messages
      <3> QED BY <1>0, <2>1, <3>1 DEF Calls
    <2>4. c.answer.message # "result" /\ c.request = sent + 1
      <3>1. LocalAnswer(m) # Pending
        BY <1>4 DEF AnswerLocally
      <3>2. LocalAnswer(m) # Pending => LocalAnswer(m).message # "result"
        BY DEF LocalAnswer, RPCAnswer
      <3> QED BY <2>1, <3>1, <3>2
    <2>5. ToolCall(c)'
      BY <1>0, <1>1, <1>n, <2>2, <2>4 DEF ToolCall
    <2>6. ASSUME NEW d \in ToolCalls PROVE ToolCall(d)'
      BY <2>2, <2>6, ToolCallKept DEF ToolInv
    <2> QED BY <2>2, <2>3, <2>5, <2>6, NewToolCall DEF ToolInv
  <1>5. ASSUME NEW m \in RPCs, Bridge(m) PROVE ToolInv'
    <2>1. PICK c : c = [rpc |-> m, request |-> sent + 1, answer |-> Pending]
      OBVIOUS
    <2>2. /\ UNCHANGED <<manifest, cred>> /\ Send(Forward(m)) /\ LocalAnswer(m) = Pending
          /\ calls' = Append(calls, c)
      BY <1>5, <2>1 DEF Bridge
    <2>3. c \in Calls
      <3>1. Pending \in [status : Int, code : Int, message : Messages]
        BY DEF Pending, RPCAnswer, Messages
      <3> QED BY <1>0, <2>1, <3>1 DEF Calls
    <2>4. /\ c.rpc = m /\ c.request = sent + 1 /\ c.answer = Pending
          /\ Pending' = Pending /\ Pending.message \in Undecided
          /\ Pending.message # "result"
      BY <2>1 DEF Pending, RPCAnswer, Undecided
    <2>5. /\ History' = History /\ Executed' = Executed
          /\ queue'[sent + 1] = Forward(m) /\ waiting'[sent + 1] = Forward(m)
      BY <2>2 DEF Send, process, History, Executed, Put
    <2>6. ToolCall(c)'
      <3>1. LocalAnswer(c.rpc)' = Pending /\ Forward(c.rpc)' = Forward(m)
        BY <2>2, <2>4, AdapterConstant
      <3>2. \A k \in DOMAIN History' : History'[k].request # c.request
        BY <1>1, <1>n, <2>4, <2>5
      <3> QED BY <2>4, <2>5, <3>1, <3>2 DEF ToolCall
    <2>7. ASSUME NEW d \in ToolCalls PROVE ToolCall(d)'
      BY <1>2, <2>2, <2>7
    <2> QED BY <2>2, <2>3, <2>6, <2>7, NewToolCall DEF ToolInv
  <1>6. ASSUME NEW n, Handle(n), UNCHANGED adapterVars PROVE ToolInv'
    <2>1. ToolCalls' = ToolCalls
      BY <1>6 DEF adapterVars, ToolCalls
    <2> QED BY <1>6, <2>1, ToolHandle DEF ToolInv
  <1>7. ASSUME NEW n, Returns(n) PROVE ToolInv'
    BY <1>7, ToolReturns
  <1>8. ASSUME Restart, UNCHANGED adapterVars PROVE ToolInv'
    <2>1. /\ UNCHANGED <<manifest, cred, waiting>> /\ DOMAIN queue' = {}
          /\ ToolCalls' = ToolCalls /\ past' = History /\ s'.audit = <<>>
      BY <1>8 DEF Restart, clients, EmptyMap, NewService, History, adapterVars, ToolCalls
    <2>2. History \in Seq(AuditRecords)
      BY ConcatProperties DEF History, TypeInv, RegistryTypeOK
    <2>3. History' = History
      BY <2>1, <2>2, ConcatEmptySeq DEF History
    <2>4. Executed' = Executed
      BY <2>3 DEF Executed
    <2> QED BY <2>1, <2>3, <2>4, ToolCallKept DEF ToolInv
  <1>9. CASE UNCHANGED vars
    <2>1. /\ UNCHANGED <<manifest, cred, queue, waiting>> /\ ToolCalls' = ToolCalls
          /\ History' = History /\ Executed' = Executed
      BY <1>9 DEF vars, registryVars, clients, process, adapterVars, History, Executed, ToolCalls
    <2> QED BY <2>1, ToolCallKept DEF ToolInv
  <1> QED BY <1>3, <1>4, <1>5, <1>6, <1>7, <1>8, <1>9 DEF Next

(* An MCP client may read the answer to tools/call so: a result is one     *)
(* execution, of the capability the first mapping of the tool names;       *)
(* "backend unavailable" and a body that could not be decoded are at most  *)
(* one, possibly later; every other error is none, ever                    *)
(* (server.go:164-232).                                                    *)
THEOREM ToolCallsReadable == Spec => []ToolCallsTold
  <1>1. Init => ToolInv
    <2>1. Init => ToolCalls = {}
      BY DEF Init, ToolCalls
    <2> QED BY <2>1 DEF ToolInv
  <1>2. TypeInv /\ SameRequest /\ ExecutionInv /\ ToolInv /\ [Next]_vars => ToolInv'
    BY ToolStep
  <1>3. TypeInv /\ ExecutionInv /\ ToolInv => ToolCallsTold
    <2> SUFFICES ASSUME TypeInv, ExecutionInv, ToolInv PROVE ToolCallsTold
      OBVIOUS
    <2>1. ASSUME NEW i \in DOMAIN calls, calls[i].rpc.method = "tools/call"
          PROVE  ToolCall(calls[i])
      BY <2>1 DEF ToolInv, ToolCalls
    <2>2. ASSUME NEW n
          PROVE  /\ Executions(n) = {} <=> n \notin Executed
                 /\ Cardinality(Executions(n)) <= 1
      BY ExecutionsOf DEF ExecutionInv
    <2>3. \A n : \A k \in Executions(n) : k \in DOMAIN History /\ History[k].request = n
      BY DEF Executions
    <2> QED BY <2>1, <2>2, <2>3 DEF ToolCallsTold, ToolCall, FirstMapped
  <1> QED BY <1>1, <1>2, <1>3, TypesHold, RequestsHold, ExecutionsHold, PTL DEF Spec

-----------------------------------------------------------------------------
(* Deadlines *)

(* A number below the modulus is its own remainder. *)
LEMMA SmallRemainder ==
    ASSUME NEW k \in Nat \ {0}, NEW x \in 0..(k - 1)
    PROVE  x % k = x
  OBVIOUS

(* The milliseconds of every deadline that fits the wire become a positive *)
(* duration, exactly.                                                      *)
LEMMA BudgetExact ==
    ASSUME NEW d \in 1..(WireRange - 1)
    PROVE  Budget(d) > 0 /\ Budget(d) = d * NanosPerMilli
  <1> DEFINE p == d * NanosPerMilli
  <1>1. d \in 0..(WireRange - 1) /\ d \in Nat \ {0} /\ NanosPerMilli \in Nat \ {0}
    BY WidthsAssumption
  <1>2. 2 * p < IntRange
    BY <1>1, WidthsAssumption
  <1>3. p \in Nat \ {0}
    BY <1>1
  <1> HIDE DEF p
  <1>4. p \in 0..(IntRange - 1) /\ IntRange \in Nat \ {0}
    BY <1>2, <1>3, WidthsAssumption
  <1>5. p % IntRange = p
    BY <1>4, SmallRemainder
  <1>6. Signed(p) = p
    BY <1>2, <1>5 DEF Signed
  <1> QED BY <1>3, <1>6 DEF Budget, p

(* What Normalize makes of a deadline. *)
Given(asked) == IF asked <= 0 THEN DefaultDeadline ELSE asked

(* The deadline in the head of an answer. *)
LEMMA AnswerDeadline ==
    ASSUME NEW q, Wellformed(q), NEW n, NEW r
    PROVE  LET h == Answer(q, n, r).head IN
           \/ h = NoHead
           \/ h.deadline = Given(q.head.deadline)
  <1> DEFINE d == Given(q.head.deadline)
  <1>1. DOMAIN q.head = HeaderFields /\ q.head.deadline \in Int
    BY DEF Wellformed
  <1>2. /\ DOMAIN Received(q) = HeaderFields
        /\ Received(q).deadline = q.head.deadline
    BY <1>1 DEF Received, messageHeaderFromProto, HeaderFields
  <1>3. DOMAIN Answered(q, n) = HeaderFields /\ Answered(q, n).deadline = d
    BY <1>2 DEF Answered, Complete, Normalize, HeaderFields, Given
  <1>4. q.binding = "grpc" => messageHeaderToProto(Answered(q, n)).deadline = d
    <2> SUFFICES ASSUME q.binding = "grpc"
                 PROVE  messageHeaderToProto(Answered(q, n)).deadline = d
      OBVIOUS
    <2>1. messageHeaderToProto(Answered(q, n)).deadline = Unsigned(d)
      BY <1>3 DEF messageHeaderToProto, HeaderFields
    <2>2. d \in 0..(WireRange - 1)
      BY <1>1, WidthsAssumption DEF Wellformed, Given
    <2>3. Unsigned(d) = d
      BY <2>2, SmallRemainder, WidthsAssumption DEF Unsigned
    <2> QED BY <2>1, <2>3
  <1> QED BY <1>3, <1>4 DEF Answer

DeadlineInv ==
    \A n \in DOMAIN replies :
        \/ replies[n].head = NoHead
        \/ replies[n].head.deadline = Given(waiting[n].head.deadline)

(* A handler refuses, or answers with what the service has returned. *)
LEMMA HandleAnswers ==
    ASSUME NEW n, Handle(n)
    PROVE  Refuse(n) \/ \E r : Reply(n, Answer(queue[n], n, r))
  BY Zenon DEF Handle, handleHello, handleDiscover, handleHeartbeat, handleInvoke,
         handleAddCapability, handleListCapabilities, handleAddSchema,
         handlePolicyValidate, handleSetQuota, handleAuditExport, handleCreateOrg,
         handleCreateTenant, handleCreateGateway, Read, Store

(* Every step keeps DeadlineInv. *)
LEMMA DeadlineStep ==
    ASSUME TypeInv, SameRequest, DeadlineInv, [Next]_vars
    PROVE  DeadlineInv'
  <1>0. /\ sent \in Nat /\ DOMAIN waiting \subseteq 1..sent
        /\ DOMAIN replies \subseteq DOMAIN waiting \ DOMAIN queue
    BY DEF TypeInv, RegistryTypeOK
  <1>1. ASSUME NEW q, Send(q) PROVE DeadlineInv'
    <2>1. replies' = replies /\ \A n \in DOMAIN replies : waiting'[n] = waiting[n]
      BY <1>0, <1>1 DEF Send, Put
    <2> QED BY <2>1 DEF DeadlineInv
  <1>2. ASSUME NEW m, AnswerLocally(m) PROVE DeadlineInv'
    BY <1>2 DEF AnswerLocally, DeadlineInv
  <1>3. ASSUME NEW m, Bridge(m) PROVE DeadlineInv'
    BY <1>1, <1>3 DEF Bridge
  <1>4. ASSUME NEW n, Handle(n) PROVE DeadlineInv'
    <2>1. /\ n \in DOMAIN queue /\ waiting' = waiting
          /\ DOMAIN replies' = DOMAIN replies \cup ({n} \cap DOMAIN waiting)
          /\ \A k \in DOMAIN replies \ {n} : replies'[k] = replies[k]
      BY <1>4, HandleFrame DEF Frame
    <2>2. ASSUME n \in DOMAIN waiting
          PROVE  \/ replies'[n].head = NoHead
                 \/ replies'[n].head.deadline = Given(waiting[n].head.deadline)
      <3>1. waiting[n] = queue[n] /\ Wellformed(queue[n])
        BY <2>1, <2>2 DEF SameRequest, TypeInv, RegistryTypeOK
      <3>2. CASE Refuse(n)
        <4>1. replies'[n].head = NoHead
          BY <2>1, <2>2, <3>2, ReplyFrame DEF Refuse
        <4> QED BY <4>1
      <3>3. ASSUME NEW r, Reply(n, Answer(queue[n], n, r))
            PROVE  \/ replies'[n].head = NoHead
                   \/ replies'[n].head.deadline = Given(waiting[n].head.deadline)
        <4>1. replies'[n] = Answer(queue[n], n, r)
          BY <2>1, <2>2, <3>3, ReplyFrame
        <4> QED BY <3>1, <4>1, AnswerDeadline
      <3> QED BY <1>4, <3>2, <3>3, HandleAnswers
    <2>3. ASSUME NEW k \in DOMAIN replies', k # n
          PROVE  \/ replies'[k].head = NoHead
                 \/ replies'[k].head.deadline = Given(waiting'[k].head.deadline)
      BY <2>1, <2>3 DEF DeadlineInv
    <2>4. n \in DOMAIN replies' => n \in DOMAIN waiting
      BY <1>0, <2>1
    <2> QED BY <2>1, <2>2, <2>3, <2>4 DEF DeadlineInv
  <1>5. ASSUME NEW n, Returns(n) PROVE DeadlineInv'
    <2>1. waiting' = Without(waiting, n) /\ replies' = Without(replies, n)
      BY <1>5, ReturnsFinish DEF Finish
    <2>2. \A k \in DOMAIN replies' : /\ k \in DOMAIN replies /\ replies'[k] = replies[k]
                                     /\ waiting'[k] = waiting[k]
      BY <1>0, <2>1 DEF Without
    <2> QED BY <2>2 DEF DeadlineInv
  <1>6. CASE Restart
    BY <1>6 DEF Restart, clients, DeadlineInv
  <1>7. CASE UNCHANGED vars
    BY <1>7 DEF vars, registryVars, clients, DeadlineInv
  <1> QED BY <1>1, <1>2, <1>3, <1>4, <1>5, <1>6, <1>7 DEF Next

(* The deadline a client asks for is the one its call is given, through    *)
(* uint32 and Normalize (grpc_server.go:416-458, types.go:61), and for     *)
(* every number that fits the wire the duration made of it is exact and    *)
(* positive (service.go:272).                                              *)
THEOREM DeadlinesKept == Spec => []DeadlineKept
  <1>1. Init => DeadlineInv
    <2>1. Init => DOMAIN replies = {}
      BY DEF Init, RegistryInit, EmptyMap
    <2> QED BY <2>1 DEF DeadlineInv
  <1>2. TypeInv /\ SameRequest /\ DeadlineInv /\ [Next]_vars => DeadlineInv'
    BY DeadlineStep
  <1>3. TypeInv /\ DeadlineInv => DeadlineKept
    <2> SUFFICES ASSUME TypeInv, DeadlineInv, NEW n \in DOMAIN replies,
                        replies[n].head # NoHead
                 PROVE  LET asked == waiting[n].head.deadline
                            given == replies[n].head.deadline
                        IN  /\ given = IF asked <= 0 THEN DefaultDeadline ELSE asked
                            /\ given \in 0..(WireRange - 1) =>
                                 /\ Budget(given) > 0
                                 /\ Budget(given) = given * NanosPerMilli
      BY DEF DeadlineKept
    <2>1. waiting[n].head.deadline \in Int
      BY DEF TypeInv, RegistryTypeOK, Wellformed
    <2>2. replies[n].head.deadline =
            IF waiting[n].head.deadline <= 0 THEN DefaultDeadline ELSE waiting[n].head.deadline
      BY DEF DeadlineInv, Given
    <2>3. replies[n].head.deadline > 0 /\ replies[n].head.deadline \in Int
      BY <2>1, <2>2, WidthsAssumption
    <2> QED BY <2>2, <2>3, BudgetExact
  <1> QED BY <1>1, <1>2, <1>3, TypesHold, RequestsHold, PTL DEF Spec
=============================================================================
