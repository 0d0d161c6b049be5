------------------------------ MODULE Registry ------------------------------
(***************************************************************************)
(* The request/response side of the gateway and its clients: Hello,        *)
(* Discover, Heartbeat, Invoke, the admin, pro and cloud endpoints         *)
(* (service.go, http.go), over HTTP and, for the MIG operations, over gRPC *)
(* (grpc_server.go), called by clients that wait with a timeout as         *)
(* migclient and the MCP adapter do, while the process may crash and be    *)
(* started again: the memory of the service is then what                   *)
(* NewServiceWithOptions makes, and of the past only the audit file is     *)
(* left.                                                                   *)
(*                                                                         *)
(* A handler is one step.  Invoke, whose parts interleave in module        *)
(* Invocation, is one step here too: the clients of this repository send   *)
(* neither idempotency keys nor cancellations, so that of its effects only *)
(* the audit record and the quota are left.                                *)
(***************************************************************************)
EXTENDS Codec, Tenancy, FiniteSets

CONSTANTS
    Requests,               \* the requests clients may send
    CapabilityIDs,          \* capability ids
    BootstrapCapabilities,  \* what bootstrapDefaults registers, by id
    BootstrapSchemas,       \* the URIs of the schemas it registers
    MaxRequests,            \* bound on the requests sent
    MaxInFlight,            \* bound on the requests in flight at one time
    MaxRestarts,            \* bound on the restarts of the process
    AuditLogConfigured,     \* is AuditLogPath set?
    AuditWriteMayFail       \* may a write to the audit file fail?

MigOps   == {"hello", "discover", "invoke", "heartbeat"}
CloudOps == {"createOrg", "createTenant", "createGateway"}
Ops      == MigOps \cup CloudOps \cup
            {"addCapability", "listCapabilities", "addSchema", "validatePolicy",
             "setQuota", "auditExport"}

HeaderFields == {"version", "messageID", "tenant", "key", "deadline", "meta"}
DescriptorFields ==
    {"id", "version", "modes", "inputSchema", "outputSchema", "scopes", "delivery"}

(* The bodies of the requests. *)
BodyFields ==
    [hello |-> {"versions", "bindings"}, discover |-> {"query"}, invoke |-> {"capability"},
     heartbeat |-> {"interval"}, addCapability |-> DescriptorFields,
     listCapabilities |-> {"kind"}, addSchema |-> {"uri", "empty"},
     validatePolicy |-> {"tenant", "capability", "action"}, setQuota |-> {"tenant", "max"},
     auditExport |-> {"tenant"}, createOrg |-> {"id", "name"},
     createTenant |-> {"id", "orgID", "name"},
     createGateway |-> {"id", "tenantID", "region", "binding"}]

(* A request: its operation and body, how it came and with which           *)
(* credentials, whether its body can be decoded, and the header of a MIG   *)
(* operation.  gRPC has the MIG operations only, and decodes by itself.    *)
Wellformed(q) ==
    /\ DOMAIN q = {"op", "binding", "cred", "decodes", "head", "body"}
    /\ q.op \in Ops /\ q.binding \in {"http", "grpc"} /\ q.decodes \in BOOLEAN
    /\ q.cred.auth \in Authorization /\ q.cred.xTenant \in MaybeTenant
    /\ DOMAIN q.head = HeaderFields
    /\ q.head.tenant \in MaybeTenant /\ q.head.deadline \in Int
    /\ DOMAIN q.body = BodyFields[q.op]
    /\ q.op = "hello" => DOMAIN q.body.bindings = 1..Len(q.body.bindings)
    /\ q.op = "invoke" => q.body.capability \in CapabilityIDs \cup {EmptyString}
    /\ q.binding = "grpc" =>
         q.op \in MigOps /\ q.decodes /\ q.head.deadline \in 0..(WireRange - 1)

ASSUME RequestsAssumption == \A q \in Requests : Wellformed(q)
ASSUME BootstrapAssumption ==
    \A id \in DOMAIN BootstrapCapabilities :
        /\ DOMAIN BootstrapCapabilities[id] = DescriptorFields
        /\ BootstrapCapabilities[id].id = id
ASSUME BoundsAssumption == MaxRequests \in Nat /\ MaxInFlight \in Nat /\ MaxRestarts \in Nat
ASSUME AuditAssumption == AuditLogConfigured \in BOOLEAN /\ AuditWriteMayFail \in BOOLEAN

VARIABLES
    s,          \* the Service: capabilities, schemas, quotas, orgs, tenants, ...
    auditFile,  \* the writes to the file at AuditLogPath, of all processes
    past,       \* history: the audit logs of the earlier processes, in order
    epoch,      \* the number of restarts
    sent,       \* the number of requests sent; requests are numbered from 1
    queue,      \* the requests the process has not answered, by number
    waiting,    \* the requests whose clients still wait, by number
    replies,    \* the answers on their way to them
    learned,    \* history: what clients were told exists, and by which process
    results     \* history: how the clients' invocations ended, by number

process == <<s, auditFile, past, epoch>>
clients == <<sent, waiting, learned, results>>
registryVars == <<process, clients, queue, replies>>

-----------------------------------------------------------------------------
(* NewServiceWithOptions and bootstrapDefaults. *)
NewService ==
    [capabilities |-> BootstrapCapabilities, schemas |-> BootstrapSchemas,
     quotas |-> EmptyMap, orgs |-> EmptyMap, tenants |-> EmptyMap,
     gateways |-> EmptyMap, audit |-> <<>>]

RegistryInit ==
    /\ s = NewService /\ auditFile = <<>> /\ past = <<>> /\ epoch = 0
    /\ sent = 0 /\ queue = EmptyMap /\ waiting = EmptyMap /\ replies = EmptyMap
    /\ learned = {} /\ results = EmptyMap

-----------------------------------------------------------------------------
(* Before the handler: the middleware or interceptor, the route, the       *)
(* decoder, and the tenant.                                                *)

Principal(q) ==
    [authenticated |-> AuthMode = "jwt",
     tenant |-> PrincipalTenant(q.cred.auth, q.cred.xTenant), scopes |-> q.cred.scopes]

(* The two refusals that are no MIG errors. *)
NoRoute == "no_route"
BadBody == "bad_body"

(* The handlers of policies and quotas check the tenant they are given. *)
ForeignTenant(q) ==
    /\ q.op \in {"validatePolicy", "setQuota"}
    /\ Principal(q).tenant # EmptyString
    /\ q.body.tenant # Principal(q).tenant

Refusal(q) ==
    LET auth == AuthVerdict(q.cred.auth, q.cred.xTenant) IN
    IF auth # Granted THEN auth
    ELSE IF q.op = "invoke" /\ q.binding = "http" /\ q.body.capability = EmptyString
      THEN NoRoute
    ELSE IF ~q.decodes THEN BadBody
    ELSE IF q.op \in MigOps
      THEN HeaderVerdict(q.binding, q.head.tenant, Principal(q).tenant, q.cred.xTenant)
    ELSE IF ForeignTenant(q) THEN ErrorForbidden
    ELSE Granted

RefusalStatus(q) ==
    IF q.binding = "grpc" THEN grpcStatusFromMigError(Refusal(q))
    ELSE Lookup(Put(Put(Put(EmptyMap, NoRoute, 404), BadBody, 400), ErrorUnauthorized, 401),
                Refusal(q), 403)

(* The header the handler passes on, and the one the service answers with. *)
Received(q) ==
    LET h == IF q.binding = "grpc" THEN messageHeaderFromProto(q.head) ELSE q.head IN
    [h EXCEPT !.tenant = HeaderTenant(q.binding, @, Principal(q).tenant, q.cred.xTenant),
              !.meta = PrincipalMeta(@)]

(* Sixteen random bytes, fresh for request n. *)
newMessageID(n) == <<"generated", n>>

Answered(q, n) == Complete(Received(q), newMessageID(n))

-----------------------------------------------------------------------------
(* What the service answers: an error code or Granted, and a body. *)

NoBody == [kind |-> "none"]
Failure(code) == [code |-> code, body |-> NoBody]
Success(body) == [code |-> Granted, body |-> body]
Checked(valid, result) == IF valid THEN result ELSE Failure(ErrorInvalidRequest)

(* The first requested binding the gateway has, else HTTP. *)
SelectedBinding(requested) ==
    LET known == {i \in DOMAIN requested : requested[i] \in {"grpc", "nats", "http"}} IN
    IF known = {} THEN "http"
    ELSE requested[CHOOSE i \in known : \A j \in known : i <= j]

(* The bindings a request asks for, as the handler passes them on. *)
RequestedBindings(q) ==
    IF q.binding = "grpc" THEN bindingTypesFromProto(q.body.bindings) ELSE q.body.bindings

Hello(q) ==
    Checked(Normalizable(Received(q)),
            IF q.body.versions # {} /\ MIGVersion \notin q.body.versions
              THEN Failure(ErrorVersionMismatch)
              ELSE Success([binding |-> SelectedBinding(RequestedBindings(q))]))

(* strings.Contains, for a query that is a segment of ids, and the scopes. *)
Visible(q, id) ==
    /\ q.body.query = Blank \/ q.body.query \in {id[i] : i \in DOMAIN id}
    /\ HasAnyScope(Principal(q), s.capabilities[id].scopes)

Discover(q) ==
    Checked(Normalizable(Received(q)),
            Success([capabilities |-> {s.capabilities[id] :
                         id \in {i \in DOMAIN s.capabilities : Visible(q, i)}}]))

Heartbeat(q) ==
    Checked(Normalizable(Received(q)),
            Success([interval |-> IF q.body.interval <= 0 THEN DefaultInterval
                                  ELSE q.body.interval,
                     load |-> Len(s.audit)]))

(* AuditExport; an empty tenant asks for everything. *)
AuditExport(tenant) ==
    IF tenant = EmptyString THEN s.audit
    ELSE SelectSeq(s.audit, LAMBDA r : r.tenant = tenant)

(* hasQuota && used >= quota; tenantInvocations counts the audit records. *)
QuotaUsedUp(tenant) ==
    tenant \in DOMAIN s.quotas /\ Len(AuditExport(tenant)) >= s.quotas[tenant]

(* Invoke, unless its deadline passes. *)
Invoke(q) ==
    LET c == q.body.capability IN
    Checked(Normalizable(Received(q)) /\ c # EmptyString,
            IF c \notin DOMAIN s.capabilities THEN Failure(ErrorUnsupportedCapability)
            ELSE IF ~HasAnyScope(Principal(q), s.capabilities[c].scopes)
              THEN Failure(ErrorForbidden)
            ELSE IF QuotaUsedUp(Received(q).tenant) THEN Failure(ErrorRateLimited)
            ELSE Success([capability |-> c, schema |-> s.capabilities[c].outputSchema]))

AddCapability(d) ==
    Checked(/\ d.id # EmptyString /\ d.version # Blank
            /\ d.inputSchema # Blank /\ d.outputSchema # Blank, Success(d))

AddSchema(b) == Checked(b.uri # Blank /\ ~b.empty, Success([uri |-> b.uri]))

ValidatePolicy(b) ==
    Checked(b.tenant # EmptyString /\ b.capability # EmptyString /\ b.action # Blank,
            Success([allowed |-> b.action = "invoke" /\ b.capability \in DOMAIN s.capabilities]))

SetQuota(b) == Checked(b.tenant # EmptyString /\ b.max > 0, Success(b))

(* An id the client has not chosen is made up from random bytes. *)
Named(b, prefix, n) == [b EXCEPT !.id = IF @ = EmptyString THEN <<prefix, n>> ELSE @]

CreateOrg(b, n) == Checked(b.name # Blank, Success(Named(b, "org", n)))

(* Mutant of CreateTenant: the organisation is not looked up. *)
CreateTenantAnywhere(b, n) ==
    Checked(b.name # Blank /\ b.orgID # EmptyString, Success(Named(b, "tenant", n)))

CreateTenant(b, n) ==
    Checked(b.name # Blank /\ b.orgID # EmptyString,
            IF b.orgID \notin DOMAIN s.orgs THEN Failure(ErrorNotFound)
            ELSE Success(Named(b, "tenant", n)))

CreateGateway(b, n) ==
    Checked(b.tenantID # EmptyString /\ b.region # Blank /\ b.binding # Blank,
            IF b.tenantID \notin DOMAIN s.tenants THEN Failure(ErrorNotFound)
            ELSE Success(Named(b, "gw", n)))

-----------------------------------------------------------------------------
(* The answer on the wire. *)

Created == CloudOps \cup {"addCapability", "addSchema"}

HTTPStatus(op, code) ==
    IF code = Granted THEN (IF op \in Created THEN 201 ELSE 200)
    ELSE IF op = "invoke" THEN invokeStatus(code)
    ELSE IF op \in CloudOps /\ code = ErrorNotFound THEN 404
    ELSE 400

Status(q, code) ==
    IF q.binding = "http" THEN HTTPStatus(q.op, code)
    ELSE IF code = Granted THEN "OK"
    ELSE grpcStatusFromMigError(code)

(* The bodies of the gRPC responses. *)
ToProto(op, body) ==
    CASE op = "hello"     -> [body EXCEPT !.binding = bindingTypeToProto(@)]
      [] op = "discover"  -> [body EXCEPT !.capabilities = {capabilityToProto(d) : d \in @}]
      [] op = "heartbeat" -> [body EXCEPT !.interval = Unsigned(@)]
      [] OTHER            -> body

NoHead == [deadline |-> 0]

(* The answer to request n with the result r of the service. *)
Answer(q, n, r) ==
    LET wire == q.binding = "grpc"  ok == r.code = Granted IN
    [status |-> Status(q, r.code), code |-> r.code, epoch |-> epoch,
     head |-> IF ~ok \/ q.op \notin MigOps THEN NoHead
              ELSE IF wire THEN messageHeaderToProto(Answered(q, n)) ELSE Answered(q, n),
     body |-> IF ok /\ wire THEN ToProto(q.op, r.body) ELSE r.body]

StoredKind ==
    [createOrg |-> "org", createTenant |-> "tenant", createGateway |-> "gateway",
     addCapability |-> "capability"]

(* What an answer tells its reader to exist. *)
Told(q, a) ==
    IF a.code # Granted THEN {}
    ELSE IF q.op \in DOMAIN StoredKind THEN {<<StoredKind[q.op], a.body.id>>}
    ELSE IF q.op \in {"discover", "listCapabilities"}
      THEN {<<"capability", d.id>> : d \in a.body.capabilities}
    ELSE {}

-----------------------------------------------------------------------------
(* The clients: post of migclient, postJSON of the MCP adapter. *)

Send(q) ==
    /\ sent < MaxRequests
    /\ Cardinality(DOMAIN queue \cup DOMAIN waiting) < MaxInFlight
    /\ sent' = sent + 1
    /\ queue' = Put(queue, sent + 1, q)
    /\ waiting' = Put(waiting, sent + 1, q)
    /\ UNCHANGED <<process, replies, learned, results>>

(* How a call to post ends. *)
Outcomes == {"ok", "backend_error", "decode_failed", "unavailable"}

Finish(n, outcome) ==
    /\ waiting' = Without(waiting, n)
    /\ replies' = Without(replies, n)
    /\ results' = IF waiting[n].op = "invoke" THEN Put(results, n, outcome) ELSE results
    /\ UNCHANGED <<process, sent, queue>>

(* Mutant of Refused: only the statuses of server errors are errors. *)
RefusedFrom500(n) ==
    IF waiting[n].binding = "http" THEN replies[n].status >= 500 ELSE replies[n].status # "OK"

Refused(n) ==
    IF waiting[n].binding = "http" THEN replies[n].status >= 400 ELSE replies[n].status # "OK"

Receive(n) ==
    /\ n \in DOMAIN replies
    /\ Finish(n, IF Refused(n) THEN "backend_error" ELSE "ok")
    /\ learned' = learned \cup {[process |-> replies[n].epoch, thing |-> x] :
                                  x \in Told(waiting[n], replies[n])}

(* The connection breaks within the body, which io.ReadAll hides. *)
ReceivePart(n) ==
    /\ n \in DOMAIN replies /\ waiting[n].binding = "http" /\ ~Refused(n)
    /\ Finish(n, "decode_failed")
    /\ UNCHANGED learned

(* client.Do fails: the client's timeout, or no connection.  The request   *)
(* may still be on its way to the handler.                                 *)
GiveUp(n) ==
    /\ n \in DOMAIN waiting
    /\ Finish(n, "unavailable")
    /\ UNCHANGED learned

-----------------------------------------------------------------------------
(* The handlers *)

(* Answer request n with result r; nobody reads the answer when the client *)
(* has left.                                                               *)
Reply(n, a) ==
    /\ queue' = Without(queue, n)
    /\ replies' = IF n \in DOMAIN waiting THEN Put(replies, n, a) ELSE replies
    /\ UNCHANGED <<clients, past, epoch>>

Serves(n, op) == n \in DOMAIN queue /\ queue[n].op = op /\ Refusal(queue[n]) = Granted

Refuse(n) ==
    /\ n \in DOMAIN queue /\ Refusal(queue[n]) # Granted
    /\ Reply(n, [status |-> RefusalStatus(queue[n]), code |-> Refusal(queue[n]),
                 epoch |-> epoch, head |-> NoHead, body |-> NoBody])
    /\ UNCHANGED <<s, auditFile>>

(* A handler that only reads. *)
Read(n, op, result) ==
    /\ Serves(n, op)
    /\ Reply(n, Answer(queue[n], n, result))
    /\ UNCHANGED <<s, auditFile>>

handleHello(n) == Read(n, "hello", Hello(queue[n]))
handleDiscover(n) == Read(n, "discover", Discover(queue[n]))
handleHeartbeat(n) == Read(n, "heartbeat", Heartbeat(queue[n]))
handleListCapabilities(n) ==
    Read(n, "listCapabilities",
         Success([capabilities |-> {s.capabilities[id] : id \in DOMAIN s.capabilities}]))
handlePolicyValidate(n) == Read(n, "validatePolicy", ValidatePolicy(queue[n].body))
handleAuditExport(n) ==
    Read(n, "auditExport", Success([records |-> AuditExport(queue[n].body.tenant)]))

(* A handler that leaves the service in the state t if the call is valid. *)
Store(n, op, result, t) ==
    /\ Serves(n, op)
    /\ Reply(n, Answer(queue[n], n, result))
    /\ s' = IF result.code = Granted THEN t ELSE s
    /\ UNCHANGED auditFile

handleAddCapability(n) ==
    LET d == queue[n].body IN
    Store(n, "addCapability", AddCapability(d),
          [s EXCEPT !.capabilities = Put(@, d.id, d)])

handleAddSchema(n) ==
    LET b == queue[n].body IN
    Store(n, "addSchema", AddSchema(b), [s EXCEPT !.schemas = @ \cup {b.uri}])

handleSetQuota(n) ==
    LET b == queue[n].body IN
    Store(n, "setQuota", SetQuota(b), [s EXCEPT !.quotas = Put(@, b.tenant, b.max)])

(* Mutant of handleCreateOrg: the id is made up after the org is stored. *)
handleCreateOrgEarly(n) ==
    LET b == queue[n].body IN
    Store(n, "createOrg", CreateOrg(b, n), [s EXCEPT !.orgs = Put(@, b.id, b)])

handleCreateOrg(n) ==
    LET r == CreateOrg(queue[n].body, n) IN
    Store(n, "createOrg", r, [s EXCEPT !.orgs = Put(@, r.body.id, r.body)])

handleCreateTenant(n) ==
    LET r == CreateTenant(queue[n].body, n) IN
    Store(n, "createTenant", r, [s EXCEPT !.tenants = Put(@, r.body.id, r.body)])

handleCreateGateway(n) ==
    LET r == CreateGateway(queue[n].body, n) IN
    Store(n, "createGateway", r, [s EXCEPT !.gateways = Put(@, r.body.id, r.body)])

(* An AuditRecord.  request is history: the number of the request. *)
AuditRecord(q, n) ==
    [request |-> n, tenant |-> Received(q).tenant, capability |-> q.body.capability]

(* What a write to the file may leave there. *)
AuditParts == IF AuditWriteMayFail THEN WriteParts ELSE {"all"}

(* Nothing is written to a nil log, and the error of a write is ignored. *)
writeAuditLogLocked(record) ==
    \E part \in AuditParts :
        auditFile' = IF AuditLogConfigured THEN Append(auditFile, Written(record, part))
                     ELSE auditFile

Execute(n) ==
    /\ s' = [s EXCEPT !.audit = Append(@, AuditRecord(queue[n], n))]
    /\ writeAuditLogLocked(AuditRecord(queue[n], n))

(* handleInvoke and the gRPC Invoke; the deadline may pass before the      *)
(* worker's result is there.                                               *)
handleInvoke(n) ==
    LET r == Invoke(queue[n]) IN
    /\ Serves(n, "invoke")
    /\ \/ /\ r.code # Granted
          /\ Reply(n, Answer(queue[n], n, r))
          /\ UNCHANGED <<s, auditFile>>
       \/ /\ r.code = Granted
          /\ Reply(n, Answer(queue[n], n, r))
          /\ Execute(n)
       \/ /\ r.code = Granted
          /\ Reply(n, Answer(queue[n], n, Failure(ErrorTimeout)))
          /\ UNCHANGED <<s, auditFile>>

Handle(n) ==
    \/ Refuse(n)
    \/ handleHello(n) \/ handleDiscover(n) \/ handleHeartbeat(n) \/ handleInvoke(n)
    \/ handleAddCapability(n) \/ handleListCapabilities(n) \/ handleAddSchema(n)
    \/ handlePolicyValidate(n) \/ handleSetQuota(n) \/ handleAuditExport(n)
    \/ handleCreateOrg(n) \/ handleCreateTenant(n) \/ handleCreateGateway(n)

(* Mutant of openAuditLog: os.O_TRUNC instead of os.O_APPEND. *)
openAuditLogTruncated(file) == <<>>

(* os.OpenFile with os.O_APPEND. *)
openAuditLog(file) == file

(* The process ends at any moment and main starts it again.  Requests it   *)
(* has not answered are lost, answers it has sent may still arrive.        *)
Restart ==
    /\ epoch < MaxRestarts
    /\ epoch' = epoch + 1
    /\ past' = past \o s.audit
    /\ s' = NewService
    /\ auditFile' = openAuditLog(auditFile)
    /\ queue' = EmptyMap
    /\ UNCHANGED <<clients, replies>>

-----------------------------------------------------------------------------
History == past \o s.audit

(* The executions of request n, of which History has the records. *)
Executions(n) == {i \in DOMAIN History : History[i].request = n}

AuditRecords ==
    [request : Nat, tenant : MaybeTenant \cup {Unknown},
     capability : CapabilityIDs \cup {EmptyString}]

(* The shape of the state: what is stored, and where a request can be: an  *)
(* answer only travels to a client that waits for it, and a client has a   *)
(* result only when it waits no more.                                      *)
RegistryTypeOK ==
    /\ DOMAIN s = DOMAIN NewService
    /\ s.audit \in Seq(AuditRecords) /\ past \in Seq(AuditRecords)
    /\ auditFile \in Seq([record : AuditRecords, part : WriteParts])
    /\ epoch \in Nat /\ sent \in Nat
    /\ DOMAIN queue \cup DOMAIN waiting \subseteq 1..sent
    /\ \A n \in DOMAIN queue : Wellformed(queue[n])
    /\ \A n \in DOMAIN waiting : Wellformed(waiting[n])
    /\ DOMAIN replies \subseteq DOMAIN waiting \ DOMAIN queue
    /\ DOMAIN results \subseteq (1..sent) \ DOMAIN waiting
    /\ \A n \in DOMAIN results : results[n] \in Outcomes

(* CreateTenant and CreateGateway look up what they refer to in the same   *)
(* critical section in which they store (service.go:567, 584), whatever    *)
(* was lost in a restart since the client was told of it: every gateway    *)
(* has its tenant and every tenant its organisation.                       *)
ReferentialIntegrity ==
    /\ \A t \in DOMAIN s.tenants : s.tenants[t].orgID \in DOMAIN s.orgs
    /\ \A g \in DOMAIN s.gateways : s.gateways[g].tenantID \in DOMAIN s.tenants

(* A kind of thing and an id under which the service has one. *)
Exists(x) ==
    \/ x[1] = "org" /\ x[2] \in DOMAIN s.orgs
    \/ x[1] = "tenant" /\ x[2] \in DOMAIN s.tenants
    \/ x[1] = "gateway" /\ x[2] \in DOMAIN s.gateways
    \/ x[1] = "capability" /\ x[2] \in DOMAIN s.capabilities

(* What the running process has told a client to exist, in an answer of    *)
(* any endpoint, exists under the id it was told: ids are made up before   *)
(* the store (service.go:552) and nothing is removed.  What an earlier     *)
(* process has told, though its answer may arrive now, need not exist.     *)
LearnedResolves == \A l \in learned : l.process = epoch => Exists(l.thing)

(* Over any number of restarts the writes to the audit file are those of   *)
(* the records of every process, each once and in the order of the         *)
(* executions: a new process goes on behind what the file holds, be it a   *)
(* line that the last one left unfinished (service.go:82, 645).            *)
AuditFileIsHistory ==
    AuditLogConfigured =>
        /\ Len(auditFile) = Len(History)
        /\ \A i \in DOMAIN auditFile : auditFile[i].record = History[i]

(* What a client may conclude from the end of its call (migclient's post,  *)
(* the adapter's postJSON): a response means one execution, recorded also  *)
(* when the process has been restarted since, an error of the gateway      *)
(* (MIG_TIMEOUT too) none, now and later, and anything else at most one,   *)
(* possibly later.                                                         *)
AnswerTellsExecution ==
    \A n \in DOMAIN results :
        /\ Cardinality(Executions(n)) <= 1
        /\ results[n] \in {"ok", "decode_failed"} => Executions(n) # {}
        /\ results[n] = "backend_error" => Executions(n) = {} /\ n \notin DOMAIN queue

(* A request as it arrives over the other binding, if it means the same    *)
(* there: numbers that fit the wire, and not the tenant whose name HTTP    *)
(* takes for its absence.                                                  *)
Portable(q) ==
    /\ q.op \in MigOps /\ q.decodes
    /\ q.head.deadline \in 0..(WireRange - 1)
    /\ Unknown \notin {q.head.tenant, Principal(q).tenant}
    /\ q.op = "heartbeat" => q.body.interval \in 0..(WireRange - 1)
    /\ q.op = "invoke" => q.body.capability # EmptyString

OtherBinding(q) ==
    LET name(b) == IF q.binding = "http" THEN bindingTypeToProto(b) ELSE bindingTypeFromProto(b)
        names   == [i \in DOMAIN q.body.bindings |-> name(q.body.bindings[i])]
    IN  [q EXCEPT !.binding = IF @ = "http" THEN "grpc" ELSE "http",
                  !.body = IF q.op # "hello" THEN @ ELSE [q.body EXCEPT !.bindings = names]]

Result(q) ==
    CASE q.op = "hello"     -> Hello(q)
      [] q.op = "discover"  -> Discover(q)
      [] q.op = "heartbeat" -> Heartbeat(q)
      [] q.op = "invoke"    -> Invoke(q)

(* The HTTP handlers and the gRPC server are written twice over one        *)
(* service (http.go:42-112, grpc_server.go:90-161): whatever the state, a  *)
(* request is refused by both with the same code or by neither, and then   *)
(* has the same result, tenant and deadline, and the code of an error      *)
(* survives the error frame of a stream (grpc_server.go:572).              *)
BindingsAgree ==
    \A n \in {m \in DOMAIN queue : Portable(queue[m])} :
        LET q == queue[n]  o == OtherBinding(q) IN
        /\ Refusal(o) = Refusal(q)
        /\ Refusal(q) = Granted =>
             /\ Result(o) = Result(q)
             /\ Answered(o, n) = Answered(q, n)
             /\ LET f == [head |-> Answered(q, n), kind |-> "error", payload |-> EmptyMap,
                          error |-> Result(q).code]
                IN  Result(q).code # Granted =>
                      streamFrameFromProto(streamFrameToProto(f))
                        = [f EXCEPT !.head.meta = EmptyMap]

(* The deadline a client asks for is the one its call is given, through    *)
(* the two conversions and Normalize (grpc_server.go:416-458,              *)
(* types.go:61), and as a duration it is positive and not cut off          *)
(* (service.go:272) for every number that fits the wire.                   *)
DeadlineKept ==
    \A n \in DOMAIN replies :
        replies[n].head # NoHead =>
          LET asked == waiting[n].head.deadline
              given == replies[n].head.deadline
          IN  /\ given = IF asked <= 0 THEN DefaultDeadline ELSE asked
              /\ given \in 0..(WireRange - 1) =>
                   /\ Budget(given) > 0
                   /\ Budget(given) = given * NanosPerMilli
=============================================================================
