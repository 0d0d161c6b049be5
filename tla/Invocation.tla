----------------------------- MODULE Invocation -----------------------------
(***************************************************************************)
(* Service.Invoke and the operations that share its state: Cancel,         *)
(* AddCapability, SetQuota, the audit log and Close (service.go).          *)
(*                                                                         *)
(* Every element of Calls is one goroutine that runs Invoke once (an HTTP  *)
(* handler, a gRPC handler, a frame of a stream, a NATS callback).  Invoke *)
(* has three parts: a critical section under the read lock that decides    *)
(* on the call and copies what it needs (239-264), the unlocked wait for a *)
(* worker goroutine or the deadline (272-294), and a critical section      *)
(* under the write lock that records a success (305-321).  Each part is    *)
(* one action; the calls interleave between the parts.                     *)
(***************************************************************************)
EXTENDS Envelope, Integers, FiniteSets

F == INSTANCE Functions

CONSTANTS
    Calls,                  \* goroutines, each running Invoke once
    Tenants,                \* tenant ids, as sequences of ":"-free segments
    CapabilityIDs,          \* capability ids, likewise
    Keys,                   \* idempotency keys, likewise
    MessageIDs,             \* message ids clients choose
    Payloads,               \* request payloads
    Scopes,                 \* authorization scopes
    Schemas,                \* schema URIs
    Requests,               \* the Invoke requests clients may send
    Descriptors,            \* the descriptors AddCapability may be given
    BootstrapCapabilities,  \* what bootstrapDefaults registers, by id
    QuotaRequests,          \* the requests SetQuota may be given
    CancelRequests,         \* the requests Cancel may be given
    MaxRejectedCancels,     \* bound on the malformed Cancel calls
    AuditLogConfigured,     \* is AuditLogPath set?
    AuditWriteMayFail       \* may a write to the audit file fail?

(* The id newMessageID makes up for call r: nobody else has it. *)
Generated(r) == <<"generated", r>>

AllMessageIDs == MessageIDs \cup {Generated(r) : r \in Calls}

(* CapabilityDescriptor, with the fields Invoke and AddCapability read. *)
CapabilityDescriptor ==
    [id : CapabilityIDs, version : STRING, inputSchema : Schemas \cup {""},
     outputSchema : Schemas \cup {""}, scopes : SUBSET Scopes, delivery : STRING]

Principal == [authenticated : BOOLEAN, scopes : SUBSET Scopes]

InvokeRequest ==
    [head : Header(STRING, MessageIDs \cup {EmptyString},
                   Tenants \cup {EmptyString}, Keys \cup {EmptyString}),
     path : CapabilityIDs \cup {EmptyString},
     capability : CapabilityIDs \cup {EmptyString},
     payload : Payloads, principal : Principal]

QuotaRequest == [tenant : Tenants \cup {EmptyString}, max : Int]

CancelRequest ==
    [head : Header(STRING, MessageIDs \cup {EmptyString},
                   Tenants \cup {EmptyString}, {EmptyString}),
     path : AllMessageIDs \cup {EmptyString},
     target : AllMessageIDs \cup {EmptyString}]

ASSUME CallsFinite == IsFiniteSet(Calls)
ASSUME NamesFinite == IsFiniteSet(Tenants) /\ IsFiniteSet(CapabilityIDs)
ASSUME NamesNotEmpty ==
    EmptyString \notin Tenants \cup CapabilityIDs \cup Keys \cup AllMessageIDs
ASSUME RequestsTyped ==
    /\ Requests \subseteq InvokeRequest
    /\ Descriptors \subseteq CapabilityDescriptor
    /\ QuotaRequests \subseteq QuotaRequest
    /\ CancelRequests \subseteq CancelRequest
ASSUME BootstrapTyped ==
    /\ DOMAIN BootstrapCapabilities \subseteq CapabilityIDs
    /\ BootstrapCapabilities
         \in [DOMAIN BootstrapCapabilities -> CapabilityDescriptor]
ASSUME SwitchesTyped ==
    /\ MaxRejectedCancels \in Nat
    /\ AuditLogConfigured \in BOOLEAN
    /\ AuditWriteMayFail \in BOOLEAN

ErrorCodes == {ErrorInvalidRequest, ErrorUnsupportedCapability,
               ErrorForbidden, ErrorTimeout, ErrorRateLimited}
Operations == {"invoke", "cancel"}

VARIABLES
    capabilities,           \* s.capabilities
    idempotency,            \* s.idempotency
    cancelled,              \* the keys of s.cancelled; never shrinks
    quotas,                 \* s.quotas, 0 where the map has no entry
    tenantInvocations,      \* s.tenantInvocations
    capabilityInvocations,  \* s.capabilityInvocations
    audit,                  \* s.audit
    auditLog,               \* s.auditLog # nil
    sink,                   \* the writes to the audit file
    requestErrors,          \* the mig_request_errors counter of metrics
    pc,                     \* where each call is
    inv,                    \* the local variables of the calls admitted
    worker,                 \* the worker goroutine of each call
    reply,                  \* what Invoke returned
    overlap                 \* history: the calls each call was in flight with

service == <<capabilities, cancelled, quotas, auditLog>>
books   == <<idempotency, tenantInvocations, capabilityInvocations, audit, sink>>
vars    == <<service, books, requestErrors, pc, inv, worker, reply, overlap>>

-----------------------------------------------------------------------------
(* The decision Invoke takes under the read lock. *)

(* The capability of the path, or of the body when the path has none. *)
RequestedCapability(q) ==
    IF q.path = EmptyString THEN q.capability ELSE q.path

(* Mutant of idKey: the capability is left out. *)
idKeyNoCapability(tenant, capability, key) == tenant \o key

(* fmt.Sprintf("%s:%s:%s", tenant, capability, key) *)
idKey(tenant, capability, key) == tenant \o capability \o key

CallKey(call) == idKey(call.head.tenant, call.capability, call.head.key)

(* What Invoke copies while it holds the read lock. *)
Local(r, q) ==
    LET h == Normalize(q.head, Generated(r))
        c == RequestedCapability(q)
    IN  [head |-> h, capability |-> c, payload |-> q.payload,
         desc |-> capabilities[c], quota |-> quotas[h.tenant],
         used |-> tenantInvocations[h.tenant]]

Malformed(q) == ~Normalizable(q.head) \/ RequestedCapability(q) = EmptyString

(* Mutant of Cached: a repetition must also repeat the payload. *)
CachedSamePayload(call) ==
    /\ call.head.key # EmptyString
    /\ CallKey(call) \in DOMAIN idempotency
    /\ idempotency[CallKey(call)].echo = call.payload

Cached(call) == call.head.key # EmptyString /\ CallKey(call) \in DOMAIN idempotency

(* Mutant of OverQuota: off by one. *)
OverQuotaStrict(call) == call.quota > 0 /\ call.used > call.quota

OverQuota(call) == call.quota > 0 /\ call.used >= call.quota

(* The early returns, in the order of the code. *)
Verdict(r, q) ==
    IF Malformed(q) THEN ErrorInvalidRequest
    ELSE IF RequestedCapability(q) \notin DOMAIN capabilities
      THEN ErrorUnsupportedCapability
    ELSE LET call == Local(r, q) IN
      IF ~HasAnyScope(q.principal, call.desc.scopes) THEN ErrorForbidden
      ELSE IF call.head.messageID \in cancelled THEN ErrorTimeout
      ELSE IF Cached(call) THEN "replay"
      ELSE IF OverQuota(call) THEN ErrorRateLimited
      ELSE "admit"

-----------------------------------------------------------------------------
(* Invoke *)

Live == {r \in Calls : pc[r] = "inflight"}

Init ==
    /\ capabilities = BootstrapCapabilities
    /\ idempotency = <<>>
    /\ cancelled = {}
    /\ quotas = [t \in Tenants |-> 0]
    /\ tenantInvocations = [t \in Tenants |-> 0]
    /\ capabilityInvocations = [c \in CapabilityIDs |-> 0]
    /\ audit = <<>>
    /\ auditLog = AuditLogConfigured
    /\ sink = <<>>
    /\ requestErrors = [o \in Operations |-> [e \in ErrorCodes |-> 0]]
    /\ pc = [r \in Calls |-> "idle"]
    /\ inv = <<>>
    /\ worker = [r \in Calls |-> "none"]
    /\ reply = <<>>
    /\ overlap = [r \in Calls |-> {}]

recordError(code, operation) ==
    requestErrors' = [requestErrors EXCEPT ![operation][code] = @ + 1]

(* Invoke returns an error; nothing but the error counter remembers it. *)
Fail(r, code) ==
    /\ recordError(code, "invoke")
    /\ pc' = [pc EXCEPT ![r] = "failed"]
    /\ reply' = Put(reply, r, [code |-> code])

InvokeReject(r, q) ==
    /\ pc[r] = "idle"
    /\ Verdict(r, q) \in ErrorCodes
    /\ Fail(r, Verdict(r, q))
    /\ UNCHANGED <<service, books, inv, worker, overlap>>

(* The key has been recorded: the recorded response under a new header. *)
InvokeReplay(r, q) ==
    /\ pc[r] = "idle"
    /\ Verdict(r, q) = "replay"
    /\ LET call == Local(r, q) IN
         /\ inv' = Put(inv, r, call)
         /\ reply' = Put(reply, r,
                         [idempotency[CallKey(call)] EXCEPT !.head = call.head])
    /\ pc' = [pc EXCEPT ![r] = "replayed"]
    /\ UNCHANGED <<service, books, requestErrors, worker, overlap>>

(* The call is let in and starts its worker.  overlap is updated on both   *)
(* sides: r and every call in flight have now met.                         *)
InvokeAdmit(r, q) ==
    /\ pc[r] = "idle"
    /\ Verdict(r, q) = "admit"
    /\ inv' = Put(inv, r, Local(r, q))
    /\ pc' = [pc EXCEPT ![r] = "inflight"]
    /\ worker' = [worker EXCEPT ![r] = "running"]
    /\ overlap' = [x \in Calls |-> IF x = r THEN Live
                                   ELSE IF x \in Live THEN overlap[x] \cup {r}
                                   ELSE overlap[x]]
    /\ UNCHANGED <<service, books, requestErrors, reply>>

(* Mutant of Work: an unbuffered channel, the send waits for the call. *)
WorkUnbuffered(r) ==
    /\ worker[r] = "running"
    /\ pc[r] = "inflight"
    /\ worker' = [worker EXCEPT ![r] = "sent"]
    /\ UNCHANGED <<service, books, requestErrors, pc, inv, reply, overlap>>

(* The worker sends its result.  The channel holds one result, so the send *)
(* never waits for the call, which may have returned on its deadline.      *)
Work(r) ==
    /\ worker[r] = "running"
    /\ worker' = [worker EXCEPT ![r] = "sent"]
    /\ UNCHANGED <<service, books, requestErrors, pc, inv, reply, overlap>>

(* The InvokeResponse a call builds from what it copied at admission. *)
Response(call) ==
    [head |-> call.head, capability |-> call.capability, echo |-> call.payload,
     delivery |-> call.desc.delivery, schema |-> call.desc.outputSchema]

AuditRecord(call) ==
    [tenant |-> call.head.tenant, capability |-> call.capability,
     messageID |-> call.head.messageID]

(* Mutant of writeAuditLogLocked: a write that fails is repeated. *)
writeAuditLogTwice(record) ==
    \/ auditLog /\ sink' = Append(sink, Written(record, "all"))
    \/ /\ auditLog /\ AuditWriteMayFail
       /\ sink' = sink \o <<Written(record, "some"), Written(record, "all")>>
    \/ ~auditLog /\ sink' = sink

(* Nothing is written to a nil log, and the error of a write is ignored,   *)
(* also when a part of the line is in the file.                            *)
writeAuditLogLocked(record) ==
    \/ auditLog /\ sink' = Append(sink, Written(record, "all"))
    \/ /\ auditLog /\ AuditWriteMayFail
       /\ \E part \in {"some", "none"} : sink' = Append(sink, Written(record, part))
    \/ ~auditLog /\ sink' = sink

(* Mutant of CountInvocation: counts on from the copy of admission. *)
CountInvocationStale(call) ==
    /\ tenantInvocations' = [tenantInvocations EXCEPT ![call.head.tenant] = call.used + 1]
    /\ capabilityInvocations' = [capabilityInvocations EXCEPT ![call.capability] = @ + 1]

CountInvocation(call) ==
    /\ tenantInvocations' = [tenantInvocations EXCEPT ![call.head.tenant] = @ + 1]
    /\ capabilityInvocations' = [capabilityInvocations EXCEPT ![call.capability] = @ + 1]

(* What Invoke does under the write lock with the worker's result. *)
RecordSuccess(r, call) ==
    /\ idempotency' = IF call.head.key = EmptyString THEN idempotency
                      ELSE Put(idempotency, CallKey(call), Response(call))
    /\ CountInvocation(call)
    /\ audit' = Append(audit, AuditRecord(call))
    /\ writeAuditLogLocked(AuditRecord(call))
    /\ reply' = Put(reply, r, Response(call))

(* Mutant of InvokeCommit: a result that comes after the deadline counts. *)
InvokeCommitLate(r) ==
    /\ worker[r] = "sent"
    /\ worker' = [worker EXCEPT ![r] = "received"]
    /\ pc' = [pc EXCEPT ![r] = "executed"]
    /\ RecordSuccess(r, inv[r])
    /\ UNCHANGED <<service, requestErrors, inv, overlap>>

(* The result arrives first: the success is recorded and returned. *)
InvokeCommit(r) ==
    /\ pc[r] = "inflight"
    /\ worker[r] = "sent"
    /\ worker' = [worker EXCEPT ![r] = "received"]
    /\ pc' = [pc EXCEPT ![r] = "executed"]
    /\ RecordSuccess(r, inv[r])
    /\ UNCHANGED <<service, requestErrors, inv, overlap>>

(* Mutant of InvokeTimeout: the timeout is not counted. *)
InvokeTimeoutUncounted(r) ==
    /\ pc[r] = "inflight"
    /\ pc' = [pc EXCEPT ![r] = "failed"]
    /\ reply' = Put(reply, r, [code |-> ErrorTimeout])
    /\ UNCHANGED <<service, books, requestErrors, inv, worker, overlap>>

(* The deadline expires, or the client's context is cancelled, first (or   *)
(* at the same time: select then chooses freely).                          *)
InvokeTimeout(r) ==
    /\ pc[r] = "inflight"
    /\ Fail(r, ErrorTimeout)
    /\ UNCHANGED <<service, books, inv, worker, overlap>>

-----------------------------------------------------------------------------
(* The other operations *)

CancelTarget(q) == IF q.path = EmptyString THEN q.target ELSE q.path

CancelValid(q) == Normalizable(q.head) /\ CancelTarget(q) # EmptyString

Cancel(q) ==
    /\ CancelValid(q)
    /\ cancelled' = cancelled \cup {CancelTarget(q)}
    /\ UNCHANGED <<capabilities, quotas, auditLog, books, requestErrors, pc, inv,
                   worker, reply, overlap>>

CancelReject(q) ==
    /\ ~CancelValid(q)
    /\ requestErrors["cancel"][ErrorInvalidRequest] < MaxRejectedCancels
    /\ recordError(ErrorInvalidRequest, "cancel")
    /\ UNCHANGED <<service, books, pc, inv, worker, reply, overlap>>

(* An invalid descriptor is refused without any change. *)
AddCapability(d) ==
    /\ d.version # "" /\ d.inputSchema # "" /\ d.outputSchema # ""
    /\ capabilities' = Put(capabilities, d.id, d)
    /\ UNCHANGED <<cancelled, quotas, auditLog, books, requestErrors, pc, inv,
                   worker, reply, overlap>>

(* Mutant of SetQuota: any limit is accepted. *)
SetQuotaUnchecked(q) ==
    /\ q.tenant # EmptyString
    /\ quotas' = [quotas EXCEPT ![q.tenant] = q.max]
    /\ UNCHANGED <<capabilities, cancelled, auditLog, books, requestErrors, pc, inv,
                   worker, reply, overlap>>

(* So is an invalid quota: a limit is positive, which lets 0 stand for a   *)
(* tenant without one.                                                     *)
SetQuota(q) ==
    /\ q.tenant # EmptyString
    /\ q.max > 0
    /\ quotas' = [quotas EXCEPT ![q.tenant] = q.max]
    /\ UNCHANGED <<capabilities, cancelled, auditLog, books, requestErrors, pc, inv,
                   worker, reply, overlap>>

(* The part of Close that concerns invocations: later writes are dropped. *)
Close ==
    /\ auditLog
    /\ auditLog' = FALSE
    /\ UNCHANGED <<capabilities, cancelled, quotas, books, requestErrors, pc, inv,
                   worker, reply, overlap>>

Invoke(r) ==
    \/ \E q \in Requests : InvokeReject(r, q) \/ InvokeReplay(r, q) \/ InvokeAdmit(r, q)
    \/ Work(r)
    \/ InvokeCommit(r)
    \/ InvokeTimeout(r)

Next ==
    \/ \E r \in Calls : Invoke(r)
    \/ \E q \in CancelRequests : Cancel(q) \/ CancelReject(q)
    \/ \E d \in Descriptors : AddCapability(d)
    \/ \E q \in QuotaRequests : SetQuota(q)
    \/ Close

Spec == Init /\ [][Next]_vars

(* The Go scheduler runs every runnable goroutine, and a deadline is a     *)
(* timer: a worker that can send sends, and a call that waits either gets  *)
(* the result or times out.  Nothing forces a client to call.              *)
FairSpec ==
    /\ Spec
    /\ \A r \in Calls : WF_vars(Work(r)) /\ WF_vars(InvokeCommit(r) \/ InvokeTimeout(r))

-----------------------------------------------------------------------------
(* Properties *)

Executed == {r \in Calls : pc[r] = "executed"}

ResponseSet ==
    [head : Header({MIGVersion}, AllMessageIDs, Tenants, Keys \cup {EmptyString}),
     capability : CapabilityIDs, echo : Payloads, delivery : STRING,
     schema : Schemas \cup {""}]

ErrorSet == [code : ErrorCodes]

CallSet ==
    [head : Header({MIGVersion}, AllMessageIDs, Tenants, Keys \cup {EmptyString}),
     capability : CapabilityIDs, payload : Payloads, desc : CapabilityDescriptor,
     quota : Nat, used : Nat]

AuditSet ==
    [tenant : Tenants, capability : CapabilityIDs, messageID : AllMessageIDs]

CapabilitiesOK ==
    /\ DOMAIN capabilities \subseteq CapabilityIDs
    /\ capabilities \in [DOMAIN capabilities -> CapabilityDescriptor]

BooksOK ==
    /\ idempotency \in [DOMAIN idempotency -> ResponseSet]
    /\ tenantInvocations \in [Tenants -> Nat]
    /\ capabilityInvocations \in [CapabilityIDs -> Nat]
    /\ audit \in Seq(AuditSet)
    /\ sink \in Seq([record : AuditSet, part : WriteParts])

CallsOK ==
    /\ pc \in [Calls -> {"idle", "inflight", "executed", "replayed", "failed"}]
    /\ worker \in [Calls -> {"none", "running", "sent", "received"}]
    /\ DOMAIN inv \subseteq Calls
    /\ inv \in [DOMAIN inv -> CallSet]
    /\ \A r \in Calls :
         pc[r] \in {"inflight", "executed", "replayed"} => r \in DOMAIN inv
    /\ DOMAIN reply = {r \in Calls : pc[r] \in {"executed", "replayed", "failed"}}
    /\ \A r \in DOMAIN reply :
         \/ pc[r] = "failed" /\ reply[r] \in ErrorSet
         \/ pc[r] # "failed" /\ reply[r] \in ResponseSet
    /\ overlap \in [Calls -> SUBSET Calls]

(* Every variable has the type of the Go value it stands for; in           *)
(* particular a stored quota is positive (SetQuota refuses others), a call *)
(* past admission has its locals, and a call has returned exactly when it  *)
(* is no longer idle or in flight, an error or a response by its outcome.  *)
TypeOK ==
    /\ CapabilitiesOK
    /\ cancelled \subseteq AllMessageIDs
    /\ quotas \in [Tenants -> Nat]
    /\ auditLog \in BOOLEAN
    /\ requestErrors \in [Operations -> [ErrorCodes -> Nat]]
    /\ BooksOK
    /\ CallsOK

(* The answer of Usage: copies of the two maps, and the sum of the second. *)
Usage ==
    [tenant |-> tenantInvocations, capability |-> capabilityInvocations,
     total |-> F!SumFunction(capabilityInvocations)]

(* The answer of AuditExport: everything for an empty tenant, else the     *)
(* result of a loop over the records.                                      *)
AuditExport(t) ==
    LET out[n \in 0..Len(audit)] ==
          IF n = 0 THEN <<>>
          ELSE IF audit[n].tenant = t THEN Append(out[n - 1], audit[n])
          ELSE out[n - 1]
    IN  IF t = EmptyString THEN audit ELSE out[Len(audit)]

(* What an operator reads from /cloud/v0.1/usage and from                  *)
(* /pro/v0.1/audit/export, two copies of different maps taken at any       *)
(* moment (531-546, 595-609), tells the same story: the figure of a tenant *)
(* is the length of its export, the figures of the tenants and of the      *)
(* capabilities both add up to the length of the whole.                    *)
UsageMatchesAudit ==
    /\ \A t \in Tenants : Usage.tenant[t] = Len(AuditExport(t))
    /\ \A c \in CapabilityIDs :
         Usage.capability[c] = Cardinality({i \in DOMAIN audit : audit[i].capability = c})
    /\ Usage.total = Len(AuditExport(EmptyString))
    /\ Usage.total = F!SumFunction(Usage.tenant)

(* Every way Invoke can return is booked once: an execution by one audit   *)
(* record, an error by one tick of the counter of its code, also when the  *)
(* worker's result and the deadline race; a replay is not billed again.    *)
OutcomesBooked ==
    /\ Len(audit) = Cardinality(Executed)
    /\ \A e \in ErrorCodes :
         requestErrors["invoke"][e]
           = Cardinality({r \in Calls : pc[r] = "failed" /\ reply[r].code = e})

(* Two calls that are one idempotent call: same tenant, capability, key. *)
SameCall(a, b) ==
    /\ a.head.key # EmptyString
    /\ a.head.key = b.head.key
    /\ a.head.tenant = b.head.tenant
    /\ a.capability = b.capability

(* The idempotency cache is looked up at admission and filled at the end,  *)
(* so a repeated call can execute twice, but only if the two were in       *)
(* flight together: a retry after the first returned is never executed.    *)
DuplicatesOverlap ==
    \A r1, r2 \in Executed :
        r1 # r2 /\ SameCall(inv[r1], inv[r2]) => r2 \in overlap[r1]

(* The quota is compared with the usage at admission and the usage grows   *)
(* at the end, so a tenant can pass its quota, but only by the calls of    *)
(* the same tenant that were in flight together with the one that passes.  *)
QuotaSlack ==
    \A r \in Live :
        LET t == inv[r].head.tenant
        IN  inv[r].quota > 0 =>
              tenantInvocations[t] < inv[r].quota
                + Cardinality({x \in overlap[r] \cap Executed : inv[x].head.tenant = t})

(* A replayed response is, but for its header, the response of a call that *)
(* executed for the same tenant, capability and key, whatever was re-      *)
(* registered, timed out or executed twice in between.                     *)
ReplayIsFaithful ==
    \A r \in Calls : pc[r] = "replayed" =>
        \E x \in Executed :
            /\ SameCall(inv[r], inv[x])
            /\ reply[r] = [reply[x] EXCEPT !.head = inv[r].head]

(* Whatever writes fail, with nothing or a part of the line in the file    *)
(* (637-646), and however the calls that end interleave with each other    *)
(* and with Close: the writes to the audit file are those of the records   *)
(* of the audit log, each once and in its order, without a gap until the   *)
(* file is closed, and there are none after that.                          *)
SinkMirrorsAudit ==
    /\ Len(sink) <= Len(audit)
    /\ auditLog => Len(sink) = Len(audit)
    /\ \A i \in DOMAIN sink : sink[i].record = audit[i]

(* Invoke implements the metering promise. *)
Ledger == INSTANCE UsageLedger WITH
    Entries <- AuditSet, ledger <- audit, usage <- tenantInvocations,
    answered <- DOMAIN reply

(* Every call is answered once and billed once or not at all, in one step  *)
(* with its answer, whatever the interleaving (UsageLedger!Spec).          *)
MeteringRefines == Ledger!Spec

(* A call that was let in returns, and its worker goroutine ends, also     *)
(* when the call has returned on its deadline and nobody reads the result. *)
CallsReturn ==
    \A r \in Calls : pc[r] = "inflight" ~>
        (r \in DOMAIN reply /\ worker[r] \in {"sent", "received"})

-----------------------------------------------------------------------------
(* What the documentation says, and the code does not do *)

(* "header.idempotency_key deduplicates repeated calls per tenant +        *)
(* capability + key" (USER-GUIDE.md): of the calls with one key at most    *)
(* one executes.                                                           *)
AtMostOnceExecution ==
    \A r1, r2 \in Executed : r1 # r2 => ~SameCall(inv[r1], inv[r2])

(* The same sentence, read as what the key identifies: a response Invoke   *)
(* returns is a response of the capability that was called.                *)
ResponseMatchesCapability ==
    \A r \in Calls :
        pc[r] \in {"executed", "replayed"} => reply[r].capability = inv[r].capability

(* "Each successful invoke appends one JSON line with actor, tenant,       *)
(* capability, outcome, timestamp, and message ID" (USER-GUIDE.md): the    *)
(* file has a line of its own for every record of the audit log.           *)
EachInvokeHasALine ==
    AuditLogConfigured =>
        \A i \in DOMAIN audit : i \in DOMAIN sink /\ LineOfItsOwn(sink, i)

(* "If cancellation succeeds, server MUST terminate work promptly"         *)
(* (MIG-0001.md): a call whose id has been cancelled while it was in       *)
(* flight does not execute.                                                *)
CancelTerminatesInFlight ==
    [][\A r \in Live : inv[r].head.messageID \in cancelled => pc'[r] # "executed"]_vars
=============================================================================
