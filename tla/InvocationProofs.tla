-------------------------- MODULE InvocationProofs --------------------------
(* Theorems about Invocation, for every value of its constants. *)
EXTENDS Invocation, SequenceTheorems, TLAPS

-----------------------------------------------------------------------------
(* Go maps and the decision of Invoke *)

(* Assignment to a map sets one key and leaves the others. *)
LEMMA PutFacts ==
    ASSUME NEW m, NEW k, NEW v
    PROVE  /\ DOMAIN Put(m, k, v) = DOMAIN m \cup {k}
           /\ Put(m, k, v)[k] = v
           /\ \A x \in DOMAIN m : x # k => Put(m, k, v)[x] = m[x]
  BY DEF Put

(* Assignment of a value of the right type keeps a map's type. *)
LEMMA PutType ==
    ASSUME NEW S, NEW m, m \in [DOMAIN m -> S], NEW k, NEW v \in S
    PROVE  Put(m, k, v) \in [DOMAIN Put(m, k, v) -> S]
  BY DEF Put

(* A verdict other than an error means that the early returns were passed. *)
LEMMA VerdictPassed ==
    ASSUME NEW r \in Calls, NEW q \in Requests, Verdict(r, q) \in {"replay", "admit"}
    PROVE  /\ ~Malformed(q)
           /\ RequestedCapability(q) \in DOMAIN capabilities
           /\ Verdict(r, q) = "replay" <=> Cached(Local(r, q))
           /\ Verdict(r, q) = "admit" => ~OverQuota(Local(r, q))
           /\ Local(r, q).head.messageID \notin cancelled
  BY DEF Verdict, ErrorInvalidRequest, ErrorUnsupportedCapability, ErrorForbidden,
         ErrorTimeout, ErrorRateLimited

(* What a call that passed the early returns copies is well typed. *)
LEMMA LocalType ==
    ASSUME TypeOK, NEW r \in Calls, NEW q \in Requests,
           ~Malformed(q), RequestedCapability(q) \in DOMAIN capabilities
    PROVE  Local(r, q) \in CallSet
  <1> DEFINE h == Normalize(q.head, Generated(r))
             c == RequestedCapability(q)
  <1>1. q \in InvokeRequest
    BY RequestsTyped
  <1>2. h \in Header({MIGVersion}, AllMessageIDs, Tenants, Keys \cup {EmptyString})
    BY <1>1 DEF Malformed, Normalizable, Normalize, Header, InvokeRequest,
                AllMessageIDs
  <1>3. c \in CapabilityIDs /\ capabilities[c] \in CapabilityDescriptor
    BY DEF TypeOK, CapabilitiesOK
  <1>4. h.tenant \in Tenants
    BY <1>2 DEF Header
  <1>5. quotas[h.tenant] \in Nat /\ tenantInvocations[h.tenant] \in Nat
    BY <1>4 DEF TypeOK, BooksOK
  <1>6. q.payload \in Payloads
    BY <1>1 DEF InvokeRequest
  <1> QED
    BY <1>2, <1>3, <1>5, <1>6 DEF Local, CallSet

(* What a call returns and what it leaves in the audit log. *)
LEMMA ResponseType ==
    ASSUME NEW call \in CallSet
    PROVE  Response(call) \in ResponseSet /\ AuditRecord(call) \in AuditSet
  BY DEF CallSet, Response, ResponseSet, AuditRecord, AuditSet, CapabilityDescriptor,
         Header

(* A call that is answered gets one reply of the kind of its outcome. *)
LEMMA AnswerType ==
    ASSUME TypeOK, NEW r \in Calls,
           NEW outcome \in {"executed", "replayed", "failed"}, NEW v,
           \/ outcome = "failed" /\ v \in ErrorSet
           \/ outcome # "failed" /\ v \in ResponseSet,
           pc' = [pc EXCEPT ![r] = outcome],
           reply' = Put(reply, r, v)
    PROVE  /\ pc' \in [Calls -> {"idle", "inflight", "executed", "replayed", "failed"}]
           /\ DOMAIN reply' = {x \in Calls : pc'[x] \in {"executed", "replayed", "failed"}}
           /\ \A x \in DOMAIN reply' :
                \/ pc'[x] = "failed" /\ reply'[x] \in ErrorSet
                \/ pc'[x] # "failed" /\ reply'[x] \in ResponseSet
  <1>1. pc' \in [Calls -> {"idle", "inflight", "executed", "replayed", "failed"}]
    BY DEF TypeOK, CallsOK
  <1>2. /\ DOMAIN reply' = DOMAIN reply \cup {r}
        /\ reply'[r] = v
        /\ \A x \in DOMAIN reply : x # r => reply'[x] = reply[x]
    BY DEF Put
  <1>3. /\ pc'[r] = outcome
        /\ \A x \in Calls : x # r => pc'[x] = pc[x]
    BY DEF TypeOK, CallsOK
  <1>4. /\ DOMAIN reply = {x \in Calls : pc[x] \in {"executed", "replayed", "failed"}}
        /\ \A x \in DOMAIN reply :
             \/ pc[x] = "failed" /\ reply[x] \in ErrorSet
             \/ pc[x] # "failed" /\ reply[x] \in ResponseSet
    BY DEF TypeOK, CallsOK
  <1>5. DOMAIN reply' = {x \in Calls : pc'[x] \in {"executed", "replayed", "failed"}}
    BY <1>2, <1>3, <1>4
  <1>6. \A x \in DOMAIN reply' :
          \/ pc'[x] = "failed" /\ reply'[x] \in ErrorSet
          \/ pc'[x] # "failed" /\ reply'[x] \in ResponseSet
    BY <1>2, <1>3, <1>4
  <1> QED BY <1>1, <1>5, <1>6

(* A failing call leaves counters, program counters and replies typed. *)
LEMMA FailType ==
    ASSUME TypeOK, NEW r \in Calls, NEW code \in ErrorCodes, Fail(r, code),
           UNCHANGED <<service, books, inv, worker, overlap>>
    PROVE  TypeOK'
  <1>1. requestErrors' \in [Operations -> [ErrorCodes -> Nat]]
    BY DEF TypeOK, Fail, recordError, Operations
  <1>2. [code |-> code] \in ErrorSet
    BY DEF ErrorSet
  <1>3. pc' = [pc EXCEPT ![r] = "failed"] /\ reply' = Put(reply, r, [code |-> code])
    BY DEF Fail
  <1>4. /\ pc' \in [Calls -> {"idle", "inflight", "executed", "replayed", "failed"}]
        /\ DOMAIN reply' = {x \in Calls : pc'[x] \in {"executed", "replayed", "failed"}}
        /\ \A x \in DOMAIN reply' :
             \/ pc'[x] = "failed" /\ reply'[x] \in ErrorSet
             \/ pc'[x] # "failed" /\ reply'[x] \in ResponseSet
    BY <1>2, <1>3, AnswerType
  <1>5. \A x \in Calls :
          pc'[x] \in {"inflight", "executed", "replayed"} => x \in DOMAIN inv
    BY <1>3 DEF TypeOK, CallsOK
  <1>6. CallsOK'
    BY <1>4, <1>5 DEF TypeOK, CallsOK
  <1> QED
    BY <1>1, <1>6 DEF TypeOK, CapabilitiesOK, BooksOK, service, books

(* A call that enters with well-typed locals keeps them with the others. *)
LEMMA EnterType ==
    ASSUME TypeOK, NEW r \in Calls, NEW call \in CallSet, inv' = Put(inv, r, call)
    PROVE  /\ DOMAIN inv' = DOMAIN inv \cup {r}
           /\ DOMAIN inv' \subseteq Calls
           /\ inv' \in [DOMAIN inv' -> CallSet]
  BY DEF TypeOK, CallsOK, Put

-----------------------------------------------------------------------------
(* Type correctness *)

(* Every step of a call keeps the types. *)
LEMMA InvokeKeepsTypes ==
    ASSUME TypeOK, NEW r \in Calls, Invoke(r)
    PROVE  TypeOK'
  <1>1. ASSUME NEW q \in Requests, InvokeReject(r, q)
        PROVE  TypeOK'
    BY <1>1, FailType DEF InvokeReject
  <1>2. ASSUME NEW q \in Requests, InvokeReplay(r, q)
        PROVE  TypeOK'
    <2> DEFINE call == Local(r, q)
               resp == [idempotency[CallKey(call)] EXCEPT !.head = call.head]
    <2>1. call \in CallSet /\ CallKey(call) \in DOMAIN idempotency
      BY <1>2, VerdictPassed, LocalType DEF InvokeReplay, Cached
    <2>2. resp \in ResponseSet
      BY <2>1 DEF TypeOK, BooksOK, ResponseSet, CallSet
    <2>3. /\ inv' = Put(inv, r, call)
          /\ reply' = Put(reply, r, resp)
          /\ pc' = [pc EXCEPT ![r] = "replayed"]
          /\ UNCHANGED <<service, books, requestErrors, worker, overlap>>
      BY <1>2 DEF InvokeReplay
    <2> HIDE DEF call, resp
    <2>4. /\ pc' \in [Calls -> {"idle", "inflight", "executed", "replayed", "failed"}]
          /\ DOMAIN reply' = {x \in Calls : pc'[x] \in {"executed", "replayed", "failed"}}
          /\ \A x \in DOMAIN reply' :
               \/ pc'[x] = "failed" /\ reply'[x] \in ErrorSet
               \/ pc'[x] # "failed" /\ reply'[x] \in ResponseSet
      BY <2>2, <2>3, AnswerType
    <2>5. /\ DOMAIN inv' = DOMAIN inv \cup {r}
          /\ DOMAIN inv' \subseteq Calls
          /\ inv' \in [DOMAIN inv' -> CallSet]
      BY <2>1, <2>3, EnterType
    <2>6. \A x \in Calls :
            pc'[x] \in {"inflight", "executed", "replayed"} => x \in DOMAIN inv'
      BY <2>3, <2>5 DEF TypeOK, CallsOK
    <2>7. CallsOK'
      BY <2>3, <2>4, <2>5, <2>6 DEF TypeOK, CallsOK
    <2> QED
      BY <2>3, <2>7 DEF TypeOK, CapabilitiesOK, BooksOK, service, books
  <1>3. ASSUME NEW q \in Requests, InvokeAdmit(r, q)
        PROVE  TypeOK'
    <2> DEFINE call == Local(r, q)
    <2>1. call \in CallSet
      BY <1>3, VerdictPassed, LocalType DEF InvokeAdmit
    <2>2. /\ pc[r] = "idle"
          /\ inv' = Put(inv, r, call)
          /\ pc' = [pc EXCEPT ![r] = "inflight"]
          /\ worker' = [worker EXCEPT ![r] = "running"]
          /\ UNCHANGED <<service, books, requestErrors, reply>>
      BY <1>3 DEF InvokeAdmit
    <2> HIDE DEF call
    <2>3. /\ DOMAIN inv' = DOMAIN inv \cup {r}
          /\ DOMAIN inv' \subseteq Calls
          /\ inv' \in [DOMAIN inv' -> CallSet]
      BY <2>1, <2>2, EnterType
    <2>4. overlap' \in [Calls -> SUBSET Calls]
      BY <1>3 DEF InvokeAdmit, Live, TypeOK, CallsOK
    <2>5. /\ pc' \in [Calls -> {"idle", "inflight", "executed", "replayed", "failed"}]
          /\ worker' \in [Calls -> {"none", "running", "sent", "received"}]
          /\ \A x \in Calls :
               pc'[x] \in {"inflight", "executed", "replayed"} => x \in DOMAIN inv'
      BY <2>2, <2>3 DEF TypeOK, CallsOK
    <2>6. /\ DOMAIN reply = {x \in Calls : pc'[x] \in {"executed", "replayed", "failed"}}
          /\ \A x \in DOMAIN reply :
               \/ pc'[x] = "failed" /\ reply[x] \in ErrorSet
               \/ pc'[x] # "failed" /\ reply[x] \in ResponseSet
      BY <2>2 DEF TypeOK, CallsOK
    <2>7. CallsOK'
      BY <2>2, <2>3, <2>4, <2>5, <2>6 DEF CallsOK
    <2> QED
      BY <2>2, <2>7 DEF TypeOK, CapabilitiesOK, BooksOK, service, books
  <1>4. CASE Work(r)
    BY <1>4 DEF Work, TypeOK, CapabilitiesOK, BooksOK, CallsOK, service, books
  <1>5. CASE InvokeCommit(r)
    <2> DEFINE call == inv[r]
    <2>1. call \in CallSet
      BY <1>5 DEF InvokeCommit, TypeOK, CallsOK
    <2>2. /\ pc' = [pc EXCEPT ![r] = "executed"]
          /\ worker' = [worker EXCEPT ![r] = "received"]
          /\ RecordSuccess(r, call)
          /\ UNCHANGED <<service, requestErrors, inv, overlap>>
          /\ pc[r] = "inflight"
      BY <1>5 DEF InvokeCommit
    <2> HIDE DEF call
    <2>3. Response(call) \in ResponseSet /\ AuditRecord(call) \in AuditSet
      BY <2>1, ResponseType
    <2>4. BooksOK'
      <3>1. idempotency' \in [DOMAIN idempotency' -> ResponseSet]
        BY <2>2, <2>3 DEF RecordSuccess, TypeOK, BooksOK, Put
      <3>2. /\ tenantInvocations' \in [Tenants -> Nat]
            /\ capabilityInvocations' \in [CapabilityIDs -> Nat]
        <4>1. call.head.tenant \in Tenants /\ call.capability \in CapabilityIDs
          BY <2>1 DEF CallSet, Header
        <4> QED
          BY <2>2, <4>1 DEF RecordSuccess, CountInvocation, TypeOK, BooksOK
      <3>3. audit' \in Seq(AuditSet)
        <4>1. audit \in Seq(AuditSet)
          BY DEF TypeOK, BooksOK
        <4> QED BY <2>2, <2>3, <4>1 DEF RecordSuccess
      <3>4. sink' \in Seq([record : AuditSet, part : WriteParts])
        <4>1. sink \in Seq([record : AuditSet, part : WriteParts])
          BY DEF TypeOK, BooksOK
        <4>2. \/ \E part \in WriteParts :
                   sink' = Append(sink, Written(AuditRecord(call), part))
              \/ sink' = sink
          BY <2>2 DEF RecordSuccess, writeAuditLogLocked, WriteParts
        <4>3. \A part \in WriteParts :
                Written(AuditRecord(call), part) \in [record : AuditSet, part : WriteParts]
          BY <2>3 DEF Written
        <4>4. CASE sink' = sink
          BY <4>1, <4>4
        <4>5. ASSUME NEW part \in WriteParts,
                     sink' = Append(sink, Written(AuditRecord(call), part))
              PROVE  sink' \in Seq([record : AuditSet, part : WriteParts])
          <5>1. Written(AuditRecord(call), part) \in [record : AuditSet, part : WriteParts]
            BY <4>3
          <5> QED BY <4>1, <4>5, <5>1, AppendProperties
        <4> QED BY <4>2, <4>4, <4>5
      <3> QED BY <3>1, <3>2, <3>3, <3>4 DEF BooksOK
    <2>5. reply' = Put(reply, r, Response(call))
      BY <2>2 DEF RecordSuccess
    <2>6. /\ pc' \in [Calls -> {"idle", "inflight", "executed", "replayed", "failed"}]
          /\ DOMAIN reply' = {x \in Calls : pc'[x] \in {"executed", "replayed", "failed"}}
          /\ \A x \in DOMAIN reply' :
               \/ pc'[x] = "failed" /\ reply'[x] \in ErrorSet
               \/ pc'[x] # "failed" /\ reply'[x] \in ResponseSet
      BY <2>2, <2>3, <2>5, AnswerType
    <2>7. /\ worker' \in [Calls -> {"none", "running", "sent", "received"}]
          /\ \A x \in Calls :
               pc'[x] \in {"inflight", "executed", "replayed"} => x \in DOMAIN inv'
      BY <2>2 DEF TypeOK, CallsOK
    <2>8. CallsOK'
      BY <2>2, <2>6, <2>7 DEF TypeOK, CallsOK
    <2> QED
      BY <2>2, <2>4, <2>8 DEF TypeOK, CapabilitiesOK, service
  <1>6. CASE InvokeTimeout(r)
    BY <1>6, FailType DEF InvokeTimeout, ErrorCodes
  <1> QED
    BY <1>1, <1>2, <1>3, <1>4, <1>5, <1>6 DEF Invoke

(* The operations that do not belong to a call keep the types. *)
LEMMA OthersKeepTypes ==
    ASSUME TypeOK
    PROVE  /\ \A q \in CancelRequests : Cancel(q) \/ CancelReject(q) => TypeOK'
           /\ \A d \in Descriptors : AddCapability(d) => TypeOK'
           /\ \A q \in QuotaRequests : SetQuota(q) => TypeOK'
           /\ Close => TypeOK'
  <1>1. ASSUME NEW q \in CancelRequests, Cancel(q)
        PROVE  TypeOK'
    <2>1. CancelTarget(q) \in AllMessageIDs
      BY <1>1, RequestsTyped DEF Cancel, CancelValid, CancelTarget, CancelRequest
    <2> QED
      BY <1>1, <2>1 DEF Cancel, TypeOK, CapabilitiesOK, BooksOK, CallsOK, books
  <1>2. ASSUME NEW q \in CancelRequests, CancelReject(q)
        PROVE  TypeOK'
    <2>1. requestErrors' \in [Operations -> [ErrorCodes -> Nat]]
      BY <1>2 DEF CancelReject, recordError, TypeOK, Operations, ErrorCodes
    <2> QED
      BY <1>2, <2>1 DEF CancelReject, TypeOK, CapabilitiesOK, BooksOK, CallsOK, service,
                        books
  <1>3. ASSUME NEW d \in Descriptors, AddCapability(d)
        PROVE  TypeOK'
    <2>1. d \in CapabilityDescriptor /\ d.id \in CapabilityIDs
      BY RequestsTyped DEF CapabilityDescriptor
    <2>2. CapabilitiesOK'
      BY <1>3, <2>1 DEF AddCapability, TypeOK, CapabilitiesOK, Put
    <2> QED
      BY <1>3, <2>2 DEF AddCapability, TypeOK, BooksOK, CallsOK, books
  <1>4. ASSUME NEW q \in QuotaRequests, SetQuota(q)
        PROVE  TypeOK'
    <2>1. q.max \in Nat /\ q.tenant \in Tenants
      BY <1>4, RequestsTyped DEF SetQuota, QuotaRequest
    <2> QED
      BY <1>4, <2>1 DEF SetQuota, TypeOK, CapabilitiesOK, BooksOK, CallsOK, books
  <1>5. ASSUME Close
        PROVE  TypeOK'
    BY <1>5 DEF Close, TypeOK, CapabilitiesOK, BooksOK, CallsOK, books
  <1> QED BY <1>1, <1>2, <1>3, <1>4, <1>5

(* Invoke, Cancel, SetQuota, AddCapability and Close keep every variable   *)
(* of the service in its type, whatever requests they are given.           *)
THEOREM TypeCorrect == Spec => []TypeOK
  <1>1. Init => TypeOK
    BY BootstrapTyped, SwitchesTyped
       DEF Init, TypeOK, CapabilitiesOK, BooksOK, CallsOK
  <1>2. TypeOK /\ [Next]_vars => TypeOK'
    <2> SUFFICES ASSUME TypeOK, [Next]_vars
                 PROVE  TypeOK'
      OBVIOUS
    <2>1. CASE Next
      BY <2>1, InvokeKeepsTypes, OthersKeepTypes DEF Next
    <2>2. CASE UNCHANGED vars
      BY <2>2 DEF vars, service, books, TypeOK, CapabilitiesOK, BooksOK, CallsOK
    <2> QED BY <2>1, <2>2
  <1> QED BY <1>1, <1>2, PTL DEF Spec

-----------------------------------------------------------------------------
(* Idempotent calls *)

Keyed(r) == inv[r].head.key # EmptyString

(* The inductive strengthening of DuplicatesOverlap.  It speaks of calls   *)
(* in flight as well as of executed ones, because a call has overlapped    *)
(* its duplicate before either is executed; and it says that the cache     *)
(* remembers every executed call, which is what keeps a later one out.     *)
DedupInv ==
    /\ \A r1, r2 \in Live \cup Executed :
         r1 # r2 /\ Keyed(r1) /\ Keyed(r2) /\ CallKey(inv[r1]) = CallKey(inv[r2])
           => r2 \in overlap[r1]
    /\ \A x \in Executed : Keyed(x) => CallKey(inv[x]) \in DOMAIN idempotency

(* A step that lets in no call, executes none and forgets no cached key    *)
(* keeps DedupInv.                                                         *)
LEMMA DedupFrame ==
    ASSUME DedupInv,
           Live' \subseteq Live, Executed' \subseteq Executed,
           \A x \in Live \cup Executed : inv'[x] = inv[x],
           idempotency' = idempotency, overlap' = overlap
    PROVE  DedupInv'
  BY DEF DedupInv, Keyed, CallKey

(* A call that is answered without executing leaves the others as they are. *)
LEMMA AnswerFrame ==
    ASSUME TypeOK, NEW r \in Calls, NEW outcome \in {"replayed", "failed"},
           pc' = [pc EXCEPT ![r] = outcome]
    PROVE  Live' \subseteq Live /\ Executed' \subseteq Executed
  BY DEF TypeOK, CallsOK, Live, Executed

(* Every step of a call keeps DedupInv. *)
LEMMA InvokeKeepsDedup ==
    ASSUME TypeOK, DedupInv, NEW r \in Calls, Invoke(r)
    PROVE  DedupInv'
  <1>1. ASSUME NEW q \in Requests, InvokeReject(r, q)
        PROVE  DedupInv'
    <2>1. pc' = [pc EXCEPT ![r] = "failed"] /\ UNCHANGED <<books, inv, overlap>>
      BY <1>1 DEF InvokeReject, Fail
    <2> QED BY <2>1, AnswerFrame, DedupFrame DEF books
  <1>2. ASSUME NEW q \in Requests, InvokeReplay(r, q)
        PROVE  DedupInv'
    <2>1. /\ pc[r] = "idle"
          /\ pc' = [pc EXCEPT ![r] = "replayed"]
          /\ inv' = Put(inv, r, Local(r, q))
          /\ UNCHANGED <<books, overlap>>
      BY <1>2 DEF InvokeReplay
    <2>2. \A x \in Live \cup Executed : inv'[x] = inv[x]
      <3> SUFFICES ASSUME NEW x \in Live \cup Executed
                   PROVE  inv'[x] = inv[x]
        OBVIOUS
      <3>1. x # r /\ x \in DOMAIN inv
        BY <2>1 DEF Live, Executed, TypeOK, CallsOK
      <3> QED BY <2>1, <3>1 DEF Put
    <2> QED BY <2>1, <2>2, AnswerFrame, DedupFrame DEF books
  <1>3. ASSUME NEW q \in Requests, InvokeAdmit(r, q)
        PROVE  DedupInv'
    <2> DEFINE call == Local(r, q)
    <2>1. ~Cached(call)
      BY <1>3, VerdictPassed DEF InvokeAdmit
    <2>2. /\ pc[r] = "idle"
          /\ inv' = Put(inv, r, call)
          /\ pc' = [pc EXCEPT ![r] = "inflight"]
          /\ overlap' = [x \in Calls |-> IF x = r THEN Live
                                         ELSE IF x \in Live THEN overlap[x] \cup {r}
                                         ELSE overlap[x]]
          /\ UNCHANGED <<books>>
      BY <1>3 DEF InvokeAdmit
    <2> HIDE DEF call
    <2>3. /\ Live' = Live \cup {r}
          /\ Executed' = Executed
          /\ r \notin Live \cup Executed
      BY <2>2 DEF Live, Executed, TypeOK, CallsOK
    <2>4. /\ inv'[r] = call
          /\ \A x \in Live \cup Executed : inv'[x] = inv[x]
      <3>1. Live \cup Executed \subseteq DOMAIN inv
        BY DEF Live, Executed, TypeOK, CallsOK
      <3> QED BY <2>2, <2>3, <3>1 DEF Put
    <2>5. ASSUME NEW x \in Executed, Keyed(x), call.head.key # EmptyString
          PROVE  CallKey(inv[x]) # CallKey(call)
      BY <2>1, <2>5 DEF DedupInv, Cached
    <2>6. ASSUME NEW r1 \in Live' \cup Executed', NEW r2 \in Live' \cup Executed',
                 r1 # r2, Keyed(r1)', Keyed(r2)', CallKey(inv'[r1]) = CallKey(inv'[r2])
          PROVE  r2 \in overlap'[r1]
      <3>0. Live \cup Executed \subseteq Calls
        BY DEF Live, Executed
      <3>1. CASE r1 = r
        <4>1. r2 \in Live
          BY <2>3, <2>4, <2>5, <2>6, <3>1 DEF Keyed
        <4> QED BY <2>2, <3>1, <4>1
      <3>2. CASE r2 = r
        <4>1. r1 \in Live
          BY <2>3, <2>4, <2>5, <2>6, <3>2 DEF Keyed
        <4> QED BY <2>2, <2>6, <3>0, <3>2, <4>1
      <3>3. CASE r1 # r /\ r2 # r
        <4>1. r1 \in Live \cup Executed /\ r2 \in Live \cup Executed
          BY <2>3, <3>3
        <4>2. r2 \in overlap[r1]
          BY <2>4, <2>6, <4>1 DEF DedupInv, Keyed
        <4> QED BY <2>2, <3>0, <3>3, <4>1, <4>2
      <3> QED BY <3>1, <3>2, <3>3
    <2>7. \A x \in Executed' : Keyed(x)' => CallKey(inv'[x]) \in DOMAIN idempotency'
      BY <2>2, <2>3, <2>4 DEF DedupInv, Keyed, books
    <2> QED BY <2>6, <2>7 DEF DedupInv, CallKey
  <1>4. CASE Work(r)
    BY <1>4, DedupFrame DEF Work, books, Live, Executed
  <1>5. CASE InvokeCommit(r)
    <2>1. /\ pc[r] = "inflight"
          /\ pc' = [pc EXCEPT ![r] = "executed"]
          /\ idempotency' = IF inv[r].head.key = EmptyString THEN idempotency
                            ELSE Put(idempotency, CallKey(inv[r]), Response(inv[r]))
          /\ UNCHANGED <<inv, overlap>>
      BY <1>5 DEF InvokeCommit, RecordSuccess
    <2>2. /\ Live' \cup Executed' = Live \cup Executed
          /\ Executed' = Executed \cup {r}
      BY <2>1 DEF Live, Executed, TypeOK, CallsOK
    <2>3. /\ DOMAIN idempotency \subseteq DOMAIN idempotency'
          /\ Keyed(r) => CallKey(inv[r]) \in DOMAIN idempotency'
      BY <2>1 DEF Put, Keyed
    <2>4. \A x \in Executed' : Keyed(x) => CallKey(inv[x]) \in DOMAIN idempotency'
      BY <2>2, <2>3 DEF DedupInv
    <2> QED BY <2>1, <2>2, <2>4 DEF DedupInv, Keyed, CallKey
  <1>6. CASE InvokeTimeout(r)
    <2>1. pc' = [pc EXCEPT ![r] = "failed"] /\ UNCHANGED <<books, inv, overlap>>
      BY <1>6 DEF InvokeTimeout, Fail
    <2> QED BY <2>1, AnswerFrame, DedupFrame DEF books
  <1> QED
    BY <1>1, <1>2, <1>3, <1>4, <1>5, <1>6 DEF Invoke

(* Two executions of one idempotent call overlapped in time, for any       *)
(* number of calls, tenants, capabilities and keys: Invoke never executes  *)
(* a retry that starts after the first execution has been recorded.        *)
THEOREM DuplicatesOnlyOverlap == Spec => []DuplicatesOverlap
  <1>1. Init => DedupInv
    BY DEF Init, DedupInv, Live, Executed
  <1>2. TypeOK /\ DedupInv /\ [Next]_vars => DedupInv'
    <2> SUFFICES ASSUME TypeOK, DedupInv, [Next]_vars
                 PROVE  DedupInv'
      OBVIOUS
    <2>1. ASSUME NEW r \in Calls, Invoke(r)
          PROVE  DedupInv'
      BY <2>1, InvokeKeepsDedup
    <2>2. CASE UNCHANGED <<idempotency, pc, inv, overlap>>
      BY <2>2, DedupFrame DEF Live, Executed
    <2>3. ASSUME NEW q \in CancelRequests, Cancel(q) \/ CancelReject(q)
          PROVE  DedupInv'
      BY <2>2, <2>3 DEF Cancel, CancelReject, books
    <2>4. ASSUME NEW d \in Descriptors, AddCapability(d)
          PROVE  DedupInv'
      BY <2>2, <2>4 DEF AddCapability, books
    <2>5. ASSUME NEW q \in QuotaRequests, SetQuota(q)
          PROVE  DedupInv'
      BY <2>2, <2>5 DEF SetQuota, books
    <2>6. CASE Close
      BY <2>2, <2>6 DEF Close, books
    <2>7. CASE UNCHANGED vars
      BY <2>2, <2>7 DEF vars, books
    <2> QED
      BY <2>1, <2>3, <2>4, <2>5, <2>6, <2>7 DEF Next
  <1>3. DedupInv => DuplicatesOverlap
    BY DEF DedupInv, DuplicatesOverlap, SameCall, Keyed, CallKey
  <1> QED BY <1>1, <1>2, <1>3, TypeCorrect, PTL DEF Spec

-----------------------------------------------------------------------------
(* Replayed responses *)

(* No two calls with different tenant, capability or key have one idKey. *)
Unambiguous ==
    \A t1, t2 \in Tenants, c1, c2 \in CapabilityIDs, i1, i2 \in Keys :
        idKey(t1, c1, i1) = idKey(t2, c2, i2) => t1 = t2 /\ c1 = c2 /\ i1 = i2

(* Identifiers without the separator ":" are unambiguous. *)
LEMMA NoSeparatorUnambiguous ==
    ASSUME \A x \in Tenants \cup CapabilityIDs \cup Keys : x \in Seq(STRING) /\ Len(x) = 1
    PROVE  Unambiguous
  <1> SUFFICES ASSUME NEW t1 \in Tenants, NEW t2 \in Tenants,
                      NEW c1 \in CapabilityIDs, NEW c2 \in CapabilityIDs,
                      NEW i1 \in Keys, NEW i2 \in Keys,
                      idKey(t1, c1, i1) = idKey(t2, c2, i2)
               PROVE  t1 = t2 /\ c1 = c2 /\ i1 = i2
    BY DEF Unambiguous
  <1>1. ASSUME NEW t \in Tenants, NEW c \in CapabilityIDs, NEW i \in Keys
        PROVE  /\ idKey(t, c, i)[1] = t[1]
               /\ idKey(t, c, i)[2] = c[1]
               /\ idKey(t, c, i)[3] = i[1]
    <2>1. /\ t \in Seq(STRING) /\ Len(t) = 1
          /\ c \in Seq(STRING) /\ Len(c) = 1
          /\ i \in Seq(STRING) /\ Len(i) = 1
      OBVIOUS
    <2>2. /\ t \o c \in Seq(STRING) /\ Len(t \o c) = 2
          /\ (t \o c)[1] = t[1] /\ (t \o c)[2] = c[1]
      BY <2>1, ConcatProperties
    <2>3. /\ (t \o c \o i)[1] = (t \o c)[1]
          /\ (t \o c \o i)[2] = (t \o c)[2]
          /\ (t \o c \o i)[3] = i[1]
      BY <2>1, <2>2, ConcatProperties
    <2> QED BY <2>2, <2>3 DEF idKey
  <1>2. t1[1] = t2[1] /\ c1[1] = c2[1] /\ i1[1] = i2[1]
    BY <1>1
  <1>3. ASSUME NEW x \in Seq(STRING), NEW y \in Seq(STRING),
               Len(x) = 1, Len(y) = 1, x[1] = y[1]
        PROVE  x = y
    BY <1>3
  <1> QED BY <1>2, <1>3

(* The inductive strengthening of ReplayIsFaithful: what the cache holds,  *)
(* and what has been returned from it, is the response of an executed call *)
(* with that key.                                                          *)
OriginInv ==
    /\ \A x \in Executed : reply[x] = Response(inv[x])
    /\ \A k \in DOMAIN idempotency : \E x \in Executed :
         Keyed(x) /\ CallKey(inv[x]) = k /\ idempotency[k] = Response(inv[x])
    /\ \A r \in Calls : pc[r] = "replayed" => \E x \in Executed :
         /\ Keyed(r) /\ Keyed(x) /\ CallKey(inv[x]) = CallKey(inv[r])
         /\ reply[r] = [Response(inv[x]) EXCEPT !.head = inv[r].head]

(* A step that executes, replays and forgets nothing keeps OriginInv. *)
LEMMA OriginFrame ==
    ASSUME OriginInv,
           Executed' = Executed,
           \A x \in Calls : pc'[x] = "replayed" => pc[x] = "replayed",
           \A x \in Calls : pc[x] \in {"executed", "replayed"}
                              => inv'[x] = inv[x] /\ reply'[x] = reply[x],
           idempotency' = idempotency
    PROVE  OriginInv'
  <1>1. \A x \in Executed : inv'[x] = inv[x] /\ reply'[x] = reply[x]
    BY DEF Executed
  <1>2. \A x \in Executed' : reply'[x] = Response(inv'[x])
    BY <1>1 DEF OriginInv
  <1>3. \A k \in DOMAIN idempotency' : \E x \in Executed' :
          Keyed(x)' /\ CallKey(inv'[x]) = k /\ idempotency'[k] = Response(inv'[x])
    BY <1>1 DEF OriginInv, Keyed
  <1>4. ASSUME NEW r \in Calls, pc'[r] = "replayed"
        PROVE  \E x \in Executed' :
                 /\ Keyed(r)' /\ Keyed(x)' /\ CallKey(inv'[x]) = CallKey(inv'[r])
                 /\ reply'[r] = [Response(inv'[x]) EXCEPT !.head = inv'[r].head]
    <2>1. PICK x \in Executed :
            /\ Keyed(r) /\ Keyed(x) /\ CallKey(inv[x]) = CallKey(inv[r])
            /\ reply[r] = [Response(inv[x]) EXCEPT !.head = inv[r].head]
      BY <1>4 DEF OriginInv
    <2>2. inv'[r] = inv[r] /\ reply'[r] = reply[r] /\ inv'[x] = inv[x]
      BY <1>1, <1>4
    <2> QED BY <2>1, <2>2 DEF Keyed
  <1> QED BY <1>2, <1>3, <1>4 DEF OriginInv, Response, CallKey

(* A failing call keeps OriginInv. *)
LEMMA FailKeepsOrigin ==
    ASSUME TypeOK, OriginInv, NEW r \in Calls, NEW code,
           pc[r] \in {"idle", "inflight"}, Fail(r, code), UNCHANGED <<books, inv>>
    PROVE  OriginInv'
  <1>1. /\ pc' = [pc EXCEPT ![r] = "failed"]
        /\ reply' = Put(reply, r, [code |-> code])
    BY DEF Fail
  <1>2. \A x \in Calls : pc[x] \in {"executed", "replayed"} => reply'[x] = reply[x]
    BY <1>1 DEF TypeOK, CallsOK, Put
  <1>3. /\ Executed' = Executed
        /\ \A x \in Calls : pc'[x] = "replayed" => pc[x] = "replayed"
    BY <1>1 DEF TypeOK, CallsOK, Executed
  <1> QED BY <1>2, <1>3, OriginFrame DEF books

(* Every step of a call keeps OriginInv. *)
LEMMA InvokeKeepsOrigin ==
    ASSUME TypeOK, OriginInv, NEW r \in Calls, Invoke(r)
    PROVE  OriginInv'
  <1>1. ASSUME NEW q \in Requests, InvokeReject(r, q)
        PROVE  OriginInv'
    BY <1>1, FailKeepsOrigin DEF InvokeReject
  <1>2. ASSUME NEW q \in Requests, InvokeReplay(r, q)
        PROVE  OriginInv'
    <2> DEFINE call == Local(r, q)
               resp == [idempotency[CallKey(call)] EXCEPT !.head = call.head]
    <2>1. call.head.key # EmptyString /\ CallKey(call) \in DOMAIN idempotency
      BY <1>2, VerdictPassed DEF InvokeReplay, Cached
    <2>2. PICK o \in Executed : /\ Keyed(o) /\ CallKey(inv[o]) = CallKey(call)
                               /\ idempotency[CallKey(call)] = Response(inv[o])
      BY <2>1 DEF OriginInv
    <2>3. /\ pc[r] = "idle"
          /\ inv' = Put(inv, r, call)
          /\ reply' = Put(reply, r, resp)
          /\ pc' = [pc EXCEPT ![r] = "replayed"]
          /\ idempotency' = idempotency
      BY <1>2 DEF InvokeReplay, books
    <2>4. resp = [Response(inv[o]) EXCEPT !.head = call.head]
      BY <2>2
    <2> HIDE DEF call, resp
    <2>5. /\ inv'[r] = call
          /\ reply'[r] = resp
          /\ \A x \in Calls : pc[x] \in {"executed", "replayed"}
                               => inv'[x] = inv[x] /\ reply'[x] = reply[x]
      <3>1. \A x \in Calls : pc[x] \in {"executed", "replayed"}
              => x # r /\ x \in DOMAIN inv /\ x \in DOMAIN reply
        BY <2>3 DEF TypeOK, CallsOK
      <3> QED BY <2>3, <3>1 DEF Put
    <2>6. /\ Executed' = Executed
          /\ \A x \in Calls : pc'[x] = "replayed" => x = r \/ pc[x] = "replayed"
      BY <2>3 DEF Executed, TypeOK, CallsOK
    <2>7. \A x \in Executed : inv'[x] = inv[x] /\ reply'[x] = reply[x]
      BY <2>5 DEF Executed
    <2>8. \A x \in Executed' : reply'[x] = Response(inv'[x])
      BY <2>6, <2>7 DEF OriginInv
    <2>9. \A k \in DOMAIN idempotency' : \E x \in Executed' :
            Keyed(x)' /\ CallKey(inv'[x]) = k /\ idempotency'[k] = Response(inv'[x])
      BY <2>3, <2>6, <2>7 DEF OriginInv, Keyed
    <2>10. ASSUME NEW y \in Calls, pc'[y] = "replayed"
           PROVE  \E x \in Executed' :
                    /\ Keyed(y)' /\ Keyed(x)' /\ CallKey(inv'[x]) = CallKey(inv'[y])
                    /\ reply'[y] = [Response(inv'[x]) EXCEPT !.head = inv'[y].head]
      <3>1. CASE y = r
        BY <2>1, <2>2, <2>4, <2>5, <2>6, <2>7, <3>1 DEF Keyed
      <3>2. CASE y # r
        <4>1. PICK x \in Executed :
                /\ Keyed(y) /\ Keyed(x) /\ CallKey(inv[x]) = CallKey(inv[y])
                /\ reply[y] = [Response(inv[x]) EXCEPT !.head = inv[y].head]
          BY <2>6, <2>10, <3>2 DEF OriginInv
        <4>2. inv'[y] = inv[y] /\ reply'[y] = reply[y] /\ inv'[x] = inv[x]
          BY <2>5, <2>6, <2>7, <2>10, <3>2
        <4> QED BY <2>6, <4>1, <4>2 DEF Keyed
      <3> QED BY <3>1, <3>2
    <2> QED BY <2>8, <2>9, <2>10 DEF OriginInv, Response, CallKey
  <1>3. ASSUME NEW q \in Requests, InvokeAdmit(r, q)
        PROVE  OriginInv'
    <2>1. /\ pc[r] = "idle"
          /\ pc' = [pc EXCEPT ![r] = "inflight"]
          /\ inv' = Put(inv, r, Local(r, q))
          /\ UNCHANGED <<reply, idempotency>>
      BY <1>3 DEF InvokeAdmit, books
    <2>2. \A x \in Calls : pc[x] \in {"executed", "replayed"} => inv'[x] = inv[x]
      BY <2>1 DEF TypeOK, CallsOK, Put
    <2>3. /\ Executed' = Executed
          /\ \A x \in Calls : pc'[x] = "replayed" => pc[x] = "replayed"
      BY <2>1 DEF TypeOK, CallsOK, Executed
    <2> QED BY <2>1, <2>2, <2>3, OriginFrame
  <1>4. CASE Work(r)
    BY <1>4, OriginFrame DEF Work, books, Executed
  <1>5. CASE InvokeCommit(r)
    <2>1. /\ pc[r] = "inflight"
          /\ pc' = [pc EXCEPT ![r] = "executed"]
          /\ idempotency' = IF inv[r].head.key = EmptyString THEN idempotency
                            ELSE Put(idempotency, CallKey(inv[r]), Response(inv[r]))
          /\ reply' = Put(reply, r, Response(inv[r]))
          /\ inv' = inv
      BY <1>5 DEF InvokeCommit, RecordSuccess
    <2>2. /\ Executed' = Executed \cup {r}
          /\ \A x \in Calls : pc'[x] = "replayed" => pc[x] = "replayed"
      BY <2>1 DEF TypeOK, CallsOK, Executed
    <2>3. /\ reply'[r] = Response(inv[r])
          /\ \A x \in Calls : pc[x] \in {"executed", "replayed"} => reply'[x] = reply[x]
      <3>1. \A x \in Calls : pc[x] \in {"executed", "replayed"} => x # r /\ x \in DOMAIN reply
        BY <2>1 DEF TypeOK, CallsOK
      <3> QED BY <2>1, <3>1 DEF Put
    <2>4. \A x \in Executed' : reply'[x] = Response(inv'[x])
      BY <2>1, <2>2, <2>3 DEF OriginInv, Executed
    <2>5. ASSUME NEW k \in DOMAIN idempotency'
          PROVE  \E x \in Executed' :
                   Keyed(x)' /\ CallKey(inv'[x]) = k /\ idempotency'[k] = Response(inv'[x])
      <3>1. CASE Keyed(r) /\ k = CallKey(inv[r])
        BY <2>1, <2>2, <3>1 DEF Keyed, Put
      <3>2. CASE ~(Keyed(r) /\ k = CallKey(inv[r]))
        <4>1. k \in DOMAIN idempotency /\ idempotency'[k] = idempotency[k]
          BY <2>1, <2>5, <3>2 DEF Keyed, Put
        <4> QED BY <2>1, <2>2, <4>1 DEF OriginInv, Keyed
      <3> QED BY <3>1, <3>2
    <2>6. ASSUME NEW y \in Calls, pc'[y] = "replayed"
          PROVE  \E x \in Executed' :
                   /\ Keyed(y)' /\ Keyed(x)' /\ CallKey(inv'[x]) = CallKey(inv'[y])
                   /\ reply'[y] = [Response(inv'[x]) EXCEPT !.head = inv'[y].head]
      <3>1. PICK x \in Executed :
              /\ Keyed(y) /\ Keyed(x) /\ CallKey(inv[x]) = CallKey(inv[y])
              /\ reply[y] = [Response(inv[x]) EXCEPT !.head = inv[y].head]
        BY <2>2, <2>6 DEF OriginInv
      <3>2. reply'[y] = reply[y]
        BY <2>2, <2>3, <2>6
      <3> QED BY <2>1, <2>2, <3>1, <3>2 DEF Keyed
    <2> QED BY <2>4, <2>5, <2>6 DEF OriginInv, Response, CallKey
  <1>6. CASE InvokeTimeout(r)
    BY <1>6, FailKeepsOrigin DEF InvokeTimeout
  <1> QED
    BY <1>1, <1>2, <1>3, <1>4, <1>5, <1>6 DEF Invoke

(* When the joined key is unambiguous, which identifiers without ":" make  *)
(* it, the cache of Invoke answers a call only with the response of an     *)
(* executed call of the same tenant, capability and key.                   *)
THEOREM ReplaysAreFaithful ==
    ASSUME Unambiguous
    PROVE  Spec => []ReplayIsFaithful
  <1>1. Init => OriginInv
    BY DEF Init, OriginInv, Executed
  <1>2. TypeOK /\ OriginInv /\ [Next]_vars => OriginInv'
    <2> SUFFICES ASSUME TypeOK, OriginInv, [Next]_vars
                 PROVE  OriginInv'
      OBVIOUS
    <2>1. ASSUME NEW r \in Calls, Invoke(r)
          PROVE  OriginInv'
      BY <2>1, InvokeKeepsOrigin
    <2>2. CASE UNCHANGED <<idempotency, pc, inv, reply>>
      BY <2>2, OriginFrame DEF Executed
    <2>3. ASSUME NEW q \in CancelRequests, Cancel(q) \/ CancelReject(q)
          PROVE  OriginInv'
      BY <2>2, <2>3 DEF Cancel, CancelReject, books
    <2>4. ASSUME NEW d \in Descriptors, AddCapability(d)
          PROVE  OriginInv'
      BY <2>2, <2>4 DEF AddCapability, books
    <2>5. ASSUME NEW q \in QuotaRequests, SetQuota(q)
          PROVE  OriginInv'
      BY <2>2, <2>5 DEF SetQuota, books
    <2>6. CASE Close
      BY <2>2, <2>6 DEF Close, books
    <2>7. CASE UNCHANGED vars
      BY <2>2, <2>7 DEF vars, books
    <2> QED
      BY <2>1, <2>3, <2>4, <2>5, <2>6, <2>7 DEF Next
  <1>3. TypeOK /\ OriginInv => ReplayIsFaithful
    <2> SUFFICES ASSUME TypeOK, OriginInv, NEW r \in Calls, pc[r] = "replayed"
                 PROVE  \E x \in Executed :
                          /\ SameCall(inv[r], inv[x])
                          /\ reply[r] = [reply[x] EXCEPT !.head = inv[r].head]
      BY DEF ReplayIsFaithful
    <2>1. PICK x \in Executed :
            /\ Keyed(r) /\ Keyed(x) /\ CallKey(inv[x]) = CallKey(inv[r])
            /\ reply[r] = [Response(inv[x]) EXCEPT !.head = inv[r].head]
      BY DEF OriginInv
    <2>2. inv[r] \in CallSet /\ inv[x] \in CallSet
      BY DEF TypeOK, CallsOK, Executed
    <2>3. ASSUME NEW c \in CallSet, c.head.key # EmptyString
          PROVE  /\ c.head.tenant \in Tenants
                 /\ c.capability \in CapabilityIDs
                 /\ c.head.key \in Keys
      BY <2>3 DEF CallSet, Header
    <2>4. SameCall(inv[r], inv[x])
      BY <2>1, <2>2, <2>3 DEF Unambiguous, SameCall, CallKey, Keyed
    <2> QED BY <2>1, <2>4 DEF OriginInv
  <1> QED BY <1>1, <1>2, <1>3, TypeCorrect, PTL DEF Spec

-----------------------------------------------------------------------------
(* Metering *)

(* An answer without execution is a free answer of the ledger. *)
LEMMA FreeAnswer ==
    ASSUME TypeOK, NEW r \in Calls, NEW v, pc[r] \in {"idle", "inflight"},
           reply' = Put(reply, r, v), UNCHANGED <<audit, tenantInvocations>>
    PROVE  Ledger!AnswerFree(r)
  <1>1. r \notin DOMAIN reply
    BY DEF TypeOK, CallsOK
  <1>2. DOMAIN reply' = DOMAIN reply \cup {r}
    BY DEF Put
  <1> QED BY <1>1, <1>2 DEF Ledger!AnswerFree

(* Every step of a call is a step of the ledger or leaves it alone. *)
LEMMA InvokeStepsLedger ==
    ASSUME TypeOK, NEW r \in Calls, Invoke(r)
    PROVE  Ledger!Next \/ UNCHANGED Ledger!vars
  <1>1. ASSUME NEW q \in Requests, InvokeReject(r, q)
        PROVE  Ledger!AnswerFree(r)
    BY <1>1, FreeAnswer DEF InvokeReject, Fail, books
  <1>2. ASSUME NEW q \in Requests, InvokeReplay(r, q)
        PROVE  Ledger!AnswerFree(r)
    BY <1>2, FreeAnswer DEF InvokeReplay, books
  <1>3. ASSUME NEW q \in Requests, InvokeAdmit(r, q)
        PROVE  UNCHANGED Ledger!vars
    BY <1>3 DEF InvokeAdmit, books, Ledger!vars
  <1>4. CASE Work(r)
    BY <1>4 DEF Work, books, Ledger!vars
  <1>5. ASSUME InvokeCommit(r)
        PROVE  Ledger!Bill(r, AuditRecord(inv[r])) /\ AuditRecord(inv[r]) \in AuditSet
    <2>1. inv[r] \in CallSet /\ r \notin DOMAIN reply
      BY <1>5 DEF InvokeCommit, TypeOK, CallsOK
    <2>2. AuditRecord(inv[r]) \in AuditSet
      BY <2>1, ResponseType
    <2>3. DOMAIN reply' = DOMAIN reply \cup {r}
      BY <1>5 DEF InvokeCommit, RecordSuccess, Put
    <2>4. /\ audit' = Append(audit, AuditRecord(inv[r]))
          /\ tenantInvocations'
               = [tenantInvocations EXCEPT ![AuditRecord(inv[r]).tenant] = @ + 1]
      BY <1>5 DEF InvokeCommit, RecordSuccess, CountInvocation, AuditRecord
    <2> QED BY <2>1, <2>2, <2>3, <2>4 DEF Ledger!Bill
  <1>6. CASE InvokeTimeout(r)
    <2>1. Ledger!AnswerFree(r)
      BY <1>6, FreeAnswer DEF InvokeTimeout, Fail, books
    <2> QED BY <2>1 DEF Ledger!Next
  <1> QED
    BY <1>1, <1>2, <1>3, <1>4, <1>5, <1>6 DEF Invoke, Ledger!Next

(* Invoke implements the metering promise of UsageLedger: every call is    *)
(* answered once, and billed in the same step as it is answered, once or   *)
(* not at all, whatever the interleaving of the calls.                     *)
THEOREM MeteringCorrect == Spec => MeteringRefines
  <1>1. Init => Ledger!Init
    BY DEF Init, Ledger!Init
  <1>2. TypeOK /\ [Next]_vars => [Ledger!Next]_(Ledger!vars)
    <2> SUFFICES ASSUME TypeOK, [Next]_vars
                 PROVE  Ledger!Next \/ UNCHANGED Ledger!vars
      OBVIOUS
    <2>1. ASSUME NEW r \in Calls, Invoke(r)
          PROVE  Ledger!Next \/ UNCHANGED Ledger!vars
      BY <2>1, InvokeStepsLedger
    <2>2. CASE UNCHANGED <<audit, tenantInvocations, reply>>
      BY <2>2 DEF Ledger!vars
    <2>3. ASSUME NEW q \in CancelRequests, Cancel(q) \/ CancelReject(q)
          PROVE  UNCHANGED Ledger!vars
      BY <2>3 DEF Cancel, CancelReject, books, Ledger!vars
    <2>4. ASSUME NEW d \in Descriptors, AddCapability(d)
          PROVE  UNCHANGED Ledger!vars
      BY <2>4 DEF AddCapability, books, Ledger!vars
    <2>5. ASSUME NEW q \in QuotaRequests, SetQuota(q)
          PROVE  UNCHANGED Ledger!vars
      BY <2>5 DEF SetQuota, books, Ledger!vars
    <2>6. CASE Close
      BY <2>2, <2>6 DEF Close, books
    <2>7. CASE UNCHANGED vars
      BY <2>2, <2>7 DEF vars, books
    <2> QED
      BY <2>1, <2>3, <2>4, <2>5, <2>6, <2>7 DEF Next
  <1> QED
    BY <1>1, <1>2, TypeCorrect, PTL DEF Spec, MeteringRefines, Ledger!Spec
=============================================================================
