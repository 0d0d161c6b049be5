--------------------------- MODULE MeteringProofs ---------------------------
(* Theorems about what Invoke books: the audit log, the audit file, the    *)
(* error counters and the usage a quota is compared with.                  *)
EXTENDS InvocationProofs, FiniteSetTheorems, WellFoundedInduction

-----------------------------------------------------------------------------
(* The steps of Next, as far as the books are concerned *)

(* What the steps that are not part of a call leave alone. *)
LEMMA OthersLeaveCalls ==
    ASSUME TypeOK, [Next]_vars, ~\E r \in Calls : Invoke(r)
    PROVE  UNCHANGED <<books, requestErrors["invoke"], pc, inv, reply, overlap>>
  <1>1. ASSUME NEW q \in CancelRequests, CancelReject(q)
        PROVE  UNCHANGED <<books, requestErrors["invoke"], pc, inv, reply, overlap>>
    <2>1. requestErrors'["invoke"] = requestErrors["invoke"]
      BY <1>1 DEF CancelReject, recordError, TypeOK, Operations
    <2> QED BY <1>1, <2>1 DEF CancelReject
  <1>2. ASSUME NEW q \in CancelRequests, Cancel(q)
        PROVE  UNCHANGED <<books, requestErrors["invoke"], pc, inv, reply, overlap>>
    BY <1>2 DEF Cancel
  <1>3. ASSUME NEW d \in Descriptors, AddCapability(d)
        PROVE  UNCHANGED <<books, requestErrors["invoke"], pc, inv, reply, overlap>>
    BY <1>3 DEF AddCapability
  <1>4. ASSUME NEW q \in QuotaRequests, SetQuota(q)
        PROVE  UNCHANGED <<books, requestErrors["invoke"], pc, inv, reply, overlap>>
    BY <1>4 DEF SetQuota
  <1>5. CASE Close
    BY <1>5 DEF Close
  <1>6. CASE UNCHANGED vars
    BY <1>6 DEF vars
  <1> QED BY <1>1, <1>2, <1>3, <1>4, <1>5, <1>6 DEF Next

-----------------------------------------------------------------------------
(* Every outcome is booked once *)

(* The calls that returned the error e. *)
FailedWith(e) == {r \in Calls : pc[r] = "failed" /\ reply[r].code = e}

(* The sets OutcomesBooked counts are finite. *)
LEMMA OutcomesFinite ==
    /\ IsFiniteSet(Executed) /\ Cardinality(Executed) \in Nat
    /\ \A e \in ErrorCodes :
         IsFiniteSet(FailedWith(e)) /\ Cardinality(FailedWith(e)) \in Nat
  <1>1. Executed \subseteq Calls
    BY DEF Executed
  <1>2. \A e \in ErrorCodes : FailedWith(e) \subseteq Calls
    BY DEF FailedWith
  <1> QED BY <1>1, <1>2, CallsFinite, FS_Subset, FS_CardinalityType

(* A call that fails adds itself to the calls with its code and nothing    *)
(* else.                                                                   *)
LEMMA FailBooks ==
    ASSUME TypeOK, OutcomesBooked, NEW r \in Calls, NEW code \in ErrorCodes,
           pc[r] \in {"idle", "inflight"}, Fail(r, code), UNCHANGED books
    PROVE  OutcomesBooked'
  <1>1. /\ pc' = [pc EXCEPT ![r] = "failed"]
        /\ reply' = Put(reply, r, [code |-> code])
        /\ requestErrors' = [requestErrors EXCEPT !["invoke"][code] = @ + 1]
    BY DEF Fail, recordError
  <1>2. Executed' = Executed /\ audit' = audit
    BY <1>1 DEF Executed, TypeOK, CallsOK, books
  <1>3. /\ reply'[r].code = code
        /\ \A x \in Calls : pc[x] = "failed" => x # r /\ reply'[x] = reply[x]
    BY <1>1 DEF TypeOK, CallsOK, Put
  <1>4. ASSUME NEW e \in ErrorCodes
        PROVE  requestErrors'["invoke"][e] = Cardinality(FailedWith(e)')
    <2>1. requestErrors["invoke"][e] = Cardinality(FailedWith(e))
      BY DEF OutcomesBooked, FailedWith
    <2>2. CASE e = code
      <3>1. FailedWith(e)' = FailedWith(e) \cup {r} /\ r \notin FailedWith(e)
        BY <1>1, <1>3, <2>2 DEF FailedWith, TypeOK, CallsOK
      <3>2. requestErrors'["invoke"][e] = requestErrors["invoke"][e] + 1
        BY <1>1, <2>2 DEF TypeOK, Operations
      <3> QED BY <2>1, <3>1, <3>2, OutcomesFinite, FS_AddElement
    <2>3. CASE e # code
      <3>1. FailedWith(e)' = FailedWith(e)
        BY <1>1, <1>3, <2>3 DEF FailedWith, TypeOK, CallsOK
      <3>2. requestErrors'["invoke"][e] = requestErrors["invoke"][e]
        BY <1>1, <2>3 DEF TypeOK, Operations
      <3> QED BY <2>1, <3>1, <3>2
    <2> QED BY <2>2, <2>3
  <1> QED BY <1>2, <1>4 DEF OutcomesBooked, FailedWith

(* A step that ends no call books nothing. *)
LEMMA OutcomesFrame ==
    ASSUME OutcomesBooked, Executed' = Executed,
           \A e \in ErrorCodes : FailedWith(e)' = FailedWith(e),
           audit' = audit, requestErrors'["invoke"] = requestErrors["invoke"]
    PROVE  OutcomesBooked'
  BY DEF OutcomesBooked, FailedWith

(* Every step of a call books what it ends with. *)
LEMMA InvokeBooks ==
    ASSUME TypeOK, OutcomesBooked, NEW r \in Calls, Invoke(r)
    PROVE  OutcomesBooked'
  <1>1. ASSUME NEW q \in Requests, InvokeReject(r, q)
        PROVE  OutcomesBooked'
    BY <1>1, FailBooks DEF InvokeReject
  <1>2. ASSUME NEW q \in Requests, InvokeReplay(r, q)
        PROVE  OutcomesBooked'
    <2>1. /\ pc[r] = "idle"
          /\ pc' = [pc EXCEPT ![r] = "replayed"]
          /\ UNCHANGED <<books, requestErrors>>
          /\ \A x \in Calls : pc[x] = "failed" => x # r /\ reply'[x] = reply[x]
      BY <1>2 DEF InvokeReplay, Put, TypeOK, CallsOK
    <2>2. Executed' = Executed /\ \A e \in ErrorCodes : FailedWith(e)' = FailedWith(e)
      BY <2>1 DEF Executed, FailedWith, TypeOK, CallsOK
    <2> QED BY <2>1, <2>2, OutcomesFrame DEF books
  <1>3. ASSUME NEW q \in Requests, InvokeAdmit(r, q)
        PROVE  OutcomesBooked'
    <2>1. /\ pc[r] = "idle"
          /\ pc' = [pc EXCEPT ![r] = "inflight"]
          /\ UNCHANGED <<books, requestErrors, reply>>
      BY <1>3 DEF InvokeAdmit
    <2>2. Executed' = Executed /\ \A e \in ErrorCodes : FailedWith(e)' = FailedWith(e)
      BY <2>1 DEF Executed, FailedWith, TypeOK, CallsOK
    <2> QED BY <2>1, <2>2, OutcomesFrame DEF books
  <1>4. CASE Work(r)
    BY <1>4, OutcomesFrame DEF Work, books, Executed, FailedWith
  <1>5. CASE InvokeCommit(r)
    <2>1. /\ pc[r] = "inflight"
          /\ pc' = [pc EXCEPT ![r] = "executed"]
          /\ requestErrors' = requestErrors
          /\ audit' = Append(audit, AuditRecord(inv[r]))
          /\ \A x \in Calls : pc[x] = "failed" => x # r /\ reply'[x] = reply[x]
      BY <1>5 DEF InvokeCommit, RecordSuccess, Put, TypeOK, CallsOK
    <2>2. \A e \in ErrorCodes : FailedWith(e)' = FailedWith(e)
      BY <2>1 DEF FailedWith, TypeOK, CallsOK
    <2>3. Executed' = Executed \cup {r} /\ r \notin Executed
      BY <2>1 DEF Executed, TypeOK, CallsOK
    <2>4. Cardinality(Executed') = Cardinality(Executed) + 1
      BY <2>3, OutcomesFinite, FS_AddElement
    <2>5. Len(audit') = Len(audit) + 1
      BY <2>1 DEF TypeOK, BooksOK
    <2> QED BY <2>1, <2>2, <2>4, <2>5 DEF OutcomesBooked, FailedWith
  <1>6. CASE InvokeTimeout(r)
    BY <1>6, FailBooks DEF InvokeTimeout, ErrorCodes
  <1> QED
    BY <1>1, <1>2, <1>3, <1>4, <1>5, <1>6 DEF Invoke

(* Every way Invoke can return is booked once: the audit log is as long as *)
(* there are executed calls, and the counter of an error stands at the     *)
(* calls that returned it, however results and deadlines race.             *)
THEOREM OutcomesAreBooked == Spec => []OutcomesBooked
  <1>1. Init => OutcomesBooked
    <2> SUFFICES ASSUME Init PROVE OutcomesBooked
      OBVIOUS
    <2>1. Executed = {} /\ Len(audit) = 0
      BY DEF Init, Executed
    <2>2. \A e \in ErrorCodes : FailedWith(e) = {} /\ requestErrors["invoke"][e] = 0
      BY DEF Init, FailedWith, Operations
    <2> QED BY <2>1, <2>2, FS_EmptySet DEF OutcomesBooked, FailedWith
  <1>2. TypeOK /\ OutcomesBooked /\ [Next]_vars => OutcomesBooked'
    <2> SUFFICES ASSUME TypeOK, OutcomesBooked, [Next]_vars
                 PROVE  OutcomesBooked'
      OBVIOUS
    <2>1. ASSUME NEW r \in Calls, Invoke(r)
          PROVE  OutcomesBooked'
      BY <2>1, InvokeBooks
    <2>2. CASE ~\E r \in Calls : Invoke(r)
      BY <2>2, OthersLeaveCalls, OutcomesFrame DEF books, Executed, FailedWith
    <2> QED BY <2>1, <2>2
  <1> QED BY <1>1, <1>2, TypeCorrect, PTL DEF Spec

-----------------------------------------------------------------------------
(* How far a tenant can pass its quota *)

(* The calls of r's tenant that executed while r was in flight. *)
Rivals(r) ==
    {x \in overlap[r] \cap Executed : inv[x].head.tenant = inv[r].head.tenant}

(* The inductive strengthening of QuotaSlack.  Calls in flight have met;   *)
(* so the usage a call of the tenant was let in with is out of date by     *)
(* exactly the executions of calls it has met, and it was below the quota. *)
SlackInv ==
    /\ \A r, x \in Live : r # x => x \in overlap[r]
    /\ \A r \in Live : ~OverQuota(inv[r])
    /\ \A r \in Live :
         tenantInvocations[inv[r].head.tenant]
           = inv[r].used + Cardinality(Rivals(r))

(* The rivals of a call are finitely many. *)
LEMMA RivalsFinite ==
    ASSUME NEW r \in Calls
    PROVE  IsFiniteSet(Rivals(r)) /\ Cardinality(Rivals(r)) \in Nat
  <1>1. Rivals(r) \subseteq Calls
    BY DEF Rivals, Executed
  <1> QED BY <1>1, CallsFinite, FS_Subset, FS_CardinalityType

(* A call in flight has the locals it was let in with. *)
LEMMA LiveTyped ==
    ASSUME TypeOK, NEW r \in Live \cup Executed
    PROVE  /\ r \in Calls /\ r \in DOMAIN inv
           /\ inv[r].head.tenant \in Tenants
           /\ inv[r].quota \in Nat /\ inv[r].used \in Nat
  <1>1. r \in Calls /\ r \in DOMAIN inv
    BY DEF Live, Executed, TypeOK, CallsOK
  <1>2. inv[r] \in CallSet
    BY <1>1 DEF TypeOK, CallsOK
  <1> QED BY <1>1, <1>2 DEF CallSet, Header

(* A step that lets in no call and executes none keeps SlackInv. *)
LEMMA SlackFrame ==
    ASSUME SlackInv, Live' \subseteq Live, Executed' = Executed,
           \A x \in Live' \cup Executed : inv'[x] = inv[x],
           UNCHANGED <<overlap, tenantInvocations>>
    PROVE  SlackInv'
  <1>1. \A r \in Live' : Rivals(r)' = Rivals(r)
    BY DEF Rivals
  <1>2. \A r \in Live' : inv'[r] = inv[r]
    OBVIOUS
  <1> QED BY <1>1, <1>2 DEF SlackInv, OverQuota

(* Every step of a call keeps SlackInv. *)
LEMMA InvokeKeepsSlack ==
    ASSUME TypeOK, SlackInv, NEW r \in Calls, Invoke(r)
    PROVE  SlackInv'
  <1>1. ASSUME NEW q \in Requests, InvokeReject(r, q)
        PROVE  SlackInv'
    <2>1. Live' \subseteq Live /\ Executed' = Executed
      BY <1>1 DEF InvokeReject, Fail, Live, Executed, TypeOK, CallsOK
    <2> QED BY <1>1, <2>1, SlackFrame DEF InvokeReject, books
  <1>2. ASSUME NEW q \in Requests, InvokeReplay(r, q)
        PROVE  SlackInv'
    <2>1. /\ pc[r] = "idle"
          /\ pc' = [pc EXCEPT ![r] = "replayed"]
          /\ inv' = Put(inv, r, Local(r, q))
          /\ UNCHANGED <<overlap, tenantInvocations>>
      BY <1>2 DEF InvokeReplay, books
    <2>2. Live' = Live /\ Executed' = Executed
      BY <2>1 DEF Live, Executed, TypeOK, CallsOK
    <2>3. \A x \in Live \cup Executed : x # r /\ x \in DOMAIN inv
      BY <2>1, LiveTyped DEF Live, Executed
    <2>4. \A x \in Live \cup Executed : inv'[x] = inv[x]
      BY <2>1, <2>3 DEF Put
    <2> QED BY <2>1, <2>2, <2>4, SlackFrame
  <1>3. ASSUME NEW q \in Requests, InvokeAdmit(r, q)
        PROVE  SlackInv'
    <2> DEFINE call == Local(r, q)
    <2>1. /\ call \in CallSet
          /\ ~OverQuota(call)
          /\ call.used = tenantInvocations[call.head.tenant]
      BY <1>3, VerdictPassed, LocalType DEF InvokeAdmit, Local
    <2>2. /\ pc[r] = "idle"
          /\ inv' = Put(inv, r, call)
          /\ pc' = [pc EXCEPT ![r] = "inflight"]
          /\ overlap' = [x \in Calls |-> IF x = r THEN Live
                                         ELSE IF x \in Live THEN overlap[x] \cup {r}
                                         ELSE overlap[x]]
          /\ tenantInvocations' = tenantInvocations
      BY <1>3 DEF InvokeAdmit, books
    <2> HIDE DEF call
    <2>3. Live' = Live \cup {r} /\ Executed' = Executed
      BY <2>2 DEF Live, Executed, TypeOK, CallsOK
    <2>4. /\ r \notin Live /\ r \notin Executed
          /\ \A x \in Live \cup Executed : x \in Calls /\ x \in DOMAIN inv
      BY <2>2, LiveTyped DEF Live, Executed
    <2>5. inv'[r] = call /\ \A x \in Live \cup Executed : inv'[x] = inv[x]
      BY <2>2, <2>4 DEF Put
    <2>6. /\ overlap'[r] = Live
          /\ \A x \in Live : overlap'[x] = overlap[x] \cup {r}
      BY <2>2, <2>4
    <2>7. \A y, x \in Live' : y # x => x \in overlap'[y]
      BY <2>3, <2>4, <2>6 DEF SlackInv
    <2>8. \A y \in Live' : ~OverQuota(inv'[y])
      BY <2>1, <2>3, <2>5 DEF SlackInv
    <2>9. ASSUME NEW y \in Live'
          PROVE  tenantInvocations'[inv'[y].head.tenant]
                   = inv'[y].used + Cardinality(Rivals(y)')
      <3>1. CASE y = r
        <4>1. Rivals(y)' = {}
          BY <2>3, <2>6, <3>1 DEF Rivals, Live, Executed
        <4>2. call.used \in Nat
          BY <2>1 DEF CallSet
        <4> QED BY <2>1, <2>2, <2>5, <3>1, <4>1, <4>2, FS_EmptySet
      <3>2. CASE y # r
        <4>1. y \in Live /\ inv'[y] = inv[y]
          BY <2>3, <2>5, <3>2
        <4>2. Rivals(y)' = Rivals(y)
          BY <2>3, <2>4, <2>5, <2>6, <4>1 DEF Rivals
        <4> QED BY <2>2, <4>1, <4>2 DEF SlackInv
      <3> QED BY <3>1, <3>2
    <2> QED BY <2>7, <2>8, <2>9 DEF SlackInv, OverQuota
  <1>4. CASE Work(r)
    BY <1>4, SlackFrame DEF Work, books, Live, Executed
  <1>5. CASE InvokeCommit(r)
    <2> DEFINE t == inv[r].head.tenant
    <2>1. /\ pc[r] = "inflight"
          /\ pc' = [pc EXCEPT ![r] = "executed"]
          /\ tenantInvocations' = [tenantInvocations EXCEPT ![t] = @ + 1]
          /\ UNCHANGED <<inv, overlap>>
      BY <1>5 DEF InvokeCommit, RecordSuccess, CountInvocation
    <2>2. /\ Live' = Live \ {r} /\ r \in Live
          /\ Executed' = Executed \cup {r} /\ r \notin Executed
      BY <2>1 DEF Live, Executed, TypeOK, CallsOK
    <2>3. ASSUME NEW y \in Live'
          PROVE  tenantInvocations'[inv'[y].head.tenant]
                   = inv'[y].used + Cardinality(Rivals(y)')
      <3>1. y \in Live /\ r \in overlap[y] /\ r \notin Rivals(y)
        BY <2>2 DEF SlackInv, Rivals
      <3>2. /\ tenantInvocations \in [Tenants -> Nat]
            /\ t \in Tenants /\ inv[y].head.tenant \in Tenants
            /\ inv[y].used \in Nat /\ y \in Calls
        BY <2>2, <3>1, LiveTyped DEF TypeOK, BooksOK
      <3>3. tenantInvocations[inv[y].head.tenant]
              = inv[y].used + Cardinality(Rivals(y))
        BY <3>1 DEF SlackInv
      <3>4. CASE inv[y].head.tenant = t
        <4>1. Rivals(y)' = Rivals(y) \cup {r}
          BY <2>1, <2>2, <3>1, <3>4 DEF Rivals
        <4>2. /\ Cardinality(Rivals(y)') = Cardinality(Rivals(y)) + 1
              /\ Cardinality(Rivals(y)) \in Nat
          BY <3>1, <3>2, <4>1, RivalsFinite, FS_AddElement
        <4>3. tenantInvocations'[t] = tenantInvocations[t] + 1
          BY <2>1, <3>2
        <4> QED BY <2>1, <3>2, <3>3, <3>4, <4>2, <4>3
      <3>5. CASE inv[y].head.tenant # t
        <4>1. Rivals(y)' = Rivals(y)
          BY <2>1, <2>2, <3>5 DEF Rivals
        <4> QED BY <2>1, <3>2, <3>3, <3>5, <4>1
      <3> QED BY <3>4, <3>5
    <2> QED BY <2>1, <2>2, <2>3 DEF SlackInv, OverQuota
  <1>6. CASE InvokeTimeout(r)
    <2>1. Live' \subseteq Live /\ Executed' = Executed
      BY <1>6 DEF InvokeTimeout, Fail, Live, Executed, TypeOK, CallsOK
    <2> QED BY <1>6, <2>1, SlackFrame DEF InvokeTimeout, books
  <1> QED
    BY <1>1, <1>2, <1>3, <1>4, <1>5, <1>6 DEF Invoke

(* The quota is compared under the read lock and the usage is written      *)
(* under the write lock much later: a tenant passes its quota by no more   *)
(* than the calls of its own that were in flight with the one that passes. *)
THEOREM QuotaSlackBounded == Spec => []QuotaSlack
  <1>1. Init => SlackInv
    BY DEF Init, SlackInv, Live
  <1>2. TypeOK /\ SlackInv /\ [Next]_vars => SlackInv'
    <2> SUFFICES ASSUME TypeOK, SlackInv, [Next]_vars
                 PROVE  SlackInv'
      OBVIOUS
    <2>1. ASSUME NEW r \in Calls, Invoke(r)
          PROVE  SlackInv'
      BY <2>1, InvokeKeepsSlack
    <2>2. CASE ~\E r \in Calls : Invoke(r)
      BY <2>2, OthersLeaveCalls, SlackFrame DEF books, Executed, Live
    <2> QED BY <2>1, <2>2
  <1>3. TypeOK /\ SlackInv => QuotaSlack
    <2> SUFFICES ASSUME TypeOK, SlackInv, NEW r \in Live, inv[r].quota > 0
                 PROVE  tenantInvocations[inv[r].head.tenant]
                          < inv[r].quota + Cardinality(Rivals(r))
      BY DEF QuotaSlack, Rivals
    <2>1. inv[r].used < inv[r].quota
      BY LiveTyped DEF SlackInv, OverQuota
    <2>2. Cardinality(Rivals(r)) \in Nat
      BY LiveTyped, RivalsFinite
    <2> QED BY <2>1, <2>2, LiveTyped DEF SlackInv
  <1> QED BY <1>1, <1>2, <1>3, TypeCorrect, PTL DEF Spec

-----------------------------------------------------------------------------
(* The audit file *)

(* One record more in the log, and one write of it while the file is open. *)
LEMMA SinkExtends ==
    ASSUME TypeOK, SinkMirrorsAudit, NEW record \in AuditSet,
           audit' = Append(audit, record), auditLog' = auditLog,
           writeAuditLogLocked(record)
    PROVE  SinkMirrorsAudit'
  <1>1. audit \in Seq(AuditSet) /\ sink \in Seq([record : AuditSet, part : WriteParts])
    BY DEF TypeOK, BooksOK
  <1>2. /\ Len(audit) \in Nat /\ Len(audit') = Len(audit) + 1
        /\ audit'[Len(audit) + 1] = record
        /\ \A i \in 1..Len(audit) : audit'[i] = audit[i]
        /\ DOMAIN sink = 1..Len(sink) /\ Len(sink) \in Nat
    BY <1>1
  <1>3. CASE ~auditLog
    <2>1. sink' = sink
      BY <1>3 DEF writeAuditLogLocked
    <2>2. \A i \in DOMAIN sink : audit'[i] = audit[i]
      BY <1>2 DEF SinkMirrorsAudit
    <2>3. Len(sink') <= Len(audit') /\ ~auditLog'
      BY <1>2, <1>3, <2>1 DEF SinkMirrorsAudit
    <2>4. \A i \in DOMAIN sink' : sink'[i].record = audit'[i]
      BY <2>1, <2>2 DEF SinkMirrorsAudit
    <2> QED BY <2>3, <2>4 DEF SinkMirrorsAudit
  <1>4. CASE auditLog
    <2>1. PICK part \in WriteParts : sink' = Append(sink, Written(record, part))
      BY <1>4 DEF writeAuditLogLocked, WriteParts
    <2>2. Len(sink) = Len(audit)
      BY <1>4 DEF SinkMirrorsAudit
    <2>3. Written(record, part) \in [record : AuditSet, part : WriteParts]
      BY DEF Written
    <2>4. /\ Len(sink') = Len(sink) + 1
          /\ DOMAIN sink' = 1..(Len(sink) + 1)
          /\ sink'[Len(sink) + 1] = Written(record, part)
          /\ \A i \in 1..Len(sink) : sink'[i] = sink[i]
      BY <1>1, <2>1, <2>3
    <2>5. \A i \in DOMAIN sink' : sink'[i].record = audit'[i]
      <3> SUFFICES ASSUME NEW i \in DOMAIN sink' PROVE sink'[i].record = audit'[i]
        OBVIOUS
      <3>1. CASE i = Len(sink) + 1
        <4>1. Written(record, part).record = record
          BY DEF Written
        <4> QED BY <1>2, <2>2, <2>4, <3>1, <4>1
      <3>2. CASE i # Len(sink) + 1
        <4>1. i \in DOMAIN sink
          BY <1>2, <2>4, <3>2
        <4> QED BY <1>2, <2>2, <2>4, <4>1 DEF SinkMirrorsAudit
      <3> QED BY <3>1, <3>2
    <2> QED BY <1>2, <2>2, <2>4, <2>5 DEF SinkMirrorsAudit
  <1> QED BY <1>3, <1>4

(* Whatever writes fail, in whole or in part, and whenever the service is  *)
(* closed, the writes to the audit file are those of the records of the    *)
(* audit log, each once and in order, up to the moment of Close.           *)
THEOREM SinkIsMirror == Spec => []SinkMirrorsAudit
  <1>1. Init => SinkMirrorsAudit
    BY DEF Init, SinkMirrorsAudit
  <1>2. TypeOK /\ SinkMirrorsAudit /\ [Next]_vars => SinkMirrorsAudit'
    <2> SUFFICES ASSUME TypeOK, SinkMirrorsAudit, [Next]_vars
                 PROVE  SinkMirrorsAudit'
      OBVIOUS
    <2>1. CASE UNCHANGED <<audit, sink>> /\ (auditLog' => auditLog)
      BY <2>1 DEF SinkMirrorsAudit
    <2>2. ASSUME NEW r \in Calls, InvokeCommit(r)
          PROVE  SinkMirrorsAudit'
      <3>1. AuditRecord(inv[r]) \in AuditSet
        BY <2>2, LiveTyped, ResponseType DEF InvokeCommit, TypeOK, CallsOK
      <3>2. /\ audit' = Append(audit, AuditRecord(inv[r])) /\ auditLog' = auditLog
            /\ writeAuditLogLocked(AuditRecord(inv[r]))
        BY <2>2 DEF InvokeCommit, RecordSuccess, service
      <3> QED BY <3>1, <3>2, SinkExtends
    <2>3. ASSUME NEW r \in Calls, Invoke(r), ~InvokeCommit(r)
          PROVE  UNCHANGED <<audit, sink, auditLog>>
      BY <2>3 DEF Invoke, InvokeReject, InvokeReplay, InvokeAdmit, Work, InvokeTimeout,
                  books, service
    <2>4. CASE ~\E r \in Calls : Invoke(r)
      <3>1. auditLog' => auditLog
        BY <2>4 DEF Next, Cancel, CancelReject, AddCapability, SetQuota, Close, vars, service
      <3> QED BY <2>1, <2>4, <3>1, OthersLeaveCalls DEF books
    <2> QED BY <2>1, <2>2, <2>3, <2>4
  <1> QED BY <1>1, <1>2, TypeCorrect, PTL DEF Spec
-----------------------------------------------------------------------------
(* Usage and audit *)

(* A nonempty set of numbers has a least one: every induction below is one *)
(* over a least counterexample.                                            *)
LEMMA LeastNumber ==
    ASSUME NEW S \in SUBSET Nat, S # {}
    PROVE  \E i \in S : \A j \in S : i <= j
  <1> DEFINE R == OpToRel(<, Nat)
  <1>1. IsWellFoundedOn(R, Nat)
    BY NatLessThanWellFounded
  <1>2. R = {r \in Nat \X Nat : r[1] < r[2]}
    BY DEF OpToRel
  <1> HIDE DEF R
  <1>3. PICK i \in S : \A j \in S : ~(<<j, i>> \in R)
    BY <1>1, WFMin
  <1>4. ASSUME NEW j \in S, j < i PROVE FALSE
    BY <1>2, <1>3, <1>4
  <1> QED BY <1>3, <1>4

(* The loop of Usage over a map adds up its values in some order: Picked   *)
(* names the value added last, and Sums the sums over the sets D of keys.  *)
Picked(s) == CHOOSE x \in s : TRUE

Sums(g, f, D) ==
    g = [s \in D |-> IF s = {} THEN 0 ELSE f[Picked(s)] + g[s \ {Picked(s)}]]

Upto(S, n) == {s \in SUBSET S : Cardinality(s) <= n}

(* One key less. *)
LEMMA PickedRemoved ==
    ASSUME NEW S, IsFiniteSet(S), NEW s \in SUBSET S, s # {}
    PROVE  /\ Picked(s) \in s
           /\ s \ {Picked(s)} \in SUBSET S
           /\ Cardinality(s) \in Nat \ {0}
           /\ Cardinality(s \ {Picked(s)}) = Cardinality(s) - 1
  <1>1. Picked(s) \in s
    BY DEF Picked
  <1>2. IsFiniteSet(s) /\ Cardinality(s) \in Nat
    BY FS_Subset, FS_CardinalityType
  <1>3. Cardinality(s) # 0
    BY <1>2, FS_EmptySet
  <1>4. Cardinality(s \ {Picked(s)}) = Cardinality(s) - 1
    BY <1>1, <1>2, FS_RemoveElement
  <1> QED BY <1>1, <1>2, <1>3, <1>4

(* The sums over ever larger sets of keys exist. *)
LEMMA SumsExist ==
    ASSUME NEW S, IsFiniteSet(S), NEW f
    PROVE  \E g : Sums(g, f, SUBSET S)
  <1> DEFINE bad == {n \in Nat : ~\E g : Sums(g, f, Upto(S, n))}
  <1>1. bad = {}
    <2> SUFFICES ASSUME bad # {} PROVE FALSE
      OBVIOUS
    <2>1. PICK m \in bad : \A j \in bad : m <= j
      <3>1. bad \in SUBSET Nat
        OBVIOUS
      <3> HIDE DEF bad
      <3> QED BY <3>1, LeastNumber
    <2>2. CASE m = 0
      <3>1. \A s \in Upto(S, 0) : s = {}
        <4> SUFFICES ASSUME NEW s \in SUBSET S, Cardinality(s) <= 0, s # {} PROVE FALSE
          BY DEF Upto
        <4>1. Cardinality(s) \in Nat \ {0}
          BY PickedRemoved
        <4> QED BY <4>1
      <3>2. PICK g : g = [s \in Upto(S, 0) |-> 0]
        OBVIOUS
      <3>3. Sums(g, f, Upto(S, 0))
        BY <3>1, <3>2 DEF Sums
      <3> QED BY <2>1, <2>2, <3>3
    <2>3. CASE m # 0
      <3>1. m \in Nat /\ m - 1 \in Nat /\ m - 1 \notin bad
        BY <2>1, <2>3
      <3>2. PICK g : Sums(g, f, Upto(S, m - 1))
        BY <3>1
      <3>3. PICK h : h = [s \in Upto(S, m) |->
                            IF s = {} THEN 0 ELSE f[Picked(s)] + g[s \ {Picked(s)}]]
        OBVIOUS
      <3>4. ASSUME NEW u \in Upto(S, m - 1)
            PROVE  u \in Upto(S, m) /\ h[u] = g[u]
        <4>1. u \in Upto(S, m)
          <5>1. Cardinality(u) \in Nat
            BY FS_Subset, FS_CardinalityType DEF Upto
          <5> QED BY <3>1, <5>1 DEF Upto
        <4>2. g[u] = IF u = {} THEN 0 ELSE f[Picked(u)] + g[u \ {Picked(u)}]
          BY <3>2 DEF Sums
        <4> QED BY <3>3, <4>1, <4>2
      <3>5. ASSUME NEW s \in Upto(S, m), s # {}
            PROVE  h[s \ {Picked(s)}] = g[s \ {Picked(s)}]
        <4>1. s \ {Picked(s)} \in Upto(S, m - 1)
          BY <3>1, <3>5, PickedRemoved DEF Upto
        <4> QED BY <3>4, <4>1
      <3>6. Sums(h, f, Upto(S, m))
        BY <3>3, <3>5 DEF Sums
      <3> QED BY <2>1, <3>6
    <2> QED BY <2>2, <2>3
  <1>2. Cardinality(S) \in Nat
    BY FS_CardinalityType
  <1>3. Upto(S, Cardinality(S)) = SUBSET S
    BY FS_Subset DEF Upto
  <1>4. \E g : Sums(g, f, Upto(S, Cardinality(S)))
    BY <1>1, <1>2
  <1> QED BY <1>3, <1>4

(* So the sum of a map is the one over all of its keys. *)
LEMMA SumIsLast ==
    ASSUME NEW f, IsFiniteSet(DOMAIN f)
    PROVE  \E g : Sums(g, f, SUBSET DOMAIN f) /\ F!SumFunction(f) = g[DOMAIN f]
  <1> DEFINE g == CHOOSE h : Sums(h, f, SUBSET DOMAIN f)
  <1>1. Sums(g, f, SUBSET DOMAIN f)
    BY SumsExist
  <1>2. F!SumFunction(f) = g[DOMAIN f]
    BY DEF F!SumFunction, F!SumFunctionOnSet, F!FoldFunctionOnSet, F!MapThenFoldSet, Sums, Picked
  <1> QED BY <1>1, <1>2

(* A map without uses adds up to zero. *)
LEMMA SumOfZeros ==
    ASSUME NEW S, IsFiniteSet(S)
    PROVE  F!SumFunction([x \in S |-> 0]) = 0
  <1>1. PICK f : f = [x \in S |-> 0]
    OBVIOUS
  <1>2. DOMAIN f = S /\ \A x \in S : f[x] = 0
    BY <1>1
  <1>3. PICK g : Sums(g, f, SUBSET S) /\ F!SumFunction(f) = g[S]
    BY <1>2, SumIsLast
  <1> DEFINE bad == {n \in Nat : \E s \in SUBSET S : Cardinality(s) = n /\ g[s] # 0}
  <1>4. bad = {}
    <2> SUFFICES ASSUME bad # {} PROVE FALSE
      OBVIOUS
    <2>1. PICK m \in bad : \A j \in bad : m <= j
      <3>1. bad \in SUBSET Nat
        OBVIOUS
      <3> HIDE DEF bad
      <3> QED BY <3>1, LeastNumber
    <2>2. PICK s \in SUBSET S : Cardinality(s) = m /\ g[s] # 0
      BY <2>1
    <2>3. g[s] = IF s = {} THEN 0 ELSE f[Picked(s)] + g[s \ {Picked(s)}]
      BY <1>3 DEF Sums
    <2>4. s # {}
      BY <2>2, <2>3
    <2>5. PICK u : u = s \ {Picked(s)}
      OBVIOUS
    <2>6. Picked(s) \in S /\ u \in SUBSET S /\ m \in Nat \ {0} /\ Cardinality(u) = m - 1
      BY <2>2, <2>4, <2>5, PickedRemoved
    <2>7. g[u] = 0
      BY <2>1, <2>6
    <2> QED BY <1>2, <2>2, <2>3, <2>4, <2>5, <2>6, <2>7
  <1>5. S \in SUBSET S /\ Cardinality(S) \in Nat
    BY FS_CardinalityType
  <1>6. g[S] = 0
    BY <1>4, <1>5
  <1> QED BY <1>1, <1>3, <1>6

(* One use more of one key is one more in the sum. *)
LEMMA SumGrows ==
    ASSUME NEW S, IsFiniteSet(S), NEW f \in [S -> Nat], NEW k \in S
    PROVE  /\ F!SumFunction(f) \in Nat
           /\ F!SumFunction([f EXCEPT ![k] = @ + 1]) = F!SumFunction(f) + 1
  <1>1. PICK e : e = [f EXCEPT ![k] = @ + 1]
    OBVIOUS
  <1>2. /\ DOMAIN f = S /\ DOMAIN e = S
        /\ \A x \in S : f[x] \in Nat /\ e[x] = IF x = k THEN f[x] + 1 ELSE f[x]
    BY <1>1
  <1>3. PICK g : Sums(g, f, SUBSET S) /\ F!SumFunction(f) = g[S]
    BY <1>2, SumIsLast
  <1>4. PICK h : Sums(h, e, SUBSET S) /\ F!SumFunction(e) = h[S]
    BY <1>2, SumIsLast
  <1> DEFINE One(s) == IF k \in s THEN 1 ELSE 0
             Good(s) == g[s] \in Nat /\ h[s] = g[s] + One(s)
             bad == {n \in Nat : \E s \in SUBSET S : Cardinality(s) = n /\ ~Good(s)}
  <1>5. bad = {}
    <2> SUFFICES ASSUME bad # {} PROVE FALSE
      OBVIOUS
    <2>1. PICK m \in bad : \A j \in bad : m <= j
      <3>1. bad \in SUBSET Nat
        OBVIOUS
      <3> HIDE DEF bad
      <3> QED BY <3>1, LeastNumber
    <2>2. PICK s \in SUBSET S : Cardinality(s) = m /\ ~Good(s)
      BY <2>1
    <2>3. /\ g[s] = IF s = {} THEN 0 ELSE f[Picked(s)] + g[s \ {Picked(s)}]
          /\ h[s] = IF s = {} THEN 0 ELSE e[Picked(s)] + h[s \ {Picked(s)}]
      BY <1>3, <1>4 DEF Sums
    <2>4. s # {}
      <3>1. ~(k \in {})
        OBVIOUS
      <3> QED BY <2>2, <2>3, <3>1
    <2>5. PICK u, x : u = s \ {x} /\ x = Picked(s)
      OBVIOUS
    <2>6. x \in s /\ u \in SUBSET S /\ m \in Nat \ {0} /\ Cardinality(u) = m - 1
      BY <2>2, <2>4, <2>5, PickedRemoved
    <2>7. Good(u)
      <3>1. m - 1 \in Nat /\ m - 1 \notin bad
        BY <2>1, <2>6
      <3> HIDE DEF Good
      <3> QED BY <2>6, <3>1
    <2>8. g[s] = f[x] + g[u] /\ h[s] = e[x] + h[u]
      BY <2>3, <2>4, <2>5
    <2>9. f[x] \in Nat /\ e[x] = IF x = k THEN f[x] + 1 ELSE f[x]
      BY <1>2, <2>6
    <2>10. CASE x = k
      <3>1. One(u) = 0 /\ One(s) = 1
        BY <2>5, <2>6, <2>10
      <3> QED BY <2>2, <2>7, <2>8, <2>9, <2>10, <3>1
    <2>11. CASE x # k
      <3>1. One(u) = One(s)
        BY <2>5, <2>6, <2>11
      <3> QED BY <2>2, <2>7, <2>8, <2>9, <2>11, <3>1
    <2> QED BY <2>10, <2>11
  <1>6. S \in SUBSET S /\ Cardinality(S) \in Nat
    BY FS_CardinalityType
  <1>7. Good(S)
    <2> HIDE DEF Good
    <2> QED BY <1>5, <1>6
  <1> QED BY <1>1, <1>3, <1>4, <1>7

(* The records of the log a that are the tenant's. *)
Matching(a, tenant) == {i \in DOMAIN a : a[i].tenant = tenant}

(* The loop of AuditExport: what it has put out after n records. *)
Exports(out, a, tenant, m) ==
    out = [n \in 0..m |-> IF n = 0 THEN <<>>
                          ELSE IF a[n].tenant = tenant THEN Append(out[n - 1], a[n])
                          ELSE out[n - 1]]

(* The loop ends, with one record for each that matches. *)
LEMMA ExportsExist ==
    ASSUME NEW a, NEW tenant, NEW len \in Nat
    PROVE  \E out : Exports(out, a, tenant, len)
  <1> DEFINE bad == {n \in Nat : ~\E out : Exports(out, a, tenant, n)}
  <1> SUFFICES ASSUME bad # {} PROVE FALSE
    OBVIOUS
  <1>1. PICK m \in bad : \A j \in bad : m <= j
    <2>1. bad \in SUBSET Nat
      OBVIOUS
    <2> HIDE DEF bad
    <2> QED BY <2>1, LeastNumber
  <1>2. CASE m = 0
    <2>1. PICK out : out = [n \in 0..0 |-> <<>>]
      OBVIOUS
    <2>2. Exports(out, a, tenant, 0)
      BY <2>1 DEF Exports
    <2> QED BY <1>1, <1>2, <2>2
  <1>3. CASE m # 0
    <2>1. m \in Nat /\ m - 1 \in Nat /\ m - 1 \notin bad
      BY <1>1, <1>3
    <2>2. PICK out : Exports(out, a, tenant, m - 1)
      BY <2>1
    <2>3. PICK more : more = [n \in 0..m |-> IF n = 0 THEN <<>>
                                ELSE IF a[n].tenant = tenant THEN Append(out[n - 1], a[n])
                                ELSE out[n - 1]]
      OBVIOUS
    <2>4. ASSUME NEW n \in 0..(m - 1) PROVE more[n] = out[n]
      <3>1. n \in 0..m
        BY <2>1
      <3>2. out[n] = IF n = 0 THEN <<>>
                     ELSE IF a[n].tenant = tenant THEN Append(out[n - 1], a[n])
                     ELSE out[n - 1]
        BY <2>2 DEF Exports
      <3> HIDE DEF bad
      <3> QED BY <2>3, <3>1, <3>2
    <2>5. \A n \in 0..m : n # 0 => more[n - 1] = out[n - 1]
      BY <2>1, <2>4
    <2>6. Exports(more, a, tenant, m)
      BY <2>3, <2>5 DEF Exports
    <2> QED BY <1>1, <2>6
  <1> QED BY <1>2, <1>3

(* The first n records of a log that belong to one tenant. *)
MatchingOf(a, tenant, n) == {i \in 1..n : a[i].tenant = tenant}

(* One more record adds itself to the matching ones or nothing. *)
LEMMA MatchingUpto ==
    ASSUME NEW a, NEW tenant, NEW n \in Nat \ {0}
    PROVE  /\ Cardinality(MatchingOf(a, tenant, n - 1)) \in Nat
           /\ Cardinality(MatchingOf(a, tenant, n)) =
                IF a[n].tenant = tenant THEN Cardinality(MatchingOf(a, tenant, n - 1)) + 1
                ELSE Cardinality(MatchingOf(a, tenant, n - 1))
  <1> DEFINE M == MatchingOf(a, tenant, n - 1)
             L == MatchingOf(a, tenant, n)
  <1>1. IsFiniteSet(1..(n - 1))
    BY FS_Interval
  <1>2. IsFiniteSet(M) /\ Cardinality(M) \in Nat
    <2>1. M \subseteq 1..(n - 1)
      BY DEF MatchingOf
    <2> HIDE DEF M
    <2> QED BY <1>1, <2>1, FS_Subset, FS_CardinalityType
  <1>3. CASE a[n].tenant = tenant
    <2>1. L = M \cup {n} /\ n \notin M
      BY <1>3 DEF MatchingOf
    <2>2. Cardinality(L) = Cardinality(M) + 1
      <3> HIDE DEF L, M
      <3> QED BY <1>2, <2>1, FS_AddElement
    <2> QED BY <1>2, <1>3, <2>2
  <1>4. CASE a[n].tenant # tenant
    <2>1. L = M
      BY <1>4 DEF MatchingOf
    <2> QED BY <1>2, <1>4, <2>1
  <1> QED BY <1>3, <1>4

(* An export has one record for each that matches. *)
LEMMA ExportCounts ==
    ASSUME NEW T, NEW a \in Seq(T), NEW tenant, NEW out, Exports(out, a, tenant, Len(a))
    PROVE  Len(out[Len(a)]) = Cardinality(Matching(a, tenant))
  <1>1. PICK len \in Nat : len = Len(a) /\ DOMAIN a = 1..len
    BY LenProperties
  <1> DEFINE Upper(n) == MatchingOf(a, tenant, n)
             Good(n) == out[n] \in Seq(T) /\ Len(out[n]) = Cardinality(Upper(n))
             bad == {n \in 0..len : ~Good(n)}
  <1>2. ASSUME NEW n \in 0..len
        PROVE  out[n] = IF n = 0 THEN <<>>
                        ELSE IF a[n].tenant = tenant THEN Append(out[n - 1], a[n])
                        ELSE out[n - 1]
    BY <1>1, <1>2 DEF Exports
  <1>3. Good(0)
    <2>1. Upper(0) = {}
      BY DEF MatchingOf
    <2>2. out[0] = <<>>
      BY <1>2, 0 \in 0..len
    <2>3. out[0] \in Seq(T) /\ Len(out[0]) = 0
      BY <2>2
    <2>4. Cardinality(Upper(0)) = 0
      <3> HIDE DEF Upper
      <3> QED BY <2>1, FS_EmptySet
    <2> QED BY <2>3, <2>4
  <1>4. ASSUME NEW n \in 1..len, Good(n - 1) PROVE Good(n)
    <2>1. n \in Nat \ {0} /\ n \in 0..len /\ a[n] \in T
      BY <1>1, ElementOfSeq
    <2>2. PICK before, now, r : before = out[n - 1] /\ now = out[n] /\ r = a[n]
      OBVIOUS
    <2>3. PICK M, L : M = Upper(n - 1) /\ L = Upper(n)
      OBVIOUS
    <2>4. /\ Cardinality(M) \in Nat
          /\ Cardinality(L) = IF r.tenant = tenant THEN Cardinality(M) + 1 ELSE Cardinality(M)
      BY <2>1, <2>2, <2>3, MatchingUpto
    <2>5. before \in Seq(T) /\ Len(before) = Cardinality(M)
      BY <1>4, <2>2, <2>3
    <2>6. now = IF r.tenant = tenant THEN Append(before, r) ELSE before
      BY <1>2, <2>1, <2>2
    <2>7. Append(before, r) \in Seq(T) /\ Len(Append(before, r)) = Len(before) + 1
      BY <2>1, <2>2, <2>5, AppendProperties
    <2>8. now \in Seq(T) /\ Len(now) = Cardinality(L)
      BY <2>4, <2>5, <2>6, <2>7
    <2> QED BY <2>2, <2>3, <2>8
  <1>5. bad = {}
    <2> HIDE DEF Good
    <2> SUFFICES ASSUME bad # {} PROVE FALSE
      OBVIOUS
    <2>1. PICK m \in bad : \A j \in bad : m <= j
      <3>1. bad \in SUBSET Nat
        OBVIOUS
      <3> HIDE DEF bad
      <3> QED BY <3>1, LeastNumber
    <2>2. m \in 1..len
      BY <1>3, <2>1
    <2>3. m - 1 \in 0..len /\ m - 1 \notin bad
      BY <2>1, <2>2
    <2> QED BY <1>4, <2>1, <2>2, <2>3
  <1>6. Good(len)
    <2> HIDE DEF Good
    <2> QED BY <1>5
  <1>7. Upper(len) = Matching(a, tenant)
    BY <1>1 DEF Matching, MatchingOf
  <1> QED BY <1>1, <1>6, <1>7

(* AuditExport for one tenant, of the log as it is. *)
LEMMA ExportIsCount ==
    ASSUME TypeOK, NEW tenant \in Tenants
    PROVE  Len(AuditExport(tenant)) = Cardinality(Matching(audit, tenant))
  <1>1. audit \in Seq(AuditSet) /\ Len(audit) \in Nat
    BY LenProperties DEF TypeOK, BooksOK
  <1> DEFINE out == CHOOSE o : Exports(o, audit, tenant, Len(audit))
  <1>2. Exports(out, audit, tenant, Len(audit))
    BY <1>1, ExportsExist
  <1>3. AuditExport(tenant) = out[Len(audit)]
    BY NamesNotEmpty DEF AuditExport, Exports
  <1> HIDE DEF out
  <1> QED BY <1>1, <1>2, <1>3, ExportCounts

(* The inductive invariant: a counter is the number of records that name   *)
(* it, and both maps add up to the length of the log.                      *)
UsageInv ==
    /\ \A t \in Tenants : tenantInvocations[t] = Cardinality(Matching(audit, t))
    /\ \A c \in CapabilityIDs :
         capabilityInvocations[c] = Cardinality({i \in DOMAIN audit : audit[i].capability = c})
    /\ F!SumFunction(tenantInvocations) = Len(audit)
    /\ F!SumFunction(capabilityInvocations) = Len(audit)

(* One position more among those of a log that qualify. *)
LEMMA CountGrows ==
    ASSUME NEW n \in Nat, NEW old \in SUBSET (1..n)
    PROVE  Cardinality(old) \in Nat /\ Cardinality(old \cup {n + 1}) = Cardinality(old) + 1
  <1>1. IsFiniteSet(1..n) /\ n + 1 \notin old
    BY FS_Interval
  <1>2. IsFiniteSet(old) /\ Cardinality(old) \in Nat
    BY <1>1, FS_Subset, FS_CardinalityType
  <1> QED BY <1>1, <1>2, FS_AddElement

(* The commit of one call books it alike in all four. *)
LEMMA CommitKeepsUsage ==
    ASSUME TypeOK, UsageInv, NEW r \in Calls, InvokeCommit(r)
    PROVE  UsageInv'
  <1>1. PICK rec \in AuditSet :
          /\ audit' = Append(audit, rec)
          /\ tenantInvocations' = [tenantInvocations EXCEPT ![rec.tenant] = @ + 1]
          /\ capabilityInvocations' = [capabilityInvocations EXCEPT ![rec.capability] = @ + 1]
    <2>1. AuditRecord(inv[r]) \in AuditSet
      BY LiveTyped, ResponseType DEF InvokeCommit, TypeOK, CallsOK
    <2>2. /\ AuditRecord(inv[r]).tenant = inv[r].head.tenant
          /\ AuditRecord(inv[r]).capability = inv[r].capability
      BY DEF AuditRecord
    <2> QED BY <2>1, <2>2 DEF InvokeCommit, RecordSuccess, CountInvocation
  <1>2. /\ tenantInvocations \in [Tenants -> Nat] /\ capabilityInvocations \in [CapabilityIDs -> Nat]
        /\ audit \in Seq(AuditSet) /\ rec.tenant \in Tenants /\ rec.capability \in CapabilityIDs
    BY DEF TypeOK, BooksOK, AuditSet
  <1>3. PICK n \in Nat : n = Len(audit) /\ DOMAIN audit = 1..n
    BY <1>2, LenProperties
  <1>4. /\ Len(audit') = n + 1 /\ DOMAIN audit' = 1..(n + 1) /\ audit'[n + 1] = rec
        /\ \A i \in 1..n : audit'[i] = audit[i]
    BY <1>1, <1>2, <1>3, AppendProperties
  <1>5. ASSUME NEW t \in Tenants
        PROVE  tenantInvocations'[t] = Cardinality(Matching(audit', t))
    <2>1. PICK old, new : old = Matching(audit, t) /\ new = Matching(audit', t)
      OBVIOUS
    <2>2. old \in SUBSET (1..n)
      BY <1>3, <2>1 DEF Matching
    <2>3. tenantInvocations'[t] = IF rec.tenant = t THEN tenantInvocations[t] + 1
                                  ELSE tenantInvocations[t]
      BY <1>1, <1>2
    <2>4. CASE rec.tenant = t
      <3>1. new = old \cup {n + 1}
        BY <1>3, <1>4, <2>1, <2>4 DEF Matching
      <3> QED BY <2>1, <2>2, <2>3, <2>4, <3>1, CountGrows DEF UsageInv
    <2>5. CASE rec.tenant # t
      <3>1. new = old
        BY <1>3, <1>4, <2>1, <2>5 DEF Matching
      <3> QED BY <2>1, <2>3, <2>5, <3>1 DEF UsageInv
    <2> QED BY <2>4, <2>5
  <1>6. ASSUME NEW c \in CapabilityIDs
        PROVE  capabilityInvocations'[c] =
                 Cardinality({i \in DOMAIN audit' : audit'[i].capability = c})
    <2>1. PICK old, new : /\ old = {i \in DOMAIN audit : audit[i].capability = c}
                          /\ new = {i \in DOMAIN audit' : audit'[i].capability = c}
      OBVIOUS
    <2>2. old \in SUBSET (1..n) /\ capabilityInvocations[c] = Cardinality(old)
      BY <1>3, <2>1 DEF UsageInv
    <2>3. capabilityInvocations'[c] = IF rec.capability = c THEN capabilityInvocations[c] + 1
                                      ELSE capabilityInvocations[c]
      BY <1>1, <1>2
    <2>4. CASE rec.capability = c
      <3>1. new = old \cup {n + 1}
        BY <1>3, <1>4, <2>1, <2>4
      <3>2. capabilityInvocations'[c] = Cardinality(new)
        BY <2>2, <2>3, <2>4, <3>1, CountGrows
      <3> QED BY <2>1, <3>2
    <2>5. CASE rec.capability # c
      <3>1. new = old
        BY <1>3, <1>4, <2>1, <2>5
      <3>2. capabilityInvocations'[c] = Cardinality(new)
        BY <2>2, <2>3, <2>5, <3>1
      <3> QED BY <2>1, <3>2
    <2> QED BY <2>4, <2>5
  <1>7. F!SumFunction(tenantInvocations') = Len(audit')
    <2>1. PICK f, k : f = tenantInvocations /\ k = rec.tenant
      OBVIOUS
    <2>2. f \in [Tenants -> Nat] /\ k \in Tenants /\ IsFiniteSet(Tenants)
      BY <1>2, <2>1, NamesFinite
    <2>3. F!SumFunction([f EXCEPT ![k] = @ + 1]) = F!SumFunction(f) + 1
      BY <2>2, SumGrows
    <2>4. tenantInvocations' = [f EXCEPT ![k] = @ + 1]
      BY <1>1, <2>1
    <2>5. F!SumFunction(f) = n
      BY <1>3, <2>1 DEF UsageInv
    <2> QED BY <1>4, <2>3, <2>4, <2>5
  <1>8. F!SumFunction(capabilityInvocations') = Len(audit')
    <2>1. PICK f, k : f = capabilityInvocations /\ k = rec.capability
      OBVIOUS
    <2>2. f \in [CapabilityIDs -> Nat] /\ k \in CapabilityIDs /\ IsFiniteSet(CapabilityIDs)
      BY <1>2, <2>1, NamesFinite
    <2>3. F!SumFunction([f EXCEPT ![k] = @ + 1]) = F!SumFunction(f) + 1
      BY <2>2, SumGrows
    <2>4. capabilityInvocations' = [f EXCEPT ![k] = @ + 1]
      BY <1>1, <2>1
    <2>5. F!SumFunction(f) = n
      BY <1>3, <2>1 DEF UsageInv
    <2> QED BY <1>4, <2>3, <2>4, <2>5
  <1> QED BY <1>5, <1>6, <1>7, <1>8 DEF UsageInv

(* Usage and AuditExport agree in every state: each tenant's figure is the *)
(* length of its export, each capability's the number of its records, and  *)
(* the two maps add up to the same total, the length of the whole log.     *)
THEOREM UsageIsAudited == Spec => []UsageMatchesAudit
  <1>1. Init => UsageInv
    <2> SUFFICES ASSUME Init PROVE UsageInv
      OBVIOUS
    <2>1. audit = <<>> /\ DOMAIN audit = {} /\ Len(audit) = 0
      BY DEF Init
    <2>2. ASSUME NEW t \in Tenants
          PROVE  tenantInvocations[t] = Cardinality(Matching(audit, t))
      <3>1. Matching(audit, t) = {}
        BY <2>1 DEF Matching
      <3> QED BY <3>1, FS_EmptySet DEF Init
    <2>3. ASSUME NEW c \in CapabilityIDs
          PROVE  capabilityInvocations[c] =
                   Cardinality({i \in DOMAIN audit : audit[i].capability = c})
      <3>1. {i \in DOMAIN audit : audit[i].capability = c} = {}
        BY <2>1
      <3> QED BY <3>1, FS_EmptySet DEF Init
    <2>4. F!SumFunction(tenantInvocations) = 0 /\ F!SumFunction(capabilityInvocations) = 0
      BY NamesFinite, SumOfZeros DEF Init
    <2> QED BY <2>1, <2>2, <2>3, <2>4 DEF UsageInv
  <1>2. TypeOK /\ UsageInv /\ [Next]_vars => UsageInv'
    <2> SUFFICES ASSUME TypeOK, UsageInv, [Next]_vars
                 PROVE  UsageInv'
      OBVIOUS
    <2>1. CASE UNCHANGED books
      BY <2>1 DEF UsageInv, Matching, books
    <2>2. ASSUME NEW r \in Calls, Invoke(r), ~InvokeCommit(r)
          PROVE  UNCHANGED books
      BY <2>2 DEF Invoke, InvokeReject, InvokeReplay, InvokeAdmit, Work, InvokeTimeout
    <2>3. CASE ~\E r \in Calls : Invoke(r)
      BY <2>1, <2>3, OthersLeaveCalls
    <2> QED BY <2>1, <2>2, <2>3, CommitKeepsUsage
  <1>3. TypeOK /\ UsageInv => UsageMatchesAudit
    <2> SUFFICES ASSUME TypeOK, UsageInv PROVE UsageMatchesAudit
      OBVIOUS
    <2>1. ASSUME NEW t \in Tenants PROVE Usage.tenant[t] = Len(AuditExport(t))
      BY ExportIsCount DEF UsageInv, Usage
    <2>2. AuditExport(EmptyString) = audit
      BY DEF AuditExport
    <2> QED BY <2>1, <2>2 DEF UsageInv, UsageMatchesAudit, Usage
  <1> QED BY <1>1, <1>2, <1>3, TypeCorrect, PTL DEF Spec
=============================================================================
