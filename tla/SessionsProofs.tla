--------------------------- MODULE SessionsProofs ---------------------------
(* Theorems about Tenancy and Sessions, for every value of their constants. *)
EXTENDS Sessions, SequenceTheorems, TLAPS

-----------------------------------------------------------------------------
(* Tenancy *)

(* A request that passes the middleware or the interceptor in jwt mode has *)
(* the tenant of its token as its principal's, and it is not empty.        *)
LEMMA GrantedIsClaimed ==
    ASSUME NEW auth, NEW x, AuthVerdict(auth, x) = Granted, AuthMode = "jwt"
    PROVE  PrincipalTenant(auth, x) = Claimed(auth) /\ Claimed(auth) # EmptyString
  BY DEF AuthVerdict, PrincipalTenant, Granted, ErrorUnauthorized, ErrorForbidden

LEMMA ClaimedTyped ==
    ASSUME NEW auth \in Authorization, NEW x \in MaybeTenant
    PROVE  Claimed(auth) \in MaybeTenant /\ PrincipalTenant(auth, x) \in MaybeTenant
  BY DEF Claimed, PrincipalTenant, Authorization

(* What a granted header carries, by binding. *)
LEMMA GrantedHeader ==
    ASSUME NEW b \in {"http", "grpc"}, NEW tenant, NEW principal, NEW x,
           HeaderVerdict(b, tenant, principal, x) = Granted
    PROVE  principal # EmptyString => HeaderTenant(b, tenant, principal, x) = principal
  BY DEF HeaderVerdict, HeaderTenant, applyPrincipalHeader, HTTPTenant,
         applyPrincipalHeaderFromPrincipal, GRPCTenant, Granted, ErrorForbidden,
         ErrorInvalidRequest

LEMMA UnknownNotEmpty == Unknown # EmptyString
  <1>1. <<"unknown">>[1] # <<"">>[1]
    OBVIOUS
  <1> QED BY <1>1 DEF Unknown, EmptyString

LEMMA GrantedNotEmpty ==
    ASSUME NEW b \in {"http", "grpc"}, NEW tenant, NEW principal, NEW x,
           HeaderVerdict(b, tenant, principal, x) = Granted
    PROVE  HeaderTenant(b, tenant, principal, x) # EmptyString
  BY UnknownNotEmpty
  DEF HeaderVerdict, HeaderTenant, applyPrincipalHeader, HTTPTenant, tenantFromRequest,
      applyPrincipalHeaderFromPrincipal, GRPCTenant, Granted, ErrorForbidden,
      ErrorInvalidRequest

(* HTTP and gRPC agree.  Their handlers are two pieces of code that        *)
(* complete and check the header's tenant, one against "unknown", the      *)
(* other against the empty string (auth.go:195, grpc_server.go:370).  For  *)
(* every request that authenticates, they grant or refuse alike and put    *)
(* the same tenant into the header, unless a tenant is called "unknown".   *)
THEOREM BindingsAgree ==
    ASSUME NEW auth \in Authorization, NEW x \in MaybeTenant, NEW tenant \in MaybeTenant,
           Unknown \notin TenantNames, AuthVerdict(auth, x) = Granted,
           NEW p, p = PrincipalTenant(auth, x)
    PROVE  /\ HeaderVerdict("http", tenant, p, x) = HeaderVerdict("grpc", tenant, p, x)
           /\ HeaderVerdict("http", tenant, p, x) = Granted =>
                HeaderTenant("http", tenant, p, x) = HeaderTenant("grpc", tenant, p, x)
  <1>1. p \in MaybeTenant
    BY ClaimedTyped
  <1>2. CASE p = EmptyString
    <2>1. AuthMode = "none" /\ x = EmptyString
      BY <1>2, GrantedIsClaimed, AuthAssumption DEF PrincipalTenant
    <2>2. Unknown \notin MaybeTenant
      BY UnknownNotEmpty DEF MaybeTenant
    <2> QED
      BY <1>2, <2>1, <2>2
      DEF HeaderVerdict, HeaderTenant, applyPrincipalHeader, HTTPTenant, tenantFromRequest,
          applyPrincipalHeaderFromPrincipal, GRPCTenant, Granted, ErrorInvalidRequest
  <1>3. CASE p # EmptyString
    <2>1. p # Unknown
      BY <1>1, UnknownNotEmpty DEF MaybeTenant
    <2> QED
      BY <1>1, <1>3, <2>1
      DEF HeaderVerdict, HeaderTenant, applyPrincipalHeader, HTTPTenant, tenantFromRequest,
          applyPrincipalHeaderFromPrincipal, GRPCTenant, Granted, ErrorForbidden,
          ErrorInvalidRequest
  <1> QED BY <1>2, <1>3

-----------------------------------------------------------------------------
(* Type correctness *)

(* Every handler needs two or three resources, the gauge first. *)
LEMMA NeedsTyped ==
    ASSUME NEW k \in Kinds
    PROVE  /\ Needs(k) \in Seq(Resources)
           /\ Len(Needs(k)) \in {2, 3}
           /\ Needs(k)[1] = "gauge"
  <1>1. CASE k = "sse"
    BY <1>1 DEF Needs, Resources
  <1>2. CASE k = "websocket"
    BY <1>2 DEF Needs, Resources
  <1>3. CASE k = "grpc_bidi"
    BY <1>3 DEF Needs, Resources
  <1>4. CASE k = "grpc_events"
    BY <1>4 DEF Needs, Resources
  <1> QED BY <1>1, <1>2, <1>3, <1>4 DEF Kinds

(* A handler that does not move keeps its stack. *)
LEMMA StackElsewhere ==
    ASSUME NEW x \in Conns, StackOK(x),
           stage'[x] = stage[x], held'[x] = held[x], request'[x] = request[x]
    PROVE  StackOK(x)'
  BY DEF StackOK, KindOf

(* What the handler of a request that was let in can rely on. *)
LEMMA RequestTyped ==
    ASSUME TypeOK, NEW c \in Conns, stage[c] # "idle"
    PROVE  /\ request[c] \in OpenRequest
           /\ KindOf(c) \in Kinds
           /\ Speaker(c) \in MaybeTenant
           /\ Claimed(request[c].auth) \in MaybeTenant
           /\ Binding(KindOf(c)) \in {"http", "grpc"}
  <1>1. request[c] \in OpenRequest
    BY DEF TypeOK, HandlersOK
  <1>2. KindOf(c) \in Kinds /\ request[c].auth \in Authorization
        /\ request[c].xTenant \in MaybeTenant
    BY <1>1 DEF OpenRequest, KindOf
  <1> QED BY <1>1, <1>2, ClaimedTyped DEF Speaker, Binding

(* The header of a frame, completed. *)
LEMMA FrameHeadTyped ==
    ASSUME TypeOK, NEW c \in Conns, stage[c] # "idle", NEW f \in Frames
    PROVE  FrameHead(c, f) \in ReplyHead
  <1>1. f \in Frame
    BY SessionsTyped
  <1>2. /\ Speaker(c) \in MaybeTenant /\ Binding(KindOf(c)) \in {"http", "grpc"}
        /\ request[c].xTenant \in MaybeTenant
    BY RequestTyped DEF OpenRequest
  <1>3. f.tenant \in MaybeTenant /\ f.id \in MessageIDs \cup {EmptyString}
    BY <1>1 DEF Frame
  <1>4. HeaderTenant(Binding(KindOf(c)), f.tenant, Speaker(c), request[c].xTenant)
          \in MaybeTenant \cup {Unknown}
    BY <1>2, <1>3 DEF HeaderTenant, HTTPTenant, GRPCTenant, tenantFromRequest
  <1> QED BY <1>3, <1>4 DEF FrameHead, ReplyHead

(* Opening, acquiring and releasing keep the handlers' types. *)
LEMMA OpenKeepsHandlers ==
    ASSUME TypeOK, NEW c \in Conns, NEW q \in OpenRequests, Open(c, q)
    PROVE  HandlersOK'
  <1>1. q \in OpenRequest /\ q.kind \in Kinds
    BY SessionsTyped DEF OpenRequest
  <1>2. /\ stage' \in [Conns -> Stages]
        /\ DOMAIN request' = DOMAIN request \cup {c}
        /\ request' \in [DOMAIN request' -> OpenRequest]
        /\ request'[c] = q
        /\ held' = held
    BY <1>1 DEF Open, TypeOK, HandlersOK, Put, Stages
  <1>3. ASSUME NEW x \in Conns
        PROVE  StackOK(x)'
    <2>1. CASE x # c
      <3>1. stage'[x] = stage[x] /\ held'[x] = held[x] /\ StackOK(x)
        BY <1>2, <2>1 DEF Open, TypeOK, HandlersOK
      <3>2. CASE x \in DOMAIN request
        BY <2>1, <3>1, <3>2, StackElsewhere DEF Open, Put
      <3>3. CASE x \notin DOMAIN request
        BY <3>1, <3>3 DEF TypeOK, HandlersOK, StackOK
      <3> QED BY <3>2, <3>3
    <2>2. CASE x = c
      <3>1. held'[c] = <<>> /\ stage'[c] \in {"opening", "closed"} /\ KindOf(c)' = q.kind
        BY <1>2 DEF Open, TypeOK, HandlersOK, StackOK, KindOf
      <3>2. Len(<<>>) = 0
        OBVIOUS
      <3>3. Len(Needs(q.kind)) \in {2, 3}
        BY <1>1, NeedsTyped
      <3> QED BY <2>2, <3>1, <3>2, <3>3 DEF StackOK
    <2> QED BY <2>1, <2>2
  <1> QED BY <1>2, <1>3 DEF HandlersOK, TypeOK, Open

LEMMA AcquireKeepsHandlers ==
    ASSUME TypeOK, NEW c \in Conns, Acquire(c)
    PROVE  HandlersOK' /\ NextNeed(c) \in Resources /\ KindOf(c) \in Kinds
  <1> DEFINE all == Needs(KindOf(c))
             n == Len(held[c])
  <1>1. KindOf(c) \in Kinds /\ stage[c] = "opening"
    BY RequestTyped DEF Acquire
  <1>2. all \in Seq(Resources) /\ Len(all) \in {2, 3}
    BY <1>1, NeedsTyped
  <1>3. /\ held[c] \in Seq(Resources) /\ n \in Nat /\ n < Len(all)
        /\ \A i \in 1..n : held[c][i] = all[i]
    BY <1>1, LenProperties DEF TypeOK, HandlersOK, StackOK
  <1>4. NextNeed(c) = all[n + 1] /\ NextNeed(c) \in Resources
    <2>1. n + 1 \in 1..Len(all)
      BY <1>2, <1>3
    <2> QED BY <1>2, <2>1, ElementOfSeq DEF NextNeed
  <1> HIDE DEF all, n
  <1>5. /\ held' = [held EXCEPT ![c] = Append(@, NextNeed(c))]
        /\ stage' = [stage EXCEPT ![c] = IF n + 1 = Len(all) THEN "serving" ELSE "opening"]
        /\ request' = request
    BY DEF Acquire, n, all
  <1>6. /\ held'[c] = Append(held[c], all[n + 1])
        /\ Len(held'[c]) = n + 1
        /\ \A i \in 1..(n + 1) : held'[c][i] = all[i]
    <2>1. held'[c] = Append(held[c], all[n + 1])
      BY <1>4, <1>5 DEF TypeOK, HandlersOK
    <2>2. /\ Len(Append(held[c], all[n + 1])) = n + 1
          /\ \A i \in 1..n : Append(held[c], all[n + 1])[i] = held[c][i]
          /\ Append(held[c], all[n + 1])[n + 1] = all[n + 1]
      BY <1>3, <1>4, AppendProperties DEF n
    <2> QED BY <1>3, <2>1, <2>2
  <1>7. ASSUME NEW x \in Conns
        PROVE  StackOK(x)'
    <2>1. CASE x # c
      BY <1>5, <2>1, StackElsewhere DEF TypeOK, HandlersOK
    <2>2. CASE x = c
      <3>1. stage'[c] = IF n + 1 = Len(all) THEN "serving" ELSE "opening"
        BY <1>5 DEF TypeOK, HandlersOK
      <3>2. Needs(KindOf(c))' = all
        BY <1>5 DEF KindOf, all
      <3> QED BY <1>2, <1>3, <1>6, <2>2, <3>1, <3>2 DEF StackOK
    <2> QED BY <2>1, <2>2
  <1>8. held' \in [Conns -> Seq(Resources)]
    BY <1>3, <1>4, <1>5, AppendProperties DEF TypeOK, HandlersOK
  <1> QED BY <1>1, <1>4, <1>5, <1>7, <1>8 DEF HandlersOK, TypeOK, Stages

LEMMA ReleaseKeepsHandlers ==
    ASSUME TypeOK, NEW c \in Conns, Release(c)
    PROVE  HandlersOK' /\ KindOf(c) \in Kinds
  <1> DEFINE all == Needs(KindOf(c))
             n == Len(held[c])
  <1>1. KindOf(c) \in Kinds /\ stage[c] = "closing"
    BY RequestTyped DEF Release
  <1>2. all \in Seq(Resources) /\ Len(all) \in {2, 3}
    BY <1>1, NeedsTyped
  <1>3. /\ held[c] \in Seq(Resources) /\ n \in 1..Len(all)
        /\ \A i \in 1..n : held[c][i] = all[i]
    BY <1>1, LenProperties DEF TypeOK, HandlersOK, StackOK
  <1> HIDE DEF all
  <1>4. /\ held' = [held EXCEPT ![c] = SubSeq(@, 1, n - 1)]
        /\ stage' = [stage EXCEPT ![c] = IF n = 1 THEN "closed" ELSE "closing"]
        /\ request' = request
    BY DEF Release
  <1>5. /\ SubSeq(held[c], 1, n - 1) \in Seq(Resources)
        /\ Len(SubSeq(held[c], 1, n - 1)) = n - 1
        /\ \A i \in 1..(n - 1) : SubSeq(held[c], 1, n - 1)[i] = held[c][i]
    BY <1>2, <1>3, SubSeqProperties
  <1>6. held'[c] = SubSeq(held[c], 1, n - 1)
    BY <1>4 DEF TypeOK, HandlersOK
  <1> HIDE DEF n
  <1>7. ASSUME NEW x \in Conns
        PROVE  StackOK(x)'
    <2>1. CASE x # c
      BY <1>4, <2>1, StackElsewhere DEF TypeOK, HandlersOK
    <2>2. CASE x = c
      <3>1. stage'[c] = IF n = 1 THEN "closed" ELSE "closing"
        BY <1>4 DEF TypeOK, HandlersOK
      <3>2. Needs(KindOf(c))' = all
        BY <1>4 DEF KindOf, all
      <3>3. n = 1 => held'[c] = <<>>
        BY <1>5, <1>6, EmptySeq
      <3>4. n \in Nat /\ n >= 1 /\ n <= Len(all) /\ Len(all) \in Nat
        BY <1>2, <1>3
      <3>5. Len(held'[c]) = n - 1
        BY <1>5, <1>6
      <3>6. n # 1 => Len(held'[c]) \in 1..Len(all)
        BY <3>4, <3>5
      <3>7. \A i \in 1..Len(held'[c]) : held'[c][i] = all[i]
        BY <1>3, <1>5, <1>6, <3>4, <3>5
      <3> QED BY <2>2, <3>1, <3>2, <3>3, <3>6, <3>7 DEF StackOK
    <2> QED BY <2>1, <2>2
  <1>8. held' \in [Conns -> Seq(Resources)]
    BY <1>4, <1>5 DEF TypeOK, HandlersOK
  <1> QED BY <1>1, <1>4, <1>7, <1>8 DEF HandlersOK, TypeOK, Stages

(* So does a move to a stage that goes with the same stack. *)
LEMMA MoveKeepsHandlers ==
    ASSUME TypeOK, NEW c \in Conns, stage[c] # "idle",
           NEW new \in {"serving", "calling", "answering", "closing"},
           stage' = [stage EXCEPT ![c] = new], held' = held, request' = request,
           \/ stage[c] \in {"serving", "calling", "answering"}
           \/ stage[c] = "opening" /\ new = "closing" /\ Len(held[c]) # 0
    PROVE  HandlersOK'
  <1>1. Len(Needs(KindOf(c))) \in {2, 3}
    BY RequestTyped, NeedsTyped
  <1>2. Len(held[c]) \in Nat
    BY LenProperties DEF TypeOK, HandlersOK
  <1>3. ASSUME NEW x \in Conns
        PROVE  StackOK(x)'
    <2>1. CASE x # c
      BY <2>1, StackElsewhere DEF TypeOK, HandlersOK
    <2>2. CASE x = c
      <3>1. stage'[c] = new /\ StackOK(c) /\ KindOf(c)' = KindOf(c)
        BY DEF TypeOK, HandlersOK, KindOf
      <3> QED BY <1>1, <1>2, <2>2, <3>1 DEF StackOK
    <2> QED BY <2>1, <2>2
  <1> QED BY <1>3 DEF TypeOK, HandlersOK, Stages

(* A handler gives up only after it has raised the gauge. *)
LEMMA GiveUpHolds ==
    ASSUME TypeOK, NEW c \in Conns, GiveUp(c)
    PROVE  Len(held[c]) # 0
  <1>1. Needs(KindOf(c))[1] = "gauge"
    BY RequestTyped, NeedsTyped DEF GiveUp
  <1>2. NextNeed(c) # "gauge"
    BY DEF GiveUp, Refused
  <1> QED BY <1>1, <1>2 DEF NextNeed

(* Reading a frame keeps the types, whatever is made of it. *)
LEMMA ReadKeepsTypes ==
    ASSUME TypeOK, NEW c \in Conns, NEW f \in Frames,
           RejectFrame(c, f) \/ RequestFrame(c, f) \/ CancelFrame(c, f)
    PROVE  TypeOK'
  <1>1. /\ ReadFrame(c, f) /\ stage[c] = "serving"
    BY DEF RejectFrame, RequestFrame, CancelFrame, ReadFrame
  <1>2. FrameHead(c, f) \in ReplyHead
    BY <1>1, FrameHeadTyped
  <1>3. PICK new \in {"calling", "answering"}, kind \in ReplyKinds, lenient \in BOOLEAN :
          /\ stage' = [stage EXCEPT ![c] = new]
          /\ current' = Put(current, c, [head |-> FrameHead(c, f), kind |-> kind,
                                         lenient |-> lenient])
    BY DEF RejectFrame, RequestFrame, CancelFrame, Answer, ReplyKinds
  <1>4. HandlersOK'
    BY <1>1, <1>3, MoveKeepsHandlers DEF ReadFrame
  <1>5. FramesOK'
    <2>1. read' \in [Conns -> Seq(ReplyHead)] /\ replies' = replies /\ garbled' = garbled
      BY <1>1, <1>2, AppendProperties DEF ReadFrame, TypeOK, FramesOK
    <2>2. ASSUME NEW x \in Conns, stage'[x] \in {"calling", "answering"}
          PROVE  /\ x \in DOMAIN current'
                 /\ current'[x].head \in ReplyHead
                 /\ current'[x].kind \in ReplyKinds
      BY <1>2, <1>3, <2>2 DEF TypeOK, FramesOK, HandlersOK, Put
    <2> QED BY <2>1, <2>2 DEF TypeOK, FramesOK
  <1>6. SharedOK'
    <2>1. f.id \in MessageIDs \cup {EmptyString}
      BY SessionsTyped DEF Frame
    <2>2. cancelled' \subseteq MessageIDs
      <3>1. \/ cancelled' = cancelled
            \/ f.id # EmptyString /\ cancelled' = cancelled \cup {f.id}
        BY DEF RejectFrame, RequestFrame, CancelFrame, CancelID
      <3> QED BY <2>1, <3>1 DEF TypeOK, SharedOK
    <2>3. ASSUME NEW op \in {"invoke", "cancel"}, RecordCall(c, f, op)
          PROVE  calls' \subseteq CallSet
      BY <1>1, <1>2, <2>3, RequestTyped
      DEF RecordCall, Call, CallSet, Operations, ReplyHead, TypeOK, SharedOK
    <2>4. calls' \subseteq CallSet
      BY <2>3 DEF RejectFrame, RequestFrame, CancelFrame, TypeOK, SharedOK
    <2> QED BY <1>1, <2>2, <2>4 DEF ReadFrame, books, TypeOK, SharedOK
  <1> QED BY <1>4, <1>5, <1>6 DEF TypeOK

(* So do the call's return and the writing of its reply. *)
LEMMA ReplyKeepsTypes ==
    ASSUME TypeOK, NEW c \in Conns, Return(c) \/ Write(c) \/ WriteFails(c)
    PROVE  TypeOK'
  <1>1. /\ stage[c] \in {"calling", "answering"}
        /\ current[c].head \in ReplyHead /\ current[c].kind \in ReplyKinds
    BY DEF Return, Write, WriteFails, TypeOK, FramesOK
  <1>2. PICK new \in {"answering", "serving", "closing"} :
          stage' = [stage EXCEPT ![c] = new]
    BY DEF Return, Answer, Write, WriteFails
  <1>3. HandlersOK'
    BY <1>1, <1>2, MoveKeepsHandlers DEF Return, Write, WriteFails
  <1>4. read' = read /\ garbled' = garbled /\ replies' \in [Conns -> Seq(Reply)]
    <2>1. [head |-> current[c].head, kind |-> current[c].kind] \in Reply
      BY <1>1 DEF Reply
    <2>2. CASE Write(c)
      <3>1. Append(replies[c], [head |-> current[c].head, kind |-> current[c].kind])
              \in Seq(Reply)
        BY <2>1, AppendProperties DEF TypeOK, FramesOK
      <3> QED BY <2>2, <3>1 DEF Write, TypeOK, FramesOK
    <2>3. CASE Return(c) \/ WriteFails(c)
      BY <2>3 DEF Return, WriteFails, TypeOK, FramesOK
    <2>4. read' = read /\ garbled' = garbled
      BY DEF Return, Write, WriteFails
    <2> QED BY <2>2, <2>3, <2>4
  <1>5. ASSUME NEW x \in Conns, stage'[x] \in {"calling", "answering"}
        PROVE  /\ x \in DOMAIN current'
               /\ current'[x].head \in ReplyHead
               /\ current'[x].kind \in ReplyKinds
    <2>1. CASE Return(c)
      <3>1. PICK kind \in ReplyKinds :
              current' = Put(current, c, [head |-> current[c].head, kind |-> kind,
                                          lenient |-> FALSE])
        BY <1>1, <2>1 DEF Return, Answer, ReplyKinds
      <3>2. x # c => stage'[x] = stage[x]
        BY <1>2
      <3> QED BY <1>1, <1>5, <3>1, <3>2 DEF TypeOK, FramesOK, Put
    <2>2. CASE Write(c) \/ WriteFails(c)
      <3>1. current' = Without(current, c)
        BY <2>2 DEF Write, WriteFails
      <3>2. stage'[c] \in {"serving", "closing"}
        BY <2>2 DEF Write, WriteFails, TypeOK, HandlersOK
      <3>3. x # c /\ stage'[x] = stage[x]
        BY <1>2, <1>5, <3>2
      <3> QED BY <1>5, <3>1, <3>3 DEF TypeOK, FramesOK, Without
    <2> QED BY <2>1, <2>2
  <1>6. FramesOK'
    BY <1>4, <1>5 DEF TypeOK, FramesOK
  <1>7. SharedOK'
    BY DEF Return, Write, WriteFails, books, TypeOK, SharedOK
  <1> QED BY <1>3, <1>6, <1>7 DEF TypeOK

(* Every step of a handler keeps the types. *)
LEMMA HandlerKeepsTypes ==
    ASSUME TypeOK, NEW c \in Conns, Handler(c)
    PROVE  TypeOK'
  <1>1. ASSUME NEW q \in OpenRequests, Open(c, q)
        PROVE  TypeOK'
    <2>1. stage'[c] \in {"opening", "closed"} /\ \A x \in Conns \ {c} : stage'[x] = stage[x]
      BY <1>1 DEF Open, TypeOK, HandlersOK
    <2> QED BY <1>1, <2>1, OpenKeepsHandlers DEF Open, books, frames, TypeOK, FramesOK, SharedOK
  <1>2. CASE Acquire(c)
    <2>1. HandlersOK' /\ KindOf(c) \in Kinds
      BY <1>2, AcquireKeepsHandlers
    <2>2. stage'[c] \in {"opening", "serving"} /\ \A x \in Conns \ {c} : stage'[x] = stage[x]
      BY <1>2 DEF Acquire, TypeOK, HandlersOK
    <2>3. FramesOK'
      BY <1>2, <2>2 DEF Acquire, frames, TypeOK, FramesOK
    <2>4. /\ activeStreams' \in [Kinds -> Int]
          /\ DOMAIN connections' \subseteq Conns /\ subscribers' \subseteq Conns
      BY <1>2, <2>1 DEF Acquire, Put, TypeOK, SharedOK
    <2> QED BY <1>2, <2>1, <2>3, <2>4 DEF Acquire, TypeOK, SharedOK
  <1>3. CASE Release(c)
    <2>1. HandlersOK' /\ KindOf(c) \in Kinds
      BY <1>3, ReleaseKeepsHandlers
    <2>2. stage'[c] \in {"closing", "closed"} /\ \A x \in Conns \ {c} : stage'[x] = stage[x]
      BY <1>3 DEF Release, TypeOK, HandlersOK
    <2>3. FramesOK'
      BY <1>3, <2>2 DEF Release, frames, TypeOK, FramesOK
    <2>4. /\ activeStreams' \in [Kinds -> Int]
          /\ DOMAIN connections' \subseteq Conns /\ subscribers' \subseteq Conns
      BY <1>3, <2>1 DEF Release, Undo, Without, TypeOK, SharedOK
    <2> QED BY <1>3, <2>1, <2>3, <2>4 DEF Release, TypeOK, SharedOK
  <1>4. CASE GiveUp(c) \/ Leave(c) \/ Undecodable(c)
    <2>1. stage' = [stage EXCEPT ![c] = "closing"]
      BY <1>4 DEF GiveUp, Leave, Undecodable
    <2>2. HandlersOK'
      BY <1>4, <2>1, GiveUpHolds, MoveKeepsHandlers DEF GiveUp, Leave, Undecodable
    <2>3. FramesOK'
      BY <1>4, <2>1 DEF GiveUp, Leave, Undecodable, frames, TypeOK, FramesOK, HandlersOK
    <2> QED BY <1>4, <2>2, <2>3 DEF GiveUp, Leave, Undecodable, books, TypeOK, SharedOK
  <1>5. CASE ClientLeaves(c)
    BY <1>5 DEF ClientLeaves, books, frames, TypeOK, HandlersOK, StackOK, KindOf, FramesOK,
                SharedOK
  <1> QED BY <1>1, <1>2, <1>3, <1>4, <1>5, ReadKeepsTypes, ReplyKeepsTypes DEF Handler

(* A one-shot request that is served, whichever the binding. *)
LEMMA UnaryServed ==
    ASSUME NEW q \in UnaryRequests, UnaryCall(q)
    PROVE  /\ q \in UnaryRequest
           /\ \E principal \in MaybeTenant, tenant \in MaybeTenant \cup {Unknown} :
                /\ Serve(q, principal, tenant)
                /\ tenant # EmptyString
                /\ principal # EmptyString => tenant = principal
                /\ AuthMode = "jwt" /\ q.binding # "nats" => tenant = Claimed(q.auth)
  <1> DEFINE p == PrincipalTenant(q.auth, q.xTenant)
  <1>1. /\ q \in UnaryRequest
        /\ q.binding \in {"http", "grpc", "nats"} /\ q.auth \in Authorization
        /\ q.xTenant \in MaybeTenant /\ q.tenant \in MaybeTenant
    BY SessionsTyped DEF UnaryRequest
  <1>2. p \in MaybeTenant
    BY <1>1, ClaimedTyped
  <1>3. ASSUME NEW b \in {"http", "grpc"}, AuthVerdict(q.auth, q.xTenant) = Granted,
               HeaderVerdict(b, q.tenant, p, q.xTenant) = Granted,
               Serve(q, p, HeaderTenant(b, q.tenant, p, q.xTenant))
        PROVE  \E principal \in MaybeTenant, tenant \in MaybeTenant \cup {Unknown} :
                 /\ Serve(q, principal, tenant)
                 /\ tenant # EmptyString
                 /\ principal # EmptyString => tenant = principal
                 /\ AuthMode = "jwt" /\ q.binding # "nats" => tenant = Claimed(q.auth)
    <2> DEFINE t == HeaderTenant(b, q.tenant, p, q.xTenant)
    <2>1. t \in MaybeTenant \cup {Unknown}
      BY <1>1, <1>2 DEF HeaderTenant, HTTPTenant, GRPCTenant, tenantFromRequest
    <2>2. t # EmptyString /\ (p # EmptyString => t = p)
      BY <1>3, GrantedNotEmpty, GrantedHeader
    <2>3. AuthMode = "jwt" => t = Claimed(q.auth)
      BY <1>3, <2>2, GrantedIsClaimed
    <2>4. Serve(q, p, t)
      BY <1>3
    <2> HIDE DEF t, p
    <2> QED BY <1>2, <2>1, <2>2, <2>3, <2>4
  <1>4. CASE HTTPCall(q)
    BY <1>1, <1>3, <1>4 DEF HTTPCall, HeaderVerdict, HeaderTenant
  <1>5. CASE GRPCCall(q)
    BY <1>1, <1>3, <1>5 DEF GRPCCall, HeaderVerdict, HeaderTenant
  <1>6. CASE NATSCall(q)
    <2> DEFINE t == NATSTenant(q.tenant, q.xTenant)
    <2>1. q.binding = "nats" /\ Serve(q, t, t)
      BY <1>6 DEF NATSCall
    <2>2. t \in MaybeTenant /\ t # EmptyString
      BY <1>1, <2>1, SessionsTyped DEF NATSTenant
    <2> HIDE DEF t
    <2> QED BY <1>1, <2>1, <2>2
  <1> QED BY <1>4, <1>5, <1>6 DEF UnaryCall

LEMMA UnaryKeepsTypes ==
    ASSUME TypeOK, NEW q \in UnaryRequests, UnaryCall(q)
    PROVE  TypeOK'
  <1>1. /\ q \in UnaryRequest
        /\ \E principal \in MaybeTenant, tenant \in MaybeTenant \cup {Unknown} :
             Serve(q, principal, tenant)
    BY UnaryServed
  <1>2. PICK principal \in MaybeTenant, tenant \in MaybeTenant \cup {Unknown} :
          Serve(q, principal, tenant)
    BY <1>1
  <1>3. Claimed(q.auth) \in MaybeTenant
    BY <1>1, ClaimedTyped DEF UnaryRequest
  <1>4. calls' \subseteq CallSet
    BY <1>1, <1>2, <1>3 DEF Serve, Call, CallSet, UnaryRequest, TypeOK, SharedOK
  <1>5. cancelled' \subseteq MessageIDs
    <2>1. q.id \in MessageIDs \cup {EmptyString}
      BY <1>1 DEF UnaryRequest
    <2> QED BY <1>2, <2>1 DEF Serve, CancelID, TypeOK, SharedOK
  <1> QED
    BY <1>2, <1>4, <1>5 DEF Serve, books, frames, TypeOK, HandlersOK, StackOK, KindOf, FramesOK,
                            SharedOK

(* Type correctness of the connection handlers (http.go, grpc_server.go):  *)
(* in particular every handler holds exactly the resources its stage calls *)
(* for, in the order in which it deferred their release.                   *)
THEOREM TypeCorrect == Spec => []TypeOK
  <1>1. Init => TypeOK
    <2> SUFFICES ASSUME Init PROVE TypeOK
      OBVIOUS
    <2>1. HandlersOK
      BY DEF Init, HandlersOK, StackOK, Stages
    <2>2. FramesOK
      BY DEF Init, FramesOK
    <2>3. SharedOK
      BY DEF Init, SharedOK, Procs
    <2> QED BY <2>1, <2>2, <2>3 DEF TypeOK
  <1>2. TypeOK /\ [Next]_vars => TypeOK'
    <2> SUFFICES ASSUME TypeOK, [Next]_vars PROVE TypeOK'
      OBVIOUS
    <2>1. ASSUME NEW c \in Conns, Handler(c) PROVE TypeOK'
      BY <2>1, HandlerKeepsTypes
    <2>2. ASSUME NEW q \in UnaryRequests, UnaryCall(q) PROVE TypeOK'
      BY <2>2, UnaryKeepsTypes
    <2>3. CASE Signal \/ GRPCStopped \/ Exit
      BY <2>3 DEF Signal, GRPCStopped, Exit, books, frames, TypeOK, HandlersOK, StackOK, KindOf,
                  FramesOK, SharedOK, Procs
    <2>4. CASE UNCHANGED vars
      BY <2>4 DEF vars, books, frames, TypeOK, HandlersOK, StackOK, KindOf, FramesOK, SharedOK
    <2> QED BY <2>1, <2>2, <2>3, <2>4 DEF Next
  <1> QED BY <1>1, <1>2, PTL DEF Spec

-----------------------------------------------------------------------------
(* Who speaks for whom *)

(* A handler that has been started passed the middleware. *)
Admitted ==
    \A c \in Conns : stage[c] \notin {"idle", "closed"} =>
        AuthVerdict(request[c].auth, request[c].xTenant) = Granted

(* SpeaksForPrincipal is not inductive: that a frame's call carries the    *)
(* tenant of the token needs that the connection was let in with it.       *)
SpeaksInv == TypeOK /\ Admitted /\ SpeaksForPrincipal

(* Admission is decided once and only Open decides it. *)
LEMMA HandlerKeepsAdmitted ==
    ASSUME TypeOK, Admitted, NEW c \in Conns, Handler(c)
    PROVE  Admitted'
  <1>1. ASSUME NEW q \in OpenRequests, Open(c, q)
        PROVE  Admitted'
    <2> SUFFICES ASSUME NEW x \in Conns, stage'[x] \notin {"idle", "closed"}
                 PROVE  AuthVerdict(request'[x].auth, request'[x].xTenant) = Granted
      BY DEF Admitted, AuthVerdict, Claimed
    <2>1. CASE x = c
      BY <1>1, <2>1 DEF Open, Put, TypeOK, HandlersOK
    <2>2. CASE x # c
      BY <1>1, <2>2 DEF Open, Put, Admitted, TypeOK, HandlersOK
    <2> QED BY <2>1, <2>2
  <1>2. ASSUME request' = request,
               \A x \in Conns : stage'[x] \notin {"idle", "closed"} =>
                                  stage[x] \notin {"idle", "closed"}
        PROVE  Admitted'
    BY <1>2 DEF Admitted, AuthVerdict, Claimed
  <1>3. CASE \/ Acquire(c) \/ GiveUp(c) \/ ClientLeaves(c) \/ Leave(c) \/ Release(c)
             \/ Undecodable(c)
    BY <1>2, <1>3
    DEF Acquire, GiveUp, ClientLeaves, Leave, Release, Undecodable, TypeOK, HandlersOK
  <1>4. ASSUME NEW f \in Frames, RejectFrame(c, f) \/ RequestFrame(c, f) \/ CancelFrame(c, f)
        PROVE  Admitted'
    BY <1>2, <1>4 DEF RejectFrame, RequestFrame, CancelFrame, ReadFrame, Answer, TypeOK,
                      HandlersOK
  <1>5. CASE Return(c) \/ Write(c) \/ WriteFails(c)
    BY <1>2, <1>5 DEF Return, Answer, Write, WriteFails, TypeOK, HandlersOK
  <1> QED BY <1>1, <1>3, <1>4, <1>5 DEF Handler

(* The condition SpeaksForPrincipal puts on one call. *)
Faithful(k) ==
    /\ k.tenant # EmptyString
    /\ k.principal # EmptyString => k.tenant = k.principal
    /\ AuthMode = "jwt" /\ k.binding # "nats" => k.tenant = k.claim

(* A frame that is let through makes such a call: this is where admission  *)
(* at the opening meets the check of the frame's header.                   *)
LEMMA FrameCallFaithful ==
    ASSUME TypeOK, Admitted, SpeaksForPrincipal, NEW c \in Conns, NEW f \in Frames,
           NEW op \in {"invoke", "cancel"}, stage[c] = "serving",
           FrameVerdict(c, f) = Granted, RecordCall(c, f, op)
    PROVE  SpeaksForPrincipal'
  <1> DEFINE b == Binding(KindOf(c))
             x == request[c].xTenant
             t == HeaderTenant(b, f.tenant, Speaker(c), x)
             k == Call(b, Claimed(request[c].auth), Speaker(c), t, op)
  <1>1. b \in {"http", "grpc"} /\ HeaderVerdict(b, f.tenant, Speaker(c), x) = Granted
    BY RequestTyped DEF FrameVerdict
  <1>2. t # EmptyString /\ (Speaker(c) # EmptyString => t = Speaker(c))
    BY <1>1, GrantedNotEmpty, GrantedHeader
  <1>3. AuthVerdict(request[c].auth, x) = Granted
    BY DEF Admitted
  <1>4. AuthMode = "jwt" => t = Claimed(request[c].auth)
    BY <1>2, <1>3, GrantedIsClaimed DEF Speaker
  <1>5. calls' = calls \cup {k}
    BY DEF RecordCall, FrameHead
  <1> HIDE DEF t, b, x
  <1>6. Faithful(k)
    BY <1>2, <1>4 DEF Faithful, Call
  <1>7. \A j \in calls : Faithful(j)
    BY DEF SpeaksForPrincipal, Faithful
  <1> QED BY <1>5, <1>6, <1>7 DEF SpeaksForPrincipal, Faithful

LEMMA UnaryCallFaithful ==
    ASSUME SpeaksForPrincipal, NEW q \in UnaryRequests, UnaryCall(q)
    PROVE  SpeaksForPrincipal'
  <1>1. PICK p \in MaybeTenant, t \in MaybeTenant \cup {Unknown} :
          /\ Serve(q, p, t)
          /\ t # EmptyString
          /\ p # EmptyString => t = p
          /\ AuthMode = "jwt" /\ q.binding # "nats" => t = Claimed(q.auth)
    BY UnaryServed
  <1> DEFINE k == Call(q.binding, Claimed(q.auth), p, t, q.operation)
  <1>2. Faithful(k)
    BY <1>1 DEF Faithful, Call
  <1>3. calls' = calls \cup {k}
    BY <1>1 DEF Serve
  <1>4. \A j \in calls : Faithful(j)
    BY DEF SpeaksForPrincipal, Faithful
  <1> HIDE DEF k
  <1> QED BY <1>2, <1>3, <1>4 DEF SpeaksForPrincipal, Faithful

(* The tenants are kept apart (auth.go:195, grpc_server.go:370,            *)
(* nats_binding.go:63): no call reaches the service for another tenant     *)
(* than its principal's, on any frame of any connection, for any sets of   *)
(* connections, frames and requests and in both authentication modes.      *)
THEOREM TenantsSeparate == Spec => []SpeaksForPrincipal
  <1>1. Init => Admitted /\ SpeaksForPrincipal
    BY DEF Init, Admitted, SpeaksForPrincipal
  <1>2. SpeaksInv /\ [Next]_vars => Admitted' /\ SpeaksForPrincipal'
    <2> SUFFICES ASSUME TypeOK, Admitted, SpeaksForPrincipal, [Next]_vars
                 PROVE  Admitted' /\ SpeaksForPrincipal'
      BY DEF SpeaksInv
    <2>1. ASSUME calls' = calls PROVE SpeaksForPrincipal'
      BY <2>1 DEF SpeaksForPrincipal
    <2>2. ASSUME stage' = stage, request' = request PROVE Admitted'
      BY <2>2 DEF Admitted, AuthVerdict, Claimed
    <2>3. ASSUME NEW c \in Conns, Handler(c)
          PROVE  Admitted' /\ SpeaksForPrincipal'
      <3>1. Admitted'
        BY <2>3, HandlerKeepsAdmitted
      <3>2. ASSUME NEW f \in Frames, RequestFrame(c, f) \/ CancelFrame(c, f)
            PROVE  SpeaksForPrincipal'
        <4>1. PICK op \in {"invoke", "cancel"} : RecordCall(c, f, op)
          BY <3>2 DEF RequestFrame, CancelFrame
        <4>2. stage[c] = "serving" /\ FrameVerdict(c, f) = Granted
          BY <3>2 DEF RequestFrame, CancelFrame, ReadFrame
        <4> QED BY <4>1, <4>2, FrameCallFaithful
      <3>3. \/ calls' = calls
            \/ \E f \in Frames : RequestFrame(c, f) \/ CancelFrame(c, f)
        BY <2>3 DEF Handler, Open, Acquire, GiveUp, ClientLeaves, Leave, Release, RejectFrame,
                    Return, Write, WriteFails, Undecodable
      <3> QED BY <2>1, <3>1, <3>2, <3>3
    <2>4. ASSUME NEW q \in UnaryRequests, UnaryCall(q)
          PROVE  Admitted' /\ SpeaksForPrincipal'
      BY <2>2, <2>4, UnaryCallFaithful DEF UnaryCall, HTTPCall, GRPCCall, NATSCall, Serve
    <2>5. CASE Signal \/ GRPCStopped \/ Exit \/ UNCHANGED vars
      BY <2>1, <2>2, <2>5 DEF Signal, GRPCStopped, Exit, vars
    <2> QED BY <2>3, <2>4, <2>5 DEF Next
  <1> QED BY <1>1, <1>2, TypeCorrect, PTL DEF Spec, SpeaksInv

-----------------------------------------------------------------------------
(* Shutdown *)

(* GracefulStop has drained gRPC for good (main.go:83): a gRPC handler is  *)
(* never running once the HTTP server is being stopped, because no new one *)
(* can be opened and a returned one does not come back.                    *)
THEOREM NoGRPCAfterStop == Spec => []ServiceOutlivesGRPC
  <1>1. Init => ServiceOutlivesGRPC
    BY DEF Init, ServiceOutlivesGRPC
  <1>2. TypeOK /\ ServiceOutlivesGRPC /\ [Next]_vars => ServiceOutlivesGRPC'
    <2> SUFFICES ASSUME TypeOK, ServiceOutlivesGRPC, [Next]_vars,
                        proc' \in {"http_stopping", "exited"},
                        NEW x \in Conns, x \in ActiveGRPC'
                 PROVE  FALSE
      BY DEF ServiceOutlivesGRPC, ActiveGRPC, Active
    <2>1. stage'[x] \notin {"idle", "closed"} /\ Binding(request'[x].kind) = "grpc"
      BY DEF ActiveGRPC, Active, KindOf, Binding
    <2>2. ASSUME proc \in {"http_stopping", "exited"} \/ ActiveGRPC = {},
                 stage[x] \notin {"idle", "closed"}, request'[x] = request[x]
          PROVE  FALSE
      BY <2>1, <2>2 DEF ServiceOutlivesGRPC, ActiveGRPC, Active, KindOf
    <2>3. ASSUME NEW c \in Conns, Handler(c) PROVE FALSE
      <3>1. proc' = proc
        BY <2>3 DEF Handler, Open, Acquire, GiveUp, ClientLeaves, Leave, Release, RejectFrame,
                    RequestFrame, CancelFrame, ReadFrame, Return, Write, WriteFails,
                    Undecodable
      <3>2. ASSUME NEW q \in OpenRequests, Open(c, q) PROVE FALSE
        <4>1. CASE x = c
          <5>1. request'[x] = q
            BY <3>2, <4>1 DEF Open, Put
          <5>2. Listening("grpc")
            BY <2>1, <3>2, <5>1 DEF Open
          <5> QED BY <3>1, <5>2 DEF Listening
        <4>2. CASE x # c
          <5>1. stage'[x] = stage[x]
            BY <3>2, <4>2 DEF Open, TypeOK, HandlersOK
          <5>2. x \in DOMAIN request
            BY <2>1, <5>1 DEF TypeOK, HandlersOK
          <5>3. request'[x] = request[x]
            BY <3>2, <4>2, <5>2 DEF Open, Put
          <5> QED BY <2>1, <2>2, <3>1, <5>1, <5>3
        <4> QED BY <4>1, <4>2
      <3>3. ASSUME request' = request, stage[x] \notin {"idle", "closed"} PROVE FALSE
        BY <2>2, <3>1, <3>3
      <3>4. CASE \/ Acquire(c) \/ GiveUp(c) \/ ClientLeaves(c) \/ Leave(c) \/ Release(c)
                 \/ Undecodable(c)
        BY <2>1, <3>3, <3>4
        DEF Acquire, GiveUp, ClientLeaves, Leave, Release, Undecodable, TypeOK, HandlersOK
      <3>5. ASSUME NEW f \in Frames, RejectFrame(c, f) \/ RequestFrame(c, f) \/ CancelFrame(c, f)
            PROVE  FALSE
        BY <2>1, <3>3, <3>5 DEF RejectFrame, RequestFrame, CancelFrame, ReadFrame, Answer,
                                TypeOK, HandlersOK
      <3>6. CASE Return(c) \/ Write(c) \/ WriteFails(c)
        BY <2>1, <3>3, <3>6 DEF Return, Answer, Write, WriteFails, TypeOK, HandlersOK
      <3> QED BY <2>3, <3>2, <3>4, <3>5, <3>6 DEF Handler
    <2>4. ASSUME NEW q \in UnaryRequests, UnaryCall(q) PROVE FALSE
      BY <2>1, <2>2, <2>4 DEF UnaryCall, HTTPCall, GRPCCall, NATSCall, Serve
    <2>5. CASE Signal \/ Exit \/ UNCHANGED vars
      BY <2>1, <2>2, <2>5 DEF Signal, Exit, vars
    <2>6. CASE GRPCStopped
      BY <2>1, <2>2, <2>6 DEF GRPCStopped
    <2> QED BY <2>3, <2>4, <2>5, <2>6 DEF Next
  <1> QED BY <1>1, <1>2, TypeCorrect, PTL DEF Spec
=============================================================================
