--------------------------- MODULE BindingsProofs ---------------------------
(* The HTTP handlers and the gRPC server agree: the theorem about          *)
(* Registry's BindingsAgree, for every value of the constants.             *)
EXTENDS GatewayProofs

(* The same request, come over the other binding. *)
LEMMA OtherRequest ==
    ASSUME NEW q, Wellformed(q), Portable(q), NEW o, o = OtherBinding(q)
    PROVE  /\ o.op = q.op /\ o.cred = q.cred /\ o.head = q.head /\ o.decodes = q.decodes
           /\ q.binding = "http" => o.binding = "grpc"
           /\ q.binding = "grpc" => o.binding = "http"
           /\ q.op # "hello" => o.body = q.body
  BY DEF OtherBinding, Wellformed

(* A hello also names its bindings as they are named there. *)
LEMMA OtherHello ==
    ASSUME NEW q, Wellformed(q), Portable(q), q.op = "hello", NEW o, o = OtherBinding(q)
    PROVE  /\ o.body.versions = q.body.versions
           /\ DOMAIN o.body.bindings = DOMAIN q.body.bindings
           /\ \A i \in DOMAIN q.body.bindings :
                o.body.bindings[i] = IF q.binding = "http"
                                     THEN bindingTypeToProto(q.body.bindings[i])
                                     ELSE bindingTypeFromProto(q.body.bindings[i])
  <1>1. DOMAIN q.body = {"versions", "bindings"}
    BY DEF Wellformed, BodyFields
  <1>2. PICK names : names = [i \in DOMAIN q.body.bindings |->
                                IF q.binding = "http" THEN bindingTypeToProto(q.body.bindings[i])
                                ELSE bindingTypeFromProto(q.body.bindings[i])]
    OBVIOUS
  <1>3. o = [q EXCEPT !.binding = IF @ = "http" THEN "grpc" ELSE "http",
                      !.body = [q.body EXCEPT !.bindings = names]]
    BY <1>2 DEF OtherBinding
  <1>4. o.body = [q.body EXCEPT !.bindings = names]
    BY <1>3 DEF Wellformed
  <1> QED BY <1>1, <1>2, <1>4

-----------------------------------------------------------------------------
(* Refusals and headers *)

(* The two completions of the header's tenant, one of which takes the word *)
(* "unknown" and the other the empty string for its absence.               *)
LEMMA HeadersAgree ==
    ASSUME NEW auth \in Authorization, NEW x \in MaybeTenant, NEW tenant \in MaybeTenant,
           AuthVerdict(auth, x) = Granted, NEW p, p = PrincipalTenant(auth, x),
           Unknown \notin {tenant, p}
    PROVE  /\ HeaderVerdict("http", tenant, p, x) = HeaderVerdict("grpc", tenant, p, x)
           /\ HeaderVerdict("http", tenant, p, x) = Granted =>
                HeaderTenant("http", tenant, p, x) = HeaderTenant("grpc", tenant, p, x)
  <1>1. Unknown # EmptyString
    <2>1. <<"unknown">>[1] # <<"">>[1]
      OBVIOUS
    <2> QED BY <2>1 DEF Unknown, EmptyString
  <1>2. CASE p = EmptyString
    <2>1. x = EmptyString
      BY <1>2, AuthAssumption
      DEF PrincipalTenant, AuthVerdict, Granted, ErrorUnauthorized, ErrorForbidden
    <2> QED
      BY <1>1, <1>2, <2>1
      DEF HeaderVerdict, HeaderTenant, applyPrincipalHeader, HTTPTenant, tenantFromRequest,
          applyPrincipalHeaderFromPrincipal, GRPCTenant, Granted, ErrorInvalidRequest
  <1>3. CASE p # EmptyString
    BY <1>3
    DEF HeaderVerdict, HeaderTenant, applyPrincipalHeader, HTTPTenant, tenantFromRequest,
        applyPrincipalHeaderFromPrincipal, GRPCTenant, Granted, ErrorForbidden,
        ErrorInvalidRequest
  <1> QED BY <1>2, <1>3

LEMMA SamePrincipal ==
    ASSUME NEW q, NEW o, o.cred = q.cred
    PROVE  Principal(o) = Principal(q)
  BY DEF Principal

(* Both bindings refuse with the same code, or neither refuses and both    *)
(* pass on the same header.                                                *)
LEMMA RefusalsAgree ==
    ASSUME NEW q, Wellformed(q), Portable(q), NEW o, o = OtherBinding(q)
    PROVE  /\ Refusal(o) = Refusal(q)
           /\ Refusal(q) = Granted => Received(o) = Received(q)
  <1>1. /\ o.op = q.op /\ o.cred = q.cred /\ o.head = q.head /\ o.decodes = q.decodes
        /\ \/ q.binding = "http" /\ o.binding = "grpc"
           \/ q.binding = "grpc" /\ o.binding = "http"
        /\ q.op # "hello" => o.body = q.body
    BY OtherRequest DEF Wellformed
  <1>2. /\ q.op \in MigOps /\ q.decodes = TRUE
        /\ q.op = "invoke" => q.body.capability # EmptyString
        /\ Unknown \notin {q.head.tenant, Principal(q).tenant}
    BY DEF Portable, Wellformed
  <1>3. q.cred.auth \in Authorization /\ q.cred.xTenant \in MaybeTenant
        /\ q.head.tenant \in MaybeTenant /\ DOMAIN q.head = HeaderFields
    BY DEF Wellformed
  <1>4. PICK p, x, t : p = Principal(q).tenant /\ x = q.cred.xTenant /\ t = q.head.tenant
    OBVIOUS
  <1>5. p = PrincipalTenant(q.cred.auth, x)
    BY <1>4 DEF Principal
  <1>6. Principal(o) = Principal(q)
    BY <1>1, SamePrincipal
  <1>7. \A r \in {q, o} :
          Refusal(r) = IF AuthVerdict(q.cred.auth, x) # Granted THEN AuthVerdict(q.cred.auth, x)
                       ELSE HeaderVerdict(r.binding, t, p, x)
    BY <1>1, <1>2, <1>4, <1>6 DEF Refusal
  <1>8. CASE AuthVerdict(q.cred.auth, x) # Granted
    BY <1>7, <1>8
  <1>9. CASE AuthVerdict(q.cred.auth, x) = Granted
    <2>1. /\ HeaderVerdict("http", t, p, x) = HeaderVerdict("grpc", t, p, x)
          /\ HeaderVerdict("http", t, p, x) = Granted =>
               HeaderTenant("http", t, p, x) = HeaderTenant("grpc", t, p, x)
      BY <1>2, <1>3, <1>4, <1>5, <1>9, HeadersAgree
    <2>2. Refusal(o) = Refusal(q)
      BY <1>1, <1>7, <1>9, <2>1
    <2>3. ASSUME Refusal(q) = Granted PROVE Received(o) = Received(q)
      <3>1. HeaderTenant(o.binding, t, p, x) = HeaderTenant(q.binding, t, p, x)
        BY <1>1, <1>7, <1>9, <2>1, <2>3
      <3>2. \A r \in {q, o} :
              Received(r) = [q.head EXCEPT !.tenant = HeaderTenant(r.binding, t, p, x),
                                           !.meta = PrincipalMeta(@)]
        BY <1>1, <1>3, <1>4, <1>6 DEF Received, messageHeaderFromProto, structToMap, HeaderFields
      <3> QED BY <3>1, <3>2
    <2> QED BY <2>2, <2>3
  <1> QED BY <1>8, <1>9

-----------------------------------------------------------------------------
(* Results *)

(* The names of the bindings survive the wire; any other name is Blank     *)
(* after it, which is no binding either.                                   *)
LEMMA BindingNames ==
    ASSUME NEW b
    PROVE  LET back == bindingTypeFromProto(bindingTypeToProto(b))
               known == {"grpc", "nats", "http"}
           IN  (b \in known <=> back \in known) /\ (b \in known => back = b)
  <1>1. Blank \notin {"grpc", "nats", "http"}
    BY DEF Blank
  <1>2. CASE b \in {"grpc", "nats", "http"}
    BY <1>2 DEF bindingTypeFromProto, bindingTypeToProto, Lookup
  <1>3. CASE b \notin {"grpc", "nats", "http"}
    <2>1. bindingTypeToProto(b) = "BINDING_TYPE_UNSPECIFIED"
      BY <1>3 DEF bindingTypeToProto, Lookup
    <2>2. bindingTypeFromProto("BINDING_TYPE_UNSPECIFIED") = Blank
      BY DEF bindingTypeFromProto, Lookup
    <2> QED BY <1>1, <1>3, <2>1, <2>2
  <1> QED BY <1>2, <1>3

(* A set of positions has a first one. *)
LEMMA FirstPosition ==
    ASSUME NEW S \in SUBSET Nat, S # {}
    PROVE  \E i \in S : \A j \in S : i <= j
  <1> DEFINE R == OpToRel(<, Nat)
  <1>1. IsWellFoundedOn(R, Nat)
    BY NatLessThanWellFounded
  <1>2. R = {r \in Nat \X Nat : r[1] < r[2]}
    BY DEF OpToRel
  <1> HIDE DEF R
  <1>3. PICK i \in S : \A j \in S : ~(<<j, i>> \in R)
    BY <1>1, WFMin
  <1>4. ASSUME NEW j \in S, j < i PROVE FALSE
    BY <1>2, <1>3, <1>4
  <1> QED BY <1>3, <1>4

(* The choice of a binding depends on the known names and their places. *)
LEMMA SelectionAgrees ==
    ASSUME NEW a, NEW b, DOMAIN a = DOMAIN b, DOMAIN a \subseteq Nat,
           \A i \in DOMAIN a : /\ a[i] \in {"grpc", "nats", "http"}
                                    <=> b[i] \in {"grpc", "nats", "http"}
                               /\ a[i] \in {"grpc", "nats", "http"} => a[i] = b[i]
    PROVE  SelectedBinding(a) = SelectedBinding(b)
  <1> DEFINE Known(r) == {i \in DOMAIN r : r[i] \in {"grpc", "nats", "http"}}
             known == Known(a)
             First(S) == CHOOSE i \in S : \A j \in S : i <= j
             first == First(known)
  <1>1. Known(a) = Known(b)
    OBVIOUS
  <1>2. /\ SelectedBinding(a) = IF known = {} THEN "http" ELSE a[first]
        /\ SelectedBinding(b) = IF known = {} THEN "http" ELSE b[first]
    <2>1. \A r : SelectedBinding(r) = IF Known(r) = {} THEN "http" ELSE r[First(Known(r))]
      BY Zenon DEF SelectedBinding
    <2> HIDE DEF Known, First
    <2> QED BY <1>1, <2>1
  <1>3. known # {} => first \in known
    <2>1. known \in SUBSET Nat
      OBVIOUS
    <2> HIDE DEF known
    <2>2. known # {} => \E i \in known : \A j \in known : i <= j
      BY <2>1, FirstPosition
    <2> QED BY <2>2
  <1>4. \A i \in known : a[i] = b[i]
    OBVIOUS
  <1> HIDE DEF known, first
  <1> QED BY <1>2, <1>3, <1>4

LEMMA HelloAgrees ==
    ASSUME NEW q, Wellformed(q), Portable(q), q.op = "hello", NEW o, o = OtherBinding(q),
           Received(o) = Received(q)
    PROVE  Hello(o) = Hello(q)
  <1>1. /\ o.body.versions = q.body.versions
        /\ DOMAIN o.body.bindings = DOMAIN q.body.bindings
        /\ \A i \in DOMAIN q.body.bindings :
             o.body.bindings[i] = IF q.binding = "http"
                                  THEN bindingTypeToProto(q.body.bindings[i])
                                  ELSE bindingTypeFromProto(q.body.bindings[i])
    BY OtherHello
  <1>2. \/ q.binding = "http" /\ o.binding = "grpc"
        \/ q.binding = "grpc" /\ o.binding = "http"
    BY OtherRequest DEF Wellformed
  <1>3. DOMAIN q.body.bindings \subseteq Nat
    BY DEF Wellformed
  <1>4. PICK a, b : a = RequestedBindings(q) /\ b = RequestedBindings(o)
    OBVIOUS
  <1>5. DOMAIN a = DOMAIN q.body.bindings /\ DOMAIN b = DOMAIN q.body.bindings
    BY <1>1, <1>4 DEF RequestedBindings, bindingTypesFromProto
  <1>6. \A i \in DOMAIN a :
          /\ a[i] \in {"grpc", "nats", "http"} <=> b[i] \in {"grpc", "nats", "http"}
          /\ a[i] \in {"grpc", "nats", "http"} => a[i] = b[i]
    <2>1. CASE q.binding = "http"
      <3>1. \A i \in DOMAIN a : /\ a[i] = q.body.bindings[i]
                                /\ b[i] = bindingTypeFromProto(bindingTypeToProto(a[i]))
        BY <1>1, <1>2, <1>4, <1>5, <2>1 DEF RequestedBindings, bindingTypesFromProto
      <3> QED BY <3>1, BindingNames
    <2>2. CASE q.binding = "grpc"
      BY <1>1, <1>2, <1>4, <1>5, <2>2 DEF RequestedBindings, bindingTypesFromProto
    <2> QED BY <1>2, <2>1, <2>2
  <1>7. SelectedBinding(a) = SelectedBinding(b)
    BY <1>3, <1>5, <1>6, SelectionAgrees
  <1> QED BY <1>1, <1>4, <1>7 DEF Hello

(* The four operations give the same result over both bindings. *)
LEMMA ResultsAgree ==
    ASSUME NEW q, Wellformed(q), Portable(q), NEW o, o = OtherBinding(q),
           Received(o) = Received(q)
    PROVE  Result(o) = Result(q)
  <1>1. /\ o.op = q.op /\ o.cred = q.cred
        /\ q.op # "hello" => o.body = q.body
    BY OtherRequest
  <1>2. Principal(o) = Principal(q)
    BY <1>1, SamePrincipal
  <1>3. q.op \in MigOps
    BY DEF Portable
  <1>4. CASE q.op = "hello"
    BY <1>1, <1>4, HelloAgrees DEF Result
  <1>5. CASE q.op = "discover"
    <2>1. \A id : Visible(o, id) <=> Visible(q, id)
      BY <1>1, <1>2, <1>5 DEF Visible
    <2>2. Discover(o) = Discover(q)
      BY <2>1 DEF Discover
    <2> QED BY <1>1, <1>5, <2>2 DEF Result
  <1>6. CASE q.op = "heartbeat"
    BY <1>1, <1>6 DEF Result, Heartbeat
  <1>7. CASE q.op = "invoke"
    BY <1>1, <1>2, <1>7 DEF Result, Invoke
  <1> QED BY <1>3, <1>4, <1>5, <1>6, <1>7 DEF MigOps

-----------------------------------------------------------------------------
(* Errors on a stream *)

(* What the service refuses with is a MIG error. *)
LEMMA ResultCodes ==
    ASSUME NEW q, q.op \in MigOps
    PROVE  Result(q).code \in StandardErrors \cup {Granted}
  <1>1. \A body : Success(body).code = Granted
    BY DEF Success
  <1>2. \A c : Failure(c).code = c
    BY DEF Failure
  <1>3. \A v, r : r.code \in StandardErrors \cup {Granted} =>
          Checked(v, r).code \in StandardErrors \cup {Granted}
    BY <1>2 DEF Checked, StandardErrors
  <1>4. CASE q.op = "hello"
    <2>1. Hello(q).code \in StandardErrors \cup {Granted}
      BY <1>1, <1>2, <1>3 DEF Hello, StandardErrors
    <2> QED BY <1>4, <2>1 DEF Result
  <1>5. CASE q.op = "discover"
    <2>1. Discover(q).code \in StandardErrors \cup {Granted}
      BY <1>1, <1>3 DEF Discover
    <2> QED BY <1>5, <2>1 DEF Result
  <1>6. CASE q.op = "heartbeat"
    <2>1. Heartbeat(q).code \in StandardErrors \cup {Granted}
      BY <1>1, <1>3 DEF Heartbeat
    <2> QED BY <1>6, <2>1 DEF Result
  <1>7. CASE q.op = "invoke"
    <2>1. Invoke(q).code \in StandardErrors \cup {Granted}
      BY <1>1, <1>2, <1>3 DEF Invoke, StandardErrors
    <2> QED BY <1>7, <2>1 DEF Result
  <1> QED BY <1>4, <1>5, <1>6, <1>7 DEF MigOps

(* The scopes of the principal, a []string, cost a header its whole meta   *)
(* on the wire.                                                            *)
LEMMA MetaLost ==
    ASSUME NEW meta
    PROVE  mapToStruct(AddIDGMeta(PrincipalMeta(meta))) = EmptyMap
  <1> DEFINE m == AddIDGMeta(PrincipalMeta(meta))
  <1>1. "idg.principal_scopes" \in DOMAIN m /\ m["idg.principal_scopes"] = "strings"
    BY DEF AddIDGMeta, PrincipalMeta, Put
  <1> HIDE DEF m
  <1>2. mapToStruct(m) = EmptyMap
    BY <1>1 DEF mapToStruct
  <1> QED BY <1>2 DEF m

(* The header of an answer: its deadline fits the wire when the asked one  *)
(* does, and its meta is the one above.                                    *)
LEMMA AnsweredHead ==
    ASSUME NEW q, Wellformed(q), Portable(q), NEW n, NEW h, h = Answered(q, n)
    PROVE  /\ DOMAIN h = HeaderFields
           /\ h = [x \in HeaderFields |-> h[x]]
           /\ Unsigned(h.deadline) = h.deadline
           /\ mapToStruct(h.meta) = EmptyMap
  <1>1. DOMAIN q.head = HeaderFields /\ q.head.deadline \in 0..(WireRange - 1)
    BY DEF Wellformed, Portable
  <1>2. PICK r : r = Received(q)
    OBVIOUS
  <1>3. /\ DOMAIN r = HeaderFields /\ r.deadline = q.head.deadline
        /\ r.meta = PrincipalMeta(q.head.meta)
    BY <1>1, <1>2 DEF Received, messageHeaderFromProto, structToMap, HeaderFields
  <1>4. h = Complete(r, newMessageID(n))
    BY <1>2 DEF Answered
  <1>5. /\ DOMAIN h = HeaderFields
        /\ h = [x \in HeaderFields |-> h[x]]
        /\ h.deadline = IF r.deadline <= 0 THEN DefaultDeadline ELSE r.deadline
        /\ h.meta = AddIDGMeta(r.meta)
    BY <1>3, <1>4 DEF Complete, Normalize, HeaderFields
  <1>6. h.deadline \in 0..(WireRange - 1)
    BY <1>1, <1>3, <1>5, WidthsAssumption
  <1>7. Unsigned(h.deadline) = h.deadline
    BY <1>6, SmallRemainder, WidthsAssumption DEF Unsigned
  <1>8. mapToStruct(h.meta) = EmptyMap
    BY <1>3, <1>5, MetaLost
  <1> QED BY <1>5, <1>7, <1>8

(* A frame is read off the wire field by field. *)
LEMMA FrameRead ==
    ASSUME NEW head, NEW kind, NEW payload, NEW error
    PROVE  streamFrameFromProto([head |-> head, kind |-> kind, payload |-> payload,
                                 error |-> error])
             = [head |-> messageHeaderFromProto(head), kind |-> frameKindFromProto(kind),
                payload |-> structToMap(payload), error |-> migErrorFromProto(error)]
  <1> DEFINE Rec(w, x, y, z) == [head |-> w, kind |-> x, payload |-> y, error |-> z]
  <1>1. PICK a, b, c, d : /\ a = messageHeaderFromProto(head) /\ b = frameKindFromProto(kind)
                          /\ c = structToMap(payload) /\ d = migErrorFromProto(error)
    OBVIOUS
  <1>2. PICK r0 : r0 = Rec(head, kind, payload, error)
    OBVIOUS
  <1>3. PICK r1 : r1 = [r0 EXCEPT !.head = a]
    OBVIOUS
  <1>4. PICK r2 : r2 = [r1 EXCEPT !.kind = b]
    OBVIOUS
  <1>5. PICK r3 : r3 = [r2 EXCEPT !.payload = c]
    OBVIOUS
  <1>6. streamFrameFromProto(r0) = [r3 EXCEPT !.error = d]
    BY <1>1, <1>2, <1>3, <1>4, <1>5 DEF streamFrameFromProto
  <1>7. r1 = Rec(a, kind, payload, error)
    BY <1>2, <1>3
  <1>8. r2 = Rec(a, b, payload, error)
    BY <1>4, <1>7
  <1>9. r3 = Rec(a, b, c, error)
    BY <1>5, <1>8
  <1>10. [r3 EXCEPT !.error = d] = Rec(a, b, c, d)
    BY <1>9
  <1> QED BY <1>1, <1>2, <1>6, <1>10

(* An error frame arrives as it was sent, but for the meta. *)
LEMMA ErrorFrameKept ==
    ASSUME NEW h, DOMAIN h = HeaderFields, h = [x \in HeaderFields |-> h[x]],
           Unsigned(h.deadline) = h.deadline, mapToStruct(h.meta) = EmptyMap,
           NEW code \in StandardErrors, NEW f,
           f = [head |-> h, kind |-> "error", payload |-> EmptyMap, error |-> code]
    PROVE  streamFrameFromProto(streamFrameToProto(f)) = [f EXCEPT !.head.meta = EmptyMap]
  <1>1. frameKindFromProto(frameKindToProto("error")) = "error"
    BY DEF frameKindFromProto, frameKindToProto, Lookup
  <1>2. migErrorFromProto(migErrorToProto(code)) = code
    BY DEF migErrorFromProto, migErrorToProto, migErrorCodeFromProto, migErrorCodeToProto
  <1>3. structToMap(mapToStruct(EmptyMap)) = EmptyMap
    BY DEF mapToStruct, structToMap
  <1>4. messageHeaderFromProto(messageHeaderToProto(h)) = [h EXCEPT !.meta = EmptyMap]
    BY DEF messageHeaderFromProto, messageHeaderToProto, structToMap, HeaderFields
  <1>5. PICK wire : wire = streamFrameToProto(f)
    OBVIOUS
  <1>6. wire = [head |-> messageHeaderToProto(h), kind |-> frameKindToProto("error"),
                payload |-> mapToStruct(EmptyMap), error |-> migErrorToProto(code)]
    BY <1>5 DEF streamFrameToProto
  <1>7. streamFrameFromProto(wire) =
          [head |-> [h EXCEPT !.meta = EmptyMap], kind |-> "error", payload |-> EmptyMap,
           error |-> code]
    <2>1. streamFrameFromProto(wire) =
            [head |-> messageHeaderFromProto(messageHeaderToProto(h)),
             kind |-> frameKindFromProto(frameKindToProto("error")),
             payload |-> structToMap(mapToStruct(EmptyMap)),
             error |-> migErrorFromProto(migErrorToProto(code))]
      BY <1>6, FrameRead
    <2> QED BY <1>1, <1>2, <1>3, <1>4, <2>1
  <1>8. [f EXCEPT !.head.meta = EmptyMap] =
          [head |-> [h EXCEPT !.meta = EmptyMap], kind |-> "error", payload |-> EmptyMap,
           error |-> code]
    OBVIOUS
  <1> QED BY <1>5, <1>7, <1>8

-----------------------------------------------------------------------------
(* The two bindings agree (http.go:42-112, grpc_server.go:90-161): in any  *)
(* state of the service, for any request whose numbers fit the wire and    *)
(* whose tenant is not called "unknown", they refuse with the same code or *)
(* give the same result for the same tenant under the same header, and an  *)
(* error keeps its code through the frames of a stream.                    *)
THEOREM HandlersAgree == Spec => []BindingsAgree
  <1>1. TypeInv => BindingsAgree
    <2> SUFFICES ASSUME TypeInv, NEW n \in DOMAIN queue, Portable(queue[n]),
                        NEW q, q = queue[n], NEW o, o = OtherBinding(q)
                 PROVE  /\ Refusal(o) = Refusal(q)
                        /\ Refusal(q) = Granted =>
                             /\ Result(o) = Result(q)
                             /\ Answered(o, n) = Answered(q, n)
                             /\ LET f == [head |-> Answered(q, n), kind |-> "error",
                                          payload |-> EmptyMap, error |-> Result(q).code]
                                IN  Result(q).code # Granted =>
                                      streamFrameFromProto(streamFrameToProto(f))
                                        = [f EXCEPT !.head.meta = EmptyMap]
      BY DEF BindingsAgree
    <2>1. Wellformed(q) /\ Portable(q) /\ q.op \in MigOps
      BY DEF TypeInv, RegistryTypeOK, Portable
    <2>2. /\ Refusal(o) = Refusal(q)
          /\ Refusal(q) = Granted => Received(o) = Received(q)
      BY <2>1, RefusalsAgree
    <2>3. ASSUME Refusal(q) = Granted
          PROVE  Result(o) = Result(q) /\ Answered(o, n) = Answered(q, n)
      BY <2>1, <2>2, <2>3, ResultsAgree DEF Answered
    <2>4. PICK h, code : h = Answered(q, n) /\ code = Result(q).code
      OBVIOUS
    <2>5. PICK f : f = [head |-> h, kind |-> "error", payload |-> EmptyMap, error |-> code]
      OBVIOUS
    <2>6. code # Granted =>
            streamFrameFromProto(streamFrameToProto(f)) = [f EXCEPT !.head.meta = EmptyMap]
      BY <2>1, <2>4, <2>5, AnsweredHead, ResultCodes, ErrorFrameKept
    <2> QED BY <2>2, <2>3, <2>4, <2>5, <2>6
  <1> QED BY <1>1, TypesHold, PTL
=============================================================================
