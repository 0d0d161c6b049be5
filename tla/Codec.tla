------------------------------- MODULE Codec -------------------------------
(***************************************************************************)
(* What the bindings make of the service's values: the conversions between *)
(* the Go types and the protobuf messages (grpc_server.go), the status     *)
(* each binding gives a MIG error, and the arithmetic of deadlines.        *)
(*                                                                         *)
(* Names are taken modulo case and surrounding blanks where the code folds *)
(* them (strings.ToLower, TrimSpace).  A protobuf enumeration is open: an  *)
(* enumerator no switch knows may arrive, and gets the default.            *)
(***************************************************************************)
EXTENDS Envelope, Integers

CONSTANTS
    WireRange,          \* deadline_ms and interval_ms in mig.proto are uint32: 2^32
    IntRange,           \* int and time.Duration are int64: 2^64
    NanosPerMilli,      \* time.Millisecond: 1000000
    DefaultDeadline,    \* what Normalize puts for an absent deadline: 30000
    DefaultInterval     \* what Heartbeat suggests when asked for none: 5000

ASSUME WidthsAssumption ==
    /\ WireRange \in Nat \ {0} /\ IntRange \in Nat \ {0}
    /\ NanosPerMilli \in Nat \ {0}
    /\ DefaultDeadline \in 1..(WireRange - 1)
    /\ DefaultInterval \in 1..(WireRange - 1)
    /\ IntRange % 2 = 0
    /\ \A n \in 0..(WireRange - 1) : 2 * (n * NanosPerMilli) < IntRange

(* A switch over names with a default. *)
Lookup(table, name, default) ==
    IF name \in DOMAIN table THEN table[name] ELSE default

-----------------------------------------------------------------------------
(* Numbers and structs *)

(* uint32(n) *)
Unsigned(n) == n % WireRange

(* The value an int64 holds after an overflow. *)
Signed(n) ==
    LET m == n % IntRange IN IF 2 * m < IntRange THEN m ELSE m - IntRange

(* Mutant of Budget: the product is formed in 32 bits. *)
BudgetNarrow(deadline) == Unsigned(deadline * NanosPerMilli)

(* time.Duration(head.DeadlineMS) * time.Millisecond: how long Invoke      *)
(* waits.                                                                  *)
Budget(deadline) == Signed(deadline * NanosPerMilli)

(* A map of JSON-like values is a function from its keys to the Go types   *)
(* of the values.  structpb.NewStruct knows strings and []interface{}      *)
(* ("list"), not []string ("strings"): mapToStruct then gives up the whole *)
(* map.                                                                    *)
EmptyMap == <<>>

mapToStruct(m) ==
    IF \E k \in DOMAIN m : m[k] = "strings" THEN EmptyMap ELSE m

structToMap(s) == s

(* What the handlers of HTTP and gRPC put into the meta of every header. *)
PrincipalMeta(meta) ==
    Put(Put(meta, "idg.principal_subject", "string"), "idg.principal_scopes", "strings")

AddIDGMeta(meta) ==
    Put(Put(meta, "idg.product_tier", "string"), "idg.meter_key", "string")

-----------------------------------------------------------------------------
(* Headers: the fields of Envelope's Header, deadline_ms and meta. *)

messageHeaderToProto(h) ==
    [h EXCEPT !.deadline = Unsigned(@), !.meta = mapToStruct(@)]

(* Mutant of messageHeaderFromProto: the deadline is forgotten. *)
messageHeaderNoDeadline(h) == [h EXCEPT !.deadline = 0, !.meta = structToMap(@)]

messageHeaderFromProto(h) == [h EXCEPT !.meta = structToMap(@)]

(* Normalize and AddIDGMeta on a whole header. *)
Complete(h, fresh) ==
    [Normalize(h, fresh) EXCEPT !.deadline = IF @ <= 0 THEN DefaultDeadline ELSE @,
                                !.meta = AddIDGMeta(@)]

-----------------------------------------------------------------------------
(* Enumerations *)

bindingTypeFromProto(b) ==
    Lookup([BINDING_TYPE_GRPC |-> "grpc", BINDING_TYPE_NATS |-> "nats",
            BINDING_TYPE_HTTP |-> "http"], b, Blank)

bindingTypeToProto(b) ==
    Lookup([grpc |-> "BINDING_TYPE_GRPC", nats |-> "BINDING_TYPE_NATS",
            http |-> "BINDING_TYPE_HTTP"], b, "BINDING_TYPE_UNSPECIFIED")

bindingTypesFromProto(in) == [i \in DOMAIN in |-> bindingTypeFromProto(in[i])]

invocationModeToProto(mode) ==
    Lookup([unary |-> "INVOCATION_MODE_UNARY",
            server_stream |-> "INVOCATION_MODE_SERVER_STREAM",
            client_stream |-> "INVOCATION_MODE_CLIENT_STREAM",
            bidi_stream |-> "INVOCATION_MODE_BIDI_STREAM"],
           mode, "INVOCATION_MODE_UNSPECIFIED")

deliverySemanticsToProto(value) ==
    Lookup([best_effort |-> "DELIVERY_SEMANTICS_BEST_EFFORT",
            at_least_once |-> "DELIVERY_SEMANTICS_AT_LEAST_ONCE",
            exactly_once |-> "DELIVERY_SEMANTICS_EXACTLY_ONCE"],
           value, "DELIVERY_SEMANTICS_UNSPECIFIED")

capabilityToProto(d) ==
    [d EXCEPT !.modes = {invocationModeToProto(m) : m \in @},
              !.delivery = deliverySemanticsToProto(@)]

frameKindFromProto(kind) ==
    Lookup([FRAME_KIND_REQUEST |-> "request", FRAME_KIND_RESPONSE |-> "response",
            FRAME_KIND_EVENT |-> "event", FRAME_KIND_CONTROL |-> "control",
            FRAME_KIND_ERROR |-> "error"], kind, Blank)

frameKindToProto(kind) ==
    Lookup([request |-> "FRAME_KIND_REQUEST", response |-> "FRAME_KIND_RESPONSE",
            event |-> "FRAME_KIND_EVENT", control |-> "FRAME_KIND_CONTROL",
            error |-> "FRAME_KIND_ERROR"], kind, "FRAME_KIND_UNSPECIFIED")

(* The enumerators of MigErrorCode are named like the codes; a code of     *)
(* neither list becomes MIG_INTERNAL on the way out and on the way in.     *)
MigErrorCodes == StandardErrors \cup {"MIG_ERROR_CODE_UNSPECIFIED"}

migErrorCodeToProto(code) == IF code \in StandardErrors THEN code ELSE ErrorInternal

migErrorCodeFromProto(code) == IF code \in StandardErrors THEN code ELSE ErrorInternal

-----------------------------------------------------------------------------
(* Frames.  error is a code, or "" for the nil pointer. *)

migErrorToProto(e) == IF e = Blank THEN Blank ELSE migErrorCodeToProto(e)
migErrorFromProto(e) == IF e = Blank THEN Blank ELSE migErrorCodeFromProto(e)

streamFrameToProto(f) ==
    [f EXCEPT !.head = messageHeaderToProto(@), !.kind = frameKindToProto(@),
              !.payload = mapToStruct(@), !.error = migErrorToProto(@)]

streamFrameFromProto(f) ==
    [f EXCEPT !.head = messageHeaderFromProto(@), !.kind = frameKindFromProto(@),
              !.payload = structToMap(@), !.error = migErrorFromProto(@)]

-----------------------------------------------------------------------------
(* Statuses *)

(* grpcStatusFromAuthErr agrees with it on the two codes it can give. *)
grpcStatusFromMigError(code) ==
    Lookup([MIG_INVALID_REQUEST |-> "InvalidArgument", MIG_UNAUTHORIZED |-> "Unauthenticated",
            MIG_FORBIDDEN |-> "PermissionDenied", MIG_NOT_FOUND |-> "NotFound",
            MIG_UNSUPPORTED_CAPABILITY |-> "NotFound",
            MIG_VERSION_MISMATCH |-> "FailedPrecondition",
            MIG_TIMEOUT |-> "DeadlineExceeded", MIG_RATE_LIMITED |-> "ResourceExhausted",
            MIG_BACKPRESSURE |-> "ResourceExhausted", MIG_UNAVAILABLE |-> "Unavailable",
            MIG_INTERNAL |-> "Internal"],
           code, "Internal")

(* The status handleInvoke gives an error of the service. *)
invokeStatus(code) ==
    Lookup([MIG_UNSUPPORTED_CAPABILITY |-> 404, MIG_TIMEOUT |-> 504,
            MIG_RATE_LIMITED |-> 429, MIG_FORBIDDEN |-> 403], code, 400)
=============================================================================
