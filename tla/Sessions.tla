------------------------------ MODULE Sessions ------------------------------
(***************************************************************************)
(* The long-lived connections of the gateway, what they leave in its       *)
(* shared books, and the shutdown of the process:                          *)
(*                                                                         *)
(*   kind           handler                                                *)
(*   "sse"          handleSubscribe   (http.go)                            *)
(*   "websocket"    handleStream      (http.go)                            *)
(*   "grpc_bidi"    StreamInvoke      (grpc_server.go)                     *)
(*   "grpc_events"  Subscribe         (grpc_server.go)                     *)
(*                                                                         *)
(* A handler acquires its resources one by one (the gauge of active        *)
(* streams, a subscription, an entry in the list of connections), may give *)
(* up in between, and releases what it has in the reverse order: that is   *)
(* its stack of deferred calls.  The gauge is under the lock of the        *)
(* metrics, subscriptions and connections are under that of the service,   *)
(* but each step takes its lock anew, so handlers interleave between any   *)
(* two of them.  A websocket or a bidirectional stream then serves one     *)
(* frame after the other; what a subscription serves is the subject of     *)
(* EventBus.                                                               *)
(*                                                                         *)
(* main (cmd/migd/main.go) stops the gRPC server, then the HTTP server,    *)
(* then closes the service.                                                *)
(***************************************************************************)
EXTENDS Tenancy, Integers, FiniteSets

CONSTANTS
    Conns,          \* goroutines, each serving one connection
    MessageIDs,     \* message ids clients choose
    OpenRequests,   \* the requests that open a connection
    Frames,         \* the frames clients send
    UnaryRequests,  \* the one-shot requests of the three bindings
    MaxFrames       \* bound on the frames of one connection

Kinds == {"sse", "websocket", "grpc_bidi", "grpc_events"}
FrameKinds == {"websocket", "grpc_bidi"}
Resources == {"gauge", "socket", "subscription", "connection"}

Binding(kind) == IF kind \in {"sse", "websocket"} THEN "http" ELSE "grpc"

(* tenant: the header of a gRPC SubscribeRequest.  valid: the websocket    *)
(* handshake, or topic and cursor of a subscription, are in order.         *)
OpenRequest ==
    [kind : Kinds, auth : Authorization, xTenant : MaybeTenant,
     tenant : MaybeTenant, valid : BOOLEAN]

(* StreamFrame.  action is that of the payload of a control frame. *)
Frame ==
    [kind : {"request", "control", "other"}, action : {"cancel", "other"},
     id : MessageIDs \cup {EmptyString}, tenant : MaybeTenant]

(* The operations whose messages have a header with a tenant in it. *)
Operations == {"hello", "discover", "invoke", "publish", "cancel", "heartbeat"}

(* xTenant is the tenant of the subject for a NATS message, id the target  *)
(* of a cancellation.                                                      *)
UnaryRequest ==
    [binding : {"http", "grpc", "nats"}, auth : Authorization, xTenant : MaybeTenant,
     tenant : MaybeTenant, operation : Operations, id : MessageIDs \cup {EmptyString}]

ASSUME SessionsTyped ==
    /\ IsFiniteSet(Conns)
    /\ EmptyString \notin MessageIDs
    /\ OpenRequests \subseteq OpenRequest
    /\ Frames \subseteq Frame
    /\ UnaryRequests \subseteq UnaryRequest
    /\ \A q \in UnaryRequests : q.binding = "nats" => q.xTenant # EmptyString
    /\ MaxFrames \in Nat

VARIABLES
    stage,          \* where each handler is
    request,        \* the request that opened each connection
    held,           \* the resources each handler holds, in order of acquisition
    gone,           \* the connections whose client has left
    activeStreams,  \* the gauge mig_gateway_active_streams, by kind
    connections,    \* s.connections
    subscribers,    \* s.subscribers, the topics merged
    read,           \* the frames each handler has read, as their replies' headers
    current,        \* the call or the reply each handler is busy with
    replies,        \* the frames each handler has written
    garbled,        \* the connections that ended with a frame nobody could decode
    cancelled,      \* s.cancelled
    calls,          \* history: calls that reached the service, and for whom
    proc            \* where main is

books    == <<activeStreams, connections, subscribers>>
frames   == <<read, current, replies, garbled>>
vars     == <<stage, request, held, gone, books, frames, cancelled, calls, proc>>

-----------------------------------------------------------------------------
Init ==
    /\ stage = [c \in Conns |-> "idle"]
    /\ request = <<>>
    /\ held = [c \in Conns |-> <<>>]
    /\ gone = {}
    /\ activeStreams = [k \in Kinds |-> 0]
    /\ connections = <<>>
    /\ subscribers = {}
    /\ read = [c \in Conns |-> <<>>]
    /\ current = <<>>
    /\ replies = [c \in Conns |-> <<>>]
    /\ garbled = {}
    /\ cancelled = {}
    /\ calls = {}
    /\ proc = "running"

KindOf(c) == request[c].kind

(* Principal.TenantID of a connection: fixed when it is opened. *)
Speaker(c) == PrincipalTenant(request[c].auth, request[c].xTenant)

(* What the handler of a kind acquires, in this order. *)
Needs(kind) ==
    CASE kind = "sse"         -> <<"gauge", "subscription", "connection">>
      [] kind = "websocket"   -> <<"gauge", "socket", "connection">>
      [] kind = "grpc_bidi"   -> <<"gauge", "connection">>
      [] kind = "grpc_events" -> <<"gauge", "connection", "subscription">>

(* The early returns before a resource is acquired: Service.Subscribe or   *)
(* the websocket handshake fails, or the header of a gRPC subscription     *)
(* names the wrong tenant.                                                 *)
Refused(c, resource) ==
    \/ resource \in {"subscription", "socket"} /\ ~request[c].valid
    \/ /\ resource = "connection" /\ KindOf(c) = "grpc_events"
       /\ applyPrincipalHeaderFromPrincipal(request[c].tenant, Speaker(c)) # Granted

(* The tenant shown for a connection. *)
ListedTenant(c) ==
    CASE KindOf(c) \in {"sse", "websocket"} ->
           IF Speaker(c) # EmptyString THEN Speaker(c)
           ELSE tenantFromRequest(request[c].xTenant)
      [] KindOf(c) = "grpc_bidi" ->
           IF Speaker(c) # EmptyString THEN Speaker(c) ELSE Unknown
      [] KindOf(c) = "grpc_events" -> GRPCTenant(request[c].tenant, Speaker(c))

(* gRPC's listener is closed by GracefulStop, HTTP's by Shutdown, the      *)
(* connection to NATS by Close.                                            *)
Listening(binding) ==
    \/ proc = "running"
    \/ proc = "grpc_stopping" /\ binding # "grpc"
    \/ proc = "http_stopping" /\ binding = "nats"

(* The middleware or the interceptor lets the request pass or not. *)
Open(c, q) ==
    /\ stage[c] = "idle"
    /\ Listening(Binding(q.kind))
    /\ request' = Put(request, c, q)
    /\ stage' = [stage EXCEPT ![c] = IF AuthVerdict(q.auth, q.xTenant) = Granted
                                     THEN "opening" ELSE "closed"]
    /\ UNCHANGED <<held, gone, books, frames, cancelled, calls, proc>>

NextNeed(c) == Needs(KindOf(c))[Len(held[c]) + 1]

(* RegisterConnection, Service.Subscribe, IncActiveStream. *)
Acquire(c) ==
    LET resource == NextNeed(c) IN
    /\ stage[c] = "opening"
    /\ ~Refused(c, resource)
    /\ held' = [held EXCEPT ![c] = Append(@, resource)]
    /\ activeStreams' = [activeStreams EXCEPT
                           ![KindOf(c)] = IF resource = "gauge" THEN @ + 1 ELSE @]
    /\ connections' = IF resource = "connection"
                      THEN Put(connections, c, [kind |-> KindOf(c), tenant |-> ListedTenant(c)])
                      ELSE connections
    /\ subscribers' = IF resource = "subscription" THEN subscribers \cup {c} ELSE subscribers
    /\ stage' = [stage EXCEPT ![c] = IF Len(held[c]) + 1 = Len(Needs(KindOf(c)))
                                     THEN "serving" ELSE "opening"]
    /\ UNCHANGED <<request, gone, frames, cancelled, calls, proc>>

(* Mutant of GiveUp: returns before the calls it should have deferred. *)
GiveUpLeaking(c) ==
    /\ stage[c] = "opening"
    /\ Refused(c, NextNeed(c))
    /\ stage' = [stage EXCEPT ![c] = "closed"]
    /\ UNCHANGED <<request, held, gone, books, frames, cancelled, calls, proc>>

GiveUp(c) ==
    /\ stage[c] = "opening"
    /\ Refused(c, NextNeed(c))
    /\ stage' = [stage EXCEPT ![c] = "closing"]
    /\ UNCHANGED <<request, held, gone, books, frames, cancelled, calls, proc>>

(* One deferred call: DecActiveStream, unsubscribe, unregisterConn. *)
Undo(c, resource) ==
    /\ activeStreams' = [activeStreams EXCEPT
                           ![KindOf(c)] = IF resource = "gauge" THEN @ - 1 ELSE @]
    /\ connections' = IF resource = "connection"
                      THEN Without(connections, c) ELSE connections
    /\ subscribers' = IF resource = "subscription" THEN subscribers \ {c} ELSE subscribers

(* Mutant of Release: first one first. *)
ReleaseInOrder(c) ==
    /\ stage[c] = "closing"
    /\ Undo(c, Head(held[c]))
    /\ held' = [held EXCEPT ![c] = Tail(@)]
    /\ stage' = [stage EXCEPT ![c] = IF Len(held[c]) = 1 THEN "closed" ELSE "closing"]
    /\ UNCHANGED <<request, gone, frames, cancelled, calls, proc>>

(* The deferred calls, last one first. *)
Release(c) ==
    /\ stage[c] = "closing"
    /\ Undo(c, held[c][Len(held[c])])
    /\ held' = [held EXCEPT ![c] = SubSeq(@, 1, Len(@) - 1)]
    /\ stage' = [stage EXCEPT ![c] = IF Len(held[c]) = 1 THEN "closed" ELSE "closing"]
    /\ UNCHANGED <<request, gone, frames, cancelled, calls, proc>>

(* The client closes the connection or is cut off; the handler need not    *)
(* notice at once.                                                         *)
ClientLeaves(c) ==
    /\ stage[c] \notin {"idle", "closed"}
    /\ gone' = gone \cup {c}
    /\ UNCHANGED <<stage, request, held, books, frames, cancelled, calls, proc>>

(* Mutant of Leave: an error of the websocket is not the end of it. *)
LeaveUnlessSocket(c) ==
    /\ stage[c] = "serving"
    /\ c \in gone
    /\ KindOf(c) # "websocket"
    /\ stage' = [stage EXCEPT ![c] = "closing"]
    /\ UNCHANGED <<request, held, gone, books, frames, cancelled, calls, proc>>

(* The read fails, the stream is at its end, or the context is done. *)
Leave(c) ==
    /\ stage[c] = "serving"
    /\ c \in gone
    /\ stage' = [stage EXCEPT ![c] = "closing"]
    /\ UNCHANGED <<request, held, gone, books, frames, cancelled, calls, proc>>

-----------------------------------------------------------------------------
(* Frames *)

(* The header of a frame after its tenant has been filled in. *)
FrameHead(c, f) ==
    [id |-> f.id,
     tenant |-> HeaderTenant(Binding(KindOf(c)), f.tenant, Speaker(c), request[c].xTenant)]

FrameVerdict(c, f) ==
    HeaderVerdict(Binding(KindOf(c)), f.tenant, Speaker(c), request[c].xTenant)

(* A call that reaches the service: made for which principal, by a client  *)
(* with which claim, and with which tenant in its header.                  *)
Call(binding, claim, principal, tenant, operation) ==
    [binding |-> binding, claim |-> claim, principal |-> principal,
     tenant |-> tenant, operation |-> operation]

RecordCall(c, f, operation) ==
    calls' = calls \cup {Call(Binding(KindOf(c)), Claimed(request[c].auth), Speaker(c),
                              FrameHead(c, f).tenant, operation)}

(* ReadJSON or Recv cannot decode what the client sent: the handler        *)
(* returns without a reply, and the client may still be there.             *)
Undecodable(c) ==
    /\ stage[c] = "serving"
    /\ KindOf(c) \in FrameKinds
    /\ stage' = [stage EXCEPT ![c] = "closing"]
    /\ garbled' = garbled \cup {c}
    /\ UNCHANGED <<request, held, gone, books, read, current, replies, cancelled, calls, proc>>

(* The handler reads a frame; what a client sent before it left may still  *)
(* be read.                                                                *)
ReadFrame(c, f) ==
    /\ stage[c] = "serving"
    /\ KindOf(c) \in FrameKinds
    /\ Len(read[c]) < MaxFrames
    /\ read' = [read EXCEPT ![c] = Append(@, FrameHead(c, f))]
    /\ UNCHANGED <<request, held, gone, books, replies, garbled, proc>>

(* The handler is about to write a reply.  lenient: it goes on when the    *)
(* write fails, as handleStream does after the errors it finds itself.     *)
Answer(c, head, kind, lenient) ==
    /\ stage' = [stage EXCEPT ![c] = "answering"]
    /\ current' = Put(current, c, [head |-> head, kind |-> kind, lenient |-> lenient])

(* Does the switch of the handler know what to do with the frame?  A       *)
(* websocket looks at the action of a control frame, a gRPC stream takes   *)
(* every control frame for a cancellation.                                 *)
Supported(c, f) ==
    /\ f.kind # "other"
    /\ f.kind = "control" /\ KindOf(c) = "websocket" => f.action = "cancel"

(* Mutant of RejectFrame: the websocket skips an unknown action. *)
RejectFrameSilently(c, f) ==
    /\ ReadFrame(c, f)
    /\ FrameVerdict(c, f) # Granted \/ ~Supported(c, f)
    /\ IF FrameVerdict(c, f) = Granted /\ f.kind = "control"
       THEN UNCHANGED <<stage, current>>
       ELSE Answer(c, FrameHead(c, f), "error", KindOf(c) = "websocket")
    /\ UNCHANGED <<cancelled, calls>>

RejectFrame(c, f) ==
    /\ ReadFrame(c, f)
    /\ FrameVerdict(c, f) # Granted \/ ~Supported(c, f)
    /\ Answer(c, FrameHead(c, f), "error", KindOf(c) = "websocket")
    /\ UNCHANGED <<cancelled, calls>>

(* A request: the handler is inside Service.Invoke until Return. *)
RequestFrame(c, f) ==
    /\ ReadFrame(c, f)
    /\ FrameVerdict(c, f) = Granted /\ f.kind = "request"
    /\ RecordCall(c, f, "invoke")
    /\ stage' = [stage EXCEPT ![c] = "calling"]
    /\ current' = Put(current, c, [head |-> FrameHead(c, f),
                       kind |-> IF f.id \in cancelled THEN "error" ELSE "response",
                       lenient |-> FALSE])
    /\ UNCHANGED cancelled

(* Service.Cancel of a message id: an error without an id, and possibly    *)
(* for what Normalize finds in the header.                                 *)
CancelID(id, done) ==
    /\ done => id # EmptyString
    /\ cancelled' = IF done THEN cancelled \cup {id} ELSE cancelled

(* The id is that of the control frame itself. *)
CancelFrame(c, f) ==
    /\ ReadFrame(c, f)
    /\ FrameVerdict(c, f) = Granted /\ f.kind = "control" /\ Supported(c, f)
    /\ RecordCall(c, f, "cancel")
    /\ \E done \in BOOLEAN :
         /\ CancelID(f.id, done)
         /\ Answer(c, FrameHead(c, f), IF done THEN "control" ELSE "error", FALSE)

(* Invoke returns: always an error for an id that was cancelled before,    *)
(* and possibly one otherwise.                                             *)
Return(c) ==
    /\ stage[c] = "calling"
    /\ \E kind \in {current[c].kind, "error"} :
         Answer(c, current[c].head, kind, FALSE)
    /\ UNCHANGED <<request, held, gone, books, read, replies, garbled, cancelled, calls, proc>>

Write(c) ==
    /\ stage[c] = "answering"
    /\ replies' = [replies EXCEPT ![c] = Append(@, [head |-> current[c].head,
                                                    kind |-> current[c].kind])]
    /\ stage' = [stage EXCEPT ![c] = "serving"]
    /\ current' = Without(current, c)
    /\ UNCHANGED <<request, held, gone, books, read, garbled, cancelled, calls, proc>>

WriteFails(c) ==
    /\ stage[c] = "answering"
    /\ c \in gone
    /\ stage' = [stage EXCEPT ![c] = IF current[c].lenient THEN "serving" ELSE "closing"]
    /\ current' = Without(current, c)
    /\ UNCHANGED <<request, held, gone, books, read, replies, garbled, cancelled, calls, proc>>

-----------------------------------------------------------------------------
(* One-shot requests.  A request that is refused leaves no trace. *)

(* The handler calls the service. *)
Serve(q, principal, tenant) ==
    /\ Listening(q.binding)
    /\ calls' = calls \cup
         {Call(q.binding, Claimed(q.auth), principal, tenant, q.operation)}
    /\ IF q.operation = "cancel" THEN \E done \in BOOLEAN : CancelID(q.id, done)
       ELSE UNCHANGED cancelled
    /\ UNCHANGED <<stage, request, held, gone, books, frames, proc>>

HTTPCall(q) ==
    LET principal == PrincipalTenant(q.auth, q.xTenant) IN
    /\ q.binding = "http"
    /\ AuthVerdict(q.auth, q.xTenant) = Granted
    /\ applyPrincipalHeader(q.tenant, principal, q.xTenant) = Granted
    /\ Serve(q, principal, HTTPTenant(q.tenant, principal, q.xTenant))

GRPCCall(q) ==
    LET principal == PrincipalTenant(q.auth, q.xTenant) IN
    /\ q.binding = "grpc"
    /\ AuthVerdict(q.auth, q.xTenant) = Granted
    /\ applyPrincipalHeaderFromPrincipal(q.tenant, principal) = Granted
    /\ Serve(q, principal, GRPCTenant(q.tenant, principal))

(* There is no middleware: the principal is made up from the header. *)
NATSCall(q) ==
    LET tenant == NATSTenant(q.tenant, q.xTenant) IN
    /\ q.binding = "nats"
    /\ Serve(q, tenant, tenant)

UnaryCall(q) == HTTPCall(q) \/ GRPCCall(q) \/ NATSCall(q)

-----------------------------------------------------------------------------
(* The shutdown of main *)

(* Handlers that have been started and have not returned. *)
Active == {c \in Conns : stage[c] \notin {"idle", "closed"}}

ActiveGRPC == {c \in Active : Binding(KindOf(c)) = "grpc"}

Signal ==
    /\ proc = "running"
    /\ proc' = "grpc_stopping"
    /\ UNCHANGED <<stage, request, held, gone, books, frames, cancelled, calls>>

(* Mutant of GRPCStopped: Stop instead of GracefulStop. *)
GRPCStoppedAtOnce ==
    /\ proc = "grpc_stopping"
    /\ proc' = "http_stopping"
    /\ UNCHANGED <<stage, request, held, gone, books, frames, cancelled, calls>>

(* GracefulStop returns when the last gRPC handler has. *)
GRPCStopped ==
    /\ proc = "grpc_stopping"
    /\ ActiveGRPC = {}
    /\ proc' = "http_stopping"
    /\ UNCHANGED <<stage, request, held, gone, books, frames, cancelled, calls>>

(* Mutant of Exit: a Shutdown without the ten seconds. *)
ExitWhenIdle ==
    /\ proc = "http_stopping"
    /\ \A c \in Active : KindOf(c) # "sse"
    /\ proc' = "exited"
    /\ UNCHANGED <<stage, request, held, gone, books, frames, cancelled, calls>>

(* Shutdown returns when the last HTTP handler has, websockets not         *)
(* counted, or after ten seconds; then the service is closed and the       *)
(* process ends with whatever handlers are left.                           *)
Exit ==
    /\ proc = "http_stopping"
    /\ proc' = "exited"
    /\ UNCHANGED <<stage, request, held, gone, books, frames, cancelled, calls>>

Handler(c) ==
    \/ \E q \in OpenRequests : Open(c, q)
    \/ Acquire(c) \/ GiveUp(c) \/ ClientLeaves(c) \/ Leave(c) \/ Release(c)
    \/ Undecodable(c)
    \/ \E f \in Frames : RejectFrame(c, f) \/ RequestFrame(c, f) \/ CancelFrame(c, f)
    \/ Return(c) \/ Write(c) \/ WriteFails(c)

Next ==
    \/ proc # "exited" /\ \E c \in Conns : Handler(c)
    \/ \E q \in UnaryRequests : UnaryCall(q)
    \/ Signal \/ GRPCStopped \/ Exit

Spec == Init /\ [][Next]_vars

(* A handler that can go on does: locks are held briefly, Invoke returns   *)
(* (Invocation!CallsReturn), a write to a client that has left ends with   *)
(* or without success, a read from it fails once the frames sent before    *)
(* are read.  A write to a client that stays and does not read may wait    *)
(* for ever: there is no write timeout.  main waits for nothing but the    *)
(* two servers.  Clients are free to open, send, stay or leave.            *)
FairSpec ==
    /\ Spec
    /\ \A c \in Conns :
         /\ WF_vars(proc # "exited" /\ (Acquire(c) \/ GiveUp(c)))
         /\ WF_vars(proc # "exited" /\ Leave(c))
         /\ WF_vars(proc # "exited" /\ Release(c))
         /\ WF_vars(proc # "exited" /\ Return(c))
         /\ WF_vars(proc # "exited" /\ c \in gone /\ (Write(c) \/ WriteFails(c)))
    /\ WF_vars(GRPCStopped)
    /\ WF_vars(Exit)

-----------------------------------------------------------------------------
(* Properties *)

Stages ==
    {"idle", "opening", "serving", "calling", "answering", "closing", "closed"}

Procs == {"running", "grpc_stopping", "http_stopping", "exited"}

ReplyHead == [id : MessageIDs \cup {EmptyString}, tenant : MaybeTenant \cup {Unknown}]

ReplyKinds == {"response", "control", "error"}
Reply == [head : ReplyHead, kind : ReplyKinds]

CallSet ==
    [binding : {"http", "grpc", "nats"}, claim : MaybeTenant, principal : MaybeTenant,
     tenant : MaybeTenant \cup {Unknown}, operation : Operations]

(* The stack of deferred calls of each handler is what its stage says it   *)
(* is: everything while it serves, a part in the order of acquisition      *)
(* while it opens or closes, nothing before and after.                     *)
StackOK(c) ==
    LET all == Needs(KindOf(c)) IN
    /\ stage[c] \in {"idle", "closed"} => held[c] = <<>>
    /\ stage[c] = "opening" => Len(held[c]) < Len(all)
    /\ stage[c] \in {"serving", "calling", "answering"} => Len(held[c]) = Len(all)
    /\ stage[c] = "closing" => Len(held[c]) \in 1..Len(all)
    /\ stage[c] \notin {"idle", "closed"} =>
         \A i \in 1..Len(held[c]) : held[c][i] = all[i]

HandlersOK ==
    /\ stage \in [Conns -> Stages]
    /\ DOMAIN request \subseteq Conns
    /\ request \in [DOMAIN request -> OpenRequest]
    /\ \A c \in Conns : stage[c] # "idle" => c \in DOMAIN request
    /\ held \in [Conns -> Seq(Resources)]
    /\ \A c \in Conns : StackOK(c)

FramesOK ==
    /\ read \in [Conns -> Seq(ReplyHead)]
    /\ replies \in [Conns -> Seq(Reply)]
    /\ garbled \subseteq Conns
    /\ \A c \in Conns : stage[c] \in {"calling", "answering"} =>
         /\ c \in DOMAIN current
         /\ current[c].head \in ReplyHead
         /\ current[c].kind \in ReplyKinds

SharedOK ==
    /\ gone \subseteq Conns
    /\ activeStreams \in [Kinds -> Int]
    /\ DOMAIN connections \subseteq Conns
    /\ subscribers \subseteq Conns
    /\ cancelled \subseteq MessageIDs
    /\ calls \subseteq CallSet
    /\ proc \in Procs

(* Every variable has its type; a handler that is not idle has its request *)
(* and its stack, and one that is busy with a frame has the reply's head.  *)
TypeOK == HandlersOK /\ FramesOK /\ SharedOK

(* Whoever speaks for a tenant speaks for no other: a call that reaches    *)
(* the service carries the tenant of its principal, on every frame of a    *)
(* connection whose principal was settled when it was opened; with tokens  *)
(* that is the tenant the token claims.  No call is without a tenant.      *)
(* (Over NATS the principal is made up from the header: there only the     *)
(* last sentence says something.)                                          *)
SpeaksForPrincipal ==
    \A k \in calls :
        /\ k.tenant # EmptyString
        /\ k.principal # EmptyString => k.tenant = k.principal
        /\ AuthMode = "jwt" /\ k.binding # "nats" => k.tenant = k.claim

(* The gauge of active streams, the list of connections and the            *)
(* subscriber maps, changed in three critical sections of each handler,    *)
(* agree at every moment as far as they can: a listed connection is        *)
(* counted, a counted one has a running handler, a connection that is      *)
(* being served is listed, and nothing is left of a handler that has       *)
(* returned or gave up halfway.                                            *)
ViewerConsistent ==
    /\ \A k \in Kinds :
         /\ Cardinality({c \in DOMAIN connections : KindOf(c) = k}) <= activeStreams[k]
         /\ activeStreams[k] <= Cardinality({c \in Active : KindOf(c) = k})
    /\ DOMAIN connections \cup subscribers \subseteq Active
    /\ {c \in Conns : stage[c] \in {"serving", "calling", "answering"}}
         \subseteq DOMAIN connections

(* A client that stays has each frame that can be decoded answered once,   *)
(* in order and under the frame's own header, whatever else is wrong with  *)
(* it.  The one reason to hang up on such a client is a frame that cannot  *)
(* be decoded (http.go:280-282, grpc_server.go:184-190), and even then     *)
(* every frame before it has its answer.                                   *)
FramesAnswered ==
    \A c \in Conns \ gone :
        /\ Len(read[c]) - Len(replies[c])
             = (IF stage[c] \in {"calling", "answering"} THEN 1 ELSE 0)
        /\ \A i \in DOMAIN replies[c] : replies[c][i].head = read[c][i]
        /\ read[c] # <<>> /\ stage[c] \in {"closing", "closed"} => c \in garbled

(* No gRPC handler is left when main goes on to stop the HTTP server and   *)
(* to close the service, so none uses a closed service.                    *)
ServiceOutlivesGRPC ==
    proc \in {"http_stopping", "exited"} => ActiveGRPC = {}

(* A handler whose client has left, or has sent what cannot be decoded,    *)
(* returns and releases everything, unless the process ends first.         *)
SessionsEnd ==
    \A c \in Conns : c \in gone \cup garbled ~> stage[c] = "closed" \/ proc = "exited"

(* The shutdown waits for gRPC clients only: once those that are connected *)
(* have left or sent what cannot be decoded, the process ends, however     *)
(* many HTTP clients stay.                                                 *)
ShutdownEnds ==
    (proc = "grpc_stopping" /\ ActiveGRPC \subseteq gone \cup garbled) ~> proc = "exited"
=============================================================================
