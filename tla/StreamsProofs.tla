---------------------------- MODULE StreamsProofs ----------------------------
(* What a connection leaves behind: the answers to its frames, and its     *)
(* entries in the three books, for any number of connections and frames.   *)
EXTENDS SessionsProofs, FiniteSetTheorems

-----------------------------------------------------------------------------
(* The frame loops *)

Busy == {"calling", "answering"}

(* The part of FramesAnswered one connection has in it, with what makes it *)
(* inductive: the reply a busy handler is preparing bears the header of    *)
(* the frame it has read last.                                             *)
InStep(c) ==
    /\ Len(read[c]) - Len(replies[c]) = (IF stage[c] \in Busy THEN 1 ELSE 0)
    /\ \A i \in DOMAIN replies[c] : replies[c][i].head = read[c][i]
    /\ stage[c] \in Busy => current[c].head = read[c][Len(read[c])]

FrameInv == \A c \in Conns \ gone : InStep(c)

(* A connection nothing happens to stays in step. *)
LEMMA InStepElsewhere ==
    ASSUME NEW x \in Conns, InStep(x),
           read'[x] = read[x], replies'[x] = replies[x],
           stage'[x] \in Busy <=> stage[x] \in Busy,
           stage[x] \in Busy => current'[x] = current[x]
    PROVE  InStep(x)'
  BY DEF InStep

(* The steps around the loop neither read nor write (the deferred calls,   *)
(* the opening, and the ways in which a connection ends).                  *)
LEMMA QuietKeepsFrames ==
    ASSUME TypeOK, FrameInv, gone \subseteq gone',
           UNCHANGED <<read, replies, current>>,
           \A x \in Conns : stage'[x] \in Busy <=> stage[x] \in Busy
    PROVE  FrameInv'
  BY InStepElsewhere DEF FrameInv

(* Reading a frame: the handler was not busy, so every frame before this   *)
(* one has its answer (http.go handleStream, grpc_server.go StreamInvoke). *)
LEMMA ReadKeepsFrames ==
    ASSUME TypeOK, FrameInv, NEW c \in Conns, NEW f \in Frames,
           RejectFrame(c, f) \/ RequestFrame(c, f) \/ CancelFrame(c, f)
    PROVE  FrameInv'
  <1>1. ReadFrame(c, f) /\ stage[c] = "serving"
    BY DEF RejectFrame, RequestFrame, CancelFrame, ReadFrame
  <1>2. PICK h \in ReplyHead : h = FrameHead(c, f)
    BY <1>1, FrameHeadTyped
  <1>3. PICK new \in Busy, kind \in ReplyKinds, lenient \in BOOLEAN :
          /\ stage' = [stage EXCEPT ![c] = new]
          /\ current' = Put(current, c, [head |-> h, kind |-> kind, lenient |-> lenient])
    BY <1>2 DEF RejectFrame, RequestFrame, CancelFrame, Answer, ReplyKinds, Busy
  <1>4. gone' = gone /\ replies' = replies /\ read' = [read EXCEPT ![c] = Append(@, h)]
    BY <1>1, <1>2 DEF ReadFrame
  <1> SUFFICES ASSUME NEW x \in Conns \ gone PROVE InStep(x)'
    BY <1>4 DEF FrameInv
  <1>5. InStep(x)
    BY DEF FrameInv
  <1>6. CASE x # c
    <2>1. read'[x] = read[x] /\ stage'[x] = stage[x]
      BY <1>3, <1>4, <1>6 DEF TypeOK, HandlersOK, FramesOK
    <2>2. stage[x] \in Busy => x \in DOMAIN current
      BY DEF TypeOK, FramesOK, Busy
    <2>3. stage[x] \in Busy => current'[x] = current[x]
      BY <1>3, <1>6, <2>2 DEF Put
    <2> QED BY <1>4, <1>5, <2>1, <2>3, InStepElsewhere
  <1>7. CASE x = c
    <2>1. PICK rd \in Seq(ReplyHead), rp \in Seq(Reply) : rd = read[c] /\ rp = replies[c]
      BY DEF TypeOK, FramesOK
    <2>2. Len(rd) = Len(rp) /\ \A i \in DOMAIN rp : rp[i].head = rd[i]
      <3>1. Len(rd) - Len(rp) = 0 /\ \A i \in DOMAIN rp : rp[i].head = rd[i]
        BY <1>1, <1>5, <1>7, <2>1 DEF InStep, Busy
      <3> QED BY <3>1, <2>1, LenProperties
    <2>3. /\ read'[c] = Append(rd, h) /\ replies'[c] = rp /\ stage'[c] \in Busy
          /\ current'[c].head = h
      BY <1>3, <1>4, <2>1 DEF TypeOK, HandlersOK, FramesOK, Put
    <2>4. /\ Len(Append(rd, h)) = Len(rd) + 1
          /\ Append(rd, h)[Len(rd) + 1] = h
          /\ \A i \in 1..Len(rd) : Append(rd, h)[i] = rd[i]
      BY <2>1, AppendProperties
    <2>5. DOMAIN rp = 1..Len(rp) /\ Len(rp) \in Nat /\ Len(rd) \in Nat
      BY <2>1, LenProperties
    <2> QED BY <1>7, <2>2, <2>3, <2>4, <2>5 DEF InStep
  <1> QED BY <1>6, <1>7

(* The reply is written: it is the one to the last frame read. *)
LEMMA WriteKeepsFrames ==
    ASSUME TypeOK, FrameInv, NEW c \in Conns, Write(c)
    PROVE  FrameInv'
  <1>1. stage[c] = "answering" /\ gone' = gone /\ read' = read
    BY DEF Write
  <1>2. current[c].head \in ReplyHead /\ current[c].kind \in ReplyKinds
    BY <1>1 DEF TypeOK, FramesOK
  <1>3. PICK r \in Reply : r = [head |-> current[c].head, kind |-> current[c].kind]
    BY <1>2 DEF Reply
  <1>4. /\ replies' = [replies EXCEPT ![c] = Append(@, r)]
        /\ stage' = [stage EXCEPT ![c] = "serving"]
        /\ current' = Without(current, c)
    BY <1>3 DEF Write
  <1> SUFFICES ASSUME NEW x \in Conns \ gone PROVE InStep(x)'
    BY <1>1 DEF FrameInv
  <1>5. InStep(x)
    BY DEF FrameInv
  <1>6. CASE x # c
    <2>1. replies'[x] = replies[x] /\ stage'[x] = stage[x]
      BY <1>4, <1>6 DEF TypeOK, HandlersOK, FramesOK
    <2>2. stage[x] \in Busy => x \in DOMAIN current
      BY DEF TypeOK, FramesOK, Busy
    <2>3. stage[x] \in Busy => current'[x] = current[x]
      BY <1>4, <1>6, <2>2 DEF Without
    <2> QED BY <1>1, <1>5, <2>1, <2>3, InStepElsewhere
  <1>7. CASE x = c
    <2>1. PICK rd \in Seq(ReplyHead), rp \in Seq(Reply) : rd = read[c] /\ rp = replies[c]
      BY DEF TypeOK, FramesOK
    <2>2. DOMAIN rp = 1..Len(rp) /\ Len(rp) \in Nat /\ Len(rd) \in Nat
      BY <2>1, LenProperties
    <2>3. /\ Len(rd) = Len(rp) + 1
          /\ \A i \in DOMAIN rp : rp[i].head = rd[i]
          /\ r.head = rd[Len(rd)]
      <3>1. /\ Len(rd) - Len(rp) = 1
            /\ \A i \in DOMAIN rp : rp[i].head = rd[i]
            /\ current[c].head = rd[Len(rd)]
        BY <1>1, <1>5, <1>7, <2>1 DEF InStep, Busy
      <3>2. r.head = current[c].head
        BY <1>3
      <3> QED BY <2>2, <3>1, <3>2
    <2>4. read'[c] = rd /\ replies'[c] = Append(rp, r) /\ stage'[c] = "serving"
      BY <1>1, <1>4, <2>1 DEF TypeOK, HandlersOK, FramesOK
    <2>5. /\ Len(Append(rp, r)) = Len(rp) + 1
          /\ DOMAIN Append(rp, r) = 1..(Len(rp) + 1)
          /\ Append(rp, r)[Len(rp) + 1] = r
          /\ \A i \in 1..Len(rp) : Append(rp, r)[i] = rp[i]
      BY <2>1, <2>2, AppendProperties
    <2>6. \A i \in DOMAIN Append(rp, r) : Append(rp, r)[i].head = rd[i]
      BY <2>2, <2>3, <2>5
    <2> QED BY <1>7, <2>2, <2>3, <2>4, <2>5, <2>6 DEF InStep, Busy
  <1> QED BY <1>6, <1>7

(* Invoke returns, or the write fails because the client has left. *)
LEMMA ReturnKeepsFrames ==
    ASSUME TypeOK, FrameInv, NEW c \in Conns, Return(c) \/ WriteFails(c)
    PROVE  FrameInv'
  <1>1. /\ gone' = gone /\ read' = read /\ replies' = replies
        /\ stage[c] \in Busy
        /\ c \in gone \/ (stage' = [stage EXCEPT ![c] = "answering"]
                          /\ current'[c].head = current[c].head)
        /\ \A x \in Conns \ {c} : stage'[x] = stage[x]
    BY DEF Return, WriteFails, Answer, Put, Busy, TypeOK, HandlersOK
  <1>2. \A x \in DOMAIN current \ {c} : current'[x] = current[x]
    BY DEF Return, WriteFails, Answer, Put, Without
  <1> SUFFICES ASSUME NEW x \in Conns \ gone PROVE InStep(x)'
    BY <1>1 DEF FrameInv
  <1>3. InStep(x)
    BY DEF FrameInv
  <1>4. CASE x # c
    <2>1. stage[x] \in Busy => x \in DOMAIN current
      BY DEF TypeOK, FramesOK, Busy
    <2> QED BY <1>1, <1>2, <1>3, <1>4, <2>1, InStepElsewhere
  <1>5. CASE x = c
    <2>1. stage'[c] = "answering" /\ current'[c].head = current[c].head
      BY <1>1, <1>5 DEF TypeOK, HandlersOK
    <2> QED BY <1>1, <1>3, <1>5, <2>1 DEF InStep, Busy
  <1> QED BY <1>4, <1>5

(* A step that leaves the handlers alone leaves the frames alone. *)
LEMMA OthersKeepFrames ==
    ASSUME FrameInv, stage' = stage, gone' = gone, UNCHANGED frames
    PROVE  FrameInv'
  BY DEF FrameInv, InStep, frames

(* One-shot requests touch no connection. *)
LEMMA UnaryLeavesHandlers ==
    ASSUME NEW q, UnaryCall(q)
    PROVE  UNCHANGED <<stage, request, held, gone, books, frames, proc>>
  BY DEF UnaryCall, HTTPCall, GRPCCall, NATSCall, Serve

(* Why a handler that has read a frame stops: its client has left, or sent *)
(* what cannot be decoded.  Only a handler that was serving reads.         *)
Reason(c) ==
    read[c] # <<>> =>
        /\ stage[c] \notin {"idle", "opening"}
        /\ c \notin gone /\ stage[c] \in {"closing", "closed"} => c \in garbled

HangUpInv == \A c \in Conns : Reason(c)

(* A step that reads nothing and closes nothing, or closes for a reason. *)
LEMMA ReasonKept ==
    ASSUME HangUpInv, gone \subseteq gone', garbled \subseteq garbled', NEW x \in Conns,
           read'[x] = read[x],
           \/ stage'[x] = stage[x]
           \/ stage[x] \in {"idle", "opening"}
           \/ stage'[x] \in {"serving", "calling", "answering"}
           \/ stage[x] = "closing" /\ stage'[x] \in {"closing", "closed"}
           \/ x \in gone' \cup garbled' /\ stage'[x] \in {"closing", "closed"}
    PROVE  Reason(x)'
  BY DEF HangUpInv, Reason

(* Every step of a handler leaves every connection with its reason. *)
LEMMA HandlerKeepsReason ==
    ASSUME TypeOK, HangUpInv, NEW c \in Conns, Handler(c)
    PROVE  HangUpInv'
  <1> SUFFICES ASSUME NEW x \in Conns PROVE Reason(x)'
    BY DEF HangUpInv
  <1>1. ASSUME NEW f \in Frames, RejectFrame(c, f) \/ RequestFrame(c, f) \/ CancelFrame(c, f)
        PROVE  Reason(x)'
    <2>1. ReadFrame(c, f) /\ gone' = gone /\ garbled' = garbled
      BY <1>1 DEF RejectFrame, RequestFrame, CancelFrame, ReadFrame
    <2>2. /\ stage'[c] \in Busy
          /\ x # c => stage'[x] = stage[x] /\ read'[x] = read[x]
      BY <1>1, <2>1
      DEF RejectFrame, RequestFrame, CancelFrame, Answer, ReadFrame, Busy, TypeOK, HandlersOK,
          FramesOK
    <2>3. CASE x = c
      BY <2>2, <2>3 DEF Reason, Busy
    <2>4. CASE x # c
      BY <2>1, <2>2, <2>4, ReasonKept
    <2> QED BY <2>3, <2>4
  <1>2. ASSUME NEW q \in OpenRequests, Open(c, q) PROVE Reason(x)'
    <2>1. read' = read /\ gone' = gone /\ garbled' = garbled
      BY <1>2 DEF Open, frames
    <2>2. stage'[x] = stage[x] \/ stage[x] = "idle"
      BY <1>2 DEF Open, TypeOK, HandlersOK
    <2> QED BY <2>1, <2>2, ReasonKept
  <1>3. CASE Acquire(c) \/ GiveUp(c)
    <2>1. read' = read /\ gone' = gone /\ garbled' = garbled
      BY <1>3 DEF Acquire, GiveUp, frames
    <2>2. stage'[x] = stage[x] \/ stage[x] = "opening"
      BY <1>3 DEF Acquire, GiveUp, TypeOK, HandlersOK
    <2> QED BY <2>1, <2>2, ReasonKept
  <1>4. CASE ClientLeaves(c) \/ Leave(c) \/ Undecodable(c)
    <2>1. read' = read /\ gone \subseteq gone' /\ garbled \subseteq garbled'
      BY <1>4 DEF ClientLeaves, Leave, Undecodable, frames
    <2>2. \/ stage'[x] = stage[x]
          \/ x \in gone' \cup garbled' /\ stage'[x] = "closing"
      BY <1>4 DEF ClientLeaves, Leave, Undecodable, TypeOK, HandlersOK
    <2> QED BY <2>1, <2>2, ReasonKept
  <1>5. CASE Release(c)
    <2>1. read' = read /\ gone' = gone /\ garbled' = garbled
      BY <1>5 DEF Release, frames
    <2>2. \/ stage'[x] = stage[x]
          \/ stage[x] = "closing" /\ stage'[x] \in {"closing", "closed"}
      BY <1>5 DEF Release, TypeOK, HandlersOK
    <2> QED BY <2>1, <2>2, ReasonKept
  <1>6. CASE Return(c) \/ Write(c) \/ WriteFails(c)
    <2>1. read' = read /\ gone' = gone /\ garbled' = garbled
      BY <1>6 DEF Return, Write, WriteFails
    <2>2. \/ stage'[x] = stage[x]
          \/ stage'[x] \in {"serving", "answering"}
          \/ x \in gone' \cup garbled' /\ stage'[x] = "closing"
      BY <1>6 DEF Return, Answer, Write, WriteFails, TypeOK, HandlersOK
    <2> QED BY <2>1, <2>2, ReasonKept
  <1> QED BY <1>1, <1>2, <1>3, <1>4, <1>5, <1>6 DEF Handler

(* The server hangs up on a client that stays for one reason only: a frame *)
(* that cannot be decoded (http.go:280-282, grpc_server.go:184-190).       *)
THEOREM HangUpHasReason == Spec => []HangUpInv
  <1>1. Init => HangUpInv
    BY DEF Init, HangUpInv, Reason
  <1>2. TypeOK /\ HangUpInv /\ [Next]_vars => HangUpInv'
    <2> SUFFICES ASSUME TypeOK, HangUpInv, [Next]_vars PROVE HangUpInv'
      OBVIOUS
    <2>1. ASSUME UNCHANGED <<stage, gone, frames>> PROVE HangUpInv'
      BY <2>1 DEF HangUpInv, Reason, frames
    <2>2. ASSUME NEW q \in UnaryRequests, UnaryCall(q) PROVE HangUpInv'
      BY <2>1, <2>2, UnaryLeavesHandlers
    <2>3. CASE Signal \/ GRPCStopped \/ Exit \/ UNCHANGED vars
      BY <2>1, <2>3 DEF Signal, GRPCStopped, Exit, vars
    <2> QED BY <2>2, <2>3, HandlerKeepsReason DEF Next
  <1> QED BY <1>1, <1>2, TypeCorrect, PTL DEF Spec

(* Every frame that can be decoded has its answer (http.go:279,            *)
(* grpc_server.go:183): on a connection whose client stays, the replies    *)
(* are those to the frames read, one each, in order and under the frame's  *)
(* own header, only the frame the handler is busy with has none yet, and   *)
(* the handler stops only for a frame that cannot be decoded.              *)
THEOREM FramesAreAnswered == Spec => []FramesAnswered
  <1>1. Init => FrameInv
    BY DEF Init, FrameInv, InStep, Busy
  <1>2. TypeOK /\ FrameInv /\ [Next]_vars => FrameInv'
    <2> SUFFICES ASSUME TypeOK, FrameInv, [Next]_vars PROVE FrameInv'
      OBVIOUS
    <2>1. ASSUME NEW c \in Conns, Handler(c) PROVE FrameInv'
      <3>1. ASSUME NEW q \in OpenRequests, Open(c, q) PROVE FrameInv'
        BY <3>1, QuietKeepsFrames DEF Open, frames, Busy, TypeOK, HandlersOK
      <3>2. CASE \/ Acquire(c) \/ GiveUp(c) \/ ClientLeaves(c) \/ Leave(c) \/ Release(c)
                 \/ Undecodable(c)
        BY <3>2, QuietKeepsFrames
        DEF Acquire, GiveUp, ClientLeaves, Leave, Release, Undecodable, frames, Busy, TypeOK,
            HandlersOK
      <3>3. ASSUME NEW f \in Frames,
                   RejectFrame(c, f) \/ RequestFrame(c, f) \/ CancelFrame(c, f)
            PROVE  FrameInv'
        BY <3>3, ReadKeepsFrames
      <3>4. CASE Return(c) \/ WriteFails(c)
        BY <3>4, ReturnKeepsFrames
      <3>5. CASE Write(c)
        BY <3>5, WriteKeepsFrames
      <3> QED BY <2>1, <3>1, <3>2, <3>3, <3>4, <3>5 DEF Handler
    <2>2. ASSUME NEW q \in UnaryRequests, UnaryCall(q) PROVE FrameInv'
      BY <2>2, UnaryLeavesHandlers, OthersKeepFrames
    <2>3. CASE Signal \/ GRPCStopped \/ Exit \/ UNCHANGED vars
      BY <2>3, OthersKeepFrames DEF Signal, GRPCStopped, Exit, vars
    <2> QED BY <2>1, <2>2, <2>3 DEF Next
  <1>3. FrameInv /\ HangUpInv => FramesAnswered
    BY DEF FrameInv, InStep, HangUpInv, Reason, FramesAnswered, Busy
  <1> QED BY <1>1, <1>2, <1>3, TypeCorrect, HangUpHasReason, PTL DEF Spec

-----------------------------------------------------------------------------
(* The three books *)

(* The release of the resource is among the handler's deferred calls. *)
Holds(c, resource) == \E i \in DOMAIN held[c] : held[c][i] = resource

(* The connections the gauge of a kind counts. *)
Counted(kind) == {c \in Conns : held[c] # <<>> /\ KindOf(c) = kind}

(* The books say what the stacks of deferred calls say: the list of        *)
(* connections and the subscribers entry by entry, the gauge by number.    *)
BooksInv ==
    /\ DOMAIN connections = {c \in Conns : Holds(c, "connection")}
    /\ subscribers = {c \in Conns : Holds(c, "subscription")}
    /\ \A k \in Kinds : activeStreams[k] = Cardinality(Counted(k))

(* No handler needs a resource twice, and all of them end up listed. *)
LEMMA NeedsDistinct ==
    ASSUME NEW k \in Kinds
    PROVE  /\ \A i, j \in 1..Len(Needs(k)) : Needs(k)[i] = Needs(k)[j] => i = j
           /\ \E i \in 1..Len(Needs(k)) : Needs(k)[i] = "connection"
  <1>1. CASE k = "sse"
    BY <1>1 DEF Needs
  <1>2. CASE k = "websocket"
    BY <1>2 DEF Needs
  <1>3. CASE k = "grpc_bidi"
    BY <1>3 DEF Needs
  <1>4. CASE k = "grpc_events"
    BY <1>4 DEF Needs
  <1> QED BY <1>1, <1>2, <1>3, <1>4 DEF Kinds

(* The stack of a running handler is a beginning of what its kind needs. *)
LEMMA StackIsPrefix ==
    ASSUME TypeOK, NEW c \in Conns, stage[c] \notin {"idle", "closed"},
           NEW all, all = Needs(KindOf(c))
    PROVE  /\ KindOf(c) \in Kinds
           /\ all \in Seq(Resources) /\ Len(all) \in {2, 3}
           /\ held[c] \in Seq(Resources) /\ Len(held[c]) \in Nat
           /\ DOMAIN held[c] = 1..Len(held[c])
           /\ Len(held[c]) <= Len(all)
           /\ stage[c] = "opening" => Len(held[c]) < Len(all)
           /\ \A i \in 1..Len(held[c]) : held[c][i] = all[i]
  <1>1. KindOf(c) \in Kinds
    BY RequestTyped
  <1>2. all \in Seq(Resources) /\ Len(all) \in {2, 3}
    BY <1>1, NeedsTyped
  <1>3. StackOK(c) /\ held[c] \in Seq(Resources) /\ stage[c] \in Stages
    BY DEF TypeOK, HandlersOK
  <1>4. Len(held[c]) \in Nat /\ DOMAIN held[c] = 1..Len(held[c])
    BY <1>3, LenProperties
  <1> QED BY <1>1, <1>2, <1>3, <1>4 DEF StackOK, Stages

(* A handler that is not there holds nothing. *)
LEMMA IdleHoldsNothing ==
    ASSUME TypeOK, NEW c \in Conns, held[c] # <<>> \/ \E r : Holds(c, r)
    PROVE  c \in Active
  <1>1. stage[c] \in {"idle", "closed"} => held[c] = <<>>
    BY DEF TypeOK, HandlersOK, StackOK
  <1>2. held[c] = <<>> => \A r : ~Holds(c, r)
    BY DEF Holds
  <1> QED BY <1>1, <1>2 DEF Active

(* RegisterConnection, Subscribe or IncActiveStream puts exactly its own   *)
(* resource on the stack, and the first one is the gauge.                  *)
LEMMA AcquirePushes ==
    ASSUME TypeOK, NEW c \in Conns, Acquire(c)
    PROVE  /\ KindOf(c) \in Kinds
           /\ \A r : Holds(c, r)' <=> Holds(c, r) \/ r = NextNeed(c)
           /\ held'[c] # <<>>
           /\ NextNeed(c) = "gauge" <=> held[c] = <<>>
           /\ \A x \in Conns \ {c} : held'[x] = held[x]
  <1>1. PICK all : all = Needs(KindOf(c))
    OBVIOUS
  <1>2. stage[c] = "opening"
    BY DEF Acquire
  <1>3. /\ KindOf(c) \in Kinds
        /\ all \in Seq(Resources) /\ Len(all) \in {2, 3}
        /\ held[c] \in Seq(Resources)
        /\ DOMAIN held[c] = 1..Len(held[c])
        /\ Len(held[c]) < Len(all)
        /\ \A i \in 1..Len(held[c]) : held[c][i] = all[i]
    BY <1>1, <1>2, StackIsPrefix
  <1>4. PICK s \in Seq(Resources) : s = held[c]
    BY <1>3
  <1>5. PICK r0 : r0 = all[Len(s) + 1]
    OBVIOUS
  <1>6. NextNeed(c) = r0 /\ r0 \in Resources
    BY <1>1, <1>4, <1>5, AcquireKeepsHandlers DEF NextNeed
  <1>7. held'[c] = Append(s, r0) /\ \A x \in Conns \ {c} : held'[x] = held[x]
    BY <1>4, <1>6 DEF Acquire, TypeOK, HandlersOK
  <1>8. Len(s) \in Nat /\ DOMAIN s = 1..Len(s)
    BY <1>4, LenProperties
  <1>9. /\ DOMAIN Append(s, r0) = 1..(Len(s) + 1)
        /\ Len(Append(s, r0)) = Len(s) + 1
        /\ Append(s, r0)[Len(s) + 1] = r0
        /\ \A i \in 1..Len(s) : Append(s, r0)[i] = s[i]
    BY <1>4, <1>6, <1>8, AppendProperties
  <1>10. \A r : (\E i \in 1..(Len(s) + 1) : Append(s, r0)[i] = r)
                  <=> (\E i \in 1..Len(s) : s[i] = r) \/ r = r0
    BY <1>8, <1>9
  <1>11. \A r : Holds(c, r)' <=> Holds(c, r) \/ r = NextNeed(c)
    BY <1>4, <1>6, <1>7, <1>8, <1>9, <1>10 DEF Holds
  <1>12. held'[c] # <<>>
    BY <1>7, <1>8, <1>9
  <1>13. NextNeed(c) = "gauge" <=> held[c] = <<>>
    <2>1. all[1] = "gauge"
      BY <1>1, <1>3, NeedsTyped
    <2>2. \A i, j \in 1..Len(all) : all[i] = all[j] => i = j
      BY <1>1, <1>3, NeedsDistinct
    <2>3. 1 \in 1..Len(all) /\ Len(s) + 1 \in 1..Len(all)
      BY <1>3, <1>4, <1>8
    <2>4. r0 = "gauge" <=> Len(s) = 0
      BY <1>5, <1>8, <2>1, <2>2, <2>3
    <2>5. Len(s) = 0 <=> s = <<>>
      BY <1>4, EmptySeq
    <2> QED BY <1>4, <1>6, <2>4, <2>5
  <1> QED BY <1>3, <1>7, <1>11, <1>12, <1>13

(* A deferred call takes exactly its own resource off the stack, and the   *)
(* last one to run is that of the gauge.                                   *)
LEMMA ReleasePops ==
    ASSUME TypeOK, NEW c \in Conns, Release(c), NEW last, last = held[c][Len(held[c])]
    PROVE  /\ KindOf(c) \in Kinds
           /\ \A r : Holds(c, r)' <=> Holds(c, r) /\ r # last
           /\ held[c] # <<>>
           /\ last = "gauge" <=> held'[c] = <<>>
           /\ \A x \in Conns \ {c} : held'[x] = held[x]
  <1>1. PICK all : all = Needs(KindOf(c))
    OBVIOUS
  <1>2. stage[c] = "closing"
    BY DEF Release
  <1>3. /\ KindOf(c) \in Kinds
        /\ all \in Seq(Resources) /\ Len(all) \in {2, 3}
        /\ held[c] \in Seq(Resources)
        /\ Len(held[c]) <= Len(all)
        /\ \A i \in 1..Len(held[c]) : held[c][i] = all[i]
    BY <1>1, <1>2, StackIsPrefix
  <1>4. PICK s \in Seq(Resources), n \in Nat : s = held[c] /\ n = Len(s)
    BY <1>3, LenProperties
  <1>5. n >= 1 /\ DOMAIN s = 1..n /\ last = s[n]
    BY <1>2, <1>4, LenProperties DEF TypeOK, HandlersOK, StackOK
  <1>6. PICK t : t = SubSeq(s, 1, n - 1)
    OBVIOUS
  <1>7. held'[c] = t /\ \A x \in Conns \ {c} : held'[x] = held[x]
    BY <1>4, <1>6 DEF Release, TypeOK, HandlersOK
  <1>8. t \in Seq(Resources) /\ Len(t) = n - 1 /\ \A i \in 1..(n - 1) : t[i] = s[i]
    <2>1. 1 \in 1..(n + 1) /\ n - 1 \in 0..n
      BY <1>5
    <2> QED BY <1>4, <1>5, <1>6, <2>1, SubSeqProperties
  <1>9. DOMAIN t = 1..(n - 1)
    BY <1>8, LenProperties
  <1>10. \A i, j \in 1..n : s[i] = s[j] => i = j
    BY <1>1, <1>3, <1>4, NeedsDistinct
  <1>11. \A r : (\E i \in 1..(n - 1) : t[i] = r) <=> (\E i \in 1..n : s[i] = r) /\ r # s[n]
    BY <1>5, <1>8, <1>10
  <1>12. \A r : Holds(c, r)' <=> Holds(c, r) /\ r # last
    BY <1>4, <1>5, <1>7, <1>9, <1>11 DEF Holds
  <1>13. held[c] # <<>>
    BY <1>4, <1>5
  <1>14. last = "gauge" <=> held'[c] = <<>>
    <2>1. s[1] = "gauge" /\ 1 \in 1..n /\ n \in 1..n
      BY <1>1, <1>3, <1>4, <1>5, NeedsTyped
    <2>2. last = "gauge" <=> n = 1
      BY <1>5, <1>10, <2>1
    <2>3. n - 1 = 0 <=> t = <<>>
      BY <1>8, EmptySeq
    <2> QED BY <1>5, <1>7, <2>2, <2>3
  <1> QED BY <1>3, <1>7, <1>12, <1>13, <1>14

(* What the gauge counts, after one handler's stack has changed. *)
LEMMA CountedFinite ==
    ASSUME NEW k
    PROVE  IsFiniteSet(Counted(k)) /\ Cardinality(Counted(k)) \in Nat
  BY SessionsTyped, FS_Subset, FS_CardinalityType DEF Counted

LEMMA AcquireCounts ==
    ASSUME TypeOK, BooksInv, NEW c \in Conns, Acquire(c), NEW k \in Kinds
    PROVE  activeStreams'[k] = Cardinality(Counted(k)')
  <1>1. /\ KindOf(c) \in Kinds /\ held'[c] # <<>>
        /\ NextNeed(c) = "gauge" <=> held[c] = <<>>
        /\ \A x \in Conns \ {c} : held'[x] = held[x]
    BY AcquirePushes
  <1>2. /\ activeStreams' = [activeStreams EXCEPT
             ![KindOf(c)] = IF NextNeed(c) = "gauge" THEN @ + 1 ELSE @]
        /\ request' = request
    BY DEF Acquire
  <1>3. PICK S : S = Counted(k)
    OBVIOUS
  <1>4. IsFiniteSet(S) /\ activeStreams[k] = Cardinality(S)
    BY <1>3, CountedFinite DEF BooksInv
  <1>5. \A x \in Conns : KindOf(x)' = KindOf(x)
    BY <1>2 DEF KindOf
  <1>6. CASE KindOf(c) = k /\ held[c] = <<>>
    <2>1. Counted(k)' = S \cup {c} /\ c \notin S
      BY <1>1, <1>3, <1>5, <1>6 DEF Counted
    <2>2. activeStreams'[k] = activeStreams[k] + 1
      BY <1>1, <1>2, <1>6 DEF TypeOK, SharedOK
    <2> QED BY <1>4, <2>1, <2>2, FS_AddElement
  <1>7. CASE ~(KindOf(c) = k /\ held[c] = <<>>)
    <2>1. Counted(k)' = S
      BY <1>1, <1>3, <1>5, <1>7 DEF Counted
    <2>2. activeStreams'[k] = activeStreams[k]
      BY <1>1, <1>2, <1>7 DEF TypeOK, SharedOK
    <2> QED BY <1>4, <2>1, <2>2
  <1> QED BY <1>6, <1>7

LEMMA ReleaseCounts ==
    ASSUME TypeOK, BooksInv, NEW c \in Conns, Release(c), NEW k \in Kinds
    PROVE  activeStreams'[k] = Cardinality(Counted(k)')
  <1>1. PICK last : last = held[c][Len(held[c])]
    OBVIOUS
  <1>2. /\ KindOf(c) \in Kinds /\ held[c] # <<>>
        /\ last = "gauge" <=> held'[c] = <<>>
        /\ \A x \in Conns \ {c} : held'[x] = held[x]
    BY <1>1, ReleasePops
  <1>3. /\ activeStreams' = [activeStreams EXCEPT
             ![KindOf(c)] = IF last = "gauge" THEN @ - 1 ELSE @]
        /\ request' = request
    BY <1>1 DEF Release, Undo
  <1>4. PICK S : S = Counted(k)
    OBVIOUS
  <1>5. IsFiniteSet(S) /\ activeStreams[k] = Cardinality(S)
    BY <1>4, CountedFinite DEF BooksInv
  <1>6. \A x \in Conns : KindOf(x)' = KindOf(x)
    BY <1>3 DEF KindOf
  <1>7. CASE KindOf(c) = k /\ last = "gauge"
    <2>1. Counted(k)' = S \ {c} /\ c \in S
      BY <1>2, <1>4, <1>6, <1>7 DEF Counted
    <2>2. activeStreams'[k] = activeStreams[k] - 1
      BY <1>2, <1>3, <1>7 DEF TypeOK, SharedOK
    <2> QED BY <1>5, <2>1, <2>2, FS_RemoveElement
  <1>8. CASE ~(KindOf(c) = k /\ last = "gauge")
    <2>1. Counted(k)' = S
      BY <1>2, <1>4, <1>6, <1>8 DEF Counted
    <2>2. activeStreams'[k] = activeStreams[k]
      BY <1>2, <1>3, <1>8 DEF TypeOK, SharedOK
    <2> QED BY <1>5, <2>1, <2>2
  <1> QED BY <1>7, <1>8

(* Acquiring and releasing keep the books right: the resource and its      *)
(* deferred release are booked in one step.                                *)
LEMMA AcquireKeepsBooks ==
    ASSUME TypeOK, BooksInv, NEW c \in Conns, Acquire(c)
    PROVE  BooksInv'
  <1>1. PICK r0 : r0 = NextNeed(c)
    OBVIOUS
  <1>2. /\ \A r : Holds(c, r)' <=> Holds(c, r) \/ r = r0
        /\ \A x \in Conns \ {c} : held'[x] = held[x]
    BY <1>1, AcquirePushes
  <1>3. \A x \in Conns \ {c} : \A r : Holds(x, r)' <=> Holds(x, r)
    BY <1>2 DEF Holds
  <1>4. /\ DOMAIN connections' = IF r0 = "connection" THEN DOMAIN connections \cup {c}
                                 ELSE DOMAIN connections
        /\ subscribers' = IF r0 = "subscription" THEN subscribers \cup {c} ELSE subscribers
    BY <1>1 DEF Acquire, Put
  <1>5. DOMAIN connections' = {x \in Conns : Holds(x, "connection")'}
    BY <1>2, <1>3, <1>4 DEF BooksInv
  <1>6. subscribers' = {x \in Conns : Holds(x, "subscription")'}
    BY <1>2, <1>3, <1>4 DEF BooksInv
  <1>7. \A k \in Kinds : activeStreams'[k] = Cardinality(Counted(k)')
    BY AcquireCounts
  <1> QED BY <1>5, <1>6, <1>7 DEF BooksInv

LEMMA ReleaseKeepsBooks ==
    ASSUME TypeOK, BooksInv, NEW c \in Conns, Release(c)
    PROVE  BooksInv'
  <1>1. PICK last : last = held[c][Len(held[c])]
    OBVIOUS
  <1>2. /\ \A r : Holds(c, r)' <=> Holds(c, r) /\ r # last
        /\ \A x \in Conns \ {c} : held'[x] = held[x]
    BY <1>1, ReleasePops
  <1>3. \A x \in Conns \ {c} : \A r : Holds(x, r)' <=> Holds(x, r)
    BY <1>2 DEF Holds
  <1>4. /\ DOMAIN connections' = IF last = "connection" THEN DOMAIN connections \ {c}
                                 ELSE DOMAIN connections
        /\ subscribers' = IF last = "subscription" THEN subscribers \ {c} ELSE subscribers
    BY <1>1 DEF Release, Undo, Without
  <1>5. DOMAIN connections' = {x \in Conns : Holds(x, "connection")'}
    BY <1>2, <1>3, <1>4 DEF BooksInv
  <1>6. subscribers' = {x \in Conns : Holds(x, "subscription")'}
    BY <1>2, <1>3, <1>4 DEF BooksInv
  <1>7. \A k \in Kinds : activeStreams'[k] = Cardinality(Counted(k)')
    BY ReleaseCounts
  <1> QED BY <1>5, <1>6, <1>7 DEF BooksInv

(* Every other step leaves the stacks and the books alone; the request of  *)
(* a handler is replaced only before it holds anything.                    *)
LEMMA OthersKeepBooks ==
    ASSUME TypeOK, BooksInv, UNCHANGED <<held, books>>,
           \A x \in Conns : held[x] # <<>> => request'[x] = request[x]
    PROVE  BooksInv'
  <1>1. \A x, r : Holds(x, r)' <=> Holds(x, r)
    BY DEF Holds
  <1>2. \A k : Counted(k)' = Counted(k)
    BY DEF Counted, KindOf
  <1> QED BY <1>1, <1>2 DEF BooksInv, books

LEMMA OpenKeepsBooks ==
    ASSUME TypeOK, BooksInv, NEW c \in Conns, NEW q \in OpenRequests, Open(c, q)
    PROVE  BooksInv'
  <1>1. held[c] = <<>>
    BY DEF Open, TypeOK, HandlersOK, StackOK
  <1>2. \A x \in Conns : held[x] # <<>> => x \in DOMAIN request
    BY IdleHoldsNothing DEF Active, TypeOK, HandlersOK
  <1>3. \A x \in Conns : held[x] # <<>> => request'[x] = request[x]
    BY <1>1, <1>2 DEF Open, Put
  <1>4. UNCHANGED <<held, books>>
    BY DEF Open
  <1> QED BY <1>3, <1>4, OthersKeepBooks

(* The three books agree (IncActiveStream, Subscribe, RegisterConnection,  *)
(* connections.go:15, in three sections): whatever the number of           *)
(* connections, however their openings, refusals and deferred calls        *)
(* interleave, a listed connection is counted and alive, a served one is   *)
(* listed, and nothing is left of one that is over.                        *)
THEOREM ViewerIsConsistent == Spec => []ViewerConsistent
  <1>1. Init => BooksInv
    <2> SUFFICES ASSUME Init PROVE BooksInv
      OBVIOUS
    <2>1. \A x \in Conns : held[x] = <<>>
      BY DEF Init
    <2>2. \A x \in Conns : \A r : ~Holds(x, r)
      BY <2>1 DEF Holds
    <2>3. \A k : Counted(k) = {}
      BY <2>1 DEF Counted
    <2>4. Cardinality({}) = 0
      BY FS_EmptySet
    <2>5. connections = <<>> /\ subscribers = {} /\ activeStreams = [k \in Kinds |-> 0]
      BY DEF Init
    <2>6. /\ {c \in Conns : Holds(c, "connection")} = {}
          /\ {c \in Conns : Holds(c, "subscription")} = {}
      BY <2>2
    <2>7. DOMAIN connections = {}
      BY <2>5
    <2>8. \A k \in Kinds : activeStreams[k] = Cardinality(Counted(k))
      BY <2>3, <2>4, <2>5
    <2> QED BY <2>5, <2>6, <2>7, <2>8 DEF BooksInv
  <1>2. TypeOK /\ BooksInv /\ [Next]_vars => BooksInv'
    <2> SUFFICES ASSUME TypeOK, BooksInv, [Next]_vars PROVE BooksInv'
      OBVIOUS
    <2>1. ASSUME NEW c \in Conns, Handler(c) PROVE BooksInv'
      <3>1. ASSUME NEW q \in OpenRequests, Open(c, q) PROVE BooksInv'
        BY <3>1, OpenKeepsBooks
      <3>2. CASE Acquire(c)
        BY <3>2, AcquireKeepsBooks
      <3>3. CASE Release(c)
        BY <3>3, ReleaseKeepsBooks
      <3>4. CASE GiveUp(c) \/ ClientLeaves(c) \/ Leave(c) \/ Undecodable(c)
        BY <3>4, OthersKeepBooks DEF GiveUp, ClientLeaves, Leave, Undecodable
      <3>5. ASSUME NEW f \in Frames,
                   RejectFrame(c, f) \/ RequestFrame(c, f) \/ CancelFrame(c, f)
            PROVE  BooksInv'
        BY <3>5, OthersKeepBooks DEF RejectFrame, RequestFrame, CancelFrame, ReadFrame
      <3>6. CASE Return(c) \/ Write(c) \/ WriteFails(c)
        BY <3>6, OthersKeepBooks DEF Return, Write, WriteFails
      <3> QED BY <2>1, <3>1, <3>2, <3>3, <3>4, <3>5, <3>6 DEF Handler
    <2>2. ASSUME NEW q \in UnaryRequests, UnaryCall(q) PROVE BooksInv'
      BY <2>2, UnaryLeavesHandlers, OthersKeepBooks
    <2>3. CASE Signal \/ GRPCStopped \/ Exit \/ UNCHANGED vars
      BY <2>3, OthersKeepBooks DEF Signal, GRPCStopped, Exit, vars
    <2> QED BY <2>1, <2>2, <2>3 DEF Next
  <1>3. TypeOK /\ BooksInv => ViewerConsistent
    <2> SUFFICES ASSUME TypeOK, BooksInv PROVE ViewerConsistent
      OBVIOUS
    <2>1. IsFiniteSet(Conns)
      BY SessionsTyped
    <2>2. DOMAIN connections \subseteq Active /\ subscribers \subseteq Active
      BY IdleHoldsNothing DEF BooksInv
    <2>3. ASSUME NEW c \in Conns, stage[c] \in {"serving", "calling", "answering"}
          PROVE  c \in DOMAIN connections
      <3>1. PICK all : all = Needs(KindOf(c))
        OBVIOUS
      <3>2. /\ KindOf(c) \in Kinds /\ DOMAIN held[c] = 1..Len(held[c])
            /\ \A i \in 1..Len(held[c]) : held[c][i] = all[i]
        BY <2>3, <3>1, StackIsPrefix
      <3>3. Len(held[c]) = Len(all)
        BY <2>3, <3>1 DEF TypeOK, HandlersOK, StackOK
      <3>4. \E i \in 1..Len(all) : all[i] = "connection"
        BY <3>1, <3>2, NeedsDistinct
      <3>5. Holds(c, "connection")
        BY <3>2, <3>3, <3>4 DEF Holds
      <3> QED BY <3>5 DEF BooksInv
    <2>4. ASSUME NEW k \in Kinds
          PROVE  /\ Cardinality({c \in DOMAIN connections : KindOf(c) = k}) <= activeStreams[k]
                 /\ activeStreams[k] <= Cardinality({c \in Active : KindOf(c) = k})
      <3>1. PICK L, C, A : /\ L = {c \in DOMAIN connections : KindOf(c) = k}
                           /\ C = Counted(k)
                           /\ A = {c \in Active : KindOf(c) = k}
        OBVIOUS
      <3>2. \A c \in Conns : Holds(c, "connection") => held[c] # <<>>
        BY DEF Holds
      <3>3. L \subseteq C
        BY <3>1, <3>2 DEF BooksInv, Counted
      <3>4. C \subseteq A
        BY <3>1, IdleHoldsNothing DEF Counted
      <3>5. A \subseteq Conns
        BY <3>1 DEF Active
      <3>6. IsFiniteSet(A) /\ IsFiniteSet(C)
        BY <2>1, <3>4, <3>5, FS_Subset
      <3>7. Cardinality(L) <= Cardinality(C) /\ Cardinality(C) <= Cardinality(A)
        BY <3>3, <3>4, <3>6, FS_Subset
      <3> QED BY <3>1, <3>7 DEF BooksInv
    <2> QED BY <2>2, <2>3, <2>4 DEF ViewerConsistent
  <1> QED BY <1>1, <1>2, <1>3, TypeCorrect, PTL DEF Spec
=============================================================================
