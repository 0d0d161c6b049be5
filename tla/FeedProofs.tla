----------------------------- MODULE FeedProofs -----------------------------
(* Theorems about what the subscribers of EventBus are sent: in order, all *)
(* of it or dropped, and from an append-only log.                          *)
EXTENDS EventBusProofs

-----------------------------------------------------------------------------
(* Sequences in three parts: sent, to be replayed, in the channel *)

(* The index of an element of a concatenation. *)
LEMMA ConcatAt ==
    ASSUME NEW S, NEW a \in Seq(S), NEW b \in Seq(S), NEW c \in Seq(S)
    PROVE  /\ a \o b \o c \in Seq(S)
           /\ Len(a \o b \o c) = Len(a) + Len(b) + Len(c)
           /\ DOMAIN (a \o b \o c) = 1..(Len(a) + Len(b) + Len(c))
           /\ \A i \in 1..Len(a) : (a \o b \o c)[i] = a[i]
           /\ \A i \in 1..Len(b) : (a \o b \o c)[Len(a) + i] = b[i]
           /\ \A i \in 1..Len(c) : (a \o b \o c)[Len(a) + Len(b) + i] = c[i]
  <1>1. Len(a) \in Nat /\ Len(b) \in Nat /\ Len(c) \in Nat
    BY LenProperties
  <1> DEFINE ab == a \o b
  <1>2. /\ ab \in Seq(S) /\ Len(ab) = Len(a) + Len(b)
        /\ \A i \in 1..Len(a) : ab[i] = a[i]
        /\ \A i \in 1..Len(b) : ab[Len(a) + i] = b[i]
    BY <1>1
  <1> HIDE DEF ab
  <1>3. /\ ab \o c \in Seq(S) /\ Len(ab \o c) = Len(ab) + Len(c)
        /\ DOMAIN (ab \o c) = 1..(Len(ab) + Len(c))
        /\ \A i \in 1..Len(ab) : (ab \o c)[i] = ab[i]
        /\ \A i \in 1..Len(c) : (ab \o c)[Len(ab) + i] = c[i]
    <2>1. Len(ab) \in Nat /\ ab \in Seq(S)
      BY <1>2
    <2>2. ab \o c \in Seq(S) /\ Len(ab \o c) = Len(ab) + Len(c)
      BY <2>1
    <2>3. DOMAIN (ab \o c) = 1..(Len(ab) + Len(c))
      BY <2>1
    <2>4. \A i \in 1..Len(ab) : (ab \o c)[i] = ab[i]
      BY <1>1, <2>1
    <2>5. \A i \in 1..Len(c) : (ab \o c)[Len(ab) + i] = c[i]
      BY <1>1, <2>1
    <2> QED BY <2>2, <2>3, <2>4, <2>5
  <1>4. /\ \A i \in 1..Len(a) : (ab \o c)[i] = a[i]
        /\ \A i \in 1..Len(b) : (ab \o c)[Len(a) + i] = b[i]
    BY <1>1, <1>2, <1>3
  <1>5. \A i \in 1..Len(c) : (ab \o c)[Len(a) + Len(b) + i] = c[i]
    BY <1>1, <1>2, <1>3
  <1> QED BY <1>1, <1>2, <1>3, <1>4, <1>5 DEF ab

(* Sequences are equal that have the same length and the same elements. *)
LEMMA SameSeq ==
    ASSUME NEW S, NEW p \in Seq(S), NEW q \in Seq(S), Len(p) = Len(q),
           \A i \in 1..Len(p) : p[i] = q[i]
    PROVE  p = q
  OBVIOUS

(* Sending the head of the middle part changes the parts, not the whole. *)
LEMMA MoveHead ==
    ASSUME NEW S, NEW a \in Seq(S), NEW b \in Seq(S), NEW c \in Seq(S), b # <<>>,
           NEW h, h = Head(b), NEW tb, tb = Tail(b)
    PROVE  Append(a, h) \o tb \o c = a \o b \o c
  <1> DEFINE ah == Append(a, h)
             p == ah \o tb \o c
             q == a \o b \o c
  <1>1. /\ Len(a) \in Nat /\ Len(b) \in Nat /\ Len(c) \in Nat /\ Len(b) > 0
        /\ h = b[1] /\ h \in S
        /\ tb \in Seq(S) /\ Len(tb) = Len(b) - 1
        /\ \A i \in 1..(Len(b) - 1) : tb[i] = b[i + 1]
    BY HeadTailProperties
  <1>2. /\ ah \in Seq(S) /\ Len(ah) = Len(a) + 1 /\ ah[Len(a) + 1] = b[1]
        /\ \A i \in 1..Len(a) : ah[i] = a[i]
    BY <1>1, AppendProperties
  <1> HIDE DEF ah
  <1>3. /\ p \in Seq(S) /\ Len(p) = Len(a) + Len(b) + Len(c)
        /\ \A i \in 1..(Len(a) + 1) : p[i] = ah[i]
        /\ \A i \in 1..(Len(b) - 1) : p[Len(a) + 1 + i] = tb[i]
        /\ \A i \in 1..Len(c) : p[(Len(a) + 1) + (Len(b) - 1) + i] = c[i]
    <2>1. /\ p \in Seq(S) /\ Len(p) = Len(ah) + Len(tb) + Len(c)
          /\ \A i \in 1..Len(ah) : p[i] = ah[i]
          /\ \A i \in 1..Len(tb) : p[Len(ah) + i] = tb[i]
          /\ \A i \in 1..Len(c) : p[Len(ah) + Len(tb) + i] = c[i]
      <3>1. ah \in Seq(S) /\ tb \in Seq(S)
        BY <1>1, <1>2
      <3> QED BY <3>1, ConcatAt
    <2> HIDE DEF p
    <2>2. Len(p) = Len(a) + Len(b) + Len(c)
      BY <1>1, <1>2, <2>1
    <2> QED BY <1>1, <1>2, <2>1, <2>2
  <1>4. /\ q \in Seq(S) /\ Len(q) = Len(a) + Len(b) + Len(c)
        /\ \A i \in 1..Len(a) : q[i] = a[i]
        /\ \A i \in 1..Len(b) : q[Len(a) + i] = b[i]
        /\ \A i \in 1..Len(c) : q[Len(a) + Len(b) + i] = c[i]
    BY ConcatAt
  <1> HIDE DEF p, q
  <1>5. ASSUME NEW i \in 1..Len(p)
        PROVE  p[i] = q[i]
    <2>1. CASE i \in 1..Len(a)
      BY <1>1, <1>2, <1>3, <1>4, <2>1
    <2>2. CASE i = Len(a) + 1
      <3>1. p[i] = b[1]
        BY <1>1, <1>2, <1>3, <2>2
      <3>2. q[i] = b[1]
        BY <1>1, <1>4, <2>2
      <3> QED BY <3>1, <3>2
    <2>3. CASE i \in (Len(a) + 2)..(Len(a) + Len(b))
      <3> DEFINE k == i - Len(a) - 1
      <3>1. k \in 1..(Len(b) - 1) /\ i = Len(a) + 1 + k /\ i = Len(a) + (k + 1)
            /\ k + 1 \in 1..Len(b)
        BY <1>1, <2>3
      <3> HIDE DEF k
      <3>2. p[i] = b[k + 1]
        BY <1>1, <1>3, <3>1
      <3>3. q[i] = b[k + 1]
        BY <1>4, <3>1
      <3> QED BY <3>2, <3>3
    <2>4. CASE i \in (Len(a) + Len(b) + 1)..(Len(a) + Len(b) + Len(c))
      <3> DEFINE k == i - Len(a) - Len(b)
      <3>1. k \in 1..Len(c) /\ i = Len(a) + Len(b) + k
            /\ i = (Len(a) + 1) + (Len(b) - 1) + k
        BY <1>1, <2>4
      <3> HIDE DEF k
      <3>2. p[i] = c[k]
        BY <1>3, <3>1
      <3>3. q[i] = c[k]
        BY <1>4, <3>1
      <3> QED BY <3>2, <3>3
    <2> QED BY <1>1, <1>3, <2>1, <2>2, <2>3, <2>4
  <1> QED BY <1>3, <1>4, <1>5, SameSeq DEF ah, p, q

(* Losing the head of the middle part takes one element out of the whole. *)
LEMMA LoseHead ==
    ASSUME NEW S, NEW a \in Seq(S), NEW b \in Seq(S), NEW c \in Seq(S), b # <<>>,
           NEW tb, tb = Tail(b)
    PROVE  /\ Len(a \o tb \o c) = Len(a \o b \o c) - 1
           /\ \A i \in 1..Len(a) : (a \o tb \o c)[i] = (a \o b \o c)[i]
           /\ \A i \in (Len(a) + 1)..Len(a \o tb \o c) :
                (a \o tb \o c)[i] = (a \o b \o c)[i + 1]
  <1> DEFINE p == a \o tb \o c
             q == a \o b \o c
  <1>1. /\ Len(a) \in Nat /\ Len(b) \in Nat /\ Len(c) \in Nat /\ Len(b) > 0
        /\ tb \in Seq(S) /\ Len(tb) = Len(b) - 1
        /\ \A i \in 1..(Len(b) - 1) : tb[i] = b[i + 1]
    BY HeadTailProperties
  <1>2. /\ Len(p) = Len(a) + (Len(b) - 1) + Len(c)
        /\ \A i \in 1..Len(a) : p[i] = a[i]
        /\ \A i \in 1..(Len(b) - 1) : p[Len(a) + i] = tb[i]
        /\ \A i \in 1..Len(c) : p[Len(a) + (Len(b) - 1) + i] = c[i]
    <2>1. /\ Len(p) = Len(a) + Len(tb) + Len(c)
          /\ \A i \in 1..Len(a) : p[i] = a[i]
          /\ \A i \in 1..Len(tb) : p[Len(a) + i] = tb[i]
          /\ \A i \in 1..Len(c) : p[Len(a) + Len(tb) + i] = c[i]
      <3>1. tb \in Seq(S)
        BY <1>1
      <3> QED BY ONLY <3>1, a \in Seq(S), c \in Seq(S), ConcatAt
    <2>2. Len(tb) = Len(b) - 1
      BY <1>1
    <2> HIDE DEF p
    <2> QED BY <2>1, <2>2
  <1>3. /\ Len(q) = Len(a) + Len(b) + Len(c)
        /\ \A i \in 1..Len(a) : q[i] = a[i]
        /\ \A i \in 1..Len(b) : q[Len(a) + i] = b[i]
        /\ \A i \in 1..Len(c) : q[Len(a) + Len(b) + i] = c[i]
    BY ConcatAt
  <1> HIDE DEF p, q
  <1>4. ASSUME NEW i \in (Len(a) + 1)..Len(p)
        PROVE  p[i] = q[i + 1]
    <2>1. CASE i <= Len(a) + Len(b) - 1
      <3> DEFINE k == i - Len(a)
      <3>1. k \in 1..(Len(b) - 1) /\ i = Len(a) + k /\ i + 1 = Len(a) + (k + 1)
            /\ k + 1 \in 1..Len(b)
        BY <1>1, <2>1
      <3> HIDE DEF k
      <3>2. p[i] = b[k + 1]
        BY <1>1, <1>2, <3>1
      <3>3. q[i + 1] = b[k + 1]
        BY <1>3, <3>1
      <3> QED BY <3>2, <3>3
    <2>2. CASE i > Len(a) + Len(b) - 1
      <3> DEFINE k == i - Len(a) - Len(b) + 1
      <3>1. k \in 1..Len(c) /\ i = Len(a) + (Len(b) - 1) + k
            /\ i + 1 = Len(a) + Len(b) + k
        BY <1>1, <1>2, <2>2
      <3> HIDE DEF k
      <3>2. p[i] = c[k]
        BY <1>2, <3>1
      <3>3. q[i + 1] = c[k]
        BY <1>3, <3>1
      <3> QED BY <3>2, <3>3
    <2> QED BY <1>1, <1>2, <2>1, <2>2
  <1>5. Len(p) = Len(q) - 1 /\ \A i \in 1..Len(a) : p[i] = q[i]
    BY <1>1, <1>2, <1>3
  <1> QED BY <1>4, <1>5 DEF p, q

(* An empty middle part can be left out: the channel is then next. *)
LEMMA EmptyMiddle ==
    ASSUME NEW S, NEW a \in Seq(S), NEW c \in Seq(S)
    PROVE  a \o <<>> \o c = a \o c \o <<>>
  <1>1. a \o c \in Seq(S)
    OBVIOUS
  <1>2. a \o <<>> = a /\ (a \o c) \o <<>> = a \o c
    BY <1>1, ConcatEmptySeq
  <1> QED BY <1>2

(* A send into the channel appends to the whole. *)
LEMMA ConcatAppend ==
    ASSUME NEW S, NEW a \in Seq(S), NEW b \in Seq(S), NEW c \in Seq(S), NEW e \in S
    PROVE  a \o b \o Append(c, e) = Append(a \o b \o c, e)
  <1> DEFINE ab == a \o b
  <1>1. ab \in Seq(S)
    OBVIOUS
  <1> HIDE DEF ab
  <1>2. ab \o Append(c, e) = Append(ab \o c, e)
    BY <1>1
  <1> QED BY <1>2 DEF ab

-----------------------------------------------------------------------------
(* The inductive invariant *)

Increasing(q) ==
    \A i, j \in DOMAIN q : i < j => q[i].sequence < q[j].sequence

(* An event of a stream is one of the log of its topic, marked as replayed *)
(* when it was in the log before the subscription.                         *)
Entry(s, e) ==
    /\ e.sequence \in 1..Len(events[sub[s].topic])
    /\ Plain(e) = Plain(events[sub[s].topic][e.sequence])
    /\ e.replay <=> e.sequence <= sub[s].length

LogNumbered ==
    \A t \in Topics : \A i \in DOMAIN events[t] :
        events[t][i].sequence = i /\ events[t][i].topic = t

Unused(s) ==
    received[s] = <<>> /\ pending[s] = <<>> /\ ch[s] = <<>> /\ dropped[s] = {}

StreamOK(s) ==
    /\ sub[s].length <= Len(events[sub[s].topic])
    /\ dropped[s] \subseteq (sub[s].length + 1)..Len(events[sub[s].topic])
    /\ \A i \in DOMAIN Stream(s) : Entry(s, Stream(s)[i])
    /\ Increasing(Stream(s))

OnItsWay(s) == {Stream(s)[i].sequence : i \in DOMAIN Stream(s)}

(* The numbers a subscription is about. *)
Wanted(s) ==
    {i \in 1..Len(events[sub[s].topic]) :
        \/ ~sub[s].cursor.given
        \/ i > sub[s].cursor.value
        \/ i > sub[s].length}

Accounted(s) ==
    /\ OnItsWay(s) \cup dropped[s] = Wanted(s)
    /\ OnItsWay(s) \cap dropped[s] = {}

Unsubscribed == {"idle", "refused"}

HandlerOK(s) ==
    /\ phase[s] \in Unsubscribed => Unused(s)
    /\ phase[s] \notin Unsubscribed => StreamOK(s)
    /\ phase[s] = "live" => pending[s] = <<>>
    /\ phase[s] \in {"replay", "live"} => Accounted(s)

(* Order and completeness are about the log as well as the streams: the    *)
(* log is numbered from 1, what a handler holds are entries of that log in *)
(* increasing order, and the live loop begins when the replay is empty.    *)
FeedInv == LogNumbered /\ \A s \in Handlers : HandlerOK(s)

(* The types of the parts of a stream and of the whole. *)
LEMMA StreamTyped ==
    ASSUME TypeOK, NEW s \in Handlers
    PROVE  /\ received[s] \in Seq(EventSet) /\ pending[s] \in Seq(EventSet)
           /\ ch[s] \in Seq(EventSet)
           /\ Stream(s) \in Seq(EventSet)
           /\ DOMAIN Stream(s) = 1..Len(Stream(s)) /\ Len(Stream(s)) \in Nat
           /\ \A i \in DOMAIN Stream(s) : Stream(s)[i].sequence \in Nat
  <1>1. /\ received[s] \in Seq(EventSet) /\ pending[s] \in Seq(EventSet)
        /\ ch[s] \in Seq(EventSet)
    BY DEF TypeOK
  <1>2. Stream(s) \in Seq(EventSet)
    BY <1>1, ConcatAt DEF Stream
  <1>3. DOMAIN Stream(s) = 1..Len(Stream(s)) /\ Len(Stream(s)) \in Nat
    BY <1>2, LenProperties
  <1>4. \A i \in DOMAIN Stream(s) : Stream(s)[i] \in EventSet
    BY <1>2, <1>3, ElementOfSeq
  <1> QED BY <1>1, <1>2, <1>3, <1>4 DEF EventSet

(* A subscription is about a topic and remembers a length of its log. *)
LEMMA SubTyped ==
    ASSUME TypeOK, NEW s \in Handlers, phase[s] \notin Unsubscribed
    PROVE  /\ s \in DOMAIN sub
           /\ sub[s].topic \in Topics /\ sub[s].length \in Nat
           /\ events[sub[s].topic] \in Seq(EventSet)
           /\ Len(events[sub[s].topic]) \in Nat
  <1>1. s \in DOMAIN sub
    BY DEF TypeOK, Unsubscribed
  <1>2. sub[s] \in Subscription
    BY <1>1 DEF TypeOK
  <1>3. sub[s].topic \in Topics /\ sub[s].length \in Nat
    BY <1>2 DEF Subscription
  <1> QED BY <1>1, <1>3, LenProperties DEF TypeOK

(* A stream that is the same as a whole stays right. *)
LEMMA StreamSame ==
    ASSUME NEW s, Stream(s)' = Stream(s), dropped'[s] = dropped[s],
           sub'[s] = sub[s], events' = events
    PROVE  /\ StreamOK(s) => StreamOK(s)'
           /\ Accounted(s) => Accounted(s)'
  <1>1. \A e : Entry(s, e)' <=> Entry(s, e)
    BY DEF Entry
  <1>2. StreamOK(s) => StreamOK(s)'
    BY <1>1 DEF StreamOK, Increasing, Entry
  <1>3. OnItsWay(s)' = OnItsWay(s) /\ Wanted(s)' = Wanted(s)
    BY DEF OnItsWay, Wanted
  <1> QED BY <1>2, <1>3 DEF Accounted

(* A handler another one's step does not touch stays right. *)
LEMMA HandlerFrame ==
    ASSUME NEW x \in Handlers, HandlerOK(x), events' = events,
           received'[x] = received[x], pending'[x] = pending[x], ch'[x] = ch[x],
           dropped'[x] = dropped[x], phase'[x] = phase[x],
           phase[x] \notin Unsubscribed => sub'[x] = sub[x]
    PROVE  HandlerOK(x)'
  <1>1. Stream(x)' = Stream(x) /\ Unused(x)' = Unused(x)
    BY DEF Stream, Unused
  <1>2. phase[x] \notin Unsubscribed
          => (StreamOK(x) => StreamOK(x)') /\ (Accounted(x) => Accounted(x)')
    BY <1>1, StreamSame
  <1>3. phase[x] \in {"replay", "live"} => phase[x] \notin Unsubscribed
    BY DEF Unsubscribed
  <1> QED BY <1>1, <1>2, <1>3 DEF HandlerOK

-----------------------------------------------------------------------------
(* Publishing *)

(* A published event is the next of its log and changes no earlier one. *)
LEMMA LogGrows ==
    ASSUME TypeOK, LogNumbered, NEW q \in PublishRequests, Publish(q)
    PROVE  LET t == PublishTopic(q)
               e == Event(t, NextSequence(t), q.head.tenant)
           IN  /\ t \in Topics /\ e \in EventSet
               /\ e.sequence = Len(events[t]) + 1 /\ e.topic = t /\ ~e.replay
               /\ Len(events'[t]) = Len(events[t]) + 1
               /\ events'[t][Len(events[t]) + 1] = e
               /\ \A u \in Topics : u # t => events'[u] = events[u]
               /\ \A u \in Topics : \A i \in 1..Len(events[u]) :
                    events'[u][i] = events[u][i]
               /\ LogNumbered'
  <1> DEFINE t == PublishTopic(q)
             e == Event(t, NextSequence(t), q.head.tenant)
  <1>1. t \in Topics /\ q.head.tenant \in Tenants
    BY PublishTyped DEF Publish
  <1>2. events[t] \in Seq(EventSet) /\ Len(events[t]) \in Nat
    BY <1>1, LenProperties DEF TypeOK
  <1>3. /\ e \in EventSet
        /\ e.sequence = Len(events[t]) + 1 /\ e.topic = t /\ ~e.replay
    BY <1>1, <1>2 DEF Event, NextSequence, EventSet
  <1>4. events' = [events EXCEPT ![t] = Append(@, e)]
    BY DEF Publish
  <1> HIDE DEF t, e
  <1>5. events'[t] = Append(events[t], e) /\ \A u \in Topics : u # t => events'[u] = events[u]
    BY <1>1, <1>4 DEF TypeOK
  <1>6. /\ Len(events'[t]) = Len(events[t]) + 1
        /\ events'[t][Len(events[t]) + 1] = e
        /\ \A i \in 1..Len(events[t]) : events'[t][i] = events[t][i]
        /\ DOMAIN events'[t] = 1..(Len(events[t]) + 1)
    BY <1>2, <1>3, <1>5, AppendProperties
  <1>7. \A u \in Topics : \A i \in 1..Len(events[u]) : events'[u][i] = events[u][i]
    BY <1>5, <1>6
  <1>8. ASSUME NEW u \in Topics, NEW i \in DOMAIN events'[u]
        PROVE  events'[u][i].sequence = i /\ events'[u][i].topic = u
    <2>1. CASE u # t
      BY <1>5, <1>8, <2>1 DEF LogNumbered
    <2>2. CASE u = t /\ i = Len(events[t]) + 1
      BY <1>3, <1>6, <2>2
    <2>3. CASE u = t /\ i # Len(events[t]) + 1
      <3>1. i \in 1..Len(events[t]) /\ i \in DOMAIN events[t]
        BY <1>2, <1>6, <1>8, <2>3
      <3> QED BY <1>1, <1>6, <2>3, <3>1 DEF LogNumbered
    <2> QED BY <2>1, <2>2, <2>3
  <1> QED BY <1>1, <1>3, <1>5, <1>6, <1>7, <1>8 DEF LogNumbered, t, e

(* An event appended to a stream keeps its order. *)
LEMMA IncreasingAppend ==
    ASSUME NEW p \in Seq(EventSet), NEW e \in EventSet, Increasing(p),
           \A i \in DOMAIN p : p[i].sequence < e.sequence
    PROVE  Increasing(Append(p, e))
  <1> DEFINE pe == Append(p, e)
  <1>1. /\ Len(p) \in Nat /\ DOMAIN p = 1..Len(p)
        /\ DOMAIN pe = 1..(Len(p) + 1) /\ pe[Len(p) + 1] = e
        /\ \A i \in 1..Len(p) : pe[i] = p[i]
    BY AppendProperties
  <1> HIDE DEF pe
  <1>2. ASSUME NEW i \in DOMAIN pe, NEW j \in DOMAIN pe, i < j
        PROVE  pe[i].sequence < pe[j].sequence
    <2>1. i \in 1..Len(p) /\ pe[i] = p[i]
      BY <1>1, <1>2
    <2>2. CASE j = Len(p) + 1
      BY <1>1, <2>1, <2>2
    <2>3. CASE j # Len(p) + 1
      <3>1. j \in 1..Len(p) /\ pe[j] = p[j]
        BY <1>1, <1>2, <2>3
      <3> QED BY <1>1, <1>2, <2>1, <3>1 DEF Increasing
    <2> QED BY <2>2, <2>3
  <1>3. Increasing(pe)
    BY <1>2 DEF Increasing
  <1> QED BY <1>3 DEF pe

(* Publishing keeps every handler right: the event goes to the channel of  *)
(* a registered handler or is dropped for it, and comes after all others.  *)
LEMMA PublishKeepsFeed ==
    ASSUME TypeOK, SendsOnlyToOpen, FeedInv, NEW q \in PublishRequests, Publish(q)
    PROVE  FeedInv'
  <1> DEFINE t == PublishTopic(q)
  <1>0. PICK e : e = Event(t, NextSequence(t), q.head.tenant)
    OBVIOUS
  <1>1. /\ t \in Topics /\ e \in EventSet
        /\ e.sequence = Len(events[t]) + 1 /\ e.topic = t /\ ~e.replay
        /\ Len(events'[t]) = Len(events[t]) + 1
        /\ events'[t][Len(events[t]) + 1] = e
        /\ \A u \in Topics : u # t => events'[u] = events[u]
        /\ \A u \in Topics : \A i \in 1..Len(events[u]) : events'[u][i] = events[u][i]
        /\ LogNumbered'
    BY <1>0, LogGrows DEF FeedInv
  <1>2. /\ ch' = [s \in Handlers |-> IF s \in subscribers[t] /\ Offered(s)
                                     THEN Append(ch[s], e) ELSE ch[s]]
        /\ dropped' = [s \in Handlers |-> IF s \in subscribers[t] /\ ~Offered(s)
                                          THEN dropped[s] \cup {e.sequence}
                                          ELSE dropped[s]]
        /\ UNCHANGED <<subscribers, phase, sub, pending, received>>
    BY <1>0 DEF Publish
  <1> HIDE DEF t
  <1>3. ASSUME NEW x \in Handlers
        PROVE  HandlerOK(x)'
    <2> DEFINE n == Len(events[t])
    <2>1. HandlerOK(x) /\ n \in Nat
      BY <1>1, LenProperties DEF FeedInv, TypeOK
    <2>2. x \in subscribers[t] <=> x \in Registered /\ sub[x].topic = t
      BY <1>1 DEF SendsOnlyToOpen
    <2>3. CASE phase[x] \in Unsubscribed
      <3>1. x \notin subscribers[t]
        BY <2>2, <2>3 DEF Registered, Unsubscribed
      <3>2. ch'[x] = ch[x] /\ dropped'[x] = dropped[x]
        BY <1>2, <3>1
      <3> QED BY <1>2, <2>1, <2>3, <3>2 DEF HandlerOK, Unused, Unsubscribed
    <2>4. CASE phase[x] \notin Unsubscribed
      <3> DEFINE u == sub[x].topic
                 m == Len(events[u])
      <3>1. /\ u \in Topics /\ sub[x].length \in Nat /\ m \in Nat
            /\ StreamOK(x) /\ sub'[x] = sub[x]
        BY <1>2, <2>1, <2>4, SubTyped DEF HandlerOK
      <3>2. /\ Stream(x) \in Seq(EventSet)
            /\ DOMAIN Stream(x) = 1..Len(Stream(x)) /\ Len(Stream(x)) \in Nat
            /\ \A i \in DOMAIN Stream(x) : Stream(x)[i].sequence \in Nat
        BY StreamTyped
      <3>3. m <= Len(events'[u]) /\ Len(events'[u]) \in Nat
        <4>1. CASE u = t
          BY <1>1, <2>1, <4>1
        <4>2. CASE u # t
          BY <1>1, <3>1, <4>2
        <4> QED BY <4>1, <4>2
      <3>4. ASSUME NEW d, Entry(x, d)
            PROVE  Entry(x, d)'
        <4>1. d.sequence \in 1..m /\ d.sequence \in 1..Len(events'[u])
          BY <3>1, <3>3, <3>4 DEF Entry
        <4>2. events'[u][d.sequence] = events[u][d.sequence]
          BY <1>1, <3>1, <4>1
        <4> QED BY <3>1, <3>4, <4>1, <4>2 DEF Entry
      <3>5. CASE x \in subscribers[t] /\ Offered(x)
        <4>1. u = t /\ ch'[x] = Append(ch[x], e) /\ dropped'[x] = dropped[x]
          BY <1>2, <2>2, <3>5
        <4>2. Stream(x)' = Append(Stream(x), e)
          <5>1. received[x] \o pending[x] \o Append(ch[x], e)
                  = Append(received[x] \o pending[x] \o ch[x], e)
            <6>1. /\ received[x] \in Seq(EventSet) /\ pending[x] \in Seq(EventSet)
                  /\ ch[x] \in Seq(EventSet) /\ e \in EventSet
              BY <1>1, StreamTyped
            <6>2. ASSUME NEW a \in Seq(EventSet), NEW b \in Seq(EventSet),
                         NEW c \in Seq(EventSet)
                  PROVE  a \o b \o Append(c, e) = Append(a \o b \o c, e)
              BY <6>1, ConcatAppend
            <6> QED BY <6>1, <6>2
          <5> QED BY <1>2, <4>1, <5>1 DEF Stream
        <4>3. /\ DOMAIN Stream(x)' = 1..(Len(Stream(x)) + 1)
              /\ Stream(x)'[Len(Stream(x)) + 1] = e
              /\ \A i \in 1..Len(Stream(x)) : Stream(x)'[i] = Stream(x)[i]
          BY <1>1, <3>2, <4>2, AppendProperties
        <4>4. Entry(x, e)'
          <5>1. e.sequence = n + 1 /\ sub[x].length <= n /\ ~e.replay
            BY <1>1, <3>1, <4>1 DEF StreamOK
          <5>2. events'[u][e.sequence] = e /\ Len(events'[u]) = n + 1
            BY <1>1, <4>1
          <5> QED BY <2>1, <3>1, <5>1, <5>2 DEF Entry
        <4>5. \A i \in DOMAIN Stream(x)' : Entry(x, Stream(x)[i])'
          <5> SUFFICES ASSUME NEW i \in DOMAIN Stream(x)'
                       PROVE  Entry(x, Stream(x)[i])'
            OBVIOUS
          <5>1. CASE i = Len(Stream(x)) + 1
            BY <4>3, <4>4, <5>1 DEF Entry
          <5>2. CASE i # Len(Stream(x)) + 1
            <6>1. i \in DOMAIN Stream(x)
              BY <3>2, <4>3, <5>2
            <6>2. Entry(x, Stream(x)[i]) /\ Stream(x)'[i] = Stream(x)[i]
              BY <3>1, <3>2, <4>3, <6>1 DEF StreamOK
            <6> QED BY <3>4, <6>2 DEF Entry
          <5> QED BY <5>1, <5>2
        <4>6. Increasing(Stream(x))'
          <5>1. \A i \in DOMAIN Stream(x) : Stream(x)[i].sequence < e.sequence
            BY <1>1, <2>1, <3>1, <4>1 DEF StreamOK, Entry
          <5>2. Increasing(Append(Stream(x), e))
            BY <1>1, <3>1, <3>2, <5>1, IncreasingAppend DEF StreamOK
          <5> QED BY <4>2, <5>2 DEF Increasing
        <4>7. StreamOK(x)'
          BY <1>1, <2>1, <3>1, <3>3, <4>1, <4>5, <4>6 DEF StreamOK
        <4>8. OnItsWay(x)' = OnItsWay(x) \cup {n + 1}
          BY <1>1, <3>2, <4>1, <4>3 DEF OnItsWay
        <4>9. Wanted(x)' = Wanted(x) \cup {n + 1}
          BY <1>1, <2>1, <3>1, <4>1 DEF Wanted, StreamOK
        <4>10. n + 1 \notin dropped[x]
          BY <2>1, <3>1, <4>1 DEF StreamOK
        <4>11. Accounted(x) => Accounted(x)'
          BY <4>1, <4>8, <4>9, <4>10 DEF Accounted
        <4> QED BY <1>2, <2>1, <2>4, <4>7, <4>11 DEF HandlerOK
      <3>6. CASE ~(x \in subscribers[t] /\ Offered(x))
        <4>1. ch'[x] = ch[x]
          BY <1>2, <3>6
        <4>2. Stream(x)' = Stream(x)
          BY <1>2, <4>1 DEF Stream
        <4>3. /\ \A i \in DOMAIN Stream(x)' : Entry(x, Stream(x)[i])'
              /\ Increasing(Stream(x))'
          BY <3>1, <3>4, <4>2 DEF StreamOK, Increasing, Entry
        <4>4. OnItsWay(x)' = OnItsWay(x)
          BY <4>2 DEF OnItsWay
        <4>5. CASE x \in subscribers[t]
          <5>1. u = t /\ dropped'[x] = dropped[x] \cup {n + 1}
            BY <1>1, <1>2, <2>2, <3>6, <4>5
          <5>2. Wanted(x)' = Wanted(x) \cup {n + 1}
            BY <1>1, <2>1, <3>1, <5>1 DEF Wanted, StreamOK
          <5>3. n + 1 \notin OnItsWay(x)
            BY <2>1, <3>1, <5>1 DEF StreamOK, Entry, OnItsWay
          <5>4. Accounted(x) => Accounted(x)'
            BY <4>4, <5>1, <5>2, <5>3 DEF Accounted
          <5>5. StreamOK(x)'
            BY <1>1, <2>1, <3>1, <3>3, <4>3, <5>1 DEF StreamOK
          <5> QED BY <1>2, <2>1, <2>4, <5>4, <5>5 DEF HandlerOK
        <4>6. CASE x \notin subscribers[t]
          <5>1. dropped'[x] = dropped[x]
            BY <1>2, <4>6
          <5>2. StreamOK(x)'
            BY <3>1, <3>3, <4>3, <5>1 DEF StreamOK
          <5>3. phase[x] \in {"replay", "live"} => u # t
            BY <2>2, <4>6 DEF Registered
          <5>4. phase[x] \in {"replay", "live"} => Wanted(x)' = Wanted(x)
            BY <1>1, <3>1, <5>3 DEF Wanted
          <5>5. phase[x] \in {"replay", "live"} => Accounted(x)'
            BY <2>1, <4>4, <5>1, <5>4 DEF Accounted, HandlerOK
          <5> QED BY <1>2, <2>1, <2>4, <5>2, <5>5 DEF HandlerOK
        <4> QED BY <4>5, <4>6
      <3> QED BY <3>5, <3>6
    <2> QED BY <2>3, <2>4
  <1> QED BY <1>1, <1>3 DEF FeedInv

-----------------------------------------------------------------------------
(* The handler's loop *)

(* The snapshot holds the entries after its start, marked as replayed. *)
LEMMA SnapshotEntries ==
    ASSUME TypeOK, LogNumbered, NEW t \in Topics, NEW k \in 0..Len(events[t])
    PROVE  /\ DOMAIN Snapshot(t, k) = 1..(Len(events[t]) - k)
           /\ \A i \in 1..(Len(events[t]) - k) :
                /\ Snapshot(t, k)[i].sequence = k + i
                /\ Snapshot(t, k)[i].replay
                /\ Plain(Snapshot(t, k)[i]) = Plain(events[t][k + i])
  <1>1. events[t] \in Seq(EventSet) /\ Len(events[t]) \in Nat
    BY LenProperties DEF TypeOK
  <1>2. DOMAIN Snapshot(t, k) = 1..(Len(events[t]) - k)
    BY DEF Snapshot
  <1>3. ASSUME NEW i \in 1..(Len(events[t]) - k)
        PROVE  /\ Snapshot(t, k)[i].sequence = k + i
               /\ Snapshot(t, k)[i].replay
               /\ Plain(Snapshot(t, k)[i]) = Plain(events[t][k + i])
    <2>1. k + i \in 1..Len(events[t])
      BY <1>1
    <2>2. events[t][k + i] \in EventSet /\ events[t][k + i].sequence = k + i
      BY <1>1, <2>1, ElementOfSeq DEF LogNumbered
    <2>3. Snapshot(t, k)[i] = [events[t][k + i] EXCEPT !.replay = TRUE]
      BY DEF Snapshot
    <2> QED BY <2>2, <2>3 DEF Plain, EventSet
  <1> QED BY <1>2, <1>3

(* A new subscription starts with the wanted part of the log. *)
LEMMA SubscribeKeepsHandler ==
    ASSUME TypeOK, FeedInv, NEW s \in Handlers, NEW q \in SubscribeRequests,
           Subscribe(s, q)
    PROVE  HandlerOK(s)'
  <1> DEFINE t == q.topic
             k == StartOf(q)
             n == Len(events[t])
  <1>1. t \in Topics /\ q.cursor \in Cursor /\ k \in 0..n /\ n \in Nat
    BY SubscribeTyped, LenProperties DEF Subscribe, TypeOK
  <1>2. /\ phase'[s] = "replay" /\ events' = events
        /\ sub'[s] = [topic |-> t, cursor |-> q.cursor, length |-> n]
        /\ pending'[s] = Snapshot(t, k)
        /\ received'[s] = <<>> /\ ch'[s] = <<>> /\ dropped'[s] = {}
    <2>1. Unused(s)
      BY DEF Subscribe, FeedInv, HandlerOK, Unsubscribed
    <2> QED BY <2>1 DEF Subscribe, Unused, TypeOK, Put, bus
  <1>3. /\ sub'[s].topic = t /\ sub'[s].length = n
        /\ sub'[s].cursor.given = q.cursor.given
        /\ sub'[s].cursor.value = q.cursor.value
    BY <1>2
  <1>4. k = IF q.cursor.given /\ q.cursor.value <= n THEN q.cursor.value
            ELSE IF q.cursor.given THEN n ELSE 0
    BY <1>1 DEF StartOf, Cursor
  <1>5. Stream(s)' = Snapshot(t, k)
    <2>1. Snapshot(t, k) \in Seq(EventSet)
      BY <1>1, SnapshotTyped
    <2>2. <<>> \o Snapshot(t, k) = Snapshot(t, k) /\ Snapshot(t, k) \o <<>> = Snapshot(t, k)
      BY <2>1, ConcatEmptySeq
    <2> QED BY <1>2, <2>2 DEF Stream
  <1>6. /\ DOMAIN Snapshot(t, k) = 1..(n - k)
        /\ \A i \in 1..(n - k) : /\ Snapshot(t, k)[i].sequence = k + i
                                 /\ Snapshot(t, k)[i].replay
                                 /\ Plain(Snapshot(t, k)[i]) = Plain(events[t][k + i])
    BY <1>1, SnapshotEntries DEF FeedInv
  <1>7. PICK snap, start, m :
          /\ snap = Snapshot(t, k) /\ start = k /\ m = n
          /\ start \in 0..m /\ m \in Nat
    BY <1>1
  <1> HIDE DEF k, n
  <1>8. ASSUME NEW i \in 1..(m - start)
        PROVE  Entry(s, snap[i])'
    <2>1. snap[i].sequence \in 1..m /\ snap[i].replay
      BY <1>6, <1>7
    <2>2. Plain(snap[i]) = Plain(events'[sub'[s].topic][snap[i].sequence])
      BY <1>2, <1>3, <1>6, <1>7
    <2>3. Len(events'[sub'[s].topic]) = m /\ sub'[s].length = m
      BY <1>2, <1>3, <1>7 DEF n
    <2> QED BY <1>7, <2>1, <2>2, <2>3 DEF Entry
  <1>9. \A i \in DOMAIN Stream(s)' : Entry(s, Stream(s)[i])'
    BY <1>5, <1>6, <1>7, <1>8 DEF Entry
  <1>10. Increasing(snap)
    BY <1>6, <1>7 DEF Increasing
  <1>11. StreamOK(s)'
    <2>1. Increasing(Stream(s))'
      BY <1>5, <1>7, <1>10 DEF Increasing
    <2>2. Len(events'[sub'[s].topic]) = m /\ sub'[s].length = m
      BY <1>2, <1>3, <1>7 DEF n
    <2> QED BY <1>2, <1>7, <1>9, <2>1, <2>2 DEF StreamOK
  <1>12. Accounted(s)'
    <2>1. OnItsWay(s)' = {snap[i].sequence : i \in 1..(m - start)}
      BY <1>5, <1>6, <1>7 DEF OnItsWay
    <2>2. OnItsWay(s)' = (start + 1)..m
      <3>1. \A i \in 1..(m - start) : snap[i].sequence = start + i
        BY <1>6, <1>7
      <3>2. ASSUME NEW j \in (start + 1)..m
            PROVE  \E i \in 1..(m - start) : snap[i].sequence = j
        <4>1. j - start \in 1..(m - start) /\ start + (j - start) = j
          BY <1>7
        <4> QED BY <3>1, <4>1
      <3>3. \A i \in 1..(m - start) : snap[i].sequence \in (start + 1)..m
        BY <1>7, <3>1
      <3> QED BY <2>1, <3>2, <3>3
    <2>3. Wanted(s)' = {i \in 1..m : ~q.cursor.given \/ i > q.cursor.value \/ i > m}
      BY <1>2, <1>3, <1>7 DEF Wanted, n
    <2>4. q.cursor.given => q.cursor.value \in Nat
      BY <1>1 DEF Subscribe, SubscribeValid, Cursor
    <2>5. Wanted(s)' = (start + 1)..m
      BY <1>4, <1>7, <2>3, <2>4
    <2> QED BY <1>2, <2>2, <2>5 DEF Accounted
  <1> QED BY <1>2, <1>11, <1>12 DEF HandlerOK, Unsubscribed

(* A stream that lost an element keeps the others in order. *)
LEMMA StreamLoses ==
    ASSUME TypeOK, NEW s \in Handlers, StreamOK(s),
           NEW n \in 0..Len(Stream(s)),
           events' = events, sub'[s] = sub[s], dropped'[s] = dropped[s],
           DOMAIN Stream(s)' = 1..(Len(Stream(s)) - 1),
           \A i \in 1..n : Stream(s)'[i] = Stream(s)[i],
           \A i \in (n + 1)..(Len(Stream(s)) - 1) : Stream(s)'[i] = Stream(s)[i + 1]
    PROVE  StreamOK(s)'
  <1> DEFINE f(i) == IF i \in 1..n THEN i ELSE i + 1
             m == Len(Stream(s))
  <1>1. DOMAIN Stream(s) = 1..m /\ m \in Nat
    BY StreamTyped
  <1>2. /\ \A i \in DOMAIN Stream(s)' : f(i) \in DOMAIN Stream(s)
        /\ \A i \in DOMAIN Stream(s)' : Stream(s)'[i] = Stream(s)[f(i)]
    BY <1>1
  <1>3. \A i, j \in DOMAIN Stream(s)' : i < j => f(i) < f(j)
    BY <1>1
  <1> HIDE DEF f
  <1>4. \A i \in DOMAIN Stream(s)' : Entry(s, Stream(s)[i])'
    BY <1>2 DEF StreamOK, Entry
  <1>5. Increasing(Stream(s))'
    BY <1>2, <1>3 DEF StreamOK, Increasing
  <1> QED BY <1>4, <1>5 DEF StreamOK

(* The head of the snapshot, sent or lost. *)
LEMMA ReplayStream ==
    ASSUME TypeOK, NEW s \in Handlers, pending[s] # <<>>,
           pending'[s] = Tail(pending[s]), ch'[s] = ch[s]
    PROVE  /\ received'[s] = Append(received[s], Head(pending[s]))
                => Stream(s)' = Stream(s)
           /\ StreamOK(s) /\ received'[s] = received[s] /\ events' = events
                /\ sub'[s] = sub[s] /\ dropped'[s] = dropped[s] => StreamOK(s)'
  <1>1. PICK a \in Seq(EventSet), b \in Seq(EventSet), c \in Seq(EventSet) :
          a = received[s] /\ b = pending[s] /\ c = ch[s]
    BY StreamTyped
  <1>2. received'[s] = Append(received[s], Head(pending[s])) => Stream(s)' = Stream(s)
    <2>1. b # <<>>
      BY <1>1
    <2>2. Append(a, Head(b)) \o Tail(b) \o c = a \o b \o c
      BY <2>1, MoveHead
    <2> QED BY <1>1, <2>2 DEF Stream
  <1>3. ASSUME StreamOK(s), received'[s] = received[s], events' = events,
               sub'[s] = sub[s], dropped'[s] = dropped[s]
        PROVE  StreamOK(s)'
    <2>1. b # <<>> /\ Tail(b) \in Seq(EventSet)
      BY <1>1, HeadTailProperties
    <2>2. PICK d \in Seq(EventSet) : d = Tail(b)
      BY <2>1
    <2> DEFINE p == a \o b \o c
               r == a \o d \o c
    <2>3. /\ Len(r) = Len(p) - 1
          /\ \A i \in 1..Len(a) : r[i] = p[i]
          /\ \A i \in (Len(a) + 1)..Len(r) : r[i] = p[i + 1]
      BY <2>1, <2>2, LoseHead
    <2>4. r \in Seq(EventSet)
      BY ConcatAt
    <2>5. Len(p) = Len(a) + Len(b) + Len(c) /\ Len(a) \in Nat /\ Len(b) \in Nat
          /\ Len(c) \in Nat
      BY ConcatAt, LenProperties
    <2>6. Stream(s) = p /\ Stream(s)' = r
      BY <1>1, <1>3, <2>2 DEF Stream
    <2> HIDE DEF p, r
    <2>7. DOMAIN r = 1..(Len(p) - 1) /\ Len(a) \in 0..Len(p)
      BY <2>3, <2>4, <2>5
    <2> QED BY <1>3, <2>3, <2>6, <2>7, StreamLoses
  <1> QED BY <1>2, <1>3

(* The head of the channel, sent or lost once the replay is over. *)
LEMMA LiveStream ==
    ASSUME TypeOK, NEW s \in Handlers, pending[s] = <<>>, ch[s] # <<>>,
           ch'[s] = Tail(ch[s]), pending'[s] = pending[s]
    PROVE  /\ received'[s] = Append(received[s], Head(ch[s]))
                => Stream(s)' = Stream(s)
           /\ StreamOK(s) /\ received'[s] = received[s] /\ events' = events
                /\ sub'[s] = sub[s] /\ dropped'[s] = dropped[s] => StreamOK(s)'
  <1>1. PICK a \in Seq(EventSet), c \in Seq(EventSet) : a = received[s] /\ c = ch[s]
    BY StreamTyped
  <1>2. PICK d \in Seq(EventSet), e \in EventSet : d = Tail(c) /\ e = Head(c)
    BY <1>1, HeadTailProperties
  <1>3. <<>> \in Seq(EventSet)
    OBVIOUS
  <1>4. Stream(s) = a \o c \o <<>>
    BY <1>1, EmptyMiddle DEF Stream
  <1>5. received'[s] = Append(received[s], Head(ch[s])) => Stream(s)' = Stream(s)
    <2>1. Append(a, e) \o d \o <<>> = a \o c \o <<>>
      <3>1. c # <<>>
        BY <1>1
      <3> QED BY <1>2, <1>3, <3>1, MoveHead
    <2>2. Append(a, e) \in Seq(EventSet)
      OBVIOUS
    <2>3. PICK g \in Seq(EventSet) : g = Append(a, e)
      BY <2>2
    <2>4. g \o <<>> \o d = g \o d \o <<>>
      BY EmptyMiddle
    <2> QED BY <1>1, <1>2, <1>4, <2>1, <2>3, <2>4 DEF Stream
  <1>6. ASSUME StreamOK(s), received'[s] = received[s], events' = events,
               sub'[s] = sub[s], dropped'[s] = dropped[s]
        PROVE  StreamOK(s)'
    <2> DEFINE p == a \o c \o <<>>
               r == a \o d \o <<>>
    <2>1. /\ Len(r) = Len(p) - 1
          /\ \A i \in 1..Len(a) : r[i] = p[i]
          /\ \A i \in (Len(a) + 1)..Len(r) : r[i] = p[i + 1]
      <3>1. c # <<>>
        BY <1>1
      <3> QED BY <1>2, <1>3, <3>1, LoseHead
    <2>2. r \in Seq(EventSet)
      BY <1>3, ConcatAt
    <2>3. Len(p) = Len(a) + Len(c) + Len(<<>>) /\ Len(a) \in Nat /\ Len(c) \in Nat
          /\ Len(<<>>) = 0
      BY <1>3, ConcatAt, LenProperties
    <2>4. Stream(s)' = a \o <<>> \o d
      BY <1>1, <1>2, <1>6 DEF Stream
    <2>5. Stream(s)' = r
      BY <2>4, EmptyMiddle
    <2> HIDE DEF p, r
    <2>6. DOMAIN r = 1..(Len(p) - 1) /\ Len(a) \in 0..Len(p)
      BY <2>1, <2>2, <2>3
    <2>7. Stream(s) = p
      BY <1>4 DEF p
    <2> QED BY <1>6, <2>1, <2>5, <2>6, <2>7, StreamLoses
  <1> QED BY <1>5, <1>6

(* Every step of a handler keeps its own stream right. *)
LEMMA HandlerKeepsItself ==
    ASSUME TypeOK, FeedInv, NEW s \in Handlers, Handler(s)
    PROVE  HandlerOK(s)'
  <1> USE DEF Unsubscribed
  <1>1. HandlerOK(s)
    BY DEF FeedInv
  <1>2. ASSUME NEW q \in SubscribeRequests, Subscribe(s, q)
        PROVE  HandlerOK(s)'
    BY <1>2, SubscribeKeepsHandler
  <1>3. ASSUME NEW q \in SubscribeRequests, SubscribeReject(s, q)
        PROVE  HandlerOK(s)'
    BY <1>1, <1>3 DEF SubscribeReject, HandlerOK, Unused, TypeOK
  <1>4. CASE SendReplay(s)
    <2>1. /\ phase[s] = "replay" /\ pending[s] # <<>> /\ phase' = phase
          /\ received'[s] = Append(received[s], Head(pending[s]))
          /\ pending'[s] = Tail(pending[s])
          /\ UNCHANGED <<events, ch, sub, dropped>>
      BY <1>4 DEF SendReplay, TypeOK, bus
    <2>2. Stream(s)' = Stream(s)
      BY <2>1, ReplayStream
    <2>3. StreamOK(s)' /\ Accounted(s)'
      BY <1>1, <2>1, <2>2, StreamSame DEF HandlerOK
    <2> QED BY <2>1, <2>3 DEF HandlerOK
  <1>5. CASE SendLive(s)
    <2>1. /\ phase[s] = "live" /\ ch[s] # <<>> /\ phase' = phase
          /\ received'[s] = Append(received[s], Head(ch[s]))
          /\ ch'[s] = Tail(ch[s]) /\ pending[s] = <<>>
          /\ UNCHANGED <<events, pending, sub, dropped>>
      BY <1>1, <1>5 DEF SendLive, TypeOK, bus, HandlerOK
    <2>2. Stream(s)' = Stream(s)
      BY <2>1, LiveStream
    <2>3. StreamOK(s)' /\ Accounted(s)'
      BY <1>1, <2>1, <2>2, StreamSame DEF HandlerOK
    <2> QED BY <2>1, <2>3 DEF HandlerOK
  <1>6. CASE SendFails(s)
    <2>1. /\ phase'[s] = "leaving" /\ StreamOK(s)
          /\ UNCHANGED <<events, sub, received, dropped>>
      BY <1>1, <1>6 DEF SendFails, TypeOK, bus, HandlerOK
    <2>2. CASE /\ phase[s] = "replay" /\ pending[s] # <<>>
               /\ pending' = [pending EXCEPT ![s] = Tail(@)] /\ ch' = ch
      <3>1. pending'[s] = Tail(pending[s])
        BY <2>2 DEF TypeOK
      <3>2. StreamOK(s)'
        BY <2>1, <2>2, <3>1, ReplayStream
      <3> QED BY <2>1, <3>2 DEF HandlerOK
    <2>3. CASE /\ phase[s] = "live" /\ ch[s] # <<>>
               /\ ch' = [ch EXCEPT ![s] = Tail(@)] /\ pending' = pending
      <3>1. ch'[s] = Tail(ch[s]) /\ pending[s] = <<>>
        BY <1>1, <2>3 DEF TypeOK, HandlerOK
      <3>2. StreamOK(s)'
        BY <2>1, <2>3, <3>1, LiveStream
      <3> QED BY <2>1, <3>2 DEF HandlerOK
    <2> QED BY <1>6, <2>2, <2>3 DEF SendFails
  <1>7. ASSUME ReplayDone(s) \/ ContextDone(s) \/ Unregister(s) \/ CloseChannel(s)
        PROVE  HandlerOK(s)'
    <2>1. /\ phase[s] \notin Unsubscribed /\ phase'[s] \notin Unsubscribed
          /\ phase'[s] = "live" => phase[s] = "replay" /\ pending[s] = <<>>
          /\ phase'[s] # "replay"
          /\ UNCHANGED <<events, ch, sub, pending, received, dropped>>
      BY <1>7 DEF ReplayDone, ContextDone, Unregister, CloseChannel, TypeOK, bus
    <2>2. Stream(s)' = Stream(s)
      BY <2>1 DEF Stream
    <2>3. StreamOK(s)' /\ (Accounted(s) => Accounted(s)')
      BY <1>1, <2>1, <2>2, StreamSame DEF HandlerOK
    <2> QED BY <1>1, <2>1, <2>3 DEF HandlerOK
  <1> QED
    BY <1>2, <1>3, <1>4, <1>5, <1>6, <1>7 DEF Handler

(* Every step of a handler keeps FeedInv. *)
LEMMA HandlerKeepsFeed ==
    ASSUME TypeOK, FeedInv, NEW s \in Handlers, Handler(s)
    PROVE  FeedInv'
  <1>1. events' = events
    BY DEF Handler, Subscribe, SubscribeReject, SendReplay, ReplayDone, SendLive,
           ContextDone, SendFails, Unregister, CloseChannel, bus
  <1>2. ASSUME NEW x \in Handlers, x # s
        PROVE  HandlerOK(x)'
    <2>1. /\ received'[x] = received[x] /\ pending'[x] = pending[x] /\ ch'[x] = ch[x]
          /\ dropped'[x] = dropped[x] /\ phase'[x] = phase[x]
      BY <1>2 DEF Handler, Subscribe, SubscribeReject, SendReplay, ReplayDone, SendLive,
                  ContextDone, SendFails, Unregister, CloseChannel, TypeOK
    <2>2. x \in DOMAIN sub => sub'[x] = sub[x]
      BY <1>2 DEF Handler, Subscribe, SubscribeReject, SendReplay, ReplayDone, SendLive,
                  ContextDone, SendFails, Unregister, CloseChannel, Put
    <2>3. phase[x] \notin Unsubscribed => sub'[x] = sub[x]
      BY <2>2, SubTyped
    <2> QED BY <1>1, <2>1, <2>3, HandlerFrame DEF FeedInv
  <1>3. HandlerOK(s)'
    BY HandlerKeepsItself
  <1> QED BY <1>1, <1>2, <1>3 DEF FeedInv, LogNumbered

-----------------------------------------------------------------------------
(* What the subscribers are sent *)

(* FeedInv is an invariant of the bus: the log is numbered, and every      *)
(* handler holds entries of its log in order, none of them unaccounted.    *)
THEOREM FeedCorrect == Spec => []FeedInv
  <1>1. Init => FeedInv
    <2> SUFFICES ASSUME Init PROVE FeedInv
      OBVIOUS
    <2>1. LogNumbered
      BY DEF Init, LogNumbered
    <2>2. \A s \in Handlers : phase[s] = "idle" /\ Unused(s)
      BY DEF Init, Unused
    <2> QED BY <2>1, <2>2 DEF FeedInv, HandlerOK, Unsubscribed
  <1>2. TypeOK /\ SendsOnlyToOpen /\ FeedInv /\ [Next]_vars => FeedInv'
    <2> SUFFICES ASSUME TypeOK, SendsOnlyToOpen, FeedInv, [Next]_vars
                 PROVE  FeedInv'
      OBVIOUS
    <2>1. ASSUME NEW q \in PublishRequests, Publish(q)
          PROVE  FeedInv'
      BY <2>1, PublishKeepsFeed
    <2>2. ASSUME NEW s \in Handlers, Handler(s)
          PROVE  FeedInv'
      BY <2>2, HandlerKeepsFeed
    <2>3. CASE UNCHANGED <<events, streams>>
      <3>1. \A s \in Handlers : HandlerOK(s)'
        BY <2>3, HandlerFrame DEF FeedInv, streams
      <3> QED BY <2>3, <3>1 DEF FeedInv, LogNumbered
    <2>4. ASSUME NEW q \in PublishRequests, PublishReject(q)
          PROVE  FeedInv'
      BY <2>3, <2>4 DEF PublishReject, bus
    <2>5. CASE Close
      BY <2>3, <2>5 DEF Close
    <2>6. CASE UNCHANGED vars
      BY <2>3, <2>6 DEF vars, bus
    <2> QED BY <2>1, <2>2, <2>4, <2>5, <2>6 DEF Next
  <1> QED BY <1>1, <1>2, TypeCorrect, ChannelsOpen, PTL DEF Spec

(* A client sees the sequence numbers of its topic strictly increasing,    *)
(* replayed events first, whatever is published between the snapshot and   *)
(* the switch to the live channel and whatever a full channel drops.       *)
THEOREM DeliveryIsOrdered == Spec => []DeliveryInOrder
  <1>1. TypeOK /\ FeedInv => DeliveryInOrder
    <2> SUFFICES ASSUME TypeOK, FeedInv, NEW s \in Handlers,
                        NEW i \in DOMAIN Stream(s), NEW j \in DOMAIN Stream(s), i < j
                 PROVE  /\ Stream(s)[i].sequence < Stream(s)[j].sequence
                        /\ Stream(s)[j].replay => Stream(s)[i].replay
      BY DEF DeliveryInOrder
    <2>1. CASE phase[s] \in Unsubscribed
      <3>1. Unused(s)
        BY <2>1 DEF FeedInv, HandlerOK
      <3>2. Stream(s) = <<>>
        BY <3>1 DEF Unused, Stream
      <3> QED BY <3>2
    <2>2. CASE phase[s] \notin Unsubscribed
      <3>1. StreamOK(s)
        BY <2>2 DEF FeedInv, HandlerOK
      <3>2. Stream(s)[i].sequence < Stream(s)[j].sequence
        BY <3>1 DEF StreamOK, Increasing
      <3>3. Entry(s, Stream(s)[i]) /\ Entry(s, Stream(s)[j])
        BY <3>1 DEF StreamOK
      <3>4. Stream(s)[i].sequence \in Nat /\ Stream(s)[j].sequence \in Nat
        BY StreamTyped
      <3>5. sub[s].length \in Nat
        BY <2>2, SubTyped
      <3> QED BY <3>2, <3>3, <3>4, <3>5 DEF Entry
    <2> QED BY <2>1, <2>2
  <1> QED BY <1>1, FeedCorrect, TypeCorrect, PTL

(* Nothing is lost or doubled between the snapshot and the registration of *)
(* the channel, or by resuming at a cursor: while a client is served,      *)
(* every event it asked for has been sent, is on its way or was dropped by *)
(* a full channel, and no other event is.                                  *)
THEOREM EventsAreAccounted == Spec => []EventsAccounted
  <1>1. FeedInv => EventsAccounted
    BY DEF FeedInv, HandlerOK, Accounted, OnItsWay, Wanted, EventsAccounted
  <1> QED BY <1>1, FeedCorrect, PTL

-----------------------------------------------------------------------------
(* The refinement of OrderedFeed *)

FeedLog == [t \in Topics |-> PlainSeq(events[t])]
FeedView == [s \in Handlers |-> PlainSeq(received[s])]

(* A published event extends the abstract log of its topic. *)
LEMMA PublishExtends ==
    ASSUME TypeOK, LogNumbered, NEW q \in PublishRequests, Publish(q)
    PROVE  Feed!Extend(PublishTopic(q), q.head.tenant)
  <1> DEFINE t == PublishTopic(q)
             e == Event(t, NextSequence(t), q.head.tenant)
             r == [topic |-> t, sequence |-> Len(PlainSeq(events[t])) + 1,
                   tenant |-> q.head.tenant]
  <1>1. /\ t \in Topics /\ e \in EventSet
        /\ Len(events'[t]) = Len(events[t]) + 1
        /\ events'[t][Len(events[t]) + 1] = e
        /\ \A u \in Topics : u # t => events'[u] = events[u]
        /\ \A i \in 1..Len(events[t]) : events'[t][i] = events[t][i]
    BY LogGrows
  <1>2. events[t] \in Seq(EventSet) /\ events'[t] \in Seq(EventSet)
    BY <1>1, PublishKeepsTypes DEF TypeOK
  <1>3. /\ DOMAIN events[t] = 1..Len(events[t]) /\ Len(events[t]) \in Nat
        /\ DOMAIN events'[t] = 1..(Len(events[t]) + 1)
    BY <1>1, <1>2
  <1>4. /\ PlainSeq(events[t]) = [i \in 1..Len(events[t]) |-> Plain(events[t][i])]
        /\ PlainSeq(events'[t]) = [i \in 1..(Len(events[t]) + 1) |-> Plain(events'[t][i])]
    BY <1>3 DEF PlainSeq
  <1>5. Plain(e) = r
    <2>1. Len(PlainSeq(events[t])) = Len(events[t])
      BY <1>3, <1>4
    <2> QED BY <2>1 DEF Plain, Event, NextSequence
  <1> HIDE DEF e, r
  <1>6. PlainSeq(events'[t]) = Append(PlainSeq(events[t]), r)
    BY <1>1, <1>3, <1>4, <1>5
  <1>7. FeedLog' = [FeedLog EXCEPT ![t] = Append(@, r)]
    BY <1>1, <1>6 DEF FeedLog
  <1>8. FeedView' = FeedView
    BY DEF Publish, FeedView
  <1>9. r = [topic |-> t, sequence |-> Len(FeedLog[t]) + 1, tenant |-> q.head.tenant]
    BY <1>1 DEF FeedLog, r
  <1> QED BY <1>7, <1>8, <1>9 DEF Feed!Extend, FeedLog, FeedView

(* An event sent to a client shows an entry of the log that comes after    *)
(* all it has been shown.                                                  *)
LEMMA SendShows ==
    ASSUME TypeOK, FeedInv, NEW s \in Handlers, phase[s] \notin Unsubscribed,
           NEW e, Len(received[s]) + 1 \in DOMAIN Stream(s),
           Stream(s)[Len(received[s]) + 1] = e,
           received' = [received EXCEPT ![s] = Append(@, e)], events' = events
    PROVE  /\ sub[s].topic \in Topics
           /\ e.sequence \in DOMAIN FeedLog[sub[s].topic]
           /\ Feed!Show(s, sub[s].topic, e.sequence)
  <1> DEFINE t == sub[s].topic
             n == Len(received[s])
  <1>1. StreamOK(s) /\ LogNumbered
    BY DEF FeedInv, HandlerOK
  <1>2. /\ t \in Topics /\ events[t] \in Seq(EventSet) /\ Len(events[t]) \in Nat
        /\ DOMAIN events[t] = 1..Len(events[t])
    BY SubTyped
  <1>3. /\ received[s] \in Seq(EventSet) /\ n \in Nat /\ DOMAIN received[s] = 1..n
        /\ Stream(s) \in Seq(EventSet)
        /\ DOMAIN Stream(s) = 1..Len(Stream(s)) /\ Len(Stream(s)) \in Nat
    BY StreamTyped
  <1>4. \A i \in 1..n : i \in DOMAIN Stream(s) /\ Stream(s)[i] = received[s][i]
    <2>1. PICK a \in Seq(EventSet), b \in Seq(EventSet), c \in Seq(EventSet) :
            a = received[s] /\ b = pending[s] /\ c = ch[s]
      BY StreamTyped
    <2>2. \A i \in 1..Len(a) : (a \o b \o c)[i] = a[i]
      BY ConcatAt
    <2>3. \A i \in 1..n : i \in DOMAIN Stream(s)
      BY <1>3
    <2> QED BY <2>1, <2>2, <2>3 DEF Stream
  <1>5. e \in EventSet /\ Entry(s, e)
    BY <1>1, <1>3, ElementOfSeq DEF StreamOK
  <1>6. \A i \in 1..n : /\ received[s][i].sequence < e.sequence
                        /\ received[s][i].topic = t
    <2> SUFFICES ASSUME NEW i \in 1..n
                 PROVE  received[s][i].sequence < e.sequence /\ received[s][i].topic = t
      OBVIOUS
    <2>1. i \in DOMAIN Stream(s) /\ Stream(s)[i] = received[s][i] /\ i < n + 1
      BY <1>3, <1>4
    <2>2. received[s][i].sequence < e.sequence
      BY <1>1, <2>1 DEF StreamOK, Increasing
    <2>3. Entry(s, received[s][i])
      BY <1>1, <2>1 DEF StreamOK
    <2>4. received[s][i].topic = t
      BY <1>1, <1>2, <2>3 DEF Entry, Plain, LogNumbered
    <2> QED BY <2>2, <2>4
  <1>7. FeedLog[t] = [i \in 1..Len(events[t]) |-> Plain(events[t][i])]
    BY <1>2 DEF FeedLog, PlainSeq
  <1>8. e.sequence \in 1..Len(events[t]) /\ FeedLog[t][e.sequence] = Plain(e)
    BY <1>5, <1>7 DEF Entry
  <1>9. FeedView[s] = [i \in 1..n |-> Plain(received[s][i])]
    BY <1>3 DEF FeedView, PlainSeq
  <1>10. \A i \in DOMAIN FeedView[s] :
           FeedView[s][i].topic = t /\ FeedView[s][i].sequence < e.sequence
    BY <1>6, <1>9 DEF Plain
  <1>11. PlainSeq(Append(received[s], e)) = Append(PlainSeq(received[s]), Plain(e))
    <2>1. PICK p \in Seq(EventSet) : p = received[s]
      BY <1>3
    <2>2. /\ DOMAIN Append(p, e) = 1..(Len(p) + 1) /\ DOMAIN p = 1..Len(p)
          /\ Append(p, e)[Len(p) + 1] = e /\ Len(p) \in Nat
          /\ \A i \in 1..Len(p) : Append(p, e)[i] = p[i]
      BY <1>5
    <2>3. /\ PlainSeq(p) = [i \in 1..Len(p) |-> Plain(p[i])]
          /\ PlainSeq(Append(p, e)) = [i \in 1..(Len(p) + 1) |-> Plain(Append(p, e)[i])]
      BY <2>2 DEF PlainSeq
    <2>4. PlainSeq(Append(p, e)) = Append(PlainSeq(p), Plain(e))
      BY <2>2, <2>3
    <2> QED BY <2>1, <2>4
  <1>12. FeedView' = [FeedView EXCEPT ![s] = Append(@, FeedLog[t][e.sequence])]
    <2>1. \A x \in Handlers : received'[x] = IF x = s THEN Append(received[s], e)
                                             ELSE received[x]
      BY DEF TypeOK
    <2>2. FeedView' = [x \in Handlers |-> IF x = s THEN Append(PlainSeq(received[s]), Plain(e))
                                          ELSE PlainSeq(received[x])]
      <3>1. ASSUME NEW x \in Handlers
            PROVE  PlainSeq(received'[x])
                     = IF x = s THEN Append(PlainSeq(received[s]), Plain(e))
                       ELSE PlainSeq(received[x])
        <4>1. CASE x = s
          <5>1. received'[x] = Append(received[s], e)
            BY <2>1, <4>1
          <5> QED BY <1>11, <4>1, <5>1
        <4>2. CASE x # s
          <5>1. received'[x] = received[x]
            BY <2>1, <4>2
          <5> QED BY <4>2, <5>1
        <4> QED BY <4>1, <4>2
      <3> QED BY <3>1 DEF FeedView, PlainSeq
    <2> QED BY <1>8, <2>2 DEF FeedView
  <1>13. FeedLog' = FeedLog
    BY DEF FeedLog
  <1>14. Feed!Show(s, t, e.sequence)
    BY <1>10, <1>12, <1>13 DEF Feed!Show, FeedLog, FeedView
  <1>15. e.sequence \in DOMAIN FeedLog[t]
    BY <1>7, <1>8
  <1> QED BY <1>2, <1>14, <1>15

(* The bus implements OrderedFeed: a publication extends one log, a send   *)
(* to a client shows it one entry further on, every other step, whatever   *)
(* it does to channels and registrations, is invisible.                    *)
THEOREM FeedImplemented == Spec => FeedRefines
  <1>1. Init => Feed!Init
    <2> SUFFICES ASSUME Init PROVE Feed!Init
      OBVIOUS
    <2>1. PlainSeq(<<>>) = <<>>
      BY DEF PlainSeq
    <2>2. /\ \A t \in Topics : events[t] = <<>>
          /\ \A s \in Handlers : received[s] = <<>>
      BY DEF Init
    <2> QED BY <2>1, <2>2 DEF Feed!Init
  <1>2. TypeOK /\ FeedInv /\ [Next]_vars => [Feed!Next]_(Feed!vars)
    <2> SUFFICES ASSUME TypeOK, FeedInv, [Next]_vars
                 PROVE  Feed!Next \/ UNCHANGED Feed!vars
      OBVIOUS
    <2>1. ASSUME NEW q \in PublishRequests, Publish(q)
          PROVE  Feed!Next
      <3>1. Feed!Extend(PublishTopic(q), q.head.tenant)
        BY <2>1, PublishExtends DEF FeedInv
      <3>2. PublishTopic(q) \in Topics /\ q.head.tenant \in Tenants
        BY <2>1, PublishTyped DEF Publish
      <3> QED BY <3>1, <3>2 DEF Feed!Next
    <2>2. ASSUME NEW s \in Handlers, SendReplay(s) \/ SendLive(s)
          PROVE  Feed!Next
      <3>1. phase[s] \notin Unsubscribed /\ events' = events
        BY <2>2 DEF SendReplay, SendLive, Unsubscribed, bus
      <3>2. PICK a \in Seq(EventSet), b \in Seq(EventSet), c \in Seq(EventSet) :
              a = received[s] /\ b = pending[s] /\ c = ch[s]
        BY StreamTyped
      <3>3. /\ DOMAIN (a \o b \o c) = 1..(Len(a) + Len(b) + Len(c))
            /\ \A i \in 1..Len(b) : (a \o b \o c)[Len(a) + i] = b[i]
            /\ \A i \in 1..Len(c) : (a \o b \o c)[Len(a) + Len(b) + i] = c[i]
            /\ Len(a) \in Nat /\ Len(b) \in Nat /\ Len(c) \in Nat
        BY ConcatAt, LenProperties
      <3> Stream(s) = a \o b \o c
        BY <3>2 DEF Stream
      <3>4. PICK e : /\ Len(a) + 1 \in DOMAIN Stream(s)
                     /\ Stream(s)[Len(a) + 1] = e
                     /\ received' = [received EXCEPT ![s] = Append(@, e)]
        <4>1. CASE SendReplay(s)
          <5>1. /\ b # <<>>
                /\ received' = [received EXCEPT ![s] = Append(@, Head(b))]
            BY <3>2, <4>1 DEF SendReplay
          <5>2. Len(b) > 0 /\ Head(b) = b[1]
            BY <5>1
          <5>3. 1 \in 1..Len(b) /\ Len(a) + 1 \in 1..(Len(a) + Len(b) + Len(c))
            BY <3>3, <5>2
          <5>4. Len(a) + 1 \in DOMAIN Stream(s) /\ Stream(s)[Len(a) + 1] = Head(b)
            BY <3>3, <5>2, <5>3
          <5> QED BY <5>1, <5>4
        <4>2. CASE SendLive(s)
          <5>1. /\ c # <<>> /\ b = <<>>
                /\ received' = [received EXCEPT ![s] = Append(@, Head(c))]
            BY <3>2, <4>2 DEF SendLive, FeedInv, HandlerOK
          <5>2. Len(c) > 0 /\ Head(c) = c[1] /\ Len(b) = 0
            BY <5>1
          <5>3. /\ 1 \in 1..Len(c) /\ Len(a) + 1 \in 1..(Len(a) + Len(b) + Len(c))
                /\ Len(a) + Len(b) + 1 = Len(a) + 1
            BY <3>3, <5>2
          <5>4. Len(a) + 1 \in DOMAIN Stream(s) /\ Stream(s)[Len(a) + 1] = Head(c)
            BY <3>3, <5>2, <5>3
          <5> QED BY <5>1, <5>4
        <4> QED BY <2>2, <4>1, <4>2
      <3>5. /\ sub[s].topic \in Topics
            /\ e.sequence \in DOMAIN FeedLog[sub[s].topic]
            /\ Feed!Show(s, sub[s].topic, e.sequence)
        BY <3>1, <3>2, <3>4, SendShows
      <3> QED BY <3>5 DEF Feed!Next, FeedLog
    <2>3. CASE UNCHANGED <<events, received>>
      BY <2>3 DEF Feed!vars, PlainSeq
    <2>4. ASSUME NEW s \in Handlers, Handler(s), ~SendReplay(s), ~SendLive(s)
          PROVE  UNCHANGED <<events, received>>
      BY <2>4 DEF Handler, Subscribe, SubscribeReject, ReplayDone, ContextDone,
                  SendFails, Unregister, CloseChannel, bus
    <2>5. ASSUME NEW q \in PublishRequests, PublishReject(q)
          PROVE  UNCHANGED <<events, received>>
      BY <2>5 DEF PublishReject, bus, streams
    <2>6. CASE Close
      BY <2>3, <2>6 DEF Close, streams
    <2>7. CASE UNCHANGED vars
      BY <2>3, <2>7 DEF vars, bus, streams
    <2> QED BY <2>1, <2>2, <2>3, <2>4, <2>5, <2>6, <2>7 DEF Next
  <1> QED
    BY <1>1, <1>2, TypeCorrect, FeedCorrect, PTL DEF Spec, FeedRefines, Feed!Spec
=============================================================================
