------------------------ MODULE RpcConnectionProofs ------------------------
(***************************************************************************)
(* Proofs about one connection for any number of requests and any sizes of *)
(* the channel and the socket: types and bounds, that no response is lost  *)
(* while the connection is up, and that the client receives what           *)
(* RpcExchange promises.                                                   *)
(***************************************************************************)
EXTENDS RpcConnection, FiniteSetTheorems, TLAPS

\* The writer runs as long as the client and the reader are there.
LoopInv == client # "closed" /\ reader = "reading" => writer = "running"

LEMMA ContainsAppend ==
    ASSUME NEW S, NEW s \in Seq(S), NEW m \in S, NEW x
    PROVE  Contains(Append(s, m), x) <=> Contains(s, x) \/ x = m
<1>1. ASSUME Contains(s, x) PROVE Contains(Append(s, m), x)
  <2> PICK i \in DOMAIN s : s[i] = x
    BY <1>1 DEF Contains
  <2>1. i \in DOMAIN Append(s, m) /\ Append(s, m)[i] = x
    OBVIOUS
  <2> QED BY <2>1 DEF Contains
<1>2. Contains(Append(s, m), m)
  <2>1. Len(s) + 1 \in DOMAIN Append(s, m) /\ Append(s, m)[Len(s) + 1] = m
    OBVIOUS
  <2> QED BY <2>1 DEF Contains
<1>3. ASSUME Contains(Append(s, m), x), x # m PROVE Contains(s, x)
  <2> PICK i \in DOMAIN Append(s, m) : Append(s, m)[i] = x
    BY <1>3 DEF Contains
  <2>1. i \in DOMAIN s /\ s[i] = x
    BY <1>3
  <2> QED BY <2>1 DEF Contains
<1> QED BY <1>1, <1>2, <1>3

LEMMA ContainsTail ==
    ASSUME NEW S, NEW s \in Seq(S), s # << >>, NEW x
    PROVE  Contains(s, x) <=> x = Head(s) \/ Contains(Tail(s), x)
<1>1. ASSUME Contains(s, x), x # Head(s) PROVE Contains(Tail(s), x)
  <2> PICK i \in DOMAIN s : s[i] = x
    BY <1>1 DEF Contains
  <2>1. i - 1 \in DOMAIN Tail(s) /\ Tail(s)[i - 1] = x
    BY <1>1
  <2> QED BY <2>1 DEF Contains
<1>2. ASSUME Contains(Tail(s), x) PROVE Contains(s, x)
  <2> PICK i \in DOMAIN Tail(s) : Tail(s)[i] = x
    BY <1>2 DEF Contains
  <2>1. i + 1 \in DOMAIN s /\ s[i + 1] = x
    OBVIOUS
  <2> QED BY <2>1 DEF Contains
<1>3. Contains(s, Head(s))
  <2>1. 1 \in DOMAIN s /\ s[1] = Head(s)
    OBVIOUS
  <2> QED BY <2>1 DEF Contains
<1> QED BY <1>1, <1>2, <1>3

LEMMA Sizes == MaxNotes \in Nat /\ ChannelSize \in Nat \ {0} /\ SocketSize \in Nat \ {0}
BY ConnectionAssumption

LEMMA AppendType ==
    ASSUME NEW S, NEW s \in Seq(S), NEW m \in S
    PROVE  Append(s, m) \in Seq(S) /\ Len(Append(s, m)) = Len(s) + 1
OBVIOUS

LEMMA TailType ==
    ASSUME NEW S, NEW s \in Seq(S), s # << >>
    PROVE  Head(s) \in S /\ Tail(s) \in Seq(S) /\ Len(Tail(s)) = Len(s) - 1
OBVIOUS

LEMMA EnqueueType ==
    ASSUME TypeOK, NEW m \in Messages, Enqueue(m)
    PROVE  channel' \in Seq(Messages) /\ Len(channel') <= ChannelSize
<1>1. channel \in Seq(Messages) /\ Len(channel) <= ChannelSize
  BY DEF TypeOK
<1>2. CASE Len(channel) < ChannelSize /\ channel' = Append(channel, m)
  <2>1. channel' \in Seq(Messages) /\ Len(channel') = Len(channel) + 1
    BY <1>1, <1>2, AppendType
  <2>2. Len(channel) \in Nat
    BY <1>1
  <2> QED BY <1>2, <2>1, <2>2, Sizes
<1>3. CASE channel' = channel
  BY <1>1, <1>3
<1> QED BY <1>2, <1>3 DEF Enqueue

LEMMA TypesAndLoops == Spec => [](TypeOK /\ LoopInv)
<1>1. Init => TypeOK /\ LoopInv
  BY Sizes DEF Init, Messages, TypeOK, LoopInv
<1>2. TypeOK /\ LoopInv /\ [Next]_vars => (TypeOK /\ LoopInv)'
  <2> SUFFICES ASSUME TypeOK, LoopInv, [Next]_vars
               PROVE  (TypeOK /\ LoopInv)'
    OBVIOUS
  <2> USE Sizes DEF Goto, task, notes, TypeOK, LoopInv
  <2>1. ASSUME NEW r \in Requests, Send(r) PROVE (TypeOK /\ LoopInv)'
    <3>1. toServer' \in Seq(Requests)
      BY <2>1, AppendType DEF Send
    <3> QED BY <2>1, <3>1 DEF Send
  <2>2. ASSUME NEW r \in Requests, BeginNotify(r) PROVE (TypeOK /\ LoopInv)'
    <3>1. begun[r] + 1 \in 1..MaxNotes
      BY <2>2 DEF BeginNotify
    <3>2. begun' \in [Requests -> 0..MaxNotes] /\ begun'[r] = begun[r] + 1
      BY <2>2, <3>1 DEF BeginNotify
    <3>3. pending' \in [Requests -> SUBSET (1..MaxNotes)]
      BY <2>2, <3>1, <3>2 DEF BeginNotify
    <3> QED BY <2>2, <3>2, <3>3 DEF BeginNotify
  <2>3. ASSUME NEW r \in Requests, Notify(r) PROVE (TypeOK /\ LoopInv)'
    <3>1. PICK n \in pending[r] :
            /\ Enqueue([of |-> r, what |-> n])
            /\ pending' = [pending EXCEPT ![r] = @ \ {n}]
            /\ UNCHANGED <<client, toServer, reader, pc, begun, writer, hand, toClient, got>>
      BY <2>3 DEF Notify
    <3>2. [of |-> r, what |-> n] \in Messages
      BY DEF Messages
    <3>3. channel' \in Seq(Messages) /\ Len(channel') <= ChannelSize
      BY <3>1, <3>2, EnqueueType
    <3>4. pending' \in [Requests -> SUBSET (1..MaxNotes)]
      BY <3>1
    <3> QED BY <3>1, <3>3, <3>4
  <2>4. ASSUME NEW r \in Requests, Return(r) PROVE (TypeOK /\ LoopInv)'
    BY <2>4 DEF Return
  <2>5. ASSUME NEW r \in Requests, Respond(r) PROVE (TypeOK /\ LoopInv)'
    <3>1. [of |-> r, what |-> Response] \in Messages
      BY DEF Messages
    <3>2. channel' \in Seq(Messages) /\ Len(channel') <= ChannelSize
      BY <2>5, <3>1, EnqueueType DEF Respond
    <3> QED BY <2>5, <3>2 DEF Respond
  <2>6. CASE ShutDown
    BY <2>6 DEF ShutDown
  <2>7. CASE Close
    BY <2>7 DEF Close
  <2>8. CASE Read
    <3> DEFINE m == Head(toClient)
    <3>1. /\ m \in Messages /\ toClient' \in Seq(Messages)
          /\ Len(toClient') <= SocketSize
      BY <2>8, TailType DEF Read
    <3>2. m.of \in Requests /\ m.what \in (1..MaxNotes) \union {Response}
      BY <3>1 DEF Messages
    <3>3. Append(got[m.of], m.what) \in Seq((1..MaxNotes) \union {Response})
      BY <3>2, AppendType
    <3>4. got' \in [Requests -> Seq((1..MaxNotes) \union {Response})]
      BY <2>8, <3>2, <3>3 DEF Read
    <3> QED BY <2>8, <3>1, <3>4 DEF Read
  <2>9. CASE TakeFrame
    <3>1. Head(toServer) \in Requests /\ Tail(toServer) \in Seq(Requests)
      BY <2>9, TailType DEF TakeFrame
    <3>2. toServer' \in Seq(Requests)
      <4>1. toServer' = Tail(toServer) \/ toServer' = << >>
        BY <2>9 DEF TakeFrame, StopReading
      <4>2. << >> \in Seq(Requests)
        OBVIOUS
      <4> QED BY <3>1, <4>1, <4>2
    <3>3. pc' \in [Requests -> {"none", "sent", "working", "respond", "done"}]
      BY <2>9, <3>1 DEF TakeFrame
    <3> QED BY <2>9, <3>1, <3>2, <3>3 DEF TakeFrame, StopReading
  <2>10. CASE EndOfStream
    BY <2>10 DEF EndOfStream, StopReading
  <2>11. CASE Receive
    <3>1. /\ Head(channel) \in Messages /\ Tail(channel) \in Seq(Messages)
          /\ Len(Tail(channel)) <= ChannelSize
      BY <2>11, TailType DEF Receive
    <3> QED BY <2>11, <3>1 DEF Receive
  <2>12. CASE Write
    <3>1. hand \in Messages
      BY <2>12 DEF Write
    <3>2. /\ Append(toClient, hand) \in Seq(Messages)
          /\ Len(Append(toClient, hand)) = Len(toClient) + 1
      BY <3>1, AppendType
    <3>3. toClient' \in Seq(Messages) /\ Len(toClient') <= SocketSize
      <4>1. CASE toClient' = toClient
        BY <4>1
      <4>2. CASE Len(toClient) < SocketSize /\ toClient' = Append(toClient, hand)
        <5>1. Len(toClient) \in Nat
          OBVIOUS
        <5> QED BY <3>2, <4>2, <5>1
      <4> QED BY <2>12, <4>1, <4>2 DEF Write
    <3>4. /\ channel' \in Seq(Messages) /\ Len(channel') <= ChannelSize
          /\ hand' = NoMessage
          /\ writer' = writer \/ (client = "closed" /\ writer' = "ended")
      <4>1. << >> \in Seq(Messages) /\ Len(<< >>) <= ChannelSize
        OBVIOUS
      <4>2. CASE UNCHANGED <<writer, channel>> /\ hand' = NoMessage
        BY <4>2
      <4>3. CASE client = "closed" /\ DropReceiver
        BY <4>1, <4>3 DEF DropReceiver
      <4> QED BY <2>12, <4>2, <4>3 DEF Write
    <3> QED BY <2>12, <3>3, <3>4 DEF Write
  <2>13. CASE Cancel
    BY <2>13 DEF Cancel, DropReceiver
  <2>14. CASE UNCHANGED vars
    BY <2>14 DEF vars
  <2> QED
    BY <2>1, <2>2, <2>3, <2>4, <2>5, <2>6, <2>7, <2>8, <2>9, <2>10, <2>11, <2>12,
       <2>13, <2>14 DEF Next, Handle
<1> QED BY <1>1, <1>2, PTL DEF Spec

(* Every variable keeps its type; in particular the channel and the socket never
   hold more than they have room for. *)
THEOREM ConnectionTypeCorrect == Spec => []TypeOK
BY TypesAndLoops, PTL

-----------------------------------------------------------------------------
\* The response of r is on its way or has arrived.
OnItsWay(r) ==
    LET m == [of |-> r, what |-> Response] IN
    Contains(channel, m) \/ hand = m \/ Contains(toClient, m) \/ Answered(r)

LEMMA ResponseIsMessage ==
    ASSUME NEW r \in Requests
    PROVE  [of |-> r, what |-> Response] \in Messages
BY DEF Messages

\* No step of an open connection takes a response out of the line.
LEMMA LineKeeps ==
    ASSUME TypeOK, LoopInv, Next, client' # "closed", reader' = "reading",
           NEW r \in Requests, OnItsWay(r)
    PROVE  OnItsWay(r)'
<1> DEFINE m == [of |-> r, what |-> Response]
<1> USE DEF task, notes
<1>0. /\ m \in Messages /\ client # "closed" /\ reader = "reading"
      /\ writer = "running" /\ m # NoMessage
  BY ResponseIsMessage, ConnectionAssumption
     DEF Next, Handle, Send, BeginNotify, Notify, Return, Respond, ShutDown, Close,
         Read, TakeFrame, StopReading, EndOfStream, Receive, Write, Cancel,
         DropReceiver, LoopInv, Messages
<1>1. CASE \E q \in Requests : Notify(q) \/ Respond(q)
  <2>1. ASSUME Contains(channel, m) PROVE Contains(channel', m)
    <3>1. PICK q \in Requests : Notify(q) \/ Respond(q)
      BY <1>1
    <3>2. PICK w \in Messages : Enqueue(w)
      <4>1. CASE Notify(q)
        <5>1. PICK n \in pending[q] : Enqueue([of |-> q, what |-> n])
          BY <4>1 DEF Notify
        <5>2. [of |-> q, what |-> n] \in Messages
          BY DEF TypeOK, Messages
        <5> QED BY <5>1, <5>2
      <4>2. CASE Respond(q)
        BY <4>2, ResponseIsMessage DEF Respond
      <4> QED BY <3>1, <4>1, <4>2
    <3>3. channel' = Append(channel, w) /\ channel \in Seq(Messages)
      BY <3>2, <1>0 DEF Enqueue, ReceiverAlive, TypeOK
    <3> QED BY <2>1, <3>3, ContainsAppend
  <2> QED BY <1>1, <2>1 DEF Notify, Respond, OnItsWay, Answered
<1>2. CASE Read
  <2> DEFINE h == Head(toClient)
  <2>1. /\ toClient \in Seq(Messages) /\ toClient # << >>
        /\ h \in Messages /\ toClient' = Tail(toClient)
        /\ got' = [got EXCEPT ![h.of] = Append(@, h.what)]
    BY <1>2, TailType DEF Read, TypeOK
  <2>2. ASSUME Contains(toClient, m) PROVE Contains(toClient', m) \/ Answered(r)'
    <3>1. CASE m = h
      <4>1. h.of = r /\ h.what = Response
        BY <3>1
      <4>2. got[r] \in Seq((1..MaxNotes) \union {Response})
        BY DEF TypeOK
      <4>3. got'[r] = Append(got[r], Response)
        BY <2>1, <4>1 DEF TypeOK
      <4> QED BY <4>2, <4>3, ContainsAppend DEF Answered
    <3> QED BY <2>1, <2>2, <3>1, ContainsTail
  <2>3. ASSUME Answered(r) PROVE Answered(r)'
    <3>1. CASE h.of = r
      <4>1. /\ got[r] \in Seq((1..MaxNotes) \union {Response})
            /\ h.what \in (1..MaxNotes) \union {Response}
            /\ got'[r] = Append(got[r], h.what)
        BY <2>1, <3>1 DEF TypeOK, Messages
      <4> QED BY <2>3, <4>1, ContainsAppend DEF Answered
    <3>2. CASE h.of # r
      BY <2>1, <2>3, <3>2 DEF Answered, TypeOK
    <3> QED BY <3>1, <3>2
  <2> QED BY <1>2, <2>2, <2>3 DEF Read, OnItsWay
<1>3. CASE Receive
  <2>1. Contains(channel, m) => m = hand' \/ Contains(channel', m)
    BY <1>3, ContainsTail DEF Receive, TypeOK
  <2> QED BY <1>0, <1>3, <2>1 DEF Receive, OnItsWay, Answered
<1>4. CASE Write
  <2>1. /\ hand \in Messages /\ toClient \in Seq(Messages)
        /\ toClient' = Append(toClient, hand)
    BY <1>0, <1>4 DEF Write, TypeOK
  <2>2. Contains(toClient, m) \/ m = hand => Contains(toClient', m)
    BY <2>1, ContainsAppend
  <2> QED BY <1>0, <1>4, <2>2 DEF Write, OnItsWay, Answered
<1>5. CASE UNCHANGED <<channel, hand, toClient, got>>
  BY <1>5 DEF OnItsWay, Answered
<1> QED BY <1>0, <1>1, <1>2, <1>3, <1>4, <1>5
        DEF Next, Handle, Send, BeginNotify, Return, ShutDown, Close, TakeFrame,
            StopReading, EndOfStream, Cancel

(* While a connection is up, the response of every request that was handled is
   on its way to the client or has arrived, for any number of overlapping
   requests and however often the channel and the socket are full. *)
THEOREM NoResponseIsLost == Spec => []NoResponseLost
<1> DEFINE Line == client # "closed" /\ reader = "reading" =>
                     \A r \in Requests \ Malformed : pc[r] = "done" => OnItsWay(r)
<1>1. Line <=> NoResponseLost
  BY DEF NoResponseLost, OnItsWay
<1>2. Init => Line
  BY DEF Init
<1>3. TypeOK /\ LoopInv /\ Line /\ [Next]_vars => Line'
  <2> SUFFICES ASSUME TypeOK, LoopInv, Line, [Next]_vars,
                      client' # "closed", reader' = "reading",
                      NEW r \in Requests \ Malformed, pc'[r] = "done"
               PROVE  OnItsWay(r)'
    OBVIOUS
  <2>1. CASE UNCHANGED vars
    BY <2>1 DEF vars, OnItsWay, Answered
  <2>2. CASE Next /\ pc[r] = "done"
    <3>1. client # "closed" /\ reader = "reading"
      BY <2>2 DEF Next, Handle, Send, BeginNotify, Notify, Return, Respond, ShutDown,
                  Close, Read, TakeFrame, StopReading, EndOfStream, Receive, Write,
                  Cancel, task, notes
    <3> QED BY <2>2, <3>1, LineKeeps
  <2>3. CASE Next /\ pc[r] # "done"
    <3>1. Respond(r)
      BY <2>3 DEF Next, Handle, Send, BeginNotify, Notify, Return, Respond, ShutDown,
                  Close, Read, TakeFrame, StopReading, EndOfStream, Receive, Write,
                  Cancel, task, notes, Goto, TypeOK
    <3>2. writer = "running"
      BY <3>1 DEF LoopInv, Respond
    <3>3. channel' = Append(channel, [of |-> r, what |-> Response])
      BY <3>1, <3>2 DEF Respond, Enqueue, ReceiverAlive
    <3> QED BY <3>3, ResponseIsMessage, ContainsAppend DEF TypeOK, OnItsWay
  <2> QED BY <2>1, <2>2, <2>3
<1> QED BY <1>1, <1>2, <1>3, TypesAndLoops, PTL DEF Spec

-----------------------------------------------------------------------------
(***************************************************************************)
(* What the client receives is what was put into the line, in its order.   *)
(* The line is the socket, the writer's hand and the channel.              *)
(***************************************************************************)
TheHand == IF hand = NoMessage THEN << >> ELSE <<hand>>

Line == toClient \o TheHand \o channel

Received(r) == {got[r][i] : i \in DOMAIN got[r]}

\* Message x of r precedes the i-th of the line: it was received, or is in front.
Came(r, x, i) ==
    x \in Received(r) \/ \E j \in 1..(i - 1) : Line[j] = [of |-> r, what |-> x]

\* Message x of r was received or is in the line.
Off(r, x) == Came(r, x, Len(Line) + 1)

\* A request is in the socket once, and nobody works on it yet.
FramesWait ==
    \A i \in DOMAIN toServer :
        /\ pc[toServer[i]] = "sent"
        /\ \A j \in DOMAIN toServer : i # j => toServer[i] # toServer[j]

NotesOfTask(r) ==
    /\ pending[r] \subseteq 1..begun[r]
    /\ r \notin Parallel => pending[r] \subseteq {begun[r]}
    /\ pc[r] \in {"none", "sent"} => begun[r] = 0
    /\ pc[r] # "working" => pending[r] = {}

TaskInv == FramesWait /\ \A r \in Requests : NotesOfTask(r)

\* Exactly what a task has sent is off, until the writer ends.
SentIsOff(r) ==
    /\ \A n \in 1..MaxNotes : Off(r, n) => n \in (1..begun[r]) \ pending[r]
    /\ Off(r, Response) => pc[r] = "done"
    /\ writer # "ended" => \A n \in (1..begun[r]) \ pending[r] : Off(r, n)

\* The i-th message of the line comes once, after its predecessors.
InTurn(i) ==
    LET r == Line[i].of
        x == Line[i].what
    IN  /\ ~Came(r, x, i) /\ ~Came(r, Response, i)
        /\ x = Response => \A n \in 1..begun[r] : Came(r, n, i)
        /\ x # Response /\ x > 1 /\ r \notin Parallel => Came(r, x - 1, i)

GotInTurn(r) ==
    \A i \in DOMAIN got[r] :
        /\ \A j \in DOMAIN got[r] : i # j => got[r][i] # got[r][j]
        /\ r \notin Parallel => got[r][i] \in {i, Response}

LineOrder ==
    client # "closed" =>
        /\ \A r \in Requests : SentIsOff(r) /\ GotInTurn(r)
        /\ \A i \in 1..Len(Line) : InTurn(i)

LEMMA LineType ==
    ASSUME TypeOK
    PROVE  /\ Line \in Seq(Messages) /\ Len(Line) \in Nat
           /\ TheHand \in Seq(Messages)
           /\ \A i \in 1..Len(Line) :
                 /\ Line[i] \in Messages /\ Line[i].of \in Requests
                 /\ Line[i].what \in (1..MaxNotes) \union {Response}
                 /\ Line[i] = [of |-> Line[i].of, what |-> Line[i].what]
<1>1. TheHand \in Seq(Messages)
  BY DEF TheHand, TypeOK
<1>2. Line \in Seq(Messages)
  BY <1>1 DEF Line, TypeOK
<1>3. Len(Line) \in Nat /\ \A i \in 1..Len(Line) : Line[i] \in Messages
  BY <1>2
<1> QED BY <1>1, <1>2, <1>3 DEF Messages

LEMMA Joining ==
    ASSUME NEW S, NEW a \in Seq(S), NEW b \in Seq(S), NEW c \in Seq(S)
    PROVE  /\ Len(a \o b \o c) = Len(a) + Len(b) + Len(c)
           /\ \A i \in 1..(Len(a) + Len(b) + Len(c)) :
                (a \o b \o c)[i] = IF i <= Len(a) THEN a[i]
                                   ELSE IF i <= Len(a) + Len(b) THEN b[i - Len(a)]
                                   ELSE c[i - Len(a) - Len(b)]
<1>1. /\ a \o b \in Seq(S) /\ Len(a \o b) = Len(a) + Len(b)
      /\ Len(a) \in Nat /\ Len(b) \in Nat /\ Len(c) \in Nat
      /\ \A i \in 1..(Len(a) + Len(b)) :
            (a \o b)[i] = IF i <= Len(a) THEN a[i] ELSE b[i - Len(a)]
  OBVIOUS
<1>2. /\ Len((a \o b) \o c) = Len(a \o b) + Len(c)
      /\ \A i \in 1..(Len(a \o b) + Len(c)) :
            ((a \o b) \o c)[i] = IF i <= Len(a \o b) THEN (a \o b)[i] ELSE c[i - Len(a \o b)]
  BY <1>1
<1> QED BY <1>1, <1>2

LineParts ==
    /\ Len(Line) = Len(toClient) + Len(TheHand) + Len(channel)
    /\ Len(toClient) \in Nat /\ Len(TheHand) \in Nat /\ Len(channel) \in Nat
    /\ \A i \in 1..Len(Line) :
          Line[i] = IF i <= Len(toClient) THEN toClient[i]
                    ELSE IF i <= Len(toClient) + Len(TheHand)
                         THEN TheHand[i - Len(toClient)]
                    ELSE channel[i - Len(toClient) - Len(TheHand)]

LEMMA PartsNow == TypeOK => LineParts
<1> SUFFICES ASSUME TypeOK PROVE LineParts
  OBVIOUS
<1>1. toClient \in Seq(Messages) /\ TheHand \in Seq(Messages) /\ channel \in Seq(Messages)
  BY LineType DEF TypeOK
<1> QED BY <1>1, Joining DEF Line, LineParts

LEMMA PartsNext == TypeOK' => LineParts'
BY PartsNow, PTL

\* The line and what was received of it stay as they are up to position k.
Same(k) ==
    /\ UNCHANGED got
    /\ k <= Len(Line) /\ k <= Len(Line')
    /\ \A i \in 1..k : Line'[i] = Line[i]

LEMMA SameCame ==
    ASSUME NEW k \in Nat, Same(k), NEW i \in 1..(k + 1), NEW r, NEW x
    PROVE  Came(r, x, i)' <=> Came(r, x, i)
BY DEF Same, Came, Received

\* A message keeps its turn.
LEMMA SameTurn ==
    ASSUME TypeOK, NEW k \in Nat, Same(k), NEW i \in 1..k, InTurn(i),
           \A r \in Requests : SentIsOff(r),
           \A r \in Requests : pc[r] = "done" => begun'[r] = begun[r]
    PROVE  InTurn(i)'
<1>0. Line'[i] = Line[i] /\ i \in 1..Len(Line) /\ Len(Line) \in Nat
  BY LineType DEF Same
<1> PICK r \in Requests, x \in (1..MaxNotes) \union {Response} : Line[i] = [of |-> r, what |-> x]
  BY <1>0, LineType
<1>1. \A y : Came(r, y, i)' <=> Came(r, y, i)
  BY SameCame
<1>2. ASSUME x = Response PROVE begun'[r] = begun[r]
  <2>1. Off(r, Response)
    BY <1>0, <1>2 DEF Off, Came
  <2> QED BY <2>1 DEF SentIsOff
<1> QED BY <1>0, <1>1, <1>2 DEF InTurn

LEMMA Appended ==
    ASSUME TypeOK, TypeOK', NEW m \in Messages, channel' = Append(channel, m),
           UNCHANGED <<hand, toClient, got>>
    PROVE  /\ Len(Line)' = Len(Line) + 1 /\ Line'[Len(Line) + 1] = m
           /\ Same(Len(Line))
<1>1. /\ Len(channel') = Len(channel) + 1
      /\ \A i \in 1..Len(channel') :
            channel'[i] = IF i <= Len(channel) THEN channel[i] ELSE m
  BY DEF TypeOK
<1>2. TheHand' = TheHand /\ toClient' = toClient
  BY DEF TheHand
<1>3. /\ Len(Line') = Len(Line) + 1 /\ Len(Line) \in Nat
  BY <1>1, <1>2, PartsNow, PartsNext DEF LineParts
<1>4. \A i \in 1..Len(Line') :
        Line'[i] = IF i <= Len(toClient) THEN toClient[i]
                   ELSE IF i <= Len(toClient) + Len(TheHand) THEN TheHand[i - Len(toClient)]
                   ELSE channel'[i - Len(toClient) - Len(TheHand)]
  BY <1>2, PartsNow, PartsNext DEF LineParts
<1>5. Line'[Len(Line) + 1] = m
  <2> PICK n \in Nat : n = Len(Line) + 1
    BY <1>3
  <2>1. /\ Len(Line) = Len(toClient) + Len(TheHand) + Len(channel)
        /\ Len(toClient) \in Nat /\ Len(TheHand) \in Nat /\ Len(channel) \in Nat
    BY PartsNow DEF LineParts
  <2>2. n \in 1..Len(Line')
    BY <1>3
  <2>3. /\ ~(n <= Len(toClient)) /\ ~(n <= Len(toClient) + Len(TheHand))
        /\ n - Len(toClient) - Len(TheHand) = Len(channel) + 1
    BY <2>1
  <2>4. Line'[n] = channel'[Len(channel) + 1]
    BY <1>4, <2>2, <2>3
  <2>5. channel'[Len(channel) + 1] = m
    BY <1>1, <2>1
  <2> QED BY <2>4, <2>5
<1>6. ASSUME NEW i \in 1..Len(Line) PROVE Line'[i] = Line[i]
  <2>1. /\ i \in Nat /\ i \in 1..Len(Line')
        /\ i - Len(toClient) - Len(TheHand) <= Len(channel)
    BY <1>3, PartsNow DEF LineParts
  <2>2. CASE i <= Len(toClient) + Len(TheHand)
    BY <1>4, <2>1, <2>2, PartsNow DEF LineParts
  <2>3. CASE ~(i <= Len(toClient) + Len(TheHand))
    <3>1. channel'[i - Len(toClient) - Len(TheHand)] = channel[i - Len(toClient) - Len(TheHand)]
      BY <1>1, <2>1, <2>3, PartsNow DEF LineParts
    <3> QED BY <1>4, <2>1, <2>3, <3>1, PartsNow DEF LineParts
  <2> QED BY <2>2, <2>3
<1> QED BY <1>3, <1>5, <1>6 DEF Same

LEMMA MovedOn ==
    ASSUME TypeOK, TypeOK', client # "closed", Receive \/ Write
    PROVE  Len(Line') = Len(Line) /\ Same(Len(Line))
<1>1. UNCHANGED got
  BY DEF Receive, Write
<1>2. CASE Receive
  <2>1. /\ Len(TheHand) = 0 /\ Len(TheHand') = 1 /\ TheHand'[1] = channel[1]
        /\ toClient' = toClient
    <3>1. channel[1] \in Messages /\ hand' = channel[1] /\ hand = NoMessage
      BY <1>2 DEF Receive, TypeOK
    <3>2. hand' # NoMessage
      BY <3>1, ConnectionAssumption DEF Messages
    <3>3. TheHand = << >> /\ TheHand' = <<hand'>>
      BY <3>1, <3>2 DEF TheHand
    <3> QED BY <1>2, <3>1, <3>3 DEF Receive
  <2>2. /\ Len(channel') = Len(channel) - 1
        /\ \A i \in 1..Len(channel') : channel'[i] = channel[i + 1]
    BY <1>2 DEF Receive, TypeOK
  <2>3. Len(Line') = Len(Line) /\ Len(Line) \in Nat
    BY <2>1, <2>2, PartsNow, PartsNext DEF LineParts
  <2>4. ASSUME NEW i \in 1..Len(Line) PROVE Line'[i] = Line[i]
    <3>1. i \in 1..Len(Line')
      BY <2>3
    <3>2. CASE i <= Len(toClient)
      BY <2>1, <3>1, <3>2, PartsNow, PartsNext DEF LineParts
    <3>3. CASE i = Len(toClient) + 1
      <4>1. Line'[i] = channel[1]
        BY <2>1, <3>1, <3>3, PartsNow, PartsNext DEF LineParts
      <4>2. Line[i] = channel[1]
        BY <2>1, <3>3, PartsNow DEF LineParts
      <4> QED BY <4>1, <4>2
    <3>4. CASE i > Len(toClient) + 1
      <4> DEFINE k == i - Len(toClient) - 1
      <4>1. Line'[i] = channel'[k]
        BY <2>1, <3>1, <3>4, PartsNow, PartsNext DEF LineParts
      <4>2. Line[i] = channel[k + 1]
        BY <2>1, <3>4, PartsNow DEF LineParts
      <4>3. k \in 1..Len(channel')
        BY <2>1, <2>2, <3>4, PartsNow DEF LineParts
      <4> QED BY <2>2, <4>1, <4>2, <4>3
    <3> QED BY <3>2, <3>3, <3>4, PartsNow DEF LineParts
  <2> QED BY <1>1, <2>3, <2>4 DEF Same
<1>3. CASE Write
  <2>1. /\ hand # NoMessage /\ hand' = NoMessage /\ channel' = channel
        /\ toClient' = Append(toClient, hand)
    BY <1>3 DEF Write
  <2>2. Len(TheHand) = 1 /\ TheHand[1] = hand /\ Len(TheHand') = 0
    BY <2>1 DEF TheHand
  <2>3. /\ Len(toClient') = Len(toClient) + 1
        /\ \A i \in 1..Len(toClient') :
              toClient'[i] = IF i <= Len(toClient) THEN toClient[i] ELSE hand
    BY <2>1 DEF TypeOK
  <2>4. Len(Line') = Len(Line) /\ Len(Line) \in Nat
    BY <2>1, <2>2, <2>3, PartsNow, PartsNext DEF LineParts
  <2>5. ASSUME NEW i \in 1..Len(Line) PROVE Line'[i] = Line[i]
    <3>1. i \in 1..Len(Line')
      BY <2>4
    <3>2. CASE i <= Len(toClient) + 1
      <4>1. Line'[i] = toClient'[i]
        BY <2>3, <3>1, <3>2, PartsNow, PartsNext DEF LineParts
      <4>2. Line[i] = IF i <= Len(toClient) THEN toClient[i] ELSE hand
        BY <2>2, <3>2, PartsNow DEF LineParts
      <4> QED BY <2>3, <3>2, <4>1, <4>2, PartsNow DEF LineParts
    <3>3. CASE i > Len(toClient) + 1
      <4> DEFINE k == i - Len(toClient) - 1
      <4>1. Line'[i] = channel[k]
        BY <2>1, <2>2, <2>3, <3>1, <3>3, PartsNow, PartsNext DEF LineParts
      <4>2. Line[i] = channel[k]
        BY <2>2, <3>3, PartsNow DEF LineParts
      <4> QED BY <4>1, <4>2
    <3> QED BY <3>2, <3>3, PartsNow DEF LineParts
  <2> QED BY <1>1, <2>4, <2>5 DEF Same
<1> QED BY <1>2, <1>3

LEMMA CutOff ==
    ASSUME TypeOK, TypeOK', Cancel
    PROVE  Len(Line') <= Len(Line) /\ Same(Len(Line'))
<1>1. /\ TheHand' = << >> /\ channel' = << >> /\ toClient' = toClient
      /\ UNCHANGED got
  BY DEF Cancel, DropReceiver, TheHand
<1>2. Len(Line') = Len(toClient) /\ Len(Line') \in Nat
  BY <1>1, PartsNow, PartsNext DEF LineParts
<1>3. \A i \in 1..Len(Line') : Line'[i] = Line[i]
  BY <1>1, <1>2, PartsNow, PartsNext DEF LineParts
<1> QED BY <1>1, <1>2, <1>3, PartsNow, PartsNext DEF LineParts, Same

LEMMA Arrived ==
    ASSUME TypeOK, TypeOK', Read
    PROVE  /\ Len(Line) \in Nat \ {0} /\ Len(Line') = Len(Line) - 1
           /\ Line[1] = Head(toClient)
           /\ \A i \in 1..Len(Line') : Line'[i] = Line[i + 1]
<1>1. /\ toClient # << >> /\ toClient' = Tail(toClient)
      /\ TheHand' = TheHand /\ channel' = channel
  BY DEF Read, TheHand
<1>2. /\ Len(toClient) >= 1 /\ Head(toClient) = toClient[1]
      /\ Len(toClient') = Len(toClient) - 1
      /\ \A i \in 1..Len(toClient') : toClient'[i] = toClient[i + 1]
  BY <1>1 DEF TypeOK
<1>3. Len(Line) \in Nat \ {0} /\ Len(Line') = Len(Line) - 1
  BY <1>1, <1>2, PartsNow, PartsNext DEF LineParts
<1>4. Line[1] = Head(toClient)
  BY <1>2, <1>3, PartsNow, PartsNext DEF LineParts
<1>5. \A i \in 1..Len(Line') : Line'[i] = Line[i + 1]
  BY <1>1, <1>2, <1>3, PartsNow, PartsNext DEF LineParts
<1> QED BY <1>3, <1>4, <1>5

\* What arrives next was not received before, and comes in order.
LEMMA NextInTurn ==
    ASSUME TypeOK, Len(Line) \in Nat \ {0}, InTurn(1),
           NEW r \in Requests, NEW x \in (1..MaxNotes) \union {Response},
           Line[1] = [of |-> r, what |-> x], GotInTurn(r)
    PROVE  /\ x \notin Received(r) /\ Response \notin Received(r)
           /\ r \notin Parallel => x \in {Len(got[r]) + 1, Response}
           /\ x = Response => 1..begun[r] \subseteq Received(r)
<1>0. Response \notin Nat /\ MaxNotes \in Nat
  BY ConnectionAssumption
<1>1. \A y : Came(r, y, 1) <=> y \in Received(r)
  BY DEF Came
<1>2. x \notin Received(r) /\ Response \notin Received(r)
  BY <1>1 DEF InTurn
<1>3. x = Response => 1..begun[r] \subseteq Received(r)
  BY <1>1 DEF InTurn
<1>4. ASSUME r \notin Parallel, x # Response PROVE x = Len(got[r]) + 1
  <2>1. got[r] \in Seq((1..MaxNotes) \union {Response}) /\ Len(got[r]) \in Nat
        /\ DOMAIN got[r] = 1..Len(got[r])
    BY DEF TypeOK
  <2>2. \A i \in 1..Len(got[r]) : got[r][i] = i
    BY <1>2, <1>4, <2>1 DEF GotInTurn, Received
  <2>3. ~(x <= Len(got[r]))
    <3> SUFFICES ASSUME x <= Len(got[r]) PROVE FALSE
      OBVIOUS
    <3>1. x \in 1..Len(got[r]) /\ got[r][x] = x
      BY <1>0, <1>4, <2>1, <2>2
    <3> QED BY <1>2, <2>1, <3>1 DEF Received
  <2>4. ASSUME x > 1 PROVE x - 1 \in 1..Len(got[r])
    <3>1. x - 1 \in Received(r)
      BY <1>1, <1>4, <2>4 DEF InTurn
    <3> QED BY <2>1, <2>2, <3>1 DEF Received
  <2> QED BY <1>0, <1>4, <2>1, <2>3, <2>4
<1> QED BY <1>2, <1>3, <1>4

-----------------------------------------------------------------------------
\* What a task has handed over, or would have but for the end of the writer.
Handed(r) == (1..begun[r]) \ pending[r]

LEMMA Unmoved ==
    ASSUME TypeOK, UNCHANGED <<channel, hand, toClient, got>>
    PROVE  Line' = Line /\ Len(Line) \in Nat /\ Same(Len(Line))
<1>1. Line' = Line
  BY DEF Line, TheHand
<1>2. Len(Line) \in Nat
  BY LineType
<1> QED BY <1>1, <1>2 DEF Same

\* Nothing new in the line, and no task takes anything back.
LEMMA QuietKeeps ==
    ASSUME TypeOK, TypeOK', LineOrder, client # "closed",
           Same(Len(Line')), Len(Line') <= Len(Line),
           writer' # "ended" => writer # "ended" /\ Len(Line') = Len(Line),
           \A r \in Requests :
              /\ pc[r] = "done" => pc'[r] = "done" /\ begun'[r] = begun[r]
              /\ Handed(r) \subseteq Handed(r)'
              /\ writer' # "ended" => Handed(r)' = Handed(r)
    PROVE  LineOrder'
<1> PICK k \in Nat : k = Len(Line')
  BY PartsNext DEF LineParts
<1>0. /\ Len(Line) \in Nat /\ k <= Len(Line) /\ Same(k)
      /\ \A r \in Requests : SentIsOff(r) /\ GotInTurn(r)
      /\ \A i \in 1..Len(Line) : InTurn(i)
  BY LineType, PartsNext DEF LineOrder, LineParts
<1>1. ASSUME NEW i \in 1..k PROVE InTurn(i)'
  BY <1>0, SameTurn
<1>2. ASSUME NEW r \in Requests, NEW x PROVE Off(r, x)' <=> Came(r, x, k + 1)
  <2>1. Off(r, x)' <=> Came(r, x, k + 1)'
    BY DEF Off, Came
  <2>2. k + 1 \in 1..(k + 1)
    OBVIOUS
  <2> QED BY <1>0, <2>1, <2>2, SameCame
<1>3. ASSUME NEW r \in Requests, NEW x
      PROVE  /\ Off(r, x)' => Off(r, x)
             /\ writer' # "ended" => (Off(r, x)' <=> Off(r, x))
  BY <1>0, <1>2 DEF Off, Came
<1>4. ASSUME NEW r \in Requests PROVE SentIsOff(r)'
  <2>1. SentIsOff(r)
    BY <1>0
  <2> QED BY <1>3, <2>1 DEF SentIsOff, Handed
<1>5. ASSUME NEW r \in Requests PROVE GotInTurn(r)'
  BY <1>0 DEF GotInTurn, Same
<1> QED BY <1>1, <1>4, <1>5 DEF LineOrder

\* A message is put behind all that its task has handed over.
LEMMA AppendKeeps ==
    ASSUME TypeOK, TypeOK', LineOrder, client # "closed",
           NEW r \in Requests, NEW x \in (1..MaxNotes) \union {Response},
           channel' = Append(channel, [of |-> r, what |-> x]),
           UNCHANGED <<hand, toClient, got, begun, writer>>, writer # "ended",
           pc[r] # "done",
           \A q \in Requests : q # r => pc'[q] = pc[q] /\ pending'[q] = pending[q],
           \/ x = Response /\ pc'[r] = "done" /\ pending[r] = {} /\ pending'[r] = {}
           \/ /\ x \in pending[r] /\ pending'[r] = pending[r] \ {x}
              /\ pending[r] \subseteq 1..begun[r]
              /\ r \notin Parallel => pending[r] \subseteq {begun[r]}
    PROVE  LineOrder'
<1> DEFINE m == [of |-> r, what |-> x]
<1>0. /\ m \in Messages /\ Len(Line) \in Nat /\ Response \notin Nat
      /\ MaxNotes \in Nat /\ begun[r] \in 0..MaxNotes
      /\ \A q \in Requests : SentIsOff(q) /\ GotInTurn(q)
      /\ \A i \in 1..Len(Line) : InTurn(i)
  BY LineType, ConnectionAssumption DEF LineOrder, Messages, TypeOK
<1> PICK k \in Nat : k = Len(Line)
  BY <1>0
<1>1. Len(Line') = k + 1 /\ Line'[k + 1] = m /\ Same(k)
  BY <1>0, Appended
<1>2. ASSUME NEW q, NEW y, NEW i \in 1..(k + 1) PROVE Came(q, y, i)' <=> Came(q, y, i)
  BY <1>0, <1>1, SameCame
<1>3. ASSUME NEW q, NEW y PROVE Off(q, y)' <=> Off(q, y) \/ (q = r /\ y = x)
  <2>1. Off(q, y)' <=> Came(q, y, k + 2)'
    BY <1>1 DEF Off, Came
  <2>2. Came(q, y, k + 2)' <=> Came(q, y, k + 1)' \/ Line'[k + 1] = [of |-> q, what |-> y]
    <3>1. 1..(k + 2 - 1) = (1..(k + 1 - 1)) \union {k + 1}
      OBVIOUS
    <3> QED BY <3>1 DEF Came
  <2>3. Came(q, y, k + 1)' <=> Off(q, y)
    BY <1>2 DEF Off
  <2> QED BY <1>1, <2>1, <2>2, <2>3
<1>4. ASSUME NEW q \in Requests PROVE SentIsOff(q)'
  <2>1. SentIsOff(q)
    BY <1>0
  <2>2. CASE q # r
    BY <1>3, <2>1, <2>2 DEF SentIsOff
  <2>3. CASE q = r
    BY <1>0, <1>3, <2>1, <2>3 DEF SentIsOff
  <2> QED BY <2>2, <2>3
<1>5. ASSUME NEW i \in 1..Len(Line') PROVE InTurn(i)'
  <2>1. CASE i \in 1..Len(Line)
    BY <1>0, <1>1, <2>1, SameTurn
  <2>2. CASE i = Len(Line) + 1
    <3>1. SentIsOff(r)
      BY <1>0
    <3>2. ~Off(r, x) /\ ~Off(r, Response)
      BY <1>0, <3>1 DEF SentIsOff
    <3>3. x = Response => \A n \in 1..begun[r] : Off(r, n)
      BY <1>0, <3>1 DEF SentIsOff
    <3>4. x # Response /\ x > 1 /\ r \notin Parallel => Off(r, x - 1)
      BY <1>0, <3>1 DEF SentIsOff
    <3>5. \A y : Off(r, y) <=> Came(r, y, i)'
      BY <1>0, <1>2, <2>2 DEF Off
    <3> QED BY <1>1, <2>2, <3>2, <3>3, <3>4, <3>5 DEF InTurn
  <2> QED BY <1>0, <1>1, <2>1, <2>2
<1>6. ASSUME NEW q \in Requests PROVE GotInTurn(q)'
  BY <1>0 DEF GotInTurn
<1> QED BY <1>4, <1>5, <1>6 DEF LineOrder

\* The first message of the line is received.
LEMMA ReadKeeps ==
    ASSUME TypeOK, TypeOK', LineOrder, Read
    PROVE  LineOrder'
<1> PICK r \in Requests, x \in (1..MaxNotes) \union {Response} :
        Line[1] = [of |-> r, what |-> x]
  <2>1. 1 \in 1..Len(Line)
    BY Arrived
  <2> QED BY <2>1, LineType
<1>0. /\ Len(Line) \in Nat \ {0} /\ Len(Line') = Len(Line) - 1
      /\ \A i \in 1..Len(Line') : Line'[i] = Line[i + 1]
      /\ got' = [got EXCEPT ![r] = Append(@, x)]
      /\ UNCHANGED <<pc, begun, pending, writer, client>> /\ client # "closed"
  <2>1. Head(toClient).of = r /\ Head(toClient).what = x
    BY Arrived
  <2> QED BY <2>1, Arrived DEF Read, task
<1>1. /\ \A q \in Requests : SentIsOff(q) /\ GotInTurn(q)
      /\ \A i \in 1..Len(Line) : InTurn(i)
      /\ Response \notin Nat
  BY <1>0, ConnectionAssumption DEF LineOrder
<1>2. /\ got[r] \in Seq((1..MaxNotes) \union {Response})
      /\ got'[r] = Append(got[r], x) /\ \A q \in Requests : q # r => got'[q] = got[q]
  BY <1>0 DEF TypeOK
<1>3. ASSUME NEW q \in Requests, NEW y
      PROVE  y \in Received(q)' <=> y \in Received(q) \/ (q = r /\ y = x)
  BY <1>2 DEF Received
<1>4. ASSUME NEW q \in Requests, NEW y, NEW i \in 1..Len(Line)
      PROVE  Came(q, y, i)' <=> Came(q, y, i + 1)
  <2>1. ASSUME Came(q, y, i)' PROVE Came(q, y, i + 1)
    <3>1. CASE y \in Received(q)'
      BY <1>0, <1>3, <3>1 DEF Came
    <3>2. CASE \E j \in 1..(i - 1) : Line'[j] = [of |-> q, what |-> y]
      <4> PICK j \in 1..(i - 1) : Line'[j] = [of |-> q, what |-> y]
        BY <3>2
      <4>1. j + 1 \in 1..i /\ Line[j + 1] = [of |-> q, what |-> y]
        BY <1>0
      <4> QED BY <4>1 DEF Came
    <3> QED BY <2>1, <3>1, <3>2 DEF Came
  <2>2. ASSUME Came(q, y, i + 1) PROVE Came(q, y, i)'
    <3>1. CASE y \in Received(q)
      BY <1>3, <3>1 DEF Came
    <3>2. CASE \E j \in 1..i : Line[j] = [of |-> q, what |-> y]
      <4> PICK j \in 1..i : Line[j] = [of |-> q, what |-> y]
        BY <3>2
      <4>1. CASE j = 1
        BY <1>3, <4>1 DEF Came
      <4>2. CASE j # 1
        <5>1. j - 1 \in 1..(i - 1) /\ Line'[j - 1] = [of |-> q, what |-> y]
          BY <1>0, <4>2
        <5> QED BY <5>1 DEF Came
      <4> QED BY <4>1, <4>2
    <3> QED BY <2>2, <3>1, <3>2 DEF Came
  <2> QED BY <2>1, <2>2
<1>5. ASSUME NEW q \in Requests, NEW y PROVE Off(q, y)' <=> Off(q, y)
  BY <1>0, <1>4 DEF Off
<1>6. ASSUME NEW q \in Requests PROVE SentIsOff(q)'
  <2>1. SentIsOff(q)
    BY <1>1
  <2> QED BY <1>0, <1>5, <2>1 DEF SentIsOff
<1>7. ASSUME NEW i \in 1..Len(Line') PROVE InTurn(i)'
  <2>1. /\ i \in 1..Len(Line) /\ i + 1 \in 1..Len(Line) /\ InTurn(i + 1)
        /\ Line'[i] = Line[i + 1]
    BY <1>0, <1>1
  <2> PICK q \in Requests, y \in (1..MaxNotes) \union {Response} : Line[i + 1] = [of |-> q, what |-> y]
    BY <2>1, LineType
  <2>2. \A z : Came(q, z, i)' <=> Came(q, z, i + 1)
    BY <1>4, <2>1
  <2> QED BY <1>0, <2>1, <2>2 DEF InTurn
<1>8. ASSUME NEW q \in Requests PROVE GotInTurn(q)'
  <2>1. GotInTurn(q)
    BY <1>1
  <2>2. CASE q # r
    BY <1>2, <2>1, <2>2 DEF GotInTurn
  <2>3. CASE q = r
    <3>1. /\ x \notin Received(r)
          /\ r \notin Parallel => x \in {Len(got[r]) + 1, Response}
      BY NextInTurn, <1>0, <1>1
    <3>2. /\ Len(got[r]) \in Nat /\ DOMAIN got[r] = 1..Len(got[r])
          /\ DOMAIN got'[r] = 1..(Len(got[r]) + 1)
          /\ got'[r][Len(got[r]) + 1] = x
          /\ \A i \in 1..Len(got[r]) : got'[r][i] = got[r][i] /\ got[r][i] # x
      BY <1>2, <3>1 DEF Received
    <3>3. ASSUME NEW i \in DOMAIN got'[r], NEW j \in DOMAIN got'[r], i # j
          PROVE  got'[r][i] # got'[r][j]
      BY <2>1, <2>3, <3>2, <3>3 DEF GotInTurn
    <3>4. ASSUME NEW i \in DOMAIN got'[r], r \notin Parallel
          PROVE  got'[r][i] \in {i, Response}
      BY <2>1, <2>3, <3>1, <3>2, <3>4 DEF GotInTurn
    <3> QED BY <2>3, <3>3, <3>4 DEF GotInTurn
  <2> QED BY <2>2, <2>3
<1> QED BY <1>6, <1>7, <1>8 DEF LineOrder

-----------------------------------------------------------------------------
\* Tasks: frames wait for them, and they join the threads that send notes.
LEMMA TasksKeep == TypeOK /\ TaskInv /\ [Next]_vars => TaskInv'
<1> SUFFICES ASSUME TypeOK, TaskInv, [Next]_vars PROVE TaskInv'
  OBVIOUS
<1> USE DEF TaskInv, task, notes, Goto
<1>0. MaxNotes \in Nat
  BY ConnectionAssumption
<1>1. FramesWait'
  <2>1. ASSUME NEW r \in Requests, Send(r) PROVE FramesWait'
    <3>1. /\ \A i \in DOMAIN toServer : toServer[i] \in Requests /\ toServer[i] # r
          /\ DOMAIN toServer = 1..Len(toServer) /\ Len(toServer) \in Nat
          /\ DOMAIN toServer' = 1..(Len(toServer) + 1)
          /\ \A i \in 1..(Len(toServer) + 1) :
                toServer'[i] = IF i <= Len(toServer) THEN toServer[i] ELSE r
      BY <2>1 DEF Send, FramesWait, TypeOK
    <3>2. pc'[r] = "sent" /\ \A q \in Requests : q # r => pc'[q] = pc[q]
      BY <2>1 DEF Send, TypeOK
    <3> QED BY <3>1, <3>2 DEF FramesWait
  <2>2. CASE TakeFrame
    <3>1. CASE toServer' = << >>
      BY <3>1 DEF FramesWait
    <3>2. CASE toServer' = Tail(toServer) /\ toServer # << >>
      <4>1. /\ DOMAIN toServer = 1..Len(toServer) /\ Len(toServer) \in Nat \ {0}
            /\ DOMAIN toServer' = 1..(Len(toServer) - 1)
            /\ \A i \in 1..(Len(toServer) - 1) : toServer'[i] = toServer[i + 1]
            /\ Head(toServer) = toServer[1]
            /\ \A i \in 1..Len(toServer) : toServer[i] \in Requests
        BY <3>2 DEF TypeOK
      <4>2. \A q \in Requests : q # toServer[1] => pc'[q] = pc[q]
        BY <2>2, <4>1 DEF TakeFrame, TypeOK
      <4>3. ASSUME NEW i \in 1..(Len(toServer) - 1)
            PROVE  /\ toServer'[i] \in Requests /\ toServer'[i] # toServer[1]
                   /\ pc[toServer'[i]] = "sent"
        <5>1. i + 1 \in 1..Len(toServer) /\ 1 \in 1..Len(toServer) /\ i + 1 # 1
          BY <4>1
        <5> QED BY <4>1, <5>1 DEF FramesWait
      <4>4. ASSUME NEW i \in 1..(Len(toServer) - 1), NEW j \in 1..(Len(toServer) - 1), i # j
            PROVE  toServer'[i] # toServer'[j]
        <5>1. i + 1 \in 1..Len(toServer) /\ j + 1 \in 1..Len(toServer) /\ i + 1 # j + 1
          BY <4>1, <4>4
        <5> QED BY <4>1, <5>1 DEF FramesWait
      <4> QED BY <4>1, <4>2, <4>3, <4>4 DEF FramesWait
    <3> QED BY <2>2, <3>1, <3>2 DEF TakeFrame, StopReading
  <2>3. CASE EndOfStream
    BY <2>3 DEF EndOfStream, StopReading, FramesWait
  <2>4. ASSUME NEW r \in Requests, BeginNotify(r) \/ Notify(r) \/ Return(r) \/ Respond(r)
        PROVE  FramesWait'
    <3>1. /\ toServer' = toServer
          /\ \A q \in Requests : pc[q] = "sent" => pc'[q] = "sent"
      BY <2>4 DEF BeginNotify, Notify, Return, Respond, TypeOK
    <3> QED BY <3>1 DEF FramesWait, TypeOK
  <2>5. CASE UNCHANGED <<toServer, pc>>
    BY <2>5 DEF FramesWait
  <2> QED
    BY <2>1, <2>2, <2>3, <2>4, <2>5
       DEF Next, Handle, vars, ShutDown, Close, Read, Receive, Write, Cancel
<1>2. ASSUME NEW r \in Requests PROVE NotesOfTask(r)'
  <2>0. NotesOfTask(r) /\ begun[r] \in 0..MaxNotes
    BY DEF TypeOK
  <2>1. CASE BeginNotify(r)
    <3>1. /\ begun'[r] = begun[r] + 1 /\ pending'[r] = pending[r] \union {begun[r] + 1}
          /\ pc[r] = "working" /\ pc'[r] = "working"
          /\ r \in Parallel \/ pending[r] = {}
      BY <2>1 DEF BeginNotify, TypeOK
    <3> QED BY <1>0, <2>0, <3>1 DEF NotesOfTask
  <2>2. CASE Notify(r)
    <3>1. begun'[r] = begun[r] /\ pending'[r] \subseteq pending[r] /\ pc'[r] = pc[r]
      BY <2>2 DEF Notify, TypeOK
    <3> QED BY <2>0, <3>1 DEF NotesOfTask
  <2>3. CASE Return(r) \/ Respond(r)
    <3>1. /\ begun'[r] = begun[r] /\ pending'[r] = pending[r] /\ pending[r] = {}
          /\ pc'[r] \in {"respond", "done"}
      BY <2>0, <2>3 DEF Return, Respond, Joined, NotesOfTask, TypeOK
    <3> QED BY <2>0, <3>1 DEF NotesOfTask
  <2>4. CASE TakeFrame
    <3>1. /\ begun' = begun /\ pending' = pending
          /\ pc'[r] = pc[r] \/ (pc[r] = "sent" /\ pc'[r] \in {"done", "working"})
      <4>1. toServer # << >> /\ toServer \in Seq(Requests)
        BY <2>4 DEF TakeFrame, TypeOK
      <4>2. 1 \in DOMAIN toServer /\ Head(toServer) = toServer[1] /\ toServer[1] \in Requests
        BY <4>1
      <4>3. pc[Head(toServer)] = "sent"
        BY <4>2 DEF FramesWait
      <4>4. \/ pc' = pc
            \/ \E step \in {"done", "working"} : pc' = [pc EXCEPT ![Head(toServer)] = step]
        BY <2>4 DEF TakeFrame
      <4>5. begun' = begun /\ pending' = pending
        BY <2>4 DEF TakeFrame
      <4> QED BY <4>2, <4>3, <4>4, <4>5 DEF TypeOK
    <3>2. pc[r] = "sent" => begun[r] = 0 /\ pending[r] = {}
      BY <2>0 DEF NotesOfTask
    <3> QED BY <2>0, <3>1, <3>2 DEF NotesOfTask
  <2>5. CASE Send(r)
    BY <2>0, <2>5 DEF Send, NotesOfTask, TypeOK
  <2>6. CASE begun'[r] = begun[r] /\ pending'[r] = pending[r] /\ pc'[r] = pc[r]
    BY <2>0, <2>6 DEF NotesOfTask
  <2>7. ASSUME NEW q \in Requests, q # r, Send(q) \/ Handle(q)
        PROVE  begun'[r] = begun[r] /\ pending'[r] = pending[r] /\ pc'[r] = pc[r]
    BY <2>7 DEF Send, Handle, BeginNotify, Notify, Return, Respond, TypeOK
  <2> QED
    BY <2>1, <2>2, <2>3, <2>4, <2>5, <2>6, <2>7
       DEF Next, Handle, vars, ShutDown, Close, EndOfStream, Read, Receive, Write, Cancel
<1> QED BY <1>1, <1>2

-----------------------------------------------------------------------------
\* The line keeps its order.
LEMMA OrderKeeps ==
    TypeOK /\ TypeOK' /\ TaskInv /\ TaskInv' /\ LineOrder /\ [Next]_vars => LineOrder'
<1> SUFFICES ASSUME TypeOK, TypeOK', TaskInv, TaskInv', LineOrder, [Next]_vars,
                    client' # "closed"
             PROVE  LineOrder'
  BY DEF LineOrder
<1> USE DEF task, notes, Goto
<1>0. client # "closed"
  BY DEF Next, Handle, Send, BeginNotify, Notify, Return, Respond, ShutDown, Close,
         Read, TakeFrame, EndOfStream, Receive, Write, Cancel, vars
<1> DEFINE Quiet ==
      \A r \in Requests :
          /\ pc[r] = "done" => pc'[r] = "done" /\ begun'[r] = begun[r]
          /\ Handed(r) \subseteq Handed(r)'
          /\ writer' # "ended" => Handed(r)' = Handed(r)
<1>1. ASSUME UNCHANGED <<channel, hand, toClient, got>>, Quiet,
             writer' # "ended" => writer # "ended"
      PROVE  LineOrder'
  <2>1. Line' = Line /\ Len(Line) \in Nat /\ Same(Len(Line))
    BY <1>1, Unmoved
  <2>2. Same(Len(Line')) /\ Len(Line') = Len(Line) /\ Len(Line') <= Len(Line)
    BY <2>1 DEF Same
  <2> QED BY <1>0, <1>1, <2>2, QuietKeeps
<1>2. ASSUME NEW r \in Requests, BeginNotify(r) PROVE LineOrder'
  <2>1. /\ pc' = pc /\ pc[r] = "working"
        /\ begun'[r] = begun[r] + 1 /\ pending'[r] = pending[r] \union {begun[r] + 1}
        /\ \A q \in Requests : q # r => begun'[q] = begun[q] /\ pending'[q] = pending[q]
        /\ UNCHANGED <<channel, hand, toClient, got, writer>>
    BY <1>2 DEF BeginNotify, TypeOK
  <2>2. begun[r] \in Nat /\ pending[r] \subseteq 1..begun[r]
    BY ConnectionAssumption DEF TypeOK, TaskInv, NotesOfTask
  <2>3. Handed(r)' = Handed(r)
    BY <2>1, <2>2 DEF Handed
  <2>4. Quiet
    BY <2>1, <2>3 DEF Handed
  <2> QED BY <1>1, <2>1, <2>4
<1>3. ASSUME NEW r \in Requests, Notify(r) PROVE LineOrder'
  <2>1. PICK n \in pending[r] :
          /\ Enqueue([of |-> r, what |-> n])
          /\ pending' = [pending EXCEPT ![r] = @ \ {n}]
          /\ UNCHANGED <<client, toServer, reader, pc, begun, writer, hand, toClient, got>>
    BY <1>3 DEF Notify
  <2>2. /\ pending'[r] = pending[r] \ {n}
        /\ \A q \in Requests : q # r => pending'[q] = pending[q]
        /\ n \in 1..MaxNotes /\ NotesOfTask(r)
    BY <2>1 DEF TypeOK, TaskInv
  <2>3. CASE writer = "ended"
    <3>1. Quiet
      BY <2>1, <2>2, <2>3 DEF Handed
    <3>2. UNCHANGED channel
      BY <2>1, <2>3 DEF Enqueue, ReceiverAlive
    <3> QED BY <1>1, <2>1, <3>1, <3>2
  <2>4. CASE writer # "ended"
    <3>1. channel' = Append(channel, [of |-> r, what |-> n])
      BY <2>1, <2>4 DEF Enqueue, ReceiverAlive
    <3>2. /\ pc[r] # "done" /\ pending[r] \subseteq 1..begun[r]
          /\ r \notin Parallel => pending[r] \subseteq {begun[r]}
      BY <2>2 DEF NotesOfTask
    <3> QED BY <1>0, <2>1, <2>2, <2>4, <3>1, <3>2, AppendKeeps
  <2> QED BY <2>3, <2>4
<1>4. ASSUME NEW r \in Requests, Respond(r) PROVE LineOrder'
  <2>1. /\ pc[r] = "respond" /\ pc'[r] = "done" /\ pending[r] = {} /\ pending' = pending
        /\ \A q \in Requests : q # r => pc'[q] = pc[q]
        /\ UNCHANGED <<begun, writer, hand, toClient, got>>
        /\ Enqueue([of |-> r, what |-> Response])
    BY <1>4 DEF Respond, TypeOK, TaskInv, NotesOfTask
  <2>2. CASE writer = "ended"
    <3>1. Quiet
      BY <2>1 DEF Handed
    <3> QED BY <1>1, <2>1, <2>2, <3>1 DEF Enqueue, ReceiverAlive
  <2>3. CASE writer # "ended"
    <3>1. channel' = Append(channel, [of |-> r, what |-> Response])
      BY <2>1, <2>3 DEF Enqueue, ReceiverAlive
    <3> QED BY <1>0, <2>1, <2>3, <3>1, AppendKeeps
  <2> QED BY <2>2, <2>3
<1>5. CASE Receive \/ Write
  <2>1. /\ UNCHANGED <<pc, begun, pending>> /\ writer' = writer
    BY <1>0, <1>5 DEF Receive, Write
  <2>2. Len(Line') = Len(Line) /\ Same(Len(Line)) /\ Len(Line) \in Nat
    BY <1>0, <1>5, MovedOn, LineType DEF Receive, Write
  <2>3. Same(Len(Line')) /\ Len(Line') <= Len(Line)
    BY <2>2 DEF Same
  <2>4. Quiet
    BY <2>1 DEF Handed
  <2> QED BY <1>0, <2>1, <2>2, <2>3, <2>4, QuietKeeps
<1>6. CASE Cancel
  <2>1. UNCHANGED <<pc, begun, pending>> /\ writer' = "ended"
    BY <1>6 DEF Cancel, DropReceiver
  <2>2. Quiet
    BY <2>1 DEF Handed
  <2> QED BY <1>0, <1>6, <2>1, <2>2, CutOff, QuietKeeps
<1>7. CASE Read
  BY <1>7, ReadKeeps
<1>8. CASE \/ \E r \in Requests : Send(r) \/ Return(r)
           \/ ShutDown \/ TakeFrame \/ EndOfStream \/ UNCHANGED vars
  <2>1. /\ UNCHANGED <<channel, hand, toClient, got, begun, pending>>
        /\ writer' # "ended" => writer # "ended"
    BY <1>8 DEF Send, Return, ShutDown, TakeFrame, EndOfStream, StopReading, vars
  <2>2. \A r \in Requests : pc[r] = "done" => pc'[r] = "done"
    <3>1. CASE TakeFrame
      <4>1. toServer # << >> /\ toServer \in Seq(Requests)
        BY <3>1 DEF TakeFrame, TypeOK
      <4>2. 1 \in DOMAIN toServer /\ Head(toServer) = toServer[1]
        BY <4>1
      <4>3. pc[Head(toServer)] = "sent"
        BY <4>2 DEF TaskInv, FramesWait
      <4> QED BY <3>1, <4>3 DEF TakeFrame, TypeOK
    <3> QED BY <1>8, <3>1 DEF Send, Return, ShutDown, EndOfStream, vars, TypeOK
  <2>3. Quiet
    BY <2>1, <2>2 DEF Handed
  <2> QED BY <1>1, <2>1, <2>3
<1> QED
  BY <1>0, <1>2, <1>3, <1>4, <1>5, <1>6, <1>7, <1>8 DEF Next, Handle, Close

LEMMA ConnectionOrder == Spec => [](TypeOK /\ TaskInv /\ LineOrder)
<1>1. Init => TaskInv /\ LineOrder
  <2> SUFFICES ASSUME Init PROVE TaskInv /\ LineOrder
    OBVIOUS
  <2>1. TheHand = << >> /\ Line = << >> /\ Len(Line) = 0
    BY DEF Init, TheHand, Line
  <2>2. ASSUME NEW r \in Requests, NEW x PROVE ~Off(r, x)
    BY <2>1 DEF Init, Off, Came, Received
  <2> QED BY <2>1, <2>2
        DEF Init, TaskInv, FramesWait, NotesOfTask, LineOrder, SentIsOff, GotInTurn
<1>2. TypeOK /\ TypeOK' /\ TaskInv /\ LineOrder /\ [Next]_vars => (TaskInv /\ LineOrder)'
  BY TasksKeep, OrderKeeps
<1> QED BY <1>1, <1>2, TypesAndLoops, PTL DEF Spec

-----------------------------------------------------------------------------
(* Whatever requests overlap, whenever the channel is full and wherever the
   connection ends, a client receives every notification of a request once, in
   order if one thread sends them, before its one response, and nothing after
   it: for any number of requests, any sizes and any number of notifications. *)
THEOREM Refinement == Spec => ImplementsRpcExchange
<1> DEFINE asked == {r \in Requests : pc[r] # "none"}
<1>1. Init => Exchange!Init
  BY DEF Init, Exchange!Init
<1>2. TypeOK /\ TypeOK' /\ TaskInv /\ LineOrder /\ [Next]_vars
      => [Exchange!Next]_<<asked, got>>
  <2> SUFFICES ASSUME TypeOK, TypeOK', TaskInv, LineOrder, [Next]_vars
               PROVE  [Exchange!Next]_<<asked, got>>
    OBVIOUS
  <2> USE DEF task, notes, Goto
  <2>1. ASSUME NEW r \in Requests, Send(r) PROVE Exchange!Ask(r)
    <3>1. asked' = asked \union {r}
      BY <2>1 DEF Send, TypeOK
    <3> QED BY <2>1, <3>1 DEF Send, Exchange!Ask
  <2>2. ASSUME Read PROVE \E r \in Requests : Exchange!Deliver(r)
    <3>1. /\ Len(Line) \in Nat \ {0} /\ Line[1] = Head(toClient)
          /\ 1 \in 1..Len(Line)
      BY <2>2, Arrived
    <3> PICK r \in Requests, x \in (1..MaxNotes) \union {Response} :
            Line[1] = [of |-> r, what |-> x]
      BY <3>1, LineType
    <3>2. /\ got' = [got EXCEPT ![r] = Append(@, x)] /\ pc' = pc
          /\ client # "closed"
      <4>1. Head(toClient).of = r /\ Head(toClient).what = x
        BY <3>1
      <4> QED BY <2>2, <4>1 DEF Read
    <3>3. InTurn(1) /\ GotInTurn(r) /\ SentIsOff(r) /\ NotesOfTask(r)
      BY <3>1, <3>2 DEF LineOrder, TaskInv
    <3>4. Exchange!Received(r) = Received(r)
      BY DEF Exchange!Received, Received
    <3>5. /\ x \notin Received(r) /\ Response \notin Received(r)
          /\ r \notin Parallel => x \in {Len(got[r]) + 1, Response}
          /\ x = Response => 1..begun[r] \subseteq Received(r)
      BY <3>1, <3>3, NextInTurn
    <3>6. Response \notin Nat /\ MaxNotes \in Nat /\ begun[r] \in 0..MaxNotes
      BY ConnectionAssumption DEF TypeOK
    <3>7. Off(r, x)
      BY <3>1 DEF Off, Came
    <3>8. r \in asked
      BY <3>3, <3>6, <3>7 DEF SentIsOff, NotesOfTask
    <3>9. CASE x # Response
      <4>1. x \in Exchange!NextNotes(r)
        BY <3>4, <3>5, <3>9 DEF Exchange!NextNotes
      <4> QED BY <3>2, <3>4, <3>5, <3>8, <4>1 DEF Exchange!Deliver, Exchange!Answered
    <3>10. CASE x = Response
      <4>1. Received(r) \subseteq 1..begun[r]
        <5>1. ASSUME NEW n \in Received(r) PROVE n \in 1..begun[r]
          <6>1. n \in 1..MaxNotes
            BY <3>5, <5>1 DEF Received, TypeOK
          <6>2. Off(r, n)
            BY <5>1 DEF Off, Came
          <6> QED BY <3>3, <6>1, <6>2 DEF SentIsOff
        <5> QED BY <5>1
      <4>2. Received(r) = 1..begun[r]
        BY <3>5, <3>10, <4>1
      <4>3. Len(got[r]) = begun[r]
        <5>1. /\ got[r] \in Seq((1..MaxNotes) \union {Response})
              /\ Len(got[r]) \in Nat /\ DOMAIN got[r] = 1..Len(got[r])
          BY DEF TypeOK
        <5>2. got[r] \in Bijection(1..Len(got[r]), 1..begun[r])
          <6>1. got[r] \in [1..Len(got[r]) -> 1..begun[r]]
            BY <4>2, <5>1 DEF Received
          <6>2. got[r] \in Injection(1..Len(got[r]), 1..begun[r])
            BY <3>3, <5>1, <6>1 DEF GotInTurn, Injection, IsInjective
          <6>3. got[r] \in Surjection(1..Len(got[r]), 1..begun[r])
            BY <4>2, <5>1, <6>1 DEF Received, Surjection
          <6> QED BY <6>2, <6>3 DEF Bijection
        <5>3. Cardinality(1..begun[r]) = Len(got[r])
          BY <5>1, <5>2, FS_CountingElements DEF ExistsBijection
        <5>4. Cardinality(1..begun[r]) = begun[r]
          BY <3>6, FS_Interval
        <5> QED BY <5>3, <5>4
      <4>4. Exchange!Complete(r)
        BY <3>4, <4>2, <4>3 DEF Exchange!Complete
      <4> QED BY <3>2, <3>4, <3>5, <3>8, <3>10, <4>4 DEF Exchange!Deliver, Exchange!Answered
    <3> QED BY <3>9, <3>10
  <2>3. ASSUME NEW r \in Requests, Handle(r) PROVE UNCHANGED <<asked, got>>
    BY <2>3 DEF Handle, BeginNotify, Notify, Return, Respond, TypeOK
  <2>4. CASE TakeFrame
    <3>1. toServer # << >> /\ toServer \in Seq(Requests)
      BY <2>4 DEF TakeFrame, TypeOK
    <3>2. 1 \in DOMAIN toServer /\ Head(toServer) = toServer[1] /\ toServer[1] \in Requests
      BY <3>1
    <3>3. pc[Head(toServer)] = "sent"
      BY <3>2 DEF TaskInv, FramesWait
    <3>4. \A r \in Requests : pc'[r] # "none" <=> pc[r] # "none"
      BY <2>4, <3>2, <3>3 DEF TakeFrame, TypeOK
    <3> QED BY <2>4, <3>4 DEF TakeFrame
  <2>5. CASE ShutDown \/ Close \/ EndOfStream \/ Receive \/ Write \/ Cancel \/ UNCHANGED vars
    BY <2>5 DEF ShutDown, Close, EndOfStream, Receive, Write, Cancel, vars
  <2> QED
    BY <2>1, <2>2, <2>3, <2>4, <2>5 DEF Next, Exchange!Next
<1> QED
  BY <1>1, <1>2, ConnectionOrder, TypesAndLoops, PTL
     DEF Spec, ImplementsRpcExchange, Exchange!Spec
=============================================================================
