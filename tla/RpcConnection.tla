--------------------------- MODULE RpcConnection ---------------------------
(***************************************************************************)
(* One TCP connection of the server (server/mod.rs): the reader takes      *)
(* frames off the socket and spawns a task for each, the tasks send        *)
(* notifications (refresh progress, partial results) and one response into *)
(* a bounded channel, the writer moves messages from the channel to the    *)
(* socket. When the reader ends the writer is aborted.                     *)
(*                                                                         *)
(* A frame is abstracted to its request, a message to its request and a    *)
(* number, or Response. Malformed frames do not decode; Huge ones announce *)
(* more than MAX_FRAME_SIZE bytes.                                         *)
(***************************************************************************)
EXTENDS Naturals, Sequences

CONSTANTS Requests,     \* requests the client may send, each once
          Malformed, Huge,
          Parallel,     \* requests whose handler reports from several threads
          MaxNotes,     \* bound on the notifications of a request
          ChannelSize,  \* WRITE_CHANNEL_SIZE
          SocketSize,   \* messages the socket buffers towards the client
          Response, NoMessage

ASSUME ConnectionAssumption ==
    /\ Malformed \subseteq Requests /\ Huge \subseteq Requests
    /\ Parallel \subseteq Requests
    /\ MaxNotes \in Nat
    /\ ChannelSize \in Nat \ {0} /\ SocketSize \in Nat \ {0}
    /\ Response \notin Nat
    /\ NoMessage \notin [of : Requests, what : (1..MaxNotes) \union {Response}]

VARIABLES client,    \* open, half (it has shut down its sending side), closed
          toServer,  \* frames in the socket
          reader,    \* reading, ended
          pc, begun, \* per request: step, notifications begun
          pending,   \* per request: notifications its threads are sending
          channel,   \* the mpsc channel
          writer,    \* running, aborted (until its next await), ended
          hand,      \* the message the writer is writing
          toClient,  \* messages in the socket
          got        \* per request: messages the client has received

vars == <<client, toServer, reader, pc, begun, pending, channel, writer, hand, toClient, got>>
task == <<pc, begun, pending>>
notes == <<begun, pending>>

\* Requests that reach a handler.
Served == Requests \ (Malformed \union Huge)

Messages == [of : Requests, what : (1..MaxNotes) \union {Response}]

TypeOK ==
    /\ client \in {"open", "half", "closed"}
    /\ toServer \in Seq(Requests)
    /\ reader \in {"reading", "ended"}
    /\ pc \in [Requests -> {"none", "sent", "working", "respond", "done"}]
    /\ begun \in [Requests -> 0..MaxNotes]
    /\ pending \in [Requests -> SUBSET (1..MaxNotes)]
    /\ channel \in Seq(Messages) /\ Len(channel) <= ChannelSize
    /\ writer \in {"running", "aborted", "ended"}
    /\ hand \in Messages \union {NoMessage}
    /\ toClient \in Seq(Messages) /\ Len(toClient) <= SocketSize
    /\ got \in [Requests -> Seq((1..MaxNotes) \union {Response})]

Init ==
    /\ client = "open" /\ reader = "reading" /\ writer = "running"
    /\ toServer = << >> /\ channel = << >> /\ toClient = << >>
    /\ pc = [r \in Requests |-> "none"] /\ begun = [r \in Requests |-> 0]
    /\ pending = [r \in Requests |-> {}]
    /\ hand = NoMessage
    /\ got = [r \in Requests |-> << >>]

Goto(r, step) == pc' = [pc EXCEPT ![r] = step]

-----------------------------------------------------------------------------
\* The client

Send(r) ==
    /\ client = "open" /\ pc[r] = "none"
    /\ toServer' = Append(toServer, r)
    /\ Goto(r, "sent")
    /\ UNCHANGED <<client, reader, notes, channel, writer, hand, toClient, got>>

ShutDown ==
    /\ client = "open"
    /\ client' = "half"
    /\ UNCHANGED <<toServer, reader, task, channel, writer, hand, toClient, got>>

Close ==
    /\ client # "closed"
    /\ client' = "closed"
    /\ toClient' = << >>
    /\ UNCHANGED <<toServer, reader, task, channel, writer, hand, got>>

Read ==
    /\ client # "closed" /\ toClient # << >>
    /\ LET m == Head(toClient) IN got' = [got EXCEPT ![m.of] = Append(@, m.what)]
    /\ toClient' = Tail(toClient)
    /\ UNCHANGED <<client, toServer, reader, task, channel, writer, hand>>

-----------------------------------------------------------------------------
\* handle_connection, reader_loop

\* The reader returns, and handle_connection aborts the writer.
StopReading ==
    /\ reader' = "ended"
    /\ writer' = IF writer = "running" THEN "aborted" ELSE writer
    /\ toServer' = << >>

\* try_take_frame, and the task spawned for the frame: one that does not
\* decode ends with an error nobody is told of.
TakeFrame ==
    /\ reader = "reading" /\ toServer # << >>
    /\ LET r == Head(toServer) IN
       \/ /\ r \notin Huge
          /\ toServer' = Tail(toServer)
          /\ Goto(r, IF r \in Malformed THEN "done" ELSE "working")
          /\ UNCHANGED <<reader, writer>>
       \/ /\ r \in Huge
          /\ StopReading
          /\ UNCHANGED pc
    /\ UNCHANGED <<client, notes, channel, hand, toClient, got>>

\* The end of the stream, or a read error once the client is gone.
EndOfStream ==
    /\ reader = "reading"
    /\ \/ client = "half" /\ toServer = << >>
       \/ client = "closed"
    /\ StopReading
    /\ UNCHANGED <<client, task, channel, hand, toClient, got>>

-----------------------------------------------------------------------------
\* process_frame

ReceiverAlive == writer # "ended"

\* Faulty variant: what does not fit is dropped (try_send).
EnqueueLossy(m) ==
    channel' = IF ReceiverAlive /\ Len(channel) < ChannelSize
               THEN Append(channel, m) ELSE channel

\* send and blocking_send: wait for room; without a receiver the message is
\* dropped, which the senders ignore or log.
Enqueue(m) ==
    \/ /\ ReceiverAlive /\ Len(channel) < ChannelSize
       /\ channel' = Append(channel, m)
    \/ ~ReceiverAlive /\ UNCHANGED channel

\* send_query_partial, RpcProgressReporter::report: a thread of the handler
\* numbers its notification (a refresh counts files with fetch_add) and calls
\* blocking_send, where it stays until there is room. A streaming query has one
\* thread; those of a refresh overtake each other.
BeginNotify(r) ==
    /\ pc[r] = "working" /\ begun[r] < MaxNotes
    /\ r \in Parallel \/ pending[r] = {}
    /\ begun' = [begun EXCEPT ![r] = @ + 1]
    /\ pending' = [pending EXCEPT ![r] = @ \union {begun'[r]}]
    /\ UNCHANGED <<client, toServer, reader, pc, channel, writer, hand, toClient, got>>

Notify(r) ==
    \E n \in pending[r] :
        /\ Enqueue([of |-> r, what |-> n])
        /\ pending' = [pending EXCEPT ![r] = @ \ {n}]
        /\ UNCHANGED <<client, toServer, reader, pc, begun, writer, hand, toClient, got>>

\* Faulty variant: the threads are not joined.
JoinedIgnored(r) == TRUE

Joined(r) == pending[r] = {}

\* dispatch_rpc returns, with a value or an error.
Return(r) ==
    /\ pc[r] = "working" /\ Joined(r)
    /\ Goto(r, "respond")
    /\ UNCHANGED <<client, toServer, reader, notes, channel, writer, hand, toClient, got>>

Respond(r) ==
    /\ pc[r] = "respond"
    /\ Enqueue([of |-> r, what |-> Response])
    /\ Goto(r, "done")
    /\ UNCHANGED <<client, toServer, reader, notes, writer, hand, toClient, got>>

-----------------------------------------------------------------------------
\* writer_loop

Receive ==
    /\ writer \in {"running", "aborted"}
    /\ hand = NoMessage /\ channel # << >>
    /\ hand' = Head(channel)
    /\ channel' = Tail(channel)
    /\ UNCHANGED <<client, toServer, reader, task, writer, toClient, got>>

\* Faulty variant: the loop ends but the receiver is kept.
DropReceiverForgotten == writer' = "stuck" /\ hand' = NoMessage /\ UNCHANGED channel

\* The writer ends and drops the receiver with what is in the channel.
DropReceiver == writer' = "ended" /\ hand' = NoMessage /\ channel' = << >>

\* write_all waits for room in the socket; a write to a client that is gone
\* may still succeed, or fails and ends the writer.
Write ==
    /\ hand # NoMessage
    /\ \/ /\ client # "closed" /\ Len(toClient) < SocketSize
          /\ toClient' = Append(toClient, hand)
          /\ hand' = NoMessage
          /\ UNCHANGED <<writer, channel>>
       \/ /\ client = "closed"
          /\ hand' = NoMessage
          /\ UNCHANGED <<writer, channel, toClient>>
       \/ /\ client = "closed"
          /\ DropReceiver
          /\ UNCHANGED toClient
    /\ UNCHANGED <<client, toServer, reader, task, got>>

\* An aborted task is dropped at its next await; until then it may go on.
Cancel ==
    /\ writer = "aborted"
    /\ DropReceiver
    /\ UNCHANGED <<client, toServer, reader, task, toClient, got>>

Handle(r) == BeginNotify(r) \/ Notify(r) \/ Return(r) \/ Respond(r)

Next ==
    \/ \E r \in Requests : Send(r) \/ Handle(r)
    \/ ShutDown \/ Close \/ Read
    \/ TakeFrame \/ EndOfStream
    \/ Receive \/ Write \/ Cancel

Spec == Init /\ [][Next]_vars

\* Server tasks are polled, and the channel serves waiting senders in turn; a
\* client that stays connected reads its socket. Nothing makes it send or close.
Fairness ==
    /\ WF_vars(TakeFrame) /\ WF_vars(EndOfStream)
    /\ \A r \in Served : WF_vars(Handle(r)) /\ SF_vars(Notify(r) \/ Respond(r))
    /\ WF_vars(Receive) /\ WF_vars(Write) /\ WF_vars(Cancel)
    /\ WF_vars(Read)

FairSpec == Spec /\ Fairness

-----------------------------------------------------------------------------
\* Properties

Contains(s, m) == \E i \in DOMAIN s : s[i] = m

Answered(r) == Contains(got[r], Response)

(* While the connection is up, the response of a request that has been handled
   is not lost on its way: it waits in the channel, in the writer's hand or in
   the socket, or the client has it (one of two loops ending takes the other
   with it, and the messages in between). *)
NoResponseLost ==
    client # "closed" /\ reader = "reading" =>
        \A r \in Requests \ Malformed : pc[r] = "done" =>
            LET m == [of |-> r, what |-> Response] IN
            Contains(channel, m) \/ hand = m \/ Contains(toClient, m) \/ Answered(r)

Exchange == INSTANCE RpcExchange WITH asked <- {r \in Requests : pc[r] # "none"}

(* Whatever requests overlap, whenever the channel is full and wherever the
   connection ends, a client receives every notification of a request once, in
   order if one thread sends them, before its one response, and nothing after
   it. *)
ImplementsRpcExchange == Exchange!Spec

(* A request sent on a connection that stays open is answered, unless it does
   not decode or a frame that is too large has ended the reader. *)
RequestAnswered ==
    \A r \in Served :
        pc[r] = "sent" ~> Answered(r) \/ client # "open" \/ reader = "ended"

(* A handler's task ends, whatever the client does to the connection: one that
   waits for room in the channel is released by the reading client or by the
   end of the writer. A refresh holds its guard that long. *)
HandlersEnd == \A r \in Served : pc[r] = "working" ~> pc[r] = "done"
=============================================================================
