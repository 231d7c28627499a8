------------------------------ MODULE Gateway ------------------------------
(***************************************************************************)
(* The path of a command from a socket to the engine thread and of the     *)
(* engine's messages back: crates/gateway/src/listener.rs and sink.rs, the *)
(* framing they decode (crates/wire/src/framing.rs), and the channels and  *)
(* threads crates/engine/src/bin/engine.rs builds around them.             *)
(*                                                                         *)
(* A frame is two chunks, so that a read can end in the middle of one; a   *)
(* frame whose length prefix is zero is one chunk.  The tokio runtime has  *)
(* one thread: a connection that drains its buffer does not yield, so no   *)
(* other task runs meanwhile (RuntimeFree).  The engine is another thread  *)
(* and interleaves with all of them.                                       *)
(*                                                                         *)
(* As in Book, a definition directly before another one and named for what *)
(* it gets wrong is a faulty variant, not part of the specification.       *)
(***************************************************************************)
EXTENDS Integers, Sequences, Functions

CONSTANTS
  Conn,              \* connections
  InboundCapacity,   \* INBOUND_CHANNEL_CAPACITY
  RingCapacity,      \* OUTBOUND_BROADCAST_CAPACITY
  Emissions,         \* how many messages a command may make the engine emit
  FrameKinds,        \* the kinds of frames clients send, a subset of Kind
  MaxFrames,         \* bound on the frames all clients send
  MaxMessages        \* bound on the messages the engine emits

\* A command with a valid payload; one whose payload fails validation, or an
\* outbound kind; a kind without a meaning; a frame of length zero.
Kind == {"command", "malformed", "unknown", "empty"}

ASSUME InboundCapacityAssumption == InboundCapacity \in Nat \ {0}
ASSUME RingCapacityAssumption == RingCapacity \in Nat \ {0}
ASSUME EmissionsAssumption == Emissions \subseteq Nat /\ 0 \in Emissions
ASSUME FrameKindsAssumption == FrameKinds \subseteq Kind
ASSUME BoundsAssumption == MaxFrames \in Nat /\ MaxMessages \in Nat

VARIABLES
  reader,      \* handle_connection: "unconnected", "open", "closed"
  writer,      \* its writer task: "none", "running", "lagged", "ended"
  hungUp,      \* has the client closed its end?
  sent,        \* frames the client has sent
  socket,      \* chunks sent and not yet read
  buf,         \* the connection's read buffer
  inbound,     \* the bounded tokio channel
  bridge,      \* the unbounded std channel to the engine thread
  executed,    \* commands the engine has taken, in order
  emitting,    \* messages the current step still has to emit
  tail,        \* number of the next message the broadcast channel takes
  pos,         \* the next message each receiver will get
  held,        \* the message each writer task is writing, 0 for none
  delivered    \* messages written to each socket

clientVars == <<hungUp, sent>>
queueVars == <<inbound, bridge>>
engineVars == <<executed, emitting, tail>>
outVars == <<writer, pos, held, delivered>>
vars == <<reader, clientVars, socket, buf, queueVars, engineVars, outVars>>

Command == [conn : Conn, n : Nat]
Chunk == [n : Nat, kind : Kind]

FrameChunks(kind) == IF kind = "empty" THEN 1 ELSE 2

-----------------------------------------------------------------------------
(* Decoding.                                                               *)

\* Frame::parse_or_skip of a frame that is all there.
ParseOrSkip(b) ==
  CASE Head(b).kind = "empty" -> "Truncated"
    [] Head(b).kind = "unknown" -> "UnknownKind"
    [] OTHER -> "Frame"

\* Does parse_frame make a typed command of it?
ParseFrame(b) == Head(b).kind = "command"


\* try_decode.  A frame of length zero, which parse_or_skip calls Truncated,
\* comes out as NeedMore like one that is still incomplete.
TryDecode(b) ==
  IF b = <<>> \/ Len(b) < FrameChunks(Head(b).kind) THEN "NeedMore"
  ELSE CASE ParseOrSkip(b) = "Truncated" -> "NeedMore"
         [] ParseOrSkip(b) = "UnknownKind" -> "Skipped"
         [] OTHER -> IF ParseFrame(b) THEN "Decoded" ELSE "Malformed"

Draining(c) == reader[c] = "open" /\ TryDecode(buf[c]) # "NeedMore"

\* No connection but those in cs is between two frames of its drain loop.
RuntimeFree(cs) == \A c \in Conn \ cs : ~Draining(c)

\* The writer task is over: its receiver and write half are dropped, with a
\* message it may have been writing.
EndWriter(c, how) ==
  /\ writer' = [writer EXCEPT ![c] = how]
  /\ pos' = [pos EXCEPT ![c] = 0]
  /\ held' = [held EXCEPT ![c] = 0]

\* handle_connection returns: the writer task is aborted, the buffer and the
\* socket with what it has not delivered are dropped.
Close(c) ==
  /\ reader' = [reader EXCEPT ![c] = "closed"]
  /\ EndWriter(c, "ended")
  /\ buf' = [buf EXCEPT ![c] = <<>>]
  /\ socket' = [socket EXCEPT ![c] = <<>>]

HasRoomOneTooMany == Len(inbound) <= InboundCapacity

HasRoom == Len(inbound) < InboundCapacity

\* A decoded command goes to try_send; when the channel is full the command
\* is lost and the connection closed.
ForwardOrDrop(c) ==
  /\ RuntimeFree({c})
  /\ reader[c] = "open"
  /\ TryDecode(buf[c]) = "Decoded"
  /\ buf' = [buf EXCEPT ![c] = Tail(Tail(@))]
  /\ inbound' = IF HasRoom
                  THEN Append(inbound, [conn |-> c, n |-> Head(buf[c]).n])
                  ELSE inbound
  /\ UNCHANGED <<reader, clientVars, socket, bridge, engineVars, outVars>>

ForwardOrClose(c) ==
  /\ RuntimeFree({c})
  /\ reader[c] = "open"
  /\ TryDecode(buf[c]) = "Decoded"
  /\ IF HasRoom
       THEN /\ inbound' = Append(inbound, [conn |-> c, n |-> Head(buf[c]).n])
            /\ buf' = [buf EXCEPT ![c] = Tail(Tail(@))]
            /\ UNCHANGED <<reader, writer, pos, held, socket>>
       ELSE Close(c) /\ UNCHANGED inbound
  /\ UNCHANGED <<clientVars, bridge, engineVars, delivered>>

\* A malformed frame or an unknown kind closes the connection, silently.
RefuseFrame(c) ==
  /\ RuntimeFree({c})
  /\ reader[c] = "open"
  /\ TryDecode(buf[c]) \in {"Malformed", "Skipped"}
  /\ Close(c)
  /\ UNCHANGED <<clientVars, queueVars, engineVars, delivered>>

\* read_buf returns some of what has arrived.
ReadSome(c) ==
  /\ RuntimeFree({})
  /\ reader[c] = "open"
  /\ \E k \in 1..Len(socket[c]) :
       /\ buf' = [buf EXCEPT ![c] = @ \o SubSeq(socket[c], 1, k)]
       /\ socket' = [socket EXCEPT ![c] = SubSeq(@, k + 1, Len(@))]
  /\ UNCHANGED <<reader, clientVars, queueVars, engineVars, outVars>>

\* read_buf returns 0, or fails with data still on its way.
ReadEnds(c) ==
  /\ RuntimeFree({})
  /\ reader[c] = "open"
  /\ hungUp[c]
  /\ Close(c)
  /\ UNCHANGED <<clientVars, queueVars, engineVars, delivered>>

-----------------------------------------------------------------------------
(* Connections and clients.                                                *)

\* run accepts the connection and subscribes it: it gets what is emitted
\* from now on.
Accept(c) ==
  /\ RuntimeFree({})
  /\ reader[c] = "unconnected"
  /\ reader' = [reader EXCEPT ![c] = "open"]
  /\ writer' = [writer EXCEPT ![c] = "running"]
  /\ pos' = [pos EXCEPT ![c] = tail]
  /\ UNCHANGED <<clientVars, socket, buf, queueVars, engineVars, held,
                 delivered>>

\* Frame::write
Framed(n, kind) ==
  [i \in 1..FrameChunks(kind) |-> [n |-> n, kind |-> kind]]

FramesSent == FoldFunction(+, 0, sent)

ClientSends(c, kind) ==
  /\ reader[c] = "open"
  /\ ~hungUp[c]
  /\ FramesSent < MaxFrames
  /\ sent' = [sent EXCEPT ![c] = @ + 1]
  /\ socket' = [socket EXCEPT ![c] = @ \o Framed(sent[c] + 1, kind)]
  /\ UNCHANGED <<reader, hungUp, buf, queueVars, engineVars, outVars>>

ClientHangsUp(c) ==
  /\ reader[c] = "open"
  /\ ~hungUp[c]
  /\ hungUp' = [hungUp EXCEPT ![c] = TRUE]
  /\ UNCHANGED <<reader, sent, socket, buf, queueVars, engineVars, outVars>>

-----------------------------------------------------------------------------
(* The forwarder task and the engine thread.                               *)

ForwardLive ==
  /\ RuntimeFree({})
  /\ inbound # <<>>
  /\ inbound' = Tail(inbound)
  /\ bridge' = IF reader[Head(inbound).conn] = "closed" THEN bridge
               ELSE Append(bridge, Head(inbound))
  /\ UNCHANGED <<reader, clientVars, socket, buf, engineVars, outVars>>

Forward ==
  /\ RuntimeFree({})
  /\ inbound # <<>>
  /\ inbound' = Tail(inbound)
  /\ bridge' = Append(bridge, Head(inbound))
  /\ UNCHANGED <<reader, clientVars, socket, buf, engineVars, outVars>>

\* engine_loop takes the next command; its step emits some messages.
TakeCommand ==
  /\ emitting = 0
  /\ bridge # <<>>
  /\ bridge' = Tail(bridge)
  /\ executed' = Append(executed, Head(bridge))
  /\ emitting' \in {e \in Emissions : tail + e <= MaxMessages + 1}
  /\ UNCHANGED <<reader, clientVars, socket, buf, inbound, tail, outVars>>

\* ChannelSink::emit.  Without a subscriber the message goes nowhere.
Emit ==
  /\ emitting > 0
  /\ emitting' = emitting - 1
  /\ tail' = tail + 1
  /\ UNCHANGED <<reader, clientVars, socket, buf, queueVars, executed,
                 outVars>>

-----------------------------------------------------------------------------
(* The writer tasks.                                                       *)

\* The slot of the receiver's next message has been overwritten.
Overrun(c) == tail - pos[c] > RingCapacity

\* out_rx.recv gives the writer task its next message.
Receive(c) ==
  /\ RuntimeFree({})
  /\ writer[c] = "running"
  /\ held[c] = 0
  /\ pos[c] < tail
  /\ ~Overrun(c)
  /\ held' = [held EXCEPT ![c] = pos[c]]
  /\ pos' = [pos EXCEPT ![c] = @ + 1]
  /\ UNCHANGED <<reader, clientVars, socket, buf, queueVars, engineVars,
                 writer, delivered>>

\* write_all, which waits for the client, has come to its end.
Written(c) ==
  /\ RuntimeFree({})
  /\ writer[c] = "running"
  /\ held[c] # 0
  /\ delivered' = [delivered EXCEPT ![c] = Append(@, held[c])]
  /\ held' = [held EXCEPT ![c] = 0]
  /\ UNCHANGED <<reader, clientVars, socket, buf, queueVars, engineVars,
                 writer, pos>>

LagSkips(c) ==
  /\ RuntimeFree({})
  /\ writer[c] = "running"
  /\ held[c] = 0
  /\ Overrun(c)
  /\ pos' = [pos EXCEPT ![c] = tail - RingCapacity]
  /\ UNCHANGED <<reader, clientVars, socket, buf, queueVars, engineVars,
                 writer, held, delivered>>

\* recv says Lagged: the task returns and drops the write half.  The reader
\* is not told.
Lag(c) ==
  /\ RuntimeFree({})
  /\ writer[c] = "running"
  /\ held[c] = 0
  /\ Overrun(c)
  /\ EndWriter(c, "lagged")
  /\ UNCHANGED <<reader, clientVars, socket, buf, queueVars, engineVars,
                 delivered>>

WriteFailsContinues(c) ==
  /\ RuntimeFree({})
  /\ writer[c] = "running"
  /\ hungUp[c]
  /\ held[c] # 0
  /\ held' = [held EXCEPT ![c] = 0]
  /\ UNCHANGED <<reader, clientVars, socket, buf, queueVars, engineVars,
                 writer, pos, delivered>>

\* write_all fails: the message is lost with the write half.
WriteFails(c) ==
  /\ RuntimeFree({})
  /\ writer[c] = "running"
  /\ hungUp[c]
  /\ held[c] # 0
  /\ EndWriter(c, "ended")
  /\ UNCHANGED <<reader, clientVars, socket, buf, queueVars, engineVars,
                 delivered>>

-----------------------------------------------------------------------------
Init ==
  /\ reader = [c \in Conn |-> "unconnected"]
  /\ writer = [c \in Conn |-> "none"]
  /\ hungUp = [c \in Conn |-> FALSE]
  /\ sent = [c \in Conn |-> 0]
  /\ socket = [c \in Conn |-> <<>>]
  /\ buf = [c \in Conn |-> <<>>]
  /\ inbound = <<>>
  /\ bridge = <<>>
  /\ executed = <<>>
  /\ emitting = 0
  /\ tail = 1
  /\ pos = [c \in Conn |-> 1]
  /\ held = [c \in Conn |-> 0]
  /\ delivered = [c \in Conn |-> <<>>]

Drain == \E c \in Conn : ForwardOrClose(c) \/ RefuseFrame(c)

EngineThread == TakeCommand \/ Emit

Next ==
  \/ \E c \in Conn : Accept(c) \/ ReadSome(c) \/ ReadEnds(c)
  \/ \E c \in Conn, kind \in FrameKinds : ClientSends(c, kind)
  \/ \E c \in Conn : ClientHangsUp(c)
  \/ Drain
  \/ Forward
  \/ EngineThread
  \/ \E c \in Conn : Receive(c) \/ Written(c) \/ WriteFails(c) \/ Lag(c)

Spec == Init /\ [][Next]_vars

\* The runtime polls every task that is ready, so that what has arrived is
\* read; a drain loop runs to its end, and the engine thread waits for nothing
\* but commands.  Clients and writers, which depend on clients, get no
\* fairness.
FairSpec ==
  /\ Spec
  /\ WF_vars(Drain) /\ WF_vars(Forward) /\ WF_vars(EngineThread)
  /\ \A c \in Conn : WF_vars(ReadSome(c))

-----------------------------------------------------------------------------
(* What the clients are promised of the engine's messages is Feed.  The    *)
(* message a live subscriber gets next is the one its writer task holds,   *)
(* or else the one its receiver will get.                                  *)

Phase(c) ==
  CASE writer[c] = "none" -> "new"
    [] writer[c] = "running" -> "live"
    [] writer[c] \in {"lagged", "ended"} -> "over"

NextMessage(c) ==
  IF writer[c] # "running" THEN 0
  ELSE IF held[c] = 0 THEN pos[c] ELSE held[c]

F == INSTANCE Feed WITH
       Subscriber <- Conn,
       published <- tail - 1,
       phase <- [c \in Conn |-> Phase(c)],
       next <- [c \in Conn |-> NextMessage(c)],
       got <- delivered

-----------------------------------------------------------------------------
(* Properties.                                                             *)

\* Type correctness; the inbound channel never exceeds its capacity and no
\* receiver is ahead of the engine.
GatewayTypeOK ==
  /\ reader \in [Conn -> {"unconnected", "open", "closed"}]
  /\ writer \in [Conn -> {"none", "running", "lagged", "ended"}]
  /\ hungUp \in [Conn -> BOOLEAN]
  /\ sent \in [Conn -> Nat]
  /\ socket \in [Conn -> Seq(Chunk)]
  /\ buf \in [Conn -> Seq(Chunk)]
  /\ inbound \in Seq(Command) /\ Len(inbound) <= InboundCapacity
  /\ bridge \in Seq(Command)
  /\ executed \in Seq(Command)
  /\ emitting \in Nat
  /\ tail \in Nat \ {0}
  /\ pos \in [Conn -> Nat] /\ \A c \in Conn : pos[c] <= tail
  /\ held \in [Conn -> Nat]
  /\ delivered \in [Conn -> Seq(Nat)]

\* The commands the gateway has let through, those executed first, and where
\* those of c are among them
Pipe == executed \o bridge \o inbound
Passed(c) == {i \in DOMAIN Pipe : Pipe[i].conn = c}

\* What c has sent and the gateway has not decoded, and the frame it is at
Rest(c) == buf[c] \o socket[c]
Due(c) == IF Rest(c) = <<>> THEN sent[c] + 1 ELSE Rest(c)[1].n

\* What passes from a connection is an unbroken beginning of what its client
\* sent, in order and once each, wherever the reads cut the stream; and what
\* an open connection has yet to decode is all the rest.
InOrderOnce ==
  \A c \in Conn :
    \E k \in 0..sent[c] :
      /\ {Pipe[i].n : i \in Passed(c)} = 1..k
      /\ \A i, j \in Passed(c) : i < j => Pipe[i].n < Pipe[j].n
      /\ reader[c] = "open" => Due(c) = k + 1

\* What a client gets is an unbroken run of the engine's messages, up to the
\* one its writer task is writing or will take next: a client that falls
\* behind loses the rest of its stream, never messages from the middle of it.
NoSilentGap ==
  \A c \in Conn :
    /\ \A i \in DOMAIN delivered[c] :
         delivered[c][i] = delivered[c][1] + i - 1
    /\ writer[c] = "running" /\ delivered[c] # <<>> =>
         delivered[c][Len(delivered[c])] + 1
           = IF held[c] = 0 THEN pos[c] ELSE held[c]

\* A command that entered the channel is executed, also when its connection
\* is closed in the meantime.
AcceptedExecuted ==
  \A c \in Conn, n \in 1..MaxFrames :
    (\E i \in DOMAIN inbound : inbound[i] = [conn |-> c, n |-> n])
      ~> (\E i \in DOMAIN executed : executed[i] = [conn |-> c, n |-> n])

\* No zero-length frame is ahead of frame n of c, nor is it one itself.
Unblocked(c, n) ==
  \A i \in DOMAIN Rest(c) :
    Rest(c)[i].kind = "empty" => Rest(c)[i].n > n


\* Broadcast ring, receivers, writer tasks and closing connections together
\* do nothing Feed does not: every client gets an unbroken run of the stream
\* from the moment it subscribed, and nothing after it is cut off.
ImplementsFeed == F!Spec

\* bin/engine.rs of a subscriber that lags: "the per-session writer task
\* closes the TCP connection".
LaggedIsClosed ==
  [][\A c \in Conn : writer[c] = "lagged" => Passed(c)' = Passed(c)]_vars

=============================================================================
