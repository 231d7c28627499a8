------------------------------- MODULE Client -------------------------------
(***************************************************************************)
(* The reference client of crates/clob-client: one connection, a decode    *)
(* buffer that outlives each call, recv with its deadline, and             *)
(* recv_until_timeout, which calls recv until it has enough, time is up or  *)
(* recv fails.  The calls take &mut self, so one runs at a time.           *)
(*                                                                         *)
(* The server is what Feed promises: it emits events in sequence, and the  *)
(* gateway answers a command it cannot decode by closing the connection.   *)
(* An event's frame crosses the stream as two chunks, so that a read can   *)
(* end inside one; the way of a command's chunks is in Gateway.            *)
(*                                                                         *)
(* A definition named Faulty... is a distorted version of the one after    *)
(* it; no specification uses it.                                           *)
(***************************************************************************)
EXTENDS Wire

CONSTANTS
  Commands,     \* the messages the caller may send
  Events,       \* the events the engine may emit, not yet numbered
  MaxTraffic,   \* bound: commands and events on the connection
  MaxDrain      \* `max` of recv_until_timeout

ASSUME CommandsAssumption == Commands \subseteq Inbound
ASSUME EventsAssumption == Events \subseteq EngineOutbound
ASSUME BoundsAssumption ==
  MaxTraffic \in Nat /\ MaxTraffic < Word /\ MaxDrain \in Nat

VARIABLES
  sent,       \* the commands send has written
  outgoing,   \* the inbound frames in flight
  accepted,   \* the commands the gateway decoded
  emitted,    \* the events the engine emitted on this connection
  socket,     \* the outbound bytes in flight
  peer,       \* "open", or "closed" once the gateway has closed
  shut,       \* shutdown was called
  rxBuf,      \* rx_buf
  call,       \* the call under way
  collected,  \* `out` of recv_until_timeout
  expired,    \* the deadline of the call has passed
  handed,     \* the events returned to the caller
  lost        \* the events a call had collected when it failed

vars == <<sent, outgoing, accepted, emitted, socket, peer, shut, rxBuf, call,
          collected, expired, handed, lost>>

\* "drain" is at the head of recv_until_timeout's loop, "draining" inside recv.
Call == {"idle", "recv", "drain", "draining"}

InRecv == call \in {"recv", "draining"}

\* The two chunks of a frame
Chunks(frame) ==
  <<[frame |-> frame, part |-> 1], [frame |-> frame, part |-> 2]>>

\* Frame::parse answers Truncated
Truncated(buf) == Len(buf) < 2

Init ==
  /\ sent = <<>> /\ outgoing = <<>> /\ accepted = <<>> /\ emitted = <<>>
  /\ socket = <<>> /\ peer = "open" /\ shut = FALSE
  /\ rxBuf = <<>> /\ call = "idle" /\ collected = <<>> /\ expired = FALSE
  /\ handed = <<>> /\ lost = <<>>

-----------------------------------------------------------------------------
(* The server.                                                             *)

Traffic == Len(sent) + Len(emitted)

\* The engine numbers an event as it emits it; the writer encodes it.
Emit(e) ==
  LET event == [e EXCEPT !.engine_seq = Len(emitted) + 1] IN
  /\ peer = "open"
  /\ Traffic < MaxTraffic
  /\ emitted' = Append(emitted, event)
  /\ socket' = socket \o Chunks(EncodeOutbound(event))
  /\ UNCHANGED <<sent, outgoing, accepted, peer, shut, rxBuf, call, collected,
                 expired, handed, lost>>

\* The connection ends; what was in flight arrives up to some chunk.
CloseAfter(n) ==
  /\ peer' = "closed"
  /\ socket' = SubSeq(socket, 1, n)

PeerCloses(n) ==
  /\ peer = "open"
  /\ CloseAfter(n)
  /\ UNCHANGED <<sent, outgoing, accepted, emitted, shut, rxBuf, call,
                 collected, expired, handed, lost>>

\* The gateway decodes the next command, or closes.
Decode ==
  LET parsed == ParseInbound(Head(outgoing)) IN
  /\ peer = "open" /\ outgoing # <<>>
  /\ outgoing' = Tail(outgoing)
  /\ IF IsError(parsed)
     THEN /\ \E n \in 0..Len(socket) : CloseAfter(n)
          /\ UNCHANGED accepted
     ELSE /\ accepted' = Append(accepted, parsed)
          /\ UNCHANGED <<peer, socket>>
  /\ UNCHANGED <<sent, emitted, shut, rxBuf, call, collected, expired, handed,
                 lost>>

-----------------------------------------------------------------------------
(* The client.                                                             *)

\* send; the bytes may leave for a peer that has closed.  A write that fails
\* (Io) changes nothing here.
Send(cmd) ==
  /\ call = "idle" /\ ~shut
  /\ Traffic < MaxTraffic
  /\ sent' = Append(sent, cmd)
  /\ outgoing' = Append(outgoing, EncodeInbound(cmd))
  /\ UNCHANGED <<accepted, emitted, socket, peer, shut, rxBuf, call, collected,
                 expired, handed, lost>>

Shutdown ==
  /\ call = "idle" /\ ~shut
  /\ shut' = TRUE
  /\ UNCHANGED <<sent, outgoing, accepted, emitted, socket, peer, rxBuf, call,
                 collected, expired, handed, lost>>

\* A call to recv or to recv_until_timeout begins.
Begin(c) ==
  /\ call = "idle"
  /\ call' = c
  /\ UNCHANGED <<sent, outgoing, accepted, emitted, socket, peer, shut, rxBuf,
                 collected, expired, handed, lost>>

\* The deadline passes.
Expire ==
  /\ call # "idle" /\ ~expired
  /\ expired' = TRUE
  /\ UNCHANGED <<sent, outgoing, accepted, emitted, socket, peer, shut, rxBuf,
                 call, collected, handed, lost>>

\* The call returns, or fails, and its deadline with it.
FaultyReturn ==        \* the deadline outlives the call
  /\ call' = "idle"
  /\ collected' = <<>>
  /\ UNCHANGED expired
Return ==
  /\ call' = "idle"
  /\ expired' = FALSE
  /\ collected' = <<>>

\* recv finds a whole frame in the buffer and takes it out.  That it fails
\* on one it cannot parse (Wire) is no action: EveryFrameDecodes.
FaultyTakeEvent ==       \* the frame taken stays in the buffer
  LET event == ParseOutbound(rxBuf[1].frame) IN
  /\ InRecv /\ ~Truncated(rxBuf) /\ ~IsError(event)
  /\ IF call = "recv"
     THEN /\ handed' = Append(handed, event)
          /\ Return
     ELSE /\ call' = "drain"
          /\ collected' = Append(collected, event)
          /\ UNCHANGED <<handed, expired>>
  /\ UNCHANGED <<sent, outgoing, accepted, emitted, socket, peer, shut, rxBuf,
                 lost>>
TakeEvent ==
  LET event == ParseOutbound(rxBuf[1].frame) IN
  /\ InRecv /\ ~Truncated(rxBuf) /\ ~IsError(event)
  /\ rxBuf' = SubSeq(rxBuf, 3, Len(rxBuf))
  /\ IF call = "recv"
     THEN /\ handed' = Append(handed, event)
          /\ Return
     ELSE /\ call' = "drain"
          /\ collected' = Append(collected, event)
          /\ UNCHANGED <<handed, expired>>
  /\ UNCHANGED <<sent, outgoing, accepted, emitted, socket, peer, shut, lost>>

\* recv reads once more while its deadline has not passed.
ReadMore ==
  /\ InRecv /\ Truncated(rxBuf) /\ ~expired
  /\ \E n \in 1..Len(socket) :
       /\ rxBuf' = rxBuf \o SubSeq(socket, 1, n)
       /\ socket' = SubSeq(socket, n + 1, Len(socket))
  /\ UNCHANGED <<sent, outgoing, accepted, emitted, peer, shut, call,
                 collected, expired, handed, lost>>

\* The read answers 0 or an error: Closed or Io, which recv_until_timeout
\* passes on in place of what it has collected.
Closed ==
  /\ InRecv /\ Truncated(rxBuf) /\ ~expired
  /\ peer = "closed" /\ socket = <<>>
  /\ lost' = lost \o collected
  /\ Return
  /\ UNCHANGED <<sent, outgoing, accepted, emitted, socket, peer, shut, rxBuf,
                 handed>>

\* recv gives up; recv_until_timeout returns what it has collected.
FaultyTimeout ==       \* recv sets itself a new deadline
  /\ InRecv /\ Truncated(rxBuf) /\ expired
  /\ expired' = FALSE
  /\ UNCHANGED <<sent, outgoing, accepted, emitted, socket, peer, shut, rxBuf,
                 call, collected, handed, lost>>
FaultyTimeoutFails ==  \* a time-out fails the whole drain
  /\ InRecv /\ Truncated(rxBuf) /\ expired
  /\ lost' = lost \o collected
  /\ Return
  /\ UNCHANGED <<sent, outgoing, accepted, emitted, socket, peer, shut, rxBuf,
                 handed>>
Timeout ==
  /\ InRecv /\ Truncated(rxBuf) /\ expired
  /\ handed' = handed \o collected
  /\ Return
  /\ UNCHANGED <<sent, outgoing, accepted, emitted, socket, peer, shut, rxBuf,
                 lost>>

\* The head of recv_until_timeout's loop: call recv again, or return.
DrainTurn ==
  /\ call = "drain"
  /\ IF Len(collected) < MaxDrain /\ ~expired
     THEN /\ call' = "draining"
          /\ UNCHANGED <<collected, expired, handed>>
     ELSE /\ handed' = handed \o collected
          /\ Return
  /\ UNCHANGED <<sent, outgoing, accepted, emitted, socket, peer, shut, rxBuf,
                 lost>>

\* One turn of the call under way
Turn == TakeEvent \/ ReadMore \/ Closed \/ Timeout \/ DrainTurn

Next ==
  \/ \E e \in Events : Emit(e)
  \/ \E n \in 0..Len(socket) : PeerCloses(n)
  \/ Decode
  \/ \E cmd \in Commands : Send(cmd)
  \/ Shutdown
  \/ \E c \in {"recv", "drain"} : Begin(c)
  \/ Expire
  \/ Turn

\* A call that can go on does, and time passes.
Spec == Init /\ [][Next]_vars /\ WF_vars(Turn) /\ WF_vars(Expire)

-----------------------------------------------------------------------------
(* Properties.                                                             *)

\* The variables have their types: a drain never collects more than `max`
\* events (recv_until_timeout), and only a call under way has a deadline.
ClientTypeOK ==
  /\ sent \in Seq(Commands) /\ accepted \in Seq(Inbound)
  /\ outgoing \in Seq({EncodeInbound(m) : m \in Commands})
  /\ emitted \in Seq(EngineOutbound)
  /\ peer \in {"open", "closed"} /\ shut \in BOOLEAN
  /\ call \in Call /\ expired \in BOOLEAN
  /\ collected \in Seq(Outbound) /\ Len(collected) <= MaxDrain
  /\ handed \in Seq(Outbound) /\ lost \in Seq(Outbound)
  /\ call = "idle" => ~expired

\* Sequence s is the beginning of t.
Begins(s, t) == Len(s) <= Len(t) /\ s = SubSeq(t, 1, Len(s))

Stream == rxBuf \o socket

Arriving == [i \in 1..(Len(Stream) \div 2) |-> Stream[2 * i].frame]

\* Everything the engine emits decodes: recv, which leaves a frame it cannot
\* decode in its buffer and would fail on it for ever, never meets one
\* (encode, parse and validate_coherent agree on every report the engine
\* builds).
EveryFrameDecodes ==
  \A i \in DOMAIN Arriving : ~IsError(ParseOutbound(Arriving[i]))

\* Across partial reads, time-outs and drains the caller is handed every
\* event once and in the order the engine emitted it: what was handed over,
\* lost and collected, followed by what is still arriving, is what was
\* emitted; after the connection closed it is the beginning of it.
NothingSkippedOrRepeated ==
  LET decoded == handed \o lost \o collected
                   \o [i \in DOMAIN Arriving |-> ParseOutbound(Arriving[i])]
      readable == [i \in DOMAIN emitted |-> AsRead(emitted[i])]
  IN IF peer = "open" THEN decoded = readable ELSE Begins(decoded, readable)

\* Events are lost only with the connection: a time-out never costs the
\* caller what recv_until_timeout had collected.
LostOnlyWithConnection == lost # <<>> => peer = "closed"

\* The engine acts on a beginning of what the caller sent, in order, each
\* command with its meaning and none it cannot act on (encode, then the
\* gateway's parse_frame); while the connection lives the others are on
\* their way.
CommandsArrive ==
  /\ Len(accepted) <= Len(sent)
  /\ accepted = [i \in DOMAIN accepted |-> AsAccepted(sent[i])]
  /\ \A i \in DOMAIN accepted : WellFormed(sent[i])
  /\ peer = "open" => Len(sent) = Len(accepted) + Len(outgoing)

\* recv and recv_until_timeout come back by their deadline, whatever part of
\* a frame they hold.
CallReturns == call # "idle" ~> call = "idle"

\* The round trip docs/protocol.md promises: what the client decodes is what
\* the engine emitted, field by field.
EventsArriveAsEmitted == Begins(handed, emitted)

=============================================================================
