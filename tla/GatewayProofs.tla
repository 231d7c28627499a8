---------------------------- MODULE GatewayProofs ----------------------------
(***************************************************************************)
(* Proofs about both halves of module Gateway, for every value of the      *)
(* constants.                                                              *)
(*                                                                         *)
(* Outbound.  To a client's stream a step of the gateway is one of six     *)
(* things (Steps); StreamInv, which every one of them preserves, ties the  *)
(* message a writer task holds to the position of its receiver.  With it   *)
(* each of the six is a step of Feed or none at all, and what a client got *)
(* is unbroken.                                                            *)
(*                                                                         *)
(* Inbound.  What a client has sent and the gateway has not yet forwarded  *)
(* (Rest) is made of whole frames with consecutive numbers (Whole), however*)
(* much of it is read; InboundInv ties the first of them to the commands   *)
(* the channels and the engine already have.                               *)
(***************************************************************************)
EXTENDS Gateway, SequenceTheorems, TLAPS

StreamType ==
  /\ reader \in [Conn -> {"unconnected", "open", "closed"}]
  /\ writer \in [Conn -> {"none", "running", "lagged", "ended"}]
  /\ tail \in Nat \ {0}
  /\ pos \in [Conn -> Nat]
  /\ held \in [Conn -> Nat]
  /\ delivered \in [Conn -> Seq(Nat)]

\* A task has a receiver as long as it runs, a message only while it runs,
\* and that message is the one before the receiver's next.
WriterInv(c) ==
  /\ reader[c] = "unconnected" <=> writer[c] = "none"
  /\ writer[c] = "running" => pos[c] \in 1..tail
  /\ held[c] # 0 => writer[c] = "running" /\ pos[c] = held[c] + 1

\* NoSilentGap, of one client
Unbroken(c) ==
  /\ \A i \in DOMAIN delivered[c] : delivered[c][i] = delivered[c][1] + i - 1
  /\ writer[c] = "running" /\ delivered[c] # <<>> =>
       delivered[c][Len(delivered[c])] + 1
         = IF held[c] = 0 THEN pos[c] ELSE held[c]

\* A client not yet connected has got nothing.
Fresh(c) == writer[c] = "none" => delivered[c] = <<>>

StreamInv ==
  /\ StreamType
  /\ \A c \in Conn : WriterInv(c) /\ Unbroken(c) /\ Fresh(c)

-----------------------------------------------------------------------------
(* What a step does to the streams.                                        *)

Quiet == UNCHANGED <<reader, writer, tail, pos, held, delivered>>

Emits == tail' = tail + 1 /\ UNCHANGED <<reader, writer, pos, held, delivered>>

Starts(c) ==
  /\ reader[c] = "unconnected"
  /\ reader' = [reader EXCEPT ![c] = "open"]
  /\ writer' = [writer EXCEPT ![c] = "running"]
  /\ pos' = [pos EXCEPT ![c] = tail]
  /\ UNCHANGED <<tail, held, delivered>>

Ends(c) ==
  /\ reader[c] # "unconnected"
  /\ \E how \in {"lagged", "ended"} : EndWriter(c, how)
  /\ reader' \in {reader, [reader EXCEPT ![c] = "closed"]}
  /\ UNCHANGED <<tail, delivered>>

Takes(c) ==
  /\ writer[c] = "running" /\ held[c] = 0 /\ pos[c] < tail
  /\ held' = [held EXCEPT ![c] = pos[c]]
  /\ pos' = [pos EXCEPT ![c] = @ + 1]
  /\ UNCHANGED <<reader, writer, tail, delivered>>

Writes(c) ==
  /\ writer[c] = "running" /\ held[c] # 0
  /\ delivered' = [delivered EXCEPT ![c] = Append(@, held[c])]
  /\ held' = [held EXCEPT ![c] = 0]
  /\ UNCHANGED <<reader, writer, tail, pos>>

\* Every step of the gateway is, to the streams, one of the six.
LEMMA Steps ==
  ASSUME StreamInv, [Next]_vars
  PROVE  \/ Quiet \/ Emits
         \/ \E c \in Conn : Starts(c) \/ Ends(c) \/ Takes(c) \/ Writes(c)
<1> USE DEF clientVars, queueVars, engineVars, outVars
<1>1. ASSUME NEW c \in Conn, Accept(c) PROVE Starts(c)
  BY <1>1, Zenon DEF Accept, Starts
<1>2. ASSUME NEW c \in Conn, ReadSome(c) PROVE Quiet
  BY <1>2, Zenon DEF ReadSome, Quiet
<1>3. ASSUME NEW c \in Conn,
             reader[c] = "open", Close(c), UNCHANGED <<tail, delivered>>
      PROVE  Ends(c)
  BY <1>3, Zenon DEF Close, EndWriter, Ends
<1>4. ASSUME NEW c \in Conn, ReadEnds(c) \/ RefuseFrame(c) PROVE Ends(c)
  BY <1>3, <1>4, Zenon DEF ReadEnds, RefuseFrame
<1>5. ASSUME NEW c \in Conn, ForwardOrClose(c) PROVE Quiet \/ Ends(c)
  <2>1. CASE HasRoom
    BY <1>5, <2>1, Zenon DEF ForwardOrClose, Quiet
  <2>2. CASE ~HasRoom
    BY <1>3, <1>5, <2>2, Zenon DEF ForwardOrClose
  <2> QED
    BY <2>1, <2>2, Zenon
<1>6. ASSUME NEW c \in Conn, NEW kind \in FrameKinds, ClientSends(c, kind)
      PROVE  Quiet
  BY <1>6, Zenon DEF ClientSends, Quiet
<1>7. ASSUME NEW c \in Conn, ClientHangsUp(c) PROVE Quiet
  BY <1>7, Zenon DEF ClientHangsUp, Quiet
<1>8. CASE Forward
  BY <1>8, Zenon DEF Forward, Quiet
<1>9. CASE TakeCommand
  BY <1>9, Zenon DEF TakeCommand, Quiet
<1>10. CASE Emit
  BY <1>10, Zenon DEF Emit, Emits
<1>11. ASSUME NEW c \in Conn, Receive(c) PROVE Takes(c)
  BY <1>11, Zenon DEF Receive, Takes
<1>12. ASSUME NEW c \in Conn, Written(c) PROVE Writes(c)
  BY <1>12, Zenon DEF Written, Writes
<1>13. ASSUME NEW c \in Conn, WriteFails(c) \/ Lag(c) PROVE Ends(c)
  <2>1. reader[c] # "unconnected"
    BY <1>13, Zenon DEF StreamInv, WriterInv, WriteFails, Lag
  <2> QED
    BY <1>13, <2>1, Zenon DEF WriteFails, Lag, Ends
<1>14. CASE UNCHANGED vars
  BY <1>14, Zenon DEF vars, Quiet
<1> QED
  BY <1>1, <1>2, <1>4, <1>5, <1>6, <1>7, <1>8, <1>9, <1>10, <1>11, <1>12,
     <1>13, <1>14, Zenon DEF Next, Drain, EngineThread

-----------------------------------------------------------------------------
(* The invariant.                                                          *)

\* No client is connected at first.
LEMMA StreamInit == Init => StreamInv
BY DEF Init, StreamInv, StreamType, WriterInv, Unbroken, Fresh

\* A message written continues the run of a client's stream.
LEMMA AppendUnbroken ==
  ASSUME NEW d \in Seq(Nat), NEW h \in Nat,
         \A i \in DOMAIN d : d[i] = d[1] + i - 1,
         d # <<>> => d[Len(d)] + 1 = h
  PROVE  LET e == Append(d, h)
         IN /\ e \in Seq(Nat) /\ e # <<>>
            /\ \A i \in DOMAIN e : e[i] = e[1] + i - 1
            /\ e[Len(e)] = h
<1> DEFINE e == Append(d, h)
<1>1. /\ e \in Seq(Nat) /\ Len(e) = Len(d) + 1 /\ Len(d) \in Nat
      /\ DOMAIN e = 1..Len(d) + 1 /\ DOMAIN d = 1..Len(d)
      /\ \A i \in 1..Len(d) : e[i] = d[i] /\ d[i] \in Nat
      /\ e[Len(d) + 1] = h
  OBVIOUS
<1> HIDE DEF e
<1>2. CASE d = <<>>
  <2>1. Len(d) = 0
    BY <1>2, Zenon
  <2> QED
    BY <1>1, <2>1 DEF e
<1>3. CASE d # <<>>
  <2>1. Len(d) > 0
    BY <1>1, <1>3
  <2>2. e[1] = d[1] /\ d[1] \in Nat /\ d[Len(d)] = d[1] + Len(d) - 1
    <3>1. 1 \in 1..Len(d) /\ Len(d) \in 1..Len(d)
      BY <1>1, <2>1
    <3> QED
      BY <1>1, <3>1, Zenon
  <2>3. h = d[1] + Len(d)
    BY <1>1, <1>3, <2>2
  <2>4. ASSUME NEW i \in 1..Len(d) + 1 PROVE e[i] = e[1] + i - 1
    <3>1. CASE i = Len(d) + 1
      BY <1>1, <2>2, <2>3, <3>1
    <3>2. CASE i # Len(d) + 1
      <4>1. i \in 1..Len(d)
        BY <1>1, <3>2
      <4>2. e[i] = d[i] /\ d[i] = d[1] + i - 1
        BY <1>1, <4>1, Zenon
      <4> QED
        BY <2>2, <4>2, Zenon
    <3> QED
      BY <3>1, <3>2, Zenon
  <2>5. e # <<>>
    BY <1>1
  <2> QED
    BY <1>1, <2>4, <2>5, Zenon DEF e
<1> QED
  BY <1>2, <1>3, Zenon

\* Every step preserves the invariant.
LEMMA StreamStep ==
  ASSUME StreamInv, [Next]_vars
  PROVE  StreamInv'
<1> USE DEF StreamInv, StreamType
<1>1. CASE Quiet
  BY <1>1, Zenon DEF Quiet, WriterInv, Unbroken, Fresh
<1>2. CASE Emits
  <2>1. StreamType'
    BY <1>2 DEF Emits
  <2>2. ASSUME NEW x \in Conn PROVE (WriterInv(x) /\ Unbroken(x) /\ Fresh(x))'
    BY <1>2 DEF Emits, WriterInv, Unbroken, Fresh
  <2> QED
    BY <2>1, <2>2, Zenon
<1>3. ASSUME NEW c \in Conn, Starts(c) PROVE StreamInv'
  <2>1. StreamType'
    BY <1>3, Zenon DEF Starts
  <2>2. held[c] = 0 /\ delivered[c] = <<>>
    BY <1>3, Zenon DEF Starts, WriterInv, Fresh
  <2>3. ASSUME NEW x \in Conn PROVE (WriterInv(x) /\ Unbroken(x) /\ Fresh(x))'
    <3>1. CASE x = c
      <4>1. /\ reader'[x] = "open" /\ writer'[x] = "running" /\ pos'[x] = tail
            /\ tail' = tail /\ held'[x] = 0 /\ delivered'[x] = <<>>
        BY <1>3, <2>2, <3>1, Zenon DEF Starts
      <4> QED
        BY <4>1 DEF WriterInv, Unbroken, Fresh
    <3>2. CASE x # c
      <4>1. /\ reader'[x] = reader[x] /\ writer'[x] = writer[x] /\ pos'[x] = pos[x]
            /\ tail' = tail /\ held' = held /\ delivered' = delivered
        BY <1>3, <3>2, Zenon DEF Starts
      <4>2. WriterInv(x) /\ Unbroken(x) /\ Fresh(x)
        BY Zenon
      <4> HIDE DEF StreamInv, StreamType
      <4> QED
        BY <4>1, <4>2, Zenon DEF WriterInv, Unbroken, Fresh
    <3> QED
      BY <3>1, <3>2, Zenon
  <2> QED
    BY <2>1, <2>3, Zenon
<1>4. ASSUME NEW c \in Conn, Ends(c) PROVE StreamInv'
  <2>1. StreamType'
    <3>1. reader' \in [Conn -> {"unconnected", "open", "closed"}]
      BY <1>4, Zenon DEF Ends
    <3>2. /\ writer' \in [Conn -> {"none", "running", "lagged", "ended"}]
          /\ pos' \in [Conn -> Nat] /\ held' \in [Conn -> Nat]
      BY <1>4 DEF Ends, EndWriter
    <3> QED
      BY <1>4, <3>1, <3>2, Zenon DEF Ends
  <2>2. PICK how \in {"lagged", "ended"} : EndWriter(c, how)
    BY <1>4, Zenon DEF Ends
  <2>3. /\ writer'[c] = how /\ held'[c] = 0 /\ delivered'[c] = delivered[c]
        /\ reader'[c] # "unconnected"
    BY <1>4, <2>2, Zenon DEF Ends, EndWriter
  <2>4. (WriterInv(c) /\ Unbroken(c) /\ Fresh(c))'
    BY <2>3 DEF WriterInv, Unbroken, Fresh
  <2>5. ASSUME NEW x \in Conn \ {c}
        PROVE  (WriterInv(x) /\ Unbroken(x) /\ Fresh(x))'
    <3>1. /\ writer'[x] = writer[x] /\ held'[x] = held[x]
          /\ pos'[x] = pos[x] /\ reader'[x] = reader[x]
      BY <1>4, <2>2, Zenon DEF Ends, EndWriter
    <3> QED
      BY <1>4, <3>1 DEF Ends, WriterInv, Unbroken, Fresh
  <2> QED
    BY <2>1, <2>4, <2>5, Zenon
<1>5. ASSUME NEW c \in Conn, Takes(c) PROVE StreamInv'
  <2>1. StreamType'
    BY <1>5 DEF Takes
  <2>2. ASSUME NEW x \in Conn PROVE (WriterInv(x) /\ Unbroken(x) /\ Fresh(x))'
    BY <1>5 DEF Takes, WriterInv, Unbroken, Fresh
  <2> QED
    BY <2>1, <2>2, Zenon
<1>6. ASSUME NEW c \in Conn, Writes(c) PROVE StreamInv'
  <2>1. /\ delivered[c] \in Seq(Nat) /\ held[c] \in Nat
        /\ pos[c] = held[c] + 1
    BY <1>6, Zenon DEF Writes, WriterInv
  <2>2. /\ \A i \in DOMAIN delivered[c] :
             delivered[c][i] = delivered[c][1] + i - 1
        /\ delivered[c] # <<>> =>
             delivered[c][Len(delivered[c])] + 1 = held[c]
        /\ delivered'[c] = Append(delivered[c], held[c])
    BY <1>6, Zenon DEF Writes, Unbroken
  <2>3. /\ delivered'[c] \in Seq(Nat) /\ delivered'[c] # <<>>
        /\ \A i \in DOMAIN delivered'[c] :
             delivered'[c][i] = delivered'[c][1] + i - 1
        /\ delivered'[c][Len(delivered'[c])] = held[c]
    <3> DEFINE d == delivered[c]
               h == held[c]
               e == Append(d, h)
    <3>1. /\ d \in Seq(Nat) /\ h \in Nat
          /\ \A i \in DOMAIN d : d[i] = d[1] + i - 1
          /\ d # <<>> => d[Len(d)] + 1 = h
      BY <2>1, <2>2, Zenon
    <3> HIDE DEF d, h
    <3>2. /\ e \in Seq(Nat) /\ e # <<>>
          /\ \A i \in DOMAIN e : e[i] = e[1] + i - 1
          /\ e[Len(e)] = h
      BY <3>1, AppendUnbroken, Zenon
    <3>3. delivered'[c] = e
      BY <2>2, Zenon DEF d, h
    <3> HIDE DEF e
    <3> QED
      BY <3>2, <3>3, Zenon DEF h
  <2>4. StreamType'
    BY <1>6, <2>3, Zenon DEF Writes
  <2>5. (WriterInv(c) /\ Unbroken(c) /\ Fresh(c))'
    BY <1>6, <2>1, <2>3, Zenon DEF Writes, WriterInv, Unbroken, Fresh
  <2>6. ASSUME NEW x \in Conn \ {c}
        PROVE  (WriterInv(x) /\ Unbroken(x) /\ Fresh(x))'
    BY <1>6, Zenon DEF Writes, WriterInv, Unbroken, Fresh
  <2> QED
    BY <2>4, <2>5, <2>6, Zenon
<1> QED
  BY <1>1, <1>2, <1>3, <1>4, <1>5, <1>6, Steps, Zenon

\* The invariant holds.
LEMMA Streams == Spec => []StreamInv
BY StreamInit, StreamStep, PTL DEF Spec

\* What a client gets is an unbroken run of the engine's messages, whatever
\* the capacity of the ring and the number of clients (listener.rs, the
\* writer task; sink.rs, emit).
THEOREM StreamsUnbroken == Spec => []NoSilentGap
<1>1. StreamInv => NoSilentGap
  BY Zenon DEF StreamInv, Unbroken, NoSilentGap
<1> QED
  BY <1>1, Streams, PTL

-----------------------------------------------------------------------------
(* The refinement.                                                         *)

\* Before anyone is connected Feed has no subscriber.
LEMMA FeedInit == Init => F!Init
BY DEF Init, F!Init, Phase, NextMessage

\* What a step leaves of a client's row in Feed.
LEMMA RowKept ==
  ASSUME NEW x \in Conn,
         writer'[x] = writer[x], held'[x] = held[x], pos'[x] = pos[x]
  PROVE  Phase(x)' = Phase(x) /\ NextMessage(x)' = NextMessage(x)
BY Zenon DEF Phase, NextMessage

\* Every step of the gateway is a step of Feed or none.
LEMMA FeedStep ==
  ASSUME StreamInv, [Next]_vars
  PROVE  [F!Next]_(F!vars)
<1> DEFINE phase == [c \in Conn |-> Phase(c)]
           next == [c \in Conn |-> NextMessage(c)]
<1> USE DEF StreamInv, StreamType
<1>1. CASE Quiet
  <2>1. \A x \in Conn : Phase(x)' = Phase(x) /\ NextMessage(x)' = NextMessage(x)
    BY <1>1, RowKept, Zenon DEF Quiet
  <2> QED
    BY <1>1, <2>1, Zenon DEF Quiet, F!vars
<1>2. CASE Emits
  <2>1. \A x \in Conn : Phase(x)' = Phase(x) /\ NextMessage(x)' = NextMessage(x)
    BY <1>2, RowKept, Zenon DEF Emits
  <2>2. (tail - 1)' = (tail - 1) + 1
    BY <1>2 DEF Emits
  <2> QED
    BY <1>2, <2>1, <2>2, Zenon DEF Emits, F!Next, F!Publish
<1>3. ASSUME NEW c \in Conn, Starts(c) PROVE F!Join(c)
  <2>1. /\ Phase(c) = "new" /\ Phase(c)' = "live"
        /\ NextMessage(c)' = (tail - 1) + 1
    BY <1>3 DEF Starts, WriterInv, Phase, NextMessage
  <2>2. ASSUME NEW x \in Conn \ {c}
        PROVE  Phase(x)' = Phase(x) /\ NextMessage(x)' = NextMessage(x)
    BY <1>3, RowKept, Zenon DEF Starts
  <2>3. /\ phase' = [phase EXCEPT ![c] = "live"]
        /\ next' = [next EXCEPT ![c] = (tail - 1) + 1]
    BY <2>1, <2>2, Zenon
  <2> QED
    BY <1>3, <2>1, <2>3, Zenon DEF Starts, F!Join
<1>4. ASSUME NEW c \in Conn, Ends(c) PROVE [F!Cut(c)]_(F!vars)
  <2>1. PICK how \in {"lagged", "ended"} : EndWriter(c, how)
    BY <1>4, Zenon DEF Ends
  <2>2. Phase(c)' = "over" /\ NextMessage(c)' = 0
    BY <2>1, Zenon DEF EndWriter, Phase, NextMessage
  <2>3. ASSUME NEW x \in Conn \ {c}
        PROVE  Phase(x)' = Phase(x) /\ NextMessage(x)' = NextMessage(x)
    BY <2>1, RowKept, Zenon DEF EndWriter
  <2>4. CASE writer[c] = "running"
    <3>1. Phase(c) = "live"
      BY <2>4, Zenon DEF Phase
    <3>2. /\ phase' = [phase EXCEPT ![c] = "over"]
          /\ next' = [next EXCEPT ![c] = 0]
      BY <2>2, <2>3, Zenon
    <3> QED
      BY <1>4, <3>1, <3>2, Zenon DEF Ends, F!Cut
  <2>5. CASE writer[c] # "running"
    <3>1. Phase(c) = "over" /\ NextMessage(c) = 0
      BY <1>4, <2>5, Zenon DEF Ends, WriterInv, Phase, NextMessage
    <3>2. phase' = phase /\ next' = next
      BY <2>2, <2>3, <3>1, Zenon
    <3> QED
      BY <1>4, <3>2, Zenon DEF Ends, F!vars
  <2> QED
    BY <2>4, <2>5, Zenon
<1>5. ASSUME NEW c \in Conn, Takes(c) PROVE UNCHANGED F!vars
  <2>1. Phase(c)' = Phase(c) /\ NextMessage(c)' = NextMessage(c)
    BY <1>5 DEF Takes, WriterInv, Phase, NextMessage
  <2>2. ASSUME NEW x \in Conn \ {c}
        PROVE  Phase(x)' = Phase(x) /\ NextMessage(x)' = NextMessage(x)
    BY <1>5, RowKept, Zenon DEF Takes
  <2>3. phase' = phase /\ next' = next
    BY <2>1, <2>2, Zenon
  <2> QED
    BY <1>5, <2>3, Zenon DEF Takes, F!vars
<1>6. ASSUME NEW c \in Conn, Writes(c) PROVE F!Deliver(c)
  <2>1. /\ held[c] \in Nat /\ pos[c] = held[c] + 1 /\ pos[c] \in 1..tail
    BY <1>6, Zenon DEF Writes, WriterInv
  <2>2. /\ Phase(c) = "live" /\ Phase(c)' = "live"
        /\ NextMessage(c) = held[c] /\ NextMessage(c)' = held[c] + 1
        /\ held[c] <= tail - 1
    BY <1>6, <2>1 DEF Writes, Phase, NextMessage
  <2>3. ASSUME NEW x \in Conn \ {c}
        PROVE  Phase(x)' = Phase(x) /\ NextMessage(x)' = NextMessage(x)
    BY <1>6, RowKept, Zenon DEF Writes
  <2>4. phase' = phase /\ next' = [next EXCEPT ![c] = @ + 1]
    BY <2>2, <2>3, Zenon
  <2> QED
    BY <1>6, <2>2, <2>4, Zenon DEF Writes, F!Deliver
<1> QED
  BY <1>1, <1>2, <1>3, <1>4, <1>5, <1>6, Steps, Zenon DEF F!Next

\* The gateway implements Feed, for any number of clients and any capacity
\* of the ring: a client gets the messages from the one after its
\* subscription on, one after the other, until it is cut off, and then no
\* more (listener.rs, handle_connection and its writer task).
THEOREM GatewayImplementsFeed == Spec => ImplementsFeed
BY FeedInit, FeedStep, Streams, PTL DEF Spec, ImplementsFeed, F!Spec

-----------------------------------------------------------------------------
(* Types.                                                                  *)

\* A frame's chunks are chunks.
LEMMA FramedTyped ==
  ASSUME NEW n \in Nat, NEW kind \in Kind
  PROVE  /\ Framed(n, kind) \in Seq(Chunk)
         /\ Len(Framed(n, kind)) = FrameChunks(kind)
         /\ \A i \in 1..FrameChunks(kind) :
              Framed(n, kind)[i] = [n |-> n, kind |-> kind]
<1>1. [n |-> n, kind |-> kind] \in Chunk /\ FrameChunks(kind) \in {1, 2}
  BY Zenon DEF Chunk, FrameChunks
<1> QED
  BY <1>1 DEF Framed

\* What a connection decodes is a command at the head of two chunks.
LEMMA DecodedHead ==
  ASSUME NEW b \in Seq(Chunk), TryDecode(b) = "Decoded"
  PROVE  Len(b) >= 2 /\ b[1].kind = "command" /\ b[1].n \in Nat
<1>1. b # <<>> /\ Len(b) >= FrameChunks(Head(b).kind)
  <2>1. ~(b = <<>> \/ Len(b) < FrameChunks(Head(b).kind))
    BY Zenon DEF TryDecode
  <2>2. Len(b) \in Nat /\ FrameChunks(Head(b).kind) \in Nat
    BY DEF FrameChunks
  <2> QED
    BY <2>1, <2>2
<1>2. Head(b) = b[1] /\ b[1] \in Chunk
  BY <1>1
<1>3. b[1].kind = "command"
  BY <1>1, <1>2, Zenon DEF TryDecode, ParseOrSkip, ParseFrame
<1> QED
  BY <1>1, <1>2, <1>3, Zenon DEF FrameChunks, Chunk

\* Closing keeps the types.
LEMMA CloseTyped ==
  ASSUME GatewayTypeOK, NEW c \in Conn, Close(c),
         UNCHANGED <<clientVars, inbound, bridge, engineVars, delivered>>
  PROVE  GatewayTypeOK'
<1> USE DEF clientVars, engineVars
<1>1. reader' \in [Conn -> {"unconnected", "open", "closed"}]
  BY Zenon DEF GatewayTypeOK, Close
<1>2. /\ writer' \in [Conn -> {"none", "running", "lagged", "ended"}]
      /\ pos' \in [Conn -> Nat] /\ held' \in [Conn -> Nat]
  BY Zenon DEF GatewayTypeOK, Close, EndWriter
<1>3. \A x \in Conn : pos'[x] <= tail'
  BY DEF GatewayTypeOK, Close, EndWriter
<1>4. <<>> \in Seq(Chunk)
  OBVIOUS
<1>5. socket' \in [Conn -> Seq(Chunk)] /\ buf' \in [Conn -> Seq(Chunk)]
  BY <1>4, Zenon DEF GatewayTypeOK, Close
<1> QED
  BY <1>1, <1>2, <1>3, <1>5, Zenon DEF GatewayTypeOK

\* Every step keeps the types; try_send keeps the channel within its capacity.
LEMMA TypeStep ==
  ASSUME GatewayTypeOK, [Next]_vars
  PROVE  GatewayTypeOK'
<1> USE DEF clientVars, queueVars, engineVars, outVars
<1>1. ASSUME NEW c \in Conn, Accept(c) PROVE GatewayTypeOK'
  BY <1>1 DEF GatewayTypeOK, Accept
<1>2. ASSUME NEW c \in Conn, ReadSome(c) PROVE GatewayTypeOK'
  <2>1. PICK k \in 1..Len(socket[c]) :
               /\ buf' = [buf EXCEPT ![c] = @ \o SubSeq(socket[c], 1, k)]
               /\ socket' = [socket EXCEPT ![c] = SubSeq(@, k + 1, Len(@))]
    BY <1>2, Zenon DEF ReadSome
  <2>2. socket[c] \in Seq(Chunk) /\ buf[c] \in Seq(Chunk)
    BY Zenon DEF GatewayTypeOK
  <2>3. /\ SubSeq(socket[c], 1, k) \in Seq(Chunk)
        /\ SubSeq(socket[c], k + 1, Len(socket[c])) \in Seq(Chunk)
    BY <2>1, <2>2, SMTT(30)
  <2>4. buf[c] \o SubSeq(socket[c], 1, k) \in Seq(Chunk)
    BY <2>2, <2>3, ConcatProperties, Zenon
  <2>5. socket' \in [Conn -> Seq(Chunk)] /\ buf' \in [Conn -> Seq(Chunk)]
    BY <2>1, <2>3, <2>4, Zenon DEF GatewayTypeOK
  <2> QED
    BY <1>2, <2>5, Zenon DEF GatewayTypeOK, ReadSome
<1>3. ASSUME NEW c \in Conn, ReadEnds(c) \/ RefuseFrame(c) PROVE GatewayTypeOK'
  BY <1>3, CloseTyped, Zenon DEF ReadEnds, RefuseFrame
<1>4. ASSUME NEW c \in Conn, ForwardOrClose(c) PROVE GatewayTypeOK'
  <2>1. CASE HasRoom
    <3>1. /\ inbound' = Append(inbound, [conn |-> c, n |-> Head(buf[c]).n])
          /\ buf' = [buf EXCEPT ![c] = Tail(Tail(@))]
      BY <1>4, <2>1, Zenon DEF ForwardOrClose
    <3>2. buf[c] \in Seq(Chunk) /\ TryDecode(buf[c]) = "Decoded"
      BY <1>4, Zenon DEF GatewayTypeOK, ForwardOrClose
    <3>3. /\ Len(buf[c]) >= 2 /\ Head(buf[c]).n \in Nat
          /\ Tail(Tail(buf[c])) \in Seq(Chunk)
      <4>1. PICK b \in Seq(Chunk) : b = buf[c]
        BY <3>2, Zenon
      <4>2. Len(b) >= 2 /\ b[1].n \in Nat
        BY <3>2, <4>1, DecodedHead, Zenon
      <4>3. b # <<>> /\ Head(b) = b[1]
        BY <4>2
      <4>4. PICK t \in Seq(Chunk) : t = Tail(b) /\ Len(t) = Len(b) - 1
        BY <4>3, HeadTailProperties, Zenon
      <4>5. t # <<>>
        <5>1. PICK l \in Nat : l = Len(b)
          BY <4>1
        <5>2. l - 1 # 0 /\ Len(t) = l - 1
          BY <4>2, <4>4, <5>1
        <5>3. Len(t) # Len(<<>>)
          BY <5>2, Zenon
        <5> QED
          BY <5>3, Zenon
      <4>6. Tail(t) \in Seq(Chunk)
        BY <4>5, HeadTailProperties, Zenon
      <4> QED
        BY <4>1, <4>2, <4>3, <4>4, <4>6, Zenon
    <3>4. [conn |-> c, n |-> Head(buf[c]).n] \in Command
      BY <3>3, Zenon DEF Command
    <3>5. inbound' \in Seq(Command) /\ Len(inbound') <= InboundCapacity
      BY <2>1, <3>1, <3>4, InboundCapacityAssumption DEF HasRoom, GatewayTypeOK
    <3>6. buf' \in [Conn -> Seq(Chunk)]
      BY <3>1, <3>3, Zenon DEF GatewayTypeOK
    <3> QED
      BY <1>4, <2>1, <3>5, <3>6, Zenon DEF GatewayTypeOK, ForwardOrClose
  <2>2. CASE ~HasRoom
    BY <1>4, <2>2, CloseTyped, Zenon DEF ForwardOrClose
  <2> QED
    BY <2>1, <2>2, Zenon
<1>5. ASSUME NEW c \in Conn, NEW kind \in FrameKinds, ClientSends(c, kind)
      PROVE  GatewayTypeOK'
  <2>1. kind \in Kind /\ sent[c] + 1 \in Nat /\ socket[c] \in Seq(Chunk)
    BY FrameKindsAssumption DEF GatewayTypeOK
  <2>2. socket[c] \o Framed(sent[c] + 1, kind) \in Seq(Chunk)
    BY <2>1, FramedTyped, ConcatProperties, Zenon
  <2>3. socket' \in [Conn -> Seq(Chunk)] /\ sent' \in [Conn -> Nat]
    BY <1>5, <2>1, <2>2, Zenon DEF GatewayTypeOK, ClientSends
  <2> QED
    BY <1>5, <2>3, Zenon DEF GatewayTypeOK, ClientSends
<1>6. ASSUME NEW c \in Conn, ClientHangsUp(c) PROVE GatewayTypeOK'
  BY <1>6, Zenon DEF GatewayTypeOK, ClientHangsUp
<1>7. CASE Forward
  <2>1. /\ Head(inbound) \in Command /\ inbound' \in Seq(Command)
        /\ Len(inbound') <= InboundCapacity
    BY <1>7, InboundCapacityAssumption DEF GatewayTypeOK, Forward
  <2>2. bridge' \in Seq(Command)
    BY <1>7, <2>1 DEF GatewayTypeOK, Forward
  <2> QED
    BY <1>7, <2>1, <2>2, Zenon DEF GatewayTypeOK, Forward
<1>8. CASE TakeCommand
  <2>1. Head(bridge) \in Command /\ bridge' \in Seq(Command)
    BY <1>8 DEF GatewayTypeOK, TakeCommand
  <2>2. executed' \in Seq(Command) /\ emitting' \in Nat
    BY <1>8, <2>1, EmissionsAssumption DEF GatewayTypeOK, TakeCommand
  <2> QED
    BY <1>8, <2>1, <2>2, Zenon DEF GatewayTypeOK, TakeCommand
<1>9. CASE Emit
  BY <1>9, SMTT(30) DEF GatewayTypeOK, Emit
<1>10. ASSUME NEW c \in Conn, Receive(c) PROVE GatewayTypeOK'
  BY <1>10, SMTT(30) DEF GatewayTypeOK, Receive
<1>11. ASSUME NEW c \in Conn, Written(c) PROVE GatewayTypeOK'
  BY <1>11, SMTT(30) DEF GatewayTypeOK, Written
<1>12. ASSUME NEW c \in Conn, WriteFails(c) \/ Lag(c) PROVE GatewayTypeOK'
  <2>1. /\ writer' \in [Conn -> {"none", "running", "lagged", "ended"}]
        /\ pos' \in [Conn -> Nat] /\ held' \in [Conn -> Nat]
        /\ \A x \in Conn : pos'[x] <= tail
    <3>1. PICK how \in {"lagged", "ended"} : EndWriter(c, how)
      BY <1>12, Zenon DEF WriteFails, Lag
    <3>2. /\ writer' \in [Conn -> {"none", "running", "lagged", "ended"}]
          /\ pos' \in [Conn -> Nat] /\ held' \in [Conn -> Nat]
      BY <3>1, Zenon DEF GatewayTypeOK, EndWriter
    <3>3. \A x \in Conn : pos'[x] <= tail
      BY <3>1 DEF GatewayTypeOK, EndWriter
    <3> QED
      BY <3>2, <3>3, Zenon
  <2> QED
    BY <1>12, <2>1, Zenon DEF GatewayTypeOK, WriteFails, Lag
<1>13. CASE UNCHANGED vars
  BY <1>13, Zenon DEF GatewayTypeOK, vars
<1> QED
  BY <1>1, <1>2, <1>3, <1>4, <1>5, <1>6, <1>7, <1>8, <1>9, <1>10, <1>11,
     <1>12, <1>13, Zenon DEF Next, Drain, EngineThread

\* The types; with them, that the inbound channel never holds more than
\* INBOUND_CHANNEL_CAPACITY commands and no receiver is ahead of the engine.
THEOREM GatewayTypes == Spec => []GatewayTypeOK
<1>1. Init => GatewayTypeOK
  BY InboundCapacityAssumption DEF Init, GatewayTypeOK
<1> QED
  BY <1>1, TypeStep, PTL DEF Spec

-----------------------------------------------------------------------------
(* Commands: in order and once each.                                       *)

\* Chunk i of r begins a frame; it ends one.
Begins(r, i) == i = 1 \/ r[i - 1].n # r[i].n
Completes(r, i) == r[i].kind = "empty" \/ ~Begins(r, i)

\* r is made of whole frames with consecutive numbers, the last of them s.
Whole(r, s) ==
  \A i \in 1..Len(r) :
    /\ r[i].n <= s
    /\ IF Completes(r, i)
       THEN IF i = Len(r) THEN r[i].n = s ELSE r[i + 1].n = r[i].n + 1
       ELSE i < Len(r) /\ r[i + 1] = r[i]

\* Of connection c the commands 1 to k are in p, in order and once each.
Mine(p, c) == {i \in DOMAIN p : p[i].conn = c}
Begun(p, c, k) ==
  /\ {p[i].n : i \in Mine(p, c)} = 1..k
  /\ \A i, j \in Mine(p, c) : i < j => p[i].n < p[j].n

\* InOrderOnce of one connection, and where the decoder is: between frames.
ConnInv(c) ==
  /\ reader[c] = "open" => Whole(Rest(c), sent[c])
  /\ reader[c] # "open" => Rest(c) = <<>>
  /\ reader[c] = "unconnected" => sent[c] = 0
  /\ \E k \in 0..sent[c] : /\ Begun(Pipe, c, k)
                           /\ reader[c] = "open" => Due(c) = k + 1

InboundInv == GatewayTypeOK /\ \A c \in Conn : ConnInv(c)

\* A command that comes in continues its own connection's run and no other.
LEMMA BegunAppend ==
  ASSUME NEW p \in Seq(Command), NEW c \in Conn, NEW x \in Conn, NEW k \in Nat,
         Begun(p, x, k), NEW n \in Nat, x = c => n = k + 1
  PROVE  LET q == Append(p, [conn |-> c, n |-> n])
         IN Begun(q, x, IF x = c THEN k + 1 ELSE k)
<1>1. PICK m \in Command : m = [conn |-> c, n |-> n]
  <2>1. [conn |-> c, n |-> n] \in Command
    BY Zenon DEF Command
  <2> QED
    BY <2>1, Zenon
<1>2. PICK q \in Seq(Command) : q = Append(p, m)
  <2>1. Append(p, m) \in Seq(Command)
    BY <1>1
  <2> QED
    BY <2>1, Zenon
<1>3. PICK l \in Nat : l = Len(p)
  OBVIOUS
<1>4. /\ DOMAIN q = 1..(l + 1) /\ DOMAIN p = 1..l
      /\ \A i \in 1..l : q[i] = p[i]
      /\ q[l + 1] = m
  BY <1>2, <1>3
<1>5. /\ {p[i].n : i \in Mine(p, x)} = 1..k
      /\ \A i, j \in Mine(p, x) : i < j => p[i].n < p[j].n
  BY Zenon DEF Begun
<1>6. \A i \in Mine(p, x) : i \in 1..l /\ q[i] = p[i] /\ p[i].n \in 1..k
  BY <1>4, <1>5, Zenon DEF Mine
<1>7. CASE x = c
  <2>1. Mine(q, c) = Mine(p, c) \cup {l + 1}
    BY <1>1, <1>3, <1>4 DEF Mine
  <2>2. {q[i].n : i \in Mine(q, c)} = 1..(k + 1)
    <3>1. {q[i].n : i \in Mine(q, c)} = {p[i].n : i \in Mine(p, c)} \cup {k + 1}
      BY <1>1, <1>4, <1>6, <1>7, <2>1
    <3>2. 1..(k + 1) = (1..k) \cup {k + 1}
      OBVIOUS
    <3> QED
      BY <1>5, <1>7, <3>1, <3>2, Zenon
  <2>3. ASSUME NEW i \in Mine(q, c), NEW j \in Mine(q, c), i < j
        PROVE  q[i].n < q[j].n
    <3>1. CASE j = l + 1
      <4>1. i \in Mine(p, c)
        BY <1>3, <2>1, <2>3, <3>1
      <4>2. q[i].n \in 1..k
        BY <1>6, <1>7, <4>1, Zenon
      <4>3. q[j].n = k + 1
        BY <1>1, <1>4, <1>7, <3>1
      <4> QED
        BY <4>2, <4>3
    <3>2. CASE j # l + 1
      <4>1. j \in Mine(p, c) /\ j \in 1..l
        BY <1>6, <1>7, <2>1, <3>2, Zenon
      <4>2. i \in Mine(p, c)
        BY <1>3, <2>1, <2>3, <4>1
      <4> QED
        BY <1>5, <1>6, <1>7, <2>3, <4>1, <4>2, Zenon
    <3> QED
      BY <3>1, <3>2, Zenon
  <2> QED
    BY <1>1, <1>2, <1>7, <2>2, <2>3, Zenon DEF Begun
<1>8. CASE x # c
  <2>1. Mine(q, x) = Mine(p, x)
    BY <1>1, <1>3, <1>4, <1>8 DEF Mine
  <2>2. {q[i].n : i \in Mine(q, x)} = {p[i].n : i \in Mine(p, x)}
    BY <1>6, <2>1, Zenon
  <2>3. \A i, j \in Mine(q, x) : i < j => q[i].n < q[j].n
    BY <1>5, <1>6, <2>1, Zenon
  <2> QED
    BY <1>1, <1>2, <1>5, <1>8, <2>2, <2>3, Zenon DEF Begun
<1> QED
  BY <1>7, <1>8, Zenon

\* A frame taken from the front leaves whole frames, from the next one on.
LEMMA TakeFrame ==
  ASSUME NEW r \in Seq(Chunk), NEW s \in Nat, Whole(r, s),
         Len(r) >= 2, r[1].kind # "empty",
         NEW t \in Seq(Chunk), Len(t) = Len(r) - 2,
         \A i \in 1..Len(t) : t[i] = r[i + 2]
  PROVE  /\ Whole(t, s) /\ r[1].n <= s
         /\ (IF t = <<>> THEN s + 1 ELSE t[1].n) = r[1].n + 1
<1>1. Len(r) \in Nat /\ Len(t) \in Nat /\ \A i \in 1..Len(r) : r[i] \in Chunk
  OBVIOUS
<1>2. 1 \in 1..Len(r) /\ 2 \in 1..Len(r)
  BY <1>1
<1>3. r[2] = r[1] /\ r[1].n <= s /\ r[1].n \in Nat
  BY <1>1, <1>2 DEF Whole, Completes, Begins, Chunk
<1>4. ~Begins(r, 2)
  BY <1>3 DEF Begins
<1>5. IF Len(r) = 2 THEN r[1].n = s ELSE r[3].n = r[1].n + 1
  <2>1. Completes(r, 2)
    BY <1>4, Zenon DEF Completes
  <2>2. IF 2 = Len(r) THEN r[2].n = s ELSE r[2 + 1].n = r[2].n + 1
    BY <1>2, <2>1, Zenon DEF Whole
  <2> QED
    BY <1>3, <2>2
<1>6. ASSUME NEW i \in 1..Len(t)
      PROVE  /\ i + 2 \in 1..Len(r) /\ t[i] = r[i + 2]
             /\ i + 2 = Len(r) <=> i = Len(t)
             /\ i + 2 < Len(r) <=> i < Len(t)
             /\ i < Len(t) => t[i + 1] = r[(i + 2) + 1]
             /\ i # 1 => t[i - 1] = r[(i + 2) - 1]
  <2>1. i + 2 \in 1..Len(r) /\ (i + 2 = Len(r) <=> i = Len(t))
        /\ (i + 2 < Len(r) <=> i < Len(t))
    BY <1>1
  <2>2. i < Len(t) => t[i + 1] = r[(i + 2) + 1]
    <3>1. i < Len(t) => i + 1 \in 1..Len(t) /\ (i + 1) + 2 = (i + 2) + 1
      BY <1>1
    <3> QED
      BY <3>1, Zenon
  <2>3. i # 1 => t[i - 1] = r[(i + 2) - 1]
    <3>1. i # 1 => i - 1 \in 1..Len(t) /\ (i - 1) + 2 = (i + 2) - 1
      BY <1>1
    <3> QED
      BY <3>1, Zenon
  <2> QED
    BY <2>1, <2>2, <2>3, Zenon
<1>7. ASSUME NEW i \in 1..Len(t) PROVE Completes(t, i) <=> Completes(r, i + 2)
  <2>1. Begins(t, i) <=> Begins(r, i + 2)
    <3>1. CASE i = 1
      <4>1. Len(r) # 2
        BY <1>1, <3>1
      <4>2. r[3].n = r[1].n + 1
        BY <1>5, <4>1, Zenon
      <4>3. r[3].n # r[2].n
        BY <1>3, <4>2
      <4> QED
        BY <3>1, <4>3 DEF Begins
    <3>2. CASE i # 1
      <4>1. i + 2 # 1
        BY <1>1
      <4> QED
        BY <1>6, <3>2, <4>1, Zenon DEF Begins
    <3> QED
      BY <3>1, <3>2, Zenon
  <2> QED
    BY <1>6, <2>1, Zenon DEF Completes
<1>8. Whole(t, s)
  <2> SUFFICES ASSUME NEW i \in 1..Len(t)
               PROVE  /\ t[i].n <= s
                      /\ IF Completes(t, i)
                         THEN IF i = Len(t) THEN t[i].n = s
                              ELSE t[i + 1].n = t[i].n + 1
                         ELSE i < Len(t) /\ t[i + 1] = t[i]
    BY Zenon DEF Whole
  <2>1. /\ r[i + 2].n <= s
        /\ IF Completes(r, i + 2)
           THEN IF i + 2 = Len(r) THEN r[i + 2].n = s
                ELSE r[(i + 2) + 1].n = r[i + 2].n + 1
           ELSE i + 2 < Len(r) /\ r[(i + 2) + 1] = r[i + 2]
    BY <1>6, Zenon DEF Whole
  <2>2. i = Len(t) \/ i < Len(t)
    BY <1>1
  <2> QED
    BY <1>6, <1>7, <2>1, <2>2, Zenon
<1>9. (IF t = <<>> THEN s + 1 ELSE t[1].n) = r[1].n + 1
  <2>1. CASE t = <<>>
    <3>1. Len(t) = 0
      BY <2>1, Zenon
    <3>2. Len(r) = 2
      BY <1>1, <3>1
    <3> QED
      BY <1>5, <2>1, <3>2, Zenon
  <2>2. CASE t # <<>>
    <3>1. 1 \in 1..Len(t)
      BY <2>2
    <3>2. t[1] = r[1 + 2] /\ Len(r) # 2
      BY <1>1, <3>1, SMTT(30)
    <3> QED
      BY <1>5, <2>2, <3>2
  <2> QED
    BY <2>1, <2>2, Zenon
<1> QED
  BY <1>3, <1>8, <1>9, Zenon

\* A frame sent is the next one.
LEMMA SendFrame ==
  ASSUME NEW r \in Seq(Chunk), NEW s \in Nat, Whole(r, s), NEW kind \in Kind,
         NEW t \in Seq(Chunk), Len(t) = Len(r) + FrameChunks(kind),
         \A i \in 1..Len(r) : t[i] = r[i],
         \A i \in 1..FrameChunks(kind) :
           t[Len(r) + i] = [n |-> s + 1, kind |-> kind]
  PROVE  /\ Whole(t, s + 1)
         /\ t # <<>> /\ t[1].n = IF r = <<>> THEN s + 1 ELSE r[1].n
<1>1. PICK l \in Nat : l = Len(r)
  OBVIOUS
<1>2. \A i \in 1..l : t[i] = r[i] /\ r[i].n \in Nat /\ r[i].n <= s
  <2>1. \A i \in 1..l : r[i] \in Chunk
    BY <1>1
  <2>2. \A i \in 1..l : r[i].n \in Nat
    BY <2>1, Zenon DEF Chunk
  <2>3. \A i \in 1..l : r[i].n <= s
    BY <1>1, Zenon DEF Whole
  <2> QED
    BY <1>1, <2>2, <2>3, Zenon
<1>3. /\ t[l + 1].n = s + 1 /\ t[l + 1].kind = kind
      /\ kind = "empty" => Len(t) = l + 1
      /\ kind # "empty" => Len(t) = l + 2 /\ t[l + 2] = t[l + 1]
  BY <1>1 DEF FrameChunks
<1>4. ASSUME NEW i \in 1..l
      PROVE  /\ t[i].n <= s + 1 /\ i < Len(t)
             /\ IF Completes(t, i) THEN t[i + 1].n = t[i].n + 1
                ELSE t[i + 1] = t[i]
  <2>1. t[i].n <= s + 1 /\ i < Len(t) /\ i # Len(t)
    BY <1>2, <1>3
  <2>2. Completes(t, i) <=> Completes(r, i)
    <3>1. i # 1 => i - 1 \in 1..l
      OBVIOUS
    <3> QED
      BY <1>2, <3>1, Zenon DEF Completes, Begins
  <2>3. IF Completes(r, i)
        THEN IF i = l THEN r[i].n = s ELSE r[i + 1].n = r[i].n + 1
        ELSE i < l /\ r[i + 1] = r[i]
    BY <1>1, Zenon DEF Whole
  <2>4. CASE i = l
    BY <1>2, <1>3, <2>1, <2>2, <2>3, <2>4, SMTT(30)
  <2>5. CASE i # l
    <3>1. i + 1 \in 1..l
      BY <2>5
    <3> QED
      BY <1>2, <2>1, <2>2, <2>3, <2>5, <3>1, Zenon
  <2> QED
    BY <2>4, <2>5, Zenon
<1>5. Begins(t, l + 1)
  <2>1. CASE l = 0
    BY <2>1 DEF Begins
  <2>2. CASE l # 0
    <3>1. l \in 1..l /\ (l + 1) - 1 = l
      BY <2>2
    <3>2. t[l].n # s + 1
      BY <1>2, <3>1, SMTT(30)
    <3> QED
      BY <1>3, <3>1, <3>2, Zenon DEF Begins
  <2> QED
    BY <2>1, <2>2, Zenon
<1>6. Whole(t, s + 1)
  <2> SUFFICES ASSUME NEW i \in 1..Len(t)
               PROVE  /\ t[i].n <= s + 1
                      /\ IF Completes(t, i)
                         THEN IF i = Len(t) THEN t[i].n = s + 1
                              ELSE t[i + 1].n = t[i].n + 1
                         ELSE i < Len(t) /\ t[i + 1] = t[i]
    BY Zenon DEF Whole
  <2>1. CASE i \in 1..l
    <3>1. i # Len(t)
      BY <1>4, <2>1
    <3> QED
      BY <1>4, <2>1, <3>1, Zenon
  <2>2. CASE i = l + 1
    <3>1. Completes(t, i) <=> kind = "empty"
      BY <1>3, <1>5, <2>2, Zenon DEF Completes
    <3> QED
      BY <1>3, <2>2, <3>1
  <2>3. CASE i \notin 1..l /\ i # l + 1
    <3>1. kind # "empty" /\ i = l + 2 /\ i = Len(t)
      BY <1>3, <2>3
    <3>2. i # 1 /\ i - 1 = l + 1
      BY <3>1
    <3>3. t[i - 1].n = t[i].n /\ t[i].n = s + 1
      BY <1>3, <3>1, <3>2, Zenon
    <3>4. Completes(t, i)
      BY <3>2, <3>3, Zenon DEF Completes, Begins
    <3> QED
      BY <3>1, <3>3, <3>4
  <2> QED
    BY <2>1, <2>2, <2>3, Zenon
<1>7. t # <<>>
  <2>1. Len(t) # 0
    BY <1>3
  <2> QED
    BY <2>1
<1>8. t[1].n = IF r = <<>> THEN s + 1 ELSE r[1].n
  <2>1. CASE r = <<>>
    <3>1. l = 0
      BY <1>1, <2>1, Zenon
    <3> QED
      BY <1>3, <2>1, <3>1
  <2>2. CASE r # <<>>
    <3>1. 1 \in 1..l
      BY <1>1, <2>2
    <3> QED
      BY <1>2, <2>2, <3>1, Zenon
  <2> QED
    BY <2>1, <2>2, Zenon
<1> QED
  BY <1>6, <1>7, <1>8, Zenon

\* What is taken off the buffer is taken off the front of the rest.
LEMMA TakenOff ==
  ASSUME NEW b \in Seq(Chunk), NEW s \in Seq(Chunk), Len(b) >= 2
  PROVE  LET r == b \o s
             t == Tail(Tail(b)) \o s
         IN /\ r \in Seq(Chunk) /\ Len(r) >= 2 /\ r[1] = b[1]
            /\ t \in Seq(Chunk) /\ Len(t) = Len(r) - 2
            /\ \A i \in 1..Len(t) : t[i] = r[i + 2]
<1>1. PICK l, m : l = Len(b) /\ m = Len(s) /\ l \in Nat /\ m \in Nat
  OBVIOUS
<1>2. b # <<>> /\ l >= 2
  BY <1>1
<1>3. PICK u \in Seq(Chunk) : /\ u = Tail(b) /\ Len(u) = l - 1
                              /\ \A i \in 1..(l - 1) : u[i] = b[i + 1]
  <2>1. /\ Tail(b) \in Seq(Chunk) /\ Len(Tail(b)) = Len(b) - 1
        /\ \A i \in 1..Len(Tail(b)) : Tail(b)[i] = b[i + 1]
    BY <1>2, HeadTailProperties, Zenon
  <2> QED
    BY <1>1, <2>1, Zenon
<1>4. u # <<>>
  <2>1. Len(u) # Len(<<>>)
    BY <1>1, <1>2, <1>3
  <2> QED
    BY <2>1, Zenon
<1>5. PICK v \in Seq(Chunk) : /\ v = Tail(u) /\ Len(v) = l - 2
                              /\ \A i \in 1..(l - 2) : v[i] = b[i + 2]
  <2>1. /\ Tail(u) \in Seq(Chunk) /\ Len(Tail(u)) = Len(u) - 1
        /\ \A i \in 1..Len(Tail(u)) : Tail(u)[i] = u[i + 1]
    BY <1>4, HeadTailProperties, Zenon
  <2>2. Len(Tail(u)) = l - 2
    BY <1>1, <1>3, <2>1
  <2>3. ASSUME NEW i \in 1..(l - 2) PROVE Tail(u)[i] = b[i + 2]
    <3>1. i + 1 \in 1..(l - 1) /\ (i + 1) + 1 = i + 2
      BY <1>1
    <3> QED
      BY <1>3, <2>1, <2>2, <3>1, Zenon
  <2> QED
    BY <2>1, <2>2, <2>3, Zenon
<1>6. PICK r, t : r = b \o s /\ t = v \o s
  BY Zenon
<1>7. /\ r \in Seq(Chunk) /\ Len(r) = l + m
      /\ \A i \in 1..(l + m) : r[i] = IF i <= l THEN b[i] ELSE s[i - l]
  BY <1>1, <1>6, ConcatProperties
<1>8. /\ t \in Seq(Chunk) /\ Len(t) = (l - 2) + m
      /\ \A i \in 1..((l - 2) + m) :
           t[i] = IF i <= l - 2 THEN v[i] ELSE s[i - (l - 2)]
  <2>1. /\ v \o s \in Seq(Chunk) /\ Len(v \o s) = Len(v) + Len(s)
        /\ \A i \in 1..(Len(v) + Len(s)) :
             (v \o s)[i] = IF i <= Len(v) THEN v[i] ELSE s[i - Len(v)]
    BY <1>5, ConcatProperties
  <2> QED
    BY <1>1, <1>5, <1>6, <2>1, Zenon
<1>9. ASSUME NEW i \in 1..((l - 2) + m) PROVE t[i] = r[i + 2]
  <2>1. i + 2 \in 1..(l + m) /\ (i + 2) - l = i - (l - 2) /\ i \in Nat
        /\ (i + 2 <= l <=> i <= l - 2)
    BY <1>1
  <2>2. CASE i <= l - 2
    <3>1. i \in 1..(l - 2)
      BY <1>1, <2>2
    <3> QED
      BY <1>5, <1>7, <1>8, <2>1, <2>2, <3>1, Zenon
  <2>3. CASE ~(i <= l - 2)
    BY <1>7, <1>8, <2>1, <2>3, Zenon
  <2> QED
    BY <2>2, <2>3, Zenon
<1>10. Len(r) >= 2 /\ r[1] = b[1] /\ Len(t) = Len(r) - 2
  <2>1. 1 \in 1..(l + m) /\ 1 <= l
    BY <1>1, <1>2
  <2> QED
    BY <1>1, <1>2, <1>7, <1>8, <2>1
<1> QED
  BY <1>3, <1>5, <1>6, <1>7, <1>8, <1>9, <1>10, Zenon

\* Putting end to end may be done from either end.
LEMMA Associated ==
  \A p, q, u \in Seq(Chunk) : (p \o q) \o u = p \o (q \o u)
BY ConcatAssociative, SMTT(30)

\* A read moves chunks from the socket to the buffer; the rest is the same.
LEMMA ReadKeepsRest ==
  ASSUME NEW b \in Seq(Chunk), NEW s \in Seq(Chunk), NEW n \in 1..Len(s)
  PROVE  (b \o SubSeq(s, 1, n)) \o SubSeq(s, n + 1, Len(s)) = b \o s
<1>1. PICK x, y : x = SubSeq(s, 1, n) /\ y = SubSeq(s, n + 1, Len(s))
  BY Zenon
<1>2. PICK l \in Nat : l = Len(s)
  OBVIOUS
<1>3. n \in Nat /\ n <= l
  BY <1>2
<1>4. /\ x \in Seq(Chunk) /\ Len(x) = n
      /\ \A i \in 1..n : x[i] = s[i]
  BY <1>1, <1>2, <1>3
<1>5. /\ y \in Seq(Chunk) /\ Len(y) = l - n
      /\ \A i \in 1..(l - n) : y[i] = s[n + i]
  BY <1>1, <1>2, <1>3
<1>6. x \o y = s
  <2>1. /\ x \o y \in Seq(Chunk) /\ Len(x \o y) = Len(x) + Len(y)
        /\ \A i \in 1..(Len(x) + Len(y)) :
             (x \o y)[i] = IF i <= Len(x) THEN x[i] ELSE y[i - Len(x)]
    BY <1>4, <1>5, ConcatProperties, Zenon
  <2>2. Len(x) + Len(y) = l
    BY <1>2, <1>3, <1>4, <1>5
  <2>3. ASSUME NEW i \in 1..l PROVE (x \o y)[i] = s[i]
    <3>1. CASE i <= n
      BY <1>3, <1>4, <2>1, <2>2, <3>1
    <3>2. CASE ~(i <= n)
      <4>1. i - n \in 1..(l - n) /\ n + (i - n) = i
        BY <1>2, <1>3, <3>2
      <4> QED
        BY <1>4, <1>5, <2>1, <2>2, <3>2, <4>1, Zenon
    <3> QED
      BY <3>1, <3>2, Zenon
  <2> QED
    BY <1>2, <2>1, <2>2, <2>3, SeqEqual, Zenon
<1>7. (b \o x) \o y = b \o (x \o y)
  BY <1>4, <1>5, Associated, Zenon
<1> QED
  BY <1>1, <1>6, <1>7, Zenon

\* The chunks t are those of r and behind them those of f.
Extended(r, f, t) ==
  /\ r \in Seq(Chunk) /\ t \in Seq(Chunk) /\ Len(t) = Len(r) + Len(f)
  /\ \A i \in 1..Len(r) : t[i] = r[i]
  /\ \A i \in 1..Len(f) : t[Len(r) + i] = f[i]

\* A frame sent comes behind the rest.
LEMMA SentBehind ==
  ASSUME NEW b \in Seq(Chunk), NEW s \in Seq(Chunk), NEW f \in Seq(Chunk),
         NEW r, r = b \o s, NEW t, t = b \o (s \o f)
  PROVE  Extended(r, f, t)
<1>1. t = r \o f
  BY Associated, Zenon
<1>2. r \in Seq(Chunk)
  BY <1>1, ConcatProperties, Zenon
<1>3. PICK l, m : l = Len(r) /\ m = Len(f) /\ l \in Nat /\ m \in Nat
  <2>1. Len(r) \in Nat /\ Len(f) \in Nat
    BY <1>2
  <2> QED
    BY <2>1, Zenon
<1>4. /\ t \in Seq(Chunk) /\ Len(t) = l + m
      /\ \A i \in 1..(l + m) : t[i] = IF i <= l THEN r[i] ELSE f[i - l]
  BY <1>1, <1>2, <1>3, ConcatProperties
<1>5. ASSUME NEW i \in 1..l PROVE t[i] = r[i]
  <2>1. i \in 1..(l + m) /\ i <= l
    BY <1>3
  <2> QED
    BY <1>4, <2>1, Zenon
<1>6. ASSUME NEW i \in 1..m PROVE t[l + i] = f[i]
  <2>1. l + i \in 1..(l + m) /\ ~(l + i <= l) /\ (l + i) - l = i
    BY <1>3
  <2> QED
    BY <1>4, <2>1, Zenon
<1> QED
  BY <1>2, <1>3, <1>4, <1>5, <1>6, Zenon DEF Extended

\* The head of one sequence may as well be the end of the one before it.
LEMMA Shifted ==
  ASSUME NEW a \in Seq(Command), NEW t \in Seq(Command), t # <<>>
  PROVE  Append(a, Head(t)) \o Tail(t) = a \o t
<1>1. PICK l, m : l = Len(a) /\ m = Len(t) /\ l \in Nat /\ m \in Nat
  <2>1. Len(a) \in Nat /\ Len(t) \in Nat
    OBVIOUS
  <2> QED
    BY <2>1, Zenon
<1>2. m # 0 /\ Head(t) = t[1] /\ Head(t) \in Command
  BY <1>1
<1>3. PICK u \in Seq(Command) : /\ u = Append(a, Head(t)) /\ Len(u) = l + 1
                                /\ \A i \in 1..l : u[i] = a[i]
                                /\ u[l + 1] = t[1]
  <2>1. /\ Append(a, Head(t)) \in Seq(Command) /\ Len(Append(a, Head(t))) = l + 1
        /\ \A i \in 1..l : Append(a, Head(t))[i] = a[i]
        /\ Append(a, Head(t))[l + 1] = t[1]
    BY <1>1, <1>2
  <2> QED
    BY <2>1, Zenon
<1>4. PICK v \in Seq(Command) : /\ v = Tail(t) /\ Len(v) = m - 1
                                /\ \A i \in 1..(m - 1) : v[i] = t[i + 1]
  <2>1. /\ Tail(t) \in Seq(Command) /\ Len(Tail(t)) = Len(t) - 1
        /\ \A i \in 1..Len(Tail(t)) : Tail(t)[i] = t[i + 1]
    BY HeadTailProperties, Zenon
  <2> QED
    BY <1>1, <2>1, Zenon
<1>5. PICK p, q : p = u \o v /\ q = a \o t
  BY Zenon
<1>6. /\ p \in Seq(Command) /\ Len(p) = l + m
      /\ \A i \in 1..(l + m) : p[i] = IF i <= l + 1 THEN u[i] ELSE v[i - (l + 1)]
  <2>1. /\ u \o v \in Seq(Command) /\ Len(u \o v) = Len(u) + Len(v)
        /\ \A i \in 1..(Len(u) + Len(v)) :
             (u \o v)[i] = IF i <= Len(u) THEN u[i] ELSE v[i - Len(u)]
    BY <1>3, <1>4, ConcatProperties
  <2>2. Len(u) + Len(v) = l + m
    BY <1>1, <1>3, <1>4
  <2> QED
    BY <1>3, <1>5, <2>1, <2>2, Zenon
<1>7. /\ q \in Seq(Command) /\ Len(q) = l + m
      /\ \A i \in 1..(l + m) : q[i] = IF i <= l THEN a[i] ELSE t[i - l]
  BY <1>1, <1>5, ConcatProperties, Zenon
<1>8. ASSUME NEW i \in 1..(l + m) PROVE p[i] = q[i]
  <2>1. CASE i <= l
    <3>1. i \in 1..l /\ i <= l + 1
      BY <1>1, <2>1
    <3> QED
      BY <1>3, <1>6, <1>7, <2>1, <3>1, Zenon
  <2>2. CASE i = l + 1
    <3>1. i <= l + 1 /\ ~(i <= l) /\ i - l = 1
      BY <1>1, <2>2
    <3> QED
      BY <1>3, <1>6, <1>7, <2>2, <3>1, Zenon
  <2>3. CASE i > l + 1
    <3>1. /\ ~(i <= l + 1) /\ ~(i <= l)
          /\ i - (l + 1) \in 1..(m - 1) /\ (i - (l + 1)) + 1 = i - l
      BY <1>1, <2>3
    <3> QED
      BY <1>4, <1>6, <1>7, <3>1, Zenon
  <2>4. i <= l \/ i = l + 1 \/ i > l + 1
    BY <1>1, SMTT(30)
  <2> QED
    BY <2>1, <2>2, <2>3, <2>4, Zenon
<1>9. p = q
  BY <1>6, <1>7, <1>8, SeqEqual, Zenon
<1> QED
  BY <1>3, <1>4, <1>5, <1>9, Zenon

\* Appending to the second of two sequences appends to both together.
LEMMA AppendedBehind ==
  ASSUME NEW a \in Seq(Command), NEW t \in Seq(Command), NEW x \in Command
  PROVE  a \o Append(t, x) = Append(a \o t, x)
<1>1. a \o t \in Seq(Command) /\ Append(t, x) \in Seq(Command)
  BY ConcatProperties
<1>2. /\ a \o Append(t, x) \in Seq(Command) /\ Append(a \o t, x) \in Seq(Command)
      /\ Len(a \o Append(t, x)) = Len(a) + Len(t) + 1
      /\ Len(Append(a \o t, x)) = Len(a) + Len(t) + 1
  BY <1>1, ConcatProperties
<1>3. ASSUME NEW i \in 1..(Len(a) + Len(t) + 1)
      PROVE  (a \o Append(t, x))[i] = Append(a \o t, x)[i]
  OBVIOUS
<1> QED
  BY <1>2, <1>3, SeqEqual, Zenon

\* Handing a command on changes nothing of their order; a new one is last.
LEMMA PipeMoves ==
  ASSUME NEW e \in Seq(Command), NEW b \in Seq(Command), NEW i \in Seq(Command)
  PROVE  /\ e \o b \o i \in Seq(Command)
         /\ b # <<>> => Append(e, Head(b)) \o Tail(b) \o i = e \o b \o i
         /\ i # <<>> => e \o Append(b, Head(i)) \o Tail(i) = e \o b \o i
         /\ \A m \in Command : e \o b \o Append(i, m) = Append(e \o b \o i, m)
<1>1. PICK a \in Seq(Command) : a = e \o b
  <2>1. e \o b \in Seq(Command)
    BY ConcatProperties, Zenon
  <2> QED
    BY <2>1, Zenon
<1>2. a \o i \in Seq(Command)
  BY ConcatProperties, Zenon
<1>3. b # <<>> => Append(e, Head(b)) \o Tail(b) = a
  BY <1>1, Shifted, Zenon
<1>4. ASSUME i # <<>> PROVE e \o Append(b, Head(i)) \o Tail(i) = a \o i
  <2>1. Head(i) \in Command
    BY <1>4, HeadTailProperties, Zenon
  <2>2. e \o Append(b, Head(i)) = Append(a, Head(i))
    BY <1>1, <2>1, AppendedBehind, Zenon
  <2>3. Append(a, Head(i)) \o Tail(i) = a \o i
    BY <1>4, Shifted, Zenon
  <2> QED
    BY <2>2, <2>3, Zenon
<1>5. \A m \in Command : a \o Append(i, m) = Append(a \o i, m)
  BY AppendedBehind, Zenon
<1> QED
  BY <1>1, <1>2, <1>3, <1>4, <1>5, Zenon

\* A connection that a step leaves alone.
LEMMA ConnKept ==
  ASSUME NEW x \in Conn, ConnInv(x), reader'[x] = reader[x], sent'[x] = sent[x],
         Rest(x)' = Rest(x), Pipe' = Pipe
  PROVE  ConnInv(x)'
<1>1. Due(x)' = Due(x)
  BY Zenon DEF Due
<1> QED
  BY <1>1, Zenon DEF ConnInv

\* Closing a connection takes nothing back of what has passed from it.
LEMMA ConnClosed ==
  ASSUME InboundInv, GatewayTypeOK', NEW c \in Conn, Close(c),
         UNCHANGED <<sent, inbound, bridge, executed>>
  PROVE  InboundInv'
<1>1. Pipe' = Pipe
  BY Zenon DEF Pipe
<1>2. /\ reader'[c] = "closed" /\ buf'[c] = <<>> /\ socket'[c] = <<>>
      /\ \A x \in Conn \ {c} : /\ reader'[x] = reader[x] /\ buf'[x] = buf[x]
                               /\ socket'[x] = socket[x]
  BY DEF Close, InboundInv, GatewayTypeOK
<1>3. Rest(c)' = <<>>
  BY <1>2, ConcatEmptySeq DEF Rest
<1>4. ConnInv(c)'
  BY <1>1, <1>2, <1>3, Zenon DEF InboundInv, ConnInv
<1>5. ASSUME NEW x \in Conn \ {c} PROVE ConnInv(x)'
  BY <1>1, <1>2, ConnKept, Zenon DEF InboundInv, Rest
<1> QED
  BY <1>4, <1>5, Zenon DEF InboundInv

\* A command that passes is the one that was due.
LEMMA CommandPasses ==
  ASSUME InboundInv, GatewayTypeOK', NEW c \in Conn, ForwardOrClose(c), HasRoom
  PROVE  InboundInv'
<1>1. /\ inbound' = Append(inbound, [conn |-> c, n |-> Head(buf[c]).n])
      /\ buf' = [buf EXCEPT ![c] = Tail(Tail(@))]
      /\ reader[c] = "open" /\ TryDecode(buf[c]) = "Decoded"
      /\ UNCHANGED <<reader, socket, sent, bridge, executed>>
  BY Zenon DEF ForwardOrClose, clientVars, engineVars
<1>2. PICK b, s, r, t : /\ b = buf[c] /\ s = socket[c]
                        /\ r = b \o s /\ t = Tail(Tail(b)) \o s
  BY Zenon
<1>3. /\ b \in Seq(Chunk) /\ s \in Seq(Chunk) /\ sent[c] \in Nat
      /\ Len(b) >= 2 /\ b[1].kind = "command" /\ b[1].n \in Nat
      /\ Head(b) = b[1]
  <2>1. b \in Seq(Chunk) /\ s \in Seq(Chunk) /\ sent[c] \in Nat
    BY <1>2, Zenon DEF InboundInv, GatewayTypeOK
  <2>2. Len(b) >= 2 /\ b[1].kind = "command" /\ b[1].n \in Nat
    BY <1>1, <1>2, <2>1, DecodedHead, Zenon
  <2> QED
    BY <2>1, <2>2, SMTT(30)
<1>4. /\ r \in Seq(Chunk) /\ Len(r) >= 2 /\ r[1] = b[1]
      /\ t \in Seq(Chunk) /\ Len(t) = Len(r) - 2
      /\ \A i \in 1..Len(t) : t[i] = r[i + 2]
  <2>1. /\ b \o s \in Seq(Chunk) /\ Len(b \o s) >= 2 /\ (b \o s)[1] = b[1]
        /\ Tail(Tail(b)) \o s \in Seq(Chunk)
        /\ Len(Tail(Tail(b)) \o s) = Len(b \o s) - 2
        /\ \A i \in 1..Len(Tail(Tail(b)) \o s) :
             (Tail(Tail(b)) \o s)[i] = (b \o s)[i + 2]
    BY <1>3, TakenOff, Zenon
  <2> QED
    BY <1>2, <2>1, Zenon
<1>5. r = Rest(c) /\ t = Rest(c)'
  BY <1>1, <1>2, Zenon DEF Rest, InboundInv, GatewayTypeOK
<1>6. Whole(r, sent[c])
  BY <1>1, <1>5, Zenon DEF InboundInv, ConnInv
<1>7. /\ Whole(t, sent[c]) /\ r[1].n <= sent[c]
      /\ (IF t = <<>> THEN sent[c] + 1 ELSE t[1].n) = r[1].n + 1
  BY <1>3, <1>4, <1>6, TakeFrame, Zenon
<1>8. PICK k \in 0..sent[c] : Begun(Pipe, c, k) /\ Due(c) = k + 1
  BY <1>1, Zenon DEF InboundInv, ConnInv
<1>9. b[1].n = k + 1 /\ k + 1 \in 0..sent[c]
  <2>1. r # <<>>
    BY <1>4
  <2>2. Due(c) = r[1].n
    BY <1>5, <2>1, Zenon DEF Due
  <2> QED
    BY <1>3, <1>4, <1>7, <1>8, <2>2
<1>10. /\ Pipe \in Seq(Command)
       /\ Pipe' = Append(Pipe, [conn |-> c, n |-> b[1].n])
  <2>1. /\ executed \in Seq(Command) /\ bridge \in Seq(Command)
        /\ inbound \in Seq(Command)
    BY Zenon DEF InboundInv, GatewayTypeOK
  <2>2. [conn |-> c, n |-> b[1].n] \in Command
    BY <1>3, Zenon DEF Command
  <2>3. inbound' = Append(inbound, [conn |-> c, n |-> b[1].n])
    BY <1>1, <1>2, <1>3, Zenon
  <2>4. PICK x \in Seq(Command), i \in Seq(Command), m \in Command :
          /\ x = executed \o bridge /\ i = inbound
          /\ m = [conn |-> c, n |-> b[1].n]
    <3>1. executed \o bridge \in Seq(Command)
      BY <2>1, ConcatProperties, Zenon
    <3> QED
      BY <2>1, <2>2, <3>1, Zenon
  <2>5. x \o i \in Seq(Command)
    BY ConcatProperties, Zenon
  <2>6. x \o Append(i, m) = Append(x \o i, m)
    BY AppendedBehind, Zenon
  <2>7. Pipe = x \o i /\ Pipe' = x \o Append(i, m)
    BY <1>1, <2>3, <2>4, Zenon DEF Pipe
  <2> QED
    BY <2>4, <2>5, <2>6, <2>7, Zenon
<1>11. ConnInv(c)'
  <2>1. Begun(Pipe', c, k + 1)
    BY <1>3, <1>8, <1>9, <1>10, BegunAppend, SMTT(30)
  <2>2. Due(c)' = (k + 1) + 1
    BY <1>1, <1>4, <1>5, <1>7, <1>9, Zenon DEF Due
  <2> QED
    BY <1>1, <1>5, <1>7, <1>9, <2>1, <2>2, Zenon DEF ConnInv
<1>12. ASSUME NEW x \in Conn \ {c} PROVE ConnInv(x)'
  <2>1. Rest(x)' = Rest(x) /\ Due(x)' = Due(x)
    BY <1>1, Zenon DEF Rest, Due, InboundInv, GatewayTypeOK
  <2>2. PICK m \in 0..sent[x] : /\ Begun(Pipe, x, m)
                                /\ reader[x] = "open" => Due(x) = m + 1
    BY Zenon DEF InboundInv, ConnInv
  <2>3. sent[x] \in Nat /\ m \in Nat
    BY <2>2, SMTT(30) DEF InboundInv, GatewayTypeOK
  <2>4. Begun(Pipe', x, m)
    BY <1>3, <1>10, <2>2, <2>3, BegunAppend, Zenon
  <2> QED
    BY <1>1, <2>1, <2>2, <2>4, Zenon DEF InboundInv, ConnInv
<1> QED
  BY <1>11, <1>12, Zenon DEF InboundInv

\* A frame the client sends is the next one of its connection.
LEMMA FrameSent ==
  ASSUME InboundInv, GatewayTypeOK', NEW c \in Conn, NEW kind \in FrameKinds,
         ClientSends(c, kind)
  PROVE  InboundInv'
<1>1. /\ reader[c] = "open" /\ sent' = [sent EXCEPT ![c] = @ + 1]
      /\ socket' = [socket EXCEPT ![c] = @ \o Framed(sent[c] + 1, kind)]
      /\ UNCHANGED <<reader, buf, inbound, bridge, executed>>
  BY Zenon DEF ClientSends, queueVars, engineVars
<1>2. PICK b, s, f, r, t, n : /\ b = buf[c] /\ s = socket[c] /\ n = sent[c]
                              /\ f = Framed(n + 1, kind)
                              /\ r = b \o s /\ t = b \o (s \o f)
  BY Zenon
<1>3. b \in Seq(Chunk) /\ s \in Seq(Chunk) /\ n \in Nat /\ kind \in Kind
  BY <1>2, FrameKindsAssumption, Zenon DEF InboundInv, GatewayTypeOK
<1>4. /\ f \in Seq(Chunk) /\ Len(f) = FrameChunks(kind)
      /\ \A i \in 1..FrameChunks(kind) : f[i] = [n |-> n + 1, kind |-> kind]
  <2>1. n + 1 \in Nat
    BY <1>3
  <2> QED
    BY <1>2, <1>3, <2>1, FramedTyped, Zenon
<1>5. /\ r \in Seq(Chunk) /\ t \in Seq(Chunk) /\ Len(t) = Len(r) + Len(f)
      /\ \A i \in 1..Len(r) : t[i] = r[i]
      /\ \A i \in 1..Len(f) : t[Len(r) + i] = f[i]
  <2>1. /\ b \in Seq(Chunk) /\ s \in Seq(Chunk) /\ f \in Seq(Chunk)
        /\ r = b \o s /\ t = b \o (s \o f)
    BY <1>2, <1>3, <1>4, Zenon
  <2> QED
    <3>1. Extended(r, f, t)
      BY <2>1, SentBehind, Zenon
    <3> QED
      BY <3>1, Zenon DEF Extended
<1>6. r = Rest(c) /\ t = Rest(c)' /\ sent'[c] = n + 1
  BY <1>1, <1>2, Zenon DEF Rest, InboundInv, GatewayTypeOK
<1>7. Whole(r, n)
  BY <1>1, <1>2, <1>6, Zenon DEF InboundInv, ConnInv
<1>8. Whole(t, n + 1) /\ t # <<>> /\ t[1].n = IF r = <<>> THEN n + 1 ELSE r[1].n
  <2>1. Len(t) = Len(r) + FrameChunks(kind)
    BY <1>4, <1>5, Zenon
  <2>2. \A i \in 1..FrameChunks(kind) :
          t[Len(r) + i] = [n |-> n + 1, kind |-> kind]
    BY <1>4, <1>5, Zenon
  <2> QED
    <3>1. r \in Seq(Chunk) /\ t \in Seq(Chunk)
      BY <1>5, Zenon
    <3>2. \A i \in 1..Len(r) : t[i] = r[i]
      BY <1>5, Zenon
    <3>3. n \in Nat /\ kind \in Kind
      BY <1>3, Zenon
    <3> QED
      BY <1>7, <2>1, <2>2, <3>1, <3>2, <3>3, SendFrame, SMTT(20)
<1>9. Pipe' = Pipe
  BY <1>1, Zenon DEF Pipe
<1>10. PICK k \in 0..n : Begun(Pipe, c, k) /\ Due(c) = k + 1
  BY <1>1, <1>2, Zenon DEF InboundInv, ConnInv
<1>11. Due(c)' = k + 1
  BY <1>2, <1>6, <1>8, <1>10, Zenon DEF Due
<1>12. k \in 0..(n + 1)
  BY <1>3, <1>10
<1>13. ConnInv(c)'
  BY <1>1, <1>6, <1>8, <1>9, <1>10, <1>11, <1>12, Zenon DEF ConnInv
<1>14. ASSUME NEW x \in Conn \ {c} PROVE ConnInv(x)'
  <2>1. /\ reader'[x] = reader[x] /\ sent'[x] = sent[x] /\ Rest(x)' = Rest(x)
    BY <1>1, Zenon DEF Rest, InboundInv, GatewayTypeOK
  <2> QED
    BY <1>9, <2>1, ConnKept, Zenon DEF InboundInv
<1> QED
  BY <1>13, <1>14, Zenon DEF InboundInv

\* Every step of the gateway keeps every connection's commands in order.
LEMMA InboundStep ==
  ASSUME InboundInv, [Next]_vars
  PROVE  InboundInv'
<1> USE DEF clientVars, queueVars, engineVars, outVars
<1>1. GatewayTypeOK'
  BY TypeStep, Zenon DEF InboundInv
<1>2. ASSUME UNCHANGED <<reader, sent, socket, buf>>, Pipe' = Pipe
      PROVE  InboundInv'
  <2> SUFFICES ASSUME NEW x \in Conn PROVE ConnInv(x)'
    BY <1>1, Zenon DEF InboundInv
  <2>1. Rest(x)' = Rest(x)
    BY <1>2, Zenon DEF Rest
  <2> QED
    BY <1>2, <2>1, ConnKept, Zenon DEF InboundInv
<1>3. /\ executed \in Seq(Command) /\ bridge \in Seq(Command)
      /\ inbound \in Seq(Command)
  BY Zenon DEF InboundInv, GatewayTypeOK
<1>4. ASSUME NEW c \in Conn, Accept(c) PROVE InboundInv'
  <2>1. Pipe' = Pipe /\ \A x \in Conn : Rest(x)' = Rest(x) /\ Due(x)' = Due(x)
    BY <1>4, Zenon DEF Accept, Pipe, Rest, Due
  <2>2. /\ reader[c] = "unconnected" /\ reader'[c] = "open" /\ sent' = sent
        /\ \A x \in Conn \ {c} : reader'[x] = reader[x]
    BY <1>4, Zenon DEF Accept, InboundInv, GatewayTypeOK
  <2>3. Rest(c) = <<>> /\ sent[c] = 0
    BY <2>2, Zenon DEF InboundInv, ConnInv
  <2>4. PICK k \in 0..sent[c] : Begun(Pipe, c, k)
    BY Zenon DEF InboundInv, ConnInv
  <2>5. Due(c) = k + 1
    BY <2>3, <2>4 DEF Due
  <2>6. Whole(Rest(c), sent[c])
    <3>1. Len(Rest(c)) = 0
      BY <2>3, Zenon
    <3> QED
      BY <3>1 DEF Whole
  <2>7. ConnInv(c)'
    BY <2>1, <2>2, <2>4, <2>5, <2>6, Zenon DEF ConnInv
  <2>8. ASSUME NEW x \in Conn \ {c} PROVE ConnInv(x)'
    BY <2>1, <2>2, ConnKept, Zenon DEF InboundInv
  <2> QED
    BY <1>1, <2>7, <2>8, Zenon DEF InboundInv
<1>5. ASSUME NEW c \in Conn, ReadSome(c) PROVE InboundInv'
  <2>1. PICK k \in 1..Len(socket[c]) :
               /\ buf' = [buf EXCEPT ![c] = @ \o SubSeq(socket[c], 1, k)]
               /\ socket' = [socket EXCEPT ![c] = SubSeq(@, k + 1, Len(@))]
    BY <1>5, Zenon DEF ReadSome
  <2>2. socket[c] \in Seq(Chunk) /\ buf[c] \in Seq(Chunk)
    BY Zenon DEF InboundInv, GatewayTypeOK
  <2>3. /\ buf'[c] = buf[c] \o SubSeq(socket[c], 1, k)
        /\ socket'[c] = SubSeq(socket[c], k + 1, Len(socket[c]))
        /\ \A x \in Conn \ {c} : buf'[x] = buf[x] /\ socket'[x] = socket[x]
    BY <2>1, Zenon DEF InboundInv, GatewayTypeOK
  <2>4. Rest(c)' = Rest(c)
    <3>1. buf'[c] \o socket'[c] = buf[c] \o socket[c]
      BY <2>2, <2>3, ReadKeepsRest, Zenon
    <3> QED
      BY <3>1, Zenon DEF Rest
  <2>5. \A x \in Conn : Rest(x)' = Rest(x)
    BY <2>3, <2>4, Zenon DEF Rest
  <2>6. Pipe' = Pipe /\ UNCHANGED <<reader, sent>>
    BY <1>5, Zenon DEF ReadSome, Pipe
  <2> QED
    BY <1>1, <2>5, <2>6, ConnKept, Zenon DEF InboundInv
<1>6. ASSUME NEW c \in Conn, ReadEnds(c) \/ RefuseFrame(c) PROVE InboundInv'
  BY <1>1, <1>6, ConnClosed, Zenon DEF ReadEnds, RefuseFrame
<1>7. ASSUME NEW c \in Conn, ForwardOrClose(c) PROVE InboundInv'
  <2>1. CASE HasRoom
    BY <1>1, <1>7, <2>1, CommandPasses, Zenon
  <2>2. CASE ~HasRoom
    BY <1>1, <1>7, <2>2, ConnClosed, Zenon DEF ForwardOrClose
  <2> QED
    BY <2>1, <2>2, Zenon
<1>8. ASSUME NEW c \in Conn, NEW kind \in FrameKinds, ClientSends(c, kind)
      PROVE  InboundInv'
  BY <1>1, <1>8, FrameSent, Zenon
<1>9. ASSUME NEW c \in Conn, ClientHangsUp(c) PROVE InboundInv'
  BY <1>2, <1>9, Zenon DEF ClientHangsUp, Pipe
<1>10. CASE Forward
  <2>1. Pipe' = Pipe
    BY <1>3, <1>10, PipeMoves, Zenon DEF Forward, Pipe
  <2> QED
    BY <1>2, <1>10, <2>1, Zenon DEF Forward
<1>11. CASE TakeCommand
  <2>1. Pipe' = Pipe
    BY <1>3, <1>11, PipeMoves, Zenon DEF TakeCommand, Pipe
  <2> QED
    BY <1>2, <1>11, <2>1, Zenon DEF TakeCommand
<1>12. CASE Emit
  BY <1>2, <1>12, Zenon DEF Emit, Pipe
<1>13. ASSUME NEW c \in Conn, Receive(c) \/ Written(c) PROVE InboundInv'
  BY <1>2, <1>13, Zenon DEF Receive, Written, Pipe
<1>14. ASSUME NEW c \in Conn, WriteFails(c) \/ Lag(c) PROVE InboundInv'
  BY <1>2, <1>14, Zenon DEF WriteFails, Lag, Pipe
<1>15. CASE UNCHANGED vars
  BY <1>2, <1>15, Zenon DEF vars, Pipe
<1> QED
  BY <1>4, <1>5, <1>6, <1>7, <1>8, <1>9, <1>10, <1>11, <1>12, <1>13, <1>14,
     <1>15, Zenon DEF Next, Drain, EngineThread

\* Commands reach the engine in the order their client sent them, once each
\* and without a gap, however reads cut the stream, whatever the capacity of
\* the channel and the number of clients (listener.rs, the drain loop and
\* try_decode; bin/engine.rs, the forwarder).
THEOREM CommandsInOrder == Spec => []InOrderOnce
<1>1. Init => InboundInv
  <2> SUFFICES ASSUME Init PROVE InboundInv
    BY Zenon
  <2>1. GatewayTypeOK
    BY InboundCapacityAssumption DEF Init, GatewayTypeOK
  <2>2. ASSUME NEW c \in Conn PROVE ConnInv(c)
    <3>1. /\ buf[c] = <<>> /\ socket[c] = <<>> /\ reader[c] = "unconnected"
          /\ sent[c] = 0 /\ executed = <<>> /\ bridge = <<>> /\ inbound = <<>>
      BY Zenon DEF Init
    <3>2. Rest(c) = <<>> /\ Pipe = <<>>
      BY <3>1, ConcatEmptySeq DEF Rest, Pipe
    <3>3. Begun(Pipe, c, 0)
      <4>1. Mine(Pipe, c) = {} /\ 1..0 = {}
        BY <3>2 DEF Mine
      <4> QED
        BY <4>1, Zenon DEF Begun
    <3>4. 0 \in 0..sent[c]
      BY <3>1
    <3> QED
      BY <3>1, <3>2, <3>3, <3>4, Zenon DEF ConnInv
  <2> QED
    BY <2>1, <2>2, Zenon DEF InboundInv
<1>2. InboundInv /\ [Next]_vars => InboundInv'
  BY InboundStep, Zenon
<1>3. InboundInv => InOrderOnce
  BY Zenon DEF InboundInv, ConnInv, Begun, Mine, Passed, InOrderOnce
<1> QED
  BY <1>1, <1>2, <1>3, PTL DEF Spec

=============================================================================
