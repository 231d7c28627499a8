------------------------------ MODULE Recorder ------------------------------
(***************************************************************************)
(* The ingress recorder and its reader, crates/gateway/src/recorder.rs, and *)
(* the replay of a recording, crates/engine/src/bin/replay.rs.             *)
(*                                                                         *)
(* A file is a sequence of bytes in a narrow alphabet, 0..Radix - 1: the   *)
(* length prefix of a frame has two of them, low one first, and a receive  *)
(* timestamp has one.  Each writer is a process with its own BufWriter; a  *)
(* write to the file is an append and happens at once.  record is two      *)
(* calls of write_all, so another process may come in between.             *)
(*                                                                         *)
(* The engine is a deterministic function of the commands it has taken: an *)
(* event names them, with its number and its two timestamps.  One event    *)
(* stands for all that a command makes the engine emit.                    *)
(*                                                                         *)
(* As in Book, a definition directly before another one and named for what *)
(* it gets wrong is a faulty variant, not part of the specification.       *)
(***************************************************************************)
EXTENDS Integers, Sequences, Functions

CONSTANTS
  Writer,        \* processes that record to the file
  Frames,        \* framed messages: a length prefix and as many bytes
  Commands,      \* those that parse_frame makes a command of
  Radix,         \* number of values of a byte
  BufCapacity,   \* capacity of a BufWriter
  MaxRecords     \* bound on the records of all writers

HeaderBytes == 2
RecvTsBytes == 1

Byte == 0..(Radix - 1)

\* u32::from_le_bytes
FrameLen(header) == header[1] + Radix * header[2]

ASSUME RadixAssumption == Radix \in Nat /\ Radix > 1
ASSUME BufCapacityAssumption == BufCapacity \in Nat
ASSUME MaxRecordsAssumption == MaxRecords \in Nat
ASSUME FramesAssumption ==
  /\ Frames # {}
  /\ \A f \in Frames : /\ f \in Seq(Byte)
                       /\ Len(f) > HeaderBytes
                       /\ FrameLen(f) = Len(f) - HeaderBytes
ASSUME CommandsAssumption == Commands \subseteq Frames

VARIABLES
  file,      \* what a reader of the file sees
  status,    \* each writer: "closed", "open", "in record"
  buffer,    \* each writer's BufWriter
  record,    \* the record each writer is writing
  written,   \* all records whose record call has returned, in that order
  past,      \* "clean", "crashed", or "reopened" after a crash
  intact     \* the records whole in the file when the crash came

vars == <<file, status, buffer, record, written, past, intact>>

Record == [frame : Frames, recvTs : Byte]

-----------------------------------------------------------------------------
(* The reader.                                                             *)

RecordLenNoTs(frameLen) == HeaderBytes + frameLen

\* Header, frame and timestamp.
RecordLen(frameLen) == HeaderBytes + frameLen + RecvTsBytes

\* read_records from a cursor on (one less than the index, as in the code).
ReadRecords(bytes) ==
  LET readFrom[cursor \in 0..Len(bytes)] ==
        LET left == SubSeq(bytes, cursor + 1, Len(bytes))
            total == RecordLen(FrameLen(left))
            ends == [ok |-> TRUE, records |-> <<>>, trailing |-> Len(left)]
        IN IF Len(left) < HeaderBytes THEN ends
           ELSE IF FrameLen(left) < 1
             THEN [ok |-> FALSE, records |-> <<>>, trailing |-> 0]
           ELSE IF Len(left) < total THEN ends
           ELSE LET frame == SubSeq(left, 1, HeaderBytes + FrameLen(left))
                    rest == readFrom[cursor + total]
                IN IF ~rest.ok THEN rest
                   ELSE [rest EXCEPT !.records =
                           <<[frame |-> frame, recvTs |-> left[total]]>> \o @]
  IN readFrom[0]

-----------------------------------------------------------------------------
(* The replay.                                                             *)

\* The n-th event of an engine that took those frames: stamped with the
\* clock's time on receipt, and again on emission.
Event(n, frames, recvTs, emitTs) ==
  [engineSeq |-> n, of |-> frames, recvTs |-> recvTs, emitTs |-> emitTs]

ZeroEmitTs(event) == [event EXCEPT !.emitTs = 0]

ZeroTimestamps(event) == [event EXCEPT !.recvTs = 0, !.emitTs = 0]

\* StubClock stands at the time of the record that is being replayed.
Now(r) == r.recvTs

FramesOf(records) == [i \in DOMAIN records |-> records[i].frame]

\* replay_bytes: a fresh engine whose clock stands at each record's time.  A
\* frame that is no command ends the replay with an error and no output.
ReplayBytes(bytes, noTimestamps) ==
  LET read == ReadRecords(bytes)
      frames == FramesOf(read.records)
      event(n) == LET r == read.records[n]
                  IN Event(n, SubSeq(frames, 1, n), Now(r), Now(r))
  IN IF ~read.ok \/ ~(Range(frames) \subseteq Commands)
     THEN [ok |-> FALSE, out |-> <<>>]
     ELSE [ok |-> TRUE,
           out |-> [n \in DOMAIN frames |->
                      IF noTimestamps THEN ZeroTimestamps(event(n))
                      ELSE event(n)]]

-----------------------------------------------------------------------------
(* The writer.                                                             *)

WriteAllOverfull(w, piece) ==
  LET full == Len(buffer[w]) >= BufCapacity
  IN /\ file' = IF full THEN file \o buffer[w] ELSE file
     /\ buffer' = [buffer EXCEPT ![w] = IF full THEN piece ELSE @ \o piece]

\* BufWriter::write_all: a piece that does not fit sends out what is
\* buffered, and one as large as the buffer goes out directly.
WriteAll(w, piece) ==
  LET full == Len(buffer[w]) + Len(piece) > BufCapacity
      direct == Len(piece) >= BufCapacity
      kept == IF full THEN <<>> ELSE buffer[w]
  IN /\ file' = file \o (IF full THEN buffer[w] ELSE <<>>)
                     \o (IF direct THEN piece ELSE <<>>)
     /\ buffer' = [buffer EXCEPT ![w] = IF direct THEN kept ELSE kept \o piece]

Open(w) ==
  /\ status[w] = "closed"
  /\ status' = [status EXCEPT ![w] = "open"]
  /\ past' = IF past = "clean" THEN past ELSE "reopened"
  /\ UNCHANGED <<file, buffer, record, written, intact>>

\* record, up to the end of the first write_all.
RecordFrame(w, r) ==
  /\ status[w] = "open"
  /\ Len(written) < MaxRecords
  /\ WriteAll(w, r.frame)
  /\ record' = [record EXCEPT ![w] = r]
  /\ status' = [status EXCEPT ![w] = "in record"]
  /\ UNCHANGED <<written, past, intact>>

\* record, its second write_all.
RecordTs(w) ==
  /\ status[w] = "in record"
  /\ WriteAll(w, <<record[w].recvTs>>)
  /\ written' = Append(written, record[w])
  /\ status' = [status EXCEPT ![w] = "open"]
  /\ UNCHANGED <<record, past, intact>>

Flush(w) ==
  /\ status[w] = "open"
  /\ buffer[w] # <<>>
  /\ file' = file \o buffer[w]
  /\ buffer' = [buffer EXCEPT ![w] = <<>>]
  /\ UNCHANGED <<status, record, written, past, intact>>

DropUnflushed(w) ==
  /\ status[w] = "open"
  /\ buffer' = [buffer EXCEPT ![w] = <<>>]
  /\ status' = [status EXCEPT ![w] = "closed"]
  /\ UNCHANGED <<file, record, written, past, intact>>

\* Drop: a recorder that goes out of scope flushes.
DropRecorder(w) ==
  /\ status[w] = "open"
  /\ file' = file \o buffer[w]
  /\ buffer' = [buffer EXCEPT ![w] = <<>>]
  /\ status' = [status EXCEPT ![w] = "closed"]
  /\ UNCHANGED <<record, written, past, intact>>

\* The process dies, possibly in the middle of sending its buffer out.  One
\* crash is all a behaviour gets (a bound).
Crash(w) ==
  /\ status[w] # "closed"
  /\ past = "clean"
  /\ \E k \in 0..Len(buffer[w]) : file' = file \o SubSeq(buffer[w], 1, k)
  /\ buffer' = [buffer EXCEPT ![w] = <<>>]
  /\ status' = [status EXCEPT ![w] = "closed"]
  /\ past' = "crashed"
  /\ intact' = ReadRecords(file').records
  /\ UNCHANGED <<record, written>>

-----------------------------------------------------------------------------
Init ==
  /\ file = <<>>
  /\ status = [w \in Writer |-> "closed"]
  /\ buffer = [w \in Writer |-> <<>>]
  /\ record = [w \in Writer |-> CHOOSE r \in Record : TRUE]
  /\ written = <<>>
  /\ past = "clean"
  /\ intact = <<>>

Next ==
  \E w \in Writer :
    \/ Open(w)
    \/ \E r \in Record : RecordFrame(w, r)
    \/ RecordTs(w)
    \/ Flush(w)
    \/ DropRecorder(w)
    \/ Crash(w)

Spec == Init /\ [][Next]_vars

-----------------------------------------------------------------------------
(* Properties.                                                             *)

\* Type correctness; a BufWriter never holds more than its capacity.
RecorderTypeOK ==
  /\ file \in Seq(Byte)
  /\ status \in [Writer -> {"closed", "open", "in record"}]
  /\ buffer \in [Writer -> Seq(Byte)]
  /\ \A w \in Writer : Len(buffer[w]) <= BufCapacity
  /\ record \in [Writer -> Record]
  /\ written \in Seq(Record)
  /\ past \in {"clean", "crashed", "reopened"}
  /\ intact \in Seq(Record)

AllFlushed ==
  \A w \in Writer : buffer[w] = <<>> /\ status[w] # "in record"

\* After a flush or a drop, without a crash before, the file reads back as
\* exactly the records written, in order and with nothing left over.
CleanFileExact ==
  AllFlushed /\ past = "clean" =>
    ReadRecords(file) = [ok |-> TRUE, records |-> written, trailing |-> 0]

\* s is a beginning of t.
IsBeginning(s, t) == Len(s) <= Len(t) /\ s = SubSeq(t, 1, Len(s))

\* At every moment, and after a crash at any moment, the file is readable
\* and holds a beginning of what was recorded: a record cut short is left
\* out, it neither makes the file corrupt nor is it taken for another one.
\* Once a writer appends behind a record cut short (Recorder::open does not
\* look at what is there) the file may be unreadable; when it is not, it
\* still begins with the records that were whole at the crash.
PrefixReadable ==
  LET read == ReadRecords(file) IN
  IF past = "reopened" THEN read.ok => IsBeginning(intact, read.records)
  ELSE read.ok /\ IsBeginning(read.records, written)

\* What the recorded engine itself emitted, its clock moving on between the
\* receipt of a command and each event.
Live(emitTs) ==
  [n \in DOMAIN written |->
     Event(n, SubSeq(FramesOf(written), 1, n), written[n].recvTs, emitTs[n])]

Zeroed(events) ==
  [n \in DOMAIN events |-> [events[n] EXCEPT !.recvTs = 0, !.emitTs = 0]]

\* A replay without timestamps reproduces what the recorded engine emitted,
\* whatever its clock showed: all of it from a recording that was closed, a
\* beginning of it from one a crash cut short, as long as only commands were
\* recorded (replay_bytes and its zero_timestamps).
ReplayReproduces ==
  LET replayed == ReplayBytes(file, TRUE) IN
  past # "reopened" /\ Range(FramesOf(written)) \subseteq Commands =>
    /\ replayed.ok
    /\ \A emitTs \in [DOMAIN written -> Byte] :
         /\ IsBeginning(replayed.out, Zeroed(Live(emitTs)))
         /\ AllFlushed /\ past = "clean" => replayed.out = Zeroed(Live(emitTs))

=============================================================================
