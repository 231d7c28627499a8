--------------------------- MODULE RecorderProofs ---------------------------
(***************************************************************************)
(* The theorems about module Recorder, for every alphabet, every set of    *)
(* frames and every capacity of the buffer, with one writer.               *)
(*                                                                         *)
(* The reader is a recursion over the bytes.  Its value is found without   *)
(* induction over the bytes: where records lie one behind the other in a   *)
(* file (Layout), the reader passes from the beginning of one to that of   *)
(* the next, so what it returns is these records and what it makes of the  *)
(* bytes behind them.                                                      *)
(***************************************************************************)
EXTENDS Recorder, NaturalsInduction, WellFoundedInduction, SequenceTheorems,
        TLAPS

-----------------------------------------------------------------------------
(* Induction.                                                              *)

\* A nonempty set of natural numbers has a least element.
LEMMA LeastNat ==
  ASSUME NEW S \in SUBSET Nat, S # {}
  PROVE  \E x \in S : \A y \in S : x <= y
<1> DEFINE R == OpToRel(<, Nat)
<1>1. \A x, y \in Nat : <<y, x>> \in R <=> y < x
  BY Zenon DEF OpToRel
<1>2. IsWellFoundedOn(R, Nat)
  BY NatLessThanWellFounded, Zenon
<1> HIDE DEF R
<1>3. PICK x \in S : \A y \in S : ~(<<y, x>> \in R)
  BY <1>2, WFMin, Zenon
<1>4. ASSUME NEW y \in S PROVE x <= y
  <2>1. x \in Nat /\ y \in Nat
    BY Zenon
  <2>2. ~(y < x)
    BY <1>1, <1>3, <2>1, Zenon
  <2> QED
    BY <2>1, <2>2
<1> QED
  BY <1>4, Zenon

\* A set of numbers that has 0 and, with each number, the next has them all.
LEMMA NatSetInduction ==
  ASSUME NEW S, 0 \in S, \A n \in Nat : n \in S => n + 1 \in S
  PROVE  Nat \subseteq S
<1> SUFFICES ASSUME Nat \ S # {} PROVE FALSE
  BY Zenon
<1>1. PICK x \in Nat \ S : \A y \in Nat \ S : x <= y
  BY LeastNat, Zenon
<1>2. x # 0 /\ x - 1 \in Nat
  OBVIOUS
<1>3. x - 1 \in S
  BY <1>1, <1>2
<1> QED
  BY <1>2, <1>3

-----------------------------------------------------------------------------
(* The reader, one step of its loop.                                       *)

LeftAt(b, c) == SubSeq(b, c + 1, Len(b))
LenAt(b, c) == FrameLen(LeftAt(b, c))
NextAt(b, c) == c + RecordLen(LenAt(b, c))

EndsAt(b, c) == [ok |-> TRUE, records |-> <<>>, trailing |-> Len(LeftAt(b, c))]
Corrupt == [ok |-> FALSE, records |-> <<>>, trailing |-> 0]

FirstAt(b, c) ==
  [frame |-> SubSeq(LeftAt(b, c), 1, HeaderBytes + LenAt(b, c)),
   recvTs |-> LeftAt(b, c)[RecordLen(LenAt(b, c))]]

Before(r, rest) ==
  IF ~rest.ok THEN rest ELSE [rest EXCEPT !.records = <<r>> \o @]

\* What is read from c on when rest is read from the next record on.
ReadAt(b, c, rest) ==
  IF Len(LeftAt(b, c)) < HeaderBytes THEN EndsAt(b, c)
  ELSE IF LenAt(b, c) < 1 THEN Corrupt
  ELSE IF Len(LeftAt(b, c)) < RecordLen(LenAt(b, c)) THEN EndsAt(b, c)
  ELSE Before(FirstAt(b, c), rest)

IsReader(b, g, D) == g = [c \in D |-> ReadAt(b, c, g[NextAt(b, c)])]

\* A whole record stands at c.
RecordAt(b, c) ==
  /\ ~(Len(LeftAt(b, c)) < HeaderBytes)
  /\ ~(LenAt(b, c) < 1)
  /\ ~(Len(LeftAt(b, c)) < RecordLen(LenAt(b, c)))

\* The reader of the specification.
LEMMA ReadRecordsIs ==
  ASSUME NEW b
  PROVE  ReadRecords(b) = (CHOOSE g : IsReader(b, g, 0..Len(b)))[0]
BY Zenon DEF ReadRecords, IsReader, ReadAt, LeftAt, LenAt, NextAt, EndsAt, Corrupt,
             FirstAt, Before

\* The bytes that are left.
LEMMA LeftIs ==
  ASSUME NEW b \in Seq(Byte), NEW c \in 0..Len(b)
  PROVE  /\ LeftAt(b, c) \in Seq(Byte) /\ Len(LeftAt(b, c)) = Len(b) - c
         /\ Len(b) - c \in Nat
         /\ \A i \in 1..(Len(b) - c) : LeftAt(b, c)[i] = b[c + i]
<1>1. PICK n \in Nat : n = Len(b)
  OBVIOUS
<1>2. c + 1 \in 1..(n + 1) /\ c \in Nat /\ n - c \in Nat /\ n - (c + 1) + 1 = n - c
  BY <1>1
<1>3. /\ SubSeq(b, c + 1, n) \in Seq(Byte)
      /\ Len(SubSeq(b, c + 1, n)) = n - c
      /\ \A i \in 1..(n - c) : SubSeq(b, c + 1, n)[i] = b[(c + 1) + i - 1]
  <2>1. \A i \in (c + 1)..n : b[i] \in Byte
    BY <1>1, <1>2
  <2> QED
    BY <1>1, <1>2, <2>1, SubSeqProperties
<1>4. \A i \in 1..(n - c) : (c + 1) + i - 1 = c + i
  BY <1>2
<1> QED
  BY <1>1, <1>2, <1>3, <1>4, Zenon DEF LeftAt

\* A byte is a number, and so is the length a header tells.
LEMMA LenIs ==
  ASSUME NEW b \in Seq(Byte), NEW c \in 0..Len(b), Len(b) - c >= 2
  PROVE  LenAt(b, c) \in Nat /\ LenAt(b, c) = b[c + 1] + Radix * b[c + 2]
<1>1. /\ LeftAt(b, c)[1] = b[c + 1] /\ LeftAt(b, c)[2] = b[c + 2]
  <2>1. 1 \in 1..(Len(b) - c) /\ 2 \in 1..(Len(b) - c)
    OBVIOUS
  <2> QED
    BY <2>1, LeftIs, Zenon
<1>2. c + 1 \in 1..Len(b) /\ c + 2 \in 1..Len(b)
  OBVIOUS
<1>3. PICK x, y : x = b[c + 1] /\ y = b[c + 2]
  BY Zenon
<1>4. x \in Nat /\ y \in Nat /\ Radix \in Nat
  BY <1>2, <1>3, RadixAssumption DEF Byte
<1>5. x + Radix * y \in Nat
  BY <1>4
<1> QED
  BY <1>1, <1>3, <1>5, Zenon DEF LenAt, FrameLen

\* The next record begins further on, within the file.
LEMMA NextIs ==
  ASSUME NEW b \in Seq(Byte), NEW c \in 0..Len(b), RecordAt(b, c)
  PROVE  /\ LenAt(b, c) \in Nat /\ LenAt(b, c) >= 1
         /\ NextAt(b, c) = c + LenAt(b, c) + 3
         /\ NextAt(b, c) \in 0..Len(b) /\ NextAt(b, c) > c
<1>1. PICK n \in Nat : n = Len(b)
  OBVIOUS
<1>2. Len(LeftAt(b, c)) = n - c /\ n - c \in Nat /\ n - c >= 2
  <2>1. Len(LeftAt(b, c)) = n - c /\ n - c \in Nat
    BY <1>1, LeftIs, Zenon
  <2>2. ~(Len(LeftAt(b, c)) < 2)
    BY Zenon DEF RecordAt, HeaderBytes
  <2> QED
    BY <2>1, <2>2
<1>3. LenAt(b, c) \in Nat
  BY <1>1, <1>2, LenIs, Zenon
<1>4. PICK l \in Nat : l = LenAt(b, c)
  BY <1>3, Zenon
<1>5. RecordLen(l) = l + 3
  BY <1>4 DEF RecordLen, HeaderBytes, RecvTsBytes
<1>6. l >= 1 /\ n - c >= l + 3
  BY <1>2, <1>4, <1>5 DEF RecordAt
<1>7. NextAt(b, c) = c + (l + 3)
  BY <1>4, <1>5, Zenon DEF NextAt
<1> QED
  BY <1>1, <1>4, <1>6, <1>7

\* What is read from c on depends on the rest only behind a whole record.
LEMMA ReadEnds ==
  ASSUME NEW b, NEW c, ~RecordAt(b, c)
  PROVE  \A x, y : ReadAt(b, c, x) = ReadAt(b, c, y)
BY Zenon DEF RecordAt, ReadAt

\* And it is what is read there with the record in front.
LEMMA ReadPasses ==
  ASSUME NEW b, NEW c, RecordAt(b, c)
  PROVE  \A x : ReadAt(b, c, x) = Before(FirstAt(b, c), x)
BY Zenon DEF RecordAt, ReadAt

\* The last n + 1 cursors of a file.
EndOf(b, n) == {c \in 0..Len(b) : Len(b) - c <= n}

\* The reader exists: by induction over what is left.
LEMMA ReaderExists ==
  ASSUME NEW b \in Seq(Byte)
  PROVE  \E g : IsReader(b, g, 0..Len(b))
<1> DEFINE N == {n \in Nat : \E g : IsReader(b, g, EndOf(b, n))}
<1>1. PICK m \in Nat : m = Len(b)
  OBVIOUS
<1>2. ASSUME NEW n \in Nat, NEW c \in EndOf(b, n + 1), RecordAt(b, c)
      PROVE  NextAt(b, c) \in EndOf(b, n)
  <2>1. c \in 0..m /\ m - c <= n + 1
    BY <1>1, Zenon DEF EndOf
  <2>2. NextAt(b, c) \in 0..m /\ NextAt(b, c) > c
    BY <1>1, <1>2, <2>1, NextIs, Zenon
  <2>3. m - NextAt(b, c) <= n
    BY <2>1, <2>2
  <2> QED
    BY <1>1, <2>2, <2>3, Zenon DEF EndOf
<1>3. ASSUME NEW c \in EndOf(b, 0) PROVE ~RecordAt(b, c)
  <2>1. c \in 0..m /\ m - c <= 0
    BY <1>1, Zenon DEF EndOf
  <2> SUFFICES ASSUME RecordAt(b, c) PROVE FALSE
    BY Zenon
  <2>2. NextAt(b, c) \in 0..m /\ NextAt(b, c) > c
    BY <1>1, <2>1, NextIs, Zenon
  <2> QED
    BY <2>1, <2>2
<1>4. 0 \in N
  <2> DEFINE g == [c \in EndOf(b, 0) |-> ReadAt(b, c, Corrupt)]
  <2>1. \A c \in EndOf(b, 0) : ReadAt(b, c, Corrupt) = ReadAt(b, c, g[NextAt(b, c)])
    <3> SUFFICES ASSUME NEW c \in EndOf(b, 0)
                 PROVE  ReadAt(b, c, Corrupt) = ReadAt(b, c, g[NextAt(b, c)])
      BY Zenon
    <3>1. \A x, y : ReadAt(b, c, x) = ReadAt(b, c, y)
      BY <1>3, ReadEnds, Zenon
    <3> QED
      BY <3>1, Zenon
  <2>2. IsReader(b, g, EndOf(b, 0))
    BY <2>1, Zenon DEF IsReader
  <2> HIDE DEF g
  <2> QED
    BY <2>2, Zenon
<1>5. ASSUME NEW n \in Nat, n \in N PROVE n + 1 \in N
  <2>1. PICK g : IsReader(b, g, EndOf(b, n))
    BY <1>5, Zenon
  <2> DEFINE h == [c \in EndOf(b, n + 1) |-> ReadAt(b, c, g[NextAt(b, c)])]
  <2>2. ASSUME NEW c \in EndOf(b, n) PROVE c \in EndOf(b, n + 1) /\ h[c] = g[c]
    <3>1. c \in EndOf(b, n + 1)
      BY <1>1 DEF EndOf
    <3> QED
      BY <2>1, <3>1, Zenon DEF IsReader
  <2>3. ASSUME NEW c \in EndOf(b, n + 1)
        PROVE  ReadAt(b, c, g[NextAt(b, c)]) = ReadAt(b, c, h[NextAt(b, c)])
    <3>1. CASE RecordAt(b, c)
      <4>1. h[NextAt(b, c)] = g[NextAt(b, c)]
        BY <1>2, <2>2, <3>1, Zenon
      <4> QED
        BY <4>1, Zenon
    <3>2. CASE ~RecordAt(b, c)
      <4>1. \A x, y : ReadAt(b, c, x) = ReadAt(b, c, y)
        BY <3>2, ReadEnds, Zenon
      <4> QED
        BY <4>1, Zenon
    <3> QED
      BY <3>1, <3>2, Zenon
  <2>4. IsReader(b, h, EndOf(b, n + 1))
    BY <2>3, Zenon DEF IsReader
  <2> HIDE DEF h
  <2> QED
    BY <2>4
<1> HIDE DEF N
<1>6. m \in N
  BY <1>4, <1>5, NatSetInduction, Zenon
<1>7. EndOf(b, m) = 0..Len(b)
  BY <1>1 DEF EndOf
<1> QED
  BY <1>6, <1>7, Zenon DEF N

\* The results of the reader.
Item == [frame : Seq(Byte), recvTs : Byte]
Result == [ok : BOOLEAN, records : Seq(Item), trailing : Nat]

\* The record that stands at c.
LEMMA FirstIs ==
  ASSUME NEW b \in Seq(Byte), NEW c \in 0..Len(b), RecordAt(b, c)
  PROVE  FirstAt(b, c) \in Item
<1>q. PICK q : q = LeftAt(b, c)
  BY Zenon
<1>1. PICK n \in Nat, l \in Nat : n = Len(b) /\ l = LenAt(b, c)
  BY NextIs
<1>2. q \in Seq(Byte) /\ Len(q) = n - c /\ n - c \in Nat
  BY <1>1, <1>q, LeftIs, Zenon
<1>3. RecordLen(l) = l + 3 /\ HeaderBytes + l = l + 2
  BY <1>1, <1>q DEF RecordLen, HeaderBytes, RecvTsBytes
<1>4. n - c >= l + 3
  BY <1>1, <1>q, <1>2, <1>3 DEF RecordAt
<1>5. q[l + 3] \in Byte
  BY <1>1, <1>q, <1>2, <1>4
<1>6. SubSeq(q, 1, l + 2) \in Seq(Byte)
  <2>1. \A i \in 1..(l + 2) : q[i] \in Byte
    BY <1>1, <1>q, <1>2, <1>4
  <2> QED
    BY <1>1, <1>q, <2>1, SubSeqProperties
<1>7. FirstAt(b, c) = [frame |-> SubSeq(q, 1, l + 2), recvTs |-> q[l + 3]]
  BY <1>1, <1>q, <1>3, Zenon DEF FirstAt
<1> QED
  BY <1>5, <1>6, <1>7 DEF Item

\* The reader returns a result from every cursor.
LEMMA ReaderTyped ==
  ASSUME NEW b \in Seq(Byte), NEW g, IsReader(b, g, 0..Len(b))
  PROVE  \A c \in 0..Len(b) : g[c] \in Result
<1> DEFINE N == {n \in Nat : \A c \in EndOf(b, n) : g[c] \in Result}
<1>1. PICK m \in Nat : m = Len(b)
  OBVIOUS
<1>2. ASSUME NEW c \in 0..Len(b) PROVE g[c] = ReadAt(b, c, g[NextAt(b, c)])
  BY Zenon DEF IsReader
<1>3. ASSUME NEW c \in 0..Len(b), ~RecordAt(b, c) PROVE g[c] \in Result
  <2>1. Len(LeftAt(b, c)) \in Nat
    BY LeftIs, Zenon
  <2>2. EndsAt(b, c) \in Result /\ Corrupt \in Result
    BY <2>1 DEF EndsAt, Corrupt, Result
  <2>3. g[c] = EndsAt(b, c) \/ g[c] = Corrupt
    BY <1>2, <1>3, Zenon DEF ReadAt, RecordAt
  <2> QED
    BY <2>2, <2>3, Zenon
<1>4. ASSUME NEW c \in 0..Len(b), RecordAt(b, c), g[NextAt(b, c)] \in Result
      PROVE  g[c] \in Result
  <2>1. PICK x \in Result, r \in Item : x = g[NextAt(b, c)] /\ r = FirstAt(b, c)
    BY <1>4, FirstIs, Zenon
  <2>2. g[c] = Before(r, x)
    <3>1. \A y : ReadAt(b, c, y) = Before(FirstAt(b, c), y)
      BY <1>4, ReadPasses, Zenon
    <3> QED
      BY <1>2, <2>1, <3>1, Zenon
  <2>3. <<r>> \o x.records \in Seq(Item)
    <3>1. x.records \in Seq(Item)
      BY Zenon DEF Result
    <3> QED
      BY <3>1
  <2>4. [x EXCEPT !.records = <<r>> \o @] \in Result
    BY <2>3, Zenon DEF Result
  <2> QED
    BY <2>2, <2>4, Zenon DEF Before
<1>5. 0 \in N
  <2> SUFFICES ASSUME NEW c \in EndOf(b, 0) PROVE g[c] \in Result
    BY Zenon
  <2>1. c \in 0..m /\ m - c <= 0
    BY <1>1, Zenon DEF EndOf
  <2>2. CASE RecordAt(b, c)
    <3>1. NextAt(b, c) \in 0..m /\ NextAt(b, c) > c
      BY <1>1, <2>1, <2>2, NextIs, Zenon
    <3> QED
      BY <2>1, <3>1
  <2> QED
    BY <1>1, <1>3, <2>1, <2>2, Zenon
<1>6. ASSUME NEW n \in Nat, n \in N PROVE n + 1 \in N
  <2> SUFFICES ASSUME NEW c \in EndOf(b, n + 1) PROVE g[c] \in Result
    OBVIOUS
  <2>1. c \in 0..m /\ m - c <= n + 1
    BY <1>1, Zenon DEF EndOf
  <2>2. CASE RecordAt(b, c)
    <3>1. NextAt(b, c) \in 0..m /\ NextAt(b, c) > c
      BY <1>1, <2>1, <2>2, NextIs, Zenon
    <3>2. m - NextAt(b, c) <= n
      BY <2>1, <3>1
    <3>3. NextAt(b, c) \in EndOf(b, n)
      BY <1>1, <3>1, <3>2, Zenon DEF EndOf
    <3> QED
      BY <1>1, <1>4, <1>6, <2>1, <2>2, <3>3, Zenon
  <2> QED
    BY <1>1, <1>3, <2>1, <2>2, Zenon
<1> HIDE DEF N
<1>7. m \in N
  BY <1>5, <1>6, NatSetInduction, Zenon
<1>8. EndOf(b, m) = 0..Len(b)
  BY <1>1 DEF EndOf
<1> QED
  BY <1>7, <1>8, Zenon DEF N

\* So ReadRecords is the value of a reader at the beginning of the file.
LEMMA ReaderOf ==
  ASSUME NEW b \in Seq(Byte)
  PROVE  \E g : /\ IsReader(b, g, 0..Len(b)) /\ ReadRecords(b) = g[0]
                /\ \A c \in 0..Len(b) : g[c] \in Result
<1>1. PICK g : g = CHOOSE h : IsReader(b, h, 0..Len(b))
  BY Zenon
<1>2. IsReader(b, g, 0..Len(b))
  BY <1>1, ReaderExists, Zenon
<1>3. ReadRecords(b) = g[0]
  BY <1>1, ReadRecordsIs, Zenon
<1>4. \A c \in 0..Len(b) : g[c] \in Result
  BY <1>2, ReaderTyped, Zenon
<1> QED
  BY <1>2, <1>3, <1>4, Zenon

-----------------------------------------------------------------------------
(* Records in a file.                                                      *)

\* The record r stands behind the first c bytes.
Stands(b, c, r) ==
  /\ c + Len(r.frame) + 1 <= Len(b)
  /\ \A k \in 1..Len(r.frame) : b[c + k] = r.frame[k]
  /\ b[c + Len(r.frame) + 1] = r.recvTs

\* Behind the first c bytes the file ends with a beginning of the frame f.
Cut(b, c, f) ==
  /\ Len(b) - c <= Len(f)
  /\ \A k \in 1..(Len(b) - c) : b[c + k] = f[k]

\* The records rs stand one behind the other from the beginning on; record i
\* behind at[i] bytes, and the last one ends at at[Len(rs) + 1].
Layout(b, rs, at) ==
  /\ at \in [1..(Len(rs) + 1) -> 0..Len(b)]
  /\ at[1] = 0
  /\ \A i \in 1..Len(rs) :
       at[i + 1] = at[i] + Len(rs[i].frame) + 1 /\ Stands(b, at[i], rs[i])

\* What the assumptions say of a frame.
LEMMA FrameIs ==
  ASSUME NEW f \in Frames
  PROVE  /\ f \in Seq(Byte) /\ Len(f) \in Nat /\ Len(f) >= 3
         /\ FrameLen(f) = Len(f) - 2
<1>1. f \in Seq(Byte) /\ Len(f) > 2 /\ FrameLen(f) = Len(f) - 2
  BY FramesAssumption, Zenon DEF HeaderBytes
<1>2. Len(f) \in Nat
  BY <1>1
<1> QED
  BY <1>1, <1>2

\* Records are items a reader may return.
LEMMA RecordIs ==
  ASSUME NEW r \in Record
  PROVE  r \in Item /\ r.frame \in Frames /\ r.recvTs \in Byte
         /\ r = [frame |-> r.frame, recvTs |-> r.recvTs]
<1>1. r.frame \in Frames /\ r.recvTs \in Byte
  BY Zenon DEF Record
<1>2. r.frame \in Seq(Byte)
  BY <1>1, FrameIs, Zenon
<1> QED
  BY <1>1, <1>2, Zenon DEF Record, Item

\* The length prefix in front of a frame, or of its first bytes.
LEMMA HeaderIs ==
  ASSUME NEW b \in Seq(Byte), NEW c \in 0..Len(b), NEW f \in Frames,
         Len(b) - c >= 2, b[c + 1] = f[1], b[c + 2] = f[2]
  PROVE  LenAt(b, c) = Len(f) - 2
<1>1. LenAt(b, c) = b[c + 1] + Radix * b[c + 2]
  BY LenIs, Zenon
<1>2. f[1] + Radix * f[2] = Len(f) - 2
  BY FrameIs, Zenon DEF FrameLen
<1> QED
  BY <1>1, <1>2, Zenon

\* The reader takes a record that stands in the file for what it is.
LEMMA StandsRead ==
  ASSUME NEW b \in Seq(Byte), NEW c \in 0..Len(b), NEW r \in Record, Stands(b, c, r)
  PROVE  /\ RecordAt(b, c) /\ FirstAt(b, c) = r
         /\ NextAt(b, c) = c + Len(r.frame) + 1
<1>q. PICK q : q = LeftAt(b, c)
  BY Zenon
<1>1. PICK n \in Nat, f \in Frames, l \in Nat :
        n = Len(b) /\ f = r.frame /\ l = Len(f)
  BY RecordIs, FrameIs
<1>2. l >= 3 /\ f \in Seq(Byte)
  BY <1>1, <1>q, FrameIs, Zenon
<1>3. /\ c + l + 1 <= n /\ b[c + l + 1] = r.recvTs
      /\ \A k \in 1..l : b[c + k] = f[k]
  BY <1>1, <1>q, Zenon DEF Stands
<1>4. c \in Nat /\ n - c >= l + 1
  BY <1>1, <1>q, <1>3
<1>5. LenAt(b, c) = l - 2
  <2>1. b[c + 1] = f[1] /\ b[c + 2] = f[2]
    <3>1. 1 \in 1..l /\ 2 \in 1..l
      BY <1>2
    <3> QED
      BY <1>3, <3>1, Zenon
  <2>2. n - c >= 2
    BY <1>2, <1>4
  <2> QED
    BY <1>1, <1>q, <2>1, <2>2, HeaderIs, Zenon
<1>6. RecordLen(LenAt(b, c)) = l + 1 /\ HeaderBytes + LenAt(b, c) = l
  BY <1>5 DEF RecordLen, HeaderBytes, RecvTsBytes
<1>7. /\ q \in Seq(Byte) /\ Len(q) = n - c
      /\ \A i \in 1..(n - c) : q[i] = b[c + i]
  BY <1>1, <1>q, LeftIs, Zenon
<1>8. RecordAt(b, c)
  <2>1. ~(n - c < 2) /\ ~(l - 2 < 1) /\ ~(n - c < l + 1)
    BY <1>2, <1>4
  <2>2. Len(LeftAt(b, c)) = n - c
    BY <1>1, <1>q, <1>7, Zenon
  <2> QED
    BY <1>5, <1>6, <2>1, <2>2, Zenon DEF RecordAt, HeaderBytes
<1>9. NextAt(b, c) = c + l + 1
  BY <1>4, <1>6 DEF NextAt
<1>10. SubSeq(q, 1, l) = f
  <2>1. PICK s : s = SubSeq(q, 1, l)
    BY Zenon
  <2>2. \A i \in 1..l : q[i] \in Byte
    BY <1>4, <1>7
  <2>3. s \in Seq(Byte) /\ Len(s) = l /\ \A i \in 1..l : s[i] = q[i]
    BY <2>1, <2>2, SubSeqProperties
  <2>4. \A i \in 1..l : s[i] = f[i]
    <3> SUFFICES ASSUME NEW i \in 1..l PROVE s[i] = f[i]
      BY Zenon
    <3>1. i \in 1..(n - c)
      BY <1>4
    <3> QED
      BY <1>3, <1>7, <2>3, <3>1, Zenon
  <2> QED
    BY <1>1, <1>q, <1>2, <2>1, <2>3, <2>4, SeqEqual, Zenon
<1>11. q[l + 1] = r.recvTs
  <2>1. l + 1 \in 1..(n - c) /\ c + (l + 1) = c + l + 1
    BY <1>4
  <2> QED
    BY <1>3, <1>7, <2>1
<1>12. FirstAt(b, c) = [frame |-> f, recvTs |-> r.recvTs]
  BY <1>1, <1>q, <1>6, <1>10, <1>11, Zenon DEF FirstAt
<1> QED
  BY <1>1, <1>q, <1>8, <1>9, <1>12, RecordIs, Zenon

\* At a frame that is cut short the reader stops, without an error.
LEMMA CutRead ==
  ASSUME NEW b \in Seq(Byte), NEW c \in 0..Len(b), NEW f \in Frames, Cut(b, c, f)
  PROVE  \A x : ReadAt(b, c, x) =
                  [ok |-> TRUE, records |-> <<>>, trailing |-> Len(b) - c]
<1>1. PICK n \in Nat, l \in Nat : n = Len(b) /\ l = Len(f)
  BY FrameIs
<1>2. /\ n - c <= l /\ n - c \in Nat /\ c \in Nat /\ l >= 3
      /\ \A k \in 1..(n - c) : b[c + k] = f[k]
  BY <1>1, FrameIs DEF Cut
<1>3. Len(LeftAt(b, c)) = n - c
  BY <1>1, LeftIs, Zenon
<1>4. EndsAt(b, c) = [ok |-> TRUE, records |-> <<>>, trailing |-> Len(b) - c]
  BY <1>1, <1>3, Zenon DEF EndsAt
<1>5. CASE n - c < 2
  BY <1>3, <1>4, <1>5, Zenon DEF ReadAt, HeaderBytes
<1>6. CASE ~(n - c < 2)
  <2>1. LenAt(b, c) = l - 2
    <3>1. b[c + 1] = f[1] /\ b[c + 2] = f[2] /\ n - c >= 2
      BY <1>2, <1>6
    <3> QED
      BY <1>1, <3>1, HeaderIs, Zenon
  <2>2. RecordLen(LenAt(b, c)) = l + 1
    BY <2>1 DEF RecordLen, HeaderBytes, RecvTsBytes
  <2>3. ~(l - 2 < 1) /\ n - c < l + 1
    BY <1>2
  <2> QED
    BY <1>3, <1>4, <1>6, <2>1, <2>2, <2>3, Zenon DEF ReadAt, HeaderBytes
<1> QED
  BY <1>5, <1>6, Zenon

\* A result with the records q in front of its own.
AllBefore(q, x) == IF ~x.ok THEN x ELSE [x EXCEPT !.records = q \o @]

\* One record in front of several.
LEMMA OneMoreBefore ==
  ASSUME NEW r \in Item, NEW q \in Seq(Item), NEW x \in Result
  PROVE  Before(r, AllBefore(q, x)) = AllBefore(<<r>> \o q, x)
<1>1. PICK rest \in Seq(Item) : rest = x.records
  BY Zenon DEF Result
<1>2. <<r>> \in Seq(Item)
  OBVIOUS
<1>3. <<r>> \o (q \o rest) = (<<r>> \o q) \o rest
  BY <1>2, ConcatAssociative
<1>4. CASE ~x.ok
  BY <1>4, Zenon DEF Before, AllBefore
<1>5. CASE x.ok
  <2>1. /\ AllBefore(q, x) = [x EXCEPT !.records = q \o rest]
        /\ AllBefore(<<r>> \o q, x) = [x EXCEPT !.records = (<<r>> \o q) \o rest]
    BY <1>1, <1>5, Zenon DEF AllBefore
  <2>2. PICK y : y = AllBefore(q, x)
    BY Zenon
  <2>3. y.ok = x.ok /\ y.records = q \o rest
    BY <2>1, <2>2, Zenon DEF Result
  <2>4. Before(r, y) = [y EXCEPT !.records = <<r>> \o (q \o rest)]
    BY <1>5, <2>3, Zenon DEF Before
  <2>5. [y EXCEPT !.records = <<r>> \o (q \o rest)]
          = [x EXCEPT !.records = <<r>> \o (q \o rest)]
    BY <2>1, <2>2, Zenon DEF Result
  <2> QED
    BY <1>3, <2>1, <2>2, <2>4, <2>5, Zenon
<1> QED
  BY <1>4, <1>5, Zenon

\* Where records stand one behind the other, the reader returns them and
\* what it makes of the bytes behind them.
LEMMA LayoutRead ==
  ASSUME NEW b \in Seq(Byte), NEW rs \in Seq(Record), NEW at, Layout(b, rs, at),
         NEW g, IsReader(b, g, 0..Len(b)), \A c \in 0..Len(b) : g[c] \in Result
  PROVE  g[0] = AllBefore(rs, g[at[Len(rs) + 1]])
<1>1. PICK n \in Nat : n = Len(rs)
  OBVIOUS
<1>2. rs \in Seq(Item)
  <2>1. \A i \in 1..n : rs[i] \in Item
    BY <1>1, RecordIs
  <2> QED
    BY <1>1, <2>1
<1>3. PICK x \in Result : x = g[at[n + 1]]
  <2>1. at[n + 1] \in 0..Len(b)
    BY <1>1 DEF Layout
  <2> QED
    BY <2>1, Zenon
<1> DEFINE From(i) == SubSeq(rs, i, n)
           N == {j \in Nat : j <= n => g[at[n + 1 - j]] = AllBefore(From(n + 1 - j), x)}
<1>4. 0 \in N
  <2>1. From(n + 1) = <<>>
    BY <1>1
  <2>2. AllBefore(<<>>, x) = x
    <3>1. PICK rest \in Seq(Item) : rest = x.records
      BY Zenon DEF Result
    <3>2. <<>> \o rest = rest
      OBVIOUS
    <3>3. [x EXCEPT !.records = rest] = x
      BY <3>1, Zenon DEF Result
    <3> QED
      BY <3>1, <3>2, <3>3, Zenon DEF AllBefore
  <2>3. n + 1 - 0 = n + 1
    BY <1>1
  <2> HIDE DEF From
  <2> QED
    BY <1>3, <2>1, <2>2, <2>3, Zenon
<1>5. ASSUME NEW j \in Nat, j \in N PROVE j + 1 \in N
  <2> SUFFICES ASSUME j + 1 <= n
               PROVE  g[at[n + 1 - (j + 1)]] = AllBefore(From(n + 1 - (j + 1)), x)
    OBVIOUS
  <2>1. PICK i \in 1..n : i = n - j /\ n + 1 - (j + 1) = i /\ n + 1 - j = i + 1
    BY <1>1
  <2>2. g[at[i + 1]] = AllBefore(From(i + 1), x)
    BY <1>1, <1>5, <2>1
  <2>3. /\ at[i] \in 0..Len(b) /\ at[i + 1] = at[i] + Len(rs[i].frame) + 1
        /\ Stands(b, at[i], rs[i]) /\ rs[i] \in Record
    <3>1. i \in 1..(Len(rs) + 1) /\ i \in 1..Len(rs)
      BY <1>1
    <3>2. rs[i] \in Record
      BY <3>1
    <3>3. at \in [1..(Len(rs) + 1) -> 0..Len(b)]
      BY Zenon DEF Layout
    <3>4. at[i] \in 0..Len(b)
      BY <3>1, <3>3, Zenon
    <3>5. at[i + 1] = at[i] + Len(rs[i].frame) + 1 /\ Stands(b, at[i], rs[i])
      BY <3>1, Zenon DEF Layout
    <3> QED
      BY <3>2, <3>4, <3>5, Zenon
  <2>4. /\ RecordAt(b, at[i]) /\ FirstAt(b, at[i]) = rs[i]
        /\ NextAt(b, at[i]) = at[i + 1]
    BY <2>3, StandsRead, Zenon
  <2>5. g[at[i]] = Before(rs[i], g[at[i + 1]])
    <3>1. g[at[i]] = ReadAt(b, at[i], g[NextAt(b, at[i])])
      BY <2>3, Zenon DEF IsReader
    <3>2. \A y : ReadAt(b, at[i], y) = Before(FirstAt(b, at[i]), y)
      BY <2>4, ReadPasses, Zenon
    <3> QED
      BY <2>4, <3>1, <3>2, Zenon
  <2>6. From(i + 1) \in Seq(Item) /\ <<rs[i]>> \o From(i + 1) = From(i)
    <3>1. \A k \in 1..n : rs[k] \in Item
      BY <1>1, <1>2
    <3>2. /\ From(i + 1) \in Seq(Item) /\ Len(From(i + 1)) = n - i
          /\ \A k \in 1..(n - i) : From(i + 1)[k] = rs[i + k]
      BY <1>1, <3>1
    <3>3. /\ From(i) \in Seq(Item) /\ Len(From(i)) = n - i + 1
          /\ \A k \in 1..(n - i + 1) : From(i)[k] = rs[i + k - 1]
      BY <1>1, <3>1
    <3> DEFINE q == <<rs[i]>> \o From(i + 1)
    <3>4. rs[i] \in Item
      BY <3>1, Zenon
    <3> HIDE DEF From
    <3>5. q \in Seq(Item) /\ Len(q) = n - i + 1 /\ q[1] = rs[i]
      <4>1. PICK z \in Seq(Item), y \in Item : z = From(i + 1) /\ y = rs[i]
        BY <3>2, <3>4, Zenon
      <4>2. /\ <<y>> \o z \in Seq(Item) /\ Len(<<y>> \o z) = 1 + Len(z)
            /\ (<<y>> \o z)[1] = y
        OBVIOUS
      <4>3. 1 + (n - i) = n - i + 1
        BY <1>1
      <4> QED
        BY <3>2, <4>1, <4>2, <4>3, Zenon
    <3>6. ASSUME NEW k \in 2..(n - i + 1) PROVE q[k] = rs[i + k - 1]
      <4>1. k - 1 \in 1..(n - i) /\ i + (k - 1) = i + k - 1
        BY <1>1
      <4>2. q[k] = From(i + 1)[k - 1]
        BY <1>1, <3>2, <3>4, <4>1
      <4> QED
        BY <3>2, <4>1, <4>2, Zenon
    <3>7. \A k \in 1..(n - i + 1) : q[k] = From(i)[k]
      BY <1>1, <3>3, <3>5, <3>6
    <3> HIDE DEF q
    <3>8. q = From(i)
      BY <1>1, <3>3, <3>5, <3>7, SeqEqual, Zenon
    <3> QED
      BY <3>2, <3>8, Zenon DEF q
  <2>7. rs[i] \in Item
    BY <1>1, <1>2
  <2> HIDE DEF From
  <2>8. Before(rs[i], AllBefore(From(i + 1), x)) = AllBefore(From(i), x)
    BY <2>6, <2>7, OneMoreBefore, Zenon
  <2> QED
    BY <2>1, <2>2, <2>5, <2>8, Zenon
<1>6. From(1) = rs
  BY <1>1
<1> HIDE DEF N, From
<1>7. n \in N
  BY <1>4, <1>5, NatSetInduction, Zenon
<1>8. g[at[1]] = AllBefore(From(1), x)
  <2>1. n + 1 - n = 1
    BY <1>1
  <2> QED
    BY <1>7, <2>1 DEF N
<1>9. at[1] = 0
  BY Zenon DEF Layout
<1> QED
  BY <1>1, <1>3, <1>6, <1>8, <1>9, Zenon

\* The file holds the records rs and behind them a beginning of a frame.
Kept(b, rs) ==
  \E at, f : f \in Frames /\ Layout(b, rs, at) /\ Cut(b, at[Len(rs) + 1], f)

\* It reads as these records.
LEMMA KeptRead ==
  ASSUME NEW b \in Seq(Byte), NEW rs \in Seq(Record), Kept(b, rs)
  PROVE  ReadRecords(b).ok /\ ReadRecords(b).records = rs
<1>1. PICK at, f : f \in Frames /\ Layout(b, rs, at) /\ Cut(b, at[Len(rs) + 1], f)
  BY Zenon DEF Kept
<1>2. PICK g : /\ IsReader(b, g, 0..Len(b)) /\ ReadRecords(b) = g[0]
               /\ \A c \in 0..Len(b) : g[c] \in Result
  BY ReaderOf, Zenon
<1>3. PICK c : c = at[Len(rs) + 1]
  BY Zenon
<1>4. c \in 0..Len(b)
  BY <1>1, <1>3 DEF Layout
<1>5. g[0] = AllBefore(rs, g[c])
  BY <1>1, <1>2, <1>3, LayoutRead, Zenon
<1>6. g[c] = [ok |-> TRUE, records |-> <<>>, trailing |-> Len(b) - c]
  <2>1. g[c] = ReadAt(b, c, g[NextAt(b, c)])
    BY <1>2, <1>4, Zenon DEF IsReader
  <2>2. \A x : ReadAt(b, c, x) =
                 [ok |-> TRUE, records |-> <<>>, trailing |-> Len(b) - c]
    BY <1>1, <1>3, <1>4, CutRead, Zenon
  <2> QED
    BY <2>1, <2>2, Zenon
<1>7. rs \o <<>> = rs
  OBVIOUS
<1>8. g[0] = [g[c] EXCEPT !.records = rs \o <<>>]
  BY <1>5, <1>6 DEF AllBefore
<1> QED
  BY <1>2, <1>6, <1>7, <1>8

\* What an update of the field records gives.
LEMMA RecordsReplaced ==
  ASSUME NEW e, NEW q, NEW t, NEW o
  PROVE  [[ok |-> t, records |-> e, trailing |-> o] EXCEPT !.records = q]
           = [ok |-> t, records |-> q, trailing |-> o]
OBVIOUS

\* With nothing behind the records, nothing is left over.
LEMMA WholeRead ==
  ASSUME NEW b \in Seq(Byte), NEW rs \in Seq(Record), NEW at, Layout(b, rs, at),
         at[Len(rs) + 1] = Len(b)
  PROVE  ReadRecords(b) = [ok |-> TRUE, records |-> rs, trailing |-> 0]
<1>1. PICK g : /\ IsReader(b, g, 0..Len(b)) /\ ReadRecords(b) = g[0]
               /\ \A c \in 0..Len(b) : g[c] \in Result
  BY ReaderOf, Zenon
<1>2. PICK n \in Nat : n = Len(b)
  OBVIOUS
<1>3. g[0] = AllBefore(rs, g[n])
  BY <1>1, <1>2, LayoutRead
<1>4. g[n] = [ok |-> TRUE, records |-> <<>>, trailing |-> 0]
  <2>1. g[n] = ReadAt(b, n, g[NextAt(b, n)])
    BY <1>1, <1>2 DEF IsReader
  <2>2. Len(LeftAt(b, n)) = 0
    BY <1>2, LeftIs
  <2> QED
    BY <2>1, <2>2 DEF ReadAt, HeaderBytes, EndsAt
<1>5. rs \o <<>> = rs
  OBVIOUS
<1>6. g[0] = [g[n] EXCEPT !.records = rs \o <<>>]
  BY <1>3, <1>4 DEF AllBefore
<1>7. PICK e : e = <<>>
  BY Zenon
<1>8. g[0] = [[ok |-> TRUE, records |-> e, trailing |-> 0] EXCEPT !.records = rs]
  BY <1>4, <1>5, <1>6, <1>7, Zenon
<1> QED
  BY <1>1, <1>8, RecordsReplaced, Zenon

\* Whatever stands behind the records, a file that reads at all begins with
\* them.
LEMMA BeginRead ==
  ASSUME NEW b \in Seq(Byte), NEW rs \in Seq(Record), NEW at, Layout(b, rs, at),
         ReadRecords(b).ok
  PROVE  IsBeginning(rs, ReadRecords(b).records)
<1>1. PICK g : /\ IsReader(b, g, 0..Len(b)) /\ ReadRecords(b) = g[0]
               /\ \A c \in 0..Len(b) : g[c] \in Result
  BY ReaderOf, Zenon
<1>2. PICK x \in Result : x = g[at[Len(rs) + 1]]
  <2>1. at[Len(rs) + 1] \in 0..Len(b)
    BY DEF Layout
  <2> QED
    BY <1>1, <2>1, Zenon
<1>3. g[0] = AllBefore(rs, x)
  BY <1>1, <1>2, LayoutRead, Zenon
<1>4. x.ok
  BY <1>1, <1>3, Zenon DEF AllBefore
<1>5. PICK rest \in Seq(Item) : rest = x.records
  BY Zenon DEF Result
<1>6. g[0].records = rs \o rest
  <2>1. g[0] = [x EXCEPT !.records = rs \o rest]
    BY <1>3, <1>4, <1>5, Zenon DEF AllBefore
  <2> QED
    BY <2>1, Zenon DEF Result
<1>7. rs \in Seq(Item)
  <2>1. \A i \in 1..Len(rs) : rs[i] \in Item
    BY RecordIs
  <2> QED
    BY <2>1
<1>8. IsBeginning(rs, rs \o rest)
  <2>a. Len(rs) \in Nat /\ Len(rest) \in Nat
    BY <1>7
  <2>q. PICK q : q = rs \o rest
    BY Zenon
  <2>1. PICK n \in Nat, m \in Nat : n = Len(rs) /\ m = Len(rest)
    BY <2>a, Zenon
  <2>2. /\ q \in Seq(Item) /\ Len(q) = n + m /\ \A i \in 1..n : q[i] = rs[i]
    BY <1>7, <2>1, <2>q
  <2>3. rs = SubSeq(q, 1, n)
    BY <1>7, <2>1, <2>q, <2>2
  <2>4. n <= n + m
    BY <2>1, <2>q
  <2> QED
    BY <2>1, <2>q, <2>2, <2>3, <2>4, Zenon DEF IsBeginning
<1> QED
  BY <1>1, <1>6, <1>8, Zenon

\* Where record i stands.
LEMMA LayoutAt ==
  ASSUME NEW b \in Seq(Byte), NEW rs \in Seq(Record), NEW at, Layout(b, rs, at),
         NEW i \in 1..Len(rs)
  PROVE  /\ at[i] \in Nat /\ rs[i] \in Record /\ Len(rs[i].frame) \in Nat
         /\ at[i + 1] = at[i] + Len(rs[i].frame) + 1 /\ Stands(b, at[i], rs[i])
<1>1. i \in 1..(Len(rs) + 1)
  OBVIOUS
<1>2. at \in [1..(Len(rs) + 1) -> 0..Len(b)]
  BY Zenon DEF Layout
<1>3. at[i] \in 0..Len(b)
  BY <1>1, <1>2, Zenon
<1>4. at[i] \in Nat
  BY <1>3
<1>5. rs[i] \in Record
  OBVIOUS
<1>6. rs[i].frame \in Frames
  BY <1>5, Zenon DEF Record
<1>7. Len(rs[i].frame) \in Nat
  BY <1>6, FrameIs, Zenon
<1>8. at[i + 1] = at[i] + Len(rs[i].frame) + 1 /\ Stands(b, at[i], rs[i])
  BY Zenon DEF Layout
<1> QED
  BY <1>4, <1>5, <1>7, <1>8, Zenon

\* Records stay where they are when bytes are added.
LEMMA LayoutExtends ==
  ASSUME NEW b \in Seq(Byte), NEW rs \in Seq(Record), NEW at, Layout(b, rs, at),
         NEW c \in Seq(Byte)
  PROVE  Layout(b \o c, rs, at)
<1>a. Len(b) \in Nat
  OBVIOUS
<1>d. PICK d : d = b \o c
  BY Zenon
<1>1. PICK n \in Nat : n = Len(b)
  BY <1>a, Zenon
<1>2. Len(d) \in Nat /\ Len(d) >= n /\ \A i \in 1..n : d[i] = b[i]
  BY <1>1, <1>d
<1>3. \A k \in 0..n : k \in 0..Len(d)
  BY <1>1, <1>d, <1>2
<1>4. at \in [1..(Len(rs) + 1) -> 0..Len(d)]
  BY <1>1, <1>d, <1>3, Zenon DEF Layout
<1>5. ASSUME NEW i \in 1..Len(rs) PROVE Stands(d, at[i], rs[i])
  <2>1. PICK a \in Nat, l \in Nat : a = at[i] /\ l = Len(rs[i].frame)
    <3>1. at[i] \in Nat /\ Len(rs[i].frame) \in Nat
      BY LayoutAt, Zenon
    <3> QED
      BY <3>1, Zenon
  <2>2. /\ a + l + 1 <= n /\ b[a + l + 1] = rs[i].recvTs
        /\ \A k \in 1..l : b[a + k] = rs[i].frame[k]
    BY <1>1, <1>d, <2>1, Zenon DEF Layout, Stands
  <2>5. a + l + 1 <= n
    BY <2>2, Zenon
  <2>3. a + l + 1 \in 1..n /\ \A k \in 1..l : a + k \in 1..n
    BY <2>5
  <2>4. a + l + 1 <= Len(d)
    BY <1>2, <2>5
  <2> QED
    BY <1>2, <2>1, <2>2, <2>3, <2>4, Zenon DEF Stands
<1> QED
  BY <1>1, <1>d, <1>4, <1>5, Zenon DEF Layout

\* The file, with what is still buffered, holds the records and nothing else;
\* or the records and the frame f, its timestamp yet to come.
Recorded(b, rs) == \E at : Layout(b, rs, at) /\ at[Len(rs) + 1] = Len(b)

Recording(b, rs, f) ==
  \E at : /\ Layout(b, rs, at) /\ Len(b) = at[Len(rs) + 1] + Len(f)
          /\ Cut(b, at[Len(rs) + 1], f)

\* Nothing is recorded in an empty file.
LEMMA NothingRecorded == Recorded(<<>>, <<>>)
<1> DEFINE at == [i \in 1..1 |-> 0]
<1>1. PICK e : e = <<>>
  BY Zenon
<1>2. Len(e) = 0 /\ 0 + 1 = 1 /\ 0..0 = {0} /\ 1..0 = {}
  BY <1>1
<1>3. at \in [1..1 -> 0..0] /\ at[1] = 0
  BY <1>2
<1> HIDE DEF at
<1>4. Layout(e, e, at) /\ at[Len(e) + 1] = Len(e)
  BY <1>2, <1>3, Zenon DEF Layout
<1> QED
  BY <1>1, <1>4, Zenon DEF Recorded

\* The first write_all of record adds the frame.
LEMMA FrameAdded ==
  ASSUME NEW b \in Seq(Byte), NEW rs \in Seq(Record), Recorded(b, rs),
         NEW f \in Frames
  PROVE  Recording(b \o f, rs, f)
<1>1. PICK at : Layout(b, rs, at) /\ at[Len(rs) + 1] = Len(b)
  BY Zenon DEF Recorded
<1>2. f \in Seq(Byte) /\ Len(f) \in Nat /\ Len(b) \in Nat
  BY FrameIs
<1>3. Layout(b \o f, rs, at)
  BY <1>1, <1>2, LayoutExtends, Zenon
<1>d. PICK d : d = b \o f
  BY Zenon
<1>4. PICK n \in Nat, l \in Nat : n = Len(b) /\ l = Len(f)
  BY <1>2, Zenon
<1>5. Len(d) = n + l /\ \A k \in 1..l : d[n + k] = f[k]
  BY <1>2, <1>4, <1>d
<1>6. Len(d) - n = l /\ l <= l
  BY <1>4, <1>d, <1>5
<1>7. Cut(d, n, f)
  BY <1>4, <1>d, <1>5, <1>6, Zenon DEF Cut
<1> QED
  BY <1>1, <1>3, <1>4, <1>d, <1>5, <1>7, Zenon DEF Recording

\* The second one adds the timestamp, and the record is complete.
LEMMA TsAdded ==
  ASSUME NEW b \in Seq(Byte), NEW rs \in Seq(Record), NEW r \in Record,
         Recording(b, rs, r.frame)
  PROVE  Recorded(b \o <<r.recvTs>>, Append(rs, r))
<1>1. PICK at : /\ Layout(b, rs, at) /\ Len(b) = at[Len(rs) + 1] + Len(r.frame)
                /\ Cut(b, at[Len(rs) + 1], r.frame)
  BY Zenon DEF Recording
<1>2. r.frame \in Frames /\ r.recvTs \in Byte
  BY Zenon DEF Record
<1>3. Len(rs) \in Nat /\ Len(b) \in Nat /\ Len(r.frame) \in Nat
  BY <1>2, FrameIs
<1>4. at \in [1..(Len(rs) + 1) -> 0..Len(b)] /\ at[1] = 0
  BY <1>1, Zenon DEF Layout
<1>d. PICK d : d = b \o <<r.recvTs>>
  BY Zenon
<1>5. PICK n \in Nat, l \in Nat, m \in Nat :
        n = Len(rs) /\ l = Len(r.frame) /\ m = Len(b)
  BY <1>3, Zenon
<1>6. PICK a \in 0..m : a = at[n + 1]
  <2>1. n + 1 \in 1..(n + 1)
    BY <1>5, <1>d
  <2> QED
    BY <1>4, <1>5, <1>d, <2>1, Zenon
<1>7. m = a + l /\ m - a = l /\ m + 1 = a + l + 1 /\ a \in Nat
  BY <1>1, <1>5, <1>d, <1>6
<1>8. /\ Len(d) = m + 1 /\ d[m + 1] = r.recvTs
      /\ \A k \in 1..m : d[k] = b[k]
  BY <1>2, <1>5, <1>d
<1>9. Stands(d, a, r)
  <2>1. \A k \in 1..l : b[a + k] = r.frame[k]
    BY <1>1, <1>5, <1>d, <1>6, <1>7, Zenon DEF Cut
  <2>2. \A k \in 1..l : a + k \in 1..m
    BY <1>5, <1>d, <1>7
  <2>3. a + l + 1 <= m + 1
    BY <1>5, <1>d, <1>7
  <2> QED
    BY <1>5, <1>d, <1>7, <1>8, <2>1, <2>2, <2>3, Zenon DEF Stands
<1>10. Layout(d, rs, at)
  <2>1. <<r.recvTs>> \in Seq(Byte)
    BY <1>2
  <2> QED
    BY <1>1, <1>5, <1>d, <2>1, LayoutExtends, Zenon
<1> DEFINE more == [i \in 1..(n + 2) |-> IF i <= n + 1 THEN at[i] ELSE m + 1]
           all == Append(rs, r)
<1>11. /\ Len(all) = n + 1 /\ all[n + 1] = r
       /\ \A i \in 1..n : all[i] = rs[i]
  BY <1>5, <1>d
<1>12. /\ more \in [1..(n + 1 + 1) -> 0..(m + 1)] /\ more[1] = 0
       /\ more[n + 2] = m + 1 /\ \A i \in 1..(n + 1) : more[i] = at[i]
  <2>1. \A i \in 1..(n + 1) : at[i] \in 0..m /\ at[i] \in 0..(m + 1)
    <3>1. \A i \in 0..m : i \in 0..(m + 1)
      OBVIOUS
    <3> QED
      BY <1>4, <1>5, <1>d, <3>1, Zenon
  <2>2. \A i \in 1..(n + 2) : more[i] \in 0..(m + 1)
    BY <2>1
  <2>3. n + 1 + 1 = n + 2 /\ 1 \in 1..(n + 2) /\ 1 <= n + 1
    OBVIOUS
  <2>4. more[1] = 0
    BY <1>4, <2>3, Zenon
  <2>5. more[n + 2] = m + 1 /\ \A i \in 1..(n + 1) : more[i] = at[i]
    OBVIOUS
  <2>6. more \in [1..(n + 2) -> 0..(m + 1)]
    BY <2>2, Zenon
  <2> QED
    BY <2>3, <2>4, <2>5, <2>6, Zenon
<1> HIDE DEF more, all
<1>13. ASSUME NEW i \in 1..(n + 1)
       PROVE  more[i + 1] = more[i] + Len(all[i].frame) + 1 /\ Stands(d, more[i], all[i])
  <2>1. CASE i = n + 1
    <3>1. i + 1 = n + 2
      BY <2>1
    <3>2. more[i] = a /\ all[i] = r
      BY <1>6, <1>11, <1>12, <2>1, Zenon
    <3> QED
      BY <1>5, <1>d, <1>7, <1>9, <1>12, <3>1, <3>2, Zenon
  <2>2. CASE i # n + 1
    <3>1. i \in 1..n /\ i + 1 \in 1..(n + 1)
      BY <2>2
    <3>2. at[i + 1] = at[i] + Len(rs[i].frame) + 1 /\ Stands(d, at[i], rs[i])
      BY <1>5, <1>d, <1>10, <3>1, Zenon DEF Layout
    <3> QED
      BY <1>11, <1>12, <3>1, <3>2, Zenon
  <2> QED
    BY <2>1, <2>2, Zenon
<1>14. Layout(d, all, more) /\ more[Len(all) + 1] = Len(d)
  <2>1. n + 1 + 1 = n + 2
    OBVIOUS
  <2> QED
    BY <1>8, <1>11, <1>12, <1>13, <2>1, Zenon DEF Layout
<1>15. Recorded(d, all)
  BY <1>14, Zenon DEF Recorded
<1> QED
  BY <1>5, <1>d, <1>15, Zenon DEF all

\* The first of some numbers.
LEMMA FirstOf ==
  ASSUME NEW n \in Nat, NEW S \in SUBSET (1..(n + 1)), n + 1 \in S
  PROVE  \E j \in S : \A i \in 1..(j - 1) : i \notin S
<1>1. S \in SUBSET Nat /\ S # {}
  OBVIOUS
<1>2. PICK j \in S : \A i \in S : j <= i
  BY <1>1, LeastNat, Zenon
<1>3. ASSUME NEW i \in 1..(j - 1) PROVE i \notin S
  <2>1. j \in Nat /\ ~(j <= i)
    BY <1>1
  <2> QED
    BY <1>2, <2>1, Zenon
<1> QED
  BY <1>3, Zenon

\* A beginning of such a file holds a beginning of the records.
KeptSome(b, rs) == \E k \in 0..Len(rs) : Kept(b, SubSeq(rs, 1, k))

LEMMA KeptPrefix ==
  ASSUME NEW b \in Seq(Byte), NEW rs \in Seq(Record), Kept(b, rs),
         NEW l \in 0..Len(b)
  PROVE  KeptSome(SubSeq(b, 1, l), rs)
<1>1. PICK at, f : f \in Frames /\ Layout(b, rs, at) /\ Cut(b, at[Len(rs) + 1], f)
  BY Zenon DEF Kept
<1>2. Len(rs) \in Nat /\ Len(b) \in Nat
  OBVIOUS
<1>d. PICK d : d = SubSeq(b, 1, l)
  BY Zenon
<1>3. PICK n \in Nat, m \in Nat : n = Len(rs) /\ m = Len(b)
  BY <1>2, Zenon
<1>4. l \in Nat /\ l <= m /\ Len(d) = l /\ \A i \in 1..l : d[i] = b[i]
  BY <1>3, <1>d
<1>5. at \in [1..(n + 1) -> 0..m] /\ at[1] = 0
  BY <1>1, <1>3, <1>d, Zenon DEF Layout
<1> DEFINE S == {i \in 1..(n + 1) : i = n + 1 \/ ~(at[i + 1] <= l)}
<1>6. PICK j \in S : \A i \in 1..(j - 1) : i \notin S
  <2>1. S \in SUBSET (1..(n + 1)) /\ n + 1 \in S
    BY <1>3, <1>d
  <2> HIDE DEF S
  <2> QED
    BY <1>3, <1>d, <2>1, FirstOf, Zenon
<1>7. j \in 1..(n + 1)
  BY Zenon
<1>8. ASSUME NEW i \in 1..j PROVE at[i] \in 0..l
  <2>1. CASE i = 1
    BY <1>4, <1>5, <2>1
  <2>2. CASE i # 1
    <3>1. i - 1 \in 1..(j - 1) /\ i - 1 \in 1..(n + 1) /\ i - 1 # n + 1
          /\ (i - 1) + 1 = i /\ i \in 1..(n + 1)
      BY <1>7, <2>2
    <3>2. at[i] <= l
      BY <1>6, <3>1, Zenon
    <3>3. at[i] \in 0..m
      BY <1>5, <3>1, Zenon
    <3> QED
      BY <1>4, <3>2, <3>3
  <2> QED
    BY <2>1, <2>2, Zenon
<1> HIDE DEF S
<1>9. PICK k \in 0..n : k = j - 1 /\ k + 1 = j
  BY <1>7
<1> DEFINE q == SubSeq(rs, 1, k)
           some == [i \in 1..j |-> at[i]]
<1>10. Len(q) = k /\ \A i \in 1..k : q[i] = rs[i]
  BY <1>3, <1>d
<1>11. /\ some \in [1..(k + 1) -> 0..l] /\ some[1] = 0 /\ some[j] = at[j]
       /\ \A i \in 1..k : some[i] = at[i] /\ some[i + 1] = at[i + 1]
  <2>1. 1 \in 1..j /\ j \in 1..j /\ \A i \in 1..k : i \in 1..j /\ i + 1 \in 1..j
    BY <1>7, <1>9
  <2> QED
    BY <1>5, <1>8, <1>9, <2>1, Zenon
<1> HIDE DEF q, some
<1>12. ASSUME NEW i \in 1..k
       PROVE  some[i + 1] = some[i] + Len(q[i].frame) + 1 /\ Stands(d, some[i], q[i])
  <2>1. i \in 1..n /\ i + 1 \in 1..j
    BY <1>9
  <2>2. PICK a \in Nat, h \in Nat : a = at[i] /\ h = Len(rs[i].frame)
    <3>1. at[i] \in Nat /\ Len(rs[i].frame) \in Nat
      BY <1>1, <1>3, <1>d, <2>1, LayoutAt, Zenon
    <3> QED
      BY <3>1, Zenon
  <2>3. at[i + 1] = a + h + 1 /\ Stands(b, a, rs[i])
    BY <1>1, <1>3, <1>d, <2>1, <2>2, LayoutAt, Zenon
  <2>4. a + h + 1 \in 0..l
    BY <1>8, <2>1, <2>3, Zenon
  <2>5. a + h + 1 <= l /\ a + h + 1 \in 1..l /\ \A p \in 1..h : a + p \in 1..l
    BY <1>4, <2>4
  <2>6. Stands(d, a, rs[i])
    BY <1>4, <2>2, <2>3, <2>5, Zenon DEF Stands
  <2> QED
    BY <1>10, <1>11, <2>2, <2>3, <2>6, Zenon
<1>13. Layout(d, q, some)
  BY <1>4, <1>10, <1>11, <1>12, Zenon DEF Layout
<1>14. PICK a \in 0..l : a = at[j]
  <2>1. j \in 1..j
    BY <1>7
  <2> QED
    BY <1>8, <2>1, Zenon
<1>15. \E g \in Frames : Cut(d, a, g)
  <2>1. CASE j = n + 1
    <3>1. m - a <= Len(f) /\ \A p \in 1..(m - a) : b[a + p] = f[p]
      BY <1>1, <1>3, <1>d, <1>14, <2>1, Zenon DEF Cut
    <3>2. Len(f) \in Nat
      BY <1>1, FrameIs, Zenon
    <3>3. /\ l - a <= Len(f)
          /\ \A p \in 1..(l - a) : p \in 1..(m - a) /\ a + p \in 1..l
      BY <1>4, <3>1, <3>2
    <3>4. Cut(d, a, f)
      BY <1>4, <3>1, <3>3, Zenon DEF Cut
    <3> QED
      BY <1>1, <3>4, Zenon
  <2>2. CASE j # n + 1
    <3>1. j \in 1..n /\ j \in 1..Len(rs)
      BY <1>3, <1>d, <1>7, <2>2
    <3>2. PICK h \in Nat : h = Len(rs[j].frame)
      BY <1>1, <3>1, LayoutAt, Zenon
    <3>3. at[j + 1] = a + h + 1 /\ Stands(b, a, rs[j]) /\ rs[j].frame \in Frames
      <4>1. at[j + 1] = a + h + 1 /\ Stands(b, a, rs[j]) /\ rs[j] \in Record
        BY <1>1, <1>14, <3>1, <3>2, LayoutAt, Zenon
      <4> QED
        BY <4>1, Zenon DEF Record
    <3>4. ~(a + h + 1 <= l)
      BY <2>2, <3>3, Zenon DEF S
    <3>5. l - a <= h /\ \A p \in 1..(l - a) : p \in 1..h /\ a + p \in 1..l
      BY <1>4, <3>4
    <3>6. Cut(d, a, rs[j].frame)
      BY <1>4, <3>2, <3>3, <3>5, Zenon DEF Cut, Stands
    <3> QED
      BY <3>3, <3>6, Zenon
  <2> QED
    BY <2>1, <2>2, Zenon
<1>16. Kept(d, q)
  BY <1>9, <1>10, <1>11, <1>13, <1>14, <1>15, Zenon DEF Kept
<1> QED
  BY <1>3, <1>d, <1>16, Zenon DEF KeptSome, q

\* A file with whole records, or with a frame behind them, is such a file.
LEMMA RecordedKept ==
  ASSUME NEW b \in Seq(Byte), NEW rs \in Seq(Record), Recorded(b, rs)
  PROVE  Kept(b, rs)
<1>1. PICK at : Layout(b, rs, at) /\ at[Len(rs) + 1] = Len(b)
  BY Zenon DEF Recorded
<1>2. PICK f \in Frames : TRUE
  BY FramesAssumption, Zenon
<1>3. Len(f) \in Nat
  BY FrameIs, Zenon
<1>4. PICK n \in Nat : n = Len(b)
  OBVIOUS
<1>5. n - n <= Len(f) /\ \A k \in 1..(n - n) : FALSE
  BY <1>3
<1>6. Cut(b, n, f)
  BY <1>4, <1>5, Zenon DEF Cut
<1> QED
  BY <1>1, <1>4, <1>6, Zenon DEF Kept

LEMMA RecordingKept ==
  ASSUME NEW b, NEW rs, NEW f \in Frames, Recording(b, rs, f)
  PROVE  Kept(b, rs)
BY Zenon DEF Recording, Kept

-----------------------------------------------------------------------------
(* The writer.                                                             *)

\* Appended(piece): the writer's stream, the file and the buffer behind it,
\* grows by the piece, and the file by some bytes; the buffer keeps to its
\* capacity.
Appended(w, piece) ==
  /\ file' \in Seq(Byte)
  /\ buffer' \in [Writer -> Seq(Byte)]
  /\ \A v \in Writer : Len(buffer'[v]) <= BufCapacity
  /\ file' \o buffer'[w] = (file \o buffer[w]) \o piece
  /\ \E c \in Seq(Byte) : file' = file \o c

\* The cases of write_all, on sequences.
LEMMA Pieces ==
  ASSUME NEW a \in Seq(Byte), NEW q \in Seq(Byte), NEW p \in Seq(Byte)
  PROVE  /\ ((a \o q) \o <<>>) \o p = (a \o q) \o p
         /\ ((a \o q) \o p) \o <<>> = (a \o q) \o p
         /\ ((a \o <<>>) \o <<>>) \o (q \o p) = (a \o q) \o p
         /\ (a \o q) \o p = a \o (q \o p)
         /\ (a \o q) \o <<>> = a \o q
         /\ (a \o <<>>) \o <<>> = a \o <<>>
         /\ (a \o <<>>) \o p = a \o p
         /\ <<>> \o p = p
<1>1. \A s \in Seq(Byte) : s \o <<>> = s /\ <<>> \o s = s
  OBVIOUS
<1>2. a \o q \in Seq(Byte) /\ (a \o q) \o p \in Seq(Byte)
  BY ConcatProperties, Zenon
<1>3. (a \o q) \o p = a \o (q \o p)
  BY ConcatAssociative
<1> QED
  BY <1>1, <1>2, <1>3, Zenon

\* write_all adds the piece.
LEMMA WriteAllAppends ==
  ASSUME RecorderTypeOK, NEW w \in Writer, NEW piece \in Seq(Byte), WriteAll(w, piece)
  PROVE  Appended(w, piece)
<1>1. PICK a \in Seq(Byte), q \in Seq(Byte) : a = file /\ q = buffer[w]
  BY Zenon DEF RecorderTypeOK
<1>2. PICK n \in Nat, m \in Nat : n = Len(q) /\ m = Len(piece)
  OBVIOUS
<1>3. BufCapacity \in Nat /\ n <= BufCapacity
  BY <1>1, <1>2, BufCapacityAssumption, Zenon DEF RecorderTypeOK
<1> DEFINE full == n + m > BufCapacity
           direct == m >= BufCapacity
<1>4. /\ file' = a \o (IF full THEN q ELSE <<>>) \o (IF direct THEN piece ELSE <<>>)
      /\ buffer' = [buffer EXCEPT ![w] =
                      IF direct THEN IF full THEN <<>> ELSE q
                                ELSE (IF full THEN <<>> ELSE q) \o piece]
  BY <1>1, <1>2, Zenon DEF WriteAll
<1>5. q \o piece \in Seq(Byte) /\ Len(q \o piece) = n + m
  BY <1>2
<1>6. <<>> \in Seq(Byte) /\ Len(<<>>) = 0
  OBVIOUS
<1>7. ASSUME NEW x \in Seq(Byte), NEW y \in Seq(Byte), Len(y) <= BufCapacity,
             file' = a \o x, buffer' = [buffer EXCEPT ![w] = y],
             (a \o x) \o y = (a \o q) \o piece
      PROVE  Appended(w, piece)
  <2>1. file' \in Seq(Byte)
    BY <1>7, ConcatProperties, Zenon
  <2>2. buffer' \in [Writer -> Seq(Byte)] /\ buffer'[w] = y
    BY <1>7, Zenon DEF RecorderTypeOK
  <2>3. \A v \in Writer : Len(buffer'[v]) <= BufCapacity
    BY <1>7, Zenon DEF RecorderTypeOK
  <2>4. file' \o buffer'[w] = (file \o buffer[w]) \o piece
    BY <1>1, <1>7, <2>2, Zenon
  <2> QED
    BY <1>1, <1>7, <2>1, <2>2, <2>3, <2>4, Zenon DEF Appended
<1>8. CASE full /\ direct
  <2>1. file' = (a \o q) \o piece /\ buffer' = [buffer EXCEPT ![w] = <<>>]
    BY <1>4, <1>8, Zenon
  <2>2. (a \o q) \o piece = a \o (q \o piece)
    BY Pieces, Zenon
  <2>4. ((a \o q) \o piece) \o <<>> = (a \o q) \o piece
    <3>1. \A s \in Seq(Byte) : s \o <<>> = s
      OBVIOUS
    <3>2. (a \o q) \o piece \in Seq(Byte)
      BY ConcatProperties, Zenon
    <3> QED
      BY <3>1, <3>2, Zenon
  <2>3. 0 <= BufCapacity
    BY <1>3
  <2> QED
    BY <1>5, <1>6, <1>7, <2>1, <2>2, <2>3, <2>4, Zenon
<1>9. CASE full /\ ~direct
  <2>1. file' = (a \o q) \o <<>> /\ buffer' = [buffer EXCEPT ![w] = <<>> \o piece]
    BY <1>4, <1>9, Zenon
  <2>2. (a \o q) \o <<>> = a \o q /\ <<>> \o piece = piece
    BY Pieces, Zenon
  <2>3. m <= BufCapacity
    BY <1>3, <1>9
  <2> QED
    BY <1>2, <1>7, <2>1, <2>2, <2>3, Zenon
<1>10. CASE ~full /\ direct
  <2>1. n = 0
    BY <1>2, <1>3, <1>10
  <2>2. q = <<>>
    BY <1>2, <2>1, EmptySeq, Zenon
  <2>3. file' = (a \o <<>>) \o piece /\ buffer' = [buffer EXCEPT ![w] = q]
    BY <1>4, <1>10, Zenon
  <2>4. (a \o <<>>) \o piece = a \o piece
    BY Pieces, Zenon
  <2>5. a \o piece \in Seq(Byte) /\ (a \o piece) \o <<>> = a \o piece
    BY ConcatProperties, Pieces, Zenon
  <2>6. (a \o piece) \o q = (a \o q) \o piece
    BY <2>2, <2>4, <2>5, Zenon
  <2> QED
    BY <1>2, <1>3, <1>7, <2>3, <2>4, <2>6, Zenon
<1>11. CASE ~full /\ ~direct
  <2>1. /\ file' = (a \o <<>>) \o <<>>
        /\ buffer' = [buffer EXCEPT ![w] = q \o piece]
    BY <1>4, <1>11, Zenon
  <2>2. (a \o <<>>) \o <<>> = a \o <<>> /\ (a \o <<>>) \o (q \o piece) = (a \o q) \o piece
    <3>1. ((a \o <<>>) \o <<>>) \o (q \o piece) = (a \o q) \o piece
          /\ (a \o <<>>) \o <<>> = a \o <<>>
      BY Pieces, Zenon
    <3> QED
      BY <3>1, Zenon
  <2>3. n + m <= BufCapacity
    BY <1>2, <1>3, <1>11
  <2> QED
    BY <1>5, <1>6, <1>7, <2>1, <2>2, <2>3, Zenon
<1> QED
  BY <1>8, <1>9, <1>10, <1>11, Zenon

-----------------------------------------------------------------------------
(* The invariant.                                                          *)

\* Without a crash the stream of the one writer w is the records written, and
\* behind them the frame of the one being written.  After one, the file holds
\* a beginning of them, and intact, which stays in front of whatever is
\* recorded when the file is opened again.
RecorderInv(w) ==
  /\ RecorderTypeOK
  /\ status[w] = "closed" => buffer[w] = <<>>
  /\ past = "clean" =>
       IF status[w] = "in record"
       THEN Recording(file \o buffer[w], written, record[w].frame)
       ELSE Recorded(file \o buffer[w], written)
  /\ past = "crashed" => status[w] = "closed" /\ KeptSome(file, written)
  /\ past # "clean" => \E at : Layout(file, intact, at)

\* The recorder starts with an empty file.
LEMMA InitRecorderInv ==
  ASSUME NEW w, Writer = {w}, Init
  PROVE  RecorderInv(w)
<1>1. PICK f \in Frames : TRUE
  BY FramesAssumption, Zenon
<1>2. 0 \in Byte
  BY RadixAssumption DEF Byte
<1>3. [frame |-> f, recvTs |-> 0] \in Record
  BY <1>2, Zenon DEF Record
<1>4. (CHOOSE r \in Record : TRUE) \in Record
  BY <1>3, Zenon
<1>5. /\ file = <<>> /\ status[w] = "closed" /\ buffer[w] = <<>> /\ written = <<>>
      /\ past = "clean"
  BY Zenon DEF Init
<1>6. RecorderTypeOK
  <2>1. Len(<<>>) <= BufCapacity
    BY BufCapacityAssumption
  <2>2. \A v \in Writer : Len(buffer[v]) <= BufCapacity
    BY <1>5, <2>1, Zenon
  <2>3. record \in [Writer -> Record]
    BY <1>4, Zenon DEF Init
  <2> QED
    BY <2>2, <2>3 DEF Init, RecorderTypeOK
<1>7. <<>> \o <<>> = <<>>
  OBVIOUS
<1>8. Recorded(file \o buffer[w], written)
  BY <1>5, <1>7, NothingRecorded, Zenon
<1> QED
  BY <1>5, <1>6, <1>8, Zenon DEF RecorderInv

\* A crash in the middle of sending the buffer out leaves a beginning of the
\* stream in the file.
LEMMA CrashKeeps ==
  ASSUME NEW b \in Seq(Byte), NEW q \in Seq(Byte), NEW rs \in Seq(Record),
         Kept(b \o q, rs), NEW k \in 0..Len(q)
  PROVE  /\ b \o SubSeq(q, 1, k) \in Seq(Byte)
         /\ KeptSome(b \o SubSeq(q, 1, k), rs)
<1>a. b \o q \in Seq(Byte) /\ Len(b) \in Nat
  OBVIOUS
<1>1. PICK d \in Seq(Byte), l \in Nat : d = b \o q /\ l = Len(b)
  BY <1>a, Zenon
<1>2. Len(q) \in Nat /\ Len(d) = l + Len(q)
  BY <1>1
<1>3. l + k \in 0..Len(d)
  BY <1>1, <1>2
<1>4. SubSeq(d, 1, l + k) = b \o SubSeq(q, 1, k)
  <2>1. PICK m \in Nat : m = Len(q)
    BY <1>2, Zenon
  <2>2. PICK x, y : x = SubSeq(d, 1, l + k) /\ y = SubSeq(q, 1, k)
    BY Zenon
  <2>3. \A i \in 1..m : q[i] \in Byte /\ d[l + i] = q[i]
    BY <1>1, <2>1
  <2>4. y \in Seq(Byte) /\ Len(y) = k /\ \A i \in 1..k : y[i] = q[i]
    BY <2>1, <2>2
  <2>5. \A i \in 1..l : d[i] = b[i]
    BY <1>1
  <2>6. x \in Seq(Byte) /\ Len(x) = l + k /\ \A i \in 1..(l + k) : x[i] = d[i]
    BY <1>1, <1>3, <2>2
  <2>7. /\ b \o y \in Seq(Byte) /\ Len(b \o y) = l + k
        /\ \A i \in 1..l : (b \o y)[i] = b[i]
        /\ \A i \in 1..k : (b \o y)[l + i] = y[i]
    <3>1. y \in Seq(Byte) /\ Len(y) = k
      BY <2>4, Zenon
    <3>2. b \o y \in Seq(Byte) /\ Len(b \o y) = Len(b) + Len(y)
      BY <3>1, ConcatProperties, Zenon
    <3>3. \A i \in 1..Len(b) : (b \o y)[i] = b[i]
      BY <3>1
    <3>4. \A i \in 1..Len(y) : (b \o y)[Len(b) + i] = y[i]
      BY <3>1
    <3> QED
      BY <1>1, <3>1, <3>2, <3>3, <3>4, Zenon
  <2>8. ASSUME NEW i \in 1..(l + k) PROVE x[i] = (b \o y)[i]
    <3>1. CASE i <= l
      <4>1. i \in 1..l
        BY <3>1
      <4> QED
        BY <2>5, <2>6, <2>7, <4>1, Zenon
    <3>2. CASE ~(i <= l)
      <4>1. PICK j \in 1..k : i = l + j /\ j \in 1..m
        <5>1. i - l \in 1..k /\ i = l + (i - l) /\ i - l \in 1..m
          BY <2>1, <3>2
        <5> QED
          BY <5>1, Zenon
      <4> QED
        BY <2>3, <2>4, <2>6, <2>7, <4>1, Zenon
    <3> QED
      BY <3>1, <3>2, Zenon
  <2> QED
    BY <2>2, <2>6, <2>7, <2>8, SeqEqual, Zenon
<1>5. KeptSome(SubSeq(d, 1, l + k), rs)
  BY <1>1, <1>3, KeptPrefix, Zenon
<1>6. SubSeq(d, 1, l + k) \in Seq(Byte)
  BY <1>1, <1>3
<1> QED
  BY <1>4, <1>5, <1>6, Zenon

\* Without a crash the stream holds the records written.
LEMMA StreamKept ==
  ASSUME NEW w \in Writer, RecorderInv(w), past = "clean"
  PROVE  Kept(file \o buffer[w], written)
<1>1. /\ file \o buffer[w] \in Seq(Byte) /\ written \in Seq(Record)
      /\ record[w] \in Record
  <2>1. /\ file \in Seq(Byte) /\ buffer[w] \in Seq(Byte) /\ written \in Seq(Record)
        /\ record[w] \in Record
    BY Zenon DEF RecorderInv, RecorderTypeOK
  <2> QED
    BY <2>1, ConcatProperties, Zenon
<1>2. record[w].frame \in Frames
  BY <1>1, Zenon DEF Record
<1>3. CASE status[w] = "in record"
  <2>1. Recording(file \o buffer[w], written, record[w].frame)
    BY <1>3, Zenon DEF RecorderInv
  <2> QED
    BY <1>2, <2>1, RecordingKept, Zenon
<1>4. CASE status[w] # "in record"
  <2>1. Recorded(file \o buffer[w], written)
    BY <1>4, Zenon DEF RecorderInv
  <2> QED
    BY <1>1, <2>1, RecordedKept, Zenon
<1> QED
  BY <1>3, <1>4, Zenon

\* The file when the writer sends out what it buffered: the stream.
LEMMA FlushKeeps ==
  ASSUME NEW w \in Writer, RecorderTypeOK, file' = file \o buffer[w],
         buffer' = [buffer EXCEPT ![w] = <<>>]
  PROVE  Appended(w, <<>>)
<1>1. PICK a \in Seq(Byte), q \in Seq(Byte) : a = file /\ q = buffer[w]
  BY Zenon DEF RecorderTypeOK
<1>2. a \o q \in Seq(Byte) /\ (a \o q) \o <<>> = a \o q
  BY ConcatProperties, Pieces, Zenon
<1>3. <<>> \in Seq(Byte) /\ Len(<<>>) <= BufCapacity
  BY BufCapacityAssumption
<1>4. /\ buffer' \in [Writer -> Seq(Byte)] /\ buffer'[w] = <<>>
      /\ \A v \in Writer : Len(buffer'[v]) <= BufCapacity
  BY <1>3, Zenon DEF RecorderTypeOK
<1> QED
  BY <1>1, <1>2, <1>4, Zenon DEF Appended

\* What stands in the file stays there.
LEMMA AppendedKeeps ==
  ASSUME NEW w \in Writer, RecorderTypeOK, NEW piece, Appended(w, piece),
         \E at : Layout(file, intact, at)
  PROVE  \E at : Layout(file', intact, at)
<1>1. PICK at : Layout(file, intact, at)
  BY Zenon
<1>2. PICK c \in Seq(Byte) : file' = file \o c
  BY Zenon DEF Appended
<1>3. file \in Seq(Byte) /\ intact \in Seq(Record)
  BY Zenon DEF RecorderTypeOK
<1>4. Layout(file \o c, intact, at)
  BY <1>1, <1>3, LayoutExtends, Zenon
<1> QED
  BY <1>2, <1>4, Zenon

\* Every step preserves the invariant.
LEMMA NextRecorderInv ==
  ASSUME NEW w, Writer = {w}, RecorderInv(w), [Next]_vars
  PROVE  RecorderInv(w)'
<1>1. w \in Writer /\ RecorderTypeOK /\ (status[w] = "closed" => buffer[w] = <<>>)
  BY Zenon DEF RecorderInv
<1>2. /\ file \in Seq(Byte) /\ written \in Seq(Record) /\ intact \in Seq(Record)
      /\ status \in [Writer -> {"closed", "open", "in record"}]
      /\ buffer \in [Writer -> Seq(Byte)] /\ record \in [Writer -> Record]
      /\ past \in {"clean", "crashed", "reopened"}
      /\ \A v \in Writer : Len(buffer[v]) <= BufCapacity
  BY <1>1, Zenon DEF RecorderTypeOK
<1>3. file \o buffer[w] \in Seq(Byte)
  BY <1>1, <1>2, ConcatProperties, Zenon
<1>4. /\ past = "crashed" => status[w] = "closed" /\ KeptSome(file, written)
      /\ past # "clean" => \E at : Layout(file, intact, at)
      /\ past = "clean" => IF status[w] = "in record"
                           THEN Recording(file \o buffer[w], written, record[w].frame)
                           ELSE Recorded(file \o buffer[w], written)
  BY Zenon DEF RecorderInv
<1>5. CASE Open(w)
  <2>1. /\ status[w] = "closed" /\ status'[w] = "open"
        /\ past' = IF past = "clean" THEN past ELSE "reopened"
        /\ UNCHANGED <<file, buffer, record, written, intact>>
    BY <1>1, <1>2, <1>5, Zenon DEF Open
  <2>2. RecorderTypeOK'
    BY <1>1, <1>2, <1>5, Zenon DEF Open, RecorderTypeOK
  <2>3. past' = "clean" => past = "clean"
    BY <2>1, Zenon
  <2>4. past' # "crashed" /\ (past' # "clean" => past # "clean")
    BY <2>1, Zenon
  <2> QED
    BY <1>4, <2>1, <2>2, <2>3, <2>4, Zenon DEF RecorderInv
<1>6. ASSUME NEW r \in Record, RecordFrame(w, r) PROVE RecorderInv(w)'
  <2>1. /\ status[w] = "open" /\ WriteAll(w, r.frame)
        /\ record' = [record EXCEPT ![w] = r] /\ status' = [status EXCEPT ![w] = "in record"]
        /\ UNCHANGED <<written, past, intact>>
    BY <1>6, Zenon DEF RecordFrame
  <2>2. r.frame \in Frames
    BY Zenon DEF Record
  <2>3. r.frame \in Seq(Byte)
    BY <2>2, FrameIs, Zenon
  <2>4. Appended(w, r.frame)
    BY <1>1, <2>1, <2>3, WriteAllAppends, Zenon
  <2>5. record'[w] = r /\ status'[w] = "in record"
    BY <1>1, <1>2, <2>1, Zenon
  <2>6. RecorderTypeOK'
    BY <1>2, <2>1, <2>4, Zenon DEF Appended, RecorderTypeOK
  <2>7. CASE past = "clean"
    <3>1. Recorded(file \o buffer[w], written)
      BY <1>4, <2>1, <2>7, Zenon
    <3>2. Recording((file \o buffer[w]) \o r.frame, written, r.frame)
      BY <1>2, <1>3, <2>2, <3>1, FrameAdded, Zenon
    <3>3. Recording(file' \o buffer'[w], written', record'[w].frame)
      BY <2>1, <2>4, <2>5, <3>2, Zenon DEF Appended
    <3> QED
      BY <2>1, <2>5, <2>6, <2>7, <3>3, Zenon DEF RecorderInv
  <2>8. CASE past # "clean"
    <3>1. \E at : Layout(file', intact, at)
      BY <1>1, <1>4, <2>4, <2>8, AppendedKeeps, Zenon
    <3>2. past # "crashed"
      BY <1>4, <2>1, Zenon
    <3> QED
      BY <2>1, <2>5, <2>6, <2>8, <3>1, <3>2, Zenon DEF RecorderInv
  <2> QED
    BY <2>7, <2>8, Zenon
<1>7. CASE RecordTs(w)
  <2>1. /\ status[w] = "in record" /\ WriteAll(w, <<record[w].recvTs>>)
        /\ written' = Append(written, record[w]) /\ status' = [status EXCEPT ![w] = "open"]
        /\ UNCHANGED <<record, past, intact>>
    BY <1>7, Zenon DEF RecordTs
  <2>2. record[w] \in Record
    BY <1>1, <1>2, Zenon
  <2>3. <<record[w].recvTs>> \in Seq(Byte)
    BY <2>2 DEF Record
  <2>4. Appended(w, <<record[w].recvTs>>)
    BY <1>1, <2>1, <2>3, WriteAllAppends, Zenon
  <2>5. status'[w] = "open" /\ written' \in Seq(Record)
    <3>1. status'[w] = "open"
      BY <1>1, <1>2, <2>1, Zenon
    <3>2. Append(written, record[w]) \in Seq(Record)
      BY <1>2, <2>2, AppendProperties, Zenon
    <3> QED
      BY <2>1, <3>1, <3>2, Zenon
  <2>6. RecorderTypeOK'
    BY <1>2, <2>1, <2>4, <2>5, Zenon DEF Appended, RecorderTypeOK
  <2>7. CASE past = "clean"
    <3>1. Recording(file \o buffer[w], written, record[w].frame)
      BY <1>4, <2>1, <2>7, Zenon
    <3>2. Recorded((file \o buffer[w]) \o <<record[w].recvTs>>, Append(written, record[w]))
      BY <1>2, <1>3, <2>2, <3>1, TsAdded, Zenon
    <3>3. Recorded(file' \o buffer'[w], written')
      BY <2>1, <2>4, <3>2, Zenon DEF Appended
    <3> QED
      BY <2>1, <2>5, <2>6, <2>7, <3>3, Zenon DEF RecorderInv
  <2>8. CASE past # "clean"
    <3>1. \E at : Layout(file', intact, at)
      BY <1>1, <1>4, <2>4, <2>8, AppendedKeeps, Zenon
    <3>2. past # "crashed"
      BY <1>4, <2>1, Zenon
    <3> QED
      BY <2>1, <2>5, <2>6, <2>8, <3>1, <3>2, Zenon DEF RecorderInv
  <2> QED
    BY <2>7, <2>8, Zenon
<1>8. CASE Flush(w) \/ DropRecorder(w)
  <2>1. /\ status[w] = "open" /\ file' = file \o buffer[w]
        /\ buffer' = [buffer EXCEPT ![w] = <<>>]
        /\ UNCHANGED <<record, written, past, intact>>
    BY <1>8, Zenon DEF Flush, DropRecorder
  <2>2. Appended(w, <<>>)
    BY <1>1, <2>1, FlushKeeps, Zenon
  <2>3. /\ status'[w] # "in record" /\ buffer'[w] = <<>>
        /\ status' \in [Writer -> {"closed", "open", "in record"}]
    BY <1>1, <1>2, <1>8, <2>1, Zenon DEF Flush, DropRecorder
  <2>4. RecorderTypeOK'
    BY <1>2, <2>1, <2>2, <2>3, Zenon DEF Appended, RecorderTypeOK
  <2>5. CASE past = "clean"
    <3>1. Recorded(file \o buffer[w], written)
      BY <1>4, <2>1, <2>5, Zenon
    <3>2. (file \o buffer[w]) \o <<>> = file \o buffer[w]
      BY <1>1, <1>2, Pieces, Zenon
    <3>3. Recorded(file' \o buffer'[w], written')
      BY <2>1, <2>2, <3>1, <3>2, Zenon DEF Appended
    <3> QED
      BY <2>1, <2>3, <2>4, <2>5, <3>3, Zenon DEF RecorderInv
  <2>6. CASE past # "clean"
    <3>1. \E at : Layout(file', intact, at)
      BY <1>1, <1>4, <2>2, <2>6, AppendedKeeps, Zenon
    <3>2. past # "crashed"
      BY <1>4, <2>1, Zenon
    <3> QED
      BY <2>1, <2>3, <2>4, <2>6, <3>1, <3>2, Zenon DEF RecorderInv
  <2> QED
    BY <2>5, <2>6, Zenon
<1>9. CASE Crash(w)
  <2>1. PICK k \in 0..Len(buffer[w]) : file' = file \o SubSeq(buffer[w], 1, k)
    BY <1>9, Zenon DEF Crash
  <2>2. /\ past = "clean" /\ past' = "crashed" /\ intact' = ReadRecords(file').records
        /\ buffer' = [buffer EXCEPT ![w] = <<>>] /\ status' = [status EXCEPT ![w] = "closed"]
        /\ UNCHANGED <<record, written>>
    BY <1>9, Zenon DEF Crash
  <2>3. Kept(file \o buffer[w], written)
    BY <1>1, <2>2, StreamKept, Zenon
  <2>4. buffer[w] \in Seq(Byte)
    BY <1>1, <1>2, Zenon
  <2>5. file' \in Seq(Byte) /\ KeptSome(file', written)
    BY <1>2, <2>1, <2>3, <2>4, CrashKeeps, Zenon
  <2>6. PICK j \in 0..Len(written) : Kept(file', SubSeq(written, 1, j))
    BY <2>5, Zenon DEF KeptSome
  <2>7. SubSeq(written, 1, j) \in Seq(Record)
    <3>1. PICK rs \in Seq(Record) : rs = written
      BY <1>2, Zenon
    <3>2. SubSeq(rs, 1, j) \in Seq(Record)
      BY <3>1
    <3> QED
      BY <3>1, <3>2, Zenon
  <2>8. intact' = SubSeq(written, 1, j)
    BY <2>2, <2>5, <2>6, <2>7, KeptRead, Zenon
  <2>9. \E at : Layout(file', intact', at)
    BY <2>6, <2>8, Zenon DEF Kept
  <2>10. buffer'[w] = <<>> /\ status'[w] = "closed"
    BY <1>1, <1>2, <2>2, Zenon
  <2>11. RecorderTypeOK'
    <3>1. Len(<<>>) <= BufCapacity /\ <<>> \in Seq(Byte)
      BY BufCapacityAssumption
    <3>2. \A v \in Writer : Len(buffer'[v]) <= BufCapacity
      BY <2>10, <3>1, Zenon
    <3>3. /\ buffer' \in [Writer -> Seq(Byte)]
          /\ status' \in [Writer -> {"closed", "open", "in record"}]
      BY <1>2, <2>2, <3>1, Zenon
    <3> QED
      BY <1>2, <2>2, <2>5, <2>7, <2>8, <3>2, <3>3, Zenon DEF RecorderTypeOK
  <2> QED
    BY <2>2, <2>5, <2>9, <2>10, <2>11, Zenon DEF RecorderInv
<1>10. CASE UNCHANGED vars
  <2>1. UNCHANGED <<file, status, buffer, record, written, past, intact>>
    BY <1>10, Zenon DEF vars
  <2> QED
    BY <2>1, <1>1, <1>4, Zenon DEF RecorderInv, RecorderTypeOK
<1> QED
  BY <1>5, <1>6, <1>7, <1>8, <1>9, <1>10, Zenon DEF Next

\* RecorderInv holds at every moment while one writer records (two whose
\* write_all calls interleave may tear each other's records).
THEOREM RecorderInvariant ==
  ASSUME NEW w, Writer = {w}
  PROVE  Spec => []RecorderInv(w)
<1>1. Init => RecorderInv(w)
  BY InitRecorderInv, Zenon
<1>2. RecorderInv(w) /\ [Next]_vars => RecorderInv(w)'
  BY NextRecorderInv, Zenon
<1> QED
  BY <1>1, <1>2, PTL DEF Spec

\* Type correctness, and no BufWriter ever holds more than its capacity.
THEOREM RecorderTypeCorrect ==
  ASSUME NEW w, Writer = {w}
  PROVE  Spec => []RecorderTypeOK
<1>1. RecorderInv(w) => RecorderTypeOK
  BY Zenon DEF RecorderInv
<1> QED
  BY <1>1, RecorderInvariant, PTL

-----------------------------------------------------------------------------
(* What the file reads as.                                                 *)

\* Once everything is flushed: exactly the records.
LEMMA InvCleanFile ==
  ASSUME NEW w, Writer = {w}, RecorderInv(w)
  PROVE  CleanFileExact
<1> SUFFICES ASSUME AllFlushed, past = "clean"
             PROVE  ReadRecords(file) = [ok |-> TRUE, records |-> written, trailing |-> 0]
  BY Zenon DEF CleanFileExact
<1>1. buffer[w] = <<>> /\ status[w] # "in record"
  BY Zenon DEF AllFlushed
<1>2. file \in Seq(Byte) /\ written \in Seq(Record)
  BY Zenon DEF RecorderInv, RecorderTypeOK
<1>3. Recorded(file \o buffer[w], written)
  BY <1>1, Zenon DEF RecorderInv
<1>4. file \o <<>> = file
  BY <1>2
<1>5. PICK at : Layout(file, written, at) /\ at[Len(written) + 1] = Len(file)
  BY <1>1, <1>3, <1>4, Zenon DEF Recorded
<1> QED
  BY <1>2, <1>5, WholeRead, Zenon

\* At any moment without a second opening: a beginning of the records.
LEMMA FileKept ==
  ASSUME NEW w, Writer = {w}, RecorderInv(w), past # "reopened"
  PROVE  KeptSome(file, written)
<1>1. /\ w \in Writer /\ file \in Seq(Byte) /\ written \in Seq(Record)
      /\ buffer[w] \in Seq(Byte) /\ past \in {"clean", "crashed", "reopened"}
  BY Zenon DEF RecorderInv, RecorderTypeOK
<1>2. CASE past = "crashed"
  BY <1>2, Zenon DEF RecorderInv
<1>3. CASE past = "clean"
  <2>1. Kept(file \o buffer[w], written)
    BY <1>1, <1>3, StreamKept, Zenon
  <2>2. 0 \in 0..Len(buffer[w])
    BY <1>1
  <2>3. KeptSome(file \o SubSeq(buffer[w], 1, 0), written)
    BY <1>1, <2>1, <2>2, CrashKeeps, Zenon
  <2>4. SubSeq(buffer[w], 1, 0) = <<>>
    BY <1>1
  <2>5. file \o <<>> = file
    BY <1>1
  <2> QED
    BY <2>3, <2>4, <2>5, Zenon
<1> QED
  BY <1>1, <1>2, <1>3, Zenon

\* A sequence that is another one as far as it goes is a prefix of it.
LEMMA PrefixOf ==
  ASSUME NEW n \in Nat, NEW k \in 0..n, NEW S, NEW s \in Seq(S), NEW t \in Seq(S),
         Len(s) = k, Len(t) = n, \A i \in 1..k : s[i] = t[i]
  PROVE  IsBeginning(s, t)
<1>1. s = SubSeq(t, 1, k)
  OBVIOUS
<1>2. k <= n
  OBVIOUS
<1> QED
  BY <1>1, <1>2, Zenon DEF IsBeginning

\* The file as it reads at such a moment.
LEMMA FileReads ==
  ASSUME NEW w, Writer = {w}, RecorderInv(w), past # "reopened"
  PROVE  \E k \in 0..Len(written) :
           ReadRecords(file).ok /\ ReadRecords(file).records = SubSeq(written, 1, k)
<1>1. file \in Seq(Byte) /\ written \in Seq(Record)
  BY Zenon DEF RecorderInv, RecorderTypeOK
<1>2. PICK k \in 0..Len(written) : Kept(file, SubSeq(written, 1, k))
  BY FileKept, Zenon DEF KeptSome
<1>3. SubSeq(written, 1, k) \in Seq(Record)
  <2>1. PICK rs \in Seq(Record) : rs = written
    BY <1>1, Zenon
  <2>2. SubSeq(rs, 1, k) \in Seq(Record)
    BY <2>1
  <2> QED
    BY <2>1, <2>2, Zenon
<1> QED
  BY <1>1, <1>2, <1>3, KeptRead, Zenon

\* The invariant implies PrefixReadable.
LEMMA InvPrefix ==
  ASSUME NEW w, Writer = {w}, RecorderInv(w)
  PROVE  PrefixReadable
<1>1. /\ file \in Seq(Byte) /\ intact \in Seq(Record) /\ written \in Seq(Record)
  BY Zenon DEF RecorderInv, RecorderTypeOK
<1>2. CASE past = "reopened"
  <2>1. PICK at : Layout(file, intact, at)
    BY <1>2, Zenon DEF RecorderInv
  <2>2. ReadRecords(file).ok => IsBeginning(intact, ReadRecords(file).records)
    BY <1>1, <2>1, BeginRead, Zenon
  <2> QED
    BY <1>2, <2>2, Zenon DEF PrefixReadable
<1>3. CASE past # "reopened"
  <2>1. PICK k \in 0..Len(written) :
          ReadRecords(file).ok /\ ReadRecords(file).records = SubSeq(written, 1, k)
    BY <1>3, FileReads, Zenon
  <2>2. PICK rs \in Seq(Record), n \in Nat : rs = written /\ n = Len(rs)
    BY <1>1
  <2>3. /\ SubSeq(rs, 1, k) \in Seq(Record) /\ Len(SubSeq(rs, 1, k)) = k
        /\ \A i \in 1..k : SubSeq(rs, 1, k)[i] = rs[i]
    BY <2>2
  <2>4. IsBeginning(SubSeq(rs, 1, k), rs)
    BY <2>2, <2>3, PrefixOf, Zenon
  <2> QED
    BY <1>3, <2>1, <2>2, <2>4, Zenon DEF PrefixReadable
<1> QED
  BY <1>2, <1>3, Zenon

\* Without a crash, a recording that was flushed or closed reads back as
\* exactly the records whose record call returned (Recorder::record, flush,
\* its Drop, and read_records).
THEOREM CleanFileAlwaysExact ==
  ASSUME NEW w, Writer = {w}
  PROVE  Spec => []CleanFileExact
<1>1. RecorderInv(w) => CleanFileExact
  BY InvCleanFile, Zenon
<1> QED
  BY <1>1, RecorderInvariant, PTL

\* At every moment, and after a crash at any moment, read_records returns a
\* beginning of what was recorded; behind a second opening, whatever it
\* returns begins with the records that were whole at the crash.
THEOREM PrefixAlwaysReadable ==
  ASSUME NEW w, Writer = {w}
  PROVE  Spec => []PrefixReadable
<1>1. RecorderInv(w) => PrefixReadable
  BY InvPrefix, Zenon
<1> QED
  BY <1>1, RecorderInvariant, PTL

-----------------------------------------------------------------------------
(* The replay.                                                             *)

\* The events of an engine that took these records, timestamps zeroed.
Silent(rs) == [n \in 1..Len(rs) |-> Event(n, SubSeq(FramesOf(rs), 1, n), 0, 0)]

\* Zeroing forgets both timestamps.
LEMMA ZeroedEvent ==
  ASSUME NEW n, NEW fs, NEW a, NEW b
  PROVE  [Event(n, fs, a, b) EXCEPT !.recvTs = 0, !.emitTs = 0] = Event(n, fs, 0, 0)
<1>1. PICK z : z = 0
  BY Zenon
<1>2. [Event(n, fs, a, b) EXCEPT !.recvTs = z] = Event(n, fs, z, b)
  BY DEF Event
<1>3. [Event(n, fs, z, b) EXCEPT !.emitTs = z] = Event(n, fs, z, z)
  BY DEF Event
<1>4. [Event(n, fs, a, b) EXCEPT !.recvTs = z, !.emitTs = z]
        = [[Event(n, fs, a, b) EXCEPT !.recvTs = z] EXCEPT !.emitTs = z]
  BY Zenon
<1> QED
  BY <1>1, <1>2, <1>3, <1>4, Zenon

\* What the recorded engine emitted, zeroed, whatever its clock showed.
LEMMA LiveSilent ==
  ASSUME NEW rs \in Seq(Record), written = rs, NEW emitTs
  PROVE  Zeroed(Live(emitTs)) = Silent(rs)
<1>1. DOMAIN rs = 1..Len(rs)
  OBVIOUS
<1>2. PICK D : D = 1..Len(rs)
  BY Zenon
<1> DEFINE ev(n) == Event(n, SubSeq(FramesOf(rs), 1, n), rs[n].recvTs, emitTs[n])
<1>3. Live(emitTs) = [n \in D |-> ev(n)]
  BY <1>1, <1>2, Zenon DEF Live
<1>4. Zeroed(Live(emitTs)) = [n \in D |-> [ev(n) EXCEPT !.recvTs = 0, !.emitTs = 0]]
  <2> HIDE DEF ev
  <2>1. DOMAIN Live(emitTs) = D /\ \A n \in D : Live(emitTs)[n] = ev(n)
    BY <1>3, Zenon
  <2> QED
    BY <2>1, Zenon DEF Zeroed
<1>5. \A n \in D : [ev(n) EXCEPT !.recvTs = 0, !.emitTs = 0]
                     = Event(n, SubSeq(FramesOf(rs), 1, n), 0, 0)
  BY ZeroedEvent, Zenon
<1> HIDE DEF ev
<1> QED
  BY <1>2, <1>4, <1>5, Zenon DEF Silent

\* What a replay without timestamps puts out.
LEMMA ReplaySilent ==
  ASSUME NEW b, NEW rs \in Seq(Record), ReadRecords(b).ok, ReadRecords(b).records = rs,
         Range(FramesOf(rs)) \subseteq Commands
  PROVE  ReplayBytes(b, TRUE) = [ok |-> TRUE, out |-> Silent(rs)]
<1>1. PICK D : D = 1..Len(rs) /\ D = DOMAIN rs
  OBVIOUS
<1>2. DOMAIN FramesOf(rs) = D
  BY <1>1, Zenon DEF FramesOf
<1> DEFINE ev(n) == Event(n, SubSeq(FramesOf(rs), 1, n), Now(rs[n]), Now(rs[n]))
<1>3. ReplayBytes(b, TRUE) = [ok |-> TRUE, out |-> [n \in D |-> ZeroTimestamps(ev(n))]]
  BY <1>2, Zenon DEF ReplayBytes
<1>4. \A n \in D : ZeroTimestamps(ev(n)) = Event(n, SubSeq(FramesOf(rs), 1, n), 0, 0)
  BY ZeroedEvent, Zenon DEF ZeroTimestamps
<1> HIDE DEF ev
<1>5. [n \in D |-> ZeroTimestamps(ev(n))] = Silent(rs)
  BY <1>1, <1>4, Zenon DEF Silent
<1> QED
  BY <1>3, <1>5, Zenon

\* The events of a beginning of the records are a beginning of the events.
LEMMA SilentPrefix ==
  ASSUME NEW rs \in Seq(Record), NEW k \in 0..Len(rs)
  PROVE  IsBeginning(Silent(SubSeq(rs, 1, k)), Silent(rs))
<1>q. PICK q : q = SubSeq(rs, 1, k)
  BY Zenon
<1>1. PICK n \in Nat : n = Len(rs)
  <2>1. Len(rs) \in Nat
    OBVIOUS
  <2> QED
    BY <2>1, Zenon
<1>2. /\ q \in Seq(Record) /\ Len(q) = k /\ DOMAIN q = 1..k /\ DOMAIN rs = 1..n
      /\ \A i \in 1..k : q[i] = rs[i] /\ i \in 1..n
  BY <1>1, <1>q
<1>3. PICK fq, fr : fq = FramesOf(q) /\ fr = FramesOf(rs)
  BY Zenon
<1>4. \A i \in 1..k : fq[i] = fr[i]
  BY <1>2, <1>3, Zenon DEF FramesOf
<1>5. ASSUME NEW i \in 1..k PROVE SubSeq(fq, 1, i) = SubSeq(fr, 1, i)
  <2>1. \A j \in 1..i : fq[j] = fr[j]
    BY <1>1, <1>q, <1>4
  <2>2. /\ SubSeq(fq, 1, i) = [j \in 1..i |-> fq[j]]
        /\ SubSeq(fr, 1, i) = [j \in 1..i |-> fr[j]]
    OBVIOUS
  <2>3. [j \in 1..i |-> fq[j]] = [j \in 1..i |-> fr[j]]
    BY <2>1, Zenon
  <2> QED
    BY <2>2, <2>3, Zenon
<1> DEFINE eq(i) == Event(i, SubSeq(fq, 1, i), 0, 0)
           er(i) == Event(i, SubSeq(fr, 1, i), 0, 0)
           S == {er(i) : i \in 1..n}
<1>6. \A i \in 1..k : eq(i) = er(i) /\ er(i) \in S
  BY <1>2, <1>5, Zenon
<1>7. \A i \in 1..n : er(i) \in S
  BY Zenon
<1>8. Silent(q) = [i \in 1..k |-> eq(i)] /\ Silent(rs) = [i \in 1..n |-> er(i)]
  BY <1>1, <1>q, <1>2, <1>3, Zenon DEF Silent
<1> HIDE DEF eq, er, S
<1>9. PICK s, t : s = Silent(q) /\ t = Silent(rs)
  BY Zenon
<1>10. s \in Seq(S) /\ Len(s) = k /\ \A i \in 1..k : s[i] = eq(i)
  BY <1>1, <1>q, <1>6, <1>8, <1>9
<1>11. t \in Seq(S) /\ Len(t) = n /\ \A i \in 1..n : t[i] = er(i)
  BY <1>7, <1>8, <1>9
<1>12. \A i \in 1..k : s[i] = t[i]
  BY <1>2, <1>6, <1>10, <1>11, Zenon
<1>13. k \in 0..n
  BY <1>1, <1>q, Zenon
<1>14. IsBeginning(s, t)
  BY <1>10, <1>11, <1>12, <1>13, PrefixOf, Zenon
<1> QED
  BY <1>1, <1>q, <1>9, <1>14, Zenon

\* The invariant implies ReplayReproduces.
LEMMA InvReplay ==
  ASSUME NEW w, Writer = {w}, RecorderInv(w)
  PROVE  ReplayReproduces
<1> SUFFICES ASSUME past # "reopened", Range(FramesOf(written)) \subseteq Commands
             PROVE  /\ ReplayBytes(file, TRUE).ok
                    /\ \A emitTs \in [DOMAIN written -> Byte] :
                         /\ IsBeginning(ReplayBytes(file, TRUE).out, Zeroed(Live(emitTs)))
                         /\ AllFlushed /\ past = "clean" =>
                              ReplayBytes(file, TRUE).out = Zeroed(Live(emitTs))
  BY Zenon DEF ReplayReproduces
<1>1. PICK k \in 0..Len(written) :
        ReadRecords(file).ok /\ ReadRecords(file).records = SubSeq(written, 1, k)
  BY FileReads, Zenon
<1>2. PICK rs \in Seq(Record) : rs = written
  BY Zenon DEF RecorderInv, RecorderTypeOK
<1>3. PICK q : q = SubSeq(rs, 1, k)
  BY Zenon
<1>4. /\ q \in Seq(Record) /\ DOMAIN q = 1..k /\ DOMAIN rs = 1..Len(rs)
      /\ \A i \in 1..k : i \in 1..Len(rs) /\ q[i] = rs[i]
  BY <1>1, <1>2, <1>3
<1>5. Range(FramesOf(q)) \subseteq Commands
  <2>1. Range(FramesOf(q)) = {q[i].frame : i \in 1..k}
    BY <1>4, Zenon DEF Range, FramesOf
  <2>2. Range(FramesOf(rs)) = {rs[i].frame : i \in 1..Len(rs)}
    BY <1>4, Zenon DEF Range, FramesOf
  <2> QED
    BY <1>2, <1>4, <2>1, <2>2, Zenon
<1>6. ReplayBytes(file, TRUE) = [ok |-> TRUE, out |-> Silent(q)]
  BY <1>1, <1>2, <1>3, <1>4, <1>5, ReplaySilent, Zenon
<1>7. ReplayBytes(file, TRUE).ok /\ ReplayBytes(file, TRUE).out = Silent(q)
  <2>1. \A z : [ok |-> TRUE, out |-> z].ok /\ [ok |-> TRUE, out |-> z].out = z
    BY Zenon
  <2> QED
    BY <1>6, <2>1, Zenon
<1>8. ASSUME NEW emitTs PROVE Zeroed(Live(emitTs)) = Silent(rs)
  BY <1>2, LiveSilent, Zenon
<1>9. IsBeginning(Silent(q), Silent(rs))
  BY <1>1, <1>2, <1>3, SilentPrefix, Zenon
<1>10. ASSUME AllFlushed, past = "clean" PROVE q = rs
  <2>1. CleanFileExact
    BY InvCleanFile, Zenon
  <2>2. ReadRecords(file) = [ok |-> TRUE, records |-> written, trailing |-> 0]
    BY <1>10, <2>1, Zenon DEF CleanFileExact
  <2>3. ReadRecords(file).records = written
    BY <2>2
  <2> QED
    BY <1>1, <1>2, <1>3, <2>3, Zenon
<1> QED
  BY <1>7, <1>8, <1>9, <1>10, Zenon

\* A replay without timestamps (replay_bytes, zero_timestamps) reproduces
\* what the recorded engine emitted: a beginning of it from any recording,
\* all of it from one that was flushed or closed without a crash.
THEOREM ReplayAlwaysReproduces ==
  ASSUME NEW w, Writer = {w}
  PROVE  Spec => []ReplayReproduces
<1>1. RecorderInv(w) => ReplayReproduces
  BY InvReplay, Zenon
<1> QED
  BY <1>1, RecorderInvariant, PTL

=============================================================================
