---------------------------- MODULE MirrorProofs ----------------------------
(***************************************************************************)
(* The engine and its book, for every value of the constants: the engine   *)
(* implements Book, so every theorem of BookProofs holds of the book       *)
(* inside it; the kill switch freezes it; and market data mirrors it.      *)
(*                                                                         *)
(* The kill switch is proved from an invariant of the pipeline: no handler *)
(* with a walk runs while it is on.  Market data is the capture of the     *)
(* levels, the merge of two captures that emit_l2_deltas does, and what a  *)
(* subscriber makes of the deltas.                                         *)
(***************************************************************************)
EXTENDS Engine, BookProofs

-----------------------------------------------------------------------------
(* Refinement.                                                             *)

\* Every step of the pipeline is a step of the book or leaves it alone.
LEMMA EngineStepIsBookStep == [EngineNext]_allVars => [Next]_vars
<1> SUFFICES ASSUME [EngineNext]_allVars PROVE [Next]_vars
  BY Zenon
<1> USE DEF Next, Calls, Walk, Dispose
<1>1. CASE RejectCommand
  BY <1>1, Zenon DEF RejectCommand
<1>2. ASSUME NEW t \in NewOrders, NewOrder(t) \/ RejectNewOrder(t)
      PROVE  [Next]_vars
  BY <1>1, <1>2, Zenon DEF NewOrder, RejectNewOrder
<1>3. ASSUME NEW a \in Account, NEW id \in OrderId,
             CancelOrder(a, id) \/ RejectCancelOrder(a, id)
      PROVE  [Next]_vars
  BY <1>1, <1>3, Zenon DEF CancelOrder, RejectCancelOrder
<1>4. ASSUME NEW a \in Account, NEW id \in OrderId, NEW p \in Price,
             NEW q \in Qty,
             \/ AmendOrder(a, id, p, q)
             \/ RepriceOrder(a, id, p, q)
             \/ RejectCancelReplace(a, id, p, q)
      PROVE  [Next]_vars
  BY <1>1, <1>4, Zenon DEF AmendOrder, RepriceOrder, RejectCancelReplace
<1>5. ASSUME NEW a \in Account, CancelAll(a) \/ RejectMassCancel(a)
      PROVE  [Next]_vars
  BY <1>1, <1>5, Zenon DEF CancelAll, RejectMassCancel
<1>6. ASSUME NEW engaged \in BOOLEAN, KillSwitchSet(engaged)
      PROVE  [Next]_vars
  BY <1>6, Zenon DEF KillSwitchSet
<1>7. CASE SnapshotRequest
  BY <1>7, Zenon DEF SnapshotRequest
<1>8. CASE MatchOne \/ MatchReturns
  BY <1>8, Zenon DEF MatchOne, MatchReturns
<1>9. CASE ReportFill
  BY <1>9, Zenon DEF ReportFill
<1>10. CASE DisposeStp \/ DisposeFilled \/ CancelTaker \/ RestTaker
  BY <1>10, Zenon DEF DisposeStp, DisposeFilled, CancelTaker, RestTaker
<1>11. CASE RefuseResidual \/ RegisterReplaced \/ CancelReplaced
  BY <1>11, Zenon DEF RefuseResidual, RegisterReplaced, CancelReplaced
<1>12. CASE EmitBookChanges
  BY <1>12, Zenon DEF EmitBookChanges
<1>13. CASE UNCHANGED allVars
  BY <1>13, Zenon DEF allVars
<1> QED
  BY <1>2, <1>3, <1>4, <1>5, <1>6, <1>7, <1>8, <1>9, <1>10, <1>11, <1>12,
     <1>13, Zenon DEF EngineNext, Commands, Pipeline

\* The engine uses the book only through its operations, each at a moment
\* the book allows it: the engine implements Book.
THEOREM EngineImplementsBook == EngineSpec => DrivesBook
<1>1. EngineInit => Init
  BY Zenon DEF EngineInit
<1> QED
  BY <1>1, EngineStepIsBookStep, PTL DEF EngineSpec, Spec, DrivesBook

\* Inside the engine too the book is never locked or crossed, while level
\* snapshots succeed.
THEOREM EngineNeverCrossed ==
  ASSUME ~SnapshotMayFail
  PROVE  EngineSpec => []Uncrossed
BY EngineImplementsBook, NeverCrossed, PTL DEF DrivesBook

\* And what a walk leaves of a new order, for the engine to rest, crosses
\* nothing.
THEOREM EngineWalksComplete ==
  ASSUME ~SnapshotMayFail
  PROVE  EngineSpec => []WalkInv
BY EngineImplementsBook, WalksComplete, PTL DEF DrivesBook

\* Inside the engine too the book's containers agree.
THEOREM EngineContainersAgree == EngineSpec => [](IndexExact /\ LevelsExact)
BY EngineImplementsBook, ContainersAgree, PTL DEF DrivesBook

-----------------------------------------------------------------------------
(* The kill switch.                                                        *)

\* A command that reaches the walk was let in with the switch off, and the
\* switch cannot move before the command is done.
KillInv ==
  /\ stage \in {"ready", "handler", "tail"}
  /\ stage = "handler" => ~killSwitch

\* The effect of a step on the pipeline and the switch, command by command.
LEMMA NextKillInv == KillInv /\ [EngineNext]_allVars => KillInv'
<1> SUFFICES ASSUME KillInv, [EngineNext]_allVars PROVE KillInv'
  BY Zenon
<1> USE DEF KillInv, riskVars, stepVars, engineVars, allVars
<1>1. CASE RejectCommand
  BY <1>1, Zenon DEF RejectCommand, OneShot
<1>2. ASSUME NEW t \in NewOrders, NewOrder(t) \/ RejectNewOrder(t)
      PROVE  KillInv'
  <2>1. CASE NewOrder(t)
    <3>1. ~killSwitch
      BY <2>1, Zenon DEF NewOrder, NewOrderVerdict, CheckNewOrder
    <3> QED
      BY <2>1, <3>1, Zenon DEF NewOrder, BeginWalk
  <2> QED
    BY <1>1, <1>2, <2>1, Zenon DEF RejectNewOrder
<1>3. ASSUME NEW a \in Account, NEW id \in OrderId,
             CancelOrder(a, id) \/ RejectCancelOrder(a, id)
      PROVE  KillInv'
  BY <1>1, <1>3, Zenon DEF CancelOrder, RejectCancelOrder, OneShot
<1>4. ASSUME NEW a \in Account, NEW id \in OrderId, NEW p \in Price,
             NEW q \in Qty,
             \/ AmendOrder(a, id, p, q)
             \/ RepriceOrder(a, id, p, q)
             \/ RejectCancelReplace(a, id, p, q)
      PROVE  KillInv'
  <2>1. CASE RepriceOrder(a, id, p, q)
    <3>1. ~killSwitch
      BY <2>1, Zenon DEF RepriceOrder, ReplaceVerdict, CheckCancelReplace
    <3> QED
      BY <2>1, <3>1, Zenon DEF RepriceOrder, BeginWalk
  <2> QED
    BY <1>1, <1>4, <2>1, Zenon DEF AmendOrder, RejectCancelReplace, OneShot
<1>5. ASSUME NEW a \in Account, CancelAll(a) \/ RejectMassCancel(a)
      PROVE  KillInv'
  BY <1>1, <1>5, Zenon DEF CancelAll, RejectMassCancel, OneShot
<1>6. ASSUME NEW engaged \in BOOLEAN, KillSwitchSet(engaged)
      PROVE  KillInv'
  BY <1>6, Zenon DEF KillSwitchSet
<1>7. CASE SnapshotRequest
  BY <1>7, Zenon DEF SnapshotRequest
<1>8. CASE MatchOne \/ MatchReturns \/ ReportFill
  BY <1>8 DEF MatchOne, MatchReturns, ReportFill
<1>9. CASE DisposeStp \/ DisposeFilled \/ CancelTaker \/ RestTaker
  BY <1>9, Zenon DEF DisposeStp, DisposeFilled, CancelTaker, RestTaker, EndWalk
<1>10. CASE RefuseResidual \/ RegisterReplaced \/ CancelReplaced
  BY <1>10, Zenon DEF RefuseResidual, RegisterReplaced, CancelReplaced, EndWalk
<1>11. CASE EmitBookChanges
  BY <1>11, Zenon DEF EmitBookChanges
<1>12. CASE UNCHANGED allVars
  BY <1>12, Zenon
<1> QED
  BY <1>2, <1>3, <1>4, <1>5, <1>6, <1>7, <1>8, <1>9, <1>10, <1>11, <1>12, Zenon
     DEF EngineNext, Commands, Pipeline

\* What the kill switch protects.
Frozen == UNCHANGED <<bookVars, registry, perAccount, lastTrade, view>>

\* With the switch on a step changes nothing of what it protects: commands
\* are refused, and a tail is all that can be under way.
LEMMA KillSwitchStep ==
  KillInv /\ [EngineNext]_allVars => (killSwitch => Frozen)
<1> SUFFICES ASSUME KillInv, [EngineNext]_allVars, killSwitch PROVE Frozen
  BY Zenon
<1> USE DEF Frozen, vars, riskVars, engineVars, subscriberVars, allVars
<1>1. CASE RejectCommand
  BY <1>1, Zenon DEF RejectCommand
<1>2. ASSUME NEW t \in NewOrders, NewOrder(t) \/ RejectNewOrder(t)
      PROVE  Frozen
  BY <1>1, <1>2, Zenon DEF NewOrder, RejectNewOrder, MatchAggressive
<1>3. ASSUME NEW a \in Account, NEW id \in OrderId,
             CancelOrder(a, id) \/ RejectCancelOrder(a, id)
      PROVE  Frozen
  BY <1>1, <1>3, Zenon DEF CancelOrder, RejectCancelOrder
<1>4. ASSUME NEW a \in Account, NEW id \in OrderId, NEW p \in Price,
             NEW q \in Qty,
             \/ AmendOrder(a, id, p, q)
             \/ RepriceOrder(a, id, p, q)
             \/ RejectCancelReplace(a, id, p, q)
      PROVE  Frozen
  <2>1. ReplaceVerdict(a, id, p, q) # "ok"
    BY Zenon DEF ReplaceVerdict, CheckCancelReplace
  <2> QED
    BY <1>1, <1>4, <2>1, Zenon DEF AmendOrder, RepriceOrder, RejectCancelReplace
<1>5. ASSUME NEW a \in Account, CancelAll(a) \/ RejectMassCancel(a)
      PROVE  Frozen
  BY <1>1, <1>5, Zenon DEF CancelAll, RejectMassCancel
<1>6. ASSUME NEW engaged \in BOOLEAN, KillSwitchSet(engaged)
      PROVE  Frozen
  BY <1>6, Zenon DEF KillSwitchSet
<1>7. CASE SnapshotRequest
  BY <1>7, Zenon DEF SnapshotRequest
<1>8. stage # "handler"
  BY Zenon DEF KillInv
<1>9. ~(MatchOne \/ MatchReturns \/ ReportFill)
  BY <1>8, Zenon DEF MatchOne, MatchReturns, ReportFill
<1>10. ~(DisposeStp \/ DisposeFilled \/ CancelTaker \/ RestTaker)
  BY <1>8, Zenon DEF DisposeStp, DisposeFilled, CancelTaker, RestTaker, Residual,
     AllReported
<1>11. ~(RefuseResidual \/ RegisterReplaced \/ CancelReplaced)
  BY <1>8, Zenon DEF RefuseResidual, RegisterReplaced, CancelReplaced, Residual,
     AllReported
<1>12. CASE EmitBookChanges
  BY <1>12, Zenon DEF EmitBookChanges
<1>13. CASE UNCHANGED allVars
  BY <1>13, Zenon
<1> QED
  BY <1>2, <1>3, <1>4, <1>5, <1>6, <1>7, <1>9, <1>10, <1>11, <1>12, <1>13, Zenon
     DEF EngineNext, Commands, Pipeline

\* While the kill switch is on, no client command changes the book, the
\* registry, an exposure, the band's reference or a client's view, in any
\* state the engine can reach.
THEOREM KillSwitchHolds == EngineSpec => KillSwitchFreezes
<1>1. EngineInit => KillInv
  BY Zenon DEF EngineInit, KillInv
<1>2. KillInv /\ [EngineNext]_allVars => [killSwitch => Frozen]_allVars
  BY KillSwitchStep, Zenon
<1> QED
  BY <1>1, <1>2, NextKillInv, PTL DEF EngineSpec, KillSwitchFreezes, Frozen

-----------------------------------------------------------------------------
(* Lists of levels.                                                        *)

\* The elements of a list of levels with one more in front.
LEMMA ConsElements ==
  ASSUME NEW h \in LevelTotal, NEW r \in Seq(LevelTotal),
         NEW d, d = <<h>> \o r
  PROVE  d \in Seq(LevelTotal) /\ Range(d) = {h} \cup Range(r)
<1>1. d \in Seq(LevelTotal) /\ Len(d) = Len(r) + 1 /\ d[1] = h
  OBVIOUS
<1>2. \A i \in 1..Len(r) : d[i + 1] = r[i]
  OBVIOUS
<1>3. \A i \in 1..Len(d) : i = 1 \/ (i - 1 \in 1..Len(r) /\ d[i] = r[i - 1])
  BY <1>1, <1>2
<1>4. Len(r) \in Nat /\ DOMAIN r = 1..Len(r) /\ DOMAIN d = 1..Len(d)
  BY <1>1
<1>5. \A i \in 1..Len(r) : i + 1 \in 1..Len(d)
  BY <1>1, <1>4
<1>6. 1 \in 1..Len(d)
  BY <1>1, <1>4
<1>7. Range(d) \subseteq {h} \cup Range(r)
  BY <1>1, <1>3, <1>4, Zenon DEF Range
<1>8. {h} \cup Range(r) \subseteq Range(d)
  BY <1>1, <1>2, <1>4, <1>5, <1>6, Zenon DEF Range
<1> QED
  BY <1>1, <1>7, <1>8, Zenon

\* The elements of the end of a list of levels.
LEMMA TailElements ==
  ASSUME NEW a \in Seq(LevelTotal), NEW j \in 1..(Len(a) + 1), NEW d,
         d = SubSeq(a, j, Len(a))
  PROVE  d \in Seq(LevelTotal) /\ Range(d) = {a[l] : l \in j..Len(a)}
<1>1. Len(a) \in Nat /\ j \in Nat /\ j >= 1
  OBVIOUS
<1>2. /\ d \in Seq(LevelTotal) /\ Len(d) = Len(a) - j + 1
      /\ \A i \in 1..(Len(a) - j + 1) : d[i] = a[j + i - 1]
  <2>1. \A i \in j..Len(a) : a[i] \in LevelTotal
    BY <1>1
  <2> QED
    BY <1>1, <2>1, SubSeqProperties
<1>3. DOMAIN d = 1..(Len(a) - j + 1)
  BY <1>1, <1>2
<1>4. ASSUME NEW i \in 1..(Len(a) - j + 1)
      PROVE  \E l \in j..Len(a) : d[i] = a[l]
  <2>1. j + i - 1 \in j..Len(a)
    BY <1>1
  <2> QED
    BY <1>2, <2>1, Zenon
<1>5. ASSUME NEW l \in j..Len(a)
      PROVE  \E i \in 1..(Len(a) - j + 1) : d[i] = a[l]
  <2>1. l - j + 1 \in 1..(Len(a) - j + 1) /\ j + (l - j + 1) - 1 = l
    BY <1>1
  <2>2. d[l - j + 1] = a[j + (l - j + 1) - 1]
    BY <1>2, <2>1, Zenon
  <2> QED
    BY <2>1, <2>2, Zenon
<1>6. Range(d) \subseteq {a[l] : l \in j..Len(a)}
  BY <1>3, <1>4, Zenon DEF Range
<1>7. {a[l] : l \in j..Len(a)} \subseteq Range(d)
  BY <1>3, <1>5, Zenon DEF Range
<1> QED
  BY <1>2, <1>6, <1>7, Zenon

-----------------------------------------------------------------------------
(* The merge.                                                              *)

SameLevel(k, l) == k.side = l.side /\ k.price = l.price

\* What emit_l2_deltas says of a level that is gone.
Gone(l) == [l EXCEPT !.qty = 0]

\* The levels of a capture, in the order the merge compares.
Sorted(q) == \A i, j \in 1..Len(q) : i < j => Before(q[i], q[j])

\* Deltas d that the merge may emit from cursor i of b and cursor j of a on:
\* each names a level of b that a has no more, or a level of a as it stands
\* there; none is missing but those that stand alike in both.
MergeOK(b, a, i, j, d) ==
  /\ d \in Seq(LevelTotal)
  /\ \A e \in Range(d) :
       \/ \E k \in i..Len(b) : /\ e = Gone(b[k])
                               /\ \A l \in j..Len(a) : ~SameLevel(b[k], a[l])
       \/ \E l \in j..Len(a) : e = a[l]
  /\ \A l \in j..Len(a) :
       a[l] \in Range(d) \/ \E k \in i..Len(b) : b[k] = a[l]
  /\ \A k \in i..Len(b) :
       Gone(b[k]) \in Range(d) \/ \E l \in j..Len(a) : SameLevel(b[k], a[l])

\* Before is a strict total order of the levels.
LEMMA BeforeOrder ==
  ASSUME NEW k \in LevelTotal, NEW l \in LevelTotal
  PROVE  /\ Before(k, l) => ~Before(l, k) /\ ~SameLevel(k, l)
         /\ ~Before(k, l) /\ ~Before(l, k) => SameLevel(k, l)
         /\ \A m \in LevelTotal : Before(k, l) /\ Before(l, m) => Before(k, m)
<1>1. \A p \in Price : p \in Int
  BY PriceAssumption
<1> QED
  BY <1>1 DEF Before, SameLevel, LevelTotal, Side

\* A level that is gone is still a level, with nothing in it.
LEMMA GoneLevel ==
  ASSUME NEW l \in LevelTotal
  PROVE  /\ Gone(l) \in LevelTotal /\ Gone(l).qty = 0
         /\ Gone(l).side = l.side /\ Gone(l).price = l.price
BY Zenon DEF Gone, LevelTotal

\* A level is its key and its total.
LEMMA LevelEqual ==
  ASSUME NEW k \in LevelTotal, NEW l \in LevelTotal, SameLevel(k, l), k.qty = l.qty
  PROVE  k = l
BY DEF SameLevel, LevelTotal

\* The first capture is used up: the rest of the second is new.
LEMMA MergeEnd ==
  ASSUME NEW b \in Seq(LevelTotal), NEW a \in Seq(LevelTotal),
         NEW j \in 1..(Len(a) + 1), NEW d, d = SubSeq(a, j, Len(a))
  PROVE  MergeOK(b, a, Len(b) + 1, j, d)
<1>1. d \in Seq(LevelTotal) /\ Range(d) = {a[l] : l \in j..Len(a)}
  BY TailElements, Zenon
<1>2. (Len(b) + 1)..Len(b) = {}
  OBVIOUS
<1> QED
  BY <1>1, <1>2, Zenon DEF MergeOK

\* The level under the first cursor is gone.
LEMMA MergeGone ==
  ASSUME NEW b \in Seq(LevelTotal), NEW a \in Seq(LevelTotal), Sorted(b), Sorted(a),
         NEW i \in 1..Len(b), NEW j \in 1..(Len(a) + 1),
         j > Len(a) \/ Before(b[i], a[j]),
         NEW r, MergeOK(b, a, i + 1, j, r), NEW d, d = <<Gone(b[i])>> \o r
  PROVE  MergeOK(b, a, i, j, d)
<1>1. Len(b) \in Nat /\ Len(a) \in Nat /\ b[i] \in LevelTotal
  OBVIOUS
<1>2. /\ d \in Seq(LevelTotal) /\ Range(d) = {Gone(b[i])} \cup Range(r)
  <2>1. PICK h \in LevelTotal : h = Gone(b[i])
    BY <1>1, GoneLevel, Zenon
  <2>2. r \in Seq(LevelTotal)
    BY Zenon DEF MergeOK
  <2>3. d = <<h>> \o r
    BY <2>1, Zenon
  <2>4. d \in Seq(LevelTotal) /\ Range(d) = {h} \cup Range(r)
    BY <2>1, <2>2, <2>3, ConsElements, Zenon
  <2> QED
    BY <2>1, <2>4, Zenon
<1>3. \A k : k \in i..Len(b) <=> k = i \/ k \in (i + 1)..Len(b)
  BY <1>1
<1>4. ASSUME NEW l \in j..Len(a) PROVE ~SameLevel(b[i], a[l])
  <2>1. l \in 1..Len(a) /\ j \in 1..Len(a) /\ j <= l
    BY <1>1
  <2>2. a[l] \in LevelTotal /\ a[j] \in LevelTotal
    BY <2>1
  <2>3. l = j \/ Before(a[j], a[l])
    BY <2>1 DEF Sorted
  <2>4. Before(b[i], a[j])
    BY <2>1
  <2> QED
    BY <1>1, <2>2, <2>3, <2>4, BeforeOrder, Zenon
<1>5. \A e \in Range(d) :
       \/ \E k \in i..Len(b) : /\ e = Gone(b[k])
                               /\ \A l \in j..Len(a) : ~SameLevel(b[k], a[l])
       \/ \E l \in j..Len(a) : e = a[l]
  BY <1>2, <1>3, <1>4, Zenon DEF MergeOK
<1>6. \A l \in j..Len(a) : a[l] \in Range(d) \/ \E k \in i..Len(b) : b[k] = a[l]
  BY <1>2, <1>3, Zenon DEF MergeOK
<1>7. \A k \in i..Len(b) :
       Gone(b[k]) \in Range(d) \/ \E l \in j..Len(a) : SameLevel(b[k], a[l])
  BY <1>2, <1>3, Zenon DEF MergeOK
<1> QED
  BY <1>2, <1>5, <1>6, <1>7, Zenon DEF MergeOK

\* The level under the second cursor is new.
LEMMA MergeNew ==
  ASSUME NEW b \in Seq(LevelTotal), NEW a \in Seq(LevelTotal), Sorted(b), Sorted(a),
         NEW i \in 1..Len(b), NEW j \in 1..Len(a), Before(a[j], b[i]),
         NEW r, MergeOK(b, a, i, j + 1, r), NEW d, d = <<a[j]>> \o r
  PROVE  MergeOK(b, a, i, j, d)
<1>1. Len(b) \in Nat /\ Len(a) \in Nat /\ a[j] \in LevelTotal /\ b[i] \in LevelTotal
  OBVIOUS
<1>2. /\ d \in Seq(LevelTotal) /\ Range(d) = {a[j]} \cup Range(r)
  <2>1. PICK h \in LevelTotal : h = a[j]
    BY <1>1, Zenon
  <2>2. r \in Seq(LevelTotal)
    BY Zenon DEF MergeOK
  <2>3. d = <<h>> \o r
    BY <2>1, Zenon
  <2>4. d \in Seq(LevelTotal) /\ Range(d) = {h} \cup Range(r)
    BY <2>1, <2>2, <2>3, ConsElements, Zenon
  <2> QED
    BY <2>1, <2>4, Zenon
<1>3. \A l : l \in j..Len(a) <=> l = j \/ l \in (j + 1)..Len(a)
  BY <1>1
<1>4. ASSUME NEW k \in i..Len(b) PROVE ~SameLevel(b[k], a[j])
  <2>1. k \in 1..Len(b) /\ i <= k
    BY <1>1
  <2>2. b[k] \in LevelTotal
    BY <2>1
  <2>3. k = i \/ Before(b[i], b[k])
    BY <2>1 DEF Sorted
  <2>4. ~SameLevel(a[j], b[k])
    BY <1>1, <2>2, <2>3, BeforeOrder, Zenon
  <2> QED
    BY <2>4, Zenon DEF SameLevel
<1>5. \A e \in Range(d) :
       \/ \E k \in i..Len(b) : /\ e = Gone(b[k])
                               /\ \A l \in j..Len(a) : ~SameLevel(b[k], a[l])
       \/ \E l \in j..Len(a) : e = a[l]
  BY <1>2, <1>3, <1>4, Zenon DEF MergeOK
<1>6. \A l \in j..Len(a) : a[l] \in Range(d) \/ \E k \in i..Len(b) : b[k] = a[l]
  BY <1>2, <1>3, Zenon DEF MergeOK
<1>7. \A k \in i..Len(b) :
       Gone(b[k]) \in Range(d) \/ \E l \in j..Len(a) : SameLevel(b[k], a[l])
  BY <1>2, <1>3, Zenon DEF MergeOK
<1> QED
  BY <1>2, <1>5, <1>6, <1>7, Zenon DEF MergeOK

\* Both cursors are at the same level: it is told if its total has changed.
LEMMA MergeBoth ==
  ASSUME NEW b \in Seq(LevelTotal), NEW a \in Seq(LevelTotal), Sorted(b), Sorted(a),
         NEW i \in 1..Len(b), NEW j \in 1..Len(a), SameLevel(b[i], a[j]),
         NEW r, MergeOK(b, a, i + 1, j + 1, r),
         NEW d, (d = r /\ b[i].qty = a[j].qty) \/ d = <<a[j]>> \o r
  PROVE  MergeOK(b, a, i, j, d)
<1>1. Len(b) \in Nat /\ Len(a) \in Nat /\ a[j] \in LevelTotal /\ b[i] \in LevelTotal
  OBVIOUS
<1>2. /\ d \in Seq(LevelTotal) /\ Range(r) \subseteq Range(d)
      /\ Range(d) \subseteq {a[j]} \cup Range(r)
      /\ a[j] \in Range(d) \/ b[i] = a[j]
  <2>1. CASE d = r /\ b[i].qty = a[j].qty
    <3>1. b[i] = a[j]
      BY <1>1, <2>1, LevelEqual, Zenon
    <3> QED
      BY <2>1, <3>1, Zenon DEF MergeOK
  <2>2. CASE d = <<a[j]>> \o r
    <3>1. /\ d \in Seq(LevelTotal) /\ Range(d) = {a[j]} \cup Range(r)
      <4>1. PICK h \in LevelTotal : h = a[j]
        BY <1>1, Zenon
      <4>2. r \in Seq(LevelTotal)
        BY Zenon DEF MergeOK
      <4>3. d = <<h>> \o r
        BY <2>2, <4>1, Zenon
      <4>4. d \in Seq(LevelTotal) /\ Range(d) = {h} \cup Range(r)
        BY <4>1, <4>2, <4>3, ConsElements, Zenon
      <4> QED
        BY <4>1, <4>4, Zenon
    <3> QED
      BY <3>1, Zenon
  <2> QED
    BY <2>1, <2>2, Zenon
<1>3. /\ \A l : l \in j..Len(a) <=> l = j \/ l \in (j + 1)..Len(a)
      /\ \A k : k \in i..Len(b) <=> k = i \/ k \in (i + 1)..Len(b)
  BY <1>1
<1>4. ASSUME NEW k \in (i + 1)..Len(b) PROVE ~SameLevel(b[k], a[j])
  <2>1. k \in 1..Len(b) /\ i < k
    BY <1>1
  <2>2. b[k] \in LevelTotal /\ Before(b[i], b[k])
    BY <2>1 DEF Sorted
  <2>3. ~SameLevel(b[i], b[k])
    BY <1>1, <2>2, BeforeOrder, Zenon
  <2> QED
    BY <2>3, Zenon DEF SameLevel
<1>5. \A e \in Range(d) :
       \/ \E k \in i..Len(b) : /\ e = Gone(b[k])
                               /\ \A l \in j..Len(a) : ~SameLevel(b[k], a[l])
       \/ \E l \in j..Len(a) : e = a[l]
  BY <1>2, <1>3, <1>4, Zenon DEF MergeOK
<1>6. \A l \in j..Len(a) : a[l] \in Range(d) \/ \E k \in i..Len(b) : b[k] = a[l]
  BY <1>2, <1>3, Zenon DEF MergeOK
<1>7. \A k \in i..Len(b) :
       Gone(b[k]) \in Range(d) \/ \E l \in j..Len(a) : SameLevel(b[k], a[l])
  BY <1>2, <1>3, Zenon DEF MergeOK
<1> QED
  BY <1>2, <1>5, <1>6, <1>7, Zenon DEF MergeOK

\* The positions of the two cursors, and those with at most n steps to go.
Cells(b, a) == (1..(Len(b) + 1)) \X (1..(Len(a) + 1))

Within(b, a, n) ==
  {at \in Cells(b, a) : (Len(b) + 1 - at[1]) + (Len(a) + 1 - at[2]) <= n}

\* One round of the loop, with g for what the later rounds emit.
MergeAt(b, a, g, i, j) ==
  IF i > Len(b) THEN SubSeq(a, j, Len(a))
  ELSE IF j > Len(a) \/ Before(b[i], a[j])
    THEN <<Gone(b[i])>> \o g[<<i + 1, j>>]
  ELSE IF Before(a[j], b[i]) THEN <<a[j]>> \o g[<<i, j + 1>>]
  ELSE IF b[i].qty = a[j].qty THEN g[<<i + 1, j + 1>>]
  ELSE <<a[j]>> \o g[<<i + 1, j + 1>>]

\* g is what the merge emits from each of the positions in D on.
IsMerge(b, a, g, D) == g = [at \in D |-> MergeAt(b, a, g, at[1], at[2])]

\* The loop ends, so the function exists: by induction over the steps to go.
LEMMA MergeExists ==
  ASSUME NEW b \in Seq(LevelTotal), NEW a \in Seq(LevelTotal)
  PROVE  \E g : IsMerge(b, a, g, Cells(b, a))
<1> DEFINE N == {n \in Nat : \E g : IsMerge(b, a, g, Within(b, a, n))}
<1>1. PICK m \in Nat, k \in Nat : m = Len(b) + 1 /\ k = Len(a) + 1
  OBVIOUS
<1>2. ASSUME NEW n \in Nat, NEW i \in 1..m, NEW j \in 1..k, (m - i) + (k - j) <= n
      PROVE  <<i, j>> \in Within(b, a, n)
  <2>1. PICK at : at = <<i, j>>
    BY Zenon
  <2>2. at[1] = i /\ at[2] = j /\ at \in Cells(b, a)
    BY <1>1, <2>1, Zenon DEF Cells
  <2> QED
    BY <1>1, <1>2, <2>1, <2>2 DEF Within
<1>3. 0 \in N
  <2> DEFINE g == [at \in Within(b, a, 0) |-> SubSeq(a, at[2], Len(a))]
  <2>1. ASSUME NEW at \in Within(b, a, 0)
        PROVE  MergeAt(b, a, g, at[1], at[2]) = SubSeq(a, at[2], Len(a))
    <3>1. at[1] > Len(b)
      BY <1>1 DEF Within, Cells
    <3> QED
      BY <3>1, Zenon DEF MergeAt
  <2>2. IsMerge(b, a, g, Within(b, a, 0))
    BY <2>1, Zenon DEF IsMerge
  <2> QED
    BY <2>2, Zenon
<1>4. ASSUME NEW n \in Nat, n \in N PROVE n + 1 \in N
  <2>1. PICK g : IsMerge(b, a, g, Within(b, a, n))
    BY <1>4, Zenon
  <2> DEFINE h == [at \in Within(b, a, n + 1) |-> MergeAt(b, a, g, at[1], at[2])]
  <2>2. ASSUME NEW at \in Within(b, a, n)
        PROVE  at \in Within(b, a, n + 1) /\ h[at] = g[at]
    <3>1. at \in Within(b, a, n + 1)
      BY <1>1 DEF Within, Cells
    <3>2. g[at] = MergeAt(b, a, g, at[1], at[2])
      BY <2>1, Zenon DEF IsMerge
    <3> QED
      BY <3>1, <3>2, Zenon
  <2> HIDE DEF h
  <2>3. ASSUME NEW at \in Within(b, a, n + 1)
        PROVE  MergeAt(b, a, h, at[1], at[2]) = MergeAt(b, a, g, at[1], at[2])
    <3>1. PICK i \in 1..m, j \in 1..k : /\ at[1] = i /\ at[2] = j
                                        /\ (m - i) + (k - j) <= n + 1
      BY <1>1 DEF Within, Cells
    <3>2. ASSUME i <= Len(b)
          PROVE  h[<<i + 1, j>>] = g[<<i + 1, j>>]
      <4>1. i + 1 \in 1..m /\ (m - (i + 1)) + (k - j) <= n
        BY <1>1, <3>1, <3>2
      <4> QED
        BY <1>2, <2>2, <4>1, Zenon
    <3>3. ASSUME j <= Len(a)
          PROVE  h[<<i, j + 1>>] = g[<<i, j + 1>>]
      <4>1. j + 1 \in 1..k /\ (m - i) + (k - (j + 1)) <= n
        BY <1>1, <3>1, <3>3
      <4> QED
        BY <1>2, <2>2, <4>1, Zenon
    <3>4. ASSUME i <= Len(b), j <= Len(a)
          PROVE  h[<<i + 1, j + 1>>] = g[<<i + 1, j + 1>>]
      <4>1. /\ i + 1 \in 1..m /\ j + 1 \in 1..k
            /\ (m - (i + 1)) + (k - (j + 1)) <= n
        BY <1>1, <3>1, <3>4
      <4> QED
        BY <1>2, <2>2, <4>1, Zenon
    <3>5. MergeAt(b, a, h, i, j) = MergeAt(b, a, g, i, j)
      <4>1. CASE i > Len(b)
        BY <4>1, Zenon DEF MergeAt
      <4>2. CASE i <= Len(b) /\ j > Len(a)
        <5>1. ~(i > Len(b))
          BY <1>1, <3>1, <4>2
        <5> QED
          BY <3>2, <4>2, <5>1, Zenon DEF MergeAt
      <4>3. CASE i <= Len(b) /\ j <= Len(a)
        <5>1. ~(i > Len(b)) /\ ~(j > Len(a))
          BY <1>1, <3>1, <4>3
        <5> QED
          BY <3>2, <3>3, <3>4, <4>3, <5>1, Zenon DEF MergeAt
      <4> QED
        BY <1>1, <3>1, <4>1, <4>2, <4>3
    <3> QED
      BY <3>1, <3>5, Zenon
  <2>4. IsMerge(b, a, h, Within(b, a, n + 1))
    BY <2>3, Zenon DEF IsMerge, h
  <2> QED
    BY <2>4
<1> HIDE DEF N
<1>5. m + k \in N
  BY <1>3, <1>4, NatSetInduction
<1>6. Within(b, a, m + k) = Cells(b, a)
  BY <1>1 DEF Within, Cells
<1> QED
  BY <1>5, <1>6, Zenon DEF N

\* From every position on the merge emits the right deltas.
LEMMA MergeRight ==
  ASSUME NEW b \in Seq(LevelTotal), NEW a \in Seq(LevelTotal), Sorted(b), Sorted(a),
         NEW g, IsMerge(b, a, g, Cells(b, a))
  PROVE  \A i \in 1..(Len(b) + 1), j \in 1..(Len(a) + 1) :
           MergeOK(b, a, i, j, g[<<i, j>>])
<1>1. PICK m \in Nat, k \in Nat : m = Len(b) + 1 /\ k = Len(a) + 1
  OBVIOUS
<1> DEFINE OK(i, j) == MergeOK(b, a, i, j, g[<<i, j>>])
           N == {n \in Nat : \A i \in 1..m, j \in 1..k :
                               (m - i) + (k - j) <= n => OK(i, j)}
<1>2. \A i \in 1..m, j \in 1..k : g[<<i, j>>] = MergeAt(b, a, g, i, j)
  BY <1>1, Zenon DEF IsMerge, Cells
<1>3. ASSUME NEW j \in 1..k PROVE OK(m, j)
  <2>1. m > Len(b) /\ m \in 1..m /\ j \in 1..(Len(a) + 1)
    BY <1>1
  <2>2. g[<<m, j>>] = SubSeq(a, j, Len(a))
    BY <1>2, <2>1, Zenon DEF MergeAt
  <2> QED
    BY <1>1, <2>1, <2>2, MergeEnd, Zenon
<1> HIDE DEF OK
<1>4. 0 \in N
  BY <1>1, <1>3
<1>5. ASSUME NEW n \in Nat, n \in N PROVE n + 1 \in N
  <2> SUFFICES ASSUME NEW i \in 1..m, NEW j \in 1..k, (m - i) + (k - j) <= n + 1
               PROVE  OK(i, j)
    OBVIOUS
  <2>1. CASE i = m
    BY <1>3, <2>1, Zenon
  <2>2. CASE i # m
    <3>1. i \in 1..Len(b) /\ i + 1 \in 1..m /\ ~(i > Len(b)) /\ j \in 1..(Len(a) + 1)
      BY <1>1, <2>2
    <3>2. OK(i + 1, j)
      BY <1>5, <3>1
    <3>3. CASE j > Len(a) \/ Before(b[i], a[j])
      <4>1. g[<<i, j>>] = <<Gone(b[i])>> \o g[<<i + 1, j>>]
        BY <1>2, <3>1, <3>3, Zenon DEF MergeAt
      <4> QED
        BY <3>1, <3>2, <3>3, <4>1, MergeGone, Zenon DEF OK
    <3>4. CASE ~(j > Len(a) \/ Before(b[i], a[j]))
      <4>1. j \in 1..Len(a) /\ j + 1 \in 1..k
        BY <1>1, <3>4
      <4>2. OK(i, j + 1) /\ OK(i + 1, j + 1)
        BY <1>5, <3>1, <4>1
      <4>3. CASE Before(a[j], b[i])
        <5>1. g[<<i, j>>] = <<a[j]>> \o g[<<i, j + 1>>]
          BY <1>2, <3>1, <3>4, <4>3, Zenon DEF MergeAt
        <5> QED
          BY <3>1, <4>1, <4>2, <4>3, <5>1, MergeNew, Zenon DEF OK
      <4>4. CASE ~Before(a[j], b[i])
        <5>1. \/ /\ b[i].qty = a[j].qty
                 /\ g[<<i, j>>] = g[<<i + 1, j + 1>>]
              \/ g[<<i, j>>] = <<a[j]>> \o g[<<i + 1, j + 1>>]
          BY <1>2, <3>1, <3>4, <4>4, Zenon DEF MergeAt
        <5>2. SameLevel(b[i], a[j])
          <6>1. b[i] \in LevelTotal /\ a[j] \in LevelTotal
            BY <3>1, <4>1
          <6> QED
            BY <3>4, <4>4, <6>1, BeforeOrder, Zenon
        <5> QED
          BY <3>1, <4>1, <4>2, <5>1, <5>2, MergeBoth, Zenon DEF OK
      <4> QED
        BY <4>3, <4>4, Zenon
    <3> QED
      BY <3>3, <3>4, Zenon
  <2> QED
    BY <2>1, <2>2, Zenon
<1> HIDE DEF N
<1>6. m + k \in N
  BY <1>4, <1>5, NatSetInduction
<1>7. ASSUME NEW i \in 1..m, NEW j \in 1..k PROVE OK(i, j)
  <2>1. (m - i) + (k - j) <= m + k
    OBVIOUS
  <2> QED
    BY <1>6, <2>1, Zenon DEF N
<1> QED
  BY <1>1, <1>7, Zenon DEF OK

\* emit_l2_deltas compares two captures right.
LEMMA DeltasRight ==
  ASSUME NEW b \in Seq(LevelTotal), NEW a \in Seq(LevelTotal), Sorted(b), Sorted(a)
  PROVE  MergeOK(b, a, 1, 1, Deltas(b, a))
<1> DEFINE c == CHOOSE g : IsMerge(b, a, g, Cells(b, a))
<1>1. Deltas(b, a) = c[<<1, 1>>]
  BY Zenon DEF Deltas, IsMerge, MergeAt, Cells, Gone
<1>2. IsMerge(b, a, c, Cells(b, a))
  BY MergeExists, Zenon
<1> HIDE DEF c
<1>3. 1 \in 1..(Len(b) + 1) /\ 1 \in 1..(Len(a) + 1)
  OBVIOUS
<1> QED
  BY <1>1, <1>2, <1>3, MergeRight, Zenon

-----------------------------------------------------------------------------
(* The subscriber.                                                         *)

Totals == [Side -> [Price -> Nat]]

\* A capture of the totals m: sorted, and without the levels that are empty.
Describes(q, m) ==
  /\ q \in Seq(LevelTotal)
  /\ Sorted(q)
  /\ \A l \in Range(q) : m[l.side][l.price] = l.qty
  /\ \A s \in Side, p \in Price :
       (\A l \in Range(q) : l.side # s \/ l.price # p) => m[s][p] = 0

\* A subscriber that starts from m and applies deltas, each of which gives a
\* level its total in t, has t where a delta names the level and m elsewhere.
LEMMA AppliedIs ==
  ASSUME NEW m \in Totals, NEW t \in Totals, NEW ds \in Seq(LevelTotal),
         \A n \in 1..Len(ds) : t[ds[n].side][ds[n].price] = ds[n].qty
  PROVE  Applied(m, ds) =
           [s \in Side |-> [p \in Price |->
              IF \E n \in 1..Len(ds) : ds[n].side = s /\ ds[n].price = p
              THEN t[s][p] ELSE m[s][p]]]
<1> DEFINE Named(n, s, p) == \E k \in 1..n : ds[k].side = s /\ ds[k].price = p
           Seen(n) == [s \in Side |-> [p \in Price |->
                         IF Named(n, s, p) THEN t[s][p] ELSE m[s][p]]]
           IsAfter(f) ==
             f = [n \in 0..Len(ds) |->
                    IF n = 0 THEN m
                    ELSE [f[n - 1] EXCEPT ![ds[n].side][ds[n].price] = ds[n].qty]]
           w == [n \in 0..Len(ds) |-> Seen(n)]
           c == CHOOSE f : IsAfter(f)
<1>1. Seen(0) = m
  <2>1. \A s, p : ~Named(0, s, p)
    OBVIOUS
  <2> QED
    BY <2>1, Zenon DEF Totals
<1>2. ASSUME NEW n \in 1..Len(ds)
      PROVE  Seen(n) = [Seen(n - 1) EXCEPT ![ds[n].side][ds[n].price] = ds[n].qty]
  <2>1. ds[n].side \in Side /\ ds[n].price \in Price
    <3> HIDE DEF Named, Seen, IsAfter, w, c
    <3>1. ds[n] \in LevelTotal
      OBVIOUS
    <3> QED
      BY <3>1, Zenon DEF LevelTotal
  <2>2. PICK x \in Side, y \in Price : x = ds[n].side /\ y = ds[n].price
    BY <2>1, Zenon
  <2>3. \A s, p : Named(n, s, p) <=> Named(n - 1, s, p) \/ (s = x /\ p = y)
    <3>1. \A k : k \in 1..n <=> k \in 1..(n - 1) \/ k = n
      OBVIOUS
    <3> QED
      BY <2>2, <3>1, Zenon
  <2>4. t[x][y] = ds[n].qty
    BY <2>2, Zenon
  <2> HIDE DEF Named
  <2>5. PICK v : v = Seen(n - 1)
    BY Zenon
  <2>6. v \in Totals
    BY <2>5 DEF Totals
  <2>7. ASSUME NEW s \in Side, NEW p \in Price
        PROVE  Seen(n)[s][p] = IF s = x /\ p = y THEN t[x][y] ELSE v[s][p]
    BY <2>3, <2>5, Zenon
  <2>8. Seen(n) = [v EXCEPT ![x][y] = t[x][y]]
    <3>1. Seen(n) \in Totals
      BY Zenon DEF Totals
    <3>2. PICK u : u = Seen(n)
      BY Zenon
    <3>3. u \in [Side -> [Price -> Nat]] /\ v \in [Side -> [Price -> Nat]]
      BY <2>6, <3>1, <3>2, Zenon DEF Totals
    <3>4. \A s \in Side, p \in Price :
            u[s][p] = IF s = x /\ p = y THEN t[x][y] ELSE v[s][p]
      BY <2>7, <3>2, Zenon
    <3> HIDE DEF Seen
    <3>5. u = [v EXCEPT ![x][y] = t[x][y]]
      BY <3>3, <3>4
    <3> QED
      BY <3>2, <3>5, Zenon
  <2> QED
    BY <2>2, <2>4, <2>5, <2>8, Zenon
<1> HIDE DEF Named, Seen
<1>3. IsAfter(w)
  <2>1. ASSUME NEW n \in 0..Len(ds)
        PROVE  Seen(n) = IF n = 0 THEN m
                         ELSE [w[n - 1] EXCEPT ![ds[n].side][ds[n].price] = ds[n].qty]
    <3>1. CASE n = 0
      BY <1>1, <3>1, Zenon
    <3>2. CASE n # 0
      <4>1. n \in 1..Len(ds) /\ n - 1 \in 0..Len(ds)
        BY <3>2
      <4>2. w[n - 1] = Seen(n - 1)
        BY <4>1, Zenon
      <4> QED
        BY <1>2, <3>2, <4>1, <4>2, Zenon
    <3> QED
      BY <3>1, <3>2, Zenon
  <2> QED
    BY <2>1, Zenon
<1>4. IsAfter(c)
  BY <1>3, Zenon
<1>5. Applied(m, ds) = c[Len(ds)]
  BY Zenon DEF Applied
<1> HIDE DEF c, w
<1> DEFINE N == {n \in Nat : n <= Len(ds) => c[n] = Seen(n)}
<1>6. 0 \in N
  BY <1>1, <1>4
<1>7. ASSUME NEW n \in Nat, n \in N PROVE n + 1 \in N
  <2> SUFFICES ASSUME n + 1 <= Len(ds) PROVE c[n + 1] = Seen(n + 1)
    OBVIOUS
  <2>1. PICK k : k = n + 1 /\ k \in 1..Len(ds) /\ k \in 0..Len(ds) /\ k # 0 /\ k - 1 = n
    OBVIOUS
  <2>2. c[k - 1] = Seen(k - 1)
    BY <1>7, <2>1
  <2>3. c[k] = [c[k - 1] EXCEPT ![ds[k].side][ds[k].price] = ds[k].qty]
    BY <1>4, <2>1, Zenon
  <2> QED
    BY <1>2, <2>1, <2>2, <2>3, Zenon
<1> HIDE DEF N, IsAfter
<1>8. Len(ds) \in N
  BY <1>6, <1>7, NatSetInduction
<1>9. c[Len(ds)] = Seen(Len(ds))
  BY <1>8 DEF N
<1> QED
  BY <1>5, <1>9, Zenon DEF Seen, Named

\* A subscriber that has the totals m and applies what emit_l2_deltas makes
\* of the captures of m and of t has t.
LEMMA AppliedRight ==
  ASSUME NEW m \in Totals, NEW t \in Totals, NEW b, NEW a,
         Describes(b, m), Describes(a, t)
  PROVE  Applied(m, Deltas(b, a)) = t
<1>1. /\ b \in Seq(LevelTotal) /\ a \in Seq(LevelTotal) /\ Sorted(b) /\ Sorted(a)
  BY Zenon DEF Describes
<1>2. PICK d : d = Deltas(b, a)
  BY Zenon
<1>3. MergeOK(b, a, 1, 1, d)
  BY <1>1, <1>2, DeltasRight, Zenon
<1>4. /\ d \in Seq(LevelTotal)
      /\ \A k \in 1..Len(b) : b[k] \in Range(b) /\ b[k] \in LevelTotal
      /\ \A k \in 1..Len(a) : a[k] \in Range(a) /\ a[k] \in LevelTotal
      /\ \A l \in Range(b) : \E k \in 1..Len(b) : l = b[k]
      /\ \A l \in Range(a) : \E k \in 1..Len(a) : l = a[k]
      /\ \A e \in Range(d) : e \in LevelTotal
      /\ \A n \in 1..Len(d) : d[n] \in Range(d)
      /\ \A e \in Range(d) : \E n \in 1..Len(d) : e = d[n]
  <2>1. d \in Seq(LevelTotal)
    BY <1>3, Zenon DEF MergeOK
  <2> QED
    BY <1>1, <2>1 DEF Range
<1>5. ASSUME NEW e \in Range(d) PROVE t[e.side][e.price] = e.qty
  <2>1. CASE \E l \in 1..Len(a) : e = a[l]
    BY <1>4, <2>1, Zenon DEF Describes
  <2>2. ASSUME NEW k \in 1..Len(b), e = Gone(b[k]),
               \A l \in 1..Len(a) : ~SameLevel(b[k], a[l])
        PROVE  t[e.side][e.price] = e.qty
    <3>1. b[k] \in LevelTotal
      BY <1>4, Zenon
    <3>2. /\ e.qty = 0 /\ e.side = b[k].side /\ e.price = b[k].price
          /\ e.side \in Side /\ e.price \in Price
      BY <2>2, <3>1, GoneLevel, Zenon DEF LevelTotal
    <3>3. \A l \in Range(a) : l.side # e.side \/ l.price # e.price
      BY <1>4, <2>2, <3>2 DEF SameLevel
    <3> QED
      BY <3>2, <3>3, Zenon DEF Describes
  <2> QED
    BY <1>3, <2>1, <2>2, Zenon DEF MergeOK
<1>6. ASSUME NEW s \in Side, NEW p \in Price,
             \A e \in Range(d) : e.side # s \/ e.price # p
      PROVE  m[s][p] = t[s][p]
  <2>1. CASE \E l \in 1..Len(a) : a[l].side = s /\ a[l].price = p
    <3>1. PICK l \in 1..Len(a) : a[l].side = s /\ a[l].price = p
      BY <2>1, Zenon
    <3>2. a[l] \notin Range(d)
      BY <1>6, <3>1, Zenon
    <3>3. PICK k \in 1..Len(b) : b[k] = a[l]
      BY <1>3, <3>2, Zenon DEF MergeOK
    <3> QED
      BY <1>4, <3>1, <3>3 DEF Describes
  <2>2. CASE \A l \in 1..Len(a) : a[l].side # s \/ a[l].price # p
    <3>1. t[s][p] = 0
      BY <1>4, <2>2 DEF Describes
    <3>2. \A k \in 1..Len(b) : b[k].side # s \/ b[k].price # p
      <4> SUFFICES ASSUME NEW k \in 1..Len(b), b[k].side = s, b[k].price = p
                   PROVE  FALSE
        BY Zenon
      <4>1. Gone(b[k]).side = s /\ Gone(b[k]).price = p
        BY <1>4, GoneLevel, Zenon
      <4>2. PICK l \in 1..Len(a) : SameLevel(b[k], a[l])
        BY <1>3, <1>6, <4>1, Zenon DEF MergeOK
      <4> QED
        BY <2>2, <4>2, Zenon DEF SameLevel
    <3>3. m[s][p] = 0
      BY <1>4, <3>2 DEF Describes
    <3> QED
      BY <3>1, <3>3, Zenon
  <2> QED
    BY <2>1, <2>2, Zenon
<1>7. Applied(m, d) = [s \in Side |-> [p \in Price |->
                         IF \E n \in 1..Len(d) : d[n].side = s /\ d[n].price = p
                         THEN t[s][p] ELSE m[s][p]]]
  BY <1>4, <1>5, AppliedIs
<1>8. ASSUME NEW s \in Side, NEW p \in Price
      PROVE  (IF \E n \in 1..Len(d) : d[n].side = s /\ d[n].price = p
              THEN t[s][p] ELSE m[s][p]) = t[s][p]
  <2>1. CASE \E n \in 1..Len(d) : d[n].side = s /\ d[n].price = p
    BY <2>1, Zenon
  <2>2. CASE ~\E n \in 1..Len(d) : d[n].side = s /\ d[n].price = p
    <3>1. \A e \in Range(d) : e.side # s \/ e.price # p
      BY <1>4, <2>2, Zenon
    <3>2. m[s][p] = t[s][p]
      BY <1>6, <3>1, Zenon
    <3> QED
      BY <2>2, <3>2, Zenon
  <2> QED
    BY <2>1, <2>2, Zenon
<1>9. Applied(m, d) = [s \in Side |-> [p \in Price |-> t[s][p]]]
  <2> DEFINE v(s, p) == IF \E n \in 1..Len(d) : d[n].side = s /\ d[n].price = p
                        THEN t[s][p] ELSE m[s][p]
  <2>1. \A s \in Side, p \in Price : v(s, p) = t[s][p]
    BY <1>8, Zenon
  <2>2. Applied(m, d) = [s \in Side |-> [p \in Price |-> v(s, p)]]
    BY <1>7, Zenon
  <2> HIDE DEF v
  <2> QED
    BY <2>1, <2>2, Zenon
<1>10. t = [s \in Side |-> [p \in Price |-> t[s][p]]]
  BY Zenon DEF Totals
<1> QED
  BY <1>2, <1>9, <1>10, Zenon

-----------------------------------------------------------------------------
(* The capture.                                                            *)

\* The function behind the list of a side: lists grow at the dearest level.
IsAscent(e, g, D) ==
  g = [t \in D |-> IF t = {} THEN NoLevels
                   ELSE Append(g[t \ {Max(t)}], e[Max(t)])]

\* The list q of the levels e gives to the prices t, the cheapest first.
Ascent(e, t, q) ==
  /\ q \in Seq(LevelTotal)
  /\ Range(q) = {e[p] : p \in t}
  /\ \A i, j \in 1..Len(q) : i < j => q[i].price < q[j].price

\* Prices have a greatest one.
LEMMA MaxIs ==
  ASSUME NEW t \in SUBSET Price, t # {}
  PROVE  Max(t) \in t /\ \A y \in t : y <= Max(t)
<1> DEFINE D == {MaxPrice - y : y \in t}
<1>1. \A y \in t : y \in Nat /\ y <= MaxPrice /\ MaxPrice \in Nat
  BY PriceAssumption
<1>2. D \in SUBSET Nat /\ D # {}
  BY <1>1
<1>3. PICK d \in D : \A c \in D : d <= c
  BY <1>2, LeastNat, Zenon
<1>4. PICK x \in t : d = MaxPrice - x
  BY <1>3, Zenon
<1>5. \A y \in t : x >= y
  <2> SUFFICES ASSUME NEW y \in t PROVE x >= y
    BY Zenon
  <2>1. MaxPrice - y \in D
    BY Zenon
  <2>2. MaxPrice - x <= MaxPrice - y
    BY <1>3, <1>4, <2>1, Zenon
  <2> QED
    BY <1>1, <2>2
<1> HIDE DEF D
<1>6. PICK z : z = Max(t)
  BY Zenon
<1>7. z \in t /\ \A y \in t : z >= y
  BY <1>5, <1>6, Zenon DEF Max
<1>8. \A y \in t : y <= z
  BY <1>1, <1>7, Zenon
<1> QED
  BY <1>6, <1>7, <1>8, Zenon

\* Without its dearest price a side has one price less.
LEMMA WithoutMax ==
  ASSUME NEW S \in SUBSET Price, IsFiniteSet(S), NEW t \in SUBSET S, t # {}
  PROVE  /\ Max(t) \in t /\ t \ {Max(t)} \in SUBSET S
         /\ Cardinality(t) \in Nat
         /\ Cardinality(t \ {Max(t)}) = Cardinality(t) - 1
         /\ Cardinality(t \ {Max(t)}) < Cardinality(t)
<1>1. Max(t) \in t
  BY MaxIs, Zenon
<1>2. IsFiniteSet(t)
  BY FS_Subset, Zenon
<1>3. Cardinality(t) \in Nat
  BY <1>2, FS_CardinalityType, Zenon
<1>4. Cardinality(t \ {Max(t)}) = Cardinality(t) - 1
  BY <1>1, <1>2, FS_RemoveElement, Zenon
<1> QED
  BY <1>1, <1>3, <1>4

\* The function behind the list exists: by induction over the number of
\* prices.
LEMMA AscentExists ==
  ASSUME NEW S \in SUBSET Price, IsFiniteSet(S), NEW e
  PROVE  \E g : IsAscent(e, g, SUBSET S)
<1> DEFINE N == {n \in Nat : \E g : IsAscent(e, g, AtMost(S, n))}
<1>1. 0 \in N
  <2> DEFINE g == [t \in AtMost(S, 0) |-> NoLevels]
  <2>1. \A t \in AtMost(S, 0) : t = {}
    BY FS_Subset, FS_EmptySet, FS_CardinalityType DEF AtMost
  <2>2. IsAscent(e, g, AtMost(S, 0))
    BY <2>1, Zenon DEF IsAscent
  <2> QED
    BY <2>2, Zenon
<1>2. ASSUME NEW n \in Nat, n \in N PROVE n + 1 \in N
  <2>1. PICK g : IsAscent(e, g, AtMost(S, n))
    BY <1>2, Zenon
  <2> DEFINE h == [t \in AtMost(S, n + 1) |->
                     IF t = {} THEN NoLevels
                     ELSE Append(g[t \ {Max(t)}], e[Max(t)])]
  <2>2. ASSUME NEW t \in AtMost(S, n) PROVE t \in AtMost(S, n + 1) /\ h[t] = g[t]
    <3>1. t \in AtMost(S, n + 1)
      BY FS_Subset, FS_CardinalityType DEF AtMost
    <3> QED
      BY <2>1, <3>1, Zenon DEF IsAscent
  <2>3. ASSUME NEW t \in AtMost(S, n + 1), t # {}
        PROVE  t \ {Max(t)} \in AtMost(S, n)
    BY <2>3, WithoutMax DEF AtMost
  <2>4. IsAscent(e, h, AtMost(S, n + 1))
    <3>1. \A t \in AtMost(S, n + 1) :
            t # {} => h[t \ {Max(t)}] = g[t \ {Max(t)}]
      BY <2>2, <2>3, Zenon
    <3> QED
      BY <3>1, Zenon DEF IsAscent
  <2> QED
    BY <2>4
<1> HIDE DEF N
<1>3. Cardinality(S) \in N /\ Cardinality(S) \in Nat
  BY <1>1, <1>2, NatSetInduction, FS_CardinalityType, Zenon
<1>4. AtMost(S, Cardinality(S)) = SUBSET S
  BY FS_Subset, Zenon DEF AtMost
<1> QED
  BY <1>3, <1>4, Zenon DEF N

\* A dearer level at the end keeps a list ascending.
LEMMA AscentStep ==
  ASSUME NEW S \in SUBSET Price, NEW e, NEW t \in SUBSET S, NEW x \in t,
         \A p \in S : e[p] \in LevelTotal /\ e[p].price = p,
         \A y \in t : y <= x,
         NEW q, Ascent(e, t \ {x}, q), NEW r, r = Append(q, e[x])
  PROVE  Ascent(e, t, r)
<1>1. /\ q \in Seq(LevelTotal) /\ Range(q) = {e[p] : p \in t \ {x}}
      /\ \A i, j \in 1..Len(q) : i < j => q[i].price < q[j].price
  BY Zenon DEF Ascent
<1>2. e[x] \in LevelTotal /\ e[x].price = x /\ \A p \in t : p \in Nat
  BY PriceAssumption
<1>3. PICK n \in Nat : n = Len(q)
  BY <1>1
<1>4. /\ r \in Seq(LevelTotal) /\ Len(r) = n + 1 /\ r[n + 1] = e[x]
      /\ \A i \in 1..n : r[i] = q[i]
  BY <1>1, <1>2, <1>3
<1>5. DOMAIN r = 1..(n + 1) /\ DOMAIN q = 1..n
  BY <1>1, <1>3, <1>4
<1>6. \A i : i \in 1..(n + 1) <=> i \in 1..n \/ i = n + 1
  BY <1>3
<1>7. Range(r) = Range(q) \cup {e[x]}
  <2>1. Range(r) \subseteq Range(q) \cup {e[x]}
    <3>1. \A i \in 1..n : r[i] \in Range(q)
      BY <1>4, <1>5, Zenon DEF Range
    <3>2. \A i \in 1..(n + 1) : r[i] \in Range(q) \cup {e[x]}
      BY <1>4, <1>6, <3>1, Zenon
    <3> QED
      BY <1>5, <3>2, Zenon DEF Range
  <2>2. \A i \in 1..n : i \in 1..(n + 1) /\ q[i] = r[i]
    BY <1>4, <1>6, Zenon
  <2>3. n + 1 \in 1..(n + 1)
    BY <1>6, Zenon
  <2>4. Range(q) \subseteq Range(r) /\ e[x] \in Range(r)
    BY <1>4, <1>5, <2>2, <2>3, Zenon DEF Range
  <2> QED
    BY <2>1, <2>4, Zenon
<1>8. Range(r) = {e[p] : p \in t}
  BY <1>1, <1>7, Zenon
<1>9. ASSUME NEW i \in 1..n PROVE r[i].price < x
  <2>1. q[i] \in Range(q)
    BY <1>5, Zenon DEF Range
  <2>2. PICK p \in t \ {x} : q[i] = e[p]
    BY <1>1, <2>1, Zenon
  <2>3. r[i].price = p /\ p <= x /\ p # x /\ p \in Nat /\ x \in Nat
    BY <1>2, <1>4, <2>2, Zenon
  <2> QED
    BY <2>3
<1>10. ASSUME NEW i \in 1..(n + 1), NEW j \in 1..(n + 1), i < j
       PROVE  r[i].price < r[j].price
  <2>1. i \in 1..n
    BY <1>3, <1>10
  <2>2. CASE j = n + 1
    BY <1>2, <1>4, <1>9, <2>1, <2>2, Zenon
  <2>3. CASE j \in 1..n
    BY <1>1, <1>3, <1>4, <1>10, <2>1, <2>3, Zenon
  <2> QED
    BY <1>6, <2>2, <2>3, Zenon
<1> QED
  BY <1>4, <1>8, <1>10, Zenon DEF Ascent

\* The list of a side has its levels, the cheapest first.
LEMMA AscentRight ==
  ASSUME NEW S \in SUBSET Price, IsFiniteSet(S), NEW e, NEW g,
         \A p \in S : e[p] \in LevelTotal /\ e[p].price = p,
         IsAscent(e, g, SUBSET S)
  PROVE  Ascent(e, S, g[S])
<1> DEFINE F == {t \in SUBSET S : Ascent(e, t, g[t])}
<1>1. ASSUME NEW t \in SUBSET S,
             \A u \in SUBSET S : Cardinality(u) < Cardinality(t) => u \in F
      PROVE  t \in F
  <2>1. CASE t = {}
    <3>1. g[t] = <<>>
      BY <2>1, Zenon DEF IsAscent, NoLevels
    <3>2. Ascent(e, {}, <<>>)
      BY DEF Ascent, Range
    <3> QED
      BY <2>1, <3>1, <3>2, Zenon
  <2>2. CASE t # {}
    <3>1. PICK x \in t, u \in SUBSET S :
            x = Max(t) /\ u = t \ {x} /\ Cardinality(u) < Cardinality(t)
      BY <2>2, WithoutMax, Zenon
    <3>2. Ascent(e, u, g[u])
      BY <1>1, <3>1, Zenon
    <3>3. g[t] = Append(g[u], e[x])
      BY <2>2, <3>1, Zenon DEF IsAscent
    <3>4. \A y \in t : y <= x
      BY <2>2, <3>1, MaxIs, Zenon
    <3>5. Ascent(e, t \ {x}, g[u])
      BY <3>1, <3>2, Zenon
    <3>6. Ascent(e, t, g[t])
      BY <3>3, <3>4, <3>5, AscentStep, Zenon
    <3> QED
      BY <3>6, Zenon
  <2> QED
    BY <2>1, <2>2, Zenon
<1> HIDE DEF F
<1>2. S \in F
  BY <1>1, SubsetInduction, Zenon
<1> QED
  BY <1>2, Zenon DEF F

\* Ascending of Levels.
Listed(s) ==
  MapThenFoldSet(LAMBDA l, below : Append(below, l), NoLevels,
                 LAMBDA p : [side |-> s, price |-> p, qty |-> Total(Level(s, p))],
                 Max, prices[s])

\* The capture of a side has its levels, the cheapest first.
LEMMA ListedRight ==
  ASSUME NEW s \in Side, prices[s] \in SUBSET Price, NEW e,
         \A p \in Price :
           /\ Total(Level(s, p)) \in Nat
           /\ e[p] = [side |-> s, price |-> p, qty |-> Total(Level(s, p))]
  PROVE  Ascent(e, prices[s], Listed(s))
<1>1. PICK S : S = prices[s]
  BY Zenon
<1>2. S \in SUBSET Price
  BY <1>1, Zenon
<1>3. IsFiniteSet(S)
  <2>1. IsFiniteSet(1..MaxPrice)
    BY PriceAssumption, FS_Interval
  <2>2. S \subseteq 1..MaxPrice
    BY <1>2, PriceAssumption, Zenon
  <2> QED
    BY <2>1, <2>2, FS_Subset, Zenon
<1>4. \A p \in S : e[p] \in LevelTotal /\ e[p].price = p
  <2> SUFFICES ASSUME NEW p \in S PROVE e[p] \in LevelTotal /\ e[p].price = p
    BY Zenon
  <2>1. PICK n \in Nat : n = Total(Level(s, p))
    BY <1>2, Zenon
  <2>2. p \in Price /\ e[p] = [side |-> s, price |-> p, qty |-> n]
    BY <1>2, <2>1, Zenon
  <2> QED
    BY <2>2 DEF LevelTotal
<1> DEFINE Lists(g) ==
             g = [t \in SUBSET S |->
                    IF t = {} THEN NoLevels
                    ELSE Append(g[t \ {Max(t)}],
                                [side |-> s, price |-> Max(t),
                                 qty |-> Total(Level(s, Max(t)))])]
           c == CHOOSE g : Lists(g)
<1>5. Listed(s) = c[S]
  BY <1>1, Zenon DEF Listed, MapThenFoldSet
<1>6. \A t \in SUBSET S :
        t # {} => e[Max(t)] = [side |-> s, price |-> Max(t),
                               qty |-> Total(Level(s, Max(t)))]
  BY <1>2, MaxIs, Zenon
<1>7. \A g : IsAscent(e, g, SUBSET S) <=> Lists(g)
  BY <1>6, Zenon DEF IsAscent
<1>8. \E g : Lists(g)
  BY <1>2, <1>3, <1>7, AscentExists, Zenon
<1>9. IsAscent(e, c, SUBSET S)
  BY <1>7, <1>8, Zenon
<1> HIDE DEF c
<1>10. Ascent(e, S, c[S])
  BY <1>2, <1>3, <1>4, <1>9, AscentRight, Zenon
<1> QED
  BY <1>1, <1>5, <1>10, Zenon

\* The capture of the book: sorted, and exactly its levels.
LEMMA LevelsRight ==
  ASSUME prices \in [Side -> SUBSET Price], NEW m \in Totals,
         \A s \in Side, p \in Price :
           m[s][p] = Total(Level(s, p)) /\ (p \notin prices[s] => m[s][p] = 0)
  PROVE  Describes(Levels, m)
<1>1. "Bid" \in Side /\ "Ask" \in Side /\ \A s \in Side : s = "Bid" \/ s = "Ask"
  BY Zenon DEF Side
<1> DEFINE E(s) == [p \in Price |-> [side |-> s, price |-> p, qty |-> m[s][p]]]
<1>2. ASSUME NEW s \in Side PROVE Ascent(E(s), prices[s], Listed(s))
  <2>1. \A p \in Price :
          /\ Total(Level(s, p)) \in Nat
          /\ E(s)[p] = [side |-> s, price |-> p, qty |-> Total(Level(s, p))]
    <3> SUFFICES ASSUME NEW p \in Price
                 PROVE  /\ Total(Level(s, p)) \in Nat
                        /\ E(s)[p] = [side |-> s, price |-> p,
                                      qty |-> Total(Level(s, p))]
      BY Zenon
    <3>1. m[s][p] \in Nat /\ m[s][p] = Total(Level(s, p))
      BY Zenon DEF Totals
    <3> QED
      BY <3>1, Zenon
  <2>2. prices[s] \in SUBSET Price
    BY Zenon
  <2> HIDE DEF E
  <2> QED
    BY <2>1, <2>2, ListedRight, Zenon
<1>3. PICK b, a : b = Listed("Bid") /\ a = Listed("Ask")
  BY Zenon
<1>4. Levels = b \o a
  BY <1>3, Zenon DEF Levels, Listed
<1>5. /\ Ascent(E("Bid"), prices["Bid"], b) /\ Ascent(E("Ask"), prices["Ask"], a)
  BY <1>1, <1>2, <1>3, Zenon
<1>6. ASSUME NEW s \in Side, NEW q, Ascent(E(s), prices[s], q)
      PROVE  /\ q \in Seq(LevelTotal)
             /\ \A i \in 1..Len(q) :
                  q[i].side = s /\ q[i].price \in prices[s] /\ q[i].qty = m[s][q[i].price]
             /\ \A p \in prices[s] :
                  \E i \in 1..Len(q) : q[i].side = s /\ q[i].price = p
             /\ \A i, j \in 1..Len(q) : i < j => q[i].price < q[j].price
  <2>1. /\ q \in Seq(LevelTotal) /\ Range(q) = {E(s)[p] : p \in prices[s]}
        /\ \A i, j \in 1..Len(q) : i < j => q[i].price < q[j].price
    BY <1>6, Zenon DEF Ascent
  <2>2. DOMAIN q = 1..Len(q)
    BY <2>1
  <2>3. ASSUME NEW p \in prices[s]
        PROVE  E(s)[p].side = s /\ E(s)[p].price = p /\ E(s)[p].qty = m[s][p]
    <3>1. p \in Price
      BY Zenon
    <3> QED
      BY <3>1, Zenon
  <2> HIDE DEF E
  <2>4. \A i \in 1..Len(q) : \E p \in prices[s] : q[i] = E(s)[p]
    BY <2>1, <2>2, Zenon DEF Range
  <2>5. \A p \in prices[s] : \E i \in 1..Len(q) : q[i] = E(s)[p]
    BY <2>1, <2>2, Zenon DEF Range
  <2>6. \A i \in 1..Len(q) :
          q[i].side = s /\ q[i].price \in prices[s] /\ q[i].qty = m[s][q[i].price]
    <3> SUFFICES ASSUME NEW i \in 1..Len(q)
                 PROVE  /\ q[i].side = s /\ q[i].price \in prices[s]
                        /\ q[i].qty = m[s][q[i].price]
      BY Zenon
    <3>1. PICK p \in prices[s] : q[i] = E(s)[p]
      BY <2>4, Zenon
    <3> QED
      BY <2>3, <3>1
  <2>7. \A p \in prices[s] : \E i \in 1..Len(q) : q[i].side = s /\ q[i].price = p
    <3> SUFFICES ASSUME NEW p \in prices[s]
                 PROVE  \E i \in 1..Len(q) : q[i].side = s /\ q[i].price = p
      BY Zenon
    <3>1. PICK i \in 1..Len(q) : q[i] = E(s)[p]
      BY <2>5, Zenon
    <3> QED
      BY <2>3, <3>1, Zenon
  <2> QED
    BY <2>1, <2>6, <2>7, Zenon
<1> HIDE DEF E
<1>7. /\ b \in Seq(LevelTotal)
      /\ \A i \in 1..Len(b) : /\ b[i].side = "Bid" /\ b[i].price \in prices["Bid"]
                              /\ b[i].qty = m["Bid"][b[i].price]
      /\ \A p \in prices["Bid"] :
           \E i \in 1..Len(b) : b[i].side = "Bid" /\ b[i].price = p
      /\ \A i, j \in 1..Len(b) : i < j => b[i].price < b[j].price
  BY <1>1, <1>5, <1>6, Zenon
<1>8. /\ a \in Seq(LevelTotal)
      /\ \A i \in 1..Len(a) : /\ a[i].side = "Ask" /\ a[i].price \in prices["Ask"]
                              /\ a[i].qty = m["Ask"][a[i].price]
      /\ \A p \in prices["Ask"] :
           \E i \in 1..Len(a) : a[i].side = "Ask" /\ a[i].price = p
      /\ \A i, j \in 1..Len(a) : i < j => a[i].price < a[j].price
  BY <1>1, <1>5, <1>6, Zenon
<1>9. PICK x \in Nat, y \in Nat : x = Len(b) /\ y = Len(a)
  BY <1>7, <1>8
<1>10. PICK q : q = b \o a
  BY Zenon
<1>11. /\ q \in Seq(LevelTotal) /\ Len(q) = x + y
       /\ \A i \in 1..(x + y) : q[i] = IF i <= x THEN b[i] ELSE a[i - x]
  <2>1. b \in Seq(LevelTotal) /\ a \in Seq(LevelTotal)
    BY <1>7, <1>8, Zenon
  <2> QED
    BY <1>9, <1>10, <2>1, ConcatProperties
<1>12. ASSUME NEW i \in 1..x PROVE i \in 1..(x + y) /\ q[i] = b[i] /\ i \in Int
  BY <1>9, <1>11
<1>13. ASSUME NEW i \in 1..y PROVE x + i \in 1..(x + y) /\ q[x + i] = a[i]
  <2>1. x + i \in 1..(x + y) /\ ~(x + i <= x) /\ (x + i) - x = i
    BY <1>9
  <2> QED
    BY <1>11, <2>1, Zenon
<1>14. ASSUME NEW i \in 1..(x + y) PROVE i \in 1..x \/ \E k \in 1..y : i = x + k
  <2>1. CASE i <= x
    BY <1>9, <2>1
  <2>2. CASE ~(i <= x)
    <3>1. i - x \in 1..y /\ i = x + (i - x)
      BY <1>9, <2>2
    <3> QED
      BY <3>1, Zenon
  <2> QED
    BY <2>1, <2>2, Zenon
<1>15. Sorted(q)
  <2> SUFFICES ASSUME NEW i \in 1..(x + y), NEW j \in 1..(x + y), i < j
               PROVE  Before(q[i], q[j])
    BY <1>11, Zenon DEF Sorted
  <2>1. CASE i \in 1..x /\ j \in 1..x
    BY <1>7, <1>9, <1>12, <2>1, Zenon DEF Before
  <2>2. ASSUME i \in 1..x, NEW k \in 1..y, j = x + k PROVE Before(q[i], q[j])
    <3>1. q[i].side = "Bid"
      BY <1>7, <1>9, <1>12, <2>2, Zenon
    <3>2. q[j].side = "Ask"
      <4>1. q[j] = a[k]
        BY <1>13, <2>2, Zenon
      <4> QED
        BY <1>8, <1>9, <4>1, Zenon
    <3> QED
      BY <3>1, <3>2, Zenon DEF Before
  <2>3. ASSUME NEW k \in 1..y, i = x + k, NEW l \in 1..y, j = x + l
        PROVE  Before(q[i], q[j])
    <3>1. k < l
      BY <1>9, <2>3
    <3> QED
      BY <1>8, <1>9, <1>13, <2>3, <3>1 DEF Before
  <2>4. ~(j \in 1..x /\ \E k \in 1..y : i = x + k)
    BY <1>9
  <2> QED
    BY <1>14, <2>1, <2>2, <2>3, <2>4, Zenon
<1>16. DOMAIN q = 1..(x + y)
  BY <1>11
<1>17. ASSUME NEW i \in 1..(x + y) PROVE m[q[i].side][q[i].price] = q[i].qty
  <2>1. CASE i \in 1..x
    <3>1. q[i] = b[i]
      BY <1>12, <2>1, Zenon
    <3>2. b[i].side = "Bid" /\ b[i].qty = m["Bid"][b[i].price]
      BY <1>7, <1>9, <2>1, Zenon
    <3> QED
      BY <3>1, <3>2, Zenon
  <2>2. ASSUME NEW k \in 1..y, i = x + k
        PROVE  m[q[i].side][q[i].price] = q[i].qty
    <3>1. q[i] = a[k]
      BY <1>13, <2>2, Zenon
    <3>2. a[k].side = "Ask" /\ a[k].qty = m["Ask"][a[k].price]
      BY <1>8, <1>9, <2>2, Zenon
    <3> QED
      BY <3>1, <3>2, Zenon
  <2> QED
    BY <1>14, <2>1, <2>2, Zenon
<1>18. ASSUME NEW s \in Side, NEW p \in prices[s]
       PROVE  \E i \in 1..(x + y) : q[i].side = s /\ q[i].price = p
  <2>1. CASE s = "Bid"
    BY <1>7, <1>9, <1>12, <2>1, Zenon
  <2>2. CASE s = "Ask"
    <3>1. PICK i \in 1..y : a[i].side = "Ask" /\ a[i].price = p
      BY <1>8, <1>9, <2>2, Zenon
    <3>2. x + i \in 1..(x + y) /\ q[x + i] = a[i]
      BY <1>13, Zenon
    <3> QED
      BY <2>2, <3>1, <3>2, Zenon
  <2> QED
    BY <1>1, <2>1, <2>2, Zenon
<1>19. \A l \in Range(q) : m[l.side][l.price] = l.qty
  BY <1>16, <1>17, Zenon DEF Range
<1>20. ASSUME NEW s \in Side, NEW p \in Price,
              \A l \in Range(q) : l.side # s \/ l.price # p
       PROVE  m[s][p] = 0
  <2>1. p \notin prices[s]
    <3> SUFFICES ASSUME p \in prices[s] PROVE FALSE
      BY Zenon
    <3>1. PICK i \in 1..(x + y) : q[i].side = s /\ q[i].price = p
      BY <1>18
    <3>2. q[i] \in Range(q)
      BY <1>16, Zenon DEF Range
    <3> QED
      BY <1>20, <3>1, <3>2, Zenon
  <2> QED
    BY <2>1, Zenon
<1>21. Describes(q, m)
  BY <1>11, <1>15, <1>19, <1>20, Zenon DEF Describes
<1> QED
  BY <1>4, <1>10, <1>21, Zenon

-----------------------------------------------------------------------------
(* The steps of the engine.                                                *)

\* The level totals of the book.
BookTotals == [s \in Side |-> [p \in Price |-> Total(Level(s, p))]]

\* A side has exactly the prices at which something rests.
TotalsOK ==
  /\ prices \in [Side -> SUBSET Price]
  /\ BookTotals \in Totals
  /\ \A s \in Side, p \in Price : p \in prices[s] <=> BookTotals[s][p] > 0

\* Between two commands the mirror has the totals of the book; while one is
\* carried out, it has those that step captured.
MirrorInv ==
  /\ pre \in Seq(LevelTotal)
  /\ mirror # None =>
       /\ mirror \in Totals
       /\ stage = "ready" => mirror = BookTotals
       /\ stage # "ready" => Describes(pre, mirror)

\* Between two commands the last top-of-book tick has the best prices.
TopInv ==
  /\ top \in [Side -> [price : Limit, qty : Nat]]
  /\ stage = "ready" => \A s \in Side : top[s].price = BestPrice(s)

\* A step captures the levels and starts a command, or leaves the market data
\* alone; a step between two commands does not touch the book.
Captures ==
  stage = "ready" /\ stage' # "ready" /\ pre' = Levels /\ UNCHANGED <<mirror, top>>

Keeps ==
  /\ UNCHANGED <<pre, mirror, top>>
  /\ stage' = "ready" <=> stage = "ready"
  /\ stage = "ready" => UNCHANGED bookVars

\* Only SnapshotRequest and the end of step change what a subscriber has.
LEMMA MarketSteps ==
  [EngineNext]_allVars => Captures \/ Keeps \/ SnapshotRequest \/ EmitBookChanges
<1> SUFFICES ASSUME [EngineNext]_allVars
             PROVE  Captures \/ Keeps \/ SnapshotRequest \/ EmitBookChanges
  BY Zenon
<1> USE DEF Captures, Keeps, subscriberVars
<1>1. ASSUME stage = "ready", RejectCommand PROVE Captures
  BY <1>1, Zenon DEF RejectCommand, OneShot
<1>2. ASSUME NEW t \in NewOrders, NewOrder(t) \/ RejectNewOrder(t)
      PROVE  Captures
  BY <1>1, <1>2, Zenon DEF NewOrder, RejectNewOrder, BeginWalk
<1>3. ASSUME NEW a \in Account, NEW id \in OrderId,
             CancelOrder(a, id) \/ RejectCancelOrder(a, id)
      PROVE  Captures
  BY <1>1, <1>3, Zenon DEF CancelOrder, RejectCancelOrder, OneShot
<1>4. ASSUME NEW a \in Account, NEW id \in OrderId, NEW p \in Price,
             NEW q \in Qty,
             \/ AmendOrder(a, id, p, q)
             \/ RepriceOrder(a, id, p, q)
             \/ RejectCancelReplace(a, id, p, q)
      PROVE  Captures
  BY <1>1, <1>4, Zenon DEF AmendOrder, RepriceOrder, RejectCancelReplace, OneShot, BeginWalk
<1>5. ASSUME NEW a \in Account, CancelAll(a) \/ RejectMassCancel(a)
      PROVE  Captures
  BY <1>1, <1>5, Zenon DEF CancelAll, RejectMassCancel, OneShot
<1>6. ASSUME NEW engaged \in BOOLEAN, KillSwitchSet(engaged)
      PROVE  Keeps
  BY <1>6, Zenon DEF KillSwitchSet, stepVars, vars
<1>7. CASE MatchOne \/ MatchReturns
  BY <1>7, Zenon DEF MatchOne, MatchReturns, engineVars, stepVars
<1>8. CASE ReportFill
  BY <1>8, Zenon DEF ReportFill
<1>9. CASE DisposeStp \/ DisposeFilled \/ CancelTaker \/ RestTaker
  BY <1>9, Zenon DEF DisposeStp, DisposeFilled, CancelTaker, RestTaker, Residual,
              AllReported, EndWalk
<1>10. CASE RefuseResidual \/ RegisterReplaced \/ CancelReplaced
  BY <1>10, Zenon DEF RefuseResidual, RegisterReplaced, CancelReplaced, Residual,
               AllReported, EndWalk
<1>11. CASE UNCHANGED allVars
  BY <1>11, Zenon DEF allVars, engineVars, stepVars, vars
<1> QED
  BY <1>2, <1>3, <1>4, <1>5, <1>6, <1>7, <1>8, <1>9, <1>10, <1>11, Zenon
     DEF EngineNext, Commands, Pipeline

\* What BookTotals and BestPrice read.
LEMMA UnchangedTotals ==
  UNCHANGED bookVars =>
    BookTotals' = BookTotals /\ \A s : BestPrice(s)' = BestPrice(s)
BY DEF bookVars, BookTotals, Level, BestPrice, IsBest

\* The capture tells the totals of the book.
LEMMA CaptureRight ==
  ASSUME TotalsOK
  PROVE  Describes(Levels, BookTotals) /\ SnapshotLevels = BookTotals
<1>1. \A s \in Side, p \in Price :
        /\ BookTotals[s][p] = Total(Level(s, p)) /\ BookTotals[s][p] \in Nat
        /\ p \notin prices[s] => BookTotals[s][p] = 0
  <2> SUFFICES ASSUME NEW s \in Side, NEW p \in Price
               PROVE  /\ BookTotals[s][p] = Total(Level(s, p))
                      /\ BookTotals[s][p] \in Nat
                      /\ p \notin prices[s] => BookTotals[s][p] = 0
    BY Zenon
  <2>1. BookTotals[s][p] = Total(Level(s, p))
    BY Zenon DEF BookTotals
  <2>2. BookTotals[s][p] \in Nat
    BY Zenon DEF TotalsOK, Totals
  <2> QED
    BY <2>1, <2>2 DEF TotalsOK
<1>2. Describes(Levels, BookTotals)
  <2>1. PICK m : m = BookTotals
    BY Zenon
  <2>2. m \in Totals /\ prices \in [Side -> SUBSET Price]
    BY <2>1, Zenon DEF TotalsOK
  <2>3. \A s \in Side, p \in Price :
          m[s][p] = Total(Level(s, p)) /\ (p \notin prices[s] => m[s][p] = 0)
    BY <1>1, <2>1, Zenon
  <2>4. Describes(Levels, m)
    BY <2>2, <2>3, LevelsRight, Zenon
  <2> QED
    BY <2>1, <2>4, Zenon
<1>3. ASSUME NEW s \in Side, NEW p \in Price
      PROVE  (IF p \in prices[s] THEN Total(Level(s, p)) ELSE 0) = Total(Level(s, p))
  BY <1>1, Zenon
<1>4. SnapshotLevels = BookTotals
  <2> DEFINE v(s, p) == IF p \in prices[s] THEN Total(Level(s, p)) ELSE 0
  <2>1. \A s \in Side, p \in Price : v(s, p) = Total(Level(s, p))
    BY <1>3, Zenon
  <2>2. SnapshotLevels = [s \in Side |-> [p \in Price |-> v(s, p)]]
    BY Zenon DEF SnapshotLevels
  <2> HIDE DEF v
  <2> QED
    BY <2>1, <2>2, Zenon DEF BookTotals
<1> QED
  BY <1>2, <1>4, Zenon

\* Every step keeps the mirror right.
LEMMA NextMirrorInv ==
  ASSUME TotalsOK, TotalsOK', MirrorInv, [EngineNext]_allVars
  PROVE  MirrorInv'
<1>1. CASE Captures
  <2>1. Describes(Levels, BookTotals)
    BY CaptureRight, Zenon
  <2> QED
    <3>1. /\ stage = "ready" /\ stage' # "ready" /\ pre' = Levels /\ mirror' = mirror
          /\ Levels \in Seq(LevelTotal)
      BY <1>1, <2>1, Zenon DEF Captures, Describes
    <3>2. ASSUME mirror # None PROVE mirror \in Totals /\ mirror = BookTotals
      BY <3>1, <3>2, Zenon DEF MirrorInv
    <3>3. mirror # None => Describes(pre', mirror')
      BY <2>1, <3>1, <3>2, Zenon
    <3> QED
      BY <3>1, <3>2, <3>3, Zenon DEF MirrorInv
<1>2. CASE Keeps
  BY <1>2, UnchangedTotals, Zenon DEF Keeps, MirrorInv, Describes
<1>3. CASE SnapshotRequest
  <2>1. /\ stage = "ready" /\ mirror' = BookTotals /\ BookTotals' = BookTotals
        /\ stage' = stage /\ pre' = pre
    BY <1>3, CaptureRight, UnchangedTotals, Zenon DEF SnapshotRequest, vars, stepVars
  <2> QED
    BY <2>1, Zenon DEF MirrorInv, TotalsOK
<1>4. CASE EmitBookChanges
  <2>1. /\ stage = "tail" /\ stage' = "ready" /\ pre' = <<>>
        /\ mirror' = IF mirror = None THEN None
                     ELSE Applied(mirror, Deltas(pre, Levels))
        /\ BookTotals' = BookTotals
    BY <1>4, UnchangedTotals, Zenon DEF EmitBookChanges, vars, NoLevels
  <2>2. <<>> \in Seq(LevelTotal)
    OBVIOUS
  <2>3. ASSUME mirror # None PROVE mirror' = BookTotals
    <3>1. mirror \in Totals /\ Describes(pre, mirror)
      BY <2>1, <2>3, Zenon DEF MirrorInv
    <3>2. Describes(Levels, BookTotals) /\ BookTotals \in Totals
      BY CaptureRight, Zenon DEF TotalsOK
    <3>3. Applied(mirror, Deltas(pre, Levels)) = BookTotals
      BY <3>1, <3>2, AppliedRight, Zenon
    <3> QED
      BY <2>1, <2>3, <3>3, Zenon
  <2> QED
    BY <2>1, <2>2, <2>3, Zenon DEF MirrorInv, TotalsOK
<1> QED
  BY <1>1, <1>2, <1>3, <1>4, MarketSteps, Zenon

\* Every step keeps the top of the book right.
LEMMA NextTopInv ==
  ASSUME \A s \in Side : TopOf(s) \in [price : Limit, qty : Nat],
         TopInv, [EngineNext]_allVars
  PROVE  TopInv'
<1>1. CASE Captures
  BY <1>1, Zenon DEF Captures, TopInv
<1>2. CASE Keeps
  BY <1>2, UnchangedTotals, Zenon DEF Keeps, TopInv
<1>3. CASE SnapshotRequest
  <2>1. stage' = stage /\ top' = top /\ \A s : BestPrice(s)' = BestPrice(s)
    BY <1>3, UnchangedTotals, Zenon DEF SnapshotRequest, vars, stepVars
  <2> QED
    BY <2>1, Zenon DEF TopInv
<1>4. CASE EmitBookChanges
  <2>1. top' = [s \in Side |-> TopOf(s)] /\ \A s : BestPrice(s)' = BestPrice(s)
    BY <1>4, UnchangedTotals, Zenon DEF EmitBookChanges, vars
  <2>2. \A s \in Side : top'[s].price = BestPrice(s)
    BY <2>1, Zenon DEF TopOf
  <2>3. top' \in [Side -> [price : Limit, qty : Nat]]
    BY <2>1, Zenon
  <2> QED
    BY <2>1, <2>2, <2>3, Zenon DEF TopInv
<1> QED
  BY <1>1, <1>2, <1>3, <1>4, MarketSteps, Zenon

\* There is one best price, so a reader of the mirror finds the book's.
LEMMA BestIsUnique ==
  ASSUME NEW s \in Side, NEW P \in SUBSET Price, P # {}, NEW p \in P, NEW q \in P,
         \A r \in P : AsGood(s, p, r), \A r \in P : AsGood(s, q, r)
  PROVE  p = q
<1>1. p \in Nat /\ q \in Nat /\ AsGood(s, p, q) /\ AsGood(s, q, p)
  BY PriceNat, Zenon
<1> QED
  BY <1>1 DEF AsGood

\* The mirror's best price is the book's.
LEMMA MirrorBestIs ==
  ASSUME TotalsOK, mirror = BookTotals
  PROVE  \A s \in Side : MirrorBest(s) = BestPrice(s)
<1> SUFFICES ASSUME NEW s \in Side PROVE MirrorBest(s) = BestPrice(s)
  BY Zenon
<1>1. PICK P : P = {p \in Price : mirror[s][p] > 0}
  BY Zenon
<1>2. P = prices[s] /\ P \in SUBSET Price
  BY <1>1, Zenon DEF TotalsOK
<1>3. CASE P = {}
  BY <1>1, <1>2, <1>3, Zenon DEF MirrorBest, BestPrice
<1>4. CASE P # {}
  <2>1. PICK x : x = CHOOSE p \in P : \A q \in P : AsGood(s, p, q)
    BY Zenon
  <2>2. PICK y : y = CHOOSE p \in P : IsBest(s, p)
    BY Zenon
  <2>3. PICK z \in P : \A q \in P : AsGood(s, z, q)
    BY <1>2, <1>4, SomeBest, Zenon
  <2>4. x \in P /\ \A q \in P : AsGood(s, x, q)
    BY <2>1, <2>3, Zenon
  <2>5. y \in P /\ \A q \in P : AsGood(s, y, q)
    BY <1>2, <2>2, <2>3, Zenon DEF IsBest
  <2>6. x = y
    BY <1>2, <1>4, <2>4, <2>5, BestIsUnique, Zenon
  <2>7. MirrorBest(s) = x
    BY <1>1, <1>4, <2>1, Zenon DEF MirrorBest
  <2>8. BestPrice(s) = y
    BY <1>2, <1>4, <2>2, Zenon DEF BestPrice
  <2> QED
    BY <2>6, <2>7, <2>8, Zenon
<1> QED
  BY <1>3, <1>4, Zenon

-----------------------------------------------------------------------------
(* The totals of the book.                                                 *)

\* No orders have no lots.
LEMMA TotalOfNone == Total({}) = 0
<1>1. IsFiniteSet({})
  BY FS_EmptySet, Zenon
<1>2. PICK f : f = [x \in {} |-> x.qty]
  BY Zenon
<1>3. Total({}) = SumOf(f, {})
  BY <1>1, TotalIsSum, Zenon
<1> QED
  BY <1>3, SumOfNone, Zenon

\* Resting orders have lots.
LEMMA TotalOfSome ==
  ASSUME NEW S \in SUBSET RestingOrder, IsFiniteSet(S)
  PROVE  Total(S) \in Nat /\ (S # {} <=> Total(S) > 0)
<1>1. CASE S = {}
  BY <1>1, TotalOfNone
<1>2. CASE S # {}
  <2>1. PICK m \in S : TRUE
    BY <1>2, Zenon
  <2>2. Total(S \ {m}) \in Nat /\ Total(S) = m.qty + Total(S \ {m})
    BY TotalSplit, Zenon
  <2>3. m.qty \in Nat /\ m.qty # 0
    BY Zenon DEF RestingOrder, Lots
  <2> QED
    BY <1>2, <2>2, <2>3
<1> QED
  BY <1>1, <1>2, Zenon

\* The level totals and the prices of the book agree.
LEMMA BookTotalsOK ==
  ASSUME BookInv, IsFiniteSet(resting)
  PROVE  TotalsOK /\ \A s \in Side : TopOf(s) \in [price : Limit, qty : Nat]
<1>1. /\ resting \in SUBSET RestingOrder /\ prices \in [Side -> SUBSET Price]
      /\ LevelsExact
  BY Zenon DEF BookInv, BookOK, BookTypeOK
<1>2. ASSUME NEW T \in SUBSET resting
      PROVE  Total(T) \in Nat /\ (T # {} <=> Total(T) > 0)
  <2>1. T \in SUBSET RestingOrder /\ IsFiniteSet(T)
    BY <1>1, FS_Subset, Zenon
  <2> QED
    BY <2>1, TotalOfSome, Zenon
<1>3. ASSUME NEW s \in Side, NEW p \in Price
      PROVE  /\ Total(Level(s, p)) \in Nat
             /\ p \in prices[s] <=> Total(Level(s, p)) > 0
  <2>1. Level(s, p) \in SUBSET resting
    BY Zenon DEF Level
  <2> QED
    BY <1>1, <1>2, <2>1, Zenon DEF LevelsExact
<1>4. BookTotals \in Totals
  BY <1>3, Zenon DEF BookTotals, Totals
<1>5. \A s \in Side, p \in Price : p \in prices[s] <=> BookTotals[s][p] > 0
  BY <1>3, Zenon DEF BookTotals
<1>6. ASSUME NEW s \in Side PROVE BestPrice(s) \in Limit
  <2>1. CASE prices[s] = {}
    BY <2>1, Zenon DEF BestPrice, Limit
  <2>2. CASE prices[s] # {}
    <3>1. PICK z \in prices[s] : IsBest(s, z)
      BY <1>1, <2>2, SomeBest, Zenon DEF IsBest
    <3>2. BestPrice(s) \in prices[s]
      BY <2>2, <3>1, Zenon DEF BestPrice
    <3> QED
      BY <1>1, <3>2, Zenon DEF Limit
  <2> QED
    BY <2>1, <2>2, Zenon
<1>7. ASSUME NEW s \in Side PROVE TopOf(s) \in [price : Limit, qty : Nat]
  <2>1. Total({r \in resting : r.side = s}) \in Nat
    BY <1>2, Zenon
  <2> QED
    BY <1>6, <2>1, Zenon DEF TopOf
<1> QED
  BY <1>1, <1>4, <1>5, <1>7, Zenon DEF TotalsOK

-----------------------------------------------------------------------------
(* The subscriber of the market data.                                      *)

\* What the mirror and the top of the book rest on.
MarketInv == BookInv /\ IsFiniteSet(resting) /\ MirrorInv /\ TopInv

\* Initially there is no mirror, and both sides are empty.
LEMMA InitMarketInv == EngineInit => MarketInv
<1> SUFFICES ASSUME EngineInit PROVE MarketInv
  BY Zenon
<1>1. BookInv /\ Init
  BY InitInv, Zenon DEF EngineInit
<1>2. IsFiniteSet(resting)
  BY <1>1, FS_EmptySet, Zenon DEF Init
<1>3. MirrorInv
  BY DEF EngineInit, MirrorInv, NoLevels
<1>4. \A s \in Side : BestPrice(s) = NoPrice
  BY <1>1, Zenon DEF Init, BestPrice
<1>5. TopInv
  <2>1. top = [s \in Side |-> [price |-> NoPrice, qty |-> 0]]
    BY Zenon DEF EngineInit
  <2> QED
    BY <1>4, <2>1, Zenon DEF TopInv, Limit
<1> QED
  BY <1>1, <1>2, <1>3, <1>5, Zenon DEF MarketInv

\* In every state of a book whose invariant holds the totals agree.
LEMMA TotalsAgree == BookInv /\ IsFiniteSet(resting) => TotalsOK
BY BookTotalsOK, Zenon

\* Every step of the engine keeps it.
LEMMA NextMarketInv == MarketInv /\ [EngineNext]_allVars => MarketInv'
<1> SUFFICES ASSUME MarketInv, [EngineNext]_allVars PROVE MarketInv'
  BY Zenon
<1>1. BookInv' /\ IsFiniteSet(resting)'
  BY EngineStepIsBookStep, NextInv, NextFinite, Zenon DEF MarketInv
<1>2. TotalsOK /\ \A s \in Side : TopOf(s) \in [price : Limit, qty : Nat]
  BY BookTotalsOK, Zenon DEF MarketInv
<1>3. TotalsOK'
  BY <1>1, TotalsAgree, PTL
<1>4. MirrorInv'
  BY <1>2, <1>3, NextMirrorInv, Zenon DEF MarketInv
<1>5. TopInv'
  BY <1>2, NextTopInv, Zenon DEF MarketInv
<1> QED
  BY <1>1, <1>4, <1>5, Zenon DEF MarketInv

\* The market data in every state of the engine.
THEOREM MarketInvariant == EngineSpec => []MarketInv
BY InitMarketInv, NextMarketInv, PTL DEF EngineSpec

\* A subscriber that takes a snapshot and applies every delta of
\* emit_l2_deltas since then has the level totals of the book after each
\* command, whatever the commands were.
THEOREM MirrorAlwaysExact == EngineSpec => []MirrorExact
<1>1. ASSUME MarketInv PROVE MirrorExact
  <2> SUFFICES ASSUME stage = "ready", mirror # None,
                      NEW s \in Side, NEW p \in Price
               PROVE  mirror[s][p] = Total(Level(s, p))
    BY Zenon DEF MirrorExact
  <2>1. mirror = BookTotals
    BY <1>1, Zenon DEF MarketInv, MirrorInv
  <2> QED
    BY <2>1, Zenon DEF BookTotals
<1> QED
  BY <1>1, MarketInvariant, PTL

\* The prices of emit_book_update_top are the best ones of that mirror.
THEOREM TopAlwaysBest == EngineSpec => []TopNamesBest
<1>1. ASSUME MarketInv PROVE TopNamesBest
  <2> SUFFICES ASSUME stage = "ready", mirror # None, NEW s \in Side
               PROVE  top[s].price = MirrorBest(s)
    BY Zenon DEF TopNamesBest
  <2>1. TotalsOK /\ mirror = BookTotals
    BY <1>1, BookTotalsOK, Zenon DEF MarketInv, MirrorInv
  <2> QED
    BY <1>1, <2>1, MirrorBestIs, Zenon DEF MarketInv, TopInv
<1> QED
  BY <1>1, MarketInvariant, PTL

=============================================================================
