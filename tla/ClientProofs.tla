---------------------------- MODULE ClientProofs ----------------------------
(***************************************************************************)
(* Proofs about modules Wire and Client, for every value of the constants. *)
(*                                                                         *)
(* The codec, for every tick and lot size and every width of a word: what  *)
(* a peer decodes is what the other one encoded, and a decoder answers any *)
(* payload with a valid message or an error.  The client: the two          *)
(* directions of its connection, over those round trips.                   *)
(***************************************************************************)
EXTENDS Client, SequenceTheorems, TLAPS

-----------------------------------------------------------------------------
(* Words and enums.                                                        *)

\* A timestamp survives the casts encode and parse apply to it.
LEMMA Casts ==
  /\ \A i \in I64 : AsU64(i) \in U64 /\ AsI64(AsU64(i)) = i
  /\ \A u \in U64 : AsI64(u) \in I64 /\ AsU64(AsI64(u)) = u
BY WordAssumption DEF I64, U64, AsU64, AsI64

\* What TryFrom makes of the discriminant of a variant is that variant.
LEMMA EnumRoundTrip ==
  ASSUME NEW enum,
         \A v, x \in DOMAIN enum : enum[v] = enum[x] => v = x
  PROVE  /\ \A v \in Variants(enum) : /\ enum[v] \in Codes(enum)
                                      /\ FromU8(enum, enum[v]) = v
         /\ \A u \in Codes(enum) : /\ FromU8(enum, u) \in Variants(enum)
                                   /\ enum[FromU8(enum, u)] = u
<1>1. ASSUME NEW u \in Codes(enum)
      PROVE  FromU8(enum, u) \in DOMAIN enum /\ enum[FromU8(enum, u)] = u
  <2>1. \E v \in DOMAIN enum : enum[v] = u
    BY Zenon DEF Codes
  <2> QED
    BY <2>1, Zenon DEF FromU8
<1>2. ASSUME NEW v \in DOMAIN enum
      PROVE  enum[v] \in Codes(enum)
  BY Zenon DEF Codes
<1> QED
  BY <1>1, <1>2, Zenon DEF Variants

\* No two variants of an enum share a discriminant.
LEMMA EnumsInjective ==
  /\ \A v, x \in DOMAIN Side : Side[v] = Side[x] => v = x
  /\ \A v, x \in DOMAIN OrderType : OrderType[v] = OrderType[x] => v = x
  /\ \A v, x \in DOMAIN Tif : Tif[v] = Tif[x] => v = x
  /\ \A v, x \in DOMAIN ExecState : ExecState[v] = ExecState[x] => v = x
  /\ \A v, x \in DOMAIN CancelReason :
       CancelReason[v] = CancelReason[x] => v = x
  /\ \A v, x \in DOMAIN RejectReason :
       RejectReason[v] = RejectReason[x] => v = x
  /\ \A v, x \in DOMAIN KillSwitchState :
       KillSwitchState[v] = KillSwitchState[x] => v = x
<1>1. \A v, x \in DOMAIN Side : Side[v] = Side[x] => v = x
  BY DEF Side
<1>2. \A v, x \in DOMAIN OrderType : OrderType[v] = OrderType[x] => v = x
  BY DEF OrderType
<1>3. \A v, x \in DOMAIN Tif : Tif[v] = Tif[x] => v = x
  BY DEF Tif
<1>4. \A v, x \in DOMAIN ExecState : ExecState[v] = ExecState[x] => v = x
  BY DEF ExecState
<1>5. \A v, x \in DOMAIN CancelReason :
        CancelReason[v] = CancelReason[x] => v = x
  BY DEF CancelReason
<1>6. \A v, x \in DOMAIN RejectReason :
        RejectReason[v] = RejectReason[x] => v = x
  BY DEF RejectReason
<1>7. \A v, x \in DOMAIN KillSwitchState :
        KillSwitchState[v] = KillSwitchState[x] => v = x
  BY DEF KillSwitchState
<1> QED
  BY <1>1, <1>2, <1>3, <1>4, <1>5, <1>6, <1>7, Zenon

\* The codes of the enums a message may leave out are not 0, nor is a price,
\* a quantity or an id.
LEMMA NonZero ==
  /\ 0 \notin Codes(CancelReason) /\ 0 \notin Codes(RejectReason)
  /\ 0 \notin Price /\ 0 \notin Qty /\ 0 \notin OrderId /\ 0 \notin AccountId
<1>1. 0 \notin Codes(CancelReason)
  BY DEF Codes, CancelReason
<1>2. 0 \notin Codes(RejectReason)
  BY DEF Codes, RejectReason
<1>3. 0 \notin Price /\ 0 \notin Qty /\ 0 \notin OrderId /\ 0 \notin AccountId
  BY DEF Price, Qty, OrderId, AccountId
<1> QED
  BY <1>1, <1>2, <1>3, Zenon

\* An optional number survives being sent as 0 when it is absent.
LEMMA OptionRoundTrip ==
  ASSUME NEW S, S \subseteq Int, 0 \notin S, NEW v \in S \cup {None}
  PROVE  OrZero(v) \in S \cup {0} /\ OrNone(OrZero(v)) = v
BY NoneAssumption, Zenon DEF OrZero, OrNone

\* So does an optional variant of an enum.
LEMMA OptionalVariantRoundTrip ==
  ASSUME NEW enum, None \notin Variants(enum), 0 \notin Codes(enum),
         \A v, x \in DOMAIN enum : enum[v] = enum[x] => v = x,
         NEW v \in Variants(enum) \cup {None}
  PROVE  /\ OrZeroCode(enum, v) \in Codes(enum) \cup {0}
         /\ OrNoneVariant(enum, OrZeroCode(enum, v)) = v
BY EnumRoundTrip DEF OrZeroCode, OrNoneVariant

-----------------------------------------------------------------------------
(* Inbound messages.                                                       *)

\* NewOrder: new_order::parse gives back what new_order::encode was given, a
\* market order without its price; a limit order without one is refused.
LEMMA NewOrderRoundTrip ==
  ASSUME NEW m \in NewOrder
  PROVE  ParseNewOrder(EncodeNewOrder(m)) =
           IF WellFormed(m) THEN AsAccepted(m) ELSE Error("Domain")
<1> DEFINE w == EncodeNewOrder(m)
<1>1. /\ w.size = Size["NewOrder"] /\ w.pad = 0
      /\ AsI64(w.client_ts) = m.client_ts
      /\ w.order_id = m.order_id /\ w.account_id = m.account_id
      /\ w.qty = m.qty /\ w.price = OrZero(m.price)
  BY Casts, Zenon DEF NewOrder, EncodeNewOrder, ClientTs
<1>2. /\ w.side \in Codes(Side) /\ FromU8(Side, w.side) = m.side
      /\ w.order_type \in Codes(OrderType)
      /\ FromU8(OrderType, w.order_type) = m.order_type
      /\ w.tif \in Codes(Tif) /\ FromU8(Tif, w.tif) = m.tif
  BY EnumRoundTrip, EnumsInjective DEF NewOrder, EncodeNewOrder
<1>3. /\ w.order_type = OrderType.Limit <=> m.order_type = "Limit"
      /\ w.order_type = OrderType.Market <=> m.order_type = "Market"
      /\ m.order_type \in {"Limit", "Market"}
  BY DEF NewOrder, EncodeNewOrder, OrderType, Variants
<1>4. m.order_type = "Limit" => (w.price \in Price <=> m.price # None)
  BY <1>1, NonZero, NoneAssumption, Zenon DEF NewOrder, OrZero
<1> HIDE DEF w
<1>5. CASE WellFormed(m)
  <2>1. ParseNewOrder(w) =
          [kind |-> "NewOrder", client_ts |-> m.client_ts,
           order_id |-> m.order_id, account_id |-> m.account_id,
           side |-> m.side, order_type |-> m.order_type, tif |-> m.tif,
           price |-> IF m.order_type = "Market" THEN None ELSE m.price,
           qty |-> m.qty]
    BY <1>1, <1>2, <1>3, <1>4, <1>5, Zenon
       DEF ParseNewOrder, Decoded, NewOrder, WellFormed, OrZero
  <2> QED
    BY <2>1, <1>5 DEF AsAccepted, NewOrder, w
<1>6. CASE ~WellFormed(m)
  BY <1>1, <1>2, <1>3, <1>4, <1>6, Zenon
     DEF ParseNewOrder, Decoded, NewOrder, WellFormed, w
<1> QED
  BY <1>5, <1>6, Zenon

\* CancelOrder survives the way.
LEMMA CancelOrderRoundTrip ==
  ASSUME NEW m \in CancelOrder
  PROVE  ParseCancelOrder(EncodeCancelOrder(m)) = m
BY Casts, Zenon DEF CancelOrder, EncodeCancelOrder, ParseCancelOrder, Decoded, ClientTs

\* CancelReplace survives the way.
LEMMA CancelReplaceRoundTrip ==
  ASSUME NEW m \in CancelReplace
  PROVE  ParseCancelReplace(EncodeCancelReplace(m)) = m
BY Casts, Zenon
   DEF CancelReplace, EncodeCancelReplace, ParseCancelReplace, Decoded, ClientTs

\* MassCancel survives the way.
LEMMA MassCancelRoundTrip ==
  ASSUME NEW m \in MassCancel
  PROVE  ParseMassCancel(EncodeMassCancel(m)) = m
BY Casts, Zenon DEF MassCancel, EncodeMassCancel, ParseMassCancel, Decoded, ClientTs

\* KillSwitchSet survives the way.
LEMMA KillSwitchSetRoundTrip ==
  ASSUME NEW m \in KillSwitchSet
  PROVE  ParseKillSwitchSet(EncodeKillSwitchSet(m)) = m
<1>1. /\ KillSwitchState[m.state] \in Codes(KillSwitchState)
      /\ FromU8(KillSwitchState, KillSwitchState[m.state]) = m.state
  BY EnumRoundTrip, EnumsInjective, Zenon DEF KillSwitchSet
<1> QED
  BY <1>1, Casts, Zenon
     DEF KillSwitchSet, EncodeKillSwitchSet, ParseKillSwitchSet, Decoded,
         IsError, ClientTs

\* SnapshotRequest survives the way.
LEMMA SnapshotRequestRoundTrip ==
  ASSUME NEW m \in SnapshotRequest
  PROVE  ParseSnapshotRequest(EncodeSnapshotRequest(m)) = m
BY Zenon DEF SnapshotRequest, EncodeSnapshotRequest, ParseSnapshotRequest, Decoded

\* The gateway reads every command a client sends (Client::send, parse_frame)
\* as the command it was, a market order without its price; only a limit
\* order without a price is refused.
THEOREM CommandsRoundTrip ==
  ASSUME NEW m \in Inbound
  PROVE  ParseInbound(EncodeInbound(m)) =
           IF WellFormed(m) THEN AsAccepted(m) ELSE Error("Domain")
<1> USE DEF EncodeInbound, ParseInbound, Frame, MessageKind
<1>1. CASE m \in NewOrder
  <2>1. m.kind = "NewOrder"
    BY <1>1, Zenon DEF NewOrder
  <2> QED
    BY <1>1, <2>1, NewOrderRoundTrip
<1>2. CASE m \in CancelOrder
  <2>1. m.kind = "CancelOrder"
    BY <1>2, Zenon DEF CancelOrder
  <2> QED
    BY <1>2, <2>1, CancelOrderRoundTrip DEF WellFormed, AsAccepted
<1>3. CASE m \in CancelReplace
  <2>1. m.kind = "CancelReplace"
    BY <1>3, Zenon DEF CancelReplace
  <2> QED
    BY <1>3, <2>1, CancelReplaceRoundTrip DEF WellFormed, AsAccepted
<1>4. CASE m \in MassCancel
  <2>1. m.kind = "MassCancel"
    BY <1>4, Zenon DEF MassCancel
  <2> QED
    BY <1>4, <2>1, MassCancelRoundTrip DEF WellFormed, AsAccepted
<1>5. CASE m \in KillSwitchSet
  <2>1. m.kind = "KillSwitchSet"
    BY <1>5, Zenon DEF KillSwitchSet
  <2> QED
    BY <1>5, <2>1, KillSwitchSetRoundTrip DEF WellFormed, AsAccepted
<1>6. CASE m \in SnapshotRequest
  <2>1. m.kind = "SnapshotRequest"
    BY <1>6, Zenon DEF SnapshotRequest
  <2> QED
    BY <1>6, <2>1, SnapshotRequestRoundTrip DEF WellFormed, AsAccepted
<1> QED
  BY <1>1, <1>2, <1>3, <1>4, <1>5, <1>6, Zenon DEF Inbound

-----------------------------------------------------------------------------
(* Outbound messages.                                                      *)

\* A report the engine builds survives the way, but for the quantity of a
\* Replaced one: encode canonicalises nothing else of it, and the result
\* passes validate_coherent.
LEMMA ExecReportRoundTrip ==
  ASSUME NEW m \in EngineReport
  PROVE  ParseExecReport(EncodeExecReport(m)) = AsRead(m)
<1> DEFINE w == EncodeExecReport(m)
           r == [kind |-> "ExecReport", engine_seq |-> w.engine_seq,
                 order_id |-> w.order_id, account_id |-> w.account_id,
                 state |-> FromU8(ExecState, w.state),
                 fill_price |-> OrNone(w.fill_price),
                 fill_qty |-> OrNone(w.fill_qty),
                 leaves_qty |-> OrNone(w.leaves_qty),
                 reject_reason |-> OrNoneVariant(RejectReason, w.reject_reason),
                 cancel_reason |-> OrNoneVariant(CancelReason, w.cancel_reason),
                 recv_ts |-> AsI64(w.recv_ts), emit_ts |-> AsI64(w.emit_ts)]
<1>1. m \in ExecReport
  BY Zenon DEF EngineReport
<1>2. /\ m.state \in {"Accepted", "Rejected", "PartiallyFilled", "Filled",
                      "Cancelled", "Replaced"}
      /\ m.fill_price # None <=> m.state \in {"PartiallyFilled", "Filled"}
      /\ m.fill_qty # None <=> m.state \in {"PartiallyFilled", "Filled"}
      /\ m.leaves_qty # None
           <=> m.state \in {"Accepted", "PartiallyFilled", "Replaced"}
      /\ m.reject_reason # None <=> m.state = "Rejected"
      /\ m.cancel_reason # None <=> m.state \in {"Cancelled", "Replaced"}
  <2>1. m.state \in {"Accepted", "Rejected", "PartiallyFilled", "Filled",
                     "Cancelled", "Replaced"}
    BY <1>1, Zenon DEF ExecReport, Variants, ExecState
  <2>2. Present(m) = IF m.state = "Replaced"
                     THEN {"leaves_qty", "cancel_reason"}
                     ELSE Carries[m.state]
    BY Zenon DEF EngineReport
  <2>3. \A f \in OptionalFields : m[f] # None <=> f \in Present(m)
    BY Zenon DEF Present
  <2> QED
    BY <2>1, <2>2, <2>3 DEF OptionalFields, Carries
<1>3. /\ w.size = Size["ExecReport"] /\ w.pad = 0
      /\ w.engine_seq = m.engine_seq /\ w.order_id = m.order_id
      /\ w.account_id = m.account_id
      /\ AsI64(w.recv_ts) = m.recv_ts /\ AsI64(w.emit_ts) = m.emit_ts
  BY <1>1, Casts, Zenon DEF ExecReport, EncodeExecReport, RecvTs
<1>4. w.state \in Codes(ExecState) /\ FromU8(ExecState, w.state) = m.state
  BY <1>1, EnumRoundTrip, EnumsInjective DEF ExecReport, EncodeExecReport
<1>5. /\ w.fill_price = OrZero(m.fill_price)
      /\ w.fill_qty = OrZero(m.fill_qty)
      /\ w.leaves_qty = IF m.state = "Replaced" THEN 0 ELSE OrZero(m.leaves_qty)
  BY <1>2, Zenon DEF EncodeExecReport, HasFill, OrZero
<1>6. /\ w.reject_reason = OrZeroCode(RejectReason, m.reject_reason)
      /\ w.cancel_reason = OrZeroCode(CancelReason, m.cancel_reason)
  BY <1>2, Zenon DEF EncodeExecReport, OrZeroCode
<1>7. /\ w.fill_price \in Price \cup {0} /\ OrNone(w.fill_price) = m.fill_price
      /\ w.fill_qty \in Qty \cup {0} /\ OrNone(w.fill_qty) = m.fill_qty
      /\ w.leaves_qty \in Qty \cup {0}
      /\ OrNone(w.leaves_qty) = AsRead(m).leaves_qty
  <2>1. Price \subseteq Int /\ Qty \subseteq Int
    BY DEF Price, Qty, I64, U64
  <2>2. /\ m.fill_price \in Price \cup {None}
        /\ m.fill_qty \in Qty \cup {None} /\ m.leaves_qty \in Qty \cup {None}
        /\ m.kind = "ExecReport"
    BY <1>1, Zenon DEF ExecReport
  <2>3. AsRead(m).leaves_qty = IF m.state = "Replaced" THEN None ELSE m.leaves_qty
    BY <1>1, Zenon DEF AsRead, ExecReport
  <2>4. OrNone(0) = None
    BY Zenon DEF OrNone
  <2> HIDE DEF w
  <2>5. /\ OrZero(m.fill_price) \in Price \cup {0}
        /\ OrNone(OrZero(m.fill_price)) = m.fill_price
    BY <2>1, <2>2, OptionRoundTrip, NonZero, Zenon
  <2>6. /\ OrZero(m.fill_qty) \in Qty \cup {0}
        /\ OrNone(OrZero(m.fill_qty)) = m.fill_qty
    BY <2>1, <2>2, OptionRoundTrip, NonZero, Zenon
  <2>7. /\ OrZero(m.leaves_qty) \in Qty \cup {0}
        /\ OrNone(OrZero(m.leaves_qty)) = m.leaves_qty
    BY <2>1, <2>2, OptionRoundTrip, NonZero, Zenon
  <2>8. /\ w.leaves_qty \in Qty \cup {0}
        /\ OrNone(w.leaves_qty) = AsRead(m).leaves_qty
    BY <1>5, <2>3, <2>4, <2>7, Zenon
  <2> QED
    BY <1>5, <2>5, <2>6, <2>8, Zenon
<1>8. /\ w.reject_reason \in Codes(RejectReason) \cup {0}
      /\ OrNoneVariant(RejectReason, w.reject_reason) = m.reject_reason
      /\ w.cancel_reason \in Codes(CancelReason) \cup {0}
      /\ OrNoneVariant(CancelReason, w.cancel_reason) = m.cancel_reason
  <2>1. None \notin Variants(RejectReason) /\ None \notin Variants(CancelReason)
    BY NoneAssumption, Zenon
  <2>2. /\ m.reject_reason \in Variants(RejectReason) \cup {None}
        /\ m.cancel_reason \in Variants(CancelReason) \cup {None}
    BY <1>1, Zenon DEF ExecReport
  <2> HIDE DEF w
  <2> QED
    BY <1>6, <2>1, <2>2, OptionalVariantRoundTrip, EnumsInjective, NonZero
<1>9. r = AsRead(m)
  <2>1. AsRead(m) = [m EXCEPT !.leaves_qty = AsRead(m).leaves_qty]
    BY <1>1, Zenon DEF AsRead, ExecReport
  <2> HIDE DEF w
  <2> QED
    BY <1>1, <1>3, <1>4, <1>7, <1>8, <2>1, Zenon DEF ExecReport
<1>10. Coherent(AsRead(m))
  BY <1>1, <1>2
     DEF Coherent, Present, AsRead, Carries, OptionalFields, ExecReport
<1>11. ~IsError(AsRead(m))
  BY <1>1, Zenon DEF IsError, AsRead, ExecReport
<1>12. w.order_id \in OrderId /\ w.account_id \in AccountId
  BY <1>1, <1>3, Zenon DEF ExecReport
<1> HIDE DEF w
<1>13. Decoded("ExecReport", w, TRUE, r) = AsRead(m)
  BY <1>3, <1>9, Zenon DEF Decoded
<1> HIDE DEF r
<1> QED
  BY <1>3, <1>4, <1>7, <1>8, <1>9, <1>10, <1>11, <1>12, <1>13, Zenon
     DEF ParseExecReport, Decoded, r, w

\* TradePrint: every field crosses the wire.
LEMMA TradePrintRoundTrip ==
  ASSUME NEW m \in TradePrint
  PROVE  ParseTradePrint(EncodeTradePrint(m)) = m
<1> DEFINE w == EncodeTradePrint(m)
<1>1. /\ w.size = Size["TradePrint"] /\ w.pad = 0
      /\ w.engine_seq = m.engine_seq /\ w.trade_id = m.trade_id
      /\ w.price = m.price /\ w.qty = m.qty
      /\ AsI64(w.emit_ts) = m.emit_ts
  BY Casts, Zenon DEF TradePrint, EncodeTradePrint, RecvTs
<1>2. /\ w.aggressor_side \in Codes(Side)
      /\ FromU8(Side, w.aggressor_side) = m.aggressor_side
  BY EnumRoundTrip, EnumsInjective, Zenon DEF TradePrint, EncodeTradePrint
<1> HIDE DEF w
<1> QED
  BY <1>1, <1>2, Zenon DEF ParseTradePrint, Decoded, TradePrint, w

\* BookUpdateL2Delta: a level that is gone is sent as quantity 0.
LEMMA BookUpdateL2DeltaRoundTrip ==
  ASSUME NEW m \in BookUpdateL2Delta
  PROVE  ParseBookUpdateL2Delta(EncodeBookUpdateL2Delta(m)) = m
<1> DEFINE w == EncodeBookUpdateL2Delta(m)
<1>1. /\ w.size = Size["BookUpdateL2Delta"] /\ w.pad = 0
      /\ w.engine_seq = m.engine_seq /\ w.price = m.price
      /\ w.new_qty = OrZero(m.new_qty) /\ AsI64(w.emit_ts) = m.emit_ts
  BY Casts, Zenon DEF BookUpdateL2Delta, EncodeBookUpdateL2Delta, RecvTs
<1>2. w.side \in Codes(Side) /\ FromU8(Side, w.side) = m.side
  BY EnumRoundTrip, EnumsInjective, Zenon
     DEF BookUpdateL2Delta, EncodeBookUpdateL2Delta
<1>3. /\ OrZero(m.new_qty) \in Qty \cup {0}
      /\ OrNone(OrZero(m.new_qty)) = m.new_qty
  <2>1. Qty \subseteq Int
    BY DEF Qty, U64
  <2>2. m.new_qty \in Qty \cup {None}
    BY Zenon DEF BookUpdateL2Delta
  <2> QED
    BY <2>1, <2>2, OptionRoundTrip, NonZero, Zenon
<1> HIDE DEF w
<1> QED
  BY <1>1, <1>2, <1>3, Zenon
     DEF ParseBookUpdateL2Delta, Decoded, BookUpdateL2Delta, w

\* encode_side and decode_side: an empty side is sent as (0, 0), and no side
\* that is not empty looks like it or like half of it.
LEMMA SideRoundTrip ==
  ASSUME NEW l \in Level \cup {None}
  PROVE  /\ DecodeSide(EncodeSide(l).price, EncodeSide(l).qty) = l
         /\ ~HalfEmpty(EncodeSide(l).price, EncodeSide(l).qty)
<1>1. CASE l = None
  BY <1>1, Zenon DEF EncodeSide, DecodeSide, HalfEmpty
<1>2. CASE l \in Level
  <2>1. l # None /\ l.price # 0 /\ l.qty # 0 /\ l = [price |-> l.price, qty |-> l.qty]
    BY <1>2, NoLevelAssumption, NonZero, Zenon DEF Level
  <2> QED
    BY <2>1, Zenon DEF EncodeSide, DecodeSide, HalfEmpty
<1> QED
  BY <1>1, <1>2, Zenon

\* BookUpdateTop: each side crosses the wire, empty or not.
LEMMA BookUpdateTopRoundTrip ==
  ASSUME NEW m \in BookUpdateTop
  PROVE  ParseBookUpdateTop(EncodeBookUpdateTop(m)) = m
<1> DEFINE w == EncodeBookUpdateTop(m)
<1>1. m.bid \in Level \cup {None} /\ m.ask \in Level \cup {None}
  BY Zenon DEF BookUpdateTop
<1>2. /\ w.size = Size.BookUpdateTop /\ w.engine_seq = m.engine_seq
      /\ AsI64(w.emit_ts) = m.emit_ts
      /\ w.bid_price = EncodeSide(m.bid).price
      /\ w.bid_qty = EncodeSide(m.bid).qty
      /\ w.ask_price = EncodeSide(m.ask).price
      /\ w.ask_qty = EncodeSide(m.ask).qty
  BY Casts, Zenon DEF BookUpdateTop, EncodeBookUpdateTop, RecvTs
<1> HIDE DEF w
<1>3. /\ DecodeSide(w.bid_price, w.bid_qty) = m.bid
      /\ ~HalfEmpty(w.bid_price, w.bid_qty)
  BY <1>1, <1>2, SideRoundTrip, Zenon
<1>4. /\ DecodeSide(w.ask_price, w.ask_qty) = m.ask
      /\ ~HalfEmpty(w.ask_price, w.ask_qty)
  BY <1>1, <1>2, SideRoundTrip, Zenon
<1> QED
  BY <1>1, <1>2, <1>3, <1>4, Zenon DEF ParseBookUpdateTop, BookUpdateTop, w

\* Two sequences put end to end come apart again at the length of the first.
LEMMA CutConcat ==
  ASSUME NEW S, NEW s \in Seq(S), NEW t \in Seq(S)
  PROVE  /\ s \o t \in Seq(S)
         /\ SubSeq(s \o t, 1, Len(s)) = s
         /\ SubSeq(s \o t, Len(s) + 1, Len(s) + Len(t)) = t
<1> DEFINE st == s \o t
           first == SubSeq(st, 1, Len(s))
           rest == SubSeq(st, Len(s) + 1, Len(s) + Len(t))
<1>1. Len(s) \in Nat /\ Len(t) \in Nat
  OBVIOUS
<1>2. /\ st \in Seq(S) /\ Len(st) = Len(s) + Len(t)
      /\ \A i \in 1 .. Len(s) + Len(t) :
           st[i] = IF i <= Len(s) THEN s[i] ELSE t[i - Len(s)]
  BY ConcatProperties, Zenon
<1>3. \A i \in 1 .. Len(s) + Len(t) : st[i] \in S
  BY <1>2
<1> HIDE DEF st
<1>4. /\ first \in Seq(S) /\ Len(first) = Len(s)
      /\ \A i \in 1 .. Len(s) : first[i] = st[i]
  <2>1. \A i \in 1 .. Len(s) : st[i] \in S
    BY <1>1, <1>3
  <2>2. /\ first \in Seq(S)
        /\ Len(first) = IF 1 <= Len(s) THEN Len(s) - 1 + 1 ELSE 0
        /\ \A i \in 1 .. Len(s) - 1 + 1 : first[i] = st[1 + i - 1]
    BY <1>1, <2>1, SubSeqProperties
  <2> HIDE DEF first
  <2> QED
    BY <1>1, <2>2
<1>5. /\ rest \in Seq(S) /\ Len(rest) = Len(t)
      /\ \A i \in 1 .. Len(t) : rest[i] = st[Len(s) + i]
  <2>1. \A i \in Len(s) + 1 .. Len(s) + Len(t) : st[i] \in S
    BY <1>1, <1>3
  <2>2. /\ rest \in Seq(S)
        /\ Len(rest) = IF Len(s) + 1 <= Len(s) + Len(t)
                       THEN (Len(s) + Len(t)) - (Len(s) + 1) + 1 ELSE 0
        /\ \A i \in 1 .. (Len(s) + Len(t)) - (Len(s) + 1) + 1 :
             rest[i] = st[(Len(s) + 1) + i - 1]
    BY <1>1, <2>1, SubSeqProperties
  <2> HIDE DEF rest
  <2> QED
    BY <1>1, <2>2
<1> HIDE DEF first, rest
<1>6. first = s
  <2>1. \A i \in 1 .. Len(s) : first[i] = s[i]
    BY <1>1, <1>2, <1>4
  <2> QED
    BY <1>4, <2>1, SeqEqual, Zenon
<1>7. rest = t
  <2>1. ASSUME NEW i \in 1 .. Len(rest) PROVE rest[i] = t[i]
    <3>1. /\ i \in 1 .. Len(t) /\ Len(s) + i \in 1 .. Len(s) + Len(t)
          /\ ~(Len(s) + i <= Len(s)) /\ (Len(s) + i) - Len(s) = i
      BY <1>1, <1>5
    <3>2. rest[i] = st[Len(s) + i]
      BY <1>5, <3>1, Zenon
    <3>3. st[Len(s) + i] = t[(Len(s) + i) - Len(s)]
      BY <1>2, <3>1, Zenon
    <3> QED
      BY <3>1, <3>2, <3>3, Zenon
  <2> QED
    BY <1>5, <2>1, SeqEqual, Zenon
<1> QED
  BY <1>2, <1>6, <1>7, Zenon DEF st, first, rest

\* SnapshotResponse: the counts of the header cut the levels where the bids
\* end, whatever their number.
LEMMA SnapshotResponseRoundTrip ==
  ASSUME NEW m \in SnapshotResponse
  PROVE  ParseSnapshotResponse(EncodeSnapshotResponse(m)) = m
<1> DEFINE w == EncodeSnapshotResponse(m)
<1>1. m.bids \in Seq(Level) /\ m.asks \in Seq(Level)
  BY Zenon DEF SnapshotResponse
<1>2. Len(m.bids) \in Nat /\ Len(m.asks) \in Nat
  BY <1>1
<1>3. /\ w.size = HeaderBytes + LevelBytes * (w.n_bid + w.n_ask)
      /\ w.n_bid = Len(m.bids) /\ w.n_ask = Len(m.asks)
      /\ w.levels = m.bids \o m.asks
      /\ w.engine_seq = m.engine_seq /\ w.request_id = m.request_id
      /\ AsI64(w.recv_ts) = m.recv_ts /\ AsI64(w.emit_ts) = m.emit_ts
  BY Casts, Zenon DEF SnapshotResponse, EncodeSnapshotResponse, RecvTs
<1> HIDE DEF w
<1>4. /\ m.bids \o m.asks \in Seq(Level)
      /\ SubSeq(m.bids \o m.asks, 1, Len(m.bids)) = m.bids
      /\ SubSeq(m.bids \o m.asks, Len(m.bids) + 1, Len(m.bids) + Len(m.asks))
           = m.asks
  <2>1. \A s, t \in Seq(Level) :
          /\ s \o t \in Seq(Level)
          /\ SubSeq(s \o t, 1, Len(s)) = s
          /\ SubSeq(s \o t, Len(s) + 1, Len(s) + Len(t)) = t
    BY CutConcat, Zenon
  <2> QED
    BY <1>1, <2>1, Zenon
<1>5. \A i \in DOMAIN w.levels : w.levels[i] \in Level
  <2>1. \A s \in Seq(Level) : \A i \in DOMAIN s : s[i] \in Level
    OBVIOUS
  <2> QED
    BY <1>3, <1>4, <2>1, Zenon
<1>6. ~(w.size < HeaderBytes)
  <2>1. \A a, b \in Nat : ~(HeaderBytes + LevelBytes * (a + b) < HeaderBytes)
    BY DEF HeaderBytes, LevelBytes
  <2> QED
    BY <1>2, <1>3, <2>1, Zenon
<1>7. /\ SubSeq(w.levels, 1, w.n_bid) = m.bids
      /\ SubSeq(w.levels, w.n_bid + 1, w.n_bid + w.n_ask) = m.asks
  BY <1>3, <1>4, Zenon
<1> QED
  BY <1>3, <1>5, <1>6, <1>7, Zenon
     DEF ParseSnapshotResponse, SnapshotResponse, w

\* Whatever the engine emits, a client reads back: outbound::parse_frame
\* accepts every frame encoder::encode makes of an event of the engine, and
\* gives the event, a Replaced report without its leaves_qty.
THEOREM EventsRoundTrip ==
  ASSUME NEW m \in EngineOutbound
  PROVE  ParseOutbound(EncodeOutbound(m)) = AsRead(m)
<1>1. CASE m \in EngineReport
  <2>1. m.kind = "ExecReport"
    BY <1>1, Zenon DEF EngineReport, ExecReport
  <2> QED
    BY <1>1, <2>1, ExecReportRoundTrip
       DEF ParseOutbound, EncodeOutbound, Frame, MessageKind
<1>2. CASE m \in TradePrint
  <2>1. m.kind = "TradePrint"
    BY <1>2, Zenon DEF TradePrint
  <2> QED
    BY <1>2, <2>1, TradePrintRoundTrip
       DEF ParseOutbound, EncodeOutbound, Frame, MessageKind, AsRead
<1>3. CASE m \in BookUpdateTop
  <2>1. m.kind = "BookUpdateTop"
    BY <1>3, Zenon DEF BookUpdateTop
  <2> QED
    BY <1>3, <2>1, BookUpdateTopRoundTrip
       DEF ParseOutbound, EncodeOutbound, Frame, MessageKind, AsRead
<1>4. CASE m \in BookUpdateL2Delta
  <2>1. m.kind = "BookUpdateL2Delta"
    BY <1>4, Zenon DEF BookUpdateL2Delta
  <2> QED
    BY <1>4, <2>1, BookUpdateL2DeltaRoundTrip
       DEF ParseOutbound, EncodeOutbound, Frame, MessageKind, AsRead
<1>5. CASE m \in SnapshotResponse
  <2>1. m.kind = "SnapshotResponse"
    BY <1>5, Zenon DEF SnapshotResponse
  <2> QED
    BY <1>5, <2>1, SnapshotResponseRoundTrip
       DEF ParseOutbound, EncodeOutbound, Frame, MessageKind, AsRead
<1> QED
  BY <1>1, <1>2, <1>3, <1>4, <1>5, Zenon DEF EngineOutbound

-----------------------------------------------------------------------------
(* Decoders over arbitrary payloads.                                       *)

\* The casts and conversions of raw fields end in their types.
LEMMA RawFields ==
  /\ \A u \in U64 : AsI64(u) \in I64
  /\ \A enum : \A u \in Codes(enum) : FromU8(enum, u) \in Variants(enum)
<1>1. ASSUME NEW u \in U64 PROVE AsI64(u) \in I64
  BY WordAssumption DEF U64, I64, AsI64
<1>2. ASSUME NEW enum, NEW u \in Codes(enum)
      PROVE  FromU8(enum, u) \in Variants(enum)
  BY Zenon DEF Codes, FromU8, Variants
<1> QED
  BY <1>1, <1>2, Zenon

\* Whatever bytes of its kind arrive, each inbound parse answers a well typed
\* command or a WireError: nothing it lets through can fail a domain check
\* later.
THEOREM CommandsTyped ==
  /\ \A w \in NewOrderWire : ParseNewOrder(w) \in NewOrder \cup WireError
  /\ \A w \in CancelOrderWire : ParseCancelOrder(w) \in CancelOrder \cup WireError
  /\ \A w \in CancelReplaceWire :
       ParseCancelReplace(w) \in CancelReplace \cup WireError
  /\ \A w \in MassCancelWire : ParseMassCancel(w) \in MassCancel \cup WireError
  /\ \A w \in KillSwitchSetWire :
       ParseKillSwitchSet(w) \in KillSwitchSet \cup WireError
  /\ \A w \in SnapshotRequestWire :
       ParseSnapshotRequest(w) \in SnapshotRequest \cup WireError
<1>1. ASSUME NEW w \in NewOrderWire
      PROVE  ParseNewOrder(w) \in NewOrder \cup WireError
  <2>1. AsI64(w.client_ts) \in ClientTs
    BY RawFields, Zenon DEF NewOrderWire, ClientTs
  <2>2. w.order_type \in Codes(OrderType) =>
          w.order_type = OrderType.Limit \/ w.order_type = OrderType.Market
    BY Zenon DEF Codes, OrderType
  <2>3. OrderType.Limit # OrderType.Market
    BY DEF OrderType
  <2> QED
    BY <2>1, <2>2, <2>3, RawFields, Zenon
       DEF ParseNewOrder, Decoded, NewOrder, WireError, Error
<1>2. ASSUME NEW w \in CancelOrderWire
      PROVE  ParseCancelOrder(w) \in CancelOrder \cup WireError
  BY RawFields, Zenon
     DEF CancelOrderWire, ParseCancelOrder, Decoded, CancelOrder, ClientTs,
         WireError, Error
<1>3. ASSUME NEW w \in CancelReplaceWire
      PROVE  ParseCancelReplace(w) \in CancelReplace \cup WireError
  BY RawFields, Zenon
     DEF CancelReplaceWire, ParseCancelReplace, Decoded, CancelReplace,
         ClientTs, WireError, Error
<1>4. ASSUME NEW w \in MassCancelWire
      PROVE  ParseMassCancel(w) \in MassCancel \cup WireError
  BY RawFields, Zenon
     DEF MassCancelWire, ParseMassCancel, Decoded, MassCancel, ClientTs,
         WireError, Error
<1>5. ASSUME NEW w \in KillSwitchSetWire
      PROVE  ParseKillSwitchSet(w) \in KillSwitchSet \cup WireError
  <2>1. AsI64(w.client_ts) \in ClientTs /\ w.admin_token \in U64
    BY RawFields, Zenon DEF KillSwitchSetWire, ClientTs
  <2>2. ~IsError([kind |-> "KillSwitchSet", client_ts |-> AsI64(w.client_ts),
                  admin_token |-> w.admin_token,
                  state |-> FromU8(KillSwitchState, w.state)])
    BY Zenon DEF IsError
  <2> QED
    BY <2>1, <2>2, RawFields, Zenon
       DEF ParseKillSwitchSet, Decoded, KillSwitchSet, WireError, Error
<1>6. ASSUME NEW w \in SnapshotRequestWire
      PROVE  ParseSnapshotRequest(w) \in SnapshotRequest \cup WireError
  BY Zenon DEF SnapshotRequestWire, ParseSnapshotRequest, Decoded, SnapshotRequest,
         WireError, Error
<1> QED
  BY <1>1, <1>2, <1>3, <1>4, <1>5, <1>6, Zenon

\* The same of the fixed-size outbound messages; a report that is let
\* through carries exactly the optional fields of its state.
THEOREM EventsTyped ==
  /\ \A w \in ExecReportWire :
       ParseExecReport(w) \in {m \in ExecReport : Coherent(m)} \cup WireError
  /\ \A w \in TradePrintWire : ParseTradePrint(w) \in TradePrint \cup WireError
  /\ \A w \in BookUpdateTopWire :
       ParseBookUpdateTop(w) \in BookUpdateTop \cup WireError
  /\ \A w \in BookUpdateL2DeltaWire :
       ParseBookUpdateL2Delta(w) \in BookUpdateL2Delta \cup WireError
<1>1. ASSUME NEW w \in ExecReportWire
      PROVE  ParseExecReport(w)
               \in {m \in ExecReport : Coherent(m)} \cup WireError
  <2> DEFINE valid == /\ w.state \in Codes(ExecState)
                      /\ w.order_id \in OrderId
                      /\ w.account_id \in AccountId
                      /\ w.reject_reason \in Codes(RejectReason) \cup {0}
                      /\ w.cancel_reason \in Codes(CancelReason) \cup {0}
                      /\ w.fill_price \in Price \cup {0}
                      /\ w.fill_qty \in Qty \cup {0}
                      /\ w.leaves_qty \in Qty \cup {0}
             r == [kind |-> "ExecReport", engine_seq |-> w.engine_seq,
                   order_id |-> w.order_id, account_id |-> w.account_id,
                   state |-> FromU8(ExecState, w.state),
                   fill_price |-> OrNone(w.fill_price),
                   fill_qty |-> OrNone(w.fill_qty),
                   leaves_qty |-> OrNone(w.leaves_qty),
                   reject_reason |-> OrNoneVariant(RejectReason, w.reject_reason),
                   cancel_reason |-> OrNoneVariant(CancelReason, w.cancel_reason),
                   recv_ts |-> AsI64(w.recv_ts), emit_ts |-> AsI64(w.emit_ts)]
             d == Decoded("ExecReport", w, valid, r)
  <2>1. valid => r \in ExecReport
    <3> SUFFICES ASSUME valid PROVE r \in ExecReport
      BY Zenon
    <3>1. /\ w.engine_seq \in EngineSeq /\ AsI64(w.recv_ts) \in RecvTs
          /\ AsI64(w.emit_ts) \in RecvTs
      BY RawFields, Zenon DEF ExecReportWire, EngineSeq, RecvTs
    <3>2. /\ FromU8(ExecState, w.state) \in Variants(ExecState)
          /\ OrNoneVariant(RejectReason, w.reject_reason)
               \in Variants(RejectReason) \cup {None}
          /\ OrNoneVariant(CancelReason, w.cancel_reason)
               \in Variants(CancelReason) \cup {None}
      BY RawFields, Zenon DEF OrNoneVariant
    <3>3. /\ OrNone(w.fill_price) \in Price \cup {None}
          /\ OrNone(w.fill_qty) \in Qty \cup {None}
          /\ OrNone(w.leaves_qty) \in Qty \cup {None}
      BY Zenon DEF OrNone
    <3> QED
      BY <3>1, <3>2, <3>3, Zenon DEF ExecReport
  <2>2. ParseExecReport(w) = IF IsError(d) THEN d
                             ELSE IF Coherent(d) THEN d
                             ELSE Error("InconsistentPayload")
    BY Zenon DEF ParseExecReport
  <2>3. ~IsError(r)
    BY Zenon DEF IsError
  <2> HIDE DEF r, valid
  <2>4. d \in WireError \/ (valid /\ d = r)
    BY Zenon DEF Decoded, WireError, Error
  <2>5. Error("InconsistentPayload") \in WireError
    BY Zenon DEF Error, WireError
  <2>6. \A e \in WireError : IsError(e)
    BY Zenon DEF WireError, IsError
  <2> HIDE DEF d
  <2> QED
    BY <2>1, <2>2, <2>3, <2>4, <2>5, <2>6, Zenon
<1>2. ASSUME NEW w \in TradePrintWire
      PROVE  ParseTradePrint(w) \in TradePrint \cup WireError
  <2>1. /\ w.engine_seq \in EngineSeq /\ w.trade_id \in TradeId
        /\ AsI64(w.emit_ts) \in RecvTs
    BY RawFields, Zenon DEF TradePrintWire, EngineSeq, TradeId, RecvTs
  <2> QED
    BY <2>1, RawFields, Zenon
       DEF ParseTradePrint, Decoded, TradePrint, WireError, Error
<1>3. ASSUME NEW w \in BookUpdateTopWire
      PROVE  ParseBookUpdateTop(w) \in BookUpdateTop \cup WireError
  <2>1. w.engine_seq \in EngineSeq /\ AsI64(w.emit_ts) \in RecvTs
    BY RawFields, Zenon DEF BookUpdateTopWire, EngineSeq, RecvTs
  <2> QED
    BY <2>1, Zenon DEF ParseBookUpdateTop, BookUpdateTop, WireError, Error
<1>4. ASSUME NEW w \in BookUpdateL2DeltaWire
      PROVE  ParseBookUpdateL2Delta(w) \in BookUpdateL2Delta \cup WireError
  <2>1. w.engine_seq \in EngineSeq /\ AsI64(w.emit_ts) \in RecvTs
    BY RawFields, Zenon DEF BookUpdateL2DeltaWire, EngineSeq, RecvTs
  <2>2. w.new_qty \in Qty \cup {0} => OrNone(w.new_qty) \in Qty \cup {None}
    BY Zenon DEF OrNone
  <2> QED
    BY <2>1, <2>2, RawFields, Zenon
       DEF ParseBookUpdateL2Delta, Decoded, BookUpdateL2Delta, WireError, Error
<1> QED
  BY <1>1, <1>2, <1>3, <1>4, Zenon

-----------------------------------------------------------------------------
(* Commands.                                                               *)

Meanings == {AsAccepted(m) : m \in Commands}

CommandFrame == {EncodeInbound(m) : m \in Commands}

\* The frames in flight are those of the commands not decoded yet.
Pending ==
  \A j \in DOMAIN outgoing :
    outgoing[j] = EncodeInbound(sent[Len(accepted) + j])

CommandInv ==
  /\ sent \in Seq(Commands) /\ accepted \in Seq(Meanings)
  /\ outgoing \in Seq(CommandFrame)
  /\ CommandsArrive
  /\ peer = "open" => Pending

\* A command as the engine takes it is not an error.
LEMMA MeaningIsNoError ==
  ASSUME NEW m \in Inbound
  PROVE  ~IsError(AsAccepted(m))
<1>1. CASE m \in NewOrder
  BY <1>1, Zenon DEF NewOrder, AsAccepted, IsError
<1>2. CASE m \in CancelOrder
  BY <1>2, Zenon DEF CancelOrder, AsAccepted, IsError
<1>3. CASE m \in CancelReplace
  BY <1>3, Zenon DEF CancelReplace, AsAccepted, IsError
<1>4. CASE m \in MassCancel
  BY <1>4, Zenon DEF MassCancel, AsAccepted, IsError
<1>5. CASE m \in KillSwitchSet
  BY <1>5, Zenon DEF KillSwitchSet, AsAccepted, IsError
<1>6. CASE m \in SnapshotRequest
  BY <1>6, Zenon DEF SnapshotRequest, AsAccepted, IsError
<1> QED
  BY <1>1, <1>2, <1>3, <1>4, <1>5, <1>6, Zenon DEF Inbound

\* What the gateway makes of a command: its meaning, or an error.
LEMMA CommandParsed ==
  ASSUME NEW cmd \in Commands
  PROVE  LET parsed == ParseInbound(EncodeInbound(cmd))
         IN /\ WellFormed(cmd) => ~IsError(parsed) /\ parsed = AsAccepted(cmd)
            /\ ~WellFormed(cmd) => IsError(parsed)
<1>1. cmd \in Inbound
  BY CommandsAssumption, Zenon
<1>2. IsError(Error("Domain"))
  BY Zenon DEF IsError, Error
<1> QED
  BY <1>1, <1>2, CommandsRoundTrip, MeaningIsNoError, Zenon

\* Every step preserves the invariant: send, which adds a frame, and Decode,
\* which takes the first one, are all that touches what it speaks of.
LEMMA CommandStep ==
  ASSUME CommandInv, [Next]_vars
  PROVE  CommandInv'
<1>1. ASSUME UNCHANGED <<sent, accepted, outgoing>>,
             peer' = "open" => peer = "open"
      PROVE  CommandInv'
  BY <1>1, Zenon DEF CommandInv, CommandsArrive, Pending
<1>2. ASSUME NEW e \in Events, Emit(e) PROVE CommandInv'
  BY <1>1, <1>2, Zenon DEF Emit
<1>3. ASSUME NEW n \in 0..Len(socket), PeerCloses(n) PROVE CommandInv'
  BY <1>1, <1>3, Zenon DEF PeerCloses, CloseAfter
<1>4. ASSUME NEW cmd \in Commands, Send(cmd) PROVE CommandInv'
  <2>1. /\ sent \in Seq(Commands) /\ accepted \in Seq(Meanings)
        /\ outgoing \in Seq(CommandFrame) /\ Len(accepted) <= Len(sent)
        /\ accepted = [i \in DOMAIN accepted |-> AsAccepted(sent[i])]
        /\ \A i \in DOMAIN accepted : WellFormed(sent[i])
        /\ peer = "open" => Pending /\ Len(sent) = Len(accepted) + Len(outgoing)
    BY Zenon DEF CommandInv, CommandsArrive
  <2>2. /\ sent' = Append(sent, cmd) /\ UNCHANGED <<accepted, peer>>
        /\ outgoing' = Append(outgoing, EncodeInbound(cmd))
    BY <1>4, Zenon DEF Send
  <2>3. EncodeInbound(cmd) \in CommandFrame
    BY Zenon DEF CommandFrame
  <2>4. /\ sent' \in Seq(Commands) /\ outgoing' \in Seq(CommandFrame)
        /\ Len(sent') = Len(sent) + 1 /\ Len(outgoing') = Len(outgoing) + 1
        /\ \A i \in DOMAIN sent : sent'[i] = sent[i]
        /\ sent'[Len(sent) + 1] = cmd
    BY <2>1, <2>2, <2>3
  <2>5. \A i \in DOMAIN accepted : sent'[i] = sent[i]
    BY <2>1, <2>4
  <2>6. CommandsArrive'
    <3>1. /\ accepted = [i \in DOMAIN accepted |-> AsAccepted(sent'[i])]
          /\ \A i \in DOMAIN accepted : WellFormed(sent'[i])
      BY <2>1, <2>5, Zenon
    <3> QED
      BY <2>1, <2>2, <2>4, <3>1 DEF CommandsArrive
  <2>7. ASSUME peer' = "open" PROVE Pending'
    <3>1. ASSUME NEW j \in DOMAIN outgoing'
          PROVE  outgoing'[j] = EncodeInbound(sent'[Len(accepted) + j])
      <4>1. CASE j \in DOMAIN outgoing
        <5>1. /\ outgoing'[j] = outgoing[j]
              /\ Len(accepted) + j \in DOMAIN sent
          BY <2>1, <2>2, <2>7, <4>1
        <5>2. outgoing[j] = EncodeInbound(sent[Len(accepted) + j])
          BY <2>1, <2>2, <2>7, <4>1, Zenon DEF Pending
        <5> QED
          BY <2>4, <5>1, <5>2, Zenon
      <4>2. CASE j \notin DOMAIN outgoing
        <5>1. /\ outgoing'[j] = EncodeInbound(cmd)
              /\ Len(accepted) + j = Len(sent) + 1
          BY <2>1, <2>2, <2>4, <2>7, <3>1, <4>2
        <5> QED
          BY <2>4, <5>1, Zenon
      <4> QED
        BY <4>1, <4>2, Zenon
    <3> QED
      BY <2>2, <3>1, Zenon DEF Pending
  <2> QED
    BY <2>1, <2>2, <2>4, <2>6, <2>7, Zenon DEF CommandInv
<1>5. CASE Decode
  <2> DEFINE next == Len(accepted) + 1
             cmd == sent[next]
             parsed == ParseInbound(Head(outgoing))
  <2>1. /\ sent \in Seq(Commands) /\ accepted \in Seq(Meanings)
        /\ outgoing \in Seq(CommandFrame) /\ outgoing # <<>>
        /\ accepted = [i \in DOMAIN accepted |-> AsAccepted(sent[i])]
        /\ \A i \in DOMAIN accepted : WellFormed(sent[i])
        /\ peer = "open" /\ Pending /\ Len(sent) = Len(accepted) + Len(outgoing)
    BY <1>5, Zenon DEF CommandInv, CommandsArrive, Decode
  <2>2. /\ UNCHANGED sent /\ outgoing' = Tail(outgoing)
    BY <1>5, Zenon DEF Decode
  <2>3. /\ outgoing' \in Seq(CommandFrame)
        /\ Len(outgoing') = Len(outgoing) - 1
        /\ \A j \in DOMAIN outgoing' : outgoing'[j] = outgoing[j + 1]
                                      /\ j + 1 \in DOMAIN outgoing
        /\ next \in DOMAIN sent /\ 1 \in DOMAIN outgoing
    BY <2>1, <2>2
  <2>4. cmd \in Commands /\ Head(outgoing) = EncodeInbound(cmd)
    BY <2>1, <2>3 DEF Pending
  <2>5. CASE WellFormed(cmd)
    <3>1. accepted' = Append(accepted, AsAccepted(cmd)) /\ UNCHANGED peer
      <4>1. ~IsError(parsed) /\ parsed = AsAccepted(cmd)
        BY <2>4, <2>5, CommandParsed, Zenon
      <4> QED
        BY <1>5, <4>1, Zenon DEF Decode
    <3>2. AsAccepted(cmd) \in Meanings
      BY <2>4, Zenon DEF Meanings
    <3> HIDE DEF cmd
    <3>3. /\ accepted' \in Seq(Meanings) /\ Len(accepted') = next
          /\ DOMAIN accepted' = 1..next
          /\ \A i \in DOMAIN accepted : accepted'[i] = accepted[i]
          /\ accepted'[next] = AsAccepted(cmd)
          /\ \A i \in DOMAIN accepted' : i \in DOMAIN accepted \/ i = next
      BY <2>1, <3>1, <3>2
    <3>4. \A i \in DOMAIN accepted' :
            accepted'[i] = AsAccepted(sent[i]) /\ WellFormed(sent[i])
      <4>1. \A i \in DOMAIN accepted :
              accepted[i] = AsAccepted(sent[i]) /\ WellFormed(sent[i])
        BY <2>1, Zenon
      <4> QED
        BY <2>5, <3>3, <4>1, Zenon DEF cmd
    <3>5. accepted' = [i \in DOMAIN accepted' |-> AsAccepted(sent[i])]
      <4>1. accepted' = [i \in DOMAIN accepted' |-> accepted'[i]]
        BY <3>3
      <4> QED
        BY <3>4, <4>1, Zenon
    <3>6. CommandsArrive'
      <4>1. /\ Len(accepted') <= Len(sent)
            /\ Len(sent) = Len(accepted') + Len(outgoing')
        BY <2>1, <2>3, <3>3
      <4> QED
        BY <2>2, <3>4, <3>5, <4>1, Zenon DEF CommandsArrive
    <3>7. Pending'
      <4>1. ASSUME NEW j \in DOMAIN outgoing'
            PROVE  outgoing'[j] = EncodeInbound(sent[Len(accepted') + j])
        <5>1. outgoing'[j] = EncodeInbound(sent[Len(accepted) + (j + 1)])
          BY <2>1, <2>3, <4>1, Zenon DEF Pending
        <5>2. Len(accepted) + (j + 1) = Len(accepted') + j
          BY <2>1, <2>3, <3>3, <4>1
        <5> QED
          BY <5>1, <5>2, Zenon
      <4> QED
        BY <2>2, <4>1, Zenon DEF Pending
    <3> QED
      BY <2>1, <2>2, <2>3, <3>3, <3>6, <3>7, Zenon DEF CommandInv
  <2>6. CASE ~WellFormed(cmd)
    <3>1. accepted' = accepted /\ peer' = "closed"
      <4>1. IsError(parsed)
        BY <2>4, <2>6, CommandParsed, Zenon
      <4> QED
        BY <1>5, <4>1, Zenon DEF Decode, CloseAfter
    <3> QED
      BY <2>1, <2>2, <2>3, <3>1, Zenon DEF CommandInv, CommandsArrive
  <2> QED
    BY <2>5, <2>6, Zenon
<1>6. CASE Shutdown \/ Expire \/ \E c \in {"recv", "drain"} : Begin(c)
  BY <1>1, <1>6, Zenon DEF Shutdown, Expire, Begin
<1>7. CASE Turn
  BY <1>1, <1>7, Zenon DEF Turn, TakeEvent, ReadMore, Closed, Timeout, DrainTurn
<1>8. CASE UNCHANGED vars
  BY <1>1, <1>8, Zenon DEF vars
<1> QED
  BY <1>2, <1>3, <1>4, <1>5, <1>6, <1>7, <1>8, Zenon DEF Next

\* The engine acts on a beginning of what the caller sent, in order and with
\* its meaning, and while the connection lives the rest is on its way
\* (Client::send and the gateway's parse_frame), however many commands there
\* are.
THEOREM CommandsKeepTheirMeaning == Spec => []CommandsArrive
<1>1. Init => CommandInv
  BY DEF Init, CommandInv, CommandsArrive, Pending
<1>2. CommandInv => CommandsArrive
  BY Zenon DEF CommandInv
<1> QED
  BY <1>1, <1>2, CommandStep, PTL DEF Spec

-----------------------------------------------------------------------------
(* Events.                                                                 *)

\* The chunks of what the engine's events encode to
EventChunk == [frame : {EncodeOutbound(e) : e \in EngineOutbound}, part : {1, 2}]

EventInv ==
  /\ sent \in Seq(Commands) /\ emitted \in Seq(EngineOutbound)
  /\ rxBuf \in Seq(EventChunk) /\ socket \in Seq(EventChunk)

\* A numbered event is an event of the engine.
LEMMA NumberedEvent ==
  ASSUME NEW e \in EngineOutbound, NEW n \in EngineSeq
  PROVE  [e EXCEPT !.engine_seq = n] \in EngineOutbound
<1> DEFINE event == [e EXCEPT !.engine_seq = n]
<1>1. CASE e \in EngineReport
  <2>1. e \in ExecReport /\ event \in ExecReport
    BY <1>1, Zenon DEF EngineReport, ExecReport
  <2>2. \A f \in OptionalFields \cup {"state"} : event[f] = e[f]
    BY <2>1, Zenon DEF OptionalFields, ExecReport
  <2> HIDE DEF event
  <2>3. Present(event) = Present(e) /\ event.state = e.state
        /\ event.cancel_reason = e.cancel_reason
    BY <2>2, Zenon DEF Present, OptionalFields
  <2>4. event \in EngineReport
    BY <1>1, <2>1, <2>3, Zenon DEF EngineReport
  <2> QED
    BY <2>4, Zenon DEF EngineOutbound, event
<1>2. CASE e \in TradePrint
  BY <1>2, Zenon DEF TradePrint, EngineOutbound
<1>3. CASE e \in BookUpdateTop
  BY <1>3, Zenon DEF BookUpdateTop, EngineOutbound
<1>4. CASE e \in BookUpdateL2Delta
  BY <1>4, Zenon DEF BookUpdateL2Delta, EngineOutbound
<1>5. CASE e \in SnapshotResponse
  BY <1>5, Zenon DEF SnapshotResponse, EngineOutbound
<1> QED
  BY <1>1, <1>2, <1>3, <1>4, <1>5, Zenon DEF EngineOutbound

\* An event as the client reads it is not an error.
LEMMA ReadIsNoError ==
  ASSUME NEW m \in EngineOutbound
  PROVE  ~IsError(AsRead(m))
<1>1. CASE m \in EngineReport
  BY <1>1, Zenon DEF EngineReport, ExecReport, AsRead, IsError
<1>2. CASE m \in TradePrint
  BY <1>2, Zenon DEF TradePrint, AsRead, IsError
<1>3. CASE m \in BookUpdateTop
  BY <1>3, Zenon DEF BookUpdateTop, AsRead, IsError
<1>4. CASE m \in BookUpdateL2Delta
  BY <1>4, Zenon DEF BookUpdateL2Delta, AsRead, IsError
<1>5. CASE m \in SnapshotResponse
  BY <1>5, Zenon DEF SnapshotResponse, AsRead, IsError
<1> QED
  BY <1>1, <1>2, <1>3, <1>4, <1>5, Zenon DEF EngineOutbound

\* A part of a sequence is a sequence over the same set.
LEMMA Part ==
  ASSUME NEW S, NEW s \in Seq(S), NEW i \in Nat \ {0}, NEW j \in 0..Len(s)
  PROVE  SubSeq(s, i, j) \in Seq(S)
<1>1. \A k \in i..j : s[k] \in S
  OBVIOUS
<1> QED
  BY <1>1, SubSeqProperties

\* Every step preserves the invariant.
LEMMA EventStep ==
  ASSUME EventInv, [Next]_vars
  PROVE  EventInv'
<1> USE DEF EventInv
<1>1. ASSUME UNCHANGED <<sent, emitted, rxBuf, socket>> PROVE EventInv'
  BY <1>1, Zenon
<1>2. ASSUME NEW e \in Events, Emit(e) PROVE EventInv'
  <2> DEFINE event == [e EXCEPT !.engine_seq = Len(emitted) + 1]
             frame == EncodeOutbound(event)
  <2>1. Len(emitted) + 1 \in EngineSeq
    BY <1>2, BoundsAssumption, WordAssumption
       DEF Emit, Traffic, EngineSeq, U64
  <2>2. event \in EngineOutbound
    BY <2>1, EventsAssumption, NumberedEvent, Zenon
  <2> HIDE DEF event
  <2>3. Chunks(frame) \in Seq(EventChunk)
    BY <2>2 DEF Chunks, EventChunk
  <2> HIDE DEF frame
  <2>4. socket \o Chunks(frame) \in Seq(EventChunk)
    BY <2>3, ConcatProperties, Zenon
  <2>5. socket' = socket \o Chunks(frame)
    BY <1>2, Zenon DEF Emit, frame, event
  <2>6. /\ UNCHANGED <<sent, rxBuf>>
        /\ emitted' = Append(emitted, event)
    BY <1>2, Zenon DEF Emit, event
  <2> QED
    BY <2>2, <2>4, <2>5, <2>6
<1>3. ASSUME NEW n \in 0..Len(socket), CloseAfter(n)
      PROVE  socket' \in Seq(EventChunk)
  BY <1>3, Part DEF CloseAfter
<1>4. ASSUME NEW n \in 0..Len(socket), PeerCloses(n) PROVE EventInv'
  BY <1>3, <1>4, Zenon DEF PeerCloses
<1>5. ASSUME NEW cmd \in Commands, Send(cmd) PROVE EventInv'
  BY <1>5 DEF Send
<1>11. CASE Decode
  BY <1>3, <1>11, Zenon DEF Decode
<1>6. CASE Shutdown \/ Expire \/ \E c \in {"recv", "drain"} : Begin(c)
  BY <1>1, <1>6, Zenon DEF Shutdown, Expire, Begin
<1>7. CASE TakeEvent
  <2>1. SubSeq(rxBuf, 3, Len(rxBuf)) \in Seq(EventChunk)
    BY Part
  <2> QED
    BY <1>7, <2>1, Zenon DEF TakeEvent
<1>8. CASE ReadMore
  <2>1. PICK n \in 1..Len(socket) :
          /\ rxBuf' = rxBuf \o SubSeq(socket, 1, n)
          /\ socket' = SubSeq(socket, n + 1, Len(socket))
    BY <1>8, Zenon DEF ReadMore
  <2>2. /\ SubSeq(socket, 1, n) \in Seq(EventChunk)
        /\ SubSeq(socket, n + 1, Len(socket)) \in Seq(EventChunk)
    BY Part
  <2>3. rxBuf \o SubSeq(socket, 1, n) \in Seq(EventChunk)
    BY <2>2, ConcatProperties, Zenon
  <2> QED
    BY <1>8, <2>1, <2>2, <2>3, Zenon DEF ReadMore
<1>9. CASE Closed \/ Timeout \/ DrainTurn
  BY <1>1, <1>9, Zenon DEF Closed, Timeout, DrainTurn
<1>10. CASE UNCHANGED vars
  BY <1>1, <1>10, Zenon DEF vars
<1> QED
  BY <1>2, <1>4, <1>5, <1>6, <1>7, <1>8, <1>9, <1>10, <1>11, Zenon DEF Next, Turn

\* recv never meets a frame it cannot decode: whatever the engine emits, and
\* wherever the reads cut the stream, a whole frame in the client's buffer or
\* on its way parses (encoder::encode, outbound::parse_frame).
THEOREM FramesDecode == Spec => []EveryFrameDecodes
<1>1. Init => EventInv
  BY DEF Init, EventInv
<1>2. EventInv => EveryFrameDecodes
  <2> SUFFICES ASSUME EventInv, NEW i \in DOMAIN Arriving
               PROVE  ~IsError(ParseOutbound(Arriving[i]))
    BY Zenon DEF EveryFrameDecodes
  <2>1. Stream \in Seq(EventChunk)
    BY ConcatProperties, Zenon DEF EventInv, Stream
  <2>2. Arriving[i] = Stream[2 * i].frame /\ 2 * i \in 1..Len(Stream)
    BY <2>1 DEF Arriving
  <2>3. Stream[2 * i] \in EventChunk
    BY <2>1, <2>2
  <2>4. PICK e \in EngineOutbound : Arriving[i] = EncodeOutbound(e)
    BY <2>2, <2>3, Zenon DEF EventChunk
  <2> QED
    BY <2>4, EventsRoundTrip, ReadIsNoError, Zenon
<1> QED
  BY <1>1, <1>2, EventStep, PTL DEF Spec

-----------------------------------------------------------------------------
(* Events: none is skipped or repeated.                                    *)

Readable == {AsRead(e) : e \in EngineOutbound}

\* What recv has taken off the stream, in the order it did
Taken == handed \o lost \o collected

\* The types, and how a call keeps its books: only a drain has collected
\* something, and where events were lost nothing follows.
CallInv ==
  /\ peer \in {"open", "closed"} /\ shut \in BOOLEAN
  /\ call \in Call /\ expired \in BOOLEAN
  /\ handed \in Seq(Readable) /\ lost \in Seq(Readable)
  /\ collected \in Seq(Readable) /\ Len(collected) <= MaxDrain
  /\ call = "idle" => ~expired
  /\ call \in {"idle", "recv"} => collected = <<>>
  /\ call = "draining" => Len(collected) < MaxDrain
  /\ lost # <<>> => /\ collected = <<>> /\ peer = "closed"
                    /\ socket = <<>> /\ Len(rxBuf) < 2

\* The stream holds the chunks of the events not taken, all of them while
\* the connection lives; what was taken are the events before.
FlowInv ==
  /\ Len(Stream) <= 2 * (Len(emitted) - Len(Taken))
  /\ peer = "open" => Len(Stream) = 2 * (Len(emitted) - Len(Taken))
  /\ \A n \in 1..(Len(emitted) - Len(Taken)) :
       /\ 2 * n - 1 <= Len(Stream) =>
            Stream[2 * n - 1].frame = EncodeOutbound(emitted[Len(Taken) + n])
       /\ 2 * n <= Len(Stream) =>
            Stream[2 * n].frame = EncodeOutbound(emitted[Len(Taken) + n])
  /\ \A i \in 1..Len(Taken) : Taken[i] = AsRead(emitted[i])

\* What a client reads is an event of the protocol.
LEMMA ReadableOutbound == Readable \subseteq Outbound
<1> SUFFICES ASSUME NEW m \in EngineOutbound PROVE AsRead(m) \in Outbound
  BY Zenon DEF Readable
<1>1. CASE m \in EngineReport
  BY <1>1, NoneAssumption, Zenon DEF EngineReport, ExecReport, AsRead, Outbound
<1>2. CASE m \in TradePrint
  BY <1>2, Zenon DEF TradePrint, AsRead, Outbound
<1>3. CASE m \in BookUpdateTop
  BY <1>3, Zenon DEF BookUpdateTop, AsRead, Outbound
<1>4. CASE m \in BookUpdateL2Delta
  BY <1>4, Zenon DEF BookUpdateL2Delta, AsRead, Outbound
<1>5. CASE m \in SnapshotResponse
  BY <1>5, Zenon DEF SnapshotResponse, AsRead, Outbound
<1> QED
  BY <1>1, <1>2, <1>3, <1>4, <1>5, Zenon DEF EngineOutbound

\* The event a whole frame in the buffer decodes to.
LEMMA HeadReadable ==
  ASSUME EventInv, ~Truncated(rxBuf)
  PROVE  ParseOutbound(rxBuf[1].frame) \in Readable
<1>1. rxBuf[1] \in EventChunk
  BY DEF EventInv, Truncated
<1>2. PICK e \in EngineOutbound : rxBuf[1].frame = EncodeOutbound(e)
  BY <1>1, Zenon DEF EventChunk
<1> QED
  BY <1>2, EventsRoundTrip, Zenon DEF Readable

\* Every step keeps the call's books.
LEMMA CallStep ==
  ASSUME EventInv, CallInv, [Next]_vars
  PROVE  CallInv'
<1>1. ASSUME NEW e \in Events, Emit(e) PROVE CallInv'
  BY <1>1, Zenon DEF CallInv, Emit
<1>2. ASSUME NEW n \in 0..Len(socket), CloseAfter(n), peer = "open"
      PROVE  peer' = "closed" /\ lost = <<>>
  BY <1>2, Zenon DEF CallInv, CloseAfter
<1>3. ASSUME NEW n \in 0..Len(socket), PeerCloses(n) PROVE CallInv'
  BY <1>2, <1>3, Zenon DEF CallInv, PeerCloses
<1>4. CASE Decode
  BY <1>2, <1>4, Zenon DEF CallInv, Decode
<1>5. ASSUME NEW cmd \in Commands, Send(cmd) PROVE CallInv'
  BY <1>5, Zenon DEF CallInv, Send
<1>6. CASE Shutdown \/ Expire \/ \E c \in {"recv", "drain"} : Begin(c)
  <2>1. CASE Shutdown \/ Expire
    <3>1. shut' \in BOOLEAN /\ expired' \in BOOLEAN
      BY <2>1, Zenon DEF CallInv, Shutdown, Expire
    <3>2. call = "idle" => expired' = expired
      BY <2>1, Zenon DEF Shutdown, Expire
    <3>3. UNCHANGED <<peer, call, handed, lost, collected, socket, rxBuf>>
      BY <2>1, Zenon DEF Shutdown, Expire
    <3> QED
      BY <3>1, <3>2, <3>3, Zenon DEF CallInv
  <2>2. ASSUME NEW c \in {"recv", "drain"}, Begin(c) PROVE CallInv'
    <3>1. call' \in Call /\ call' # "draining" /\ call' # "idle"
      BY <2>2, Zenon DEF Begin, Call
    <3> QED
      BY <2>2, <3>1, Zenon DEF CallInv, Begin
  <2> QED
    BY <1>6, <2>1, <2>2, Zenon
<1>7. ASSUME Return, UNCHANGED <<peer, shut>>, handed' \in Seq(Readable),
             lost' \in Seq(Readable),
             lost' # <<>> => peer = "closed" /\ socket' = <<>> /\ Len(rxBuf') < 2
      PROVE  CallInv'
  <2>1. /\ collected' = <<>> /\ collected' \in Seq(Readable)
        /\ Len(collected') <= MaxDrain
    BY <1>7, BoundsAssumption DEF Return
  <2>2. call' = "idle" /\ call' \in Call /\ expired' = FALSE
    BY <1>7, Zenon DEF Return, Call
  <2> QED
    BY <1>7, <2>1, <2>2, Zenon DEF CallInv
<1>8. CASE TakeEvent
  <2>1. PICK event : event = ParseOutbound(rxBuf[1].frame)
    BY Zenon
  <2>2. event \in Readable /\ lost = <<>>
    BY <1>8, <2>1, HeadReadable, Zenon DEF TakeEvent, CallInv, Truncated
  <2>3. UNCHANGED <<peer, shut, lost>>
    BY <1>8, Zenon DEF TakeEvent
  <2>4. CASE call = "recv"
    <3>1. handed' = Append(handed, event) /\ Return
      BY <1>8, <2>1, <2>4, Zenon DEF TakeEvent
    <3>2. handed' \in Seq(Readable)
      BY <2>2, <3>1 DEF CallInv
    <3> QED
      BY <1>7, <2>2, <2>3, <3>1, <3>2, Zenon DEF CallInv
  <2>5. CASE call # "recv"
    <3>1. /\ call = "draining" /\ call' = "drain"
          /\ collected' = Append(collected, event) /\ UNCHANGED <<handed, expired>>
      BY <1>8, <2>1, <2>5, Zenon DEF TakeEvent, InRecv
    <3>2. /\ collected' \in Seq(Readable)
          /\ Len(collected') <= MaxDrain
      BY <2>2, <3>1, BoundsAssumption DEF CallInv
    <3> QED
      BY <2>2, <2>3, <3>1, <3>2, Zenon DEF CallInv, Call
  <2> QED
    BY <2>4, <2>5, Zenon
<1>9. CASE ReadMore
  BY <1>9 DEF CallInv, ReadMore
<1>10. CASE Closed
  <2>1. lost' \in Seq(Readable)
    BY <1>10, ConcatProperties, Zenon DEF CallInv, Closed
  <2> QED
    BY <1>7, <1>10, <2>1, Zenon DEF CallInv, Closed, Truncated
<1>11. ASSUME handed' = handed \o collected, Return,
              UNCHANGED <<peer, shut, lost, socket, rxBuf>>
       PROVE  CallInv'
  <2>1. handed' \in Seq(Readable)
    BY <1>11, ConcatProperties, Zenon DEF CallInv
  <2> QED
    BY <1>7, <1>11, <2>1, Zenon DEF CallInv
<1>12. CASE Timeout
  BY <1>11, <1>12, Zenon DEF Timeout
<1>13. CASE DrainTurn
  BY <1>11, <1>13, Zenon DEF DrainTurn, CallInv, Call
<1>14. CASE UNCHANGED vars
  BY <1>14, Zenon DEF CallInv, vars
<1> QED
  BY <1>1, <1>3, <1>4, <1>5, <1>6, <1>8, <1>9, <1>10, <1>12, <1>13, <1>14, Zenon
     DEF Next, Turn

\* Ways to put together what was handed over, lost and collected.
LEMMA Regroup ==
  ASSUME NEW S, NEW h \in Seq(S), NEW l \in Seq(S), NEW c \in Seq(S)
  PROVE  /\ h \o l \o c \in Seq(S)
         /\ h \o (l \o c) \o <<>> = h \o l \o c
         /\ \A e \in S : h \o l \o Append(c, e) = Append(h \o l \o c, e)
<1>1. h \o l \in Seq(S) /\ h \o c \in Seq(S) /\ l \o c \in Seq(S)
  BY ConcatProperties, Zenon
<1>2. h \o l \o c \in Seq(S) /\ h \o (l \o c) \in Seq(S)
        /\ (h \o c) \o l \in Seq(S)
  BY <1>1, ConcatProperties, Zenon
<1>3. h \o (l \o c) \o <<>> = h \o l \o c
  BY <1>2, ConcatEmptySeq, ConcatAssociative
<1>4. ASSUME NEW e \in S
      PROVE  h \o l \o Append(c, e) = Append(h \o l \o c, e)
  <2>1. PICK s : s = h \o l
    BY Zenon
  <2>2. s \in Seq(S) /\ Append(c, e) \in Seq(S) /\ s \o c \in Seq(S)
    BY <1>1, <1>2, <2>1
  <2>3. /\ s \o Append(c, e) \in Seq(S) /\ Append(s \o c, e) \in Seq(S)
        /\ Len(s \o Append(c, e)) = Len(s) + Len(c) + 1
        /\ Len(Append(s \o c, e)) = Len(s) + Len(c) + 1
    BY <2>2, ConcatProperties
  <2>4. ASSUME NEW i \in 1..(Len(s) + Len(c) + 1)
        PROVE  (s \o Append(c, e))[i] = Append(s \o c, e)[i]
    BY <2>2
  <2>5. s \o Append(c, e) = Append(s \o c, e)
    BY <2>3, <2>4, SeqEqual, Zenon
  <2> QED
    BY <2>1, <2>5, Zenon
<1> QED
  BY <1>2, <1>3, <1>4, Zenon

\* The chunks on the stream are those in the buffer, then those in flight.
LEMMA StreamOf ==
  ASSUME NEW b \in Seq(EventChunk), NEW s \in Seq(EventChunk)
  PROVE  /\ b \o s \in Seq(EventChunk) /\ Len(b \o s) = Len(b) + Len(s)
         /\ \A j \in 1..Len(b) : (b \o s)[j] = b[j]
         /\ \A j \in 1..Len(s) : (b \o s)[Len(b) + j] = s[j]
BY ConcatProperties

\* Taking nothing and at most cutting the end of the stream.
LEMMA FlowFrame ==
  ASSUME EventInv, EventInv', CallInv, FlowInv, Taken' = Taken,
         emitted' = emitted, Len(Stream') <= Len(Stream),
         \A j \in 1..Len(Stream') : Stream'[j] = Stream[j],
         peer' = "open" => peer = "open" /\ Len(Stream') = Len(Stream)
  PROVE  FlowInv'
<1>1. Len(Stream) \in Nat /\ Len(Stream') \in Nat
  BY StreamOf DEF EventInv, Stream
<1>2. PICK d : d = Len(emitted) - Len(Taken)
  BY Zenon
<1>3. d \in Int
  <2>1. Taken \in Seq(Readable) /\ emitted \in Seq(EngineOutbound)
    BY Regroup, Zenon DEF Taken, CallInv, EventInv
  <2> QED
    BY <1>2, <2>1
<1>4. /\ Len(Stream) <= 2 * d
      /\ peer = "open" => Len(Stream) = 2 * d
      /\ \A i \in 1..Len(Taken) : Taken[i] = AsRead(emitted[i])
  BY <1>2, Zenon DEF FlowInv
<1>5. ASSUME NEW n \in 1..d
      PROVE  /\ 2 * n - 1 <= Len(Stream') =>
                  Stream'[2 * n - 1].frame = EncodeOutbound(emitted[Len(Taken) + n])
             /\ 2 * n <= Len(Stream') =>
                  Stream'[2 * n].frame = EncodeOutbound(emitted[Len(Taken) + n])
  <2>1. /\ 2 * n - 1 <= Len(Stream) =>
             Stream[2 * n - 1].frame = EncodeOutbound(emitted[Len(Taken) + n])
        /\ 2 * n <= Len(Stream) =>
             Stream[2 * n].frame = EncodeOutbound(emitted[Len(Taken) + n])
    BY <1>2, Zenon DEF FlowInv
  <2>2. n \in Int /\ n >= 1
    BY <1>3
  <2>3. /\ 2 * n - 1 <= Len(Stream') =>
             2 * n - 1 <= Len(Stream) /\ 2 * n - 1 \in 1..Len(Stream')
        /\ 2 * n <= Len(Stream') =>
             2 * n <= Len(Stream) /\ 2 * n \in 1..Len(Stream')
    BY <1>1, <2>2
  <2> QED
    BY <2>1, <2>3, Zenon
<1>6. /\ Len(Stream') <= 2 * d
      /\ peer' = "open" => Len(Stream') = 2 * d
  BY <1>1, <1>3, <1>4
<1> QED
  BY <1>2, <1>4, <1>5, <1>6, Zenon DEF FlowInv

\* An event emitted puts its two chunks behind all others.
LEMMA FlowEmit ==
  ASSUME EventInv, EventInv', CallInv, FlowInv, NEW e \in Events, Emit(e)
  PROVE  FlowInv'
<1>1. PICK event : event = [e EXCEPT !.engine_seq = Len(emitted) + 1]
  BY Zenon
<1>2. PICK c : c = Chunks(EncodeOutbound(event))
  BY Zenon
<1>3. /\ peer = "open" /\ emitted' = Append(emitted, event)
      /\ socket' = socket \o c /\ UNCHANGED <<rxBuf, handed, lost, collected>>
  BY <1>1, <1>2, Zenon DEF Emit
<1>4. /\ Len(c) = 2 /\ c[1].frame = EncodeOutbound(event)
      /\ c[2].frame = EncodeOutbound(event)
  BY <1>2, Zenon DEF Chunks
<1>5. Taken' = Taken /\ Taken \in Seq(Readable) /\ Len(Taken) \in Nat
  BY <1>3, Regroup DEF Taken, CallInv
<1>6. /\ emitted \in Seq(EngineOutbound) /\ emitted' \in Seq(EngineOutbound)
      /\ rxBuf \in Seq(EventChunk) /\ socket \in Seq(EventChunk)
      /\ socket' \in Seq(EventChunk)
  BY <1>3, Zenon DEF EventInv
<1>7. PICK k : k = Len(Taken)
  BY Zenon
<1>8. PICK d : d = Len(emitted) - k
  BY Zenon
<1>9. k \in Nat /\ d \in Int /\ Len(emitted') - k = d + 1
  BY <1>3, <1>5, <1>6, <1>7, <1>8
<1>10. Len(Stream) = 2 * d /\ Len(Stream) \in Nat
  BY <1>3, <1>6, <1>7, <1>8, StreamOf DEF FlowInv, Stream
<1>11. /\ Len(Stream') = 2 * d + 2
       /\ \A j \in 1..(2 * d) : Stream'[j] = Stream[j]
       /\ Stream'[2 * d + 1] = c[1] /\ Stream'[2 * d + 2] = c[2]
  <2>1. /\ Len(socket') = Len(socket) + 2
        /\ \A j \in 1..Len(socket) : socket'[j] = socket[j]
        /\ socket'[Len(socket) + 1] = c[1] /\ socket'[Len(socket) + 2] = c[2]
    <3>1. c \in Seq(EventChunk)
      <4>1. c[1] \in EventChunk /\ c[2] \in EventChunk
        <5>1. event \in EngineOutbound
          BY <1>3, <1>6
        <5> QED
          BY <1>2, <5>1, Zenon DEF Chunks, EventChunk
      <4> QED
        BY <1>2, <4>1 DEF Chunks
    <3>2. /\ Len(socket') = Len(socket) + Len(c)
          /\ \A j \in 1..Len(socket) : socket'[j] = socket[j]
          /\ \A j \in 1..Len(c) : socket'[Len(socket) + j] = c[j]
      BY <1>3, <1>6, <3>1, StreamOf
    <3>3. 1 \in 1..Len(c) /\ 2 \in 1..Len(c)
      BY <1>4
    <3> QED
      BY <1>4, <3>2, <3>3, Zenon
  <2>2. /\ Len(Stream) = Len(rxBuf) + Len(socket)
        /\ Len(Stream') = Len(rxBuf) + Len(socket')
        /\ \A j \in 1..Len(rxBuf) : Stream'[j] = rxBuf[j] /\ Stream[j] = rxBuf[j]
        /\ \A j \in 1..Len(socket) : Stream[Len(rxBuf) + j] = socket[j]
        /\ \A j \in 1..Len(socket') : Stream'[Len(rxBuf) + j] = socket'[j]
    BY <1>3, <1>6, StreamOf DEF Stream
  <2>3. Len(rxBuf) \in Nat /\ Len(socket) \in Nat
    BY <1>6
  <2>4. ASSUME NEW j \in 1..(2 * d) PROVE Stream'[j] = Stream[j]
    <3>1. CASE j <= Len(rxBuf)
      BY <1>9, <2>2, <2>3, <3>1
    <3>2. CASE j > Len(rxBuf)
      <4>1. PICK i \in 1..Len(socket) : j = Len(rxBuf) + i
        <5>1. j - Len(rxBuf) \in 1..Len(socket)
                /\ j = Len(rxBuf) + (j - Len(rxBuf))
          BY <1>9, <1>10, <2>2, <2>3, <3>2
        <5> QED
          BY <5>1, Zenon
      <4> QED
        BY <2>1, <2>2, <2>3, <4>1
    <3> QED
      BY <1>9, <2>3, <3>1, <3>2
  <2>5. /\ 2 * d + 1 = Len(rxBuf) + (Len(socket) + 1)
        /\ 2 * d + 2 = Len(rxBuf) + (Len(socket) + 2)
        /\ Len(socket) + 1 \in 1..Len(socket')
        /\ Len(socket) + 2 \in 1..Len(socket')
        /\ Len(Stream') = 2 * d + 2
    BY <1>9, <1>10, <2>1, <2>2, <2>3
  <2> QED
    BY <2>1, <2>2, <2>4, <2>5
<1>12. ASSUME NEW n \in 1..(d + 1)
       PROVE  /\ 2 * n - 1 <= Len(Stream') =>
                   Stream'[2 * n - 1].frame = EncodeOutbound(emitted'[k + n])
              /\ 2 * n <= Len(Stream') =>
                   Stream'[2 * n].frame = EncodeOutbound(emitted'[k + n])
  <2>1. CASE n = d + 1
    <3>1. emitted'[k + n] = event
      BY <1>3, <1>6, <1>8, <1>9, <2>1
    <3>2. 2 * n - 1 = 2 * d + 1 /\ 2 * n = 2 * d + 2
      BY <1>9, <2>1
    <3> QED
      BY <1>4, <1>11, <3>1, <3>2, Zenon
  <2>2. CASE n # d + 1
    <3>1. n \in 1..d /\ 2 * n - 1 \in 1..(2 * d) /\ 2 * n \in 1..(2 * d)
      BY <1>9, <2>2
    <3>2. emitted'[k + n] = emitted[k + n]
      <4>1. k + n \in 1..Len(emitted)
        BY <1>6, <1>8, <1>9, <3>1
      <4> QED
        BY <1>3, <1>6, <4>1
    <3>3. /\ Stream[2 * n - 1].frame = EncodeOutbound(emitted[k + n])
          /\ Stream[2 * n].frame = EncodeOutbound(emitted[k + n])
      BY <1>7, <1>8, <1>9, <1>10, <3>1 DEF FlowInv
    <3> QED
      BY <1>11, <3>1, <3>2, <3>3, Zenon
  <2> QED
    BY <2>1, <2>2, Zenon
<1>13. ASSUME NEW i \in 1..k PROVE Taken[i] = AsRead(emitted'[i])
  <2>1. i \in 1..Len(emitted)
    BY <1>6, <1>8, <1>9, <1>10
  <2> QED
    BY <1>3, <1>6, <1>7, <2>1 DEF FlowInv
<1>14. Len(Stream') = 2 * (d + 1)
  BY <1>9, <1>11
<1>15. Len(Taken') = k /\ Len(emitted') - k = d + 1 /\ Taken' = Taken
         /\ 2 * (d + 1) <= 2 * (d + 1)
  BY <1>5, <1>7, <1>9
<1> QED
  BY <1>12, <1>13, <1>14, <1>15, Zenon DEF FlowInv

\* What recv takes is the next event due, once.
LEMMA TakeDue ==
  ASSUME EventInv, CallInv, FlowInv, TakeEvent
  PROVE  /\ Len(Taken) + 1 \in 1..Len(emitted)
         /\ Taken' = Append(Taken, AsRead(emitted[Len(Taken) + 1]))
<1>1. /\ InRecv /\ ~Truncated(rxBuf) /\ UNCHANGED lost
  BY Zenon DEF TakeEvent
<1>2. PICK event : event = ParseOutbound(rxBuf[1].frame)
  BY Zenon
<1>3. event \in Readable /\ lost = <<>>
  BY <1>1, <1>2, HeadReadable, Zenon DEF CallInv, Truncated
<1>4. /\ handed \in Seq(Readable) /\ lost \in Seq(Readable)
      /\ collected \in Seq(Readable)
  BY Zenon DEF CallInv
<1>5. Taken \in Seq(Readable) /\ Len(Taken) \in Nat
  BY <1>4, Regroup DEF Taken
<1>6. PICK k : k = Len(Taken)
  BY Zenon
<1>7. /\ rxBuf \in Seq(EventChunk) /\ socket \in Seq(EventChunk)
      /\ emitted \in Seq(EngineOutbound) /\ Len(rxBuf) >= 2
  BY <1>1 DEF EventInv, Truncated
<1>8. Len(Stream) \in Nat /\ Len(Stream) >= 2 /\ Stream[1] = rxBuf[1]
  <2>1. /\ Len(Stream) = Len(rxBuf) + Len(socket)
        /\ \A j \in 1..Len(rxBuf) : Stream[j] = rxBuf[j]
    BY <1>7, StreamOf, Zenon DEF Stream
  <2> QED
    BY <1>7, <2>1
<1>9. 1 \in 1..(Len(emitted) - k) /\ k + 1 \in 1..Len(emitted)
  <2>1. Len(Stream) <= 2 * (Len(emitted) - k)
    BY <1>6, Zenon DEF FlowInv
  <2> QED
    BY <1>5, <1>6, <1>7, <1>8, <2>1
<1>10. Stream[1].frame = EncodeOutbound(emitted[k + 1])
  <2>1. 2 * 1 - 1 = 1 /\ 1 <= Len(Stream)
    BY <1>8
  <2> QED
    BY <1>6, <1>9, <2>1, Zenon DEF FlowInv
<1>11. event = AsRead(emitted[k + 1])
  <2>1. emitted[k + 1] \in EngineOutbound
    BY <1>7, <1>9
  <2> QED
    BY <1>2, <1>8, <1>10, <2>1, EventsRoundTrip, Zenon
<1>12. Taken' = Append(Taken, event)
  <2>1. CASE call = "recv"
    <3>1. collected = <<>> /\ collected' = <<>> /\ handed' = Append(handed, event)
      BY <1>2, <2>1, Zenon DEF TakeEvent, Return, CallInv
    <3>2. Append(handed, event) \in Seq(Readable)
      BY <1>3, <1>4
    <3>3. /\ handed \o <<>> \o <<>> = handed
          /\ Append(handed, event) \o <<>> \o <<>> = Append(handed, event)
      BY <1>4, <3>2, ConcatEmptySeq, Zenon
    <3> QED
      BY <1>1, <1>3, <3>1, <3>3, Zenon DEF Taken
  <2>2. CASE call # "recv"
    <3>1. collected' = Append(collected, event) /\ handed' = handed
      BY <1>2, <2>2, Zenon DEF TakeEvent
    <3> QED
      BY <1>1, <1>3, <1>4, <3>1, Regroup DEF Taken
  <2> QED
    BY <2>1, <2>2, Zenon
<1> QED
  BY <1>6, <1>9, <1>11, <1>12, Zenon

\* Taking an event takes its two chunks off the stream.
LEMMA FlowTake ==
  ASSUME EventInv, EventInv', CallInv, FlowInv, TakeEvent
  PROVE  FlowInv'
<1>1. PICK k : k = Len(Taken)
  BY Zenon
<1>2. PICK d : d = Len(emitted) - k
  BY Zenon
<1>3. /\ Taken \in Seq(Readable) /\ emitted \in Seq(EngineOutbound)
      /\ Len(emitted) \in Nat /\ k \in Nat /\ d \in Int
  BY <1>1, <1>2, Regroup DEF Taken, CallInv, EventInv
<1>4. PICK event : event = AsRead(emitted[k + 1])
  BY Zenon
<1>5. k + 1 \in 1..Len(emitted) /\ Taken' = Append(Taken, event)
  BY <1>1, <1>4, TakeDue, Zenon
<1>6. event \in Readable
  BY <1>3, <1>4, <1>5 DEF Readable
<1>7. /\ Taken' \in Seq(Readable) /\ Len(Taken') = k + 1
      /\ \A i \in 1..k : Taken'[i] = Taken[i]
      /\ Taken'[k + 1] = event
  BY <1>1, <1>3, <1>5, <1>6
<1>8. /\ rxBuf' = SubSeq(rxBuf, 3, Len(rxBuf)) /\ Len(rxBuf) >= 2
      /\ UNCHANGED <<socket, emitted, peer>>
  BY DEF TakeEvent, Truncated, EventInv
<1>9. /\ Len(Stream) \in Nat /\ Len(Stream') = Len(Stream) - 2
      /\ \A j \in 1..Len(Stream') : Stream'[j] = Stream[j + 2]
  <2>1. /\ rxBuf \in Seq(EventChunk) /\ socket \in Seq(EventChunk)
        /\ rxBuf' \in Seq(EventChunk)
    BY Zenon DEF EventInv
  <2>2. /\ Len(rxBuf') = Len(rxBuf) - 2
        /\ \A j \in 1..Len(rxBuf') : rxBuf'[j] = rxBuf[j + 2]
    <3>1. \A j \in 3..Len(rxBuf) : rxBuf[j] \in EventChunk
      BY <2>1
    <3>2. Len(rxBuf) \in Int /\ 3 \in Int
      BY <2>1
    <3>3. /\ Len(rxBuf') = IF 3 <= Len(rxBuf) THEN Len(rxBuf) - 3 + 1 ELSE 0
          /\ \A j \in 1..(Len(rxBuf) - 3 + 1) : rxBuf'[j] = rxBuf[3 + j - 1]
      BY <1>8, <3>1, <3>2, SubSeqProperties
    <3>4. Len(rxBuf') = Len(rxBuf) - 2
      <4>1. PICK r, q : r = Len(rxBuf) /\ q = Len(rxBuf')
        BY Zenon
      <4>2. r \in Int /\ r >= 2 /\ q = IF 3 <= r THEN r - 3 + 1 ELSE 0
        BY <1>8, <3>2, <3>3, <4>1, Zenon
      <4>3. q = r - 2
        BY <4>2
      <4> QED
        BY <4>1, <4>3, Zenon
    <3>5. ASSUME NEW j \in 1..Len(rxBuf') PROVE rxBuf'[j] = rxBuf[j + 2]
      <4>1. j \in 1..(Len(rxBuf) - 3 + 1) /\ 3 + j - 1 = j + 2
        BY <3>2, <3>4
      <4> QED
        BY <3>3, <4>1, Zenon
    <3> QED
      BY <3>4, <3>5, Zenon
  <2>3. /\ Len(Stream) = Len(rxBuf) + Len(socket)
        /\ \A j \in 1..Len(rxBuf) : Stream[j] = rxBuf[j]
        /\ \A j \in 1..Len(socket) : Stream[Len(rxBuf) + j] = socket[j]
    BY <2>1, StreamOf, Zenon DEF Stream
  <2>4. /\ Len(Stream') = Len(rxBuf') + Len(socket)
        /\ \A j \in 1..Len(rxBuf') : Stream'[j] = rxBuf'[j]
        /\ \A j \in 1..Len(socket) : Stream'[Len(rxBuf') + j] = socket[j]
    BY <1>8, <2>1, StreamOf DEF Stream
  <2>5. Len(rxBuf) \in Nat /\ Len(socket) \in Nat
    BY <2>1
  <2>6. ASSUME NEW j \in 1..Len(Stream') PROVE Stream'[j] = Stream[j + 2]
    <3>1. CASE j <= Len(rxBuf')
      <4>1. j \in 1..Len(rxBuf') /\ j + 2 \in 1..Len(rxBuf)
        BY <1>8, <2>2, <2>5, <3>1
      <4> QED
        BY <2>2, <2>3, <2>4, <4>1, Zenon
    <3>2. CASE j > Len(rxBuf')
      <4>1. PICK i \in 1..Len(socket) : j = Len(rxBuf') + i
        <5>1. j - Len(rxBuf') \in 1..Len(socket)
                /\ j = Len(rxBuf') + (j - Len(rxBuf'))
          BY <1>8, <2>2, <2>4, <2>5, <3>2
        <5> QED
          BY <5>1, Zenon
      <4>2. j + 2 = Len(rxBuf) + i
        BY <1>8, <2>2, <2>5, <4>1
      <4> QED
        BY <2>3, <2>4, <4>1, <4>2
    <3> QED
      BY <1>8, <2>2, <2>5, <3>1, <3>2
  <2> QED
    BY <1>8, <2>2, <2>3, <2>4, <2>5, <2>6
<1>10. /\ Len(Stream) <= 2 * d
       /\ peer = "open" => Len(Stream) = 2 * d
  BY <1>1, <1>2, Zenon DEF FlowInv
<1>11. Len(emitted) - (k + 1) = d - 1 /\ Len(Stream') \in Int
  BY <1>2, <1>3, <1>9
<1>12. ASSUME NEW n \in 1..(d - 1)
       PROVE  /\ 2 * n - 1 <= Len(Stream') =>
                   Stream'[2 * n - 1].frame = EncodeOutbound(emitted[(k + 1) + n])
              /\ 2 * n <= Len(Stream') =>
                   Stream'[2 * n].frame = EncodeOutbound(emitted[(k + 1) + n])
  <2>1. n + 1 \in 1..d /\ k + (n + 1) = (k + 1) + n
    BY <1>3
  <2>2. /\ 2 * (n + 1) - 1 <= Len(Stream) => Stream[2 * (n + 1) - 1].frame =
                                               EncodeOutbound(emitted[k + (n + 1)])
        /\ 2 * (n + 1) <= Len(Stream) => Stream[2 * (n + 1)].frame =
                                           EncodeOutbound(emitted[k + (n + 1)])
    BY <1>1, <1>2, <2>1, Zenon DEF FlowInv
  <2>3. /\ 2 * (n + 1) - 1 = (2 * n - 1) + 2 /\ 2 * (n + 1) = 2 * n + 2
        /\ 2 * n - 1 >= 1 /\ n \in Int
    BY <1>3
  <2>4. /\ 2 * n - 1 <= Len(Stream') => /\ 2 * n - 1 \in 1..Len(Stream')
                                        /\ 2 * (n + 1) - 1 <= Len(Stream)
        /\ 2 * n <= Len(Stream') => /\ 2 * n \in 1..Len(Stream')
                                    /\ 2 * (n + 1) <= Len(Stream)
    BY <1>9, <2>3
  <2> QED
    BY <1>9, <2>1, <2>2, <2>3, <2>4, Zenon
<1>13. /\ Len(Stream') <= 2 * (d - 1)
       /\ peer = "open" => Len(Stream') = 2 * (d - 1)
  BY <1>3, <1>9, <1>10
<1>14. ASSUME NEW i \in 1..(k + 1) PROVE Taken'[i] = AsRead(emitted[i])
  <2>1. \A j \in 1..k : Taken[j] = AsRead(emitted[j])
    BY <1>1, Zenon DEF FlowInv
  <2>2. i \in 1..k \/ i = k + 1
    BY <1>3
  <2> QED
    BY <1>4, <1>7, <2>1, <2>2, Zenon
<1> QED
  BY <1>7, <1>8, <1>11, <1>12, <1>13, <1>14, Zenon DEF FlowInv

\* Putting end to end may be done from either end.
LEMMA Regrouped ==
  \A s, t, u \in Seq(EventChunk) : (s \o t) \o u = s \o (t \o u)
BY ConcatAssociative

\* A read moves chunks from the socket to the buffer.
LEMMA ReadKeepsStream ==
  ASSUME NEW b \in Seq(EventChunk), NEW s \in Seq(EventChunk), NEW n \in 1..Len(s)
  PROVE  (b \o SubSeq(s, 1, n)) \o SubSeq(s, n + 1, Len(s)) = b \o s
<1>1. PICK x, y : x = SubSeq(s, 1, n) /\ y = SubSeq(s, n + 1, Len(s))
  BY Zenon
<1>2. x \in Seq(EventChunk) /\ y \in Seq(EventChunk)
  <2>1. /\ n \in 0..Len(s) /\ n + 1 \in Nat \ {0}
        /\ 1 \in Nat \ {0} /\ Len(s) \in 0..Len(s)
    OBVIOUS
  <2> QED
    BY <1>1, <2>1, Part, Zenon
<1>3. x \o y = s
  <2>1. n \in Nat /\ Len(s) \in Nat /\ n <= Len(s)
    OBVIOUS
  <2>2. /\ Len(x) = n /\ Len(y) = Len(s) - n
        /\ \A i \in 1..n : x[i] = s[i]
        /\ \A i \in 1..(Len(s) - n) : y[i] = s[n + i]
    BY <1>1, <2>1
  <2>3. /\ x \o y \in Seq(EventChunk) /\ Len(x \o y) = Len(s)
        /\ \A i \in 1..Len(s) :
             (x \o y)[i] = IF i <= n THEN x[i] ELSE y[i - n]
    <3>1. /\ x \o y \in Seq(EventChunk) /\ Len(x \o y) = Len(x) + Len(y)
          /\ \A i \in 1..(Len(x) + Len(y)) :
               (x \o y)[i] = IF i <= Len(x) THEN x[i] ELSE y[i - Len(x)]
      BY <1>2, ConcatProperties, Zenon
    <3>2. Len(x) + Len(y) = Len(s)
      BY <2>1, <2>2
    <3> QED
      BY <2>2, <3>1, <3>2, Zenon
  <2>4. ASSUME NEW i \in 1..Len(s) PROVE (x \o y)[i] = s[i]
    <3>1. CASE i <= n
      BY <2>1, <2>2, <2>3, <3>1
    <3>2. CASE i > n
      <4>1. i - n \in 1..(Len(s) - n) /\ n + (i - n) = i /\ ~(i <= n)
        BY <2>1, <3>2
      <4> QED
        BY <2>2, <2>3, <4>1, Zenon
    <3>3. i <= n \/ i > n
      BY <2>1
    <3> QED
      BY <3>1, <3>2, <3>3, Zenon
  <2> QED
    BY <2>3, <2>4, SeqEqual, Zenon
<1>4. (b \o x) \o y = b \o (x \o y)
  BY <1>2, Regrouped, Zenon
<1> QED
  BY <1>1, <1>3, <1>4, Zenon

\* What a drain collected goes behind what was handed over.
LEMMA HandOver ==
  ASSUME NEW h \in Seq(Readable), NEW l \in Seq(Readable),
         NEW c \in Seq(Readable), l = <<>> \/ c = <<>>
  PROVE  (h \o c) \o l \o <<>> = h \o l \o c
<1>1. h \o l \in Seq(Readable) /\ h \o c \in Seq(Readable)
  BY ConcatProperties, Zenon
<1>2. h \o <<>> = h /\ (h \o l) \o <<>> = h \o l /\ (h \o c) \o <<>> = h \o c
  BY <1>1, ConcatEmptySeq, Zenon
<1>3. CASE l = <<>>
  BY <1>2, <1>3, Zenon
<1>4. CASE c = <<>>
  BY <1>2, <1>4, Zenon
<1> QED
  BY <1>3, <1>4, Zenon

\* Every step keeps the stream and the events taken in agreement.
LEMMA FlowStep ==
  ASSUME EventInv, EventInv', CallInv, FlowInv, [Next]_vars
  PROVE  FlowInv'
<1>1. /\ rxBuf \in Seq(EventChunk) /\ socket \in Seq(EventChunk)
      /\ handed \in Seq(Readable) /\ lost \in Seq(Readable)
      /\ collected \in Seq(Readable)
  BY Zenon DEF EventInv, CallInv
<1>2. Len(Stream) \in Nat
  BY <1>1, StreamOf DEF Stream
<1>3. ASSUME Taken' = Taken, UNCHANGED <<emitted, peer>>, Stream' = Stream
      PROVE  FlowInv'
  BY <1>2, <1>3, FlowFrame
<1>4. ASSUME NEW e \in Events, Emit(e) PROVE FlowInv'
  BY <1>4, FlowEmit, Zenon
<1>5. ASSUME NEW n \in 0..Len(socket), CloseAfter(n),
             UNCHANGED <<emitted, rxBuf, handed, lost, collected>>
      PROVE  FlowInv'
  <2>1. peer' = "closed" /\ socket' = SubSeq(socket, 1, n)
    BY <1>5, Zenon DEF CloseAfter
  <2>2. /\ socket' \in Seq(EventChunk) /\ Len(socket') = n
        /\ \A j \in 1..n : socket'[j] = socket[j]
    BY <1>1, <1>5, <2>1
  <2>3. /\ Len(Stream) = Len(rxBuf) + Len(socket)
        /\ \A j \in 1..Len(rxBuf) : Stream[j] = rxBuf[j]
        /\ \A j \in 1..Len(socket) : Stream[Len(rxBuf) + j] = socket[j]
    BY <1>1, StreamOf, Zenon DEF Stream
  <2>4. /\ Len(Stream') = Len(rxBuf) + n
        /\ \A j \in 1..Len(rxBuf) : Stream'[j] = rxBuf[j]
        /\ \A j \in 1..n : Stream'[Len(rxBuf) + j] = socket'[j]
    BY <1>1, <1>5, <2>2, StreamOf, Zenon DEF Stream
  <2>5. Len(rxBuf) \in Nat /\ Len(socket) \in Nat /\ n \in Nat
    BY <1>1, <1>5
  <2>6. ASSUME NEW j \in 1..Len(Stream') PROVE Stream'[j] = Stream[j]
    <3>1. CASE j <= Len(rxBuf)
      <4>1. j \in 1..Len(rxBuf)
        BY <2>4, <2>5, <3>1
      <4> QED
        BY <2>3, <2>4, <4>1, Zenon
    <3>2. CASE j > Len(rxBuf)
      <4>1. PICK i \in 1..n : j = Len(rxBuf) + i
        <5>1. j - Len(rxBuf) \in 1..n /\ j = Len(rxBuf) + (j - Len(rxBuf))
          BY <2>4, <2>5, <3>2
        <5> QED
          BY <5>1, Zenon
      <4>2. i \in 1..Len(socket)
        BY <1>5, <2>5, <4>1
      <4> QED
        BY <2>2, <2>3, <2>4, <4>1, <4>2, Zenon
    <3> QED
      BY <2>4, <2>5, <3>1, <3>2
  <2>7. Len(Stream') <= Len(Stream) /\ Taken' = Taken /\ emitted' = emitted
    BY <1>5, <2>3, <2>4, <2>5 DEF Taken
  <2> QED
    BY <2>1, <2>6, <2>7, FlowFrame, Zenon
<1>6. ASSUME NEW n \in 0..Len(socket), PeerCloses(n) PROVE FlowInv'
  BY <1>5, <1>6, Zenon DEF PeerCloses
<1>7. CASE Decode
  <2>1. CASE IsError(ParseInbound(Head(outgoing)))
    BY <1>5, <1>7, <2>1, Zenon DEF Decode
  <2>2. CASE ~IsError(ParseInbound(Head(outgoing)))
    BY <1>3, <1>7, <2>2, Zenon DEF Decode, Taken, Stream
  <2> QED
    BY <2>1, <2>2, Zenon
<1>8. ASSUME NEW cmd \in Commands, Send(cmd) PROVE FlowInv'
  BY <1>3, <1>8, Zenon DEF Send, Taken, Stream
<1>9. CASE Shutdown \/ Expire \/ \E c \in {"recv", "drain"} : Begin(c)
  BY <1>3, <1>9, Zenon DEF Shutdown, Expire, Begin, Taken, Stream
<1>10. CASE TakeEvent
  BY <1>10, FlowTake, Zenon
<1>11. CASE ReadMore
  <2>1. PICK n \in 1..Len(socket) :
               /\ rxBuf' = rxBuf \o SubSeq(socket, 1, n)
               /\ socket' = SubSeq(socket, n + 1, Len(socket))
    BY <1>11, Zenon DEF ReadMore
  <2>2. Stream' = Stream
    BY <1>1, <2>1, ReadKeepsStream, Zenon DEF Stream
  <2> QED
    BY <1>3, <1>11, <2>2, Zenon DEF ReadMore, Taken
<1>12. ASSUME handed' = handed \o collected, collected' = <<>>,
              UNCHANGED <<lost, socket, rxBuf, emitted, peer>>
       PROVE  FlowInv'
  <2>1. lost = <<>> \/ collected = <<>>
    BY Zenon DEF CallInv
  <2>2. (handed \o collected) \o lost \o <<>> = handed \o lost \o collected
    BY <1>1, <2>1, HandOver, Zenon
  <2>3. Taken' = Taken
    BY <1>12, <2>2, Zenon DEF Taken
  <2> QED
    BY <1>3, <1>12, <2>3, Zenon DEF Stream
<1>13. CASE Closed
  <2>1. Taken' = Taken
    BY <1>1, <1>13, Regroup DEF Closed, Return, Taken
  <2> QED
    BY <1>3, <1>13, <2>1, Zenon DEF Closed, Stream
<1>14. CASE Timeout
  BY <1>12, <1>14, Zenon DEF Timeout, Return
<1>15. CASE DrainTurn
  <2>1. CASE Len(collected) < MaxDrain /\ ~expired
    BY <1>3, <1>15, <2>1, Zenon DEF DrainTurn, Taken, Stream
  <2>2. CASE ~(Len(collected) < MaxDrain /\ ~expired)
    BY <1>12, <1>15, <2>2, Zenon DEF DrainTurn, Return
  <2> QED
    BY <2>1, <2>2, Zenon
<1>16. CASE UNCHANGED vars
  BY <1>3, <1>16, Zenon DEF vars, Taken, Stream
<1> QED
  BY <1>4, <1>6, <1>7, <1>8, <1>9, <1>10, <1>11, <1>13, <1>14, <1>15, <1>16, Zenon
     DEF Next, Turn

\* A command as the engine takes it is a command of the protocol.
LEMMA MeaningInbound ==
  ASSUME NEW m \in Commands
  PROVE  AsAccepted(m) \in Inbound
<1>0. m \in Inbound
  BY CommandsAssumption, Zenon
<1>1. CASE m \in NewOrder
  BY <1>1, NoneAssumption, Zenon DEF NewOrder, AsAccepted, Inbound
<1>2. CASE m \in CancelOrder
  BY <1>2, Zenon DEF CancelOrder, AsAccepted, Inbound
<1>3. CASE m \in CancelReplace
  BY <1>3, Zenon DEF CancelReplace, AsAccepted, Inbound
<1>4. CASE m \in MassCancel
  BY <1>4, Zenon DEF MassCancel, AsAccepted, Inbound
<1>5. CASE m \in KillSwitchSet
  BY <1>5, Zenon DEF KillSwitchSet, AsAccepted, Inbound
<1>6. CASE m \in SnapshotRequest
  BY <1>6, Zenon DEF SnapshotRequest, AsAccepted, Inbound
<1> QED
  BY <1>0, <1>1, <1>2, <1>3, <1>4, <1>5, <1>6, Zenon DEF Inbound

\* What a client may read of a state that has the invariants: the events
\* taken and those whose frames are whole, in the order they were emitted.
LEMMA FlowExact ==
  ASSUME EventInv, CallInv, FlowInv
  PROVE  NothingSkippedOrRepeated
<1>1. PICK k : k = Len(Taken)
  BY Zenon
<1>2. PICK a : a = Len(Stream) \div 2
  BY Zenon
<1>3. PICK rest : rest = [i \in 1..a |-> ParseOutbound(Stream[2 * i].frame)]
  BY Zenon
<1>4. PICK readable : readable = [i \in DOMAIN emitted |-> AsRead(emitted[i])]
  BY Zenon
<1>5. /\ Taken \in Seq(Readable) /\ k \in Nat
      /\ emitted \in Seq(EngineOutbound) /\ Len(emitted) \in Nat
      /\ Stream \in Seq(EventChunk) /\ Len(Stream) \in Nat
  BY <1>1, Regroup, StreamOf DEF Taken, Stream, CallInv, EventInv
<1>6. PICK l, m : l = Len(Stream) /\ m = Len(emitted)
  BY Zenon
<1>7. /\ a \in Nat /\ 2 * a <= l /\ k + a <= m
      /\ peer = "open" => k + a = m
  <2>1. /\ l <= 2 * (m - k)
        /\ peer = "open" => l = 2 * (m - k)
    BY <1>1, <1>6, Zenon DEF FlowInv
  <2>2. l \in Nat /\ m \in Nat /\ k \in Nat /\ a = l \div 2
    BY <1>2, <1>5, <1>6, Zenon
  <2>3. a \in Nat /\ 2 * a <= l /\ l <= 2 * a + 1
    BY <2>2
  <2> QED
    BY <2>1, <2>2, <2>3
<1>8. ASSUME NEW i \in 1..a PROVE rest[i] = AsRead(emitted[k + i])
  <2>1. i \in 1..(m - k) /\ 2 * i <= l /\ k + i \in 1..m
    BY <1>5, <1>6, <1>7
  <2>2. Stream[2 * i].frame = EncodeOutbound(emitted[k + i])
    BY <1>1, <1>6, <2>1, Zenon DEF FlowInv
  <2>3. emitted[k + i] \in EngineOutbound
    BY <1>5, <1>6, <2>1
  <2> QED
    BY <1>3, <2>2, <2>3, EventsRoundTrip, Zenon
<1>9. /\ readable \in Seq(Readable) /\ Len(readable) = m
      /\ \A i \in 1..m : readable[i] = AsRead(emitted[i])
  <2>1. DOMAIN emitted = 1..m /\ m \in Nat
    BY <1>5, <1>6
  <2>2. \A i \in 1..m : readable[i] = AsRead(emitted[i])
    BY <1>4, <2>1, Zenon
  <2>3. \A i \in 1..m : emitted[i] \in EngineOutbound
    BY <1>5, <1>6
  <2>4. \A i \in 1..m : readable[i] \in Readable
    BY <2>2, <2>3, Zenon DEF Readable
  <2>5. readable = [i \in 1..m |-> readable[i]]
    BY <1>4, <2>1, Zenon
  <2> QED
    BY <2>1, <2>2, <2>4, <2>5
<1>10. rest \in Seq(Readable) /\ Len(rest) = a
  <2>1. \A i \in 1..a : rest[i] \in Readable
    <3> SUFFICES ASSUME NEW i \in 1..a PROVE rest[i] \in Readable
      BY Zenon
    <3>1. k + i \in 1..m
      BY <1>5, <1>6, <1>7
    <3>2. emitted[k + i] \in EngineOutbound
      BY <1>5, <1>6, <3>1
    <3> QED
      BY <1>8, <3>2, Zenon DEF Readable
  <2> QED
    BY <1>3, <1>7, <2>1
<1>11. PICK decoded : decoded = Taken \o rest
  BY Zenon
<1>12. /\ decoded \in Seq(Readable) /\ Len(decoded) = k + a
       /\ \A i \in 1..k : decoded[i] = Taken[i]
       /\ \A i \in 1..a : decoded[k + i] = rest[i]
  <2>1. /\ Taken \o rest \in Seq(Readable)
        /\ Len(Taken \o rest) = Len(Taken) + Len(rest)
        /\ \A i \in 1..(Len(Taken) + Len(rest)) :
             (Taken \o rest)[i] =
               IF i <= Len(Taken) THEN Taken[i] ELSE rest[i - Len(Taken)]
    BY <1>5, <1>10, ConcatProperties, Zenon
  <2>2. /\ decoded \in Seq(Readable) /\ Len(decoded) = k + a
        /\ \A i \in 1..(k + a) :
             decoded[i] = IF i <= k THEN Taken[i] ELSE rest[i - k]
    BY <1>1, <1>10, <1>11, <2>1, Zenon
  <2>3. ASSUME NEW i \in 1..k PROVE decoded[i] = Taken[i]
    <3>1. i \in 1..(k + a) /\ i <= k
      BY <1>5, <1>7
    <3> QED
      BY <2>2, <3>1, Zenon
  <2>4. ASSUME NEW i \in 1..a PROVE decoded[k + i] = rest[i]
    <3>1. k + i \in 1..(k + a) /\ ~(k + i <= k) /\ (k + i) - k = i
      BY <1>5, <1>7
    <3> QED
      BY <2>2, <3>1, Zenon
  <2> QED
    BY <2>2, <2>3, <2>4, Zenon
<1>13. ASSUME NEW i \in 1..(k + a) PROVE decoded[i] = readable[i]
  <2>1. i \in 1..m
    BY <1>5, <1>6, <1>7
  <2>2. CASE i \in 1..k
    BY <1>1, <1>9, <1>12, <2>1, <2>2, Zenon DEF FlowInv
  <2>3. CASE i \notin 1..k
    <3>1. PICK j \in 1..a : i = k + j
      <4>1. i - k \in 1..a /\ i = k + (i - k)
        BY <1>5, <1>7, <2>3
      <4> QED
        BY <4>1, Zenon
    <3> QED
      BY <1>8, <1>9, <1>12, <2>1, <3>1, Zenon
  <2> QED
    BY <2>2, <2>3, Zenon
<1>14. peer = "open" => decoded = readable
  BY <1>7, <1>9, <1>12, <1>13, SeqEqual, Zenon
<1>15. Begins(decoded, readable)
  <2>1. PICK cut : cut = SubSeq(readable, 1, k + a)
    BY Zenon
  <2>2. k + a \in 0..Len(readable)
    BY <1>5, <1>7, <1>9
  <2>3. /\ cut \in Seq(Readable) /\ Len(cut) = k + a
        /\ \A i \in 1..(k + a) : cut[i] = readable[i]
    BY <1>9, <2>1, <2>2
  <2>4. decoded = cut
    BY <1>12, <1>13, <2>3, SeqEqual, Zenon
  <2> QED
    BY <1>12, <2>1, <2>2, <2>4 DEF Begins
<1>16. /\ DOMAIN Arriving = 1..a
       /\ [i \in DOMAIN Arriving |-> ParseOutbound(Arriving[i])] = rest
  BY <1>2, <1>3, Zenon DEF Arriving
<1>17. decoded = handed \o lost \o collected
                   \o [i \in DOMAIN Arriving |-> ParseOutbound(Arriving[i])]
  BY <1>11, <1>16, Zenon DEF Taken
<1> QED
  BY <1>4, <1>14, <1>15, <1>17, Zenon DEF NothingSkippedOrRepeated

FlowsInv == CommandInv /\ EventInv /\ CallInv /\ FlowInv

\* The invariants hold in every state of the client.
THEOREM FlowInvariant == Spec => []FlowsInv
<1>1. Init => FlowsInv
  <2> SUFFICES ASSUME Init PROVE FlowsInv
    BY Zenon
  <2>1. CommandInv
    BY DEF Init, CommandInv, CommandsArrive, Pending
  <2>2. EventInv
    BY DEF Init, EventInv
  <2>3. CallInv
    <3>1. /\ <<>> \in Seq(Readable) /\ Len(<<>>) <= MaxDrain
          /\ FALSE \in BOOLEAN /\ "idle" \in Call
      BY BoundsAssumption DEF Call
    <3> QED
      BY <3>1, Zenon DEF Init, CallInv
  <2>4. Stream = <<>> /\ Taken = <<>> /\ emitted = <<>>
    BY ConcatEmptySeq DEF Init, Stream, Taken
  <2>5. Len(Stream) = 0 /\ Len(Taken) = 0 /\ Len(emitted) = 0
    BY <2>4, Zenon
  <2>6. FlowInv
    BY <2>5 DEF FlowInv
  <2> QED
    BY <2>1, <2>2, <2>3, <2>6, Zenon DEF FlowsInv
<1>2. FlowsInv /\ [Next]_vars => FlowsInv'
  <2> SUFFICES ASSUME FlowsInv, [Next]_vars PROVE FlowsInv'
    BY Zenon
  <2>1. CommandInv /\ EventInv /\ CallInv /\ FlowInv
    BY Zenon DEF FlowsInv
  <2>2. CommandInv' /\ EventInv'
    BY <2>1, CommandStep, EventStep, Zenon
  <2>3. CallInv' /\ FlowInv'
    BY <2>1, <2>2, CallStep, FlowStep, Zenon
  <2> QED
    BY <2>2, <2>3, Zenon DEF FlowsInv
<1> QED
  BY <1>1, <1>2, PTL DEF Spec

\* Across partial reads, time-outs and drains, and up to wherever the
\* connection breaks, the caller is handed every event once and in order
\* (Client::recv, recv_until_timeout and the rx_buf they share), however
\* many events there are and however large `max` is.
THEOREM NothingSkipped == Spec => []NothingSkippedOrRepeated
<1>1. FlowsInv => NothingSkippedOrRepeated
  BY FlowExact, Zenon DEF FlowsInv
<1> QED
  BY <1>1, FlowInvariant, PTL

\* recv_until_timeout drops what it has collected only when the connection
\* is gone: a time-out, and one that races a late event, costs nothing.
THEOREM LossNeedsClose == Spec => []LostOnlyWithConnection
<1>1. FlowsInv => LostOnlyWithConnection
  BY Zenon DEF FlowsInv, CallInv, LostOnlyWithConnection
<1> QED
  BY <1>1, FlowInvariant, PTL

\* The types; with them, that a drain never returns more than `max` events
\* and that no deadline outlives its call (recv_until_timeout).
THEOREM ClientTypes == Spec => []ClientTypeOK
<1>1. FlowsInv => ClientTypeOK
  <2> SUFFICES ASSUME FlowsInv PROVE ClientTypeOK
    BY Zenon
  <2>1. CommandInv /\ EventInv /\ CallInv
    BY Zenon DEF FlowsInv
  <2>2. Meanings \subseteq Inbound
    BY MeaningInbound, Zenon DEF Meanings
  <2>3. accepted \in Seq(Inbound)
    BY <2>1, <2>2 DEF CommandInv
  <2>4. /\ collected \in Seq(Outbound) /\ handed \in Seq(Outbound)
        /\ lost \in Seq(Outbound)
    BY <2>1, ReadableOutbound DEF CallInv
  <2> QED
    BY <2>1, <2>3, <2>4, Zenon
       DEF CommandInv, CommandFrame, EventInv, CallInv, ClientTypeOK
<1> QED
  BY <1>1, FlowInvariant, PTL

=============================================================================
