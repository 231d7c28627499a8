-------------------------------- MODULE Wire --------------------------------
(***************************************************************************)
(* The codec of crates/wire: one encoder and one decoder per message, and  *)
(* the dispatch on the frame's kind.  A payload is the record of the raw   *)
(* fields its packed struct lays out, with its size in bytes and `pad`,    *)
(* which is 0 when every reserved byte is.  A decoder yields a message or  *)
(* an error, and checks in the order of the code: size, padding, fields.   *)
(*                                                                         *)
(* A definition named Faulty... is a distorted version of the one after    *)
(* it; no specification uses it.                                           *)
(***************************************************************************)
EXTENDS Domain, Sequences

WireError ==
  [error : {"PayloadSize", "UnknownKind", "NonZeroPad", "InvalidEnumValue",
            "InconsistentPayload", "Domain"}]

Error(e) == [error |-> e]

IsError(r) == "error" \in DOMAIN r

MessageKind ==
  [NewOrder |-> 1, CancelOrder |-> 2, CancelReplace |-> 3, MassCancel |-> 4,
   KillSwitchSet |-> 5, SnapshotRequest |-> 6, ExecReport |-> 101,
   TradePrint |-> 102, BookUpdateTop |-> 103, BookUpdateL2Delta |-> 104,
   SnapshotResponse |-> 105]

\* size_of each packed struct
Size ==
  [NewOrder |-> 40, CancelOrder |-> 24, CancelReplace |-> 40,
   MassCancel |-> 16, KillSwitchSet |-> 24, SnapshotRequest |-> 16,
   ExecReport |-> 64, TradePrint |-> 48, BookUpdateTop |-> 48,
   BookUpdateL2Delta |-> 40]

\* The checks every fixed-size decoder makes before it yields msg.
Decoded(kind, w, valid, msg) ==
  IF w.size # Size[kind] THEN Error("PayloadSize")
  ELSE IF w.pad # 0 THEN Error("NonZeroPad")
  ELSE IF ~valid THEN Error("Domain")
  ELSE msg

\* An absent value travels as 0, which no present one does.
OrZero(v) == IF v = None THEN 0 ELSE v

OrNone(raw) == IF raw = 0 THEN None ELSE raw

OrZeroCode(enum, v) == IF v = None THEN 0 ELSE enum[v]

OrNoneVariant(enum, raw) == IF raw = 0 THEN None ELSE FromU8(enum, raw)

-----------------------------------------------------------------------------
(* Inbound messages.                                                       *)

NewOrderWire ==
  [size : Nat, pad : U8, client_ts : U64, order_id : U64, account_id : U32,
   side : U8, order_type : U8, tif : U8, price : I64, qty : U64]

NewOrder ==
  [kind : {"NewOrder"}, client_ts : ClientTs, order_id : OrderId,
   account_id : AccountId, side : Variants(Side),
   order_type : Variants(OrderType), tif : Variants(Tif),
   price : Price \cup {None}, qty : Qty]

FaultyEncodeNewOrder(m) ==     \* an absent price becomes Price::MIN
  [size |-> Size.NewOrder, pad |-> 0, client_ts |-> AsU64(m.client_ts),
   order_id |-> m.order_id, account_id |-> m.account_id,
   side |-> Side[m.side], order_type |-> OrderType[m.order_type],
   tif |-> Tif[m.tif], qty |-> m.qty,
   price |-> IF m.price = None THEN TickSize ELSE m.price]
EncodeNewOrder(m) ==
  [size |-> Size.NewOrder, pad |-> 0, client_ts |-> AsU64(m.client_ts),
   order_id |-> m.order_id, account_id |-> m.account_id,
   side |-> Side[m.side], order_type |-> OrderType[m.order_type],
   tif |-> Tif[m.tif], price |-> OrZero(m.price), qty |-> m.qty]

ParseNewOrder(w) ==
  Decoded("NewOrder", w,
    /\ w.order_id \in OrderId
    /\ w.account_id \in AccountId
    /\ w.side \in Codes(Side)
    /\ w.order_type \in Codes(OrderType)
    /\ w.tif \in Codes(Tif)
    /\ w.qty \in Qty
    /\ w.order_type = OrderType.Limit => w.price \in Price,
    [kind |-> "NewOrder", client_ts |-> AsI64(w.client_ts),
     order_id |-> w.order_id, account_id |-> w.account_id,
     side |-> FromU8(Side, w.side),
     order_type |-> FromU8(OrderType, w.order_type),
     tif |-> FromU8(Tif, w.tif),
     price |-> IF w.order_type = OrderType.Market THEN None ELSE w.price,
     qty |-> w.qty])

CancelOrderWire ==
  [size : Nat, pad : U32, client_ts : U64, order_id : U64, account_id : U32]

CancelOrder ==
  [kind : {"CancelOrder"}, client_ts : ClientTs, order_id : OrderId,
   account_id : AccountId]

EncodeCancelOrder(m) ==
  [size |-> Size.CancelOrder, pad |-> 0, client_ts |-> AsU64(m.client_ts),
   order_id |-> m.order_id, account_id |-> m.account_id]

ParseCancelOrder(w) ==
  Decoded("CancelOrder", w,
    w.order_id \in OrderId /\ w.account_id \in AccountId,
    [kind |-> "CancelOrder", client_ts |-> AsI64(w.client_ts),
     order_id |-> w.order_id, account_id |-> w.account_id])

CancelReplaceWire ==
  [size : Nat, pad : U32, client_ts : U64, order_id : U64, account_id : U32,
   new_price : I64, new_qty : U64]

CancelReplace ==
  [kind : {"CancelReplace"}, client_ts : ClientTs, order_id : OrderId,
   account_id : AccountId, new_price : Price, new_qty : Qty]

EncodeCancelReplace(m) ==
  [size |-> Size.CancelReplace, pad |-> 0, client_ts |-> AsU64(m.client_ts),
   order_id |-> m.order_id, account_id |-> m.account_id,
   new_price |-> m.new_price, new_qty |-> m.new_qty]

ParseCancelReplace(w) ==
  Decoded("CancelReplace", w,
    /\ w.order_id \in OrderId
    /\ w.account_id \in AccountId
    /\ w.new_price \in Price
    /\ w.new_qty \in Qty,
    [kind |-> "CancelReplace", client_ts |-> AsI64(w.client_ts),
     order_id |-> w.order_id, account_id |-> w.account_id,
     new_price |-> w.new_price, new_qty |-> w.new_qty])

MassCancelWire ==
  [size : Nat, pad : U32, client_ts : U64, account_id : U32]

MassCancel ==
  [kind : {"MassCancel"}, client_ts : ClientTs, account_id : AccountId]

EncodeMassCancel(m) ==
  [size |-> Size.MassCancel, pad |-> 0, client_ts |-> AsU64(m.client_ts),
   account_id |-> m.account_id]

ParseMassCancel(w) ==
  Decoded("MassCancel", w, w.account_id \in AccountId,
    [kind |-> "MassCancel", client_ts |-> AsI64(w.client_ts),
     account_id |-> w.account_id])

KillSwitchSetWire ==
  [size : Nat, pad : U8, client_ts : U64, admin_token : U64, state : U8]

KillSwitchSet ==
  [kind : {"KillSwitchSet"}, client_ts : ClientTs, admin_token : U64,
   state : Variants(KillSwitchState)]

EncodeKillSwitchSet(m) ==
  [size |-> Size.KillSwitchSet, pad |-> 0, client_ts |-> AsU64(m.client_ts),
   admin_token |-> m.admin_token, state |-> KillSwitchState[m.state]]

\* An unknown state is InvalidEnumValue, not Domain.
ParseKillSwitchSet(w) ==
  LET m == Decoded("KillSwitchSet", w, TRUE,
             [kind |-> "KillSwitchSet", client_ts |-> AsI64(w.client_ts),
              admin_token |-> w.admin_token,
              state |-> FromU8(KillSwitchState, w.state)])
  IN IF IsError(m) \/ w.state \in Codes(KillSwitchState) THEN m
     ELSE Error("InvalidEnumValue")

SnapshotRequestWire ==
  [size : Nat, pad : U8, request_id : U64]

SnapshotRequest == [kind : {"SnapshotRequest"}, request_id : U64]

EncodeSnapshotRequest(m) ==
  [size |-> Size.SnapshotRequest, pad |-> 0, request_id |-> m.request_id]

ParseSnapshotRequest(w) ==
  Decoded("SnapshotRequest", w, TRUE,
    [kind |-> "SnapshotRequest", request_id |-> w.request_id])

-----------------------------------------------------------------------------
(* Outbound messages.                                                      *)

ExecReportWire ==
  [size : Nat, pad : U8, engine_seq : U64, order_id : U64, account_id : U32,
   state : U8, reject_reason : U8, cancel_reason : U8, fill_price : I64,
   fill_qty : U64, leaves_qty : U64, recv_ts : U64, emit_ts : U64]

ExecReport ==
  [kind : {"ExecReport"}, engine_seq : EngineSeq, order_id : OrderId,
   account_id : AccountId, state : Variants(ExecState),
   fill_price : Price \cup {None}, fill_qty : Qty \cup {None},
   leaves_qty : Qty \cup {None},
   reject_reason : Variants(RejectReason) \cup {None},
   cancel_reason : Variants(CancelReason) \cup {None},
   recv_ts : RecvTs, emit_ts : RecvTs]

\* The optional fields each state requires; the others must be absent.
Carries ==
  [Accepted        |-> {"leaves_qty"},
   Rejected        |-> {"reject_reason"},
   PartiallyFilled |-> {"fill_price", "fill_qty", "leaves_qty"},
   Filled          |-> {"fill_price", "fill_qty"},
   Cancelled       |-> {"cancel_reason"},
   Replaced        |-> {"cancel_reason"}]

OptionalFields ==
  {"fill_price", "fill_qty", "leaves_qty", "reject_reason", "cancel_reason"}

Present(m) == {f \in OptionalFields : m[f] # None}

\* validate_coherent
Coherent(m) == Present(m) = Carries[m.state]

\* The fill travels only as a pair.
HasFill(m) ==
  /\ m.state \in {"PartiallyFilled", "Filled"}
  /\ m.fill_price # None
  /\ m.fill_qty # None

FaultyEncodeExecReport(m) ==     \* Replaced forgets its reason
  [size |-> Size.ExecReport, pad |-> 0, engine_seq |-> m.engine_seq,
   order_id |-> m.order_id, account_id |-> m.account_id,
   state |-> ExecState[m.state],
   reject_reason |-> IF m.state = "Rejected"
                     THEN OrZeroCode(RejectReason, m.reject_reason) ELSE 0,
   cancel_reason |-> IF m.state = "Cancelled"
                     THEN OrZeroCode(CancelReason, m.cancel_reason) ELSE 0,
   fill_price |-> IF HasFill(m) THEN m.fill_price ELSE 0,
   fill_qty |-> IF HasFill(m) THEN m.fill_qty ELSE 0,
   leaves_qty |-> IF m.state \in {"Accepted", "PartiallyFilled"}
                  THEN OrZero(m.leaves_qty) ELSE 0,
   recv_ts |-> AsU64(m.recv_ts), emit_ts |-> AsU64(m.emit_ts)]
EncodeExecReport(m) ==
  [size |-> Size.ExecReport, pad |-> 0, engine_seq |-> m.engine_seq,
   order_id |-> m.order_id, account_id |-> m.account_id,
   state |-> ExecState[m.state],
   reject_reason |-> IF m.state = "Rejected"
                     THEN OrZeroCode(RejectReason, m.reject_reason) ELSE 0,
   cancel_reason |-> IF m.state \in {"Cancelled", "Replaced"}
                     THEN OrZeroCode(CancelReason, m.cancel_reason) ELSE 0,
   fill_price |-> IF HasFill(m) THEN m.fill_price ELSE 0,
   fill_qty |-> IF HasFill(m) THEN m.fill_qty ELSE 0,
   leaves_qty |-> IF m.state \in {"Accepted", "PartiallyFilled"}
                  THEN OrZero(m.leaves_qty) ELSE 0,
   recv_ts |-> AsU64(m.recv_ts), emit_ts |-> AsU64(m.emit_ts)]

ParseExecReport(w) ==
  LET m == Decoded("ExecReport", w,
             /\ w.state \in Codes(ExecState)
             /\ w.order_id \in OrderId
             /\ w.account_id \in AccountId
             /\ w.reject_reason \in Codes(RejectReason) \cup {0}
             /\ w.cancel_reason \in Codes(CancelReason) \cup {0}
             /\ w.fill_price \in Price \cup {0}
             /\ w.fill_qty \in Qty \cup {0}
             /\ w.leaves_qty \in Qty \cup {0},
             [kind |-> "ExecReport", engine_seq |-> w.engine_seq,
              order_id |-> w.order_id, account_id |-> w.account_id,
              state |-> FromU8(ExecState, w.state),
              fill_price |-> OrNone(w.fill_price),
              fill_qty |-> OrNone(w.fill_qty),
              leaves_qty |-> OrNone(w.leaves_qty),
              reject_reason |-> OrNoneVariant(RejectReason, w.reject_reason),
              cancel_reason |-> OrNoneVariant(CancelReason, w.cancel_reason),
              recv_ts |-> AsI64(w.recv_ts), emit_ts |-> AsI64(w.emit_ts)])
  IN IF IsError(m) THEN m
     ELSE IF Coherent(m) THEN m ELSE Error("InconsistentPayload")

TradePrintWire ==
  [size : Nat, pad : U8, engine_seq : U64, trade_id : U64, price : I64,
   qty : U64, aggressor_side : U8, emit_ts : U64]

TradePrint ==
  [kind : {"TradePrint"}, engine_seq : EngineSeq, trade_id : TradeId,
   price : Price, qty : Qty, aggressor_side : Variants(Side),
   emit_ts : RecvTs]

EncodeTradePrint(m) ==
  [size |-> Size.TradePrint, pad |-> 0, engine_seq |-> m.engine_seq,
   trade_id |-> m.trade_id, price |-> m.price, qty |-> m.qty,
   aggressor_side |-> Side[m.aggressor_side], emit_ts |-> AsU64(m.emit_ts)]

ParseTradePrint(w) ==
  Decoded("TradePrint", w,
    /\ w.price \in Price
    /\ w.qty \in Qty
    /\ w.aggressor_side \in Codes(Side),
    [kind |-> "TradePrint", engine_seq |-> w.engine_seq,
     trade_id |-> w.trade_id, price |-> w.price, qty |-> w.qty,
     aggressor_side |-> FromU8(Side, w.aggressor_side),
     emit_ts |-> AsI64(w.emit_ts)])

(* A side of the top of the book, or a level of a snapshot. *)
Level == [price : Price, qty : Qty]

ASSUME NoLevelAssumption == None \notin Level

BookUpdateTopWire ==
  [size : Nat, pad : {0}, engine_seq : U64, bid_price : I64, bid_qty : U64,
   ask_price : I64, ask_qty : U64, emit_ts : U64]

BookUpdateTop ==
  [kind : {"BookUpdateTop"}, engine_seq : EngineSeq,
   bid : Level \cup {None}, ask : Level \cup {None}, emit_ts : RecvTs]

EncodeSide(l) == IF l = None THEN [price |-> 0, qty |-> 0] ELSE l

\* decode_side: both numbers or neither
DecodeSide(price, qty) ==
  IF price = 0 /\ qty = 0 THEN None ELSE [price |-> price, qty |-> qty]

HalfEmpty(price, qty) == (price = 0) # (qty = 0)

EncodeBookUpdateTop(m) ==
  [size |-> Size.BookUpdateTop, pad |-> 0, engine_seq |-> m.engine_seq,
   bid_price |-> EncodeSide(m.bid).price, bid_qty |-> EncodeSide(m.bid).qty,
   ask_price |-> EncodeSide(m.ask).price, ask_qty |-> EncodeSide(m.ask).qty,
   emit_ts |-> AsU64(m.emit_ts)]

\* The bid is decoded, and refused, before the ask is looked at.
ParseBookUpdateTop(w) ==
  LET bid == DecodeSide(w.bid_price, w.bid_qty)
      ask == DecodeSide(w.ask_price, w.ask_qty)
  IN IF w.size # Size.BookUpdateTop THEN Error("PayloadSize")
     ELSE IF HalfEmpty(w.bid_price, w.bid_qty)
       THEN Error("InconsistentPayload")
     ELSE IF bid \notin Level \cup {None} THEN Error("Domain")
     ELSE IF HalfEmpty(w.ask_price, w.ask_qty)
       THEN Error("InconsistentPayload")
     ELSE IF ask \notin Level \cup {None} THEN Error("Domain")
     ELSE [kind |-> "BookUpdateTop", engine_seq |-> w.engine_seq,
           bid |-> bid, ask |-> ask, emit_ts |-> AsI64(w.emit_ts)]

BookUpdateL2DeltaWire ==
  [size : Nat, pad : U8, engine_seq : U64, price : I64, new_qty : U64,
   side : U8, emit_ts : U64]

BookUpdateL2Delta ==
  [kind : {"BookUpdateL2Delta"}, engine_seq : EngineSeq, price : Price,
   new_qty : Qty \cup {None}, side : Variants(Side), emit_ts : RecvTs]

EncodeBookUpdateL2Delta(m) ==
  [size |-> Size.BookUpdateL2Delta, pad |-> 0, engine_seq |-> m.engine_seq,
   price |-> m.price, new_qty |-> OrZero(m.new_qty), side |-> Side[m.side],
   emit_ts |-> AsU64(m.emit_ts)]

ParseBookUpdateL2Delta(w) ==
  Decoded("BookUpdateL2Delta", w,
    /\ w.new_qty \in Qty \cup {0}
    /\ w.price \in Price
    /\ w.side \in Codes(Side),
    [kind |-> "BookUpdateL2Delta", engine_seq |-> w.engine_seq,
     price |-> w.price, new_qty |-> OrNone(w.new_qty),
     side |-> FromU8(Side, w.side), emit_ts |-> AsI64(w.emit_ts)])

SnapshotResponse ==
  [kind : {"SnapshotResponse"}, engine_seq : EngineSeq, request_id : U64,
   recv_ts : RecvTs, emit_ts : RecvTs, bids : Seq(Level), asks : Seq(Level)]

HeaderBytes == 40
LevelBytes == 16

\* The levels of both sides follow the header, the bids first.
EncodeSnapshotResponse(m) ==
  [size |-> HeaderBytes + LevelBytes * (Len(m.bids) + Len(m.asks)),
   engine_seq |-> m.engine_seq, request_id |-> m.request_id,
   recv_ts |-> AsU64(m.recv_ts), emit_ts |-> AsU64(m.emit_ts),
   n_bid |-> Len(m.bids), n_ask |-> Len(m.asks),
   levels |-> m.bids \o m.asks]

ParseSnapshotResponse(w) ==
  IF w.size < HeaderBytes THEN Error("PayloadSize")
  ELSE IF w.size # HeaderBytes + LevelBytes * (w.n_bid + w.n_ask)
    THEN Error("PayloadSize")
  ELSE IF \E i \in DOMAIN w.levels : w.levels[i] \notin Level
    THEN Error("Domain")
  ELSE [kind |-> "SnapshotResponse", engine_seq |-> w.engine_seq,
        request_id |-> w.request_id,
        recv_ts |-> AsI64(w.recv_ts), emit_ts |-> AsI64(w.emit_ts),
        bids |-> SubSeq(w.levels, 1, w.n_bid),
        asks |-> SubSeq(w.levels, w.n_bid + 1, w.n_bid + w.n_ask)]

-----------------------------------------------------------------------------
(* Frames.  Each peer writes the kinds of its own direction and reads the  *)
(* other's; a kind of the wrong direction is unknown to parse_frame.       *)

Frame(kind, payload) == [code |-> MessageKind[kind], payload |-> payload]

Inbound ==
  NewOrder \cup CancelOrder \cup CancelReplace \cup MassCancel
    \cup KillSwitchSet \cup SnapshotRequest

Outbound ==
  ExecReport \cup TradePrint \cup BookUpdateTop \cup BookUpdateL2Delta
    \cup SnapshotResponse

\* The client's encoder (Client::send).
EncodeInbound(m) ==
  Frame(m.kind,
    CASE m.kind = "NewOrder"        -> EncodeNewOrder(m)
      [] m.kind = "CancelOrder"     -> EncodeCancelOrder(m)
      [] m.kind = "CancelReplace"   -> EncodeCancelReplace(m)
      [] m.kind = "MassCancel"      -> EncodeMassCancel(m)
      [] m.kind = "KillSwitchSet"   -> EncodeKillSwitchSet(m)
      [] m.kind = "SnapshotRequest" -> EncodeSnapshotRequest(m))

\* inbound::parse_frame
ParseInbound(f) ==
  LET w == f.payload IN
  CASE f.code = MessageKind.NewOrder        -> ParseNewOrder(w)
    [] f.code = MessageKind.CancelOrder     -> ParseCancelOrder(w)
    [] f.code = MessageKind.CancelReplace   -> ParseCancelReplace(w)
    [] f.code = MessageKind.MassCancel      -> ParseMassCancel(w)
    [] f.code = MessageKind.KillSwitchSet   -> ParseKillSwitchSet(w)
    [] f.code = MessageKind.SnapshotRequest -> ParseSnapshotRequest(w)
    [] OTHER                                -> Error("UnknownKind")

\* marketdata::encoder::encode
EncodeOutbound(m) ==
  Frame(m.kind,
    CASE m.kind = "ExecReport"        -> EncodeExecReport(m)
      [] m.kind = "TradePrint"        -> EncodeTradePrint(m)
      [] m.kind = "BookUpdateTop"     -> EncodeBookUpdateTop(m)
      [] m.kind = "BookUpdateL2Delta" -> EncodeBookUpdateL2Delta(m)
      [] m.kind = "SnapshotResponse"  -> EncodeSnapshotResponse(m))

\* outbound::parse_frame
ParseOutbound(f) ==
  LET w == f.payload IN
  CASE f.code = MessageKind.ExecReport        -> ParseExecReport(w)
    [] f.code = MessageKind.TradePrint        -> ParseTradePrint(w)
    [] f.code = MessageKind.BookUpdateTop     -> ParseBookUpdateTop(w)
    [] f.code = MessageKind.BookUpdateL2Delta -> ParseBookUpdateL2Delta(w)
    [] f.code = MessageKind.SnapshotResponse  -> ParseSnapshotResponse(w)
    [] OTHER                                  -> Error("UnknownKind")

-----------------------------------------------------------------------------
(* What the engine emits.  Its emit_ functions fill in the optional fields *)
(* of a report by its state; only Replaced differs from what validate_     *)
(* coherent asks of a report on the wire.                                  *)

EngineReport ==
  {m \in ExecReport :
     /\ Present(m) = IF m.state = "Replaced"
                    THEN {"leaves_qty", "cancel_reason"}
                    ELSE Carries[m.state]
     /\ m.state = "Replaced" => m.cancel_reason = "Replaced"}

EngineOutbound ==
  EngineReport \cup TradePrint \cup BookUpdateTop \cup BookUpdateL2Delta
    \cup SnapshotResponse
-----------------------------------------------------------------------------
(* What survives the way, the reference the codec is checked against.      *)

\* What a client can learn of an event: the event, but for the quantity of
\* a Replaced report, which has no place on the wire.
AsRead(m) ==
  IF m.kind = "ExecReport" /\ m.state = "Replaced"
  THEN [m EXCEPT !.leaves_qty = None] ELSE m

\* What a command means to the engine: a market order has no price.
AsAccepted(m) ==
  IF m.kind = "NewOrder" /\ m.order_type = "Market"
  THEN [m EXCEPT !.price = None] ELSE m

WellFormed(m) ==
  m.kind = "NewOrder" /\ m.order_type = "Limit" => m.price # None

=============================================================================
