------------------------------ MODULE MCClient ------------------------------
(***************************************************************************)
(* A small instance of Client: every command and every event the engine    *)
(* builds, with the field values at which the codec changes its mind: the  *)
(* signs of a timestamp, the presence of an optional field, the ends of an *)
(* enum, empty and uneven sides of a snapshot.                             *)
(***************************************************************************)
EXTENDS Client

Order(type, price, ts) ==
  [kind |-> "NewOrder", client_ts |-> ts, order_id |-> 1, account_id |-> 1,
   side |-> "Ask", order_type |-> type, tif |-> "PostOnly", price |-> price,
   qty |-> 2]

MCCommands ==
  {Order("Limit", 1, -1), Order("Limit", None, 0), Order("Market", 1, 1),
   [kind |-> "CancelOrder", client_ts |-> -2, order_id |-> 3,
    account_id |-> 1],
   [kind |-> "CancelReplace", client_ts |-> 1, order_id |-> 3,
    account_id |-> 1, new_price |-> 1, new_qty |-> 3],
   [kind |-> "MassCancel", client_ts |-> 0, account_id |-> 1],
   [kind |-> "SnapshotRequest", request_id |-> 3]}
    \cup [kind : {"KillSwitchSet"}, client_ts : {-1}, admin_token : {2},
          state : Variants(KillSwitchState)]

Report(state) ==
  [kind |-> "ExecReport", engine_seq |-> 0, order_id |-> 3, account_id |-> 1,
   state |-> state, fill_price |-> None, fill_qty |-> None,
   leaves_qty |-> None, reject_reason |-> None, cancel_reason |-> None,
   recv_ts |-> -1, emit_ts |-> 1]

MCReports ==
  {[Report("Accepted") EXCEPT !.leaves_qty = 3],
   [Report("PartiallyFilled") EXCEPT !.fill_price = 1, !.fill_qty = 2,
                                     !.leaves_qty = 1],
   [Report("Filled") EXCEPT !.fill_price = 1, !.fill_qty = 3],
   [Report("Replaced") EXCEPT !.leaves_qty = 2, !.cancel_reason = "Replaced"]}
    \cup {[Report("Rejected") EXCEPT !.reject_reason = r] :
            r \in {"KillSwitched", "MalformedMessage"}}
    \cup {[Report("Cancelled") EXCEPT !.cancel_reason = r] :
            r \in {"UserRequested", "SelfTradePrevented"}}

L(qty) == [price |-> 1, qty |-> qty]

MCMarketData ==
  {[kind |-> "TradePrint", engine_seq |-> 0, trade_id |-> 1, price |-> 1,
    qty |-> 3, aggressor_side |-> "Bid", emit_ts |-> -2]}
    \cup [kind : {"BookUpdateTop"}, engine_seq : {0}, bid : {None, L(1)},
          ask : {None, L(3)}, emit_ts : {-1}]
    \cup [kind : {"BookUpdateL2Delta"}, engine_seq : {0}, price : {1},
          new_qty : {None, 2}, side : {"Ask"}, emit_ts : {1}]
    \cup [kind : {"SnapshotResponse"}, engine_seq : {0}, request_id : {3},
          recv_ts : {-2}, emit_ts : {0}, bids : {<<>>, <<L(1), L(2)>>},
          asks : {<<L(3)>>}]

MCEvents == MCReports \cup MCMarketData

=============================================================================
