-------------------------------- MODULE Risk --------------------------------
(***************************************************************************)
(* The risk state and its checks: crates/risk/src/state.rs.                *)
(*                                                                         *)
(* RiskState is a kill switch, the last traded price and one AccountState  *)
(* per account.  An account without a map entry behaves as one with both   *)
(* counters at zero, so the map is a total function here and pruning its   *)
(* zero entries is no step.  Verdicts are "ok" or a RejectReason.          *)
(*                                                                         *)
(* As in Book, a definition directly before another one and named for what *)
(* it gets wrong is a faulty variant, not part of the specification.       *)
(***************************************************************************)
EXTENDS Integers

CONSTANTS
  MaxOpenOrders,   \* MAX_OPEN_ORDERS_PER_ACCT
  MaxNotional,     \* MAX_NOTIONAL_PER_ACCT
  PriceBandBps     \* PRICE_BAND_BPS

ASSUME MaxOpenOrdersAssumption == MaxOpenOrders \in Nat \ {0}
ASSUME MaxNotionalAssumption == MaxNotional \in Nat
ASSUME PriceBandAssumption == PriceBandBps \in Nat

AccountState == [open : Nat, notional : Nat]

NoAccountState == [open |-> 0, notional |-> 0]

NotionalOf(price, qty) == price * qty

WrappingSub(m, n) == m - n

SaturatingSub(m, n) == IF m > n THEN m - n ELSE 0

\* check_account_limits, and the same test again in on_order_resting.
LimitVerdict(st, notional) ==
  IF st.open + 1 > MaxOpenOrders THEN "MaxOpenOrders"
  ELSE IF st.notional + notional > MaxNotional THEN "MaxNotional"
  ELSE "ok"

\* on_order_resting when its verdict is "ok".
Rested(st, notional) ==
  [open |-> st.open + 1, notional |-> st.notional + notional]

\* on_order_removed.
RemovedNotionalOnly(st, notional) ==
  [st EXCEPT !.notional = SaturatingSub(@, notional)]

RemovedCountOnly(st, notional) == [st EXCEPT !.open = SaturatingSub(@, 1)]

Removed(st, notional) ==
  [open |-> SaturatingSub(st.open, 1),
   notional |-> SaturatingSub(st.notional, notional)]

\* on_order_removed called once for each of n orders.
RemovedAll(st, n, notional) ==
  [open |-> SaturatingSub(st.open, n),
   notional |-> SaturatingSub(st.notional, notional)]

Distance(m, n) == IF m > n THEN m - n ELSE n - m

\* check_price_band: no reference before the first trade.
InBand(price, last) ==
  last = 0 \/ Distance(price, last) * 10000 <= last * PriceBandBps

CheckNewOrderNoLimits(kill, st, last, limit, best, qty) ==
  IF kill THEN "KillSwitched"
  ELSE IF limit = 0 /\ best = 0 THEN "MarketOrderInEmptyBook"
  ELSE "ok"

\* check_new_order.  best is the best opposite price, 0 when there is none;
\* it stands in for the limit of a market order.
CheckNewOrder(kill, st, last, limit, best, qty) ==
  LET effective == IF limit = 0 THEN best ELSE limit
  IN IF kill THEN "KillSwitched"
     ELSE IF effective = 0 THEN "MarketOrderInEmptyBook"
     ELSE IF ~InBand(effective, last) THEN "PriceBand"
     ELSE LimitVerdict(st, NotionalOf(effective, qty))

CheckCancelReplaceNoKill(kill, last, price, qty) ==
  IF ~InBand(price, last) THEN "PriceBand"
  ELSE IF NotionalOf(price, qty) > MaxNotional THEN "MaxNotional"
  ELSE "ok"

\* check_cancel_replace looks at the new order alone; the account's total is
\* checked only once the residual is known.
CheckCancelReplace(kill, last, price, qty) ==
  IF kill THEN "KillSwitched"
  ELSE IF ~InBand(price, last) THEN "PriceBand"
  ELSE IF NotionalOf(price, qty) > MaxNotional THEN "MaxNotional"
  ELSE "ok"

=============================================================================
