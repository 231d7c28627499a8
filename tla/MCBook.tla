------------------------------- MODULE MCBook -------------------------------
(* The matching core on a small instance.                                  *)
EXTENDS Book, TLC

AccountSymmetry == Permutations(Account)

\* Limit orders of every shape, PostOnly ones of one lot under id 2, and Ioc takers
\* (market ones among them) that reuse the last id, resting or not.
MCNewOrders ==
  [origin : {"new"}, id : OrderId, account : Account, side : Side,
   limit : Price, qty : Qty, tif : {"Gtc"}]
  \cup
  [origin : {"new"}, id : {2}, account : Account, side : Side,
   limit : Price, qty : {1}, tif : {"PostOnly"}]
  \cup
  [origin : {"new"}, id : {Max(OrderId)}, account : Account, side : Side,
   limit : Limit, qty : Qty, tif : {"Ioc"}]

=============================================================================
