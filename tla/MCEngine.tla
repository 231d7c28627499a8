------------------------------ MODULE MCEngine ------------------------------
(* The engine pipeline on a small instance.                                *)
EXTENDS Engine

\* Orders 1 and 2 belong to account "a", order 3 to account "b".
Owner(id) == IF id = 3 THEN "b" ELSE "a"

Orders(ids, limits, qtys, tifs) ==
  {t \in [origin : {"new"}, id : ids, account : Account, side : Side,
          limit : limits, qty : qtys, tif : tifs] : t.account = Owner(t.id)}

MCNewOrders ==
  Orders({1, 3}, Price, Qty, {"Gtc"})
  \cup Orders({2}, Price, {1}, {"Gtc", "PostOnly"})
  \cup Orders({3}, {NoPrice}, {2}, {"Ioc", "Gtc"})

\* One order of each account, a market order, and orders of account "b"
\* under the id of account "a".
MCReusedNewOrders ==
  Orders({1, 3}, Price, Qty, {"Gtc"})
  \cup Orders({3}, {NoPrice}, {2}, {"Ioc"})
  \cup [origin : {"new"}, id : {1}, account : {"b"}, side : Side,
        limit : Price, qty : {2}, tif : {"Gtc"}]

=============================================================================
