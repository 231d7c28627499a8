------------------------------- MODULE Engine -------------------------------
(***************************************************************************)
(* The engine pipeline: crates/engine/src/engine.rs.  One thread takes an  *)
(* inbound command, checks it against the risk state, runs it through the  *)
(* book, reports the outcome and then publishes the change of the book.    *)
(*                                                                         *)
(* Engine::step is cut where it loops: a command that reaches the matching *)
(* walk goes from "ready" to "handler", takes one step per maker (module   *)
(* Book), one per reported fill, one for the disposition of the taker, and *)
(* stage "tail" publishes the book change.  A command without a walk does  *)
(* its whole handler in one step.  Only stage "ready" accepts a command.   *)
(*                                                                         *)
(* Outbound messages are modelled by what a subscriber that reads all of   *)
(* them makes of them: view, mirror and top.                               *)
(*                                                                         *)
(* As in Book, a definition directly before another one and named for what *)
(* it gets wrong is a faulty variant, not part of the specification.       *)
(***************************************************************************)
EXTENDS Book, Risk

CONSTANT UniqueIds   \* do clients keep live order ids unique?

ASSUME UniqueIdsAssumption == UniqueIds \in BOOLEAN

VARIABLES
  registry,     \* order id to OrderRegistryEntry
  perAccount,   \* RiskState.per_account
  killSwitch,   \* RiskState.kill_switch
  lastTrade,    \* RiskState.last_trade_price, NoPrice before the first fill
  stage,        \* "ready", "handler", "tail"
  reported,     \* fills of fills_buf already reported
  leaves,       \* taker_remaining_lots of emit_fills_for_taker
  pre,          \* pre_step_levels
  lastReport,   \* the last ExecReport state of this step's own order
  view,         \* leaves_qty per order, as ExecReports tell it
  mirror,       \* level totals, as L2 deltas and snapshots tell it
  top           \* the last BookUpdateTop

riskVars == <<perAccount, killSwitch, lastTrade>>
stepVars == <<stage, reported, leaves, pre, lastReport>>
subscriberVars == <<view, mirror, top>>
engineVars == <<registry, riskVars, stepVars, subscriberVars>>
allVars == <<vars, engineVars>>

RegistryEntry == [account : Account, side : Side, qty : Lots, notional : Nat]

ASSUME EntryAssumption == None \notin RegistryEntry

-----------------------------------------------------------------------------
(* Aggregates the engine reads from the book.                              *)

BestPriceLowest(s) ==
  IF prices[s] = {} THEN NoPrice
  ELSE CHOOSE p \in prices[s] : \A q \in prices[s] : p <= q

BestPrice(s) ==
  IF prices[s] = {} THEN NoPrice ELSE CHOOSE p \in prices[s] : IsBest(s, p)

LevelTotal == [side : Side, price : Price, qty : Nat]

\* The order of the keys (Side as u8, price) the merge compares.
Before(k, l) == IF k.side = l.side THEN k.price < l.price ELSE k.side = "Bid"

NoLevels == <<>>

\* capture_levels_into: the bids, then the asks, each by ascending price.
Levels ==
  LET Captured(s, p) == [side |-> s, price |-> p, qty |-> Total(Level(s, p))]
      Ascending(s) ==
        MapThenFoldSet(LAMBDA l, below : Append(below, l), NoLevels,
                       LAMBDA p : Captured(s, p), Max, prices[s])
  IN Ascending("Bid") \o Ascending("Ask")

DeltasStopEarly(before, after) ==
  LET merge[at \in (1..(Len(before) + 1)) \X (1..(Len(after) + 1))] ==
        LET i == at[1]
            j == at[2]
        IN IF i > Len(before) \/ j > Len(after)
             THEN SubSeq(after, j, Len(after))
           ELSE IF Before(before[i], after[j])
             THEN <<[before[i] EXCEPT !.qty = 0]>> \o merge[<<i + 1, j>>]
           ELSE IF Before(after[j], before[i])
             THEN <<after[j]>> \o merge[<<i, j + 1>>]
           ELSE IF before[i].qty = after[j].qty THEN merge[<<i + 1, j + 1>>]
           ELSE <<after[j]>> \o merge[<<i + 1, j + 1>>]
  IN merge[<<1, 1>>]

\* emit_l2_deltas: the merge of two sorted captures, with a cursor in each.
\* A level only in the first is gone (total 0), one only in the second is new.
Deltas(before, after) ==
  LET merge[at \in (1..(Len(before) + 1)) \X (1..(Len(after) + 1))] ==
        LET i == at[1]
            j == at[2]
        IN IF i > Len(before) THEN SubSeq(after, j, Len(after))
           ELSE IF j > Len(after) \/ Before(before[i], after[j])
             THEN <<[before[i] EXCEPT !.qty = 0]>> \o merge[<<i + 1, j>>]
           ELSE IF Before(after[j], before[i])
             THEN <<after[j]>> \o merge[<<i, j + 1>>]
           ELSE IF before[i].qty = after[j].qty THEN merge[<<i + 1, j + 1>>]
           ELSE <<after[j]>> \o merge[<<i + 1, j + 1>>]
  IN merge[<<1, 1>>]

\* What BookUpdateTop says of a side: best price with the side's total.
TopOf(s) == [price |-> BestPrice(s),
             qty |-> Total({r \in resting : r.side = s})]

\* The levels of a SnapshotResponse, as totals over all prices.
SnapshotLevels ==
  [s \in Side |-> [p \in Price |-> IF p \in prices[s] THEN Total(Level(s, p))
                                   ELSE 0]]

-----------------------------------------------------------------------------
(* Pieces of the handlers.                                                 *)

\* step captures the levels and calls a handler that works in one go.
OneShot ==
  /\ stage' = "tail"
  /\ pre' = Levels
  /\ UNCHANGED <<reported, leaves>>

\* step captures the levels and calls a handler that starts the walk.
BeginWalk(qty) ==
  /\ stage' = "handler"
  /\ pre' = Levels
  /\ reported' = 0
  /\ leaves' = qty
  /\ UNCHANGED lastReport

\* The handler returns after disposing of the walk's taker.
EndWalk ==
  /\ stage' = "tail"
  /\ reported' = 0
  /\ leaves' = 0
  /\ UNCHANGED pre

\* emit_exec_report_accepted: the quantity that came to rest.
ReportAccepted(id, qty) ==
  /\ view' = [view EXCEPT ![id] = qty]
  /\ lastReport' = "Accepted"

\* emit_exec_report_cancelled for each of these orders.
ReportCancelled(ids) ==
  /\ view' = [i \in OrderId |-> IF i \in ids THEN 0 ELSE view[i]]
  /\ lastReport' = IF ids = {} THEN lastReport ELSE "Cancelled"

\* emit_exec_report_replaced: the order stands at its new quantity.
ReportReplaced(id, qty) ==
  /\ view' = [view EXCEPT ![id] = qty]
  /\ lastReport' = "Replaced"

\* The two emit_exec_report_fill of a fill, the maker's first.
ReportFilled(maker, makerLeft, id, left) ==
  /\ view' = [view EXCEPT ![maker] = makerLeft, ![id] = left]
  /\ lastReport' = IF left = 0 THEN "Filled" ELSE "PartiallyFilled"

\* A reader of reports takes Rejected as the end of an order this step has
\* already reported on, and otherwise as the refusal of a request.
ReportRejected(id) ==
  /\ view' = IF lastReport = "None" THEN view ELSE [view EXCEPT ![id] = 0]
  /\ lastReport' = "Rejected"

RejectCommand ==
  /\ OneShot
  /\ lastReport' = "Rejected"
  /\ UNCHANGED <<vars, registry, riskVars, subscriberVars>>

ForgetNoRefund(a, ids) ==
  /\ registry' = [i \in OrderId |-> IF i \in ids THEN None ELSE registry[i]]
  /\ UNCHANGED perAccount

\* registry.remove and on_order_removed for a set of one account's orders.
Forget(a, ids) ==
  /\ registry' = [i \in OrderId |-> IF i \in ids THEN None ELSE registry[i]]
  /\ perAccount' = [perAccount EXCEPT ![a] =
       RemovedAll(@, Cardinality(ids),
                  MapThenSumSet(LAMBDA i : registry[i].notional, ids))]

\* registry.insert and on_order_resting.
Register(a, id, side, price, qty, st) ==
  /\ registry' = [registry EXCEPT ![id] =
       [account |-> a, side |-> side, qty |-> qty,
        notional |-> NotionalOf(price, qty)]]
  /\ perAccount' = [perAccount EXCEPT ![a] = Rested(st, NotionalOf(price, qty))]

-----------------------------------------------------------------------------
(* NewOrder.                                                               *)

NewOrderVerdict(t) ==
  LET risk == CheckNewOrder(killSwitch, perAccount[t.account], lastTrade,
                            t.limit, BestPrice(Opposite(t.side)), t.qty)
  IN IF risk # "ok" THEN risk
     ELSE IF t.tif = "PostOnly" /\ WouldCross(t.side, t.limit)
            THEN "PostOnlyWouldCross"
     ELSE "ok"

FreshId(t) == UniqueIds => index[t.id] = None

RejectNewOrder(t) ==
  /\ stage = "ready"
  /\ FreshId(t)
  /\ NewOrderVerdict(t) # "ok"
  /\ RejectCommand

NewOrder(t) ==
  /\ stage = "ready"
  /\ FreshId(t)
  /\ NewOrderVerdict(t) = "ok"
  /\ MatchAggressive(t)
  /\ BeginWalk(t.qty)
  /\ UNCHANGED <<registry, riskVars, subscriberVars>>

-----------------------------------------------------------------------------
(* The walk and its reports, shared by NewOrder and CancelReplace.         *)

MatchOne ==
  /\ stage = "handler"
  /\ FillHead \/ StpHead
  /\ UNCHANGED engineVars

\* When replace returns, its handler refunds the old order and acknowledges
\* the new one before it reports any fill.
AcknowledgeReplace ==
  /\ Forget(taker.account, {taker.id})
  /\ ReportReplaced(taker.id, taker.qty)

MatchReturns ==
  /\ stage = "handler"
  /\ WalkEnd \/ SnapshotFails
  /\ IF taker.origin = "replace"
       THEN AcknowledgeReplace
       ELSE UNCHANGED <<registry, perAccount, view, lastReport>>
  /\ UNCHANGED <<killSwitch, lastTrade, stage, reported, leaves, pre,
                 mirror, top>>

\* leaves_qty of the maker's report for fill f, from its registry entry e.
MakerLeavesBefore(e, f) == IF f.full THEN 0 ELSE e.qty

MakerLeaves(e, f) == IF f.full THEN 0 ELSE SaturatingSub(e.qty, f.qty)

\* The notional a fill frees.
Consumed(e, f) == IF f.full THEN e.notional ELSE NotionalOf(f.price, f.qty)

\* The maker's registry entry once the fill is booked.
EntryKeepsQty(e, f) ==
  IF f.full THEN None
  ELSE [e EXCEPT !.notional = SaturatingSub(@, Consumed(e, f))]

EntryAfter(e, f) ==
  IF f.full THEN None
  ELSE [e EXCEPT !.qty = SaturatingSub(@, f.qty),
                 !.notional = SaturatingSub(@, Consumed(e, f))]

\* One round of emit_fills_for_taker.  A partly filled maker keeps its
\* registry entry, but on_order_removed is called for it all the same.
ReportFill ==
  /\ stage = "handler"
  /\ phase = "done"
  /\ reported < Len(fills)
  /\ LET f == fills[reported + 1]
         e == registry[f.maker]
         left == SaturatingSub(leaves, f.qty)
     IN /\ e # None
        /\ reported' = reported + 1
        /\ leaves' = left
        /\ ReportFilled(f.maker, MakerLeaves(e, f), taker.id, left)
        /\ lastTrade' = f.price
        /\ registry' = [registry EXCEPT ![f.maker] = EntryAfter(e, f)]
        /\ perAccount' = [perAccount EXCEPT ![e.account] =
                            Removed(@, Consumed(e, f))]
  /\ UNCHANGED <<vars, killSwitch, stage, pre, mirror, top>>

AllReported ==
  /\ stage = "handler"
  /\ phase = "done"
  /\ reported = Len(fills)

\* emit_stp_cancels, then the taker's own SelfTradePrevented.
DisposeStp ==
  /\ AllReported
  /\ stp # None
  /\ DropResult
  /\ Forget(taker.account, {stp})
  /\ ReportCancelled({stp, taker.id})
  /\ EndWalk
  /\ UNCHANGED <<killSwitch, lastTrade, mirror, top>>

DisposeFilled ==
  /\ AllReported
  /\ stp = None
  /\ remaining = 0
  /\ DropResult
  /\ EndWalk
  /\ UNCHANGED <<registry, riskVars, lastReport, subscriberVars>>

Residual(origin) ==
  /\ AllReported
  /\ stp = None
  /\ remaining > 0
  /\ taker.origin = origin

MayRest == taker.tif # "Ioc" /\ taker.limit # NoPrice

ResidualVerdict ==
  LimitVerdict(perAccount[taker.account], NotionalOf(taker.limit, remaining))

CancelTakerRests ==
  /\ Residual("new")
  /\ ~MayRest
  /\ AddResidual
  /\ Release
  /\ ReportCancelled({taker.id})
  /\ EndWalk
  /\ UNCHANGED <<registry, riskVars, mirror, top>>

CancelTaker ==
  /\ Residual("new")
  /\ ~MayRest
  /\ DropResult
  /\ ReportCancelled({taker.id})
  /\ EndWalk
  /\ UNCHANGED <<registry, riskVars, mirror, top>>

RestTaker ==
  /\ Residual("new")
  /\ MayRest
  /\ ResidualVerdict = "ok"
  /\ RestResidual
  /\ Register(taker.account, taker.id, taker.side, taker.limit, remaining,
              perAccount[taker.account])
  /\ ReportAccepted(taker.id, remaining)
  /\ EndWalk
  /\ UNCHANGED <<killSwitch, lastTrade, mirror, top>>

\* The account of a residual whose id add_resting found taken: what
\* on_order_resting added is taken off again.
RefusedKept(st, notional) == Rested(st, notional)

RefusedRefunded(st, notional) == Removed(Rested(st, notional), notional)

\* on_order_resting refuses the residual, or add_resting does.
RefuseResidual ==
  /\ Residual("new")
  /\ MayRest
  /\ ResidualVerdict # "ok" \/ index[taker.id] # None
  /\ DropResult
  /\ perAccount' = [perAccount EXCEPT ![taker.account] =
       IF ResidualVerdict # "ok" THEN @
       ELSE RefusedRefunded(@, NotionalOf(taker.limit, remaining))]
  /\ ReportRejected(taker.id)
  /\ EndWalk
  /\ UNCHANGED <<registry, killSwitch, lastTrade, mirror, top>>

\* The residual of a replace already rests; the handler books it or, when
\* the account cannot carry it, cancels it and reports Rejected.
RegisterReplaced ==
  /\ Residual("replace")
  /\ ResidualVerdict = "ok"
  /\ DropResult
  /\ Register(taker.account, taker.id, taker.side, taker.limit, remaining,
              perAccount[taker.account])
  /\ EndWalk
  /\ UNCHANGED <<killSwitch, lastTrade, lastReport, subscriberVars>>

CancelReplaced ==
  /\ Residual("replace")
  /\ ResidualVerdict # "ok"
  /\ CancelResidual
  /\ ReportRejected(taker.id)
  /\ EndWalk
  /\ UNCHANGED <<registry, riskVars, mirror, top>>

-----------------------------------------------------------------------------
(* CancelOrder, CancelReplace, MassCancel.                                 *)

\* Known to the book and, by the registry, the requester's own.
Owns(a, id) ==
  Known(id) /\ registry[id] # None /\ registry[id].account = a

RejectCancelOrder(a, id) ==
  /\ stage = "ready"
  /\ killSwitch \/ ~Owns(a, id)
  /\ RejectCommand

CancelOrder(a, id) ==
  /\ stage = "ready"
  /\ ~killSwitch
  /\ Owns(a, id)
  /\ Cancel(id)
  /\ OneShot
  /\ Forget(a, {id})
  /\ ReportCancelled({id})
  /\ UNCHANGED <<killSwitch, lastTrade, mirror, top>>

ReplaceVerdict(a, id, price, qty) ==
  LET risk == CheckCancelReplace(killSwitch, lastTrade, price, qty)
  IN IF risk # "ok" THEN risk
     ELSE IF ~Owns(a, id) THEN "UnknownOrderId"
     ELSE IF /\ \A r \in At(id) : ~KeepsPriority(r, price, qty)
             /\ PostOnlyRefused(id, price) THEN "PostOnlyWouldCross"
     ELSE "ok"

RejectCancelReplace(a, id, price, qty) ==
  /\ stage = "ready"
  /\ ReplaceVerdict(a, id, price, qty) # "ok"
  /\ RejectCommand

\* Nothing trades: refund, acknowledge and book the smaller order at once.
\* on_order_resting cannot refuse it: AmendFits.
AmendOrder(a, id, price, qty) ==
  LET e == registry[id]
      st == Removed(perAccount[a], e.notional)
  IN /\ stage = "ready"
     /\ ReplaceVerdict(a, id, price, qty) = "ok"
     /\ ReplaceInPlace(id, price, qty)
     /\ OneShot
     /\ Register(a, id, e.side, price, qty, st)
     /\ ReportReplaced(id, qty)
     /\ UNCHANGED <<killSwitch, lastTrade, mirror, top>>

RepriceOrder(a, id, price, qty) ==
  /\ stage = "ready"
  /\ ReplaceVerdict(a, id, price, qty) = "ok"
  /\ ReplaceReprice(id, price, qty)
  /\ BeginWalk(qty)
  /\ UNCHANGED <<registry, riskVars, subscriberVars>>

RejectMassCancel(a) ==
  /\ stage = "ready"
  /\ killSwitch
  /\ RejectCommand

CancelAll(a) ==
  /\ stage = "ready"
  /\ ~killSwitch
  /\ IF byAccount[a] = {} THEN UNCHANGED vars ELSE MassCancel(a)
  /\ OneShot
  /\ Forget(a, byAccount[a])
  /\ ReportCancelled(byAccount[a])
  /\ UNCHANGED <<killSwitch, lastTrade, mirror, top>>

-----------------------------------------------------------------------------
(* Commands without a tail, and the tail.                                  *)

KillSwitchSet(engaged) ==
  /\ stage = "ready"
  /\ engaged # killSwitch
  /\ killSwitch' = engaged
  /\ UNCHANGED <<vars, registry, perAccount, lastTrade, stepVars,
                 subscriberVars>>

\* A subscriber has no mirror before its first SnapshotResponse.
SnapshotRequest ==
  /\ stage = "ready"
  /\ mirror' = SnapshotLevels
  /\ UNCHANGED <<vars, registry, riskVars, stepVars, view, top>>

\* The subscriber applies one delta after the other.
Applied(m, deltas) ==
  LET after[n \in 0..Len(deltas)] ==
        IF n = 0 THEN m
        ELSE LET d == deltas[n]
             IN [after[n - 1] EXCEPT ![d.side][d.price] = d.qty]
  IN after[Len(deltas)]

\* emit_l2_deltas, then emit_book_update_top.
EmitBookChanges ==
  /\ stage = "tail"
  /\ mirror' = IF mirror = None THEN None
               ELSE Applied(mirror, Deltas(pre, Levels))
  /\ top' = [s \in Side |-> TopOf(s)]
  /\ stage' = "ready"
  /\ pre' = NoLevels
  /\ lastReport' = "None"
  /\ UNCHANGED <<vars, registry, riskVars, reported, leaves, view>>

-----------------------------------------------------------------------------
EngineInit ==
  /\ Init
  /\ registry = [i \in OrderId |-> None]
  /\ perAccount = [a \in Account |-> NoAccountState]
  /\ killSwitch = FALSE
  /\ lastTrade = NoPrice
  /\ stage = "ready"
  /\ reported = 0
  /\ leaves = 0
  /\ pre = NoLevels
  /\ lastReport = "None"
  /\ view = [i \in OrderId |-> 0]
  /\ mirror = None
  /\ top = [s \in Side |-> [price |-> NoPrice, qty |-> 0]]

Commands ==
  \/ \E t \in NewOrders : NewOrder(t) \/ RejectNewOrder(t)
  \/ \E a \in Account, id \in OrderId :
       CancelOrder(a, id) \/ RejectCancelOrder(a, id)
  \/ \E a \in Account, id \in OrderId, p \in Price, q \in Qty :
       \/ AmendOrder(a, id, p, q)
       \/ RepriceOrder(a, id, p, q)
       \/ RejectCancelReplace(a, id, p, q)
  \/ \E a \in Account : CancelAll(a) \/ RejectMassCancel(a)
  \/ \E engaged \in BOOLEAN : KillSwitchSet(engaged)
  \/ SnapshotRequest

Pipeline ==
  \/ MatchOne \/ MatchReturns \/ ReportFill
  \/ DisposeStp \/ DisposeFilled \/ CancelTaker \/ RestTaker \/ RefuseResidual
  \/ RegisterReplaced \/ CancelReplaced
  \/ EmitBookChanges

EngineNext == Commands \/ Pipeline

EngineSpec == EngineInit /\ [][EngineNext]_allVars

\* Engine::step returns: nothing in it waits for another thread.
EngineFairSpec == EngineSpec /\ WF_allVars(Pipeline)

-----------------------------------------------------------------------------
(* Properties.                                                             *)

ReportState ==
  {"None", "Accepted", "Replaced", "PartiallyFilled", "Filled", "Cancelled",
   "Rejected"}

\* Type correctness.  A maker's leaves never saturate to zero on a partial
\* fill, so a live registry entry always has a legal Qty.
EngineTypeOK ==
  /\ TypeOK
  /\ registry \in [OrderId -> RegistryEntry \cup {None}]
  /\ perAccount \in [Account -> AccountState]
  /\ killSwitch \in BOOLEAN
  /\ lastTrade \in Limit
  /\ stage \in {"ready", "handler", "tail"}
  /\ stage # "handler" <=> phase = "idle"
  /\ reported \in 0..Len(fills)
  /\ leaves \in Nat
  /\ pre \in Seq(LevelTotal)
  /\ lastReport \in ReportState
  /\ view \in [OrderId -> Nat]
  /\ mirror = None \/ mirror \in [Side -> [Price -> Nat]]
  /\ top \in [Side -> [price : Limit, qty : Nat]]

OrdersOf(a) == {i \in OrderId : registry[i] # None /\ registry[i].account = a}

\* "The registry mirrors the book 1:1" (handle_cancel_order): whenever no
\* handler runs, both know the same orders with the same owner, side and
\* quantity, and the registry holds the notional those have.  Cancels,
\* replaces and refunds look only at the registry.
RegistryMirrorsBook ==
  stage # "handler" =>
    \A i \in OrderId :
      IF index[i] = None THEN registry[i] = None
      ELSE \E r \in At(i) :
             registry[i] = [account |-> index[i].account, side |-> r.side,
                            qty |-> r.qty,
                            notional |-> NotionalOf(r.price, r.qty)]

\* The notional risk holds against an account is the sum over its live
\* orders, in the middle of a handler too, and never exceeds the ceiling:
\* refunds by fills, cancels, STP and replaces neither leak nor repeat.
ExposureExact ==
  \A a \in Account :
    /\ perAccount[a].notional =
         MapThenSumSet(LAMBDA i : registry[i].notional, OrdersOf(a))
    /\ perAccount[a].notional <= MaxNotional

\* The open-order count risk holds is never above the number of live orders,
\* so no account is refused for orders it does not have.
OpenOrdersNeverOvercount ==
  \A a \in Account : perAccount[a].open <= Cardinality(OrdersOf(a))

\* While the kill switch is on nothing a client sends changes the book, the
\* registry, an exposure, the band's reference or what clients were told.
KillSwitchFreezes ==
  [][killSwitch => UNCHANGED <<bookVars, registry, perAccount, lastTrade,
                               view>>]_allVars

\* A new order that passed check_new_order still fits its account when its
\* residual comes to rest, whatever the walk did: on_order_resting, the
\* second check, never refuses what the first one let in.
AdmittedNewOrderFits ==
  phase # "idle" /\ taker.origin = "new" /\ remaining > 0 /\ MayRest =>
    ResidualVerdict = "ok"

\* Shrinking a live order in place never fails the account's limits, though
\* handle_cancel_replace would then cancel the order.
AmendFits ==
  stage = "ready" =>
    \A r \in resting : \A q \in 1..r.qty :
      LET e == registry[r.id]
      IN LimitVerdict(Removed(perAccount[e.account], e.notional),
                      NotionalOf(r.price, q)) = "ok"

\* Who follows the execution reports alone, as the engine emits them, knows
\* what rests of every order once a command is done, as long as live ids are
\* not reused.  (The codec drops the quantity of a Replaced report: Wire.)
ViewExact ==
  UniqueIds /\ stage # "handler" =>
    \A i \in OrderId :
      view[i] = IF index[i] = None THEN 0 ELSE Total(At(i))

\* A subscriber that took a snapshot at any point and applies every delta
\* since then holds the level totals of the book after each command.
MirrorExact ==
  stage = "ready" /\ mirror # None =>
    \A s \in Side, p \in Price : mirror[s][p] = Total(Level(s, p))

MirrorBest(s) ==
  LET live == {p \in Price : mirror[s][p] > 0}
  IN IF live = {} THEN NoPrice
     ELSE CHOOSE p \in live : \A q \in live : AsGood(s, p, q)

\* The top-of-book tick names the best prices of the subscriber's mirror.
TopNamesBest ==
  stage = "ready" /\ mirror # None =>
    \A s \in Side : top[s].price = MirrorBest(s)

\* Every command is carried through to its book update.
CommandCompletes == stage # "ready" ~> stage = "ready"

\* The engine drives the book only through the operations of Book.
DrivesBook == Spec

-----------------------------------------------------------------------------
(* What documents and comments say of the engine, and the code does not.   *)

\* README: "Hard ceiling on resting orders per account."
OpenOrdersCapped ==
  \A a \in Account : Cardinality(byAccount[a]) <= MaxOpenOrders

\* props_book_not_crossed.rs: "the engine rejects duplicate live order ids
\* before the walk".
DuplicateNeverTrades ==
  phase # "idle" /\ taker.origin = "new" /\ index[taker.id] # None =>
    fills = <<>>

\* README: the reports of a replace end "in a terminal Filled/Cancelled when
\* the order does not survive".
ReplaceEndsTerminal ==
  [][phase = "done" /\ taker.origin = "replace" /\ phase' = "idle"
       /\ index'[taker.id] = None => lastReport' \in {"Filled", "Cancelled"}
    ]_allVars

=============================================================================
