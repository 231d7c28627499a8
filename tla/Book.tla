-------------------------------- MODULE Book --------------------------------
(***************************************************************************)
(* The matching core: crates/matching/src/book.rs.                         *)
(*                                                                         *)
(* A Book holds the same orders four times over: in the price levels       *)
(* (resting), in the two sorted price maps (prices), in the sidecar        *)
(* (index) and in the per-account sets (byAccount).  Every operation has   *)
(* to keep the four in step by hand.                                       *)
(*                                                                         *)
(* A definition that another one follows at once, named for what it gets   *)
(* wrong (PrunedNever before Pruned), is a faulty variant of that one: it  *)
(* is not part of the specification, and shows which property rejects it.  *)
(*                                                                         *)
(* match_aggressive is a loop over resting makers.  One iteration is one   *)
(* action (FillHead or StpHead) and phase forces them to run to the end    *)
(* of the call before the book is used again.                              *)
(***************************************************************************)
EXTENDS Integers, Sequences, FiniteSetsExt

CONSTANTS
  OrderId,          \* domain::OrderId, client-assigned, never 0
  Account,          \* domain::AccountId
  Price,            \* domain::Price, in ticks
  MaxPrice,         \* the greatest one (i64::MAX in the code)
  Qty,              \* domain::Qty of a replace, in lots
  NewOrders,        \* the aggressive orders callers submit
  MaxSeq,           \* bound on the arrival counter (u64::MAX in the code)
  SnapshotMayFail,  \* may PriceLevel::snapshot_orders fail to allocate?
  None              \* Option::None

Side == {"Bid", "Ask"}
Tif == {"Gtc", "Ioc", "PostOnly"}
RestingTif == {"Gtc", "PostOnly"}
Lots == Nat \ {0}
NoPrice == 0        \* the limit of a market order
Limit == Price \cup {NoPrice}

Opposite(s) == IF s = "Bid" THEN "Ask" ELSE "Bid"

RestingOrder ==
  [id : OrderId, side : Side, price : Price, qty : Lots, ts : Nat]

OrderMeta ==
  [side : Side, price : Price, account : Account, tif : RestingTif]

\* An AggressiveOrder together with the call that made it a taker.
Taker ==
  [origin : {"new", "replace"}, id : OrderId, account : Account,
   side : Side, limit : Limit, qty : Lots, tif : Tif]

Fill == [maker : OrderId, price : Price, qty : Lots, full : BOOLEAN]

ASSUME PriceAssumption == MaxPrice \in Nat /\ Price \subseteq 1..MaxPrice
ASSUME QtyAssumption == Qty \subseteq Nat \ {0}
ASSUME NewOrdersAssumption ==
         NewOrders \subseteq {t \in Taker : t.origin = "new"}
ASSUME MaxSeqAssumption == MaxSeq \in Nat
ASSUME SnapshotAssumption == SnapshotMayFail \in BOOLEAN
ASSUME NoneAssumption == None \notin OrderId /\ None \notin OrderMeta
                           /\ None \notin Taker

VARIABLES
  resting,      \* contents of every PriceLevel of both sides
  prices,       \* keys of the bids and asks maps
  index,        \* sidecar: order id to OrderMeta
  byAccount,    \* ids resting per account
  seq,          \* arrival counter
  phase,        \* "idle", "walk" (inside the walk), "done" (walk returned)
  taker,        \* the order being matched
  remaining,    \* its quantity not yet filled
  fills,        \* out_fills
  stp           \* the one maker out_stp can name per walk

bookVars == <<resting, prices, index, byAccount, seq>>
walkVars == <<phase, taker, remaining, fills, stp>>
vars == <<bookVars, walkVars>>

-----------------------------------------------------------------------------
(* Reading the book.                                                       *)

Level(s, p) == {r \in resting : r.side = s /\ r.price = p}

\* qty_at_level and side_qty: the lots of the orders at a level, or on a side.
Total(orders) == MapThenSumSet(LAMBDA r : r.qty, orders)

\* The orders PriceLevel::update_order finds for an id the sidecar knows.
At(id) == {r \in Level(index[id].side, index[id].price) : r.id = id}

AsGood(s, p, q) == IF s = "Bid" THEN p >= q ELSE p <= q

IsBest(s, p) == p \in prices[s] /\ \A q \in prices[s] : AsGood(s, p, q)

\* Does a taker on side s with this limit trade at price p?
CrossesStrictly(s, limit, p) ==
  \/ limit = NoPrice
  \/ IF s = "Bid" THEN limit > p ELSE limit < p

Crosses(s, limit, p) ==
  \/ limit = NoPrice
  \/ IF s = "Bid" THEN limit >= p ELSE limit <= p

WouldCross(s, limit) ==
  \E p \in prices[Opposite(s)] :
    IsBest(Opposite(s), p) /\ Crosses(s, limit, p)

\* snapshot_orders sorts a level by the arrival stamp written in add_resting.
IsHeadNewest(r) == \A q \in Level(r.side, r.price) : r.ts >= q.ts

IsHead(r) == \A q \in Level(r.side, r.price) : r.ts <= q.ts

-----------------------------------------------------------------------------
(* The updates the operations are made of.                                 *)

\* The prices left in the maps once the emptied levels are pruned.
PrunedNever(gone) == prices

Pruned(gone) ==
  [s \in Side |-> {p \in prices[s] :
     Level(s, p) \cap gone # {} => Level(s, p) \ gone # {}}]

\* drop_from_indices for each of these ids.
DropFromSidecarOnly(ids) ==
  /\ index' = [i \in OrderId |-> IF i \in ids THEN None ELSE index[i]]
  /\ UNCHANGED byAccount

DropFromIndices(ids) ==
  /\ index' = [i \in OrderId |-> IF i \in ids THEN None ELSE index[i]]
  /\ byAccount' = [a \in Account |-> {i \in byAccount[a] :
                     i \in ids => index[i].account # a}]

\* Take orders out of their levels, the emptied levels out of the maps and
\* the ids out of both indices.
RemoveOrders(gone) ==
  /\ resting' = resting \ gone
  /\ prices' = Pruned(gone)
  /\ DropFromIndices({r.id : r \in gone})
  /\ UNCHANGED seq

\* PriceLevel::update_order with UpdateQuantity: the order keeps its stamp.
SetQtyRestamped(r, q) ==
  /\ resting' = (resting \ {r}) \cup {[r EXCEPT !.qty = q, !.ts = seq + 1]}
  /\ UNCHANGED <<prices, index, byAccount, seq>>

SetQtyLost(r, q) == UNCHANGED bookVars

SetQty(r, q) ==
  /\ resting' = (resting \ {r}) \cup {[r EXCEPT !.qty = q]}
  /\ UNCHANGED <<prices, index, byAccount, seq>>

AddResting(id, account, side, price, qty, tif) ==
  /\ index[id] = None
  /\ seq' = seq + 1
  /\ resting' = resting \cup {[id |-> id, side |-> side, price |-> price,
                               qty |-> qty, ts |-> seq + 1]}
  /\ prices' = [prices EXCEPT ![side] = @ \cup {price}]
  /\ index' = [index EXCEPT ![id] = [side |-> side, price |-> price,
                                     account |-> account, tif |-> tif]]
  /\ byAccount' = [byAccount EXCEPT ![account] = @ \cup {id}]

AddResidual == AddResting(taker.id, taker.account, taker.side, taker.limit,
                          remaining, taker.tif)

StartWalk(t) ==
  /\ phase' = "walk"
  /\ taker' = t
  /\ remaining' = t.qty
  /\ fills' = <<>>
  /\ stp' = None

\* The caller is done with the match result.
Release ==
  /\ phase' = "idle"
  /\ taker' = None
  /\ remaining' = 0
  /\ fills' = <<>>
  /\ stp' = None

-----------------------------------------------------------------------------
(* match_aggressive.                                                       *)

\* A PostOnly taker that would cross is refused before anything changes.
MatchAggressive(t) ==
  /\ phase = "idle"
  /\ t.tif = "Ioc" \/ seq < MaxSeq
  /\ t.tif = "PostOnly" => ~WouldCross(t.side, t.limit)
  /\ StartWalk(t)
  /\ UNCHANGED bookVars

WalkOverAfterOne ==
  \/ remaining = 0
  \/ stp # None
  \/ fills # <<>>
  \/ ~WouldCross(taker.side, taker.limit)

WalkOver ==
  \/ remaining = 0
  \/ stp # None
  \/ ~WouldCross(taker.side, taker.limit)

\* The maker the walk visits next: head of the best opposite level.
NextMaker(m) ==
  /\ m \in resting
  /\ m.side = Opposite(taker.side)
  /\ IsBest(m.side, m.price)
  /\ Crosses(taker.side, taker.limit, m.price)
  /\ IsHead(m)
  /\ index[m.id] # None

SelfTradeById(m) == m.id = taker.id

SelfTrade(m) == index[m.id].account = taker.account

FillQtyWhole(m) == m.qty

FillQty(m) == IF remaining < m.qty THEN remaining ELSE m.qty

FillOfWhole(m, q) ==
  [maker |-> m.id, price |-> m.price, qty |-> m.qty, full |-> q = m.qty]

FillOf(m, q) ==
  [maker |-> m.id, price |-> m.price, qty |-> q, full |-> q = m.qty]

FillHead ==
  /\ phase = "walk"
  /\ ~WalkOver
  /\ \E m \in resting :
       LET q == FillQty(m)
       IN /\ NextMaker(m)
          /\ ~SelfTrade(m)
          /\ IF q = m.qty THEN RemoveOrders({m}) ELSE SetQty(m, m.qty - q)
          /\ fills' = Append(fills, FillOf(m, q))
          /\ remaining' = remaining - q
  /\ UNCHANGED <<phase, taker, stp>>

\* Self-trade prevention: the maker goes, the walk stops, the taker is dropped.
StpHeadSkips ==
  /\ phase = "walk"
  /\ ~WalkOver
  /\ \E m \in resting : NextMaker(m) /\ SelfTrade(m)
  /\ UNCHANGED vars

StpHead ==
  /\ phase = "walk"
  /\ ~WalkOver
  /\ \E m \in resting :
       /\ NextMaker(m)
       /\ SelfTrade(m)
       /\ RemoveOrders({m})
       /\ stp' = m.id
  /\ UNCHANGED <<phase, taker, remaining, fills>>

\* The walk has returned.  replace rests what is left of its order itself;
\* the engine's new-order handler does so later, in RestResidual.
ReturnFromWalk ==
  /\ phase' = "done"
  /\ IF taker.origin = "replace" /\ stp = None /\ remaining > 0
       THEN AddResidual
       ELSE UNCHANGED bookVars
  /\ UNCHANGED <<taker, remaining, fills, stp>>

WalkEnd ==
  /\ phase = "walk"
  /\ WalkOver
  /\ ReturnFromWalk

\* The snapshot of a level the walk is about to enter cannot be allocated.
SnapshotFails ==
  /\ SnapshotMayFail
  /\ phase = "walk"
  /\ ~WalkOver
  /\ \E p \in prices[Opposite(taker.side)] :
       /\ IsBest(Opposite(taker.side), p)
       /\ fills # <<>> => fills[Len(fills)].price # p
  /\ ReturnFromWalk

-----------------------------------------------------------------------------
(* What the caller does with the result.                                   *)

RestResidual ==
  /\ phase = "done"
  /\ taker.origin = "new"
  /\ stp = None
  /\ remaining > 0
  /\ taker.tif # "Ioc"
  /\ taker.limit # NoPrice
  /\ AddResidual
  /\ Release

DropResult ==
  /\ phase = "done"
  /\ Release
  /\ UNCHANGED bookVars

\* A replaced order whose residual the account cannot carry.
CancelResidual ==
  /\ phase = "done"
  /\ taker.origin = "replace"
  /\ stp = None
  /\ remaining > 0
  /\ index[taker.id] # None
  /\ RemoveOrders(At(taker.id))
  /\ Release

-----------------------------------------------------------------------------
(* cancel, replace, mass_cancel.                                           *)

Known(id) == index[id] # None /\ index[id].price \in prices[index[id].side]

Cancel(id) ==
  /\ phase = "idle"
  /\ Known(id)
  /\ RemoveOrders(At(id))
  /\ UNCHANGED walkVars

KeepsPriority(r, price, qty) == price = r.price /\ qty <= r.qty

ReplaceInPlace(id, price, qty) ==
  /\ phase = "idle"
  /\ Known(id)
  /\ \E r \in At(id) : KeepsPriority(r, price, qty) /\ SetQty(r, qty)
  /\ UNCHANGED walkVars

\* The refusal of a PostOnly reprice comes before the cancel.
PostOnlyAccepted(id, price) == FALSE

PostOnlyRefused(id, price) ==
  index[id].tif = "PostOnly" /\ WouldCross(index[id].side, price)

ReplaceTaker(id, price, qty) ==
  [origin |-> "replace", id |-> id, account |-> index[id].account,
   side |-> index[id].side, limit |-> price, qty |-> qty,
   tif |-> index[id].tif]

ReplaceReprice(id, price, qty) ==
  /\ phase = "idle"
  /\ seq < MaxSeq
  /\ Known(id)
  /\ \E r \in At(id) : ~KeepsPriority(r, price, qty)
  /\ ~PostOnlyRefused(id, price)
  /\ RemoveOrders(At(id))
  /\ StartWalk(ReplaceTaker(id, price, qty))

MassCancel(a) ==
  /\ phase = "idle"
  /\ byAccount[a] # {}
  /\ RemoveOrders(UNION {At(i) : i \in byAccount[a]})
  /\ UNCHANGED walkVars

\* The calls that return an error or a refusal: the book is left alone.
Refused ==
  /\ phase = "idle"
  /\ \/ \E id \in OrderId : ~Known(id)
     \/ \E id \in OrderId, p \in Price : Known(id) /\ PostOnlyRefused(id, p)
     \/ \E s \in Side, l \in Limit : WouldCross(s, l)
  /\ UNCHANGED vars

-----------------------------------------------------------------------------
Init ==
  /\ resting = {}
  /\ prices = [s \in Side |-> {}]
  /\ index = [i \in OrderId |-> None]
  /\ byAccount = [a \in Account |-> {}]
  /\ seq = 0
  /\ phase = "idle"
  /\ taker = None
  /\ remaining = 0
  /\ fills = <<>>
  /\ stp = None

Calls ==
  \/ \E t \in NewOrders : MatchAggressive(t)
  \/ \E id \in OrderId : Cancel(id)
  \/ \E id \in OrderId, p \in Price, q \in Qty : ReplaceInPlace(id, p, q)
  \/ \E id \in OrderId, p \in Price, q \in Qty : ReplaceReprice(id, p, q)
  \/ \E a \in Account : MassCancel(a)
  \/ Refused

Walk == FillHead \/ StpHead \/ WalkEnd \/ SnapshotFails

Dispose == RestResidual \/ DropResult \/ CancelResidual

Next == Calls \/ Walk \/ Dispose

Spec == Init /\ [][Next]_vars

-----------------------------------------------------------------------------
(* Properties.                                                             *)

BookTypeOK ==
  /\ resting \subseteq RestingOrder
  /\ prices \in [Side -> SUBSET Price]
  /\ index \in [OrderId -> OrderMeta \cup {None}]
  /\ byAccount \in [Account -> SUBSET OrderId]
  /\ seq \in Nat

WalkTypeOK ==
  /\ phase \in {"idle", "walk", "done"}
  /\ taker \in Taker \cup {None}
  /\ remaining \in Nat
  /\ fills \in Seq(Fill)
  /\ stp \in OrderId \cup {None}

\* Type correctness.  A resting order is never Ioc (the debug_assert of
\* add_resting) and never has quantity zero.
TypeOK == BookTypeOK /\ WalkTypeOK

\* The sidecar, the per-account sets and the levels name the same orders:
\* no id rests twice, none is lost from an index and none lingers in one.
\* The "sidecar / level out of sync" branches of book.rs rely on this.
IndexExact ==
  /\ \A i \in OrderId : index[i] # None <=> \E r \in resting : r.id = i
  /\ \A r \in resting : /\ index[r.id].side = r.side
                         /\ index[r.id].price = r.price
  /\ \A r, q \in resting : r.id = q.id => r = q
  /\ \A a \in Account, i \in OrderId :
       i \in byAccount[a] <=> index[i] # None /\ index[i].account = a

\* A price is a key of its side's map exactly while an order rests there, so
\* best_bid and best_ask never name a phantom level or miss a real one.
LevelsExact ==
  \A s \in Side, p \in Price : p \in prices[s] <=> Level(s, p) # {}

\* The book is never locked or crossed, not even between two fills.
Uncrossed == \A b \in prices["Bid"], a \in prices["Ask"] : b < a

\* A PostOnly order never trades as the aggressor and never triggers
\* self-trade prevention, on arrival or through any later replace.
PostOnlyNeverTakes ==
  taker # None /\ taker.tif = "PostOnly" => fills = <<>> /\ stp = None

\* Arrival stamps are distinct and none is ahead of the counter, so sorting
\* a level by them yields the order of arrival.
StampsDistinct ==
  /\ \A r \in resting : r.ts <= seq
  /\ \A r, q \in resting : r.ts = q.ts => r = q

\* What a walk can rely on: it has a taker, one that replace made can rest,
\* and a PostOnly one has nothing to trade with.
WalkState ==
  /\ phase # "idle" => taker # None
  /\ taker # None /\ taker.origin = "replace" =>
       taker.limit \in Price /\ taker.tif \in RestingTif
  /\ phase = "walk" /\ taker.tif = "PostOnly" =>
       ~WouldCross(taker.side, taker.limit)

\* What is left of a new order when the walk returns crosses nothing.
ResidualPassive ==
  phase = "done" /\ taker.origin = "new" /\ stp = None /\ remaining > 0 =>
    ~WouldCross(taker.side, taker.limit)

\* What the exactness of the containers and the priority of fills rest on.
WalkInv == StampsDistinct /\ WalkState /\ ResidualPassive

\* The containers agree; and the inductive invariant of all operations.
BookOK == BookTypeOK /\ IndexExact /\ LevelsExact /\ StampsDistinct
BookInv == BookOK /\ WalkTypeOK /\ WalkState /\ PostOnlyNeverTakes

Filled == Len(fills') > Len(fills)
LastMaker == fills'[Len(fills')].maker

\* Price-time priority: whoever is filled had no order ahead of it on its
\* side, neither at a better price nor earlier at the same price.
PriceTimePriority ==
  [][Filled => \A m, r \in resting :
       m.id = LastMaker /\ r.side = m.side /\ r # m =>
         /\ AsGood(m.side, m.price, r.price)
         /\ r.price = m.price => m.ts < r.ts]_vars

\* A queue only changes at its ends and by removal: an order that stays in
\* the book keeps its place (partial fill, quantity-down replace), and one
\* that enters goes behind every order of its level.
QueueDiscipline ==
  [][\A r, q \in resting' : r.side = q.side /\ r.price = q.price =>
       /\ (\E x \in resting : x.id = r.id) /\ (\A x \in resting : x.id # q.id)
            => r.ts < q.ts
       /\ \A x, y \in resting : x.id = r.id /\ y.id = q.id /\ x.ts < y.ts
            => r.ts < q.ts]_vars

\* No trade has the same account on both sides.
NoSelfTrade ==
  [][Filled => index[LastMaker].account # taker.account]_vars

\* A fill takes from the resting side exactly the lots it gives the taker,
\* and prints them; no other lots leave the book with it.
FillMovesLots ==
  [][Filled => /\ Total(resting) - Total(resting') = remaining - remaining'
               /\ fills'[Len(fills')].qty = remaining - remaining']_vars

=============================================================================
