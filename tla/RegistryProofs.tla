--------------------------- MODULE RegistryProofs ---------------------------
(***************************************************************************)
(* Proofs about module Engine, for every value of the constants: order     *)
(* registry and book, and what the execution reports tell of them.         *)
(*                                                                         *)
(* Between commands the registry mirrors the book.  In the middle of a     *)
(* handler it does not: the walk has changed the book, and the registry    *)
(* follows one report at a time.  RegistryInv says by how much the two     *)
(* differ then, and the mirror at the end of each handler follows.  Each   *)
(* lemma takes one handler or step of one; that the book keeps its own     *)
(* invariant, BookInv', is a hypothesis EngineProofs discharges.           *)
(*                                                                         *)
(* First the commands and the walk.  Then the reports, from the end of the *)
(* walk to the end of the handler: each pays what its fill owes the        *)
(* registry, and what becomes of the taker settles the rest.               *)
(* NextRegistryInv puts every step of the engine together.  Then what the  *)
(* reports tell their reader: ViewInv ties it to the registry, and         *)
(* NextViewInv shows it kept.                                              *)
(***************************************************************************)
EXTENDS Engine, TLAPS

-----------------------------------------------------------------------------
(* Registry and book: the inductive invariant.                             *)

\* The registry entry of a resting order.
EntryOf(r) == [account |-> index[r.id].account, side |-> r.side,
               qty |-> r.qty, notional |-> NotionalOf(r.price, r.qty)]

\* Its entry before a fill of q lots.
EntryBefore(r, q) == [account |-> index[r.id].account, side |-> r.side,
                      qty |-> r.qty + q,
                      notional |-> NotionalOf(r.price, r.qty + q)]

\* Registry and book agree about this id.
Mirrored(i) ==
  /\ index[i] = None => registry[i] = None
  /\ \A r \in resting : r.id = i => registry[i] = EntryOf(r)

\* The registry holds the maker of an unreported fill as it was before it.
Owed(f) ==
  /\ registry[f.maker] \in RegistryEntry
  /\ f.full => /\ index[f.maker] = None
               /\ registry[f.maker].qty = f.qty
               /\ registry[f.maker].notional = NotionalOf(f.price, f.qty)
  /\ ~f.full => /\ index[f.maker] # None
                /\ \A r \in resting : r.id = f.maker =>
                     /\ r.price = f.price
                     /\ registry[f.maker] = EntryBefore(r, f.qty)

\* The walk has changed nothing about this id that is not yet reported.
Settled(i) ==
  /\ \A j \in (reported + 1)..Len(fills) : fills[j].maker # i
  /\ i # stp
  /\ taker.origin = "replace" => i # taker.id

\* The registry has this id as an order of the taker's account.
OwnEntry(i) == registry[i] # None /\ registry[i].account = taker.account

\* Stage and types.
StageInv ==
  /\ stage \in {"ready", "handler", "tail"}
  /\ stage = "handler" <=> phase # "idle"
  /\ reported \in 0..Len(fills)
  /\ registry \in [OrderId -> RegistryEntry \cup {None}]

\* What the fills of a walk say: only the last can be partial, no maker is
\* filled twice, and nothing is reported while the walk runs.
FillsInv ==
  /\ phase = "walk" => reported = 0
  /\ remaining > 0 => \A j \in 1..Len(fills) : fills[j].full
  /\ \A j, k \in 1..Len(fills) : fills[j].maker = fills[k].maker => j = k
  /\ \A j \in (reported + 1)..Len(fills) : Owed(fills[j])

\* The order self-trade prevention took out keeps its entry.
StpInv ==
  stp # None =>
    /\ index[stp] = None /\ OwnEntry(stp)
    /\ \A j \in 1..Len(fills) : fills[j].maker # stp

\* The order a replace took out keeps its entry until the walk returns; from
\* then on it has none, though what is left of it rests already.
ReplaceInv ==
  taker.origin = "replace" =>
    /\ taker.id # stp
    /\ \A j \in 1..Len(fills) : fills[j].maker # taker.id
    /\ phase = "walk" => index[taker.id] = None /\ OwnEntry(taker.id)
    /\ phase = "done" =>
         /\ registry[taker.id] = None
         /\ index[taker.id] # None <=> stp = None /\ remaining > 0
         /\ index[taker.id] # None => index[taker.id].account = taker.account
         /\ \A r \in resting : r.id = taker.id =>
              r.side = taker.side /\ r.price = taker.limit /\ r.qty = remaining

HandlerInv ==
  /\ FillsInv /\ StpInv /\ ReplaceInv
  /\ \A i \in OrderId : Settled(i) => Mirrored(i)

RegistryInv ==
  /\ BookInv /\ StageInv
  /\ stage = "handler" => HandlerInv
  /\ stage # "handler" => \A i \in OrderId : Mirrored(i)

-----------------------------------------------------------------------------
(* Frames and updates.                                                     *)

\* An id whose orders and entry a step leaves alone stays mirrored.
LEMMA MirrorFrame ==
  ASSUME NEW i \in OrderId, Mirrored(i), index'[i] = index[i],
         registry'[i] = registry[i],
         \A r \in resting' : r.id = i => r \in resting
  PROVE  Mirrored(i)'
BY Zenon DEF Mirrored, EntryOf

\* So does the debt of a fill.
LEMMA OwedFrame ==
  ASSUME NEW f, Owed(f), index'[f.maker] = index[f.maker],
         registry'[f.maker] = registry[f.maker],
         \A r \in resting' : r.id = f.maker => r \in resting
  PROVE  Owed(f)'
<1>1. ASSUME NEW r \in resting', r.id = f.maker
      PROVE  r \in resting /\ EntryBefore(r, f.qty)' = EntryBefore(r, f.qty)
  BY <1>1, Zenon DEF EntryBefore
<1> QED
  BY <1>1, Zenon DEF Owed

\* Taking orders out of the book changes nothing for the other ids, and
\* leaves no order under theirs.
LEMMA RemoveFrame ==
  ASSUME BookOK, NEW gone \in SUBSET resting, RemoveOrders(gone)
  PROVE  /\ \A i \in OrderId : (\A r \in gone : r.id # i) => index'[i] = index[i]
         /\ \A r \in gone : index'[r.id] = None
         /\ \A r \in gone, q \in resting' : q.id # r.id
         /\ resting' \subseteq resting
<1>1. \A r \in resting : r.id \in OrderId
  BY Zenon DEF BookOK, BookTypeOK, RestingOrder
<1>2. /\ resting' = resting \ gone
      /\ index' = [i \in OrderId |-> IF i \in {r.id : r \in gone} THEN None
                                     ELSE index[i]]
  BY Zenon DEF RemoveOrders, DropFromIndices
<1> QED
  BY <1>1, <1>2 DEF BookOK, IndexExact

\* What a level holds under a known id is one order of that id.
LEMMA AtKnown ==
  ASSUME BookOK, NEW id \in OrderId, index[id] # None
  PROVE  \E r \in resting : r.id = id /\ At(id) = {r}
<1>1. PICK r \in resting : r.id = id
  BY Zenon DEF BookOK, IndexExact
<1>2. At(id) = {r}
  BY <1>1 DEF At, Level, BookOK, IndexExact
<1> QED
  BY <1>1, <1>2, Zenon

\* Prices are positive numbers.
LEMMA PricePositive == \A p \in Price : p \in Nat /\ p # 0
BY PriceAssumption

\* The entry of a resting order is a registry entry, and so is the one before
\* a fill.
LEMMA EntryTyped ==
  ASSUME BookOK, NEW r \in resting, NEW q \in Nat
  PROVE  EntryOf(r) \in RegistryEntry /\ EntryBefore(r, q) \in RegistryEntry
<1>1. /\ r.id \in OrderId /\ r.side \in Side /\ r.price \in Nat
      /\ r.qty \in Lots
  BY PricePositive, Zenon DEF BookOK, BookTypeOK, RestingOrder
<1>2. index[r.id].account \in Account
  BY <1>1 DEF BookOK, BookTypeOK, IndexExact, OrderMeta
<1>3. /\ r.qty + q \in Lots
      /\ r.price * r.qty \in Nat /\ r.price * (r.qty + q) \in Nat
  BY <1>1 DEF Lots
<1> QED
  BY <1>1, <1>2, <1>3, Zenon DEF EntryOf, EntryBefore, RegistryEntry, NotionalOf

-----------------------------------------------------------------------------
(* Commands, from stage "ready".                                           *)

\* Refusals, the kill switch, snapshots and the tail touch neither side.
LEMMA QuietKeepsRegistry ==
  ASSUME RegistryInv, BookInv', stage # "handler", stage' \in {"ready", "tail"},
         UNCHANGED <<vars, registry, reported>>
  PROVE  RegistryInv'
<1>1. StageInv'
  BY Zenon DEF RegistryInv, StageInv, vars, bookVars, walkVars
<1>2. \A i \in OrderId : Mirrored(i)'
  BY MirrorFrame, Zenon DEF RegistryInv, vars, bookVars
<1> QED
  BY <1>1, <1>2, Zenon DEF RegistryInv

\* A walk starts with nothing filled and nothing prevented.
LEMMA FreshWalk ==
  ASSUME NEW t, StartWalk(t), reported' = 0
  PROVE  /\ FillsInv' /\ StpInv'
         /\ taker' = t /\ Len(fills') = 0 /\ stp' = None /\ phase' = "walk"
BY DEF StartWalk, FillsInv, StpInv

\* A new order starts its walk on a book the registry mirrors.
LEMMA NewOrderKeepsRegistry ==
  ASSUME RegistryInv, BookInv', NEW t \in NewOrders, NewOrder(t)
  PROVE  RegistryInv'
<1>1. /\ stage = "ready" /\ stage' = "handler" /\ reported' = 0
      /\ UNCHANGED <<bookVars, registry>> /\ StartWalk(t)
  BY Zenon DEF NewOrder, BeginWalk, MatchAggressive
<1>2. FillsInv' /\ StpInv' /\ taker' = t /\ Len(fills') = 0 /\ phase' = "walk"
  BY <1>1, FreshWalk, Zenon
<1>3. t.origin = "new"
  BY NewOrdersAssumption, Zenon
<1>4. StageInv'
  BY <1>1, <1>2 DEF RegistryInv, StageInv
<1>5. ReplaceInv'
  BY <1>2, <1>3, Zenon DEF ReplaceInv
<1>6. \A i \in OrderId : Mirrored(i)'
  BY <1>1, MirrorFrame, Zenon DEF RegistryInv, bookVars
<1> QED
  BY <1>1, <1>2, <1>4, <1>5, <1>6, Zenon DEF RegistryInv, HandlerInv

\* A repriced order leaves the book for its walk and keeps its entry.
LEMMA RepriceKeepsRegistry ==
  ASSUME RegistryInv, BookInv', NEW a \in Account, NEW id \in OrderId,
         NEW p \in Price, NEW q \in Qty, RepriceOrder(a, id, p, q)
  PROVE  RegistryInv'
<1> DEFINE t == ReplaceTaker(id, p, q)
<1>1. /\ stage = "ready" /\ stage' = "handler" /\ reported' = 0
      /\ UNCHANGED registry /\ StartWalk(t)
      /\ RemoveOrders(At(id)) /\ index[id] # None
  BY Zenon DEF RepriceOrder, BeginWalk, ReplaceReprice, Known
<1>2. FillsInv' /\ StpInv' /\ taker' = t /\ Len(fills') = 0 /\ stp' = None
        /\ phase' = "walk"
  BY <1>1, FreshWalk, Zenon
<1>3. t.origin = "replace" /\ t.id = id /\ t.account = index[id].account
  BY Zenon DEF ReplaceTaker
<1> HIDE DEF t
<1>4. PICK r \in resting : r.id = id /\ At(id) = {r}
  BY <1>1, AtKnown, Zenon DEF RegistryInv, BookInv
<1>5. /\ \A i \in OrderId : i # id => index'[i] = index[i]
      /\ index'[id] = None
      /\ resting' \subseteq resting
  BY <1>1, <1>4, RemoveFrame DEF RegistryInv, BookInv
<1>6. StageInv'
  BY <1>1, <1>2 DEF RegistryInv, StageInv
<1>7. registry[id] = EntryOf(r)
  BY <1>1, <1>4, Zenon DEF RegistryInv, Mirrored
<1>8. registry[id] # None
  BY <1>1, <1>7, EntryAssumption, EntryTyped, <1>4, Zenon DEF RegistryInv, BookInv
<1>9. ReplaceInv'
  <2>1. OwnEntry(id)'
    BY <1>1, <1>2, <1>3, <1>4, <1>7, <1>8 DEF OwnEntry, EntryOf
  <2>2. id # None
    BY NoneAssumption, Zenon
  <2> QED
    BY <1>2, <1>3, <1>5, <2>1, <2>2 DEF ReplaceInv
<1>10. \A i \in OrderId : i # id => Mirrored(i)'
  BY <1>1, <1>5, MirrorFrame, Zenon DEF RegistryInv
<1>11. \A i \in OrderId : Settled(i)' => Mirrored(i)'
  BY <1>2, <1>3, <1>10, Zenon DEF Settled
<1> QED
  BY <1>1, <1>2, <1>6, <1>9, <1>11, Zenon DEF RegistryInv, HandlerInv

\* A handler that works in one go keeps stage and types.
LEMMA OneShotKeepsStage ==
  ASSUME StageInv, BookInv, stage = "ready", OneShot, UNCHANGED walkVars,
         registry' \in [OrderId -> RegistryEntry \cup {None}]
  PROVE  StageInv' /\ stage' = "tail"
BY Zenon DEF StageInv, OneShot, walkVars

\* Forgetting orders keeps the registry typed.
LEMMA ForgetTyped ==
  ASSUME registry \in [OrderId -> RegistryEntry \cup {None}],
         NEW a, NEW ids, Forget(a, ids)
  PROVE  registry' \in [OrderId -> RegistryEntry \cup {None}]
BY Zenon DEF Forget

\* A cancel takes the order out of the book and out of the registry.
LEMMA CancelKeepsRegistry ==
  ASSUME RegistryInv, BookInv', NEW a \in Account, NEW id \in OrderId,
         CancelOrder(a, id)
  PROVE  RegistryInv'
<1>1. /\ stage = "ready" /\ OneShot /\ Forget(a, {id}) /\ UNCHANGED walkVars
      /\ RemoveOrders(At(id)) /\ index[id] # None /\ registry[id] # None
  BY Zenon DEF CancelOrder, Cancel, Owns, Known
<1>2. PICK r \in resting : r.id = id /\ At(id) = {r}
  BY <1>1, AtKnown, Zenon DEF RegistryInv, BookInv
<1>3. /\ \A i \in OrderId : i # id => index'[i] = index[i]
      /\ index'[id] = None
      /\ \A q \in resting' : q \in resting /\ q.id # id
  BY <1>1, <1>2, RemoveFrame DEF RegistryInv, BookInv
<1>4. StageInv' /\ stage' = "tail"
  BY <1>1, ForgetTyped, OneShotKeepsStage, Zenon DEF RegistryInv, StageInv
<1>5. registry' = [i \in OrderId |-> IF i = id THEN None ELSE registry[i]]
  BY <1>1, Zenon DEF Forget
<1>6. ASSUME NEW i \in OrderId PROVE Mirrored(i)'
  <2>1. CASE i = id
    BY <1>3, <1>5, <2>1, Zenon DEF Mirrored
  <2>2. CASE i # id
    BY <1>1, <1>3, <1>5, <2>2, MirrorFrame, Zenon DEF RegistryInv
  <2> QED
    BY <2>1, <2>2, Zenon
<1> QED
  BY <1>4, <1>6, Zenon DEF RegistryInv

\* A mass cancel does the same for every order of an account: the ids the
\* book lists for it are the ones that leave both.
LEMMA CancelAllKeepsRegistry ==
  ASSUME RegistryInv, BookInv', NEW a \in Account, CancelAll(a)
  PROVE  RegistryInv'
<1> DEFINE ids == byAccount[a]
           gone == UNION {At(i) : i \in ids}
<1>1. /\ stage = "ready" /\ OneShot /\ Forget(a, ids) /\ UNCHANGED walkVars
      /\ ids # {} => RemoveOrders(gone)
      /\ ids = {} => UNCHANGED bookVars
  BY Zenon DEF CancelAll, MassCancel, vars
<1>2. ids \in SUBSET OrderId /\ \A i \in ids : index[i] # None
  BY DEF RegistryInv, BookInv, BookOK, BookTypeOK, IndexExact
<1>4. StageInv' /\ stage' = "tail"
  BY <1>1, ForgetTyped, OneShotKeepsStage, Zenon DEF RegistryInv, StageInv
<1>5. registry' = [i \in OrderId |-> IF i \in ids THEN None ELSE registry[i]]
  BY <1>1, Zenon DEF Forget
<1>6. /\ \A i \in OrderId \ ids : index'[i] = index[i]
      /\ \A i \in ids : index'[i] = None
      /\ \A q \in resting' : q \in resting /\ q.id \notin ids
  <2>1. CASE ids = {}
    BY <1>1, <2>1, Zenon DEF bookVars
  <2>2. CASE ids # {}
    <3>1. gone \in SUBSET resting /\ \A r \in gone : r.id \in ids
      BY Zenon DEF At, Level
    <3>2. \A i \in ids : \E r \in gone : r.id = i
      <4> SUFFICES ASSUME NEW i \in ids PROVE \E r \in gone : r.id = i
        BY Zenon
      <4>1. PICK r \in resting : r.id = i /\ At(i) = {r}
        BY <1>2, AtKnown, Zenon DEF RegistryInv, BookInv
      <4> QED
        BY <4>1, Zenon
    <3> HIDE DEF gone
    <3>3. RemoveOrders(gone)
      BY <1>1, <2>2, Zenon
    <3> QED
      BY <3>1, <3>2, <3>3, RemoveFrame DEF RegistryInv, BookInv
  <2> QED
    BY <2>1, <2>2, Zenon
<1> HIDE DEF ids, gone
<1>7. ASSUME NEW i \in OrderId PROVE Mirrored(i)'
  <2>1. CASE i \in ids
    BY <1>5, <1>6, <2>1, Zenon DEF Mirrored
  <2>2. CASE i \notin ids
    BY <1>1, <1>5, <1>6, <2>2, MirrorFrame, Zenon DEF RegistryInv
  <2> QED
    BY <2>1, <2>2, Zenon
<1> QED
  BY <1>4, <1>7, Zenon DEF RegistryInv

\* Booking an order keeps the registry typed.
LEMMA RegisterTyped ==
  ASSUME registry \in [OrderId -> RegistryEntry \cup {None}],
         NEW a \in Account, NEW id \in OrderId, NEW side \in Side,
         NEW price \in Price, NEW qty \in Lots, NEW st,
         Register(a, id, side, price, qty, st)
  PROVE  registry' \in [OrderId -> RegistryEntry \cup {None}]
<1>1. NotionalOf(price, qty) \in Nat
  BY PriceAssumption DEF NotionalOf, Lots
<1>2. [account |-> a, side |-> side, qty |-> qty,
       notional |-> NotionalOf(price, qty)] \in RegistryEntry
  BY <1>1, Zenon DEF RegistryEntry
<1> QED
  BY <1>2, Zenon DEF Register

\* A quantity-down replace changes the order and its entry alike.
LEMMA AmendKeepsRegistry ==
  ASSUME RegistryInv, BookInv', NEW a \in Account, NEW id \in OrderId,
         NEW p \in Price, NEW q \in Qty, AmendOrder(a, id, p, q)
  PROVE  RegistryInv'
<1> DEFINE e == registry[id]
           st == Removed(perAccount[a], e.notional)
<1>1. /\ stage = "ready" /\ OneShot /\ UNCHANGED walkVars
      /\ Register(a, id, e.side, p, q, st)
      /\ ReplaceInPlace(id, p, q)
      /\ ReplaceVerdict(a, id, p, q) = "ok"
  BY Zenon DEF AmendOrder, ReplaceInPlace
<1>2. Owns(a, id)
  BY <1>1, Zenon DEF ReplaceVerdict, CheckCancelReplace
<1>3. index[id] # None /\ e \in RegistryEntry /\ e.account = a
  BY <1>2, Zenon DEF Owns, Known, RegistryInv, StageInv
<1>4. PICK r \in At(id) : KeepsPriority(r, p, q) /\ SetQty(r, q)
  BY <1>1, Zenon DEF ReplaceInPlace
<1>5. r \in resting /\ r.id = id /\ r.price = p
  BY <1>4, Zenon DEF At, Level, KeepsPriority
<1>6. e = EntryOf(r)
  BY <1>1, <1>5, Zenon DEF RegistryInv, Mirrored
<1>7. e.side = r.side /\ a = index[id].account /\ e.side \in Side
  BY <1>3, <1>5, <1>6 DEF EntryOf, RegistryEntry
<1>8. q \in Lots
  BY QtyAssumption, Zenon DEF Lots
<1> HIDE DEF e, st
<1>9. StageInv' /\ stage' = "tail"
  BY <1>1, <1>7, <1>8, RegisterTyped, OneShotKeepsStage, Zenon DEF RegistryInv, StageInv
<1>10. /\ resting' = (resting \ {r}) \cup {[r EXCEPT !.qty = q]}
       /\ index' = index
  BY <1>4, Zenon DEF SetQty
<1>11. r \in RestingOrder
  BY <1>5, Zenon DEF RegistryInv, BookInv, BookOK, BookTypeOK
<1>12. registry' = [registry EXCEPT ![id] =
           [account |-> a, side |-> e.side, qty |-> q,
            notional |-> NotionalOf(p, q)]]
  BY <1>1, Zenon DEF Register
<1>13. registry \in [OrderId -> RegistryEntry \cup {None}]
  BY Zenon DEF RegistryInv, StageInv
<1>14. \A x \in resting : x.id = id => x = r
  BY <1>5, Zenon DEF RegistryInv, BookInv, BookOK, IndexExact
<1>15. ASSUME NEW i \in OrderId PROVE Mirrored(i)'
  <2>1. CASE i = id
    <3>1. ASSUME NEW x \in resting', x.id = id PROVE registry'[id] = EntryOf(x)'
      <4>1. x.side = r.side /\ x.price = p /\ x.qty = q
        BY <1>5, <1>10, <1>11, <1>14, <3>1, Zenon DEF RestingOrder
      <4> QED
        BY <1>7, <1>10, <1>12, <1>13, <3>1, <4>1, Zenon DEF EntryOf
    <3> QED
      BY <1>3, <1>10, <2>1, <3>1, Zenon DEF Mirrored
  <2>2. CASE i # id
    <3>1. \A x \in resting' : x.id = i => x \in resting
      BY <1>5, <1>10, <1>11, <2>2, Zenon DEF RestingOrder
    <3> QED
      BY <1>1, <1>10, <1>12, <1>13, <2>2, <3>1, MirrorFrame, Zenon DEF RegistryInv
  <2> QED
    BY <2>1, <2>2, Zenon
<1> QED
  BY <1>9, <1>15, Zenon DEF RegistryInv

-----------------------------------------------------------------------------
(* The walk.                                                               *)

\* What one fill of the walk does to the book, for the maker and the rest.
FillEffect(m, q) ==
  /\ m \in resting /\ m.id \in OrderId /\ index[m.id] # None /\ q \in Lots
  /\ fills' = Append(fills, FillOf(m, q))
  /\ \A i \in OrderId : i # m.id => index'[i] = index[i]
  /\ \A x \in resting' : x.id # m.id => x \in resting
  /\ q = m.qty => index'[m.id] = None /\ \A x \in resting' : x.id # m.id
  /\ q # m.qty => /\ index'[m.id] = index[m.id] /\ remaining' = 0
                  /\ \A x \in resting' : x.id = m.id =>
                       /\ x.side = m.side /\ x.price = m.price
                       /\ x.qty + q = m.qty

\* A full fill takes the maker out; a partial one leaves it with the rest of
\* its quantity and the taker with none.
LEMMA FillHeadEffect ==
  ASSUME BookInv, FillHead
  PROVE  \E m \in resting : \E q \in Lots : FillEffect(m, q)
<1>1. PICK m \in resting :
        /\ NextMaker(m)
        /\ IF FillQty(m) = m.qty THEN RemoveOrders({m})
           ELSE SetQty(m, m.qty - FillQty(m))
        /\ fills' = Append(fills, FillOf(m, FillQty(m)))
        /\ remaining' = remaining - FillQty(m)
  BY Zenon DEF FillHead
<1>2. PICK q : q = FillQty(m)
  BY Zenon
<1>3. /\ q \in Lots /\ q <= m.qty /\ remaining - q \in Nat
      /\ q # m.qty => q = remaining /\ m.qty - q \in Nat
  BY <1>2 DEF FillHead, FillQty, RegistryInv, BookInv, BookOK, BookTypeOK,
     WalkTypeOK, RestingOrder, Lots, WalkOver
<1>4. m \in RestingOrder /\ remaining \in Nat /\ index[m.id] # None
  BY <1>1, Zenon DEF BookInv, BookOK, BookTypeOK, WalkTypeOK, NextMaker
<1>5. m.id \in OrderId /\ m.qty \in Nat
  BY <1>4, Zenon DEF RestingOrder, Lots
<1>6. CASE q = m.qty
  <2>1. RemoveOrders({m}) /\ {m} \in SUBSET resting
    BY <1>1, <1>2, <1>6, Zenon
  <2>2. /\ \A i \in OrderId : i # m.id => index'[i] = index[i]
        /\ index'[m.id] = None
        /\ \A x \in resting' : x \in resting /\ x.id # m.id
    BY <2>1, RemoveFrame, Zenon DEF BookInv
  <2>3. FillEffect(m, q)
    BY <1>1, <1>2, <1>3, <1>4, <1>5, <1>6, <2>2, Zenon DEF FillEffect
  <2> QED
    BY <1>3, <2>3, Zenon
<1>7. CASE q # m.qty
  <2> DEFINE n == [m EXCEPT !.qty = m.qty - q]
  <2>1. resting' = (resting \ {m}) \cup {n} /\ index' = index
    BY <1>1, <1>2, <1>7, Zenon DEF SetQty
  <2>2. /\ n.id = m.id /\ n.side = m.side /\ n.price = m.price
        /\ n.qty = m.qty - q
    BY <1>4, Zenon DEF RestingOrder
  <2> HIDE DEF n
  <2>3. \A x \in resting : x.id = m.id => x = m
    BY Zenon DEF BookInv, BookOK, IndexExact
  <2>4. \A x \in resting' : x.id # m.id => x \in resting
    BY <2>1, <2>2, Zenon
  <2>5. \A x \in resting' : x.id = m.id => x = n
    BY <2>1, <2>3, Zenon
  <2>6. n.qty + q = m.qty /\ remaining' = 0
    <3>1. q \in Nat
      BY <1>3, Zenon DEF Lots
    <3> QED
      BY <1>1, <1>2, <1>3, <1>4, <1>5, <1>7, <2>2, <3>1
  <2>7. FillEffect(m, q)
    BY <1>1, <1>2, <1>3, <1>4, <1>5, <1>7, <2>1, <2>2, <2>4, <2>5, <2>6, Zenon
       DEF FillEffect
  <2> QED
    BY <1>3, <2>7, Zenon
<1> QED
  BY <1>6, <1>7, Zenon

\* While the walk runs a resting order is settled: it was not filled, since
\* every fill so far was a full one, and it is not the order being replaced.
LEMMA MakerSettled ==
  ASSUME RegistryInv, stage = "handler", phase = "walk", remaining > 0,
         stp = None, NEW i \in OrderId, index[i] # None
  PROVE  Settled(i) /\ \A j \in 1..Len(fills) : fills[j].maker # i
<1>1. HandlerInv /\ reported = 0
  BY Zenon DEF RegistryInv, HandlerInv, FillsInv
<1>2. Len(fills) \in Nat
  BY DEF RegistryInv, BookInv, WalkTypeOK
<1>3. \A j \in 1..Len(fills) : fills[j].full /\ Owed(fills[j])
  BY <1>1, <1>2 DEF HandlerInv, FillsInv
<1>4. \A j \in 1..Len(fills) : fills[j].maker # i
  BY <1>3 DEF Owed
<1>5. taker.origin = "replace" => i # taker.id
  BY <1>1, Zenon DEF HandlerInv, ReplaceInv
<1> QED
  BY <1>1, <1>2, <1>4, <1>5, NoneAssumption DEF Settled

\* The fills after one more: the old ones and the new one, at the end.
LEMMA OneMoreFill ==
  ASSUME fills \in Seq(Fill), NEW f \in Fill, fills' = Append(fills, f)
  PROVE  /\ Len(fills) \in Nat /\ Len(fills') = Len(fills) + 1
         /\ fills'[Len(fills) + 1] = f
         /\ \A j \in 1..Len(fills) : fills'[j] = fills[j]
         /\ 1..Len(fills') = 1..Len(fills) \cup {Len(fills) + 1}
OBVIOUS

\* A fill of the walk leaves the maker's entry as it was, which is what the
\* fill owes, and nothing else differs.
LEMMA FillHeadKeepsRegistry ==
  ASSUME RegistryInv, BookInv', stage = "handler", FillHead,
         UNCHANGED engineVars
  PROVE  RegistryInv'
<1>1. /\ phase = "walk" /\ ~WalkOver
      /\ UNCHANGED <<phase, taker, stp, stage, registry, reported>>
  BY Zenon DEF FillHead, engineVars, stepVars, riskVars
<1>2. HandlerInv /\ reported = 0 /\ remaining > 0 /\ stp = None
  BY <1>1 DEF RegistryInv, HandlerInv, FillsInv, WalkOver, BookInv, WalkTypeOK
<1>3. PICK m \in resting, q \in Lots : FillEffect(m, q)
  BY FillHeadEffect, Zenon DEF RegistryInv
<1>4. PICK f : f = FillOf(m, q)
  BY Zenon
<1>5. /\ m.id \in OrderId /\ index[m.id] # None /\ m \in RestingOrder
      /\ f \in Fill /\ f.maker = m.id /\ f.price = m.price /\ f.qty = q
      /\ f.full = (q = m.qty)
  BY <1>3, <1>4, Zenon DEF FillEffect, FillOf, Fill, RestingOrder, RegistryInv,
     BookInv, BookOK, BookTypeOK
<1>6. Settled(m.id) /\ \A j \in 1..Len(fills) : fills[j].maker # m.id
  BY <1>1, <1>2, <1>5, MakerSettled, Zenon
<1>7. registry[m.id] = EntryOf(m) /\ EntryOf(m) \in RegistryEntry
  BY <1>2, <1>5, <1>6, EntryTyped, Zenon DEF HandlerInv, Mirrored, RegistryInv, BookInv
<1>8. /\ Len(fills) \in Nat /\ Len(fills') = Len(fills) + 1
      /\ fills'[Len(fills) + 1] = f
      /\ \A j \in 1..Len(fills) : fills'[j] = fills[j]
      /\ 1..Len(fills') = 1..Len(fills) \cup {Len(fills) + 1}
  BY <1>3, <1>4, <1>5, OneMoreFill, Zenon
     DEF FillEffect, RegistryInv, BookInv, WalkTypeOK
<1>9. StageInv'
  BY <1>1, <1>2, <1>8 DEF RegistryInv, StageInv
<1>10. Owed(f)'
  <2>1. CASE q = m.qty
    <3>1. index'[m.id] = None
      BY <1>3, <2>1, Zenon DEF FillEffect
    <3>2. registry[m.id].qty = q /\ registry[m.id].notional = NotionalOf(m.price, q)
      BY <1>7, <2>1 DEF EntryOf
    <3> QED
      BY <1>1, <1>5, <1>7, <2>1, <3>1, <3>2, Zenon DEF Owed
  <2>2. CASE q # m.qty
    <3>1. ASSUME NEW x \in resting', x.id = m.id
          PROVE  x.price = m.price /\ registry[m.id] = EntryBefore(x, q)'
      BY <1>3, <1>7, <2>2, <3>1, Zenon DEF FillEffect, EntryOf, EntryBefore
    <3>2. index'[m.id] # None
      BY <1>3, <1>5, <2>2, Zenon DEF FillEffect
    <3> QED
      BY <1>1, <1>5, <1>7, <2>2, <3>1, <3>2, Zenon DEF Owed
  <2> QED
    BY <2>1, <2>2, Zenon
<1>11. \A j \in 1..Len(fills) : Owed(fills[j])'
  <2> SUFFICES ASSUME NEW j \in 1..Len(fills) PROVE Owed(fills[j])'
    BY Zenon
  <2>1. PICK g : g = fills[j]
    BY Zenon
  <2>2. g \in Fill /\ g.maker \in OrderId /\ g.maker # m.id /\ Owed(g)
    <3>1. fills \in Seq(Fill)
      BY Zenon DEF RegistryInv, BookInv, WalkTypeOK
    <3>2. g \in Fill
      BY <1>8, <2>1, <3>1
    <3>3. Owed(g)
      BY <1>2, <1>8, <2>1 DEF HandlerInv, FillsInv
    <3> QED
      BY <1>6, <2>1, <3>2, <3>3, Zenon DEF Fill
  <2>3. Owed(g)'
    BY <1>1, <1>3, <2>2, OwedFrame, Zenon DEF FillEffect
  <2> QED
    BY <1>8, <2>1, <2>3, Zenon
<1>12. FillsInv'
  <2>1. phase' = "walk" => reported' = 0
    BY <1>1, <1>2, Zenon
  <2>2. remaining' > 0 => \A j \in 1..Len(fills') : fills'[j].full
    <3>1. \A j \in 1..Len(fills) : fills[j].full
      BY <1>2, Zenon DEF HandlerInv, FillsInv
    <3>2. remaining' > 0 => f.full
      <4>1. remaining' > 0 => q = m.qty
        BY <1>3 DEF FillEffect
      <4> QED
        BY <1>5, <4>1, Zenon
    <3> QED
      BY <1>8, <3>1, <3>2, Zenon
  <2>3. \A j, k \in 1..Len(fills') :
          fills'[j].maker = fills'[k].maker => j = k
    <3>1. \A j, k \in 1..Len(fills) :
            fills[j].maker = fills[k].maker => j = k
      BY <1>2, Zenon DEF HandlerInv, FillsInv
    <3> QED
      BY <1>5, <1>6, <1>8, <3>1
  <2>4. \A j \in 1..Len(fills') : Owed(fills[j])'
    BY <1>8, <1>10, <1>11, Zenon
  <2> QED
    BY <1>1, <1>2, <1>8, <2>1, <2>2, <2>3, <2>4 DEF FillsInv
<1>13. StpInv'
  BY <1>1, <1>2, Zenon DEF StpInv
<1>14. ReplaceInv'
  <2> SUFFICES ASSUME taker.origin = "replace" PROVE ReplaceInv'
    BY <1>1, Zenon DEF ReplaceInv
  <2>1. /\ taker.id # stp /\ index[taker.id] = None /\ OwnEntry(taker.id)
        /\ \A j \in 1..Len(fills) : fills[j].maker # taker.id
    BY <1>1, <1>2, Zenon DEF HandlerInv, ReplaceInv
  <2>2. taker.id \in OrderId /\ taker.id # m.id
    BY <1>1, <1>5, <2>1, Zenon DEF RegistryInv, BookInv, WalkTypeOK, WalkState, Taker
  <2>3. index'[taker.id] = None /\ OwnEntry(taker.id)'
    BY <1>1, <1>3, <2>1, <2>2, Zenon DEF FillEffect, OwnEntry
  <2>4. ASSUME NEW j \in 1..Len(fills') PROVE fills'[j].maker # taker.id
    BY <1>5, <1>8, <2>1, <2>2, Zenon
  <2> QED
    BY <1>1, <2>1, <2>3, <2>4, Zenon DEF ReplaceInv
<1>15. ASSUME NEW i \in OrderId, Settled(i)' PROVE Mirrored(i)'
  <2>1. i # m.id
    <3>1. Len(fills) + 1 \in (reported' + 1)..Len(fills')
      BY <1>1, <1>2, <1>8
    <3>2. fills'[Len(fills) + 1].maker # i
      BY <1>15, <3>1, Zenon DEF Settled
    <3> QED
      BY <1>5, <1>8, <3>2, Zenon
  <2>2. Settled(i)
    BY <1>1, <1>2, <1>8, <1>15 DEF Settled
  <2>3. Mirrored(i)
    BY <1>2, <2>2, Zenon DEF HandlerInv
  <2> QED
    BY <1>1, <1>3, <2>1, <2>3, MirrorFrame, Zenon DEF FillEffect
<1> QED
  BY <1>1, <1>9, <1>12, <1>13, <1>14, <1>15, Zenon DEF RegistryInv, HandlerInv

\* Self-trade prevention takes a settled order out of the book, and its entry
\* stays for the handler to take out.
LEMMA StpHeadKeepsRegistry ==
  ASSUME RegistryInv, BookInv', stage = "handler", StpHead,
         UNCHANGED engineVars
  PROVE  RegistryInv'
<1>1. /\ phase = "walk" /\ ~WalkOver
      /\ UNCHANGED <<phase, taker, remaining, fills>>
      /\ UNCHANGED <<stage, registry, reported>>
  BY Zenon DEF StpHead, engineVars, stepVars, riskVars
<1>2. HandlerInv /\ reported = 0 /\ remaining > 0 /\ stp = None
  BY <1>1 DEF RegistryInv, HandlerInv, FillsInv, WalkOver, BookInv, WalkTypeOK
<1>3. PICK m \in resting :
        NextMaker(m) /\ SelfTrade(m) /\ RemoveOrders({m}) /\ stp' = m.id
  BY Zenon DEF StpHead
<1>4. m.id \in OrderId /\ index[m.id] # None
  BY <1>3, Zenon DEF NextMaker, RegistryInv, BookInv, BookOK, BookTypeOK, RestingOrder
<1>5. /\ \A i \in OrderId : i # m.id => index'[i] = index[i]
      /\ index'[m.id] = None
      /\ \A x \in resting' : x \in resting /\ x.id # m.id
  BY <1>3, RemoveFrame DEF RegistryInv, BookInv
<1>6. Settled(m.id) /\ \A j \in 1..Len(fills) : fills[j].maker # m.id
  BY <1>1, <1>2, <1>4, MakerSettled, Zenon
<1>7. registry[m.id] = EntryOf(m) /\ EntryOf(m) \in RegistryEntry
  BY <1>2, <1>4, <1>6, EntryTyped, Zenon DEF HandlerInv, Mirrored, RegistryInv, BookInv
<1>8. StageInv'
  BY <1>1, Zenon DEF RegistryInv, StageInv
<1>9. StpInv'
  <2>1. registry[m.id] # None
    BY <1>7, EntryAssumption, Zenon
  <2>2. registry[m.id].account = taker.account
    BY <1>3, <1>7 DEF EntryOf, SelfTrade
  <2> QED
    BY <1>1, <1>3, <1>5, <1>6, <2>1, <2>2, Zenon DEF StpInv, OwnEntry
<1>10. FillsInv'
  <2>1. \A j \in 1..Len(fills) : Owed(fills[j])'
    <3> SUFFICES ASSUME NEW j \in 1..Len(fills) PROVE Owed(fills[j])'
      BY Zenon
    <3>1. PICK g : g = fills[j]
      BY Zenon
    <3>2. fills \in Seq(Fill) /\ Len(fills) \in Nat
      BY DEF RegistryInv, BookInv, WalkTypeOK
    <3>3. g \in Fill /\ g.maker # m.id
      BY <1>6, <3>1, <3>2
    <3>4. Owed(g)
      BY <1>2, <3>1, <3>2 DEF HandlerInv, FillsInv
    <3>5. Owed(g)'
      BY <1>1, <1>5, <3>3, <3>4, OwedFrame, Zenon DEF Fill
    <3> QED
      BY <1>1, <3>1, <3>5, Zenon
  <2> QED
    BY <1>1, <1>2, <2>1 DEF FillsInv, HandlerInv
<1>11. ReplaceInv'
  <2> SUFFICES ASSUME taker.origin = "replace" PROVE ReplaceInv'
    BY <1>1, Zenon DEF ReplaceInv
  <2>1. /\ index[taker.id] = None /\ OwnEntry(taker.id)
        /\ \A j \in 1..Len(fills) : fills[j].maker # taker.id
    BY <1>1, <1>2, Zenon DEF HandlerInv, ReplaceInv
  <2>2. taker.id \in OrderId /\ taker.id # m.id
    BY <1>1, <1>4, <2>1, Zenon DEF RegistryInv, BookInv, WalkTypeOK, WalkState, Taker
  <2>3. index'[taker.id] = None /\ OwnEntry(taker.id)'
    BY <1>1, <1>5, <2>1, <2>2, Zenon DEF OwnEntry
  <2> QED
    BY <1>1, <1>3, <2>1, <2>2, <2>3, Zenon DEF ReplaceInv
<1>12. ASSUME NEW i \in OrderId, Settled(i)' PROVE Mirrored(i)'
  <2>1. i # m.id
    BY <1>3, <1>12, Zenon DEF Settled
  <2>2. Settled(i)
    BY <1>1, <1>2, <1>12, NoneAssumption, Zenon DEF Settled
  <2>3. Mirrored(i)
    BY <1>2, <2>2, Zenon DEF HandlerInv
  <2> QED
    BY <1>1, <1>5, <2>1, <2>3, MirrorFrame, Zenon
<1> QED
  BY <1>1, <1>8, <1>9, <1>10, <1>11, <1>12, Zenon DEF RegistryInv, HandlerInv

\* When replace returns, what is left of its order rests under its id, unless
\* self-trade prevention stopped it or nothing is left; no other id changes.
LEMMA ReturnEffect ==
  ASSUME BookInv, phase = "walk", taker.origin = "replace",
         index[taker.id] = None, ReturnFromWalk
  PROVE  /\ \A i \in OrderId : i # taker.id => index'[i] = index[i]
         /\ \A x \in resting' : x.id # taker.id => x \in resting
         /\ index'[taker.id] # None <=> stp = None /\ remaining > 0
         /\ index'[taker.id] # None => index'[taker.id].account = taker.account
         /\ \A x \in resting' : x.id = taker.id =>
              x.side = taker.side /\ x.price = taker.limit /\ x.qty = remaining
<1>1. taker \in Taker
  BY Zenon DEF BookInv, WalkTypeOK, WalkState
<1>2. \A x \in resting : x.id # taker.id
  BY Zenon DEF BookInv, BookOK, BookTypeOK, IndexExact, RestingOrder
<1>3. CASE stp = None /\ remaining > 0
  <2> DEFINE meta == [side |-> taker.side, price |-> taker.limit,
                      account |-> taker.account, tif |-> taker.tif]
             s == [id |-> taker.id, side |-> taker.side,
                   price |-> taker.limit, qty |-> remaining, ts |-> seq + 1]
  <2>1. resting' = resting \cup {s} /\ index' = [index EXCEPT ![taker.id] = meta]
    BY <1>3, Zenon DEF ReturnFromWalk, AddResidual, AddResting
  <2>2. taker.id \in OrderId /\ index \in [OrderId -> OrderMeta \cup {None}]
    BY <1>1, Zenon DEF Taker, BookInv, BookOK, BookTypeOK
  <2>3. meta # None
    <3>1. meta \in OrderMeta
      BY <1>1, Zenon DEF OrderMeta, Taker, BookInv, WalkState
    <3> QED
      BY <3>1, NoneAssumption, Zenon
  <2>4. meta.account = taker.account
    BY Zenon
  <2>5. /\ s.id = taker.id /\ s.side = taker.side /\ s.price = taker.limit
        /\ s.qty = remaining
    BY Zenon
  <2> HIDE DEF meta, s
  <2> QED
    BY <1>2, <1>3, <2>1, <2>2, <2>3, <2>4, <2>5, Zenon
<1>4. CASE ~(stp = None /\ remaining > 0)
  <2>1. resting' = resting /\ index' = index
    BY <1>4, Zenon DEF ReturnFromWalk, bookVars
  <2> QED
    BY <1>2, <1>4, <2>1, Zenon
<1> QED
  BY <1>3, <1>4, Zenon

\* The walk of a new order returns: nothing changes but the phase.
LEMMA ReturnNewKeepsRegistry ==
  ASSUME RegistryInv, BookInv', stage = "handler", MatchReturns,
         taker.origin # "replace"
  PROVE  RegistryInv'
<1>1. /\ phase = "walk" /\ phase' = "done"
      /\ UNCHANGED <<bookVars, taker, remaining, fills, stp>>
      /\ UNCHANGED <<stage, registry, reported>>
  BY Zenon DEF MatchReturns, WalkEnd, SnapshotFails, ReturnFromWalk
<1>2. HandlerInv
  BY Zenon DEF RegistryInv
<1>3. UNCHANGED <<resting, index>>
  BY <1>1, Zenon DEF bookVars
<1>4. StageInv'
  BY <1>1, Zenon DEF RegistryInv, StageInv
<1>5. FillsInv'
  <2>1. \A j \in (reported + 1)..Len(fills) : Owed(fills[j])'
    BY <1>1, <1>2, <1>3, Zenon DEF HandlerInv, FillsInv, Owed, EntryBefore
  <2> QED
    BY <1>1, <1>2, <2>1, Zenon DEF FillsInv, HandlerInv
<1>6. StpInv' /\ ReplaceInv'
  BY <1>1, <1>2, <1>3, Zenon DEF StpInv, ReplaceInv, OwnEntry, HandlerInv
<1>7. ASSUME NEW i \in OrderId, Settled(i)' PROVE Mirrored(i)'
  <2>1. Settled(i)
    BY <1>1, <1>7, Zenon DEF Settled
  <2> QED
    BY <1>1, <1>2, <1>3, <2>1, MirrorFrame, Zenon DEF HandlerInv
<1> QED
  BY <1>1, <1>4, <1>5, <1>6, <1>7, Zenon DEF RegistryInv, HandlerInv

\* The walk of a replace returns: the old entry goes, and what is left of the
\* order rests without one.
LEMMA ReturnReplaceKeepsRegistry ==
  ASSUME RegistryInv, BookInv', stage = "handler", MatchReturns,
         taker.origin = "replace"
  PROVE  RegistryInv'
<1>1. /\ phase = "walk" /\ phase' = "done" /\ ReturnFromWalk
      /\ UNCHANGED <<taker, remaining, fills, stp>>
      /\ UNCHANGED <<stage, reported>>
      /\ Forget(taker.account, {taker.id})
  BY Zenon DEF MatchReturns, WalkEnd, SnapshotFails, ReturnFromWalk,
     AcknowledgeReplace
<1>2. HandlerInv /\ taker \in Taker /\ taker.id \in OrderId
  BY <1>1, Zenon DEF RegistryInv, BookInv, WalkTypeOK, WalkState, Taker
<1>3. /\ index[taker.id] = None /\ OwnEntry(taker.id) /\ taker.id # stp
      /\ \A j \in 1..Len(fills) : fills[j].maker # taker.id
  BY <1>1, <1>2, Zenon DEF HandlerInv, ReplaceInv
<1>4. /\ \A i \in OrderId : i # taker.id => index'[i] = index[i]
      /\ \A x \in resting' : x.id # taker.id => x \in resting
      /\ index'[taker.id] # None <=> stp = None /\ remaining > 0
      /\ index'[taker.id] # None => index'[taker.id].account = taker.account
      /\ \A x \in resting' : x.id = taker.id =>
           x.side = taker.side /\ x.price = taker.limit /\ x.qty = remaining
  BY <1>1, <1>3, ReturnEffect, Zenon DEF RegistryInv
<1>5. registry' = [i \in OrderId |-> IF i = taker.id THEN None ELSE registry[i]]
  BY <1>1, Zenon DEF Forget
<1>6. StageInv'
  <2>1. registry' \in [OrderId -> RegistryEntry \cup {None}]
    BY <1>1, ForgetTyped, Zenon DEF RegistryInv, StageInv
  <2> QED
    BY <1>1, <2>1, Zenon DEF RegistryInv, StageInv
<1>7. fills \in Seq(Fill) /\ Len(fills) \in Nat /\ reported \in Nat
  BY DEF RegistryInv, BookInv, WalkTypeOK, StageInv
<1>8. FillsInv'
  <2>1. \A j \in (reported + 1)..Len(fills) : Owed(fills[j])'
    <3> SUFFICES ASSUME NEW j \in (reported + 1)..Len(fills)
                 PROVE  Owed(fills[j])'
      BY Zenon
    <3>1. PICK g : g = fills[j]
      BY Zenon
    <3>2. g \in Fill /\ g.maker # taker.id
      BY <1>3, <1>7, <3>1
    <3>3. Owed(g)
      BY <1>2, <3>1, Zenon DEF HandlerInv, FillsInv
    <3>4. Owed(g)'
      BY <1>4, <1>5, <3>2, <3>3, OwedFrame, Zenon DEF Fill
    <3> QED
      BY <1>1, <3>1, <3>4, Zenon
  <2> QED
    BY <1>1, <1>2, <2>1, Zenon DEF FillsInv, HandlerInv
<1>9. StpInv'
  <2> SUFFICES ASSUME stp # None PROVE StpInv'
    BY <1>1, Zenon DEF StpInv
  <2>1. stp \in OrderId /\ stp # taker.id
    BY <1>3, Zenon DEF RegistryInv, BookInv, WalkTypeOK
  <2>2. index[stp] = None /\ OwnEntry(stp)
    BY <1>2, Zenon DEF HandlerInv, StpInv
  <2>3. index'[stp] = None /\ registry'[stp] = registry[stp]
    BY <1>4, <1>5, <2>1, <2>2, Zenon
  <2>4. OwnEntry(stp)'
    BY <1>1, <2>2, <2>3, Zenon DEF OwnEntry
  <2> QED
    BY <1>1, <1>2, <2>3, <2>4, Zenon DEF StpInv, HandlerInv
<1>10. ReplaceInv'
  BY <1>1, <1>2, <1>3, <1>4, <1>5, Zenon DEF ReplaceInv
<1>11. ASSUME NEW i \in OrderId, Settled(i)' PROVE Mirrored(i)'
  <2>1. Settled(i) /\ i # taker.id
    BY <1>1, <1>11, Zenon DEF Settled
  <2> QED
    BY <1>1, <1>2, <1>4, <1>5, <2>1, MirrorFrame, Zenon DEF HandlerInv
<1> QED
  BY <1>1, <1>6, <1>8, <1>9, <1>10, <1>11, Zenon DEF RegistryInv, HandlerInv

-----------------------------------------------------------------------------
(* Reports and dispositions.                                               *)

\* Notionals add up: price times a sum of lots.
LEMMA NotionalAdds ==
  ASSUME NEW p \in Nat, p # 0, NEW m \in Lots, NEW n \in Lots
  PROVE  /\ NotionalOf(p, m) \in Nat /\ NotionalOf(p, n) \in Nat
         /\ NotionalOf(p, m) > 0
         /\ NotionalOf(p, m + n) = NotionalOf(p, m) + NotionalOf(p, n)
<1>1. m \in Nat /\ n \in Nat /\ m > 0
  BY DEF Lots
<1>2. p * m \in Nat /\ p * n \in Nat
  BY <1>1
<1>3. p * (m + n) = p * m + p * n
  BY <1>1
<1>4. p * m > 0
  BY <1>1
<1> QED
  BY <1>2, <1>3, <1>4, Zenon DEF NotionalOf

\* Booking a fill gives the maker the entry it has in the book, and frees no
\* more than the entry held.
LEMMA EntryAfterFill ==
  ASSUME BookOK, NEW f \in Fill, Owed(f)
  PROVE  /\ Consumed(registry[f.maker], f) \in Nat
         /\ Consumed(registry[f.maker], f) <= registry[f.maker].notional
         /\ EntryAfter(registry[f.maker], f) \in RegistryEntry \cup {None}
         /\ f.full => EntryAfter(registry[f.maker], f) = None
         /\ ~f.full =>
              /\ EntryAfter(registry[f.maker], f) \in RegistryEntry
              /\ EntryAfter(registry[f.maker], f).account =
                   registry[f.maker].account
              /\ EntryAfter(registry[f.maker], f).notional =
                   registry[f.maker].notional - Consumed(registry[f.maker], f)
         /\ \A r \in resting : r.id = f.maker =>
              EntryAfter(registry[f.maker], f) = EntryOf(r)
<1>1. PICK e : e = registry[f.maker]
  BY Zenon
<1>2. e \in RegistryEntry /\ e.notional \in Nat /\ f.maker \in OrderId
  BY <1>1, Zenon DEF Owed, RegistryEntry, Fill
<1>3. CASE f.full
  <2>1. \A r \in resting : r.id # f.maker
    BY <1>2, <1>3, Zenon DEF Owed, BookOK, IndexExact
  <2> QED
    BY <1>1, <1>2, <1>3, <2>1 DEF Consumed, EntryAfter
<1>4. CASE ~f.full
  <2>1. PICK r \in resting : r.id = f.maker
    BY <1>2, <1>4, Zenon DEF Owed, BookOK, IndexExact
  <2>2. r.price = f.price /\ e = EntryBefore(r, f.qty)
    BY <1>1, <1>4, <2>1, Zenon DEF Owed
  <2>3. \A x \in resting : x.id = f.maker => x = r
    BY <2>1 DEF BookOK, IndexExact
  <2>4. r.price \in Nat /\ r.price # 0 /\ r.qty \in Lots /\ f.qty \in Lots
    BY PricePositive, Zenon DEF BookOK, BookTypeOK, RestingOrder, Fill
  <2>5. PICK m : m = NotionalOf(r.price, r.qty)
    BY Zenon
  <2>6. PICK n : n = NotionalOf(r.price, f.qty)
    BY Zenon
  <2>7. /\ m \in Nat /\ n \in Nat /\ m > 0
        /\ NotionalOf(r.price, r.qty + f.qty) = m + n
    BY <2>4, <2>5, <2>6, NotionalAdds, Zenon
  <2>8. /\ e.account = index[r.id].account /\ e.side = r.side
        /\ e.qty = r.qty + f.qty /\ e.notional = m + n
    BY <2>2, <2>7, Zenon DEF EntryBefore
  <2>9. Consumed(e, f) = n
    BY <1>4, <2>2, <2>6, Zenon DEF Consumed
  <2>10. EntryAfter(e, f) = [e EXCEPT !.qty = r.qty, !.notional = m]
    <3>1. SaturatingSub(e.qty, f.qty) = r.qty
      BY <2>4, <2>8 DEF SaturatingSub, Lots
    <3>2. SaturatingSub(e.notional, n) = m
      BY <2>7, <2>8 DEF SaturatingSub
    <3> QED
      BY <1>4, <2>9, <3>1, <3>2, Zenon DEF EntryAfter
  <2>11. PICK x : x = EntryAfter(e, f)
    BY Zenon
  <2>12. PICK y : y = EntryOf(r)
    BY Zenon
  <2>13. /\ x \in RegistryEntry /\ x.account = e.account /\ x.side = e.side
         /\ x.qty = r.qty /\ x.notional = m
    BY <1>2, <2>4, <2>7, <2>10, <2>11, Zenon DEF RegistryEntry
  <2>14. y \in RegistryEntry
    <3>1. 0 \in Nat
      BY Zenon
    <3> QED
      BY <2>12, <3>1, EntryTyped, Zenon
  <2>15. /\ y.account = index[r.id].account /\ y.side = r.side
         /\ y.qty = r.qty /\ y.notional = m
    BY <2>5, <2>12, Zenon DEF EntryOf
  <2>16. x = y
    BY <2>8, <2>13, <2>14, <2>15 DEF RegistryEntry
  <2>17. m + n - n = m /\ n <= m + n
    BY <2>7
  <2> QED
    BY <1>1, <1>4, <2>3, <2>7, <2>8, <2>9, <2>11, <2>12, <2>13, <2>16, <2>17
<1> QED
  BY <1>3, <1>4, Zenon

\* A report books its fill: the maker's debt is paid, the others stay.
LEMMA ReportFillKeepsRegistry ==
  ASSUME RegistryInv, BookInv', ReportFill
  PROVE  RegistryInv'
<1>1. PICK f : f = fills[reported + 1]
  BY Zenon
<1>2. /\ stage = "handler" /\ phase = "done" /\ reported < Len(fills)
      /\ reported' = reported + 1 /\ UNCHANGED <<vars, stage>>
      /\ registry' = [registry EXCEPT ![f.maker] =
                        EntryAfter(registry[f.maker], f)]
  BY <1>1, Zenon DEF ReportFill
<1>3. UNCHANGED <<resting, index, phase, taker, remaining, fills, stp>>
  BY <1>2, Zenon DEF vars, bookVars, walkVars
<1>4. HandlerInv /\ StageInv /\ BookOK
  BY <1>2, Zenon DEF RegistryInv, BookInv
<1>5. fills \in Seq(Fill) /\ Len(fills) \in Nat /\ reported \in Nat
  BY DEF RegistryInv, BookInv, WalkTypeOK, StageInv
<1>6. reported + 1 \in (reported + 1)..Len(fills) /\ f \in Fill
  BY <1>1, <1>2, <1>5
<1>7. Owed(f) /\ f.maker \in OrderId
  BY <1>1, <1>4, <1>6, Zenon DEF HandlerInv, FillsInv, Fill
<1>8. /\ Consumed(registry[f.maker], f) \in Nat
      /\ EntryAfter(registry[f.maker], f) \in RegistryEntry \cup {None}
      /\ f.full => EntryAfter(registry[f.maker], f) = None
      /\ \A r \in resting : r.id = f.maker =>
           EntryAfter(registry[f.maker], f) = EntryOf(r)
  BY <1>4, <1>6, <1>7, EntryAfterFill, Zenon
<1>9. /\ registry'[f.maker] = EntryAfter(registry[f.maker], f)
      /\ \A i \in OrderId : i # f.maker => registry'[i] = registry[i]
  BY <1>2, <1>4, <1>7, Zenon DEF StageInv
<1>10. StageInv'
  <2>1. registry' \in [OrderId -> RegistryEntry \cup {None}]
    BY <1>2, <1>4, <1>8, Zenon DEF StageInv
  <2> QED
    BY <1>2, <1>3, <1>4, <1>5, <2>1 DEF StageInv
<1>11. FillsInv'
  <2>1. \A j \in (reported + 2)..Len(fills) : Owed(fills[j])'
    <3> SUFFICES ASSUME NEW j \in (reported + 2)..Len(fills)
                 PROVE  Owed(fills[j])'
      BY Zenon
    <3>1. PICK g : g = fills[j]
      BY Zenon
    <3>2. /\ j \in 1..Len(fills) /\ reported + 1 \in 1..Len(fills)
          /\ j \in (reported + 1)..Len(fills) /\ j # reported + 1
      BY <1>2, <1>5
    <3>3. g \in Fill /\ g.maker # f.maker /\ Owed(g)
      BY <1>1, <1>4, <1>5, <3>1, <3>2 DEF HandlerInv, FillsInv
    <3>4. Owed(g)'
      BY <1>3, <1>9, <3>3, OwedFrame, Zenon DEF Fill
    <3> QED
      BY <1>3, <3>1, <3>4, Zenon
  <2>2. (reported' + 1)..Len(fills') = (reported + 2)..Len(fills)
    BY <1>2, <1>3, <1>5
  <2> QED
    BY <1>2, <1>3, <1>4, <2>1, <2>2, Zenon DEF FillsInv, HandlerInv
<1>12. reported + 1 \in 1..Len(fills)
  BY <1>2, <1>5
<1>13. StpInv'
  <2> SUFFICES ASSUME stp # None PROVE StpInv'
    BY <1>3, Zenon DEF StpInv
  <2>1. stp \in OrderId /\ stp # f.maker
    BY <1>1, <1>4, <1>12, Zenon DEF RegistryInv, BookInv, WalkTypeOK, HandlerInv, StpInv
  <2>2. OwnEntry(stp)'
    BY <1>3, <1>4, <1>9, <2>1, Zenon DEF OwnEntry, HandlerInv, StpInv
  <2> QED
    BY <1>3, <1>4, <2>2, Zenon DEF StpInv, HandlerInv
<1>14. ReplaceInv'
  <2> SUFFICES ASSUME taker.origin = "replace" PROVE ReplaceInv'
    BY <1>3, Zenon DEF ReplaceInv
  <2>1. taker.id \in OrderId /\ taker.id # f.maker
    BY <1>1, <1>2, <1>4, <1>12, Zenon
       DEF RegistryInv, BookInv, WalkTypeOK, WalkState, Taker, HandlerInv,
           ReplaceInv
  <2> QED
    BY <1>2, <1>3, <1>4, <1>9, <2>1, Zenon DEF ReplaceInv, HandlerInv
<1>15. ASSUME NEW i \in OrderId, Settled(i)' PROVE Mirrored(i)'
  <2>1. CASE i = f.maker
    <3>1. index[i] = None => f.full
      BY <1>7, <2>1, Zenon DEF Owed
    <3>2. \A r \in resting : r.id = i => registry'[i] = EntryOf(r)'
      BY <1>3, <1>8, <1>9, <2>1, Zenon DEF EntryOf
    <3> QED
      BY <1>3, <1>8, <1>9, <2>1, <3>1, <3>2, Zenon DEF Mirrored
  <2>2. CASE i # f.maker
    <3>1. Settled(i)
      <4>1. \A j \in (reported + 1)..Len(fills) :
              j = reported + 1 \/ j \in (reported' + 1)..Len(fills')
        BY <1>2, <1>3, <1>5
      <4> QED
        BY <1>1, <1>3, <1>15, <2>2, <4>1, Zenon DEF Settled
    <3> QED
      BY <1>3, <1>4, <1>9, <2>2, <3>1, MirrorFrame, Zenon DEF HandlerInv
  <2> QED
    BY <2>1, <2>2, Zenon
<1> QED
  BY <1>2, <1>10, <1>11, <1>13, <1>14, <1>15, Zenon DEF RegistryInv, HandlerInv

\* Once all fills are reported the registry mirrors every order but the one
\* self-trade prevention took out and the one that was replaced.
LEMMA ReportedMirrored ==
  ASSUME RegistryInv, AllReported
  PROVE  /\ HandlerInv /\ StageInv /\ BookOK /\ BookTypeOK /\ IndexExact
         /\ taker \in Taker
         /\ \A i \in OrderId :
              i # stp /\ (taker.origin = "replace" => i # taker.id)
                => Mirrored(i)
         /\ taker.origin = "replace" =>
              /\ registry[taker.id] = None /\ taker.id # stp
              /\ index[taker.id] # None <=> stp = None /\ remaining > 0
              /\ index[taker.id] # None => index[taker.id].account = taker.account
              /\ \A r \in resting : r.id = taker.id =>
                   r.side = taker.side /\ r.price = taker.limit
                     /\ r.qty = remaining
<1>1. stage = "handler" /\ phase = "done" /\ reported = Len(fills)
  BY Zenon DEF AllReported
<1>2. HandlerInv /\ StageInv /\ BookOK /\ BookTypeOK /\ IndexExact
  BY <1>1, Zenon DEF RegistryInv, BookInv, BookOK
<1>3. taker \in Taker
  BY <1>1, Zenon DEF RegistryInv, BookInv, WalkTypeOK, WalkState
<1>4. \A j \in (reported + 1)..Len(fills) : FALSE
  BY <1>1 DEF RegistryInv, BookInv, WalkTypeOK
<1>5. \A i \in OrderId :
        i # stp /\ (taker.origin = "replace" => i # taker.id) => Mirrored(i)
  BY <1>2, <1>4, Zenon DEF HandlerInv, Settled
<1> QED
  BY <1>1, <1>2, <1>3, <1>5, Zenon DEF HandlerInv, ReplaceInv

\* The handler returns with the book and the registry in agreement.
LEMMA EndKeepsRegistry ==
  ASSUME RegistryInv, BookInv', EndWalk, Release,
         registry' \in [OrderId -> RegistryEntry \cup {None}],
         \A i \in OrderId : Mirrored(i)'
  PROVE  RegistryInv'
<1>1. stage' = "tail" /\ reported' = 0 /\ phase' = "idle" /\ Len(fills') = 0
  BY Zenon DEF EndWalk, Release
<1>2. StageInv'
  BY <1>1 DEF StageInv
<1> QED
  BY <1>1, <1>2, Zenon DEF RegistryInv

\* A result is dropped, nothing was prevented and nothing rests unbooked.
LEMMA DropKeepsRegistry ==
  ASSUME RegistryInv, BookInv', AllReported, stp = None,
         taker.origin = "replace" => remaining = 0,
         DropResult, EndWalk, registry' = registry
  PROVE  RegistryInv'
<1>1. Release /\ UNCHANGED <<resting, index>>
  BY Zenon DEF DropResult, bookVars
<1>2. ASSUME NEW i \in OrderId PROVE Mirrored(i)
  <2>1. CASE taker.origin = "replace" /\ i = taker.id
    <3>1. index[i] = None /\ registry[i] = None
      BY <2>1, ReportedMirrored
    <3> QED
      BY <3>1, ReportedMirrored, Zenon DEF Mirrored, IndexExact
  <2>2. CASE ~(taker.origin = "replace" /\ i = taker.id)
    BY <2>2, ReportedMirrored, NoneAssumption, Zenon
  <2> QED
    BY <2>1, <2>2, Zenon
<1>3. \A i \in OrderId : Mirrored(i)'
  BY <1>1, <1>2, MirrorFrame, Zenon
<1> QED
  BY <1>1, <1>3, EndKeepsRegistry, Zenon DEF RegistryInv, StageInv

\* Self-trade prevention: the entry of the order taken out goes too.
LEMMA DisposeStpKeepsRegistry ==
  ASSUME RegistryInv, BookInv', DisposeStp
  PROVE  RegistryInv'
<1>1. /\ AllReported /\ stp # None /\ EndWalk /\ Release
      /\ UNCHANGED <<resting, index>> /\ Forget(taker.account, {stp})
  BY Zenon DEF DisposeStp, DropResult, bookVars
<1>2. stp \in OrderId /\ index[stp] = None /\ registry[stp] # None
  BY <1>1, ReportedMirrored, Zenon
     DEF RegistryInv, BookInv, WalkTypeOK, HandlerInv, StpInv, OwnEntry
<1>3. registry' \in [OrderId -> RegistryEntry \cup {None}]
  BY <1>1, ForgetTyped, Zenon DEF RegistryInv, StageInv
<1>4. registry' = [i \in OrderId |-> IF i = stp THEN None ELSE registry[i]]
  BY <1>1, Zenon DEF Forget
<1>5. ASSUME NEW i \in OrderId PROVE Mirrored(i)'
  <2>1. CASE i = stp \/ (taker.origin = "replace" /\ i = taker.id)
    <3>1. index[i] = None /\ registry'[i] = None
      BY <1>1, <1>2, <1>4, <2>1, ReportedMirrored, Zenon
    <3> QED
      BY <1>1, <3>1, ReportedMirrored, Zenon DEF Mirrored, IndexExact
  <2>2. CASE ~(i = stp \/ (taker.origin = "replace" /\ i = taker.id))
    <3>1. Mirrored(i)
      BY <1>1, <2>2, ReportedMirrored, Zenon
    <3> QED
      BY <1>1, <1>4, <2>2, <3>1, MirrorFrame, Zenon
  <2> QED
    BY <2>1, <2>2, Zenon
<1> QED
  BY <1>1, <1>3, <1>5, EndKeepsRegistry, Zenon

\* The residual of a new order comes to rest and is booked.
LEMMA RestTakerKeepsRegistry ==
  ASSUME RegistryInv, BookInv', RestTaker
  PROVE  RegistryInv'
<1> DEFINE meta == [side |-> taker.side, price |-> taker.limit,
                    account |-> taker.account, tif |-> taker.tif]
           s == [id |-> taker.id, side |-> taker.side,
                 price |-> taker.limit, qty |-> remaining, ts |-> seq + 1]
           e == [account |-> taker.account, side |-> taker.side,
                 qty |-> remaining,
                 notional |-> NotionalOf(taker.limit, remaining)]
<1>1. /\ AllReported /\ stp = None /\ remaining > 0 /\ taker.origin = "new"
      /\ taker.limit # NoPrice /\ EndWalk /\ Release
      /\ Register(taker.account, taker.id, taker.side, taker.limit, remaining,
                  perAccount[taker.account])
  BY Zenon DEF RestTaker, Residual, MayRest, RestResidual
<1>2. /\ index[taker.id] = None /\ resting' = resting \cup {s}
      /\ index' = [index EXCEPT ![taker.id] = meta]
  BY Zenon DEF RestTaker, RestResidual, AddResidual, AddResting
<1>3. registry' = [registry EXCEPT ![taker.id] = e]
  BY <1>1, Zenon DEF Register
<1>4. taker \in Taker /\ BookOK /\ BookTypeOK /\ IndexExact /\ StageInv
  BY <1>1, ReportedMirrored, Zenon
<1>5. /\ taker.id \in OrderId /\ taker.account \in Account
      /\ taker.side \in Side /\ taker.limit \in Price /\ remaining \in Lots
  BY <1>1, <1>4 DEF Taker, Limit, Lots, RegistryInv, BookInv, WalkTypeOK
<1>6. registry' \in [OrderId -> RegistryEntry \cup {None}]
  BY <1>1, <1>4, <1>5, RegisterTyped, Zenon DEF StageInv
<1>7. meta # None
  <2>1. taker.tif \in RestingTif
    BY <1>4, Zenon DEF RestTaker, MayRest, Taker, Tif, RestingTif
  <2>2. meta \in OrderMeta
    BY <1>5, <2>1, Zenon DEF OrderMeta
  <2> QED
    BY <2>2, NoneAssumption, Zenon
<1>8. /\ meta.account = taker.account
      /\ s.id = taker.id /\ s.side = taker.side /\ s.price = taker.limit
      /\ s.qty = remaining
  BY Zenon
<1> HIDE DEF meta, s
<1>9. \A x \in resting : x.id # taker.id
  BY <1>2, <1>4, <1>5, Zenon DEF IndexExact
<1>10. /\ index'[taker.id] = meta
       /\ \A i \in OrderId : i # taker.id => index'[i] = index[i]
  BY <1>2, <1>4, <1>5, Zenon DEF BookTypeOK
<1>11. /\ registry'[taker.id] = e
       /\ \A i \in OrderId : i # taker.id => registry'[i] = registry[i]
  BY <1>3, <1>4, <1>5, Zenon DEF StageInv
<1>12. ASSUME NEW i \in OrderId PROVE Mirrored(i)'
  <2>1. CASE i = taker.id
    <3>1. ASSUME NEW x \in resting', x.id = i
          PROVE  registry'[i] = EntryOf(x)'
      <4>1. x = s
        BY <1>2, <1>9, <2>1, <3>1, Zenon
      <4>2. /\ x.side = taker.side /\ x.price = taker.limit /\ x.qty = remaining
            /\ index'[x.id].account = taker.account
        BY <1>8, <1>10, <4>1, Zenon
      <4> QED
        BY <1>11, <2>1, <4>2, Zenon DEF EntryOf
    <3> QED
      BY <1>7, <1>10, <2>1, <3>1, Zenon DEF Mirrored
  <2>2. CASE i # taker.id
    <3>1. Mirrored(i)
      BY <1>1, NoneAssumption, ReportedMirrored, Zenon
    <3>2. \A x \in resting' : x.id = i => x \in resting
      BY <1>2, <1>8, <2>2, Zenon
    <3> QED
      BY <1>10, <1>11, <2>2, <3>1, <3>2, MirrorFrame, Zenon
  <2> QED
    BY <2>1, <2>2, Zenon
<1> QED
  BY <1>1, <1>6, <1>12, EndKeepsRegistry, Zenon

\* The residual of a replace, at rest already, is booked.
LEMMA RegisterReplacedKeepsRegistry ==
  ASSUME RegistryInv, BookInv', RegisterReplaced
  PROVE  RegistryInv'
<1> DEFINE e == [account |-> taker.account, side |-> taker.side,
                 qty |-> remaining,
                 notional |-> NotionalOf(taker.limit, remaining)]
<1>1. /\ AllReported /\ stp = None /\ remaining > 0
      /\ taker.origin = "replace" /\ EndWalk /\ Release
      /\ UNCHANGED <<resting, index>>
      /\ Register(taker.account, taker.id, taker.side, taker.limit, remaining,
                  perAccount[taker.account])
  BY Zenon DEF RegisterReplaced, Residual, DropResult, bookVars
<1>2. registry' = [registry EXCEPT ![taker.id] = e]
  BY <1>1, Zenon DEF Register
<1>3. taker \in Taker /\ StageInv
  BY <1>1, ReportedMirrored, Zenon
<1>4. /\ taker.id \in OrderId /\ taker.account \in Account
      /\ taker.side \in Side /\ taker.limit \in Price /\ remaining \in Lots
  BY <1>1, <1>3
     DEF Taker, Lots, RegistryInv, BookInv, WalkTypeOK, WalkState, AllReported
<1>5. registry' \in [OrderId -> RegistryEntry \cup {None}]
  BY <1>1, <1>3, <1>4, RegisterTyped, Zenon DEF StageInv
<1>6. /\ registry'[taker.id] = e
      /\ \A i \in OrderId : i # taker.id => registry'[i] = registry[i]
  BY <1>2, <1>3, <1>4, Zenon DEF StageInv
<1>7. ASSUME NEW i \in OrderId PROVE Mirrored(i)'
  <2>1. CASE i = taker.id
    <3>1. /\ index[i] # None /\ index[i].account = taker.account
          /\ \A x \in resting : x.id = i =>
               x.side = taker.side /\ x.price = taker.limit /\ x.qty = remaining
      BY <1>1, <2>1, ReportedMirrored, Zenon
    <3>2. \A x \in resting : x.id = i => EntryOf(x) = e
      BY <3>1, Zenon DEF EntryOf
    <3>3. \A x \in resting : EntryOf(x)' = EntryOf(x)
      BY <1>1, Zenon DEF EntryOf
    <3> QED
      BY <1>1, <1>6, <2>1, <3>1, <3>2, <3>3, Zenon DEF Mirrored
  <2>2. CASE i # taker.id
    <3>1. Mirrored(i)
      BY <1>1, <2>2, NoneAssumption, ReportedMirrored, Zenon
    <3> QED
      BY <1>1, <1>6, <2>2, <3>1, MirrorFrame, Zenon
  <2> QED
    BY <2>1, <2>2, Zenon
<1> QED
  BY <1>1, <1>5, <1>7, EndKeepsRegistry, Zenon

\* The residual of a replace the account cannot carry leaves the book; it
\* never had an entry.
LEMMA CancelReplacedKeepsRegistry ==
  ASSUME RegistryInv, BookInv', CancelReplaced
  PROVE  RegistryInv'
<1>1. /\ AllReported /\ stp = None /\ taker.origin = "replace"
      /\ EndWalk /\ Release /\ UNCHANGED registry
      /\ RemoveOrders(At(taker.id)) /\ index[taker.id] # None
  BY Zenon DEF CancelReplaced, Residual, CancelResidual, riskVars
<1>2. taker.id \in OrderId /\ BookOK
  BY <1>1, ReportedMirrored, Zenon DEF Taker
<1>3. PICK r \in resting : r.id = taker.id /\ At(taker.id) = {r}
  BY <1>1, <1>2, AtKnown, Zenon
<1>4. /\ \A i \in OrderId : i # taker.id => index'[i] = index[i]
      /\ index'[taker.id] = None
      /\ \A q \in resting' : q \in resting /\ q.id # taker.id
  BY <1>1, <1>2, <1>3, RemoveFrame
<1>5. ASSUME NEW i \in OrderId PROVE Mirrored(i)'
  <2>1. CASE i = taker.id
    BY <1>1, <1>4, <2>1, ReportedMirrored, Zenon DEF Mirrored
  <2>2. CASE i # taker.id
    <3>1. Mirrored(i)
      BY <1>1, <2>2, NoneAssumption, ReportedMirrored, Zenon
    <3> QED
      BY <1>1, <1>4, <2>2, <3>1, MirrorFrame, Zenon
  <2> QED
    BY <2>1, <2>2, Zenon
<1> QED
  BY <1>1, <1>5, EndKeepsRegistry, Zenon DEF RegistryInv, StageInv

-----------------------------------------------------------------------------
(* The registry mirrors the book.                                          *)

\* Between commands the ids the book lists for an account are the ids the
\* registry has for it.
LEMMA AccountsLive ==
  ASSUME RegistryInv, stage # "handler", NEW a \in Account
  PROVE  byAccount[a] = OrdersOf(a)
<1>1. ASSUME NEW i \in OrderId, index[i] # None
      PROVE  registry[i] # None /\ registry[i].account = index[i].account
  <2>1. PICK r \in resting : r.id = i
    BY <1>1, Zenon DEF RegistryInv, BookInv, BookOK, IndexExact
  <2>2. registry[i] = EntryOf(r) /\ EntryOf(r) \in RegistryEntry
    BY <2>1, EntryTyped, Zenon DEF RegistryInv, BookInv, Mirrored
  <2> QED
    BY <2>1, <2>2, EntryAssumption DEF EntryOf
<1>2. \A i \in OrderId : index[i] = None => registry[i] = None
  BY Zenon DEF RegistryInv, Mirrored
<1>3. \A i \in OrderId :
        i \in byAccount[a] <=> index[i] # None /\ index[i].account = a
  BY Zenon DEF RegistryInv, BookInv, BookOK, IndexExact
<1>4. byAccount[a] \subseteq OrderId
  BY Zenon DEF RegistryInv, BookInv, BookOK, BookTypeOK
<1> QED
  BY <1>1, <1>2, <1>3, <1>4, Zenon DEF OrdersOf

\* A step that changes nothing.
LEMMA StutterKeepsRegistry ==
  ASSUME RegistryInv, BookInv', UNCHANGED allVars
  PROVE  RegistryInv'
<1>1. /\ UNCHANGED <<resting, index, phase, taker, remaining, fills, stp>>
      /\ UNCHANGED <<stage, reported, registry>>
  BY Zenon DEF allVars, vars, bookVars, walkVars, engineVars, riskVars, stepVars
<1>2. StageInv'
  BY <1>1, Zenon DEF RegistryInv, StageInv
<1>3. \A i \in OrderId : Mirrored(i) => Mirrored(i)'
  BY <1>1, MirrorFrame, Zenon
<1>4. ASSUME HandlerInv PROVE HandlerInv'
  <2>1. FillsInv'
    BY <1>1, <1>4, Zenon DEF HandlerInv, FillsInv, Owed, EntryBefore
  <2>2. StpInv' /\ ReplaceInv'
    BY <1>1, <1>4, Zenon DEF HandlerInv, StpInv, ReplaceInv, OwnEntry
  <2>3. \A i \in OrderId : Settled(i)' => Mirrored(i)'
    BY <1>1, <1>3, <1>4, Zenon DEF HandlerInv, Settled
  <2> QED
    BY <2>1, <2>2, <2>3, Zenon DEF HandlerInv
<1> QED
  BY <1>1, <1>2, <1>3, <1>4, Zenon DEF RegistryInv

\* Every step of the engine keeps the invariant.
LEMMA NextRegistryInv ==
  ASSUME RegistryInv, BookInv', [EngineNext]_allVars
  PROVE  RegistryInv'
<1>1. CASE RejectCommand /\ stage = "ready"
  <2>1. stage' = "tail" /\ UNCHANGED <<vars, registry, reported>>
    BY <1>1, Zenon DEF RejectCommand, OneShot, riskVars
  <2> QED
    BY <1>1, <2>1, QuietKeepsRegistry, Zenon
<1>2. ASSUME NEW t \in NewOrders, NewOrder(t) \/ RejectNewOrder(t)
      PROVE  RegistryInv'
  BY <1>1, <1>2, NewOrderKeepsRegistry, Zenon DEF RejectNewOrder
<1>3. ASSUME NEW a \in Account, NEW id \in OrderId,
             CancelOrder(a, id) \/ RejectCancelOrder(a, id)
      PROVE  RegistryInv'
  BY <1>1, <1>3, CancelKeepsRegistry, Zenon DEF RejectCancelOrder
<1>4. ASSUME NEW a \in Account, NEW id \in OrderId, NEW p \in Price,
             NEW q \in Qty,
             \/ AmendOrder(a, id, p, q)
             \/ RepriceOrder(a, id, p, q)
             \/ RejectCancelReplace(a, id, p, q)
      PROVE  RegistryInv'
  BY <1>1, <1>4, AmendKeepsRegistry, RepriceKeepsRegistry, Zenon
     DEF RejectCancelReplace
<1>5. ASSUME NEW a \in Account, CancelAll(a) \/ RejectMassCancel(a)
      PROVE  RegistryInv'
  BY <1>1, <1>5, CancelAllKeepsRegistry, Zenon DEF RejectMassCancel
<1>6. CASE SnapshotRequest \/ EmitBookChanges
             \/ \E engaged \in BOOLEAN : KillSwitchSet(engaged)
  <2>1. /\ stage # "handler" /\ stage' \in {"ready", "tail"}
        /\ UNCHANGED <<vars, registry, reported>>
    BY <1>6, Zenon DEF SnapshotRequest, EmitBookChanges, KillSwitchSet, riskVars,
       stepVars
  <2> QED
    BY <2>1, QuietKeepsRegistry, Zenon
<1>7. CASE MatchOne
  BY <1>7, FillHeadKeepsRegistry, StpHeadKeepsRegistry, Zenon DEF MatchOne
<1>8. CASE MatchReturns
  BY <1>8, ReturnNewKeepsRegistry, ReturnReplaceKeepsRegistry, Zenon
     DEF MatchReturns
<1>9. CASE ReportFill
  BY <1>9, ReportFillKeepsRegistry, Zenon
<1>10. CASE DisposeStp
  BY <1>10, DisposeStpKeepsRegistry, Zenon
<1>11. CASE DisposeFilled \/ CancelTaker
  <2>1. /\ AllReported /\ stp = None /\ DropResult /\ EndWalk
        /\ taker.origin = "replace" => remaining = 0
        /\ registry' = registry
    BY <1>11, Zenon DEF DisposeFilled, CancelTaker, Residual, riskVars
  <2> QED
    BY <2>1, DropKeepsRegistry, Zenon
<1>12. CASE RefuseResidual
  <2>1. /\ AllReported /\ stp = None /\ DropResult /\ EndWalk
        /\ taker.origin = "new" /\ registry' = registry /\ remaining > 0
        /\ taker.limit # NoPrice
    BY <1>12, Zenon DEF RefuseResidual, Residual, MayRest
  <2> QED
    BY <2>1, DropKeepsRegistry, Zenon
<1>13. CASE RestTaker \/ RegisterReplaced \/ CancelReplaced
  BY <1>13, RestTakerKeepsRegistry, RegisterReplacedKeepsRegistry,
     CancelReplacedKeepsRegistry, Zenon
<1>14. CASE UNCHANGED allVars
  BY <1>14, StutterKeepsRegistry, Zenon
<1> QED
  BY <1>2, <1>3, <1>4, <1>5, <1>6, <1>7, <1>8, <1>9, <1>10, <1>11, <1>12,
     <1>13, <1>14, Zenon DEF EngineNext, Commands, Pipeline

-----------------------------------------------------------------------------
(* What the reports tell.                                                  *)

\* Who reads the reports knows of this id what the registry knows.
Told(i) == view[i] = IF registry[i] = None THEN 0 ELSE registry[i].qty

\* The fills of the walk lead from the taker's quantity to what remains, and
\* the reports have come as far as leaves.
Counted ==
  \E c \in [0..Len(fills) -> Nat] :
    /\ c[0] = taker.qty /\ c[Len(fills)] = remaining /\ c[reported] = leaves
    /\ \A j \in 1..Len(fills) : c[j] = c[j - 1] - fills[j].qty

\* What the reports say of the taker.  A new order is unknown until its
\* first fill; a replaced one stands at its old quantity until the walk
\* returns and the replace is acknowledged.
TakerTold ==
  /\ taker.origin = "new" =>
       /\ registry[taker.id] = None
       /\ view[taker.id] = IF reported = 0 THEN 0 ELSE leaves
       /\ lastReport = "None" <=> reported = 0
  /\ taker.origin = "replace" =>
       /\ phase = "walk" => Told(taker.id)
       /\ phase = "done" => view[taker.id] = leaves /\ lastReport # "None"

ViewInv ==
  /\ view \in [OrderId -> Nat]
  /\ stage = "ready" => lastReport = "None"
  /\ stage # "handler" => \A i \in OrderId : Told(i)
  /\ stage = "handler" =>
       /\ Counted /\ TakerTold
       /\ \A i \in OrderId : i # taker.id => Told(i)

\* A fill takes from what remains what it says.
LEMMA FillCounted ==
  ASSUME BookInv, FillHead, Counted, reported \in 0..Len(fills),
         UNCHANGED <<reported, leaves>>
  PROVE  Counted'
<1>1. PICK m \in resting : /\ fills' = Append(fills, FillOf(m, FillQty(m)))
                           /\ remaining' = remaining - FillQty(m)
  BY Zenon DEF FillHead
<1>2. phase = "walk" /\ ~WalkOver /\ taker' = taker
  BY Zenon DEF FillHead
<1>3. PICK q : q = FillQty(m)
  BY Zenon
<1>4. q \in Lots /\ remaining \in Nat /\ remaining - q \in Nat
  BY <1>2, <1>3, SMTT(30) DEF BookInv, BookOK, BookTypeOK, WalkTypeOK, RestingOrder, Lots,
     FillQty, WalkOver
<1>5. fills \in Seq(Fill) /\ FillOf(m, q) \in Fill /\ FillOf(m, q).qty = q
  BY <1>4, Zenon DEF BookInv, BookOK, BookTypeOK, WalkTypeOK, RestingOrder, FillOf, Fill
<1>6. PICK l \in Nat : l = Len(fills)
  BY <1>5
<1>7. /\ Len(fills') = l + 1 /\ fills'[l + 1].qty = q
      /\ \A j \in 1..l : fills'[j] = fills[j]
  BY <1>1, <1>3, <1>5, <1>6, SMTT(30)
<1>8. PICK c \in [0..l -> Nat] :
        /\ c[0] = taker.qty /\ c[l] = remaining /\ c[reported] = leaves
        /\ \A j \in 1..l : c[j] = c[j - 1] - fills[j].qty
  BY <1>6, Zenon DEF Counted
<1>9. PICK d : d = [j \in 0..(l + 1) |-> IF j <= l THEN c[j] ELSE remaining - q]
  BY Zenon
<1>10. /\ d \in [0..(l + 1) -> Nat] /\ d[l + 1] = remaining - q
       /\ \A j \in 0..l : d[j] = c[j]
  BY <1>4, <1>9
<1>11. d[0] = taker.qty /\ d[l] = remaining /\ d[reported] = leaves
  BY <1>6, <1>8, <1>10
<1>12. ASSUME NEW j \in 1..(l + 1) PROVE d[j] = d[j - 1] - fills'[j].qty
  <2>1. CASE j = l + 1
    BY <1>4, <1>7, <1>10, <1>11, <2>1
  <2>2. CASE j # l + 1
    <3>1. j \in 1..l /\ j \in 0..l /\ j - 1 \in 0..l
      BY <2>2
    <3> QED
      BY <1>7, <1>8, <1>10, <3>1, Zenon
  <2> QED
    BY <2>1, <2>2, Zenon
<1>13. /\ d[0] = taker'.qty /\ d[l + 1] = remaining' /\ d[reported'] = leaves'
  BY <1>1, <1>2, <1>3, <1>10, <1>11, Zenon
<1> QED
  BY <1>7, <1>10, <1>12, <1>13, Zenon DEF Counted

\* A report subtracts what its fill took; it never has less to subtract from.
LEMMA ReportCounted ==
  ASSUME Counted, fills \in Seq(Fill), reported \in 0..Len(fills),
         reported < Len(fills), reported' = reported + 1,
         leaves' = SaturatingSub(leaves, fills[reported + 1].qty),
         UNCHANGED <<fills, taker, remaining>>
  PROVE  Counted' /\ leaves' \in Nat
<1>1. PICK l \in Nat : l = Len(fills)
  OBVIOUS
<1>2. PICK c \in [0..l -> Nat] :
        /\ c[0] = taker.qty /\ c[l] = remaining /\ c[reported] = leaves
        /\ \A j \in 1..l : c[j] = c[j - 1] - fills[j].qty
  BY <1>1, Zenon DEF Counted
<1>3. PICK k \in Nat : k = reported /\ k \in 0..l /\ k + 1 \in 0..l /\ k + 1 \in 1..l
  BY <1>1, SMTT(30)
<1>4. /\ c[k] \in Nat /\ c[k + 1] \in Nat /\ fills[k + 1].qty \in Nat
  <2>1. c[k] \in Nat /\ c[k + 1] \in Nat
    BY <1>2, <1>3, Zenon
  <2>2. fills[k + 1] \in Fill
    BY <1>1, <1>3
  <2> QED
    BY <2>1, <2>2, Zenon DEF Fill, Lots
<1>5. c[k + 1] = c[k] - fills[k + 1].qty
  <2>1. (k + 1) - 1 = k
    BY <1>3
  <2> QED
    BY <1>2, <1>3, <2>1, Zenon
<1>6. SaturatingSub(c[k], fills[k + 1].qty) = c[k + 1]
  BY <1>4, <1>5, SMTT(30) DEF SaturatingSub
<1>7. c[reported'] = leaves'
  BY <1>2, <1>3, <1>6, Zenon
<1> QED
  BY <1>1, <1>2, <1>3, <1>4, <1>7, Zenon DEF Counted

\* A step that leaves entry and view of an id alone.
LEMMA ToldKept ==
  ASSUME NEW i, Told(i), registry'[i] = registry[i], view'[i] = view[i]
  PROVE  Told(i)'
BY Zenon DEF Told

\* A step that ends an order in both.
LEMMA ToldEnded ==
  ASSUME NEW i, registry'[i] = None, view'[i] = 0
  PROVE  Told(i)'
BY Zenon DEF Told

\* A step that registers an order and reports the same quantity.
LEMMA ToldRegistered ==
  ASSUME NEW a \in Account, NEW s \in Side, NEW p \in Price, NEW q \in Lots,
         NEW i \in OrderId, registry \in [OrderId -> RegistryEntry \cup {None}],
         registry' = [registry EXCEPT ![i] =
                        [account |-> a, side |-> s, qty |-> q,
                         notional |-> NotionalOf(p, q)]],
         view'[i] = q
  PROVE  Told(i)'
<1>1. NotionalOf(p, q) \in Nat
  BY PricePositive DEF Lots, NotionalOf
<1>2. [account |-> a, side |-> s, qty |-> q, notional |-> NotionalOf(p, q)]
        \in RegistryEntry
  BY <1>1, Zenon DEF RegistryEntry
<1>3. registry'[i] \in RegistryEntry /\ registry'[i].qty = q
  BY <1>2, Zenon
<1> QED
  BY <1>3, EntryAssumption, Zenon DEF Told

\* A step outside a handler that touches neither registry nor view.
LEMMA QuietKeepsView ==
  ASSUME ViewInv, stage # "handler", stage' # "handler",
         stage' = "ready" => lastReport' = "None", UNCHANGED <<registry, view>>
  PROVE  ViewInv'
BY ToldKept, Zenon DEF ViewInv

\* Cancels: the orders that go are reported gone.
LEMMA ForgetKeepsView ==
  ASSUME ViewInv, RegistryInv, stage # "handler", stage' = "tail",
         NEW a, NEW ids, Forget(a, ids), ReportCancelled(ids)
  PROVE  ViewInv'
<1>1. /\ registry' = [i \in OrderId |-> IF i \in ids THEN None ELSE registry[i]]
      /\ view' = [i \in OrderId |-> IF i \in ids THEN 0 ELSE view[i]]
  BY Zenon DEF Forget, ReportCancelled
<1>2. view' \in [OrderId -> Nat]
  BY <1>1, Zenon DEF ViewInv
<1>3. ASSUME NEW i \in OrderId PROVE Told(i)'
  BY <1>1, ToldKept, ToldEnded, Zenon DEF ViewInv
<1> QED
  BY <1>2, <1>3, Zenon DEF ViewInv

\* A quantity-down replace.
LEMMA AmendKeepsView ==
  ASSUME ViewInv, RegistryInv, NEW a \in Account, NEW id \in OrderId,
         NEW p \in Price, NEW q \in Qty, AmendOrder(a, id, p, q)
  PROVE  ViewInv'
<1>1. /\ stage = "ready" /\ stage' = "tail"
      /\ ReplaceVerdict(a, id, p, q) = "ok"
      /\ registry' = [registry EXCEPT ![id] =
                        [account |-> a, side |-> registry[id].side, qty |-> q,
                         notional |-> NotionalOf(p, q)]]
      /\ view' = [view EXCEPT ![id] = q]
  BY Zenon DEF AmendOrder, OneShot, Register, ReportReplaced
<1>2. Owns(a, id)
  BY <1>1, Zenon DEF ReplaceVerdict, CheckCancelReplace
<1>3. registry \in [OrderId -> RegistryEntry \cup {None}]
  BY Zenon DEF RegistryInv, StageInv
<1>4. registry[id].side \in Side
  BY <1>2, <1>3, Zenon DEF Owns, RegistryEntry
<1>5. q \in Lots /\ q \in Nat
  BY QtyAssumption, Zenon DEF Lots
<1>6. view' \in [OrderId -> Nat] /\ view'[id] = q
  BY <1>1, <1>5, Zenon DEF ViewInv
<1>7. Told(id)'
  BY <1>1, <1>3, <1>4, <1>5, <1>6, ToldRegistered, Zenon
<1>8. ASSUME NEW i \in OrderId, i # id PROVE Told(i)'
  BY <1>1, <1>3, <1>8, ToldKept, Zenon DEF ViewInv
<1> QED
  BY <1>1, <1>6, <1>7, <1>8, Zenon DEF ViewInv

\* A walk begins.  A new order has an id that is not live, so its reports
\* are about no other order.
LEMMA BeginKeepsView ==
  ASSUME ViewInv, RegistryInv, stage = "ready", NEW t \in Taker, StartWalk(t),
         BeginWalk(t.qty), UNCHANGED <<registry, view>>,
         t.origin = "new" => registry[t.id] = None
  PROVE  ViewInv'
<1>1. /\ stage' = "handler" /\ reported' = 0 /\ leaves' = t.qty
      /\ lastReport' = "None" /\ taker' = t /\ remaining' = t.qty
      /\ fills' = <<>> /\ phase' = "walk"
  BY Zenon DEF BeginWalk, StartWalk, ViewInv
<1>2. t.qty \in Nat /\ t.id \in OrderId
  BY Zenon DEF Taker, Lots
<1>3. \A i \in OrderId : Told(i) /\ Told(i)'
  BY ToldKept, Zenon DEF ViewInv
<1>4. Counted'
  <2>1. Len(fills') = 0
    BY <1>1, Zenon
  <2>2. PICK c : c = [j \in 0..0 |-> t.qty]
    BY Zenon
  <2>3. c \in [0..0 -> Nat] /\ c[0] = t.qty
    BY <1>2, <2>2, SMTT(30)
  <2> QED
    BY <1>1, <2>1, <2>3 DEF Counted
<1>5. TakerTold'
  BY <1>1, <1>2, <1>3, Zenon DEF TakerTold, Told
<1> QED
  BY <1>1, <1>3, <1>4, <1>5, Zenon DEF ViewInv

\* What the invariants say in a handler.
LEMMA HandlerView ==
  ASSUME ViewInv, RegistryInv, stage = "handler"
  PROVE  /\ Counted /\ TakerTold /\ view \in [OrderId -> Nat]
         /\ \A i \in OrderId : i # taker.id => Told(i)
         /\ taker \in Taker /\ taker.id \in OrderId /\ fills \in Seq(Fill)
         /\ phase \in {"walk", "done"}
         /\ reported \in 0..Len(fills) /\ HandlerInv
         /\ registry \in [OrderId -> RegistryEntry \cup {None}]
<1>1. phase \in {"walk", "done"}
  BY Zenon DEF RegistryInv, StageInv, BookInv, WalkTypeOK
<1>2. taker \in Taker
  BY <1>1, Zenon DEF RegistryInv, BookInv, WalkTypeOK, WalkState
<1>3. taker.id \in OrderId
  BY <1>2, Zenon DEF Taker
<1> QED
  BY <1>1, <1>2, <1>3, Zenon
     DEF ViewInv, RegistryInv, StageInv, BookInv, WalkTypeOK

\* An iteration of the walk reports nothing.
LEMMA MatchKeepsView ==
  ASSUME ViewInv, RegistryInv, MatchOne
  PROVE  ViewInv'
<1>1. /\ stage = "handler" /\ stage' = "handler"
      /\ UNCHANGED <<registry, view, reported, leaves, lastReport, taker, phase>>
  BY Zenon DEF MatchOne, engineVars, stepVars, subscriberVars, FillHead, StpHead
<1>2. Counted'
  <2>1. CASE FillHead
    BY <1>1, <2>1, HandlerView, FillCounted, Zenon DEF RegistryInv
  <2>2. CASE StpHead
    <3>1. UNCHANGED <<fills, remaining, taker>>
      BY <2>2, Zenon DEF StpHead
    <3> QED
      BY <1>1, <3>1, HandlerView, Zenon DEF Counted
  <2> QED
    BY <2>1, <2>2, Zenon DEF MatchOne
<1>3. TakerTold'
  BY <1>1, HandlerView, Zenon DEF TakerTold, Told
<1>4. \A i \in OrderId : i # taker'.id => Told(i)'
  BY <1>1, HandlerView, ToldKept, Zenon
<1> QED
  BY <1>1, <1>2, <1>3, <1>4, HandlerView, Zenon DEF ViewInv

\* The walk returns; a replace is acknowledged with its whole new quantity.
LEMMA ReturnKeepsView ==
  ASSUME ViewInv, RegistryInv, MatchReturns
  PROVE  ViewInv'
<1>1. /\ stage = "handler" /\ stage' = "handler"
      /\ phase = "walk" /\ phase' = "done"
      /\ UNCHANGED <<reported, leaves, taker, remaining, fills>>
  BY Zenon DEF MatchReturns, WalkEnd, SnapshotFails, ReturnFromWalk
<1>2. reported = 0
  BY <1>1, HandlerView, Zenon DEF HandlerInv, FillsInv
<1>3. leaves = taker.qty /\ taker.qty \in Nat
  BY <1>1, <1>2, HandlerView, Zenon DEF Counted, Taker, Lots
<1>4. Counted'
  BY <1>1, HandlerView, Zenon DEF Counted
<1>5. CASE taker.origin = "replace"
  <2>1. /\ registry' = [i \in OrderId |-> IF i \in {taker.id} THEN None
                                          ELSE registry[i]]
        /\ view' = [view EXCEPT ![taker.id] = taker.qty]
        /\ lastReport' = "Replaced"
    BY <1>5, Zenon DEF MatchReturns, AcknowledgeReplace, Forget, ReportReplaced
  <2>2. view' \in [OrderId -> Nat] /\ view'[taker.id] = leaves
    BY <1>1, <1>3, <2>1, HandlerView, Zenon
  <2>3. \A i \in OrderId : i # taker.id =>
          registry'[i] = registry[i] /\ view'[i] = view[i]
    BY <2>1, HandlerView
  <2>4. \A i \in OrderId : i # taker.id => Told(i)'
    BY <1>1, <2>3, HandlerView, ToldKept, Zenon
  <2>5. TakerTold'
    BY <1>1, <1>5, <2>1, <2>2, Zenon DEF TakerTold
  <2> QED
    BY <1>1, <1>4, <2>2, <2>4, <2>5, Zenon DEF ViewInv
<1>6. CASE taker.origin # "replace"
  <2>1. UNCHANGED <<registry, view, lastReport>>
    BY <1>6, Zenon DEF MatchReturns
  <2>2. \A i \in OrderId : i # taker.id => Told(i)'
    BY <1>1, <2>1, HandlerView, ToldKept, Zenon
  <2>3. TakerTold'
    BY <1>1, <1>6, <2>1, HandlerView, Zenon DEF TakerTold
  <2> QED
    BY <1>1, <1>4, <2>1, <2>2, <2>3, HandlerView, Zenon DEF ViewInv
<1> QED
  BY <1>5, <1>6, Zenon

\* The two reports of a fill: the maker's follows its registry entry, the
\* taker's what the fills have left of it.
LEMMA ReportKeepsView ==
  ASSUME ViewInv, RegistryInv, ReportFill
  PROVE  ViewInv'
<1>1. PICK f, e : f = fills[reported + 1] /\ e = registry[f.maker]
  BY Zenon
<1>2. /\ stage = "handler" /\ stage' = "handler" /\ phase = "done"
      /\ reported < Len(fills) /\ e # None /\ reported' = reported + 1
      /\ leaves' = SaturatingSub(leaves, f.qty)
      /\ view' = [view EXCEPT ![f.maker] = MakerLeaves(e, f),
                              ![taker.id] = leaves']
      /\ lastReport' \in {"Filled", "PartiallyFilled"}
      /\ registry' = [registry EXCEPT ![f.maker] = EntryAfter(e, f)]
      /\ UNCHANGED <<phase, taker, remaining, fills>>
  BY <1>1, Zenon DEF ReportFill, ReportFilled, vars, walkVars
<1>3. /\ fills \in Seq(Fill) /\ reported \in 0..Len(fills)
      /\ Counted /\ TakerTold /\ FillsInv /\ ReplaceInv
      /\ taker \in Taker /\ taker.id \in OrderId
      /\ view \in [OrderId -> Nat]
      /\ registry \in [OrderId -> RegistryEntry \cup {None}]
      /\ \A i \in OrderId : i # taker.id => Told(i)
  BY <1>2, HandlerView, Zenon DEF HandlerInv
<1>4. PICK l \in Nat : l = Len(fills)
  BY <1>3
<1>5. reported \in Nat /\ reported + 1 \in 1..Len(fills)
  <2>1. reported \in 0..l /\ reported < l
    BY <1>2, <1>3, <1>4, Zenon
  <2>2. reported \in Nat /\ reported + 1 \in 1..l
    BY <2>1
  <2> QED
    BY <1>4, <2>2, Zenon
<1>6. f \in Fill /\ Owed(f)
  <2>1. f \in Fill
    BY <1>1, <1>5, <1>3
  <2>2. reported + 1 \in (reported + 1)..Len(fills)
    BY <1>5, <1>4
  <2> QED
    BY <1>1, <1>3, <2>1, <2>2, Zenon DEF FillsInv
<1>7. f.maker # taker.id
  <2>1. CASE taker.origin = "new"
    BY <1>1, <1>2, <2>1, <1>3, Zenon DEF TakerTold
  <2>2. CASE taker.origin = "replace"
    BY <1>1, <1>2, <1>5, <2>2, <1>3, Zenon DEF ReplaceInv
  <2> QED
    BY <1>2, <2>1, <2>2, <1>3, Zenon DEF Taker
<1>8. Counted' /\ leaves' \in Nat
  BY <1>1, <1>2, <1>3, ReportCounted, Zenon
<1>9. f.maker \in OrderId /\ taker.id \in OrderId
  BY <1>2, <1>6, <1>3, Zenon DEF Fill
<1>10. MakerLeaves(e, f) \in Nat
  <2>1. e.qty \in Nat /\ f.qty \in Nat
    BY <1>1, <1>6, Zenon DEF Owed, RegistryEntry, Fill, Lots
  <2> QED
    BY <2>1 DEF MakerLeaves, SaturatingSub
<1>11. /\ view' \in [OrderId -> Nat] /\ view'[taker.id] = leaves'
      /\ view'[f.maker] = MakerLeaves(e, f)
      /\ \A i \in OrderId : i # f.maker /\ i # taker.id => view'[i] = view[i]
  BY <1>2, <1>7, <1>8, <1>9, <1>10, <1>3, Zenon
<1>12. /\ registry'[f.maker] = EntryAfter(e, f)
       /\ \A i \in OrderId : i # f.maker => registry'[i] = registry[i]
  BY <1>2, <1>9, <1>3, Zenon
<1>13. Told(f.maker)'
  <2>1. CASE f.full
    BY <1>11, <1>12, <2>1, Zenon DEF MakerLeaves, EntryAfter, Told
  <2>2. CASE ~f.full
    <3>1. EntryAfter(e, f) # None
      BY <1>1, <1>6, <2>2, EntryAfterFill, EntryAssumption, Zenon
         DEF RegistryInv, BookInv
    <3>2. EntryAfter(e, f).qty = SaturatingSub(e.qty, f.qty)
      BY <1>1, <1>6, <2>2, Zenon DEF EntryAfter, Owed, RegistryEntry
    <3>3. MakerLeaves(e, f) = SaturatingSub(e.qty, f.qty)
      BY <2>2, Zenon DEF MakerLeaves
    <3> QED
      BY <1>11, <1>12, <3>1, <3>2, <3>3, Zenon DEF Told
  <2> QED
    BY <2>1, <2>2, Zenon
<1>14. ASSUME NEW i \in OrderId, i # taker.id PROVE Told(i)'
  BY <1>11, <1>12, <1>13, <1>14, <1>3, ToldKept, Zenon
<1>15. TakerTold'
  <2>1. reported' # 0 /\ lastReport' # "None"
    <3>1. reported + 1 # 0
      BY <1>5
    <3> QED
      BY <1>2, <3>1, Zenon
  <2>2. registry'[taker.id] = registry[taker.id]
    BY <1>7, <1>9, <1>12, Zenon
  <2> QED
    BY <1>2, <1>11, <2>1, <2>2, <1>3, Zenon DEF TakerTold
<1> QED
  BY <1>2, <1>8, <1>11, <1>14, <1>15, Zenon DEF ViewInv

\* When every fill is reported, the reports stand at what remains; what is
\* said of the taker by then.
LEMMA AllReportedView ==
  ASSUME ViewInv, RegistryInv, AllReported
  PROVE  /\ leaves = remaining /\ remaining \in Nat
         /\ registry[taker.id] = None
         /\ taker.origin = "replace" =>
              view[taker.id] = remaining /\ lastReport # "None"
         /\ taker.origin = "new" =>
              /\ view[taker.id] = 0 \/ view[taker.id] = remaining
              /\ lastReport = "None" => view[taker.id] = 0
<1>1. stage = "handler" /\ phase = "done" /\ reported = Len(fills)
  BY Zenon DEF AllReported
<1>2. leaves = remaining /\ remaining \in Nat
  <2>1. Len(fills) \in 0..Len(fills)
    BY <1>1, HandlerView, Zenon
  <2> QED
    BY <1>1, <2>1, HandlerView, Zenon DEF Counted
<1>3. registry[taker.id] = None
  BY <1>1, HandlerView, ReportedMirrored, Zenon DEF TakerTold, Taker
<1> QED
  BY <1>1, <1>2, <1>3, HandlerView, Zenon DEF TakerTold

\* The disposition of the taker, by what it does to its entry and view.
LEMMA DisposeKeepsView ==
  ASSUME ViewInv, RegistryInv, stage = "handler", stage' = "tail",
         view' \in [OrderId -> Nat], NEW k, k = taker.id, Told(k)',
         \A i \in OrderId : i # taker.id =>
           \/ registry'[i] = registry[i] /\ view'[i] = view[i]
           \/ registry'[i] = None /\ view'[i] = 0
  PROVE  ViewInv'
<1>1. ASSUME NEW i \in OrderId PROVE Told(i)'
  <2>1. CASE i # taker.id /\ registry'[i] = registry[i] /\ view'[i] = view[i]
    <3>1. Told(i)
      BY <2>1, HandlerView, Zenon
    <3> QED
      BY <2>1, <3>1, ToldKept, Zenon
  <2>2. CASE registry'[i] = None /\ view'[i] = 0
    BY <2>2, ToldEnded, Zenon
  <2>3. CASE i = taker.id
    BY <2>3, Zenon
  <2> QED
    BY <2>1, <2>2, <2>3, Zenon
<1> QED
  BY <1>1, Zenon DEF ViewInv

\* Every end of a handler tells the fate of the taker.
LEMMA EndKeepsView ==
  ASSUME ViewInv, RegistryInv,
         \/ DisposeStp \/ DisposeFilled \/ CancelTaker \/ RestTaker
         \/ RefuseResidual \/ RegisterReplaced \/ CancelReplaced
  PROVE  ViewInv'
<1>0. PICK k : k = taker.id
  BY Zenon
<1>1. AllReported /\ stage = "handler" /\ stage' = "tail"
  BY Zenon DEF DisposeStp, DisposeFilled, CancelTaker, RestTaker, RefuseResidual,
     RegisterReplaced, CancelReplaced, Residual, AllReported, EndWalk
<1>2. /\ view \in [OrderId -> Nat] /\ taker \in Taker /\ taker.id \in OrderId
      /\ registry \in [OrderId -> RegistryEntry \cup {None}]
  BY <1>1, HandlerView, Zenon
<1>3. CASE DisposeStp
  <2>1. /\ registry' = [i \in OrderId |-> IF i \in {stp} THEN None
                                          ELSE registry[i]]
        /\ view' = [i \in OrderId |-> IF i \in {stp, taker.id} THEN 0
                                      ELSE view[i]]
    BY <1>3, Zenon DEF DisposeStp, Forget, ReportCancelled
  <2>2. view' \in [OrderId -> Nat]
    BY <1>2, <2>1, Zenon
  <2>3. registry'[taker.id] = None /\ view'[taker.id] = 0
    BY <1>1, <1>2, <2>1, AllReportedView, Zenon
  <2>4. \A i \in OrderId : i # taker.id =>
          \/ registry'[i] = registry[i] /\ view'[i] = view[i]
          \/ registry'[i] = None /\ view'[i] = 0
    BY <2>1, Zenon
  <2>5. Told(k)'
    BY <1>0, <2>3, ToldEnded, Zenon
  <2> QED
    BY <1>0, <1>1, <2>2, <2>3, <2>4, <2>5, DisposeKeepsView, Zenon
<1>4. CASE DisposeFilled
  <2>1. UNCHANGED <<registry, view>> /\ remaining = 0
    BY <1>4, Zenon DEF DisposeFilled, subscriberVars
  <2>2. registry'[taker.id] = None /\ view'[taker.id] = 0
    BY <1>1, <1>2, <2>1, AllReportedView, Zenon DEF Taker
  <2>5. Told(k)'
    BY <1>0, <2>2, ToldEnded, Zenon
  <2> QED
    BY <1>0, <1>1, <1>2, <2>1, <2>2, <2>5, DisposeKeepsView, Zenon
<1>5. CASE CancelTaker
  <2>1. /\ UNCHANGED registry
        /\ view' = [i \in OrderId |-> IF i \in {taker.id} THEN 0 ELSE view[i]]
    BY <1>5, Zenon DEF CancelTaker, ReportCancelled
  <2>2. view' \in [OrderId -> Nat]
    BY <1>2, <2>1, Zenon
  <2>3. registry'[taker.id] = None /\ view'[taker.id] = 0
    BY <1>1, <1>2, <2>1, AllReportedView, Zenon
  <2>4. \A i \in OrderId : i # taker.id => view'[i] = view[i]
    BY <2>1, Zenon
  <2>5. Told(k)'
    BY <1>0, <2>3, ToldEnded, Zenon
  <2> QED
    BY <1>0, <1>1, <2>1, <2>2, <2>3, <2>4, <2>5, DisposeKeepsView, Zenon
<1>6. CASE RestTaker \/ RegisterReplaced
  <2>1. /\ registry' = [registry EXCEPT ![taker.id] =
                          [account |-> taker.account, side |-> taker.side,
                           qty |-> remaining,
                           notional |-> NotionalOf(taker.limit, remaining)]]
        /\ remaining > 0
        /\ \/ taker.limit # NoPrice
              /\ view' = [view EXCEPT ![taker.id] = remaining]
           \/ taker.origin = "replace" /\ view' = view
    BY <1>6, Zenon DEF RestTaker, RegisterReplaced, Register, ReportAccepted, Residual,
       MayRest, subscriberVars
  <2>2. remaining \in Lots
    BY <1>1, <2>1, AllReportedView DEF Lots
  <2>3. /\ taker.account \in Account /\ taker.side \in Side
        /\ taker.limit \in Price
    <3>1. taker.account \in Account /\ taker.side \in Side /\ taker.limit \in Limit
      BY <1>2, Zenon DEF Taker
    <3>2. taker.origin = "replace" => taker.limit \in Price
      BY <1>2, NoneAssumption, HandlerView, <1>1, Zenon DEF RegistryInv, BookInv, WalkState
    <3> QED
      BY <2>1, <3>1, <3>2, Zenon DEF Limit
  <2>4. /\ view' \in [OrderId -> Nat] /\ view'[taker.id] = remaining
        /\ \A i \in OrderId : i # taker.id => view'[i] = view[i]
    BY <1>1, <1>2, <2>1, AllReportedView, Zenon
  <2>5. Told(k)'
    BY <1>0, <1>2, <2>1, <2>2, <2>3, <2>4, ToldRegistered, Zenon
  <2>6. \A i \in OrderId : i # taker.id => registry'[i] = registry[i]
    BY <1>2, <2>1, Zenon
  <2> QED
    BY <1>0, <1>1, <2>4, <2>5, <2>6, DisposeKeepsView, Zenon
<1>7. CASE RefuseResidual \/ CancelReplaced
  <2>1. /\ UNCHANGED registry
        /\ view' = IF lastReport = "None" THEN view
                   ELSE [view EXCEPT ![taker.id] = 0]
    BY <1>7, Zenon DEF RefuseResidual, CancelReplaced, ReportRejected
  <2>2. /\ view' \in [OrderId -> Nat]
        /\ \A i \in OrderId : i # taker.id => view'[i] = view[i]
    BY <1>2, <2>1, Zenon
  <2>3. registry'[taker.id] = None /\ view'[taker.id] = 0
    BY <1>1, <1>2, <2>1, AllReportedView, Zenon DEF Taker
  <2>5. Told(k)'
    BY <1>0, <2>3, ToldEnded, Zenon
  <2> QED
    BY <1>0, <1>1, <2>1, <2>2, <2>3, <2>5, DisposeKeepsView, Zenon
<1> QED
  BY <1>3, <1>4, <1>5, <1>6, <1>7, Zenon

\* Every step of the engine keeps the reports exact, if no new order takes a
\* live id.
LEMMA NextViewInv ==
  ASSUME UniqueIds, ViewInv, RegistryInv, [EngineNext]_allVars
  PROVE  ViewInv'
<1>1. CASE RejectCommand /\ stage = "ready"
  <2>1. stage' = "tail" /\ UNCHANGED <<registry, view>>
    BY <1>1, Zenon DEF RejectCommand, OneShot, subscriberVars
  <2> QED
    BY <1>1, <2>1, QuietKeepsView, Zenon
<1>2. ASSUME NEW t \in NewOrders, NewOrder(t) \/ RejectNewOrder(t)
      PROVE  ViewInv'
  <2>1. CASE NewOrder(t)
    <3>1. /\ stage = "ready" /\ index[t.id] = None /\ StartWalk(t)
          /\ BeginWalk(t.qty) /\ UNCHANGED <<registry, view>>
      BY <2>1, Zenon DEF NewOrder, FreshId, MatchAggressive, subscriberVars
    <3>2. t \in Taker /\ t.id \in OrderId
      BY NewOrdersAssumption, Zenon DEF Taker
    <3>3. registry[t.id] = None
      BY <3>1, <3>2, Zenon DEF RegistryInv, Mirrored
    <3> QED
      BY <3>1, <3>2, <3>3, BeginKeepsView, Zenon
  <2> QED
    BY <1>1, <1>2, <2>1, Zenon DEF RejectNewOrder
<1>3. ASSUME NEW a \in Account, NEW id \in OrderId,
             CancelOrder(a, id) \/ RejectCancelOrder(a, id)
      PROVE  ViewInv'
  <2>1. CASE CancelOrder(a, id)
    BY <2>1, ForgetKeepsView, Zenon DEF CancelOrder, OneShot
  <2> QED
    BY <1>1, <1>3, <2>1, Zenon DEF RejectCancelOrder
<1>4. ASSUME NEW a \in Account, NEW id \in OrderId, NEW p \in Price,
             NEW q \in Qty,
             \/ AmendOrder(a, id, p, q)
             \/ RepriceOrder(a, id, p, q)
             \/ RejectCancelReplace(a, id, p, q)
      PROVE  ViewInv'
  <2>1. CASE RepriceOrder(a, id, p, q)
    <3>1. PICK t : t = ReplaceTaker(id, p, q)
      BY Zenon
    <3>2. /\ stage = "ready" /\ StartWalk(t) /\ BeginWalk(q)
          /\ UNCHANGED <<registry, view>> /\ index[id] # None
      BY <2>1, <3>1, Zenon DEF RepriceOrder, ReplaceReprice, Known, subscriberVars
    <3>3. t \in Taker /\ t.qty = q /\ t.origin = "replace"
      BY <3>1, <3>2, QtyAssumption, Zenon
         DEF ReplaceTaker, Taker, RegistryInv, BookInv, BookOK, BookTypeOK,
             OrderMeta, Lots, Limit, RestingTif, Tif
    <3> QED
      BY <3>2, <3>3, BeginKeepsView, Zenon
  <2> QED
    BY <1>1, <1>4, <2>1, AmendKeepsView, Zenon DEF RejectCancelReplace
<1>5. ASSUME NEW a \in Account, CancelAll(a) \/ RejectMassCancel(a)
      PROVE  ViewInv'
  <2>1. CASE CancelAll(a)
    BY <2>1, ForgetKeepsView, Zenon DEF CancelAll, OneShot
  <2> QED
    BY <1>1, <1>5, <2>1, Zenon DEF RejectMassCancel
<1>6. CASE SnapshotRequest \/ EmitBookChanges
             \/ \E engaged \in BOOLEAN : KillSwitchSet(engaged)
  <2>1. /\ stage # "handler" /\ stage' = "ready" /\ lastReport' = "None"
        /\ UNCHANGED <<registry, view>>
    BY <1>6, Zenon DEF SnapshotRequest, EmitBookChanges, KillSwitchSet,
       stepVars, subscriberVars, ViewInv
  <2> QED
    BY <2>1, QuietKeepsView, Zenon
<1>7. CASE MatchOne \/ MatchReturns \/ ReportFill
  BY <1>7, MatchKeepsView, ReturnKeepsView, ReportKeepsView, Zenon
<1>8. CASE UNCHANGED allVars
  BY <1>8, Zenon DEF allVars, vars, walkVars, engineVars, stepVars, subscriberVars,
     ViewInv, Counted, TakerTold, Told
<1> QED
  BY <1>2, <1>3, <1>4, <1>5, <1>6, <1>7, <1>8, EndKeepsView, Zenon
     DEF EngineNext, Commands, Pipeline

-----------------------------------------------------------------------------
(* Types.                                                                  *)

\* The variables no other invariant of the engine types.
FrameTypes ==
  /\ killSwitch \in BOOLEAN /\ lastTrade \in Limit /\ leaves \in Nat
  /\ lastReport \in ReportState /\ view \in [OrderId -> Nat]

\* A report tells of quantities: the new value of a view.
LEMMA ReportTypes ==
  ASSUME view \in [OrderId -> Nat], lastReport \in ReportState
  PROVE  /\ \A id \in OrderId, q \in Nat :
              ReportAccepted(id, q) \/ ReportReplaced(id, q)
                => view' \in [OrderId -> Nat] /\ lastReport' \in ReportState
         /\ \A ids \in SUBSET OrderId :
              ReportCancelled(ids)
                => view' \in [OrderId -> Nat] /\ lastReport' \in ReportState
         /\ \A id \in OrderId :
              ReportRejected(id)
                => view' \in [OrderId -> Nat] /\ lastReport' \in ReportState
BY DEF ReportAccepted, ReportReplaced, ReportCancelled, ReportRejected, ReportState

\* A fill is booked with typed quantities.
LEMMA FillTypes ==
  ASSUME RegistryInv, FrameTypes, ReportFill
  PROVE  FrameTypes'
<1>1. PICK f, e, l : /\ f = fills[reported + 1] /\ e = registry[f.maker]
                     /\ l = SaturatingSub(leaves, f.qty)
  BY Zenon
<1>2. /\ stage = "handler" /\ phase = "done" /\ reported < Len(fills) /\ e # None
      /\ leaves' = l /\ lastTrade' = f.price /\ killSwitch' = killSwitch
      /\ view' = [view EXCEPT ![f.maker] = MakerLeaves(e, f), ![taker.id] = l]
      /\ lastReport' \in {"Filled", "PartiallyFilled"}
  BY <1>1, Zenon DEF ReportFill, ReportFilled
<1>3. /\ fills \in Seq(Fill) /\ reported \in 0..Len(fills)
      /\ registry \in [OrderId -> RegistryEntry \cup {None}]
      /\ taker \in Taker
  <2>1. phase # "idle" => taker # None
    BY Zenon DEF RegistryInv, BookInv, WalkState
  <2>2. fills \in Seq(Fill) /\ taker \in Taker \cup {None}
    BY Zenon DEF RegistryInv, BookInv, WalkTypeOK
  <2> QED
    BY <1>2, <2>1, <2>2, Zenon DEF RegistryInv, StageInv
<1>4. PICK n \in Nat : n = Len(fills)
  BY <1>3
<1>5. reported + 1 \in 1..Len(fills)
  BY <1>2, <1>3, <1>4
<1>6. f \in Fill
  BY <1>1, <1>3, <1>5
<1>7. f.maker \in OrderId /\ f.price \in Price /\ f.qty \in Nat
  BY <1>6, Zenon DEF Fill, Lots
<1>8. e \in RegistryEntry
  BY <1>1, <1>2, <1>3, <1>7, Zenon
<1>9. e.qty \in Nat /\ taker.id \in OrderId
  BY <1>3, <1>8, Zenon DEF RegistryEntry, Taker, Lots
<1>10. l \in Nat /\ MakerLeaves(e, f) \in Nat
  BY <1>1, <1>7, <1>9 DEF SaturatingSub, MakerLeaves, FrameTypes
<1>11. view' \in [OrderId -> Nat]
  BY <1>2, <1>7, <1>9, <1>10, Zenon DEF FrameTypes
<1> QED
  BY <1>2, <1>7, <1>10, <1>11, Zenon DEF FrameTypes, Limit, ReportState

\* The end of a walk reports typed quantities.
LEMMA DisposeTypes ==
  ASSUME RegistryInv, FrameTypes,
         \/ DisposeStp \/ DisposeFilled \/ CancelTaker \/ RestTaker
         \/ RefuseResidual \/ RegisterReplaced \/ CancelReplaced
  PROVE  FrameTypes'
<1>1. AllReported
  BY Zenon DEF DisposeStp, DisposeFilled, CancelTaker, RestTaker, RefuseResidual,
         RegisterReplaced, CancelReplaced, Residual
<1>2. taker \in Taker /\ remaining \in Nat /\ stp \in OrderId \cup {None}
  <2>1. taker \in Taker
    BY <1>1, ReportedMirrored, Zenon
  <2> QED
    BY <2>1, Zenon DEF RegistryInv, BookInv, WalkTypeOK
<1>3. taker.id \in OrderId
  BY <1>2, Zenon DEF Taker
<1>4. killSwitch' = killSwitch /\ lastTrade' = lastTrade /\ leaves' = 0
  BY Zenon DEF DisposeStp, DisposeFilled, CancelTaker, RestTaker, RefuseResidual,
         RegisterReplaced, CancelReplaced, EndWalk, riskVars
<1>5. view \in [OrderId -> Nat] /\ lastReport \in ReportState
  BY Zenon DEF FrameTypes
<1>6. ASSUME view' \in [OrderId -> Nat], lastReport' \in ReportState PROVE FrameTypes'
  BY <1>4, <1>6, Zenon DEF FrameTypes
<1>7. CASE DisposeStp
  <2>1. ReportCancelled({stp, taker.id}) /\ stp # None
    BY <1>7, Zenon DEF DisposeStp
  <2>2. {stp, taker.id} \in SUBSET OrderId
    BY <1>2, <1>3, <2>1, Zenon
  <2> QED
    BY <1>5, <1>6, <2>1, <2>2, ReportTypes, Zenon
<1>8. CASE DisposeFilled \/ RegisterReplaced
  <2>1. view' = view /\ lastReport' = lastReport
    BY <1>8, Zenon DEF DisposeFilled, RegisterReplaced, subscriberVars
  <2> QED
    BY <1>5, <1>6, <2>1, Zenon
<1>9. CASE CancelTaker
  <2>1. ReportCancelled({taker.id})
    BY <1>9, Zenon DEF CancelTaker
  <2>2. {taker.id} \in SUBSET OrderId
    BY <1>3, Zenon
  <2> QED
    BY <1>5, <1>6, <2>1, <2>2, ReportTypes, Zenon
<1>10. CASE RestTaker
  <2>1. ReportAccepted(taker.id, remaining)
    BY <1>10, Zenon DEF RestTaker
  <2> QED
    BY <1>2, <1>3, <1>5, <1>6, <2>1, ReportTypes, Zenon
<1>11. CASE RefuseResidual \/ CancelReplaced
  <2>1. ReportRejected(taker.id)
    BY <1>11, Zenon DEF RefuseResidual, CancelReplaced
  <2> QED
    BY <1>3, <1>5, <1>6, <2>1, ReportTypes, Zenon
<1> QED
  BY <1>7, <1>8, <1>9, <1>10, <1>11, Zenon

\* Every step keeps the types.
LEMMA NextFrameTypes ==
  ASSUME RegistryInv, FrameTypes, [EngineNext]_allVars
  PROVE  FrameTypes'
<1>1. view \in [OrderId -> Nat] /\ lastReport \in ReportState
  BY Zenon DEF FrameTypes
<1>2. ASSUME UNCHANGED <<killSwitch, lastTrade, leaves>>,
             view' \in [OrderId -> Nat], lastReport' \in ReportState
      PROVE  FrameTypes'
  BY <1>2, Zenon DEF FrameTypes
<1>3. CASE RejectCommand
  BY <1>3, Zenon DEF RejectCommand, OneShot, riskVars, subscriberVars, FrameTypes,
              ReportState
<1>4. ASSUME NEW t \in NewOrders, NewOrder(t) \/ RejectNewOrder(t)
      PROVE  FrameTypes'
  <2>1. t.qty \in Nat
    BY NewOrdersAssumption, Zenon DEF Taker, Lots
  <2> QED
    BY <1>3, <1>4, <2>1, Zenon DEF NewOrder, RejectNewOrder, BeginWalk, riskVars,
                            subscriberVars, FrameTypes
<1>5. ASSUME NEW a \in Account, NEW id \in OrderId,
             CancelOrder(a, id) \/ RejectCancelOrder(a, id)
      PROVE  FrameTypes'
  <2>1. CASE RejectCancelOrder(a, id)
    BY <1>3, <2>1, Zenon DEF RejectCancelOrder
  <2>2. CASE CancelOrder(a, id)
    <3>1. ReportCancelled({id}) /\ UNCHANGED <<killSwitch, lastTrade, leaves>>
      BY <2>2, Zenon DEF CancelOrder, OneShot
    <3>2. {id} \in SUBSET OrderId
      BY Zenon
    <3> QED
      BY <1>1, <1>2, <3>1, <3>2, ReportTypes, Zenon
  <2> QED
    BY <1>5, <2>1, <2>2, Zenon
<1>6. ASSUME NEW a \in Account, NEW id \in OrderId, NEW p \in Price,
             NEW q \in Qty,
             \/ AmendOrder(a, id, p, q)
             \/ RepriceOrder(a, id, p, q)
             \/ RejectCancelReplace(a, id, p, q)
      PROVE  FrameTypes'
  <2>1. q \in Nat
    BY QtyAssumption, Zenon
  <2>2. CASE AmendOrder(a, id, p, q)
    <3>1. ReportReplaced(id, q) /\ UNCHANGED <<killSwitch, lastTrade, leaves>>
      BY <2>2, Zenon DEF AmendOrder, OneShot
    <3> QED
      BY <1>1, <1>2, <2>1, <3>1, ReportTypes, Zenon
  <2>3. CASE RepriceOrder(a, id, p, q)
    BY <2>1, <2>3, Zenon DEF RepriceOrder, BeginWalk, riskVars, subscriberVars, FrameTypes
  <2>4. CASE RejectCancelReplace(a, id, p, q)
    BY <1>3, <2>4, Zenon DEF RejectCancelReplace
  <2> QED
    BY <1>6, <2>2, <2>3, <2>4, Zenon
<1>7. ASSUME NEW a \in Account, CancelAll(a) \/ RejectMassCancel(a)
      PROVE  FrameTypes'
  <2>1. CASE RejectMassCancel(a)
    BY <1>3, <2>1, Zenon DEF RejectMassCancel
  <2>2. CASE CancelAll(a)
    <3>1. ReportCancelled(byAccount[a]) /\ UNCHANGED <<killSwitch, lastTrade, leaves>>
      BY <2>2, Zenon DEF CancelAll, OneShot
    <3>2. byAccount[a] \in SUBSET OrderId
      BY Zenon DEF RegistryInv, BookInv, BookOK, BookTypeOK
    <3> QED
      BY <1>1, <1>2, <3>1, <3>2, ReportTypes, Zenon
  <2> QED
    BY <1>7, <2>1, <2>2, Zenon
<1>8. ASSUME NEW engaged \in BOOLEAN, KillSwitchSet(engaged)
      PROVE  FrameTypes'
  BY <1>8, Zenon DEF KillSwitchSet, stepVars, subscriberVars, FrameTypes
<1>9. CASE SnapshotRequest
  BY <1>9, Zenon DEF SnapshotRequest, riskVars, stepVars, FrameTypes
<1>10. CASE MatchOne
  BY <1>10, Zenon DEF MatchOne, engineVars, riskVars, stepVars, subscriberVars, FrameTypes
<1>11. CASE MatchReturns
  <2>1. UNCHANGED <<killSwitch, lastTrade, leaves>> /\ stage = "handler"
    BY <1>11, Zenon DEF MatchReturns
  <2>2. CASE taker.origin = "replace"
    <3>1. ReportReplaced(taker.id, taker.qty)
      BY <1>11, <2>2, Zenon DEF MatchReturns, AcknowledgeReplace
    <3>2. taker \in Taker
      BY <2>1, Zenon DEF RegistryInv, BookInv, WalkState, WalkTypeOK, StageInv
    <3>3. taker.id \in OrderId /\ taker.qty \in Nat
      BY <3>2, Zenon DEF Taker, Lots
    <3> QED
      BY <1>1, <1>2, <2>1, <3>1, <3>3, ReportTypes, Zenon
  <2>3. CASE taker.origin # "replace"
    BY <1>1, <1>2, <1>11, <2>1, <2>3, Zenon DEF MatchReturns
  <2> QED
    BY <2>2, <2>3, Zenon
<1>12. CASE ReportFill
  BY <1>12, FillTypes, Zenon
<1>13. CASE \/ DisposeStp \/ DisposeFilled \/ CancelTaker \/ RestTaker
            \/ RefuseResidual \/ RegisterReplaced \/ CancelReplaced
  BY <1>13, DisposeTypes, Zenon
<1>14. CASE EmitBookChanges
  BY <1>14, Zenon DEF EmitBookChanges, riskVars, FrameTypes, ReportState
<1>15. CASE UNCHANGED allVars
  BY <1>15, Zenon DEF allVars, engineVars, riskVars, stepVars, subscriberVars, FrameTypes
<1> QED
  BY <1>4, <1>5, <1>6, <1>7, <1>8, <1>9, <1>10, <1>11, <1>12, <1>13, <1>14,
     <1>15, Zenon DEF EngineNext, Commands, Pipeline
=============================================================================
