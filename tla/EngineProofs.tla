---------------------------- MODULE EngineProofs ----------------------------
(***************************************************************************)
(* The theorems about registry, accounts, reports and types of module      *)
(* Engine, for every value of the constants.                               *)
(*                                                                         *)
(* They rest on the lemmas of RegistryProofs and AccountProofs, one per    *)
(* handler, which this module puts together with the invariant of the      *)
(* book; that one holds in the engine because it implements Book, which    *)
(* MirrorProofs shows.                                                     *)
(***************************************************************************)
EXTENDS AccountProofs, MirrorProofs

-----------------------------------------------------------------------------
(* Registry and book.                                                      *)

\* Initially nothing rests and nothing is booked.
LEMMA InitRegistryInv == EngineInit => RegistryInv /\ IsFiniteSet(Live)
<1> SUFFICES ASSUME EngineInit PROVE RegistryInv /\ IsFiniteSet(Live)
  BY Zenon
<1>1. BookInv
  BY InitInv, Zenon DEF EngineInit
<1>2. StageInv
  BY DEF EngineInit, Init, StageInv
<1>3. \A i \in OrderId : Mirrored(i)
  BY Zenon DEF EngineInit, Init, Mirrored
<1>4. Live = {}
  BY Zenon DEF EngineInit, Live
<1> QED
  BY <1>1, <1>2, <1>3, <1>4, FS_EmptySet DEF RegistryInv, EngineInit

\* Every step of the engine keeps it: the book's part is Book's invariant.
LEMMA NextBoth ==
  RegistryInv /\ IsFiniteSet(Live) /\ [EngineNext]_allVars
    => RegistryInv' /\ IsFiniteSet(Live)'
<1> SUFFICES ASSUME RegistryInv, IsFiniteSet(Live), [EngineNext]_allVars
             PROVE  RegistryInv' /\ IsFiniteSet(Live)'
  BY Zenon
<1>1. BookInv'
  BY EngineStepIsBookStep, NextInv, Zenon DEF RegistryInv
<1>2. RegistryInv'
  BY <1>1, NextRegistryInv, Zenon
<1> QED
  BY <1>2, NextLive, Zenon

\* By how much registry and book differ, in every state of the engine.
THEOREM RegistryInvariant == EngineSpec => [](RegistryInv /\ IsFiniteSet(Live))
BY InitRegistryInv, NextBoth, PTL DEF EngineSpec

\* Whenever no handler runs, the registry and the book know the same orders,
\* with the same owner, side, quantity and notional, whatever commands came
\* before and whatever each walk did.
THEOREM RegistryExact == EngineSpec => []RegistryMirrorsBook
<1>1. RegistryInv => RegistryMirrorsBook
  <2> SUFFICES ASSUME RegistryInv, stage # "handler", NEW i \in OrderId,
                      index[i] # None
               PROVE  \E r \in At(i) :
                        registry[i] =
                          [account |-> index[i].account, side |-> r.side,
                           qty |-> r.qty,
                           notional |-> NotionalOf(r.price, r.qty)]
    BY Zenon DEF RegistryInv, Mirrored, RegistryMirrorsBook
  <2>1. PICK r \in resting : r.id = i /\ At(i) = {r}
    BY AtKnown, Zenon DEF RegistryInv, BookInv
  <2>2. registry[i] = EntryOf(r)
    BY <2>1, Zenon DEF RegistryInv, Mirrored
  <2> QED
    BY <2>1, <2>2, Zenon DEF EntryOf
<1> QED
  BY <1>1, RegistryInvariant, PTL

-----------------------------------------------------------------------------
(* Accounts.                                                               *)

\* Initially no account holds anything.
LEMMA InitExposureInv == EngineInit => ExposureInv
<1> SUFFICES ASSUME EngineInit PROVE ExposureInv
  BY Zenon
<1>1. RegistryInv /\ IsFiniteSet(Live)
  BY InitRegistryInv, Zenon
<1>2. ASSUME NEW a \in Account PROVE Fits(registry, perAccount[a], a)
  <2>1. Entries(registry, a) = {}
    BY Zenon DEF EngineInit, Entries
  <2>2. Held(registry, a) = 0 /\ Cardinality(Entries(registry, a)) = 0
    BY <2>1, SumOfNone, FS_EmptySet, Zenon DEF Held
  <2>3. perAccount[a] = [open |-> 0, notional |-> 0]
    BY Zenon DEF EngineInit, NoAccountState
  <2> QED
    BY <2>2, <2>3, MaxOpenOrdersAssumption, MaxNotionalAssumption
       DEF Fits, AccountState
<1>3. perAccount \in [Account -> AccountState]
  BY Zenon DEF EngineInit, NoAccountState, AccountState
<1> QED
  BY <1>1, <1>2, <1>3, Zenon DEF ExposureInv, AccountInv

\* Every account's counters agree with the registry, in every state.
THEOREM ExposureInvariant == EngineSpec => []ExposureInv
<1>1. ExposureInv /\ [EngineNext]_allVars => ExposureInv'
  <2> SUFFICES ASSUME ExposureInv, [EngineNext]_allVars PROVE ExposureInv'
    BY Zenon
  <2>1. RegistryInv' /\ IsFiniteSet(Live)'
    BY NextBoth, Zenon DEF ExposureInv
  <2> QED
    BY <2>1, NextAccountInv, Zenon DEF ExposureInv
<1> QED
  BY <1>1, InitExposureInv, PTL DEF EngineSpec

\* OrdersOf is the set of an account's entries.
LEMMA OrdersOfEntries == \A a : OrdersOf(a) = Entries(registry, a)
BY Zenon DEF OrdersOf, Entries

\* The notional held against an account is the sum over its live orders and
\* never above the ceiling, for every history of commands: fills, cancels,
\* self-trade prevention, amends and replaces refund what they must, once.
THEOREM ExposureIsExact == EngineSpec => []ExposureExact
<1>1. ExposureInv => ExposureExact
  <2> SUFFICES ASSUME ExposureInv, NEW a \in Account
               PROVE  /\ perAccount[a].notional =
                           MapThenSumSet(LAMBDA i : registry[i].notional,
                                         OrdersOf(a))
                      /\ perAccount[a].notional <= MaxNotional
    BY Zenon DEF ExposureExact
  <2>1. /\ IsFiniteSet(Entries(registry, a)) /\ Fits(registry, perAccount[a], a)
    BY InvFacts, Zenon
  <2>2. PICK f : f = [i \in OrderId |-> registry[i].notional]
    BY Zenon
  <2>3. PICK S : S = Entries(registry, a)
    BY Zenon
  <2>4. \A i \in S : f[i] = registry[i].notional
    BY <2>2, <2>3, Zenon DEF Entries
  <2>5. MapThenSumSet(LAMBDA i : registry[i].notional, S) = SumOf(f, S)
    BY <2>1, <2>3, <2>4, NotionalSum, Zenon
  <2>6. OrdersOf(a) = S
    BY <2>3, OrdersOfEntries, Zenon
  <2>7. Held(registry, a) = SumOf(f, S)
    BY <2>2, <2>3, Zenon DEF Held
  <2> QED
    BY <2>1, <2>5, <2>6, <2>7, Zenon DEF Fits
<1> QED
  BY <1>1, ExposureInvariant, PTL

\* No account is ever charged with more open orders than it has, though a
\* partial fill and the reuse of an id both make the count run behind.
THEOREM OpenOrdersNeverOver == EngineSpec => []OpenOrdersNeverOvercount
<1>1. ExposureInv => OpenOrdersNeverOvercount
  BY InvFacts, OrdersOfEntries, Zenon DEF OpenOrdersNeverOvercount, Fits
<1> QED
  BY <1>1, ExposureInvariant, PTL

\* on_order_resting never refuses the smaller order of a quantity-down
\* replace, so that handler's cancel branch is never taken.
THEOREM AmendAlwaysFits == EngineSpec => []AmendFits
<1>1. ExposureInv => AmendFits
  <2> SUFFICES ASSUME ExposureInv, stage = "ready", NEW r \in resting,
                      NEW q \in 1..r.qty
               PROVE  LimitVerdict(Removed(perAccount[registry[r.id].account],
                                           registry[r.id].notional),
                                   NotionalOf(r.price, q)) = "ok"
    BY Zenon DEF AmendFits
  <2>1. RegistryInv /\ BookOK
    BY Zenon DEF ExposureInv, RegistryInv, BookInv
  <2>2. r.id \in OrderId /\ r.qty \in Nat /\ r.price \in Nat /\ q \in Nat
          /\ q <= r.qty
    BY <2>1, PricePositive DEF BookOK, BookTypeOK, RestingOrder, Lots
  <2>3. PICK e : e = registry[r.id]
    BY Zenon
  <2>4. e = EntryOf(r) /\ e \in RegistryEntry
    BY <2>1, <2>2, <2>3, EntryTyped, Zenon DEF RegistryInv, Mirrored
  <2>5. e # None /\ e.account \in Account
    BY <2>4, EntryAssumption, Zenon DEF RegistryEntry
  <2>6. NotionalOf(r.price, q) \in Nat /\ NotionalOf(r.price, q) <= e.notional
    BY <2>2, <2>4, TimesMonotone, Zenon DEF NotionalOf, EntryOf
  <2>7. registry \in Registry /\ IsFiniteSet(Entries(registry, e.account))
          /\ Fits(registry, perAccount[e.account], e.account)
    BY <2>5, InvFacts, Zenon
  <2>8. r.id \in Entries(registry, e.account)
    BY <2>2, <2>3, <2>5, Zenon DEF Entries
  <2> QED
    BY <2>2, <2>3, <2>6, <2>7, <2>8, SmallerFits, Zenon
<1> QED
  BY <1>1, ExposureInvariant, PTL

\* The second check of a new order, when its residual comes to rest, never
\* refuses what the first one let in, however the walk went in between.
THEOREM AdmittedFits == EngineSpec => []AdmittedNewOrderFits
<1>1. EngineInit => AdmittedInv
  BY Zenon DEF EngineInit, AdmittedInv
<1>2. ExposureInv /\ ExposureInv' /\ AdmittedInv /\ [EngineNext]_allVars
        => AdmittedInv'
  BY NextAdmittedInv, Zenon DEF ExposureInv
<1>3. ExposureInv /\ AdmittedInv => AdmittedNewOrderFits
  BY Zenon DEF ExposureInv, AdmittedInv, AdmittedNewOrderFits, MayRest, RegistryInv, StageInv
<1> QED
  BY <1>1, <1>2, <1>3, ExposureInvariant, PTL DEF EngineSpec

-----------------------------------------------------------------------------
(* Execution reports.                                                      *)

\* The lots of a single order.
LEMMA TotalOfOne ==
  ASSUME NEW r \in RestingOrder
  PROVE  Total({r}) = r.qty
<1>1. IsFiniteSet({r}) /\ IsFiniteSet({})
  BY FS_Singleton, FS_EmptySet, Zenon
<1>2. PICK f : f = [x \in {} |-> x.qty]
  BY Zenon
<1>3. Total({}) = SumOf(f, {})
  BY <1>1, TotalIsSum, Zenon
<1>4. Total({}) = 0
  BY <1>3, SumOfNone, Zenon
<1>5. Total({r}) = r.qty + Total({r} \ {r})
  BY <1>1, TotalSplit, Zenon
<1>6. {r} \ {r} = {} /\ r.qty \in Nat
  BY Zenon DEF RestingOrder, Lots
<1> QED
  BY <1>4, <1>5, <1>6

\* Who follows the execution reports alone knows what rests of every order
\* once a command is done: fills, cancels, self-trade prevention, replaces
\* and late refusals of a residual are told completely and in an order that
\* ends at the truth (engine.rs, emit_fills_for_taker and the dispositions),
\* as long as clients do not reuse live ids.
THEOREM ReportsTellAll == EngineSpec => []ViewExact
<1> DEFINE I == RegistryInv /\ (UniqueIds => ViewInv)
<1>1. EngineInit => I
  <2>1. EngineInit => ViewInv
    BY DEF EngineInit, ViewInv, Told
  <2> QED
    BY <2>1, InitRegistryInv, Zenon
<1>2. RegistryInv /\ RegistryInv' /\ I /\ [EngineNext]_allVars => I'
  BY NextViewInv, Zenon
<1>3. ASSUME I PROVE ViewExact
  <2> SUFFICES ASSUME UniqueIds, stage # "handler", NEW i \in OrderId
               PROVE  view[i] = IF index[i] = None THEN 0 ELSE Total(At(i))
    BY Zenon DEF ViewExact
  <2>1. Told(i) /\ Mirrored(i) /\ BookOK
    BY <1>3, Zenon DEF ViewInv, RegistryInv, BookInv
  <2>2. CASE index[i] = None
    BY <2>1, <2>2, Zenon DEF Told, Mirrored
  <2>3. CASE index[i] # None
    <3>1. PICK r \in resting : r.id = i /\ At(i) = {r}
      BY <2>1, <2>3, AtKnown, Zenon
    <3>2. r \in RestingOrder
      BY <2>1, Zenon DEF BookOK, BookTypeOK
    <3>3. registry[i] = EntryOf(r) /\ EntryOf(r) # None
      BY <2>1, <3>1, EntryTyped, EntryAssumption DEF Mirrored
    <3>4. view[i] = r.qty
      BY <2>1, <3>3 DEF Told, EntryOf
    <3> QED
      BY <2>3, <3>1, <3>2, <3>4, TotalOfOne
  <2> QED
    BY <2>2, <2>3, Zenon
<1>4. EngineSpec => []RegistryInv
  BY RegistryInvariant, PTL
<1> QED
  BY <1>1, <1>2, <1>3, <1>4, PTL DEF EngineSpec

-----------------------------------------------------------------------------
(* Types.                                                                  *)

\* Every variable of the engine keeps its type; a registry entry always has a
\* legal Qty, so no maker's leaves saturate to zero on a partial fill.
THEOREM EngineTypeCorrect == EngineSpec => []EngineTypeOK
<1>1. EngineInit => FrameTypes
  <2> SUFFICES ASSUME EngineInit PROVE FrameTypes
    BY Zenon
  <2>1. /\ killSwitch = FALSE /\ lastTrade = NoPrice /\ leaves = 0
        /\ lastReport = "None" /\ view = [i \in OrderId |-> 0]
    BY Zenon DEF EngineInit
  <2>2. view \in [OrderId -> Nat] /\ leaves \in Nat
    BY <2>1, Zenon
  <2>3. killSwitch \in BOOLEAN /\ lastTrade \in Limit /\ lastReport \in ReportState
    BY <2>1, Zenon DEF Limit, ReportState
  <2> QED
    BY <2>2, <2>3, Zenon DEF FrameTypes
<1>2. RegistryInv /\ FrameTypes /\ [EngineNext]_allVars => FrameTypes'
  BY NextFrameTypes, Zenon
<1>3. ASSUME ExposureInv, MarketInv, FrameTypes PROVE EngineTypeOK
  <2>1. TypeOK
    BY <1>3, Zenon DEF MarketInv, BookInv, BookOK, TypeOK
  <2>2. perAccount \in [Account -> AccountState]
    BY <1>3, Zenon DEF ExposureInv, AccountInv
  <2>3. /\ registry \in [OrderId -> RegistryEntry \cup {None}]
        /\ stage \in {"ready", "handler", "tail"} /\ (stage # "handler" <=> phase = "idle")
        /\ reported \in 0..Len(fills)
    BY <1>3, Zenon DEF ExposureInv, RegistryInv, StageInv
  <2>4. /\ pre \in Seq(LevelTotal) /\ (mirror = None \/ mirror \in [Side -> [Price -> Nat]])
        /\ top \in [Side -> [price : Limit, qty : Nat]]
    BY <1>3, Zenon DEF MarketInv, MirrorInv, TopInv, Totals
  <2> QED
    BY <1>3, <2>1, <2>2, <2>3, <2>4, Zenon DEF FrameTypes, EngineTypeOK
<1> QED
  BY <1>1, <1>2, <1>3, RegistryInvariant, ExposureInvariant, MarketInvariant, PTL
     DEF EngineSpec

=============================================================================
