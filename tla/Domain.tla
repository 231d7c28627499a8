------------------------------- MODULE Domain -------------------------------
(***************************************************************************)
(* The value types of crates/domain/src/types.  A validating constructor   *)
(* (Price::new and its like) is modelled by the set of raw values it takes, *)
(* an enum by the function from its variants to their wire discriminants,  *)
(* and a cast between signed and unsigned words by what two's complement   *)
(* makes of it.                                                            *)
(***************************************************************************)
EXTENDS Integers

CONSTANTS
  TickSize,   \* TICK_SIZE
  LotSize,    \* LOT_SIZE
  Word,       \* number of values of a 64-bit word, kept small
  None        \* Option::None

HalfWord == Word \div 2

ASSUME TickSizeAssumption == TickSize \in Nat \ {0}
ASSUME LotSizeAssumption == LotSize \in Nat \ {0}
ASSUME WordAssumption == HalfWord \in Nat \ {0} /\ Word = 2 * HalfWord

-----------------------------------------------------------------------------
(* Integers.                                                               *)

U64 == 0..(Word - 1)
I64 == (0 - HalfWord)..(HalfWord - 1)
U32 == 0..(HalfWord - 1)
U8 == 0..255

\* `as u64` of an i64
AsU64(i) == IF i < 0 THEN i + Word ELSE i

\* `as i64` of a u64
AsI64(u) == IF u < HalfWord THEN u ELSE u - Word

Price == {t \in I64 : t > 0 /\ t % TickSize = 0}
Qty == {l \in U64 : l # 0 /\ l % LotSize = 0}
OrderId == U64 \ {0}
AccountId == U32 \ {0}
EngineSeq == U64
TradeId == U64
ClientTs == I64
RecvTs == I64

-----------------------------------------------------------------------------
(* Enums and their discriminants.                                          *)

Side == [Bid |-> 1, Ask |-> 2]

OrderType == [Limit |-> 1, Market |-> 2]

Tif == [Gtc |-> 1, Ioc |-> 2, PostOnly |-> 3]

ExecState ==
  [Accepted |-> 1, Rejected |-> 2, PartiallyFilled |-> 3, Filled |-> 4,
   Cancelled |-> 5, Replaced |-> 6]

CancelReason ==
  [UserRequested |-> 1, MassCancel |-> 2, IocRemaining |-> 3,
   SelfTradePrevented |-> 4, Replaced |-> 5]

RejectReason ==
  [KillSwitched |-> 1, InvalidPrice |-> 2, InvalidQty |-> 3,
   TickViolation |-> 4, LotViolation |-> 5, PriceBand |-> 6,
   MaxOpenOrders |-> 7, MaxNotional |-> 8, UnknownOrderId |-> 9,
   DuplicateOrderId |-> 10, PostOnlyWouldCross |-> 11,
   SelfTradePrevented |-> 12, MarketOrderInEmptyBook |-> 13,
   UnknownAccount |-> 14, MalformedMessage |-> 15]

KillSwitchState == [Resume |-> 0, Halt |-> 1]

Variants(enum) == DOMAIN enum

\* An absent value is none of the numbers and reasons that may be present.
ASSUME NoneAssumption ==
  None \notin Int \cup Variants(RejectReason) \cup Variants(CancelReason)

Codes(enum) == {enum[v] : v \in DOMAIN enum}

\* TryFrom<u8>, for a discriminant in Codes(enum)
FromU8(enum, u) == CHOOSE v \in DOMAIN enum : enum[v] = u

=============================================================================
