--------------------------- MODULE AccountProofs ----------------------------
(***************************************************************************)
(* Proofs about the accounts of module Engine, for every value of the      *)
(* constants.                                                              *)
(*                                                                         *)
(* Risk holds two counters per account and never recomputes them: each     *)
(* handler adds or refunds what it believes the change is worth.  Fits     *)
(* says what the counters stand for.  A step changes the registry at one   *)
(* id, or empties it for one account; EntryChange gives the change of the  *)
(* sum, and each kind of bookkeeping step is shown to follow it.           *)
(***************************************************************************)
EXTENDS RegistryProofs, BookProofs

Registry == [OrderId -> RegistryEntry \cup {None}]

\* The ids a registry has for an account, and the notional it holds for them.
Entries(reg, a) == {i \in OrderId : reg[i] # None /\ reg[i].account = a}
Held(reg, a) == SumOf([i \in OrderId |-> reg[i].notional], Entries(reg, a))

\* What an account's counters stand for.  The notional is exact.  The count
\* is not: it is only a lower bound of the account's orders.
Fits(reg, st, a) ==
  /\ st \in AccountState
  /\ st.notional = Held(reg, a)
  /\ st.notional <= MaxNotional
  /\ st.open <= Cardinality(Entries(reg, a))
  /\ st.open <= MaxOpenOrders

\* The share of one id in an account.
Share(reg, i, a) == IF i \in Entries(reg, a) THEN reg[i].notional ELSE 0
Count(reg, i, a) == IF i \in Entries(reg, a) THEN 1 ELSE 0

-----------------------------------------------------------------------------
(* Sums of notionals.                                                      *)

\* The sum of registry notionals a refund computes is the sum of any function
\* that gives each id its notional.
LEMMA NotionalSum ==
  ASSUME NEW reg, NEW S, IsFiniteSet(S), NEW f,
         \A i \in S : f[i] = reg[i].notional
  PROVE  MapThenSumSet(LAMBDA i : reg[i].notional, S) = SumOf(f, S)
<1> DEFINE Iterates(g) ==
             g = [s \in SUBSET S |->
                    IF s = {} THEN 0
                    ELSE reg[Chosen(s)].notional + g[s \ {Chosen(s)}]]
           c == CHOOSE g : Iterates(g)
<1>1. MapThenSumSet(LAMBDA i : reg[i].notional, S) = c[S]
  BY Zenon DEF MapThenSumSet, MapThenFoldSet, Chosen
<1>2. \A s \in SUBSET S : s # {} => f[Chosen(s)] = reg[Chosen(s)].notional
  BY Zenon DEF Chosen
<1>3. \A g : IsSum(f, g, SUBSET S) <=> Iterates(g)
  BY <1>2, Zenon DEF IsSum
<1>4. \E g : Iterates(g)
  BY <1>3, SumExists, Zenon
<1>5. IsSum(f, c, SUBSET S)
  BY <1>3, <1>4, Zenon
<1> QED
  BY <1>1, <1>5, SumOfIs, Zenon

\* A refund leaves an account state.
LEMMA RemovedTyped ==
  ASSUME NEW st \in AccountState, NEW n \in Nat
  PROVE  Removed(st, n) \in AccountState
BY DEF Removed, AccountState, SaturatingSub

\* The notional held is a natural number, no less than any share of it.
LEMMA HeldSplit ==
  ASSUME NEW reg \in Registry, NEW a, IsFiniteSet(Entries(reg, a)),
         NEW i \in OrderId
  PROVE  /\ Share(reg, i, a) \in Nat
         /\ SumOf([j \in OrderId |-> reg[j].notional], Entries(reg, a) \ {i})
              \in Nat
         /\ Held(reg, a) = Share(reg, i, a) +
              SumOf([j \in OrderId |-> reg[j].notional], Entries(reg, a) \ {i})
<1>1. PICK f : f = [j \in OrderId |-> reg[j].notional]
  BY Zenon
<1>2. PICK S : S = Entries(reg, a)
  BY Zenon
<1>3. \A x \in S : f[x] \in Nat /\ f[x] = reg[x].notional
  BY <1>1, <1>2, Zenon DEF Entries, Registry, RegistryEntry
<1>4. IsFiniteSet(S) /\ IsFiniteSet(S \ {i})
  BY <1>2, FS_Subset, Zenon
<1>5. SumOf(f, S \ {i}) \in Nat
  BY <1>3, <1>4, SumOfNat
<1>6. CASE i \in S
  <2>1. SumOf(f, S) = f[i] + SumOf(f, S \ {i})
    BY <1>3, <1>4, <1>6, SumOfSplit, Zenon
  <2>2. Share(reg, i, a) = f[i] /\ f[i] \in Nat
    BY <1>2, <1>3, <1>6, Zenon DEF Share
  <2> QED
    BY <1>1, <1>2, <1>5, <2>1, <2>2 DEF Held
<1>7. CASE i \notin S
  <2>1. S \ {i} = S
    BY <1>7, Zenon
  <2>2. Share(reg, i, a) = 0
    BY <1>2, <1>7, Zenon DEF Share
  <2>3. Held(reg, a) = SumOf(f, S)
    BY <1>1, <1>2, Zenon DEF Held
  <2>4. SumOf(f, S) = SumOf(f, S \ {i})
    BY <2>1, Zenon
  <2> QED
    BY <1>1, <1>2, <1>5, <2>2, <2>3, <2>4
<1> QED
  BY <1>6, <1>7, Zenon

\* The number of an account's orders, by the same split.
LEMMA CountSplit ==
  ASSUME NEW reg, NEW a, IsFiniteSet(Entries(reg, a)), NEW i \in OrderId
  PROVE  /\ IsFiniteSet(Entries(reg, a) \ {i})
         /\ Cardinality(Entries(reg, a) \ {i}) \in Nat
         /\ Cardinality(Entries(reg, a)) =
              Count(reg, i, a) + Cardinality(Entries(reg, a) \ {i})
<1>1. PICK S : S = Entries(reg, a)
  BY Zenon
<1>2. IsFiniteSet(S) /\ IsFiniteSet(S \ {i}) /\ Cardinality(S) \in Nat
        /\ Cardinality(S \ {i}) \in Nat
  BY <1>1, FS_Subset, FS_CardinalityType
<1>3. CASE i \in S
  <2>1. Cardinality(S \ {i}) = Cardinality(S) - 1
    BY <1>2, <1>3, FS_RemoveElement, Zenon
  <2> QED
    BY <1>1, <1>2, <1>3, <2>1 DEF Count
<1>4. CASE i \notin S
  <2>1. S \ {i} = S
    BY <1>4, Zenon
  <2> QED
    BY <1>1, <1>2, <1>4, <2>1 DEF Count
<1> QED
  BY <1>3, <1>4, Zenon

\* When the entry of one id changes, each account's sum and count change by
\* that id's share.
LEMMA EntryChange ==
  ASSUME NEW reg \in Registry, NEW reg2 \in Registry, NEW i \in OrderId,
         \A j \in OrderId : j # i => reg2[j] = reg[j],
         NEW a, IsFiniteSet(Entries(reg, a))
  PROVE  /\ Held(reg, a) \in Nat /\ Held(reg2, a) \in Nat
         /\ Share(reg, i, a) \in Nat /\ Share(reg2, i, a) \in Nat
         /\ Share(reg, i, a) <= Held(reg, a)
         /\ Held(reg2, a) = Held(reg, a) - Share(reg, i, a) + Share(reg2, i, a)
         /\ Cardinality(Entries(reg, a)) \in Nat
         /\ Cardinality(Entries(reg2, a)) =
              Cardinality(Entries(reg, a)) - Count(reg, i, a)
                + Count(reg2, i, a)
<1>1. PICK f : f = [j \in OrderId |-> reg[j].notional]
  BY Zenon
<1>2. PICK g : g = [j \in OrderId |-> reg2[j].notional]
  BY Zenon
<1>3. PICK R : R = Entries(reg, a) \ {i}
  BY Zenon
<1>4. R = Entries(reg2, a) \ {i}
  BY <1>3, Zenon DEF Entries
<1>5. IsFiniteSet(R) /\ Cardinality(R) \in Nat
        /\ Cardinality(Entries(reg, a)) = Count(reg, i, a) + Cardinality(R)
  BY <1>3, CountSplit
<1>6. IsFiniteSet(Entries(reg2, a))
  <2>1. Entries(reg2, a) \subseteq R \cup {i}
    BY <1>4, Zenon
  <2> QED
    BY <1>5, <2>1, FS_AddElement, FS_Subset, Zenon
<1>7. Cardinality(Entries(reg2, a)) = Count(reg2, i, a) + Cardinality(R)
  BY <1>4, <1>6, CountSplit
<1>8. \A x \in R : g[x] = f[x]
  BY <1>1, <1>2, <1>3, Zenon DEF Entries
<1>9. SumOf(g, R) = SumOf(f, R)
  BY <1>5, <1>8, SumOfSame, Zenon
<1>10. /\ Share(reg, i, a) \in Nat /\ SumOf(f, R) \in Nat
       /\ Held(reg, a) = Share(reg, i, a) + SumOf(f, R)
  BY <1>1, <1>3, HeldSplit
<1>11. /\ Share(reg2, i, a) \in Nat
       /\ Held(reg2, a) = Share(reg2, i, a) + SumOf(g, R)
  BY <1>2, <1>4, <1>6, HeldSplit, Zenon
<1>12. Count(reg, i, a) \in Nat /\ Count(reg2, i, a) \in Nat
  BY Zenon DEF Count
<1> QED
  BY <1>5, <1>7, <1>9, <1>10, <1>11, <1>12

-----------------------------------------------------------------------------
(* Each kind of bookkeeping keeps the counters right.                      *)

\* An account whose orders do not change.
LEMMA FitsFrame ==
  ASSUME NEW reg \in Registry, NEW reg2 \in Registry, NEW a,
         IsFiniteSet(Entries(reg, a)), NEW st, Fits(reg, st, a),
         \A j \in OrderId :
           j \in Entries(reg, a) \/ j \in Entries(reg2, a) => reg2[j] = reg[j]
  PROVE  Fits(reg2, st, a)
<1>1. Entries(reg2, a) = Entries(reg, a)
  BY Zenon DEF Entries
<1>2. PICK f : f = [j \in OrderId |-> reg[j].notional]
  BY Zenon
<1>3. PICK g : g = [j \in OrderId |-> reg2[j].notional]
  BY Zenon
<1>4. \A x \in Entries(reg, a) : g[x] = f[x]
  BY <1>2, <1>3, Zenon DEF Entries
<1>5. SumOf(g, Entries(reg, a)) = SumOf(f, Entries(reg, a))
  BY <1>4, SumOfSame, Zenon
<1>6. Held(reg2, a) = Held(reg, a)
  BY <1>1, <1>2, <1>3, <1>5, Zenon DEF Held
<1> QED
  BY <1>1, <1>6, Zenon DEF Fits

\* An order leaves: by a cancel, STP, a full fill or an acknowledged replace.
LEMMA FitsRemoved ==
  ASSUME NEW reg \in Registry, NEW reg2 \in Registry, NEW i \in OrderId,
         \A j \in OrderId : j # i => reg2[j] = reg[j], reg2[i] = None,
         NEW a, IsFiniteSet(Entries(reg, a)), NEW st, Fits(reg, st, a),
         i \in Entries(reg, a)
  PROVE  Fits(reg2, Removed(st, reg[i].notional), a)
<1>1. /\ Share(reg, i, a) = reg[i].notional /\ Share(reg2, i, a) = 0
      /\ Count(reg, i, a) = 1 /\ Count(reg2, i, a) = 0
  BY Zenon DEF Share, Count, Entries
<1>2. /\ Held(reg, a) \in Nat /\ reg[i].notional \in Nat
      /\ reg[i].notional <= Held(reg, a)
      /\ Held(reg2, a) = Held(reg, a) - reg[i].notional
      /\ Cardinality(Entries(reg, a)) \in Nat
      /\ Cardinality(Entries(reg2, a)) = Cardinality(Entries(reg, a)) - 1
      /\ Cardinality(Entries(reg2, a)) \in Nat
  <2>1. Cardinality(Entries(reg2, a)) \in Nat
    <3>1. Entries(reg2, a) \subseteq Entries(reg, a)
      BY Zenon DEF Entries
    <3> QED
      BY <3>1, FS_Subset, FS_CardinalityType, Zenon
  <2> QED
    BY <1>1, <2>1, EntryChange
<1>3. /\ st \in AccountState /\ st.open \in Nat /\ st.notional = Held(reg, a)
      /\ st.notional <= MaxNotional /\ st.open <= MaxOpenOrders
      /\ st.open <= Cardinality(Entries(reg, a))
  BY Zenon DEF Fits, AccountState
<1>4. Removed(st, reg[i].notional) \in AccountState
  BY <1>2, <1>3, RemovedTyped, Zenon
<1>5. Removed(st, reg[i].notional).notional = Held(reg2, a)
  BY <1>2, <1>3 DEF Removed, SaturatingSub
<1>6. /\ Removed(st, reg[i].notional).open <= Cardinality(Entries(reg2, a))
      /\ Removed(st, reg[i].notional).open <= MaxOpenOrders
  BY <1>2, <1>3, MaxOpenOrdersAssumption DEF Removed, SaturatingSub
<1>7. Held(reg2, a) <= MaxNotional
  BY <1>2, <1>3, MaxNotionalAssumption
<1> QED
  BY <1>4, <1>5, <1>6, <1>7, Zenon DEF Fits

\* An order is booked that passed the limits.
LEMMA FitsRested ==
  ASSUME NEW reg \in Registry, NEW reg2 \in Registry, NEW i \in OrderId,
         \A j \in OrderId : j # i => reg2[j] = reg[j],
         reg[i] = None, reg2[i] \in RegistryEntry,
         IsFiniteSet(Entries(reg, reg2[i].account)),
         NEW st, Fits(reg, st, reg2[i].account),
         LimitVerdict(st, reg2[i].notional) = "ok"
  PROVE  Fits(reg2, Rested(st, reg2[i].notional), reg2[i].account)
<1>1. PICK a : a = reg2[i].account
  BY Zenon
<1>2. PICK n : n = reg2[i].notional
  BY Zenon
<1>3. n \in Nat /\ reg2[i] # None
  BY <1>2, EntryAssumption, Zenon DEF RegistryEntry
<1>4. /\ Share(reg, i, a) = 0 /\ Share(reg2, i, a) = n
      /\ Count(reg, i, a) = 0 /\ Count(reg2, i, a) = 1
  BY <1>1, <1>2, <1>3, Zenon DEF Share, Count, Entries
<1>5. /\ Held(reg, a) \in Nat /\ Held(reg2, a) = Held(reg, a) + n
      /\ Cardinality(Entries(reg, a)) \in Nat
      /\ Cardinality(Entries(reg2, a)) = Cardinality(Entries(reg, a)) + 1
  BY <1>1, <1>3, <1>4, EntryChange
<1>6. /\ st \in AccountState /\ st.open \in Nat /\ st.notional = Held(reg, a)
      /\ st.open <= Cardinality(Entries(reg, a))
  BY <1>1, Zenon DEF Fits, AccountState
<1>7. st.open + 1 <= MaxOpenOrders /\ st.notional + n <= MaxNotional
  BY <1>2, <1>3, <1>5, <1>6, MaxOpenOrdersAssumption, MaxNotionalAssumption
     DEF LimitVerdict
<1>8. /\ Rested(st, n) \in AccountState /\ Rested(st, n).open = st.open + 1
      /\ Rested(st, n).notional = st.notional + n
  BY <1>3, <1>5, <1>6 DEF Rested, AccountState
<1> QED
  BY <1>1, <1>2, <1>5, <1>6, <1>7, <1>8 DEF Fits

\* A partial fill: the entry gives up some notional and stays.  The open
\* counter drops all the same, which keeps it a lower bound.
LEMMA FitsReduced ==
  ASSUME NEW reg \in Registry, NEW reg2 \in Registry, NEW i \in OrderId,
         \A j \in OrderId : j # i => reg2[j] = reg[j],
         NEW a, IsFiniteSet(Entries(reg, a)), NEW st, Fits(reg, st, a),
         i \in Entries(reg, a), i \in Entries(reg2, a),
         NEW c \in Nat, reg2[i].notional = reg[i].notional - c
  PROVE  Fits(reg2, Removed(st, c), a)
<1>1. /\ Share(reg, i, a) = reg[i].notional
      /\ Share(reg2, i, a) = reg[i].notional - c
      /\ Count(reg, i, a) = 1 /\ Count(reg2, i, a) = 1
  BY Zenon DEF Share, Count
<1>2. /\ Held(reg, a) \in Nat /\ Held(reg2, a) = Held(reg, a) - c
      /\ Held(reg2, a) \in Nat
      /\ Cardinality(Entries(reg, a)) \in Nat
      /\ Cardinality(Entries(reg2, a)) = Cardinality(Entries(reg, a))
  BY <1>1, EntryChange
<1>3. /\ st \in AccountState /\ st.open \in Nat /\ st.notional = Held(reg, a)
      /\ st.notional <= MaxNotional /\ st.open <= MaxOpenOrders
      /\ st.open <= Cardinality(Entries(reg, a))
  BY Zenon DEF Fits, AccountState
<1>4. Removed(st, c) \in AccountState
  BY <1>3, RemovedTyped, Zenon
<1>5. Removed(st, c).notional = Held(reg2, a)
  BY <1>2, <1>3 DEF Removed, SaturatingSub
<1>6. /\ Removed(st, c).open <= Cardinality(Entries(reg2, a))
      /\ Removed(st, c).open <= MaxOpenOrders
  BY <1>2, <1>3, MaxOpenOrdersAssumption DEF Removed, SaturatingSub
<1>7. Held(reg2, a) <= MaxNotional
  BY <1>2, <1>3, MaxNotionalAssumption
<1> QED
  BY <1>4, <1>5, <1>6, <1>7, Zenon DEF Fits

\* An order refunded and booked again for no more than before fits.
LEMMA SmallerFits ==
  ASSUME NEW reg \in Registry, NEW i \in OrderId, NEW a,
         IsFiniteSet(Entries(reg, a)), i \in Entries(reg, a),
         NEW st, Fits(reg, st, a), NEW n \in Nat, n <= reg[i].notional
  PROVE  LimitVerdict(Removed(st, reg[i].notional), n) = "ok"
<1>1. /\ Held(reg, a) \in Nat /\ reg[i].notional \in Nat
      /\ reg[i].notional <= Held(reg, a)
  <2>1. Share(reg, i, a) = reg[i].notional
    BY Zenon DEF Share
  <2> QED
    BY <2>1, EntryChange
<1>2. /\ st.open \in Nat /\ st.notional = Held(reg, a)
      /\ st.notional <= MaxNotional /\ st.open <= MaxOpenOrders
  BY Zenon DEF Fits, AccountState
<1>3. PICK r : r = Removed(st, reg[i].notional)
  BY Zenon
<1>4. r.open = (IF st.open > 1 THEN st.open - 1 ELSE 0)
        /\ r.notional = st.notional - reg[i].notional
  BY <1>1, <1>2, <1>3 DEF Removed, SaturatingSub
<1>5. r.open \in Nat /\ r.open + 1 <= MaxOpenOrders
  BY <1>2, <1>4, MaxOpenOrdersAssumption
<1>6. r.notional + n <= MaxNotional /\ r.notional \in Nat
  BY <1>1, <1>2, <1>4, MaxNotionalAssumption
<1> QED
  BY <1>3, <1>5, <1>6, MaxOpenOrdersAssumption, MaxNotionalAssumption
     DEF LimitVerdict

\* An order shrinks in place.
LEMMA FitsAmended ==
  ASSUME NEW reg \in Registry, NEW reg2 \in Registry, NEW i \in OrderId,
         \A j \in OrderId : j # i => reg2[j] = reg[j],
         NEW a, IsFiniteSet(Entries(reg, a)), NEW st, Fits(reg, st, a),
         i \in Entries(reg, a), i \in Entries(reg2, a),
         reg2[i].notional <= reg[i].notional
  PROVE  Fits(reg2, Rested(Removed(st, reg[i].notional), reg2[i].notional), a)
<1>1. /\ Share(reg, i, a) = reg[i].notional
      /\ Share(reg2, i, a) = reg2[i].notional
      /\ Count(reg, i, a) = 1 /\ Count(reg2, i, a) = 1
  BY Zenon DEF Share, Count
<1>2. /\ Held(reg, a) \in Nat /\ reg[i].notional \in Nat
      /\ reg2[i].notional \in Nat /\ reg[i].notional <= Held(reg, a)
      /\ Held(reg2, a) = Held(reg, a) - reg[i].notional + reg2[i].notional
      /\ Held(reg2, a) \in Nat
      /\ Cardinality(Entries(reg, a)) \in Nat
      /\ Cardinality(Entries(reg2, a)) = Cardinality(Entries(reg, a))
  BY <1>1, EntryChange
<1>3. Cardinality(Entries(reg, a)) >= 1
  <2>1. Entries(reg, a) # {}
    BY Zenon
  <2> QED
    BY <1>2, <2>1, FS_EmptySet
<1>4. /\ st.open \in Nat /\ st.notional = Held(reg, a)
      /\ st.notional <= MaxNotional /\ st.open <= MaxOpenOrders
      /\ st.open <= Cardinality(Entries(reg, a))
  BY Zenon DEF Fits, AccountState
<1>5. PICK r : r = Rested(Removed(st, reg[i].notional), reg2[i].notional)
  BY Zenon
<1>6. /\ r = [open |-> r.open, notional |-> r.notional]
      /\ r.open = (IF st.open > 1 THEN st.open - 1 ELSE 0) + 1
      /\ r.notional = Held(reg2, a)
  BY <1>2, <1>4, <1>5 DEF Rested, Removed, SaturatingSub
<1>7. r.open \in Nat /\ r.open <= Cardinality(Entries(reg2, a))
        /\ r.open <= MaxOpenOrders
  BY <1>2, <1>3, <1>4, <1>6, MaxOpenOrdersAssumption
<1>8. r \in AccountState
  BY <1>2, <1>6, <1>7, Zenon DEF AccountState
<1>9. r.notional <= MaxNotional
  BY <1>2, <1>4, <1>6, MaxNotionalAssumption
<1> QED
  BY <1>5, <1>6, <1>7, <1>8, <1>9 DEF Fits

\* A residual is booked and, refused by the book, refunded.
LEMMA FitsRefunded ==
  ASSUME NEW reg, NEW a, NEW st, Fits(reg, st, a), NEW n \in Nat
  PROVE  Fits(reg, RefusedRefunded(st, n), a)
<1>1. st \in AccountState
  BY Zenon DEF Fits
<1>2. RefusedRefunded(st, n) = st
  BY <1>1 DEF RefusedRefunded, Removed, Rested, SaturatingSub, AccountState
<1> QED
  BY <1>2, Zenon

\* All orders of an account leave at once: both counters go to zero.
LEMMA FitsEmptied ==
  ASSUME NEW reg \in Registry, NEW reg2 \in Registry, NEW a,
         IsFiniteSet(Entries(reg, a)), NEW st, Fits(reg, st, a),
         Entries(reg2, a) = {}
  PROVE  Fits(reg2, RemovedAll(st, Cardinality(Entries(reg, a)), Held(reg, a)), a)
<1>1. /\ st.open \in Nat /\ st.notional = Held(reg, a) /\ st.notional \in Nat
      /\ st.open <= Cardinality(Entries(reg, a))
  BY Zenon DEF Fits, AccountState
<1>2. Cardinality(Entries(reg, a)) \in Nat
  BY FS_CardinalityType, Zenon
<1>3. RemovedAll(st, Cardinality(Entries(reg, a)), Held(reg, a))
        = [open |-> 0, notional |-> 0]
  BY <1>1, <1>2 DEF RemovedAll, SaturatingSub
<1>4. Held(reg2, a) = 0 /\ Cardinality(Entries(reg2, a)) = 0
  BY SumOfNone, FS_EmptySet, Zenon DEF Held
<1> QED
  BY <1>3, <1>4, MaxOpenOrdersAssumption, MaxNotionalAssumption
     DEF Fits, AccountState

-----------------------------------------------------------------------------
(* The steps of the engine.                                                *)

\* The ids with a registry entry.
Live == {i \in OrderId : registry[i] # None}

\* An entry is added for one order at a time, so there are finitely many.
LEMMA NextLive ==
  ASSUME RegistryInv, IsFiniteSet(Live), [EngineNext]_allVars
  PROVE  IsFiniteSet(Live')
<1>1. registry \in [OrderId -> RegistryEntry \cup {None}]
  BY Zenon DEF RegistryInv, StageInv
<1>2. ASSUME NEW i, Live' \subseteq Live \cup {i} PROVE IsFiniteSet(Live')
  BY <1>2, FS_AddElement, FS_Subset, Zenon
<1>3. ASSUME registry' = registry PROVE IsFiniteSet(Live')
  BY <1>3, Zenon DEF Live
<1>4. ASSUME NEW a, NEW ids, Forget(a, ids) PROVE IsFiniteSet(Live')
  <2>1. Live' \subseteq Live
    BY <1>4, Zenon DEF Forget, Live
  <2> QED
    BY <2>1, FS_Subset
<1>5. ASSUME NEW a, NEW id, NEW side, NEW price, NEW qty, NEW st,
             Register(a, id, side, price, qty, st)
      PROVE  IsFiniteSet(Live')
  <2>1. Live' \subseteq Live \cup {id}
    BY <1>1, <1>5, Zenon DEF Register, Live
  <2> QED
    BY <1>2, <2>1, Zenon
<1>6. CASE RejectCommand
  BY <1>3, <1>6, Zenon DEF RejectCommand
<1>7. ASSUME NEW t \in NewOrders, NewOrder(t) \/ RejectNewOrder(t)
      PROVE  IsFiniteSet(Live')
  BY <1>3, <1>6, <1>7, Zenon DEF NewOrder, RejectNewOrder
<1>8. ASSUME NEW a \in Account, NEW id \in OrderId,
             CancelOrder(a, id) \/ RejectCancelOrder(a, id)
      PROVE  IsFiniteSet(Live')
  BY <1>4, <1>6, <1>8, Zenon DEF CancelOrder, RejectCancelOrder
<1>9. ASSUME NEW a \in Account, NEW id \in OrderId, NEW p \in Price,
             NEW q \in Qty,
             \/ AmendOrder(a, id, p, q)
             \/ RepriceOrder(a, id, p, q)
             \/ RejectCancelReplace(a, id, p, q)
      PROVE  IsFiniteSet(Live')
  BY <1>3, <1>5, <1>6, <1>9, Zenon DEF AmendOrder, RepriceOrder, RejectCancelReplace
<1>10. ASSUME NEW a \in Account, CancelAll(a) \/ RejectMassCancel(a)
       PROVE  IsFiniteSet(Live')
  BY <1>4, <1>6, <1>10, Zenon DEF CancelAll, RejectMassCancel
<1>11. ASSUME NEW engaged \in BOOLEAN, KillSwitchSet(engaged)
       PROVE  IsFiniteSet(Live')
  BY <1>3, <1>11, Zenon DEF KillSwitchSet
<1>12. CASE SnapshotRequest \/ EmitBookChanges \/ MatchOne
  BY <1>3, <1>12, Zenon DEF SnapshotRequest, EmitBookChanges, MatchOne, engineVars
<1>13. CASE MatchReturns
  BY <1>3, <1>4, <1>13, Zenon DEF MatchReturns, AcknowledgeReplace
<1>14. CASE ReportFill
  <2>1. Live' \subseteq Live
    BY <1>1, <1>14, Zenon DEF ReportFill, Live
  <2> QED
    BY <2>1, FS_Subset, Zenon
<1>15. CASE DisposeStp
  BY <1>4, <1>15, Zenon DEF DisposeStp
<1>16. CASE DisposeFilled \/ CancelTaker \/ RefuseResidual \/ CancelReplaced
  BY <1>3, <1>16, Zenon DEF DisposeFilled, CancelTaker, RefuseResidual, CancelReplaced
<1>17. CASE RestTaker \/ RegisterReplaced
  BY <1>5, <1>17, Zenon DEF RestTaker, RegisterReplaced
<1>18. CASE UNCHANGED allVars
  BY <1>3, <1>18, Zenon DEF allVars, engineVars
<1> QED
  BY <1>7, <1>8, <1>9, <1>10, <1>11, <1>12, <1>13, <1>14, <1>15, <1>16, <1>17,
     <1>18 DEF EngineNext, Commands, Pipeline

AccountInv ==
  /\ perAccount \in [Account -> AccountState]
  /\ \A a \in Account : Fits(registry, perAccount[a], a)

ExposureInv == RegistryInv /\ IsFiniteSet(Live) /\ AccountInv

\* What the bookkeeping lemmas need of a state.
LEMMA InvFacts ==
  ASSUME ExposureInv
  PROVE  /\ registry \in Registry /\ perAccount \in [Account -> AccountState]
         /\ \A a \in Account : IsFiniteSet(Entries(registry, a))
         /\ \A a \in Account : Fits(registry, perAccount[a], a)
<1>1. registry \in Registry /\ perAccount \in [Account -> AccountState]
  BY Zenon DEF ExposureInv, AccountInv, RegistryInv, StageInv, Registry
<1>2. \A a \in Account : Entries(registry, a) \subseteq Live
  BY Zenon DEF Entries, Live
<1>3. IsFiniteSet(Live)
  BY Zenon DEF ExposureInv
<1> QED
  BY <1>1, <1>2, <1>3, FS_Subset DEF ExposureInv, AccountInv

\* A step that changes one entry and the counters of its account.
LEMMA OneAccount ==
  ASSUME ExposureInv, registry' \in Registry, NEW i \in OrderId,
         \A j \in OrderId : j # i => registry'[j] = registry[j],
         NEW a \in Account,
         registry[i] # None => registry[i].account = a,
         registry'[i] # None => registry'[i].account = a,
         NEW st, perAccount' = [perAccount EXCEPT ![a] = st],
         Fits(registry', st, a)
  PROVE  AccountInv'
<1>0. perAccount' \in [Account -> AccountState]
  BY InvFacts, Zenon DEF Fits
<1> SUFFICES ASSUME NEW b \in Account
             PROVE  Fits(registry', perAccount'[b], b)
  BY <1>0, Zenon DEF AccountInv
<1>1. /\ registry \in Registry /\ perAccount \in [Account -> AccountState]
      /\ IsFiniteSet(Entries(registry, b)) /\ Fits(registry, perAccount[b], b)
  BY InvFacts, Zenon
<1>2. CASE b = a
  BY <1>1, <1>2, Zenon
<1>3. CASE b # a
  <2>1. perAccount'[b] = perAccount[b]
    BY <1>1, <1>3, Zenon
  <2>2. i \notin Entries(registry, b) /\ i \notin Entries(registry', b)
    BY <1>3, Zenon DEF Entries
  <2>3. Fits(registry', perAccount[b], b)
    BY <1>1, <2>2, FitsFrame, Zenon
  <2> QED
    BY <2>1, <2>3, Zenon
<1> QED
  BY <1>2, <1>3, Zenon

\* A step that changes neither the registry nor an account.
LEMMA NoAccount ==
  ASSUME AccountInv, registry' = registry, perAccount' = perAccount
  PROVE  AccountInv'
BY Zenon DEF AccountInv

\* Forgetting one order refunds exactly its notional.
LEMMA ForgetOne ==
  ASSUME ExposureInv, registry' \in Registry, NEW a \in Account,
         NEW i \in OrderId, registry[i] # None, registry[i].account = a,
         Forget(a, {i})
  PROVE  AccountInv'
<1>1. registry \in Registry /\ perAccount \in [Account -> AccountState]
        /\ IsFiniteSet(Entries(registry, a)) /\ Fits(registry, perAccount[a], a)
  BY InvFacts, Zenon
<1>2. registry' = [j \in OrderId |-> IF j = i THEN None ELSE registry[j]]
  BY Zenon DEF Forget
<1>3. PICK f : f = [j \in OrderId |-> registry[j].notional]
  BY Zenon
<1>4. MapThenSumSet(LAMBDA j : registry[j].notional, {i}) = registry[i].notional
  <2>1. f[i] = registry[i].notional /\ f[i] \in Nat
    BY <1>1, <1>3, Zenon DEF Registry, RegistryEntry
  <2>2. IsFiniteSet({i}) /\ {i} \ {i} = {} /\ \A x \in {i} : f[x] \in Nat
    BY <2>1, FS_Singleton, Zenon
  <2>3. SumOf(f, {i}) = f[i] + SumOf(f, {i} \ {i})
    BY <2>2, SumOfSplit, Zenon
  <2>4. SumOf(f, {i}) = f[i]
    BY <2>1, <2>2, <2>3, SumOfNone
  <2>5. \A j \in {i} : f[j] = registry[j].notional
    BY <2>1, Zenon
  <2>6. MapThenSumSet(LAMBDA j : registry[j].notional, {i}) = SumOf(f, {i})
    BY <2>2, <2>5, NotionalSum, Zenon
  <2> QED
    BY <2>1, <2>4, <2>6, Zenon
<1>5. Cardinality({i}) = 1
  BY FS_Singleton, Zenon
<1>6. perAccount' = [perAccount EXCEPT ![a] =
                       Removed(perAccount[a], registry[i].notional)]
  BY <1>4, <1>5, Zenon DEF Forget, RemovedAll, Removed
<1>7. Fits(registry', Removed(perAccount[a], registry[i].notional), a)
  <2>1. i \in Entries(registry, a)
    BY Zenon DEF Entries
  <2> QED
    BY <1>1, <1>2, <2>1, FitsRemoved
<1> QED
  BY <1>2, <1>6, <1>7, OneAccount, Zenon

\* Forgetting all orders of an account refunds all it holds.
LEMMA ForgetAll ==
  ASSUME ExposureInv, registry' \in Registry, NEW a \in Account,
         Forget(a, Entries(registry, a))
  PROVE  AccountInv'
<1>1. PICK S : S = Entries(registry, a)
  BY Zenon
<1>2. registry \in Registry /\ perAccount \in [Account -> AccountState]
        /\ IsFiniteSet(S) /\ Fits(registry, perAccount[a], a)
  BY <1>1, InvFacts, Zenon
<1>3. registry' = [j \in OrderId |-> IF j \in S THEN None ELSE registry[j]]
  BY <1>1, Zenon DEF Forget
<1>4. MapThenSumSet(LAMBDA j : registry[j].notional, S) = Held(registry, a)
  <2>1. PICK f : f = [j \in OrderId |-> registry[j].notional]
    BY Zenon
  <2>2. \A j \in S : f[j] = registry[j].notional
    BY <1>1, <2>1, Zenon DEF Entries
  <2>3. MapThenSumSet(LAMBDA j : registry[j].notional, S) = SumOf(f, S)
    BY <1>2, <2>2, NotionalSum, Zenon
  <2> QED
    BY <1>1, <2>1, <2>3, Zenon DEF Held
<1>5. perAccount' = [perAccount EXCEPT ![a] =
                       RemovedAll(perAccount[a], Cardinality(S), Held(registry, a))]
  BY <1>1, <1>4, Zenon DEF Forget
<1>6. Fits(registry', RemovedAll(perAccount[a], Cardinality(S),
                                 Held(registry, a)), a)
  <2>1. Entries(registry', a) = {}
    BY <1>1, <1>3, Zenon DEF Entries
  <2> QED
    BY <1>1, <1>2, <2>1, FitsEmptied, Zenon
<1>7. perAccount' \in [Account -> AccountState]
  BY <1>2, <1>5, <1>6, Zenon DEF Fits
<1> SUFFICES ASSUME NEW b \in Account
             PROVE  Fits(registry', perAccount'[b], b)
  BY <1>7, Zenon DEF AccountInv
<1>8. CASE b = a
  BY <1>2, <1>5, <1>6, <1>8, Zenon
<1>9. CASE b # a
  <2>1. perAccount'[b] = perAccount[b]
    BY <1>2, <1>5, <1>9, Zenon
  <2>2. \A j \in OrderId :
          j \in Entries(registry, b) \/ j \in Entries(registry', b)
            => registry'[j] = registry[j]
    BY <1>1, <1>3, <1>9, Zenon DEF Entries
  <2>3. Fits(registry', perAccount[b], b)
    BY <1>2, <2>2, FitsFrame, InvFacts, Zenon
  <2> QED
    BY <2>1, <2>3, Zenon
<1> QED
  BY <1>8, <1>9

\* Booking a residual the account can carry.
LEMMA RegisterFits ==
  ASSUME ExposureInv, registry' \in Registry, NEW a \in Account,
         NEW i \in OrderId, registry[i] = None, NEW s \in Side,
         NEW p \in Price, NEW q \in Lots,
         LimitVerdict(perAccount[a], NotionalOf(p, q)) = "ok",
         Register(a, i, s, p, q, perAccount[a])
  PROVE  AccountInv'
<1>1. registry \in Registry /\ perAccount \in [Account -> AccountState]
        /\ IsFiniteSet(Entries(registry, a)) /\ Fits(registry, perAccount[a], a)
  BY InvFacts, Zenon
<1>2. PICK e : e = [account |-> a, side |-> s, qty |-> q,
                    notional |-> NotionalOf(p, q)]
  BY Zenon
<1>3. registry' = [registry EXCEPT ![i] = e]
  BY <1>2, Zenon DEF Register
<1>4. perAccount' = [perAccount EXCEPT ![a] = Rested(perAccount[a], e.notional)]
  BY <1>2, Zenon DEF Register
<1>5. e \in RegistryEntry /\ e.account = a
  <2>1. NotionalOf(p, q) \in Nat
    BY PricePositive DEF NotionalOf, Lots
  <2> QED
    BY <1>2, <2>1, Zenon DEF RegistryEntry
<1>6. registry'[i] = e /\ \A j \in OrderId : j # i => registry'[j] = registry[j]
  BY <1>1, <1>3, Zenon DEF Registry
<1>7. LimitVerdict(perAccount[a], e.notional) = "ok"
  BY <1>2, Zenon
<1>8. Fits(registry', Rested(perAccount[a], e.notional), a)
  BY <1>1, <1>5, <1>6, <1>7, FitsRested
<1> QED
  BY <1>4, <1>5, <1>6, <1>8, OneAccount, Zenon

\* A residual of a new order comes to rest.
LEMMA RestTakerFits ==
  ASSUME ExposureInv, RegistryInv', RestTaker
  PROVE  AccountInv'
<1>1. /\ AllReported /\ stp = None /\ remaining > 0 /\ taker.origin = "new"
      /\ taker.limit # NoPrice /\ index[taker.id] = None
      /\ LimitVerdict(perAccount[taker.account],
                      NotionalOf(taker.limit, remaining)) = "ok"
      /\ Register(taker.account, taker.id, taker.side, taker.limit, remaining,
                  perAccount[taker.account])
  BY Zenon DEF RestTaker, Residual, MayRest, RestResidual, AddResidual, AddResting,
     ResidualVerdict
<1>2. /\ taker.id \in OrderId /\ taker.account \in Account
      /\ taker.side \in Side /\ taker.limit \in Price /\ remaining \in Lots
  BY <1>1, ReportedMirrored
     DEF ExposureInv, RegistryInv, BookInv, WalkTypeOK, Taker, Limit, Lots
<1>3. Mirrored(taker.id) \/ taker.id = stp
  BY <1>1, <1>2, ReportedMirrored, Zenon DEF ExposureInv
<1>4. taker.id # stp
  BY <1>1, <1>2, NoneAssumption, Zenon
<1>5. registry[taker.id] = None
  BY <1>1, <1>3, <1>4, Zenon DEF Mirrored
<1>6. registry' \in Registry
  BY Zenon DEF RegistryInv, StageInv, Registry
<1> QED
  BY <1>1, <1>2, <1>5, <1>6, RegisterFits

\* What is left of a replaced order is booked.
LEMMA RegisterReplacedFits ==
  ASSUME ExposureInv, RegistryInv', RegisterReplaced
  PROVE  AccountInv'
<1>1. /\ AllReported /\ stp = None /\ remaining > 0 /\ taker.origin = "replace"
      /\ LimitVerdict(perAccount[taker.account],
                      NotionalOf(taker.limit, remaining)) = "ok"
      /\ Register(taker.account, taker.id, taker.side, taker.limit, remaining,
                  perAccount[taker.account])
  BY Zenon DEF RegisterReplaced, Residual, ResidualVerdict
<1>2. taker \in Taker /\ registry[taker.id] = None
  BY <1>1, ReportedMirrored, Zenon DEF ExposureInv
<1>3. /\ taker.id \in OrderId /\ taker.account \in Account
      /\ taker.side \in Side /\ taker.limit \in Price /\ remaining \in Lots
  BY <1>1, <1>2
     DEF ExposureInv, RegistryInv, BookInv, WalkTypeOK, WalkState, AllReported,
         Taker, Limit, Lots
<1>4. registry' \in Registry
  BY Zenon DEF RegistryInv, StageInv, Registry
<1> QED
  BY <1>1, <1>2, <1>3, <1>4, RegisterFits

\* A fill is booked: the maker's account gives up what the fill consumed.
LEMMA ReportFillFits ==
  ASSUME ExposureInv, RegistryInv', ReportFill
  PROVE  AccountInv'
<1>1. PICK f : f = fills[reported + 1]
  BY Zenon
<1>2. PICK e : e = registry[f.maker]
  BY Zenon
<1>3. PICK c : c = Consumed(e, f)
  BY Zenon
<1>4. /\ stage = "handler" /\ reported < Len(fills) /\ e # None
      /\ registry' = [registry EXCEPT ![f.maker] = EntryAfter(e, f)]
      /\ perAccount' = [perAccount EXCEPT ![e.account] =
                          Removed(perAccount[e.account], c)]
  BY <1>1, <1>2, <1>3, Zenon DEF ReportFill
<1>5. HandlerInv /\ StageInv /\ BookOK
  BY <1>4, Zenon DEF ExposureInv, RegistryInv, BookInv
<1>6. fills \in Seq(Fill) /\ Len(fills) \in Nat /\ reported \in Nat
  BY DEF ExposureInv, RegistryInv, BookInv, WalkTypeOK, StageInv
<1>7. reported + 1 \in (reported + 1)..Len(fills) /\ f \in Fill
  BY <1>1, <1>4, <1>6
<1>8. Owed(f) /\ f.maker \in OrderId
  BY <1>1, <1>5, <1>7, Zenon DEF HandlerInv, FillsInv, Fill
<1>9. e \in RegistryEntry /\ e.account \in Account
  BY <1>2, <1>8, Zenon DEF Owed, RegistryEntry
<1>10. /\ c \in Nat
       /\ f.full => EntryAfter(e, f) = None
       /\ ~f.full => /\ EntryAfter(e, f) \in RegistryEntry
                     /\ EntryAfter(e, f).account = e.account
                     /\ EntryAfter(e, f).notional = e.notional - c
  BY <1>2, <1>3, <1>5, <1>7, <1>8, EntryAfterFill, Zenon
<1>11. /\ registry \in Registry /\ perAccount \in [Account -> AccountState]
       /\ IsFiniteSet(Entries(registry, e.account))
       /\ Fits(registry, perAccount[e.account], e.account)
  BY <1>9, InvFacts
<1>12. registry' \in Registry
  BY Zenon DEF RegistryInv, StageInv, Registry
<1>13. /\ registry'[f.maker] = EntryAfter(e, f)
       /\ \A j \in OrderId : j # f.maker => registry'[j] = registry[j]
  BY <1>4, <1>8, <1>11, Zenon DEF Registry
<1>14. f.maker \in Entries(registry, e.account)
  BY <1>2, <1>4, <1>8, Zenon DEF Entries
<1>15. CASE f.full
  <2>1. c = e.notional
    BY <1>3, <1>15, Zenon DEF Consumed
  <2>2. registry'[f.maker] = None
    BY <1>10, <1>13, <1>15, Zenon
  <2>3. Fits(registry', Removed(perAccount[e.account], c), e.account)
    BY <1>2, <1>8, <1>11, <1>12, <1>13, <1>14, <2>1, <2>2, FitsRemoved, Zenon
  <2> QED
    BY <1>2, <1>4, <1>8, <1>9, <1>12, <1>13, <2>2, <2>3, OneAccount, Zenon
<1>16. CASE ~f.full
  <2>1. /\ registry'[f.maker] # None /\ registry'[f.maker].account = e.account
        /\ registry'[f.maker].notional = registry[f.maker].notional - c
    BY <1>2, <1>10, <1>13, <1>16, EntryAssumption
  <2>2. f.maker \in Entries(registry', e.account)
    BY <1>8, <2>1, Zenon DEF Entries
  <2>3. Fits(registry', Removed(perAccount[e.account], c), e.account)
    BY <1>8, <1>10, <1>11, <1>12, <1>13, <1>14, <2>1, <2>2, FitsReduced
  <2> QED
    BY <1>2, <1>4, <1>8, <1>9, <1>12, <1>13, <2>1, <2>3, OneAccount, Zenon
<1> QED
  BY <1>15, <1>16, Zenon

\* A smaller quantity at the same price has no larger notional.
LEMMA TimesMonotone ==
  ASSUME NEW p \in Nat, NEW m \in Nat, NEW n \in Nat, m <= n
  PROVE  p * m \in Nat /\ p * m <= p * n
<1>1. PICK d \in Nat : n = m + d
  <2>1. n - m \in Nat /\ n = m + (n - m)
    OBVIOUS
  <2> QED
    BY <2>1, Zenon
<1>2. p * m \in Nat /\ p * d \in Nat
  OBVIOUS
<1>3. p * n = p * m + p * d
  BY <1>1
<1> QED
  BY <1>2, <1>3

\* A quantity-down replace swaps the old notional for the smaller one.
LEMMA AmendOrderFits ==
  ASSUME ExposureInv, RegistryInv', NEW a \in Account, NEW id \in OrderId,
         NEW p \in Price, NEW q \in Qty, AmendOrder(a, id, p, q)
  PROVE  AccountInv'
<1>1. PICK e : e = registry[id]
  BY Zenon
<1>2. PICK d : d = [account |-> a, side |-> e.side, qty |-> q,
                    notional |-> NotionalOf(p, q)]
  BY Zenon
<1>3. /\ stage = "ready" /\ ReplaceInPlace(id, p, q)
      /\ ReplaceVerdict(a, id, p, q) = "ok"
      /\ registry' = [registry EXCEPT ![id] = d]
      /\ perAccount' = [perAccount EXCEPT ![a] =
                          Rested(Removed(perAccount[a], e.notional), d.notional)]
  BY <1>1, <1>2, Zenon DEF AmendOrder, Register
<1>4. Owns(a, id)
  BY <1>3, Zenon DEF ReplaceVerdict, CheckCancelReplace
<1>5. e # None /\ e.account = a
  BY <1>1, <1>4, Zenon DEF Owns
<1>6. PICK r \in At(id) : KeepsPriority(r, p, q)
  BY <1>3, Zenon DEF ReplaceInPlace
<1>7. r \in resting /\ r.id = id /\ r.price = p /\ q <= r.qty
  BY <1>6, Zenon DEF At, Level, KeepsPriority
<1>8. e = EntryOf(r)
  BY <1>1, <1>3, <1>7, Zenon DEF ExposureInv, RegistryInv, Mirrored
<1>9. r.qty \in Nat /\ p \in Nat /\ q \in Nat
  BY <1>7, QtyAssumption, PricePositive
     DEF ExposureInv, RegistryInv, BookInv, BookOK, BookTypeOK, RestingOrder, Lots
<1>10. d.notional \in Nat /\ d.notional <= e.notional
  <2>1. p * q \in Nat /\ p * q <= p * r.qty
    BY <1>7, <1>9, TimesMonotone
  <2>2. d.notional = p * q /\ e.notional = p * r.qty
    BY <1>2, <1>7, <1>8, Zenon DEF EntryOf, NotionalOf
  <2> QED
    BY <2>1, <2>2, Zenon
<1>11. /\ registry \in Registry /\ perAccount \in [Account -> AccountState]
       /\ IsFiniteSet(Entries(registry, a)) /\ Fits(registry, perAccount[a], a)
  BY InvFacts, Zenon
<1>12. registry' \in Registry
  BY Zenon DEF RegistryInv, StageInv, Registry
<1>13. /\ registry'[id] = d
       /\ \A j \in OrderId : j # id => registry'[j] = registry[j]
  BY <1>3, <1>11, Zenon DEF Registry
<1>14. d # None /\ d.account = a
  <2>1. d \in RegistryEntry
    BY <1>1, <1>2, <1>5, <1>10, <1>11, QtyAssumption
       DEF Registry, RegistryEntry, Lots
  <2> QED
    BY <1>2, <2>1, EntryAssumption, Zenon
<1>15. id \in Entries(registry, a) /\ id \in Entries(registry', a)
  BY <1>1, <1>5, <1>13, <1>14, Zenon DEF Entries
<1>16. Fits(registry', Rested(Removed(perAccount[a], e.notional), d.notional), a)
  BY <1>1, <1>10, <1>11, <1>12, <1>13, <1>15, FitsAmended, Zenon
<1> QED
  BY <1>1, <1>3, <1>5, <1>12, <1>13, <1>14, <1>16, OneAccount, Zenon

\* A residual refused because its id is taken costs the account nothing.
LEMMA RefuseResidualFits ==
  ASSUME ExposureInv, RefuseResidual
  PROVE  AccountInv'
<1>1. PICK n : n = NotionalOf(taker.limit, remaining)
  BY Zenon
<1>2. AllReported /\ remaining > 0 /\ taker.limit # NoPrice
        /\ registry' = registry
  BY Zenon DEF RefuseResidual, Residual, MayRest
<1>3. taker.account \in Account /\ taker.limit \in Price /\ remaining \in Nat
  BY <1>2, ReportedMirrored, Zenon
     DEF ExposureInv, Taker, Limit, RegistryInv, BookInv, WalkTypeOK
<1>4. n \in Nat
  BY <1>1, <1>3, PricePositive DEF NotionalOf
<1>5. perAccount' = [perAccount EXCEPT ![taker.account] =
                       IF ResidualVerdict # "ok" THEN @
                       ELSE RefusedRefunded(@, n)]
  BY <1>1, Zenon DEF RefuseResidual
<1>6. perAccount \in [Account -> AccountState]
  BY InvFacts, Zenon
<1>7. ASSUME NEW a \in Account
      PROVE  /\ Fits(registry, perAccount[a], a)
             /\ Fits(registry, RefusedRefunded(perAccount[a], n), a)
  BY <1>4, InvFacts, FitsRefunded, Zenon
<1>8. perAccount' \in [Account -> AccountState]
  BY <1>3, <1>5, <1>6, <1>7, Zenon DEF Fits
<1> SUFFICES ASSUME NEW a \in Account PROVE Fits(registry', perAccount'[a], a)
  BY <1>8, Zenon DEF AccountInv
<1>9. perAccount'[a] \in {perAccount[a], RefusedRefunded(perAccount[a], n)}
  BY <1>3, <1>5, <1>6, Zenon
<1> QED
  BY <1>2, <1>7, <1>9, Zenon

\* Every step of the engine keeps every account at what its orders hold.
LEMMA NextAccountInv ==
  ASSUME ExposureInv, RegistryInv', [EngineNext]_allVars
  PROVE  AccountInv'
<1>1. RegistryInv /\ IsFiniteSet(Live) /\ AccountInv
  BY Zenon DEF ExposureInv
<1>2. registry' \in Registry /\ registry \in Registry
  BY <1>1, Zenon DEF RegistryInv, StageInv, Registry
<1>3. CASE UNCHANGED <<registry, perAccount>>
  BY <1>1, <1>3, NoAccount, Zenon
<1>4. ASSUME NEW a \in Account, NEW id \in OrderId, CancelOrder(a, id)
      PROVE  AccountInv'
  <2>1. Owns(a, id) /\ Forget(a, {id})
    BY <1>4, Zenon DEF CancelOrder
  <2> QED
    BY <1>2, <2>1, ForgetOne, Zenon DEF Owns
<1>5. ASSUME NEW a \in Account, CancelAll(a)
      PROVE  AccountInv'
  <2>1. stage = "ready" /\ Forget(a, byAccount[a])
    BY <1>5, Zenon DEF CancelAll
  <2>2. byAccount[a] = Entries(registry, a)
    BY <1>1, <2>1, AccountsLive, Zenon DEF OrdersOf, Entries
  <2> QED
    BY <1>2, <2>1, <2>2, ForgetAll, Zenon
<1>6. CASE MatchReturns /\ taker.origin = "replace"
  <2>1. stage = "handler" /\ phase = "walk" /\ Forget(taker.account, {taker.id})
    BY <1>6, Zenon DEF MatchReturns, AcknowledgeReplace, WalkEnd, SnapshotFails
  <2>2. taker \in Taker
    BY <1>1, <2>1, Zenon DEF RegistryInv, BookInv, WalkTypeOK, WalkState
  <2>3. OwnEntry(taker.id)
    BY <1>1, <1>6, <2>1, Zenon DEF RegistryInv, HandlerInv, ReplaceInv
  <2> QED
    BY <1>2, <2>1, <2>2, <2>3, ForgetOne DEF OwnEntry, Taker
<1>7. CASE DisposeStp
  <2>1. stage = "handler" /\ AllReported /\ stp # None
          /\ Forget(taker.account, {stp})
    BY <1>7, Zenon DEF DisposeStp, AllReported
  <2>2. taker \in Taker /\ OwnEntry(stp)
    BY <1>1, <2>1, ReportedMirrored, Zenon DEF HandlerInv, StpInv
  <2>3. stp \in OrderId
    BY <1>1, <2>1, Zenon DEF RegistryInv, BookInv, WalkTypeOK
  <2> QED
    BY <1>2, <2>1, <2>2, <2>3, ForgetOne DEF OwnEntry, Taker
<1>8. ASSUME NEW a \in Account, NEW id \in OrderId, NEW p \in Price,
             NEW q \in Qty, AmendOrder(a, id, p, q)
      PROVE  AccountInv'
  BY <1>8, AmendOrderFits, Zenon
<1>9. CASE ReportFill \/ RestTaker \/ RegisterReplaced \/ RefuseResidual
  BY <1>9, ReportFillFits, RestTakerFits, RegisterReplacedFits,
     RefuseResidualFits, Zenon
<1>10. ASSUME NEW t \in NewOrders, NewOrder(t) \/ RejectNewOrder(t)
       PROVE  UNCHANGED <<registry, perAccount>>
  BY <1>10, Zenon DEF NewOrder, RejectNewOrder, RejectCommand, riskVars
<1>11. ASSUME NEW a \in Account, NEW id \in OrderId, NEW p \in Price,
              NEW q \in Qty,
              RepriceOrder(a, id, p, q) \/ RejectCancelReplace(a, id, p, q)
       PROVE  UNCHANGED <<registry, perAccount>>
  BY <1>11, Zenon DEF RepriceOrder, RejectCancelReplace, RejectCommand, riskVars
<1>12. ASSUME NEW a \in Account, NEW id \in OrderId, RejectCancelOrder(a, id)
       PROVE  UNCHANGED <<registry, perAccount>>
  BY <1>12, Zenon DEF RejectCancelOrder, RejectCommand, riskVars
<1>13. ASSUME NEW a \in Account, RejectMassCancel(a)
       PROVE  UNCHANGED <<registry, perAccount>>
  BY <1>13, Zenon DEF RejectMassCancel, RejectCommand, riskVars
<1>14. CASE \/ SnapshotRequest \/ EmitBookChanges \/ MatchOne
            \/ \E engaged \in BOOLEAN : KillSwitchSet(engaged)
  <2>1. UNCHANGED <<registry, perAccount>>
    BY <1>14, Zenon DEF SnapshotRequest, EmitBookChanges, MatchOne, KillSwitchSet,
       engineVars, riskVars
  <2> QED
    BY <1>3, <2>1, Zenon
<1>15. CASE MatchReturns /\ taker.origin # "replace"
  BY <1>3, <1>15, Zenon DEF MatchReturns
<1>16. CASE DisposeFilled \/ CancelTaker \/ CancelReplaced
  BY <1>3, <1>16, Zenon DEF DisposeFilled, CancelTaker, CancelReplaced, riskVars
<1>17. CASE UNCHANGED allVars
  BY <1>3, <1>17, Zenon DEF allVars, engineVars, riskVars
<1>18. CASE Commands
  BY <1>3, <1>4, <1>5, <1>8, <1>10, <1>11, <1>12, <1>13, <1>14, <1>18
     DEF Commands
<1>19. CASE Pipeline
  BY <1>6, <1>7, <1>9, <1>14, <1>15, <1>16, <1>19 DEF Pipeline
<1> QED
  BY <1>17, <1>18, <1>19, Zenon DEF EngineNext

-----------------------------------------------------------------------------
(* The two checks of a new order.                                          *)

\* While a priced new order is being handled, what is left of it fits.
AdmittedInv ==
  stage = "handler" /\ taker.origin = "new" /\ taker.limit # NoPrice =>
    ResidualVerdict = "ok"

\* A verdict stays "ok" when the account holds less and the order shrinks.
LEMMA LessStillFits ==
  ASSUME NEW st \in AccountState, NEW st2 \in AccountState,
         NEW n \in Nat, NEW n2 \in Nat, LimitVerdict(st, n) = "ok",
         st2.open <= st.open, st2.notional <= st.notional, n2 <= n
  PROVE  LimitVerdict(st2, n2) = "ok"
<1>1. /\ st.open \in Nat /\ st.notional \in Nat
      /\ st2.open \in Nat /\ st2.notional \in Nat
  BY Zenon DEF AccountState
<1>2. st.open + 1 <= MaxOpenOrders /\ st.notional + n <= MaxNotional
  BY <1>1, MaxOpenOrdersAssumption, MaxNotionalAssumption DEF LimitVerdict
<1>3. ~(st2.open + 1 > MaxOpenOrders) /\ ~(st2.notional + n2 > MaxNotional)
  BY <1>1, <1>2, MaxOpenOrdersAssumption, MaxNotionalAssumption
<1> QED
  BY <1>3, Zenon DEF LimitVerdict

\* What a reported fill consumes is a number.
LEMMA FillConsumes ==
  ASSUME RegistryInv, ReportFill, NEW f, f = fills[reported + 1]
  PROVE  /\ Consumed(registry[f.maker], f) \in Nat
         /\ registry[f.maker].account \in Account
<1>1. stage = "handler" /\ reported < Len(fills)
  BY Zenon DEF ReportFill
<1>2. HandlerInv /\ StageInv /\ BookOK
  BY <1>1, Zenon DEF RegistryInv, BookInv
<1>3. fills \in Seq(Fill) /\ Len(fills) \in Nat /\ reported \in Nat
  BY DEF RegistryInv, BookInv, WalkTypeOK, StageInv
<1>4. reported + 1 \in (reported + 1)..Len(fills) /\ f \in Fill
  BY <1>1, <1>3
<1>5. Owed(f)
  BY <1>2, <1>4, Zenon DEF HandlerInv, FillsInv
<1>6. registry[f.maker].account \in Account
  BY <1>5, Zenon DEF Owed, RegistryEntry
<1> QED
  BY <1>2, <1>4, <1>5, <1>6, EntryAfterFill, Zenon

\* The walk and the reports of its fills only make the taker smaller and the
\* accounts emptier.
LEMMA HandlerShrinks ==
  ASSUME RegistryInv, AccountInv, AccountInv', stage = "handler",
         taker.origin = "new",
         MatchOne \/ MatchReturns \/ ReportFill
  PROVE  /\ taker' = taker /\ remaining' <= remaining
         /\ \A a \in Account : /\ perAccount'[a].open <= perAccount[a].open
                               /\ perAccount'[a].notional <= perAccount[a].notional
<1>1. remaining \in Nat /\ perAccount \in [Account -> AccountState]
  BY Zenon DEF RegistryInv, BookInv, WalkTypeOK, AccountInv
<1>2. \A a \in Account : perAccount[a].open \in Nat /\ perAccount[a].notional \in Nat
  BY <1>1, Zenon DEF AccountState
<1>3. CASE MatchOne
  <2>1. taker' = taker /\ perAccount' = perAccount
    BY <1>3, Zenon DEF MatchOne, FillHead, StpHead, engineVars, riskVars
  <2>2. remaining' <= remaining
    <3>1. CASE FillHead
      <4>1. PICK m \in resting : remaining' = remaining - FillQty(m)
        BY <3>1, Zenon DEF FillHead
      <4>2. m.qty \in Nat
        BY Zenon DEF RegistryInv, BookInv, BookOK, BookTypeOK, RestingOrder, Lots
      <4> QED
        BY <1>1, <4>1, <4>2 DEF FillQty
    <3>2. CASE StpHead
      BY <1>1, <3>2 DEF StpHead
    <3> QED
      BY <1>3, <3>1, <3>2, Zenon DEF MatchOne
  <2> QED
    BY <1>2, <2>1, <2>2
<1>4. CASE MatchReturns
  <2>1. taker' = taker /\ perAccount' = perAccount /\ remaining' = remaining
    BY <1>4, Zenon DEF MatchReturns, WalkEnd, SnapshotFails, ReturnFromWalk
  <2> QED
    BY <1>1, <1>2, <2>1
<1>5. CASE ReportFill
  <2>1. taker' = taker /\ remaining' = remaining
    BY <1>5, Zenon DEF ReportFill, vars, walkVars
  <2>2. PICK b \in Account, c \in Nat :
          perAccount' = [perAccount EXCEPT ![b] = Removed(@, c)]
    <3>1. PICK f : f = fills[reported + 1]
      BY Zenon
    <3>2. /\ Consumed(registry[f.maker], f) \in Nat
          /\ registry[f.maker].account \in Account
      BY <1>5, <3>1, FillConsumes, Zenon
    <3>3. perAccount' = [perAccount EXCEPT ![registry[f.maker].account] =
                           Removed(@, Consumed(registry[f.maker], f))]
      BY <1>5, <3>1, Zenon DEF ReportFill
    <3> QED
      BY <3>2, <3>3, Zenon
  <2>3. ASSUME NEW a \in Account
        PROVE  /\ perAccount'[a].open <= perAccount[a].open
               /\ perAccount'[a].notional <= perAccount[a].notional
    <3>1. perAccount'[a] \in {perAccount[a], Removed(perAccount[a], c)}
      BY <1>1, <2>2, Zenon
    <3>2. perAccount'[a] \in AccountState
      BY Zenon DEF AccountInv
    <3>3. CASE perAccount'[a] = perAccount[a]
      BY <1>2, <3>3
    <3>4. CASE perAccount'[a] = Removed(perAccount[a], c)
      <4>1. /\ perAccount'[a].open = SaturatingSub(perAccount[a].open, 1)
            /\ perAccount'[a].notional = SaturatingSub(perAccount[a].notional, c)
        BY <3>4 DEF Removed
      <4> QED
        BY <1>2, <4>1 DEF SaturatingSub
    <3> QED
      BY <3>1, <3>3, <3>4, Zenon
  <2> QED
    BY <1>1, <2>1, <2>3
<1> QED
  BY <1>3, <1>4, <1>5, Zenon

\* A step into or within the handler of a new order keeps its residual
\* admissible.
LEMMA NextAdmittedInv ==
  ASSUME RegistryInv, RegistryInv', AccountInv, AccountInv', AdmittedInv,
         [EngineNext]_allVars
  PROVE  AdmittedInv'
<1> SUFFICES ASSUME stage' = "handler", taker'.origin = "new",
                    taker'.limit # NoPrice
             PROVE  ResidualVerdict'
                      = "ok"
  BY Zenon DEF AdmittedInv
<1>1. /\ perAccount \in [Account -> AccountState]
      /\ perAccount' \in [Account -> AccountState]
      /\ remaining \in Nat /\ remaining' \in Nat
  BY Zenon DEF RegistryInv, AccountInv, BookInv, WalkTypeOK
<1>2. ASSUME NEW t \in NewOrders, NewOrder(t)
      PROVE  ResidualVerdict' = "ok"
  <2>1. /\ taker' = t /\ remaining' = t.qty /\ perAccount' = perAccount
        /\ NewOrderVerdict(t) = "ok"
    BY <1>2, Zenon DEF NewOrder, MatchAggressive, StartWalk, riskVars
  <2>2. LimitVerdict(perAccount[t.account], NotionalOf(t.limit, t.qty)) = "ok"
    BY <2>1, Zenon DEF NewOrderVerdict, CheckNewOrder, NoPrice
  <2> QED
    BY <2>1, <2>2, Zenon DEF ResidualVerdict
<1>3. ASSUME stage = "handler", MatchOne \/ MatchReturns \/ ReportFill
      PROVE  ResidualVerdict' = "ok"
  <2>1. taker' = taker
    BY <1>3, Zenon DEF MatchOne, MatchReturns, ReportFill, FillHead, StpHead, WalkEnd,
       SnapshotFails, ReturnFromWalk, vars, walkVars
  <2>2. /\ remaining' <= remaining
        /\ \A a \in Account : /\ perAccount'[a].open <= perAccount[a].open
                              /\ perAccount'[a].notional <= perAccount[a].notional
    BY <1>3, <2>1, HandlerShrinks, Zenon
  <2>3. ResidualVerdict = "ok"
    BY <1>3, <2>1, Zenon DEF AdmittedInv
  <2>4. phase # "idle"
    BY <1>3, Zenon DEF RegistryInv, StageInv
  <2>5. taker.account \in Account /\ taker.limit \in Price
    BY <2>1, <2>4, Zenon DEF RegistryInv, BookInv, WalkTypeOK, WalkState, Taker, Limit
  <2>6. /\ NotionalOf(taker.limit, remaining') \in Nat
        /\ NotionalOf(taker.limit, remaining) \in Nat
        /\ NotionalOf(taker.limit, remaining') <= NotionalOf(taker.limit, remaining)
    BY <1>1, <2>2, <2>5, PricePositive, TimesMonotone DEF NotionalOf
  <2>7. LimitVerdict(perAccount'[taker.account],
                     NotionalOf(taker.limit, remaining')) = "ok"
    BY <1>1, <2>2, <2>3, <2>5, <2>6, LessStillFits DEF ResidualVerdict
  <2> QED
    BY <2>1, <2>7, Zenon DEF ResidualVerdict
<1>4. ASSUME NEW a \in Account, NEW id \in OrderId, NEW p \in Price,
             NEW q \in Qty, RepriceOrder(a, id, p, q)
      PROVE  FALSE
  BY <1>4, Zenon DEF RepriceOrder, ReplaceReprice, StartWalk, ReplaceTaker
<1>5. CASE UNCHANGED allVars
  <2>1. UNCHANGED <<stage, taker, remaining, perAccount>>
    BY <1>5, Zenon DEF allVars, vars, walkVars, engineVars, riskVars, stepVars
  <2> QED
    BY <2>1, Zenon DEF AdmittedInv, ResidualVerdict
<1>6. CASE Commands
  <2>1. ASSUME RejectCommand PROVE FALSE
    BY <2>1, Zenon DEF RejectCommand, OneShot
  <2>2. ASSUME NEW a \in Account, NEW id \in OrderId,
               CancelOrder(a, id) \/ RejectCancelOrder(a, id)
        PROVE  FALSE
    BY <2>1, <2>2, Zenon DEF CancelOrder, RejectCancelOrder, OneShot
  <2>3. ASSUME NEW a \in Account, NEW id \in OrderId, NEW p \in Price,
               NEW q \in Qty,
               AmendOrder(a, id, p, q) \/ RejectCancelReplace(a, id, p, q)
        PROVE  FALSE
    BY <2>1, <2>3, Zenon DEF AmendOrder, RejectCancelReplace, OneShot
  <2>4. ASSUME NEW a \in Account, CancelAll(a) \/ RejectMassCancel(a)
        PROVE  FALSE
    BY <2>1, <2>4, Zenon DEF CancelAll, RejectMassCancel, OneShot
  <2>5. ASSUME NEW t \in NewOrders, RejectNewOrder(t) PROVE FALSE
    BY <2>1, <2>5, Zenon DEF RejectNewOrder
  <2>6. ASSUME SnapshotRequest \/ \E on \in BOOLEAN : KillSwitchSet(on)
        PROVE  FALSE
    BY <2>6, Zenon DEF SnapshotRequest, KillSwitchSet, stepVars
  <2> QED
    BY <1>2, <1>4, <1>6, <2>2, <2>3, <2>4, <2>5, <2>6 DEF Commands
<1>7. CASE Pipeline
  <2>1. CASE MatchOne \/ MatchReturns \/ ReportFill
    <3>1. stage = "handler"
      BY <2>1, Zenon DEF MatchOne, MatchReturns, ReportFill
    <3> QED
      BY <1>3, <2>1, <3>1, Zenon
  <2>2. ASSUME \/ DisposeStp \/ DisposeFilled \/ CancelTaker \/ RestTaker
               \/ RefuseResidual \/ RegisterReplaced \/ CancelReplaced
               \/ EmitBookChanges
        PROVE  FALSE
    BY <2>2, Zenon DEF DisposeStp, DisposeFilled, CancelTaker, RestTaker,
       RefuseResidual, RegisterReplaced, CancelReplaced, EmitBookChanges, EndWalk
  <2> QED
    BY <1>7, <2>1, <2>2, Zenon DEF Pipeline
<1> QED
  BY <1>5, <1>6, <1>7, Zenon DEF EngineNext

=============================================================================
