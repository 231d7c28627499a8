----------------------------- MODULE BookProofs -----------------------------
(***************************************************************************)
(* Proofs about module Book, for every value of its constants.             *)
(*                                                                         *)
(* It begins with induction and with sums over finite sets, as             *)
(* MapThenSumSet of FiniteSetsExt computes them: a recursive function over *)
(* the subsets of its set.  The lemmas show that this function exists,     *)
(* that it is the only one, and that a sum does not depend on the order in *)
(* which it is taken.  Each is an induction, written as the search for a   *)
(* least counterexample.                                                   *)
(*                                                                         *)
(* BookOK says that the four containers agree.  Each of the three updates  *)
(* the operations are made of (remove a set of orders, change a quantity,  *)
(* add an order) preserves it, and the operations follow.                  *)
(***************************************************************************)
EXTENDS Book, FiniteSetTheorems, NaturalsInduction, WellFoundedInduction,
        SequenceTheorems, TLAPS

-----------------------------------------------------------------------------
(* Sums.                                                                   *)

\* The sum of f over S, for a function f.
SumOf(f, S) == MapThenSumSet(LAMBDA x : f[x], S)

\* The element a sum over s takes first.
Chosen(s) == CHOOSE x \in s : TRUE

\* g sums f over each of the sets in D.
IsSum(f, g, D) ==
  g = [s \in D |-> IF s = {} THEN 0 ELSE f[Chosen(s)] + g[s \ {Chosen(s)}]]

\* The subsets of S with at most n elements.
AtMost(S, n) == {s \in SUBSET S : Cardinality(s) <= n}

-----------------------------------------------------------------------------
(* Induction.                                                              *)

\* A nonempty set of natural numbers has a least element.
LEMMA LeastNat ==
  ASSUME NEW S \in SUBSET Nat, S # {}
  PROVE  \E x \in S : \A y \in S : x <= y
<1> DEFINE R == OpToRel(<, Nat)
<1>1. \A x, y \in Nat : <<y, x>> \in R <=> y < x
  BY Zenon DEF OpToRel
<1>2. IsWellFoundedOn(R, Nat)
  BY NatLessThanWellFounded, Zenon
<1> HIDE DEF R
<1>3. PICK x \in S : \A y \in S : ~(<<y, x>> \in R)
  BY <1>2, WFMin, Zenon
<1>4. ASSUME NEW y \in S PROVE x <= y
  <2>1. x \in Nat /\ y \in Nat
    BY Zenon
  <2>2. ~(y < x)
    BY <1>1, <1>3, <2>1, Zenon
  <2> QED
    BY <2>1, <2>2
<1> QED
  BY <1>4, Zenon

\* A set of numbers that has 0 and, with each number, the next has them all.
LEMMA NatSetInduction ==
  ASSUME NEW S, 0 \in S, \A n \in Nat : n \in S => n + 1 \in S
  PROVE  Nat \subseteq S
<1> SUFFICES ASSUME Nat \ S # {} PROVE FALSE
  BY Zenon
<1>1. PICK x \in Nat \ S : \A y \in Nat \ S : x <= y
  BY LeastNat, Zenon
<1>2. x # 0 /\ x - 1 \in Nat
  OBVIOUS
<1>3. x - 1 \in S
  BY <1>1, <1>2
<1> QED
  BY <1>2, <1>3

\* A family of finite subsets of S that contains a set as soon as it contains
\* all smaller ones contains S.
LEMMA SubsetInduction ==
  ASSUME NEW S, IsFiniteSet(S), NEW F,
         \A s \in SUBSET S :
           (\A t \in SUBSET S : Cardinality(t) < Cardinality(s) => t \in F)
             => s \in F
  PROVE  \A s \in SUBSET S : s \in F
<1>1. \A s \in SUBSET S : Cardinality(s) \in Nat
  BY FS_Subset, FS_CardinalityType, Zenon
<1> DEFINE Bad == {n \in Nat : \E s \in SUBSET S : s \notin F /\ Cardinality(s) = n}
<1> SUFFICES ASSUME Bad # {} PROVE FALSE
  BY <1>1, Zenon
<1>2. PICK n \in Bad : \A m \in Bad : n <= m
  BY LeastNat, Zenon
<1>3. PICK s \in SUBSET S : s \notin F /\ Cardinality(s) = n
  BY Zenon
<1>4. ASSUME NEW t \in SUBSET S, Cardinality(t) < Cardinality(s) PROVE t \in F
  <2> SUFFICES ASSUME t \notin F PROVE FALSE
    BY Zenon
  <2>1. Cardinality(t) \in Bad
    BY <1>1, Zenon
  <2> QED
    BY <1>1, <1>2, <1>3, <1>4, <2>1
<1> QED
  BY <1>3, <1>4, Zenon

-----------------------------------------------------------------------------
(* The function behind a sum.                                              *)

\* Taking an element out of a finite set leaves one element less.
LEMMA WithoutChosen ==
  ASSUME NEW S, IsFiniteSet(S), NEW s \in SUBSET S, s # {}
  PROVE  /\ Chosen(s) \in s /\ s \ {Chosen(s)} \in SUBSET S
         /\ Cardinality(s) \in Nat
         /\ Cardinality(s \ {Chosen(s)}) = Cardinality(s) - 1
         /\ Cardinality(s \ {Chosen(s)}) < Cardinality(s)
<1>1. Chosen(s) \in s
  BY Zenon DEF Chosen
<1>2. IsFiniteSet(s)
  BY FS_Subset, Zenon
<1>3. Cardinality(s) \in Nat
  BY <1>2, FS_CardinalityType, Zenon
<1>4. Cardinality(s \ {Chosen(s)}) = Cardinality(s) - 1
  BY <1>1, <1>2, FS_RemoveElement, Zenon
<1> QED
  BY <1>1, <1>3, <1>4

\* For a finite set the function exists: by induction over the size of the
\* subsets it is defined for.
LEMMA SumExists ==
  ASSUME NEW S, IsFiniteSet(S), NEW f
  PROVE  \E g : IsSum(f, g, SUBSET S)
<1> DEFINE N == {n \in Nat : \E g : IsSum(f, g, AtMost(S, n))}
<1>1. 0 \in N
  <2> DEFINE g == [s \in AtMost(S, 0) |-> 0]
  <2>1. \A s \in AtMost(S, 0) : s = {}
    BY FS_Subset, FS_EmptySet, FS_CardinalityType DEF AtMost
  <2>2. IsSum(f, g, AtMost(S, 0))
    BY <2>1, Zenon DEF IsSum
  <2> QED
    BY <2>2, Zenon
<1>2. ASSUME NEW n \in Nat, n \in N PROVE n + 1 \in N
  <2>1. PICK g : IsSum(f, g, AtMost(S, n))
    BY <1>2, Zenon
  <2> DEFINE h == [s \in AtMost(S, n + 1) |->
                     IF s = {} THEN 0 ELSE f[Chosen(s)] + g[s \ {Chosen(s)}]]
  <2>2. ASSUME NEW s \in AtMost(S, n) PROVE s \in AtMost(S, n + 1) /\ h[s] = g[s]
    <3>1. s \in AtMost(S, n + 1)
      BY FS_Subset, FS_CardinalityType DEF AtMost
    <3> QED
      BY <2>1, <3>1, Zenon DEF IsSum
  <2>3. ASSUME NEW s \in AtMost(S, n + 1), s # {}
        PROVE  s \ {Chosen(s)} \in AtMost(S, n)
    BY <2>3, WithoutChosen DEF AtMost
  <2>4. IsSum(f, h, AtMost(S, n + 1))
    <3>1. \A s \in AtMost(S, n + 1) :
            s # {} => h[s \ {Chosen(s)}] = g[s \ {Chosen(s)}]
      BY <2>2, <2>3, Zenon
    <3> QED
      BY <3>1, Zenon DEF IsSum
  <2> QED
    BY <2>4
<1> HIDE DEF N
<1>3. Cardinality(S) \in N /\ Cardinality(S) \in Nat
  BY <1>1, <1>2, NatSetInduction, FS_CardinalityType, Zenon
<1>4. AtMost(S, Cardinality(S)) = SUBSET S
  BY FS_Subset, Zenon DEF AtMost
<1> QED
  BY <1>3, <1>4, Zenon DEF N

\* Two such functions agree where both are defined.
LEMMA SumUnique ==
  ASSUME NEW S, IsFiniteSet(S), NEW T \in SUBSET S, NEW f, NEW e, NEW g, NEW h,
         \A x \in T : e[x] = f[x],
         IsSum(f, g, SUBSET S), IsSum(e, h, SUBSET T)
  PROVE  \A s \in SUBSET T : g[s] = h[s]
<1> DEFINE F == {s \in SUBSET T : g[s] = h[s]}
<1>1. IsFiniteSet(T)
  BY FS_Subset, Zenon
<1>2. ASSUME NEW s \in SUBSET T,
             \A t \in SUBSET T : Cardinality(t) < Cardinality(s) => t \in F
      PROVE  s \in F
  <2>1. CASE s = {}
    BY <2>1, Zenon DEF IsSum
  <2>2. CASE s # {}
    <3>1. /\ Chosen(s) \in s /\ s \ {Chosen(s)} \in SUBSET T
          /\ Cardinality(s \ {Chosen(s)}) < Cardinality(s)
      BY <1>1, <2>2, WithoutChosen, Zenon
    <3>2. g[s \ {Chosen(s)}] = h[s \ {Chosen(s)}]
      BY <1>2, <3>1, Zenon
    <3>3. g[s] = f[Chosen(s)] + g[s \ {Chosen(s)}]
      BY <2>2, Zenon DEF IsSum
    <3>4. h[s] = e[Chosen(s)] + h[s \ {Chosen(s)}]
      BY <2>2, Zenon DEF IsSum
    <3>5. e[Chosen(s)] = f[Chosen(s)]
      BY <3>1, Zenon
    <3> QED
      BY <3>2, <3>3, <3>4, <3>5, Zenon
  <2> QED
    BY <2>1, <2>2, Zenon
<1> HIDE DEF F
<1>3. \A s \in SUBSET T : s \in F
  BY <1>1, <1>2, SubsetInduction, Zenon
<1> QED
  BY <1>3, Zenon DEF F

\* In particular two for the same values agree on the smaller set.
LEMMA SumAgrees ==
  ASSUME NEW S, IsFiniteSet(S), NEW T \in SUBSET S, NEW f, NEW g, NEW h,
         IsSum(f, g, SUBSET S), IsSum(f, h, SUBSET T)
  PROVE  g[T] = h[T]
BY SumUnique

-----------------------------------------------------------------------------
(* What a sum is.                                                          *)

\* MapThenSumSet is such a function, applied to the whole set.
LEMMA SumOfIs ==
  ASSUME NEW S, IsFiniteSet(S), NEW f, NEW g, IsSum(f, g, SUBSET S)
  PROVE  SumOf(f, S) = g[S]
<1> DEFINE c == CHOOSE h : IsSum(f, h, SUBSET S)
<1>1. SumOf(f, S) = c[S]
  BY Zenon DEF SumOf, MapThenSumSet, MapThenFoldSet, IsSum, Chosen
<1>2. IsSum(f, c, SUBSET S)
  BY Zenon
<1> QED
  BY <1>1, <1>2, SumUnique

\* The sum over no element is 0.
LEMMA SumOfNone ==
  ASSUME NEW f
  PROVE  SumOf(f, {}) = 0
<1>1. IsFiniteSet({})
  BY FS_EmptySet, Zenon
<1>2. PICK g : IsSum(f, g, SUBSET {})
  BY <1>1, SumExists, Zenon
<1>3. g[{}] = 0
  BY <1>2, Zenon DEF IsSum
<1> QED
  BY <1>1, <1>2, <1>3, SumOfIs, Zenon

\* A sum depends only on the values summed, not on the function they come from.
LEMMA SumOfSame ==
  ASSUME NEW S, IsFiniteSet(S), NEW f, NEW e, \A x \in S : e[x] = f[x]
  PROVE  SumOf(e, S) = SumOf(f, S)
<1>1. PICK g : IsSum(f, g, SUBSET S)
  BY SumExists, Zenon
<1>2. PICK h : IsSum(e, h, SUBSET S)
  BY SumExists, Zenon
<1>3. g[S] = h[S]
  BY <1>1, <1>2, SumUnique
<1> QED
  BY <1>1, <1>2, <1>3, SumOfIs

\* A sum is its first element and the sum of the rest.
LEMMA SumOfChosen ==
  ASSUME NEW S, IsFiniteSet(S), S # {}, NEW f
  PROVE  SumOf(f, S) = f[Chosen(S)] + SumOf(f, S \ {Chosen(S)})
<1>1. PICK T \in SUBSET S : T = S \ {Chosen(S)}
  BY Zenon
<1>2. IsFiniteSet(T)
  BY FS_Subset, Zenon
<1>3. PICK g : IsSum(f, g, SUBSET S)
  BY SumExists, Zenon
<1>4. PICK h : IsSum(f, h, SUBSET T)
  BY <1>2, SumExists, Zenon
<1>5. g[T] = h[T]
  BY <1>3, <1>4, SumAgrees
<1>6. g[S] = f[Chosen(S)] + g[T]
  BY <1>1, <1>3, Zenon DEF IsSum
<1>7. SumOf(f, S) = g[S] /\ SumOf(f, T) = h[T]
  BY <1>2, <1>3, <1>4, SumOfIs, Zenon
<1> QED
  BY <1>1, <1>5, <1>6, <1>7, Zenon

\* A sum of natural numbers is a natural number.
LEMMA SumOfNat ==
  ASSUME NEW S, IsFiniteSet(S), NEW f, \A x \in S : f[x] \in Nat
  PROVE  SumOf(f, S) \in Nat
<1> DEFINE F == {s \in SUBSET S : SumOf(f, s) \in Nat}
<1>1. ASSUME NEW s \in SUBSET S,
             \A t \in SUBSET S : Cardinality(t) < Cardinality(s) => t \in F
      PROVE  s \in F
  <2>1. CASE s = {}
    BY <2>1, SumOfNone
  <2>2. CASE s # {}
    <3>1. /\ Chosen(s) \in s /\ s \ {Chosen(s)} \in SUBSET S
          /\ Cardinality(s \ {Chosen(s)}) < Cardinality(s)
      BY <2>2, WithoutChosen, Zenon
    <3>2. SumOf(f, s \ {Chosen(s)}) \in Nat
      BY <1>1, <3>1, Zenon
    <3>3. SumOf(f, s) = f[Chosen(s)] + SumOf(f, s \ {Chosen(s)})
      BY <2>2, SumOfChosen, FS_Subset, Zenon
    <3>4. f[Chosen(s)] \in Nat
      BY <3>1, Zenon
    <3>5. SumOf(f, s) \in Nat
      BY <3>2, <3>3, <3>4
    <3> QED
      BY <3>5, Zenon
  <2> QED
    BY <2>1, <2>2, Zenon
<1> HIDE DEF F
<1>2. S \in F
  BY <1>1, SubsetInduction, Zenon
<1> QED
  BY <1>2, Zenon DEF F

\* A sum is any one of its elements and the sum of the others.
LEMMA SumOfSplit ==
  ASSUME NEW S, IsFiniteSet(S), NEW f, \A x \in S : f[x] \in Nat, NEW y \in S
  PROVE  SumOf(f, S) = f[y] + SumOf(f, S \ {y})
<1> DEFINE F == {s \in SUBSET S :
                   \A x \in s : SumOf(f, s) = f[x] + SumOf(f, s \ {x})}
<1>1. ASSUME NEW s \in SUBSET S,
             \A t \in SUBSET S : Cardinality(t) < Cardinality(s) => t \in F
      PROVE  s \in F
  <2> SUFFICES ASSUME NEW x \in s PROVE SumOf(f, s) = f[x] + SumOf(f, s \ {x})
    BY Zenon
  <2> DEFINE c == Chosen(s)
  <2>0. IsFiniteSet(s)
    BY FS_Subset, Zenon
  <2>1. /\ c \in s /\ s \ {c} \in SUBSET S
        /\ Cardinality(s \ {c}) < Cardinality(s)
    BY WithoutChosen, Zenon
  <2>2. SumOf(f, s) = f[c] + SumOf(f, s \ {c})
    BY <2>0, SumOfChosen, Zenon
  <2> HIDE DEF c
  <2>3. CASE x = c
    BY <2>2, <2>3, Zenon
  <2>4. CASE x # c
    <3>1. s \ {x} \in SUBSET S /\ Cardinality(s \ {x}) < Cardinality(s)
      <4>1. Cardinality(s) \in Nat /\ Cardinality(s \ {x}) = Cardinality(s) - 1
        BY <2>0, FS_RemoveElement, FS_CardinalityType, Zenon
      <4> QED
        BY <4>1
    <3>2. SumOf(f, s \ {c}) = f[x] + SumOf(f, (s \ {c}) \ {x})
      BY <1>1, <2>1, <2>4, Zenon
    <3>3. SumOf(f, s \ {x}) = f[c] + SumOf(f, (s \ {x}) \ {c})
      BY <1>1, <2>1, <2>4, <3>1, Zenon
    <3>4. (s \ {c}) \ {x} = (s \ {x}) \ {c}
      BY Zenon
    <3>5. SumOf(f, (s \ {c}) \ {x}) \in Nat
      <4>1. IsFiniteSet((s \ {c}) \ {x})
        BY <2>0, FS_Subset, Zenon
      <4> QED
        BY <4>1, SumOfNat, Zenon
    <3>6. f[c] \in Nat /\ f[x] \in Nat
      BY <2>1, Zenon
    <3> QED
      BY <2>2, <3>2, <3>3, <3>4, <3>5, <3>6
  <2> QED
    BY <2>3, <2>4, Zenon
<1> HIDE DEF F
<1>2. S \in F
  BY <1>1, SubsetInduction, Zenon
<1> QED
  BY <1>2, Zenon DEF F

-----------------------------------------------------------------------------
(* The three updates.                                                      *)

\* Taking out a set of resting orders, as cancel, a full fill, STP and
\* mass_cancel do, leaves the containers in agreement.
LEMMA RemoveKeepsBookOK ==
  ASSUME BookOK, NEW gone \in SUBSET resting, RemoveOrders(gone)
  PROVE  BookOK'
<1> USE DEF BookOK, BookTypeOK, RemoveOrders, DropFromIndices
<1> DEFINE ids == {r.id : r \in gone}
<1>0. /\ resting' = resting \ gone
      /\ prices' = Pruned(gone)
      /\ index' = [i \in OrderId |-> IF i \in ids THEN None ELSE index[i]]
      /\ byAccount' = [a \in Account |-> {i \in byAccount[a] :
                         i \in ids => index[i].account # a}]
      /\ seq' = seq
  BY Zenon
<1> HIDE DEF RemoveOrders, DropFromIndices
<1>1. BookTypeOK'
  BY <1>0, Zenon DEF Pruned
<1>2. \A r \in resting : r \in gone <=> r.id \in ids
  BY DEF IndexExact
<1> HIDE DEF ids
<1>3. IndexExact'
  <2>1. \A i \in OrderId : index'[i] # None <=> \E r \in resting' : r.id = i
    BY <1>0, <1>2 DEF IndexExact, RestingOrder
  <2>2. \A r \in resting' : /\ index'[r.id].side = r.side
                            /\ index'[r.id].price = r.price
    BY <1>0, <1>2, Zenon DEF IndexExact, RestingOrder
  <2>3. \A r, q \in resting' : r.id = q.id => r = q
    BY <1>0, Zenon DEF IndexExact
  <2>4. \A a \in Account, i \in OrderId :
          i \in byAccount'[a] <=> index'[i] # None /\ index'[i].account = a
    BY <1>0, Zenon DEF IndexExact
  <2> QED
    BY <2>1, <2>2, <2>3, <2>4, Zenon DEF IndexExact
<1>4. LevelsExact'
  BY <1>0 DEF LevelsExact, Level, Pruned
<1>5. StampsDistinct'
  BY <1>0, Zenon DEF StampsDistinct
<1> QED
  BY <1>1, <1>3, <1>4, <1>5, Zenon

\* So does changing the quantity of one order in place, as a partial fill
\* and a quantity-down replace do.
LEMMA SetQtyKeepsBookOK ==
  ASSUME BookOK, NEW r \in resting, NEW q \in Lots, SetQty(r, q)
  PROVE  BookOK'
<1> DEFINE s == [r EXCEPT !.qty = q]
<1> USE DEF BookOK, BookTypeOK
<1>0. /\ resting' = (resting \ {r}) \cup {s}
      /\ UNCHANGED <<prices, index, byAccount, seq>>
  BY Zenon DEF SetQty
<1>1. /\ s \in RestingOrder
      /\ s.id = r.id /\ s.side = r.side /\ s.price = r.price /\ s.ts = r.ts
  BY Zenon DEF RestingOrder
<1> HIDE DEF s
<1>2. BookTypeOK'
  BY <1>0, <1>1, Zenon
<1>3. IndexExact'
  BY <1>0, <1>1 DEF IndexExact
<1>4. LevelsExact'
  BY <1>0, <1>1 DEF LevelsExact, Level
<1>5. StampsDistinct'
  BY <1>0, <1>1 DEF StampsDistinct
<1> QED
  BY <1>2, <1>3, <1>4, <1>5, Zenon

\* So does add_resting, given the id is not in the sidecar.
LEMMA AddKeepsBookOK ==
  ASSUME BookOK, NEW id \in OrderId, NEW account \in Account,
         NEW side \in Side, NEW price \in Price, NEW qty \in Lots,
         NEW tif \in RestingTif,
         AddResting(id, account, side, price, qty, tif)
  PROVE  BookOK'
<1> DEFINE s == [id |-> id, side |-> side, price |-> price, qty |-> qty,
                 ts |-> seq + 1]
           meta == [side |-> side, price |-> price, account |-> account,
                    tif |-> tif]
<1> USE DEF BookOK, BookTypeOK
<1>0. /\ index[id] = None
      /\ seq' = seq + 1
      /\ resting' = resting \cup {s}
      /\ prices' = [prices EXCEPT ![side] = @ \cup {price}]
      /\ index' = [index EXCEPT ![id] = meta]
      /\ byAccount' = [byAccount EXCEPT ![account] = @ \cup {id}]
  BY Zenon DEF AddResting
<1>1. /\ s \in RestingOrder
      /\ s.id = id /\ s.side = side /\ s.price = price /\ s.ts = seq + 1
  BY DEF RestingOrder
<1>2. /\ meta \in OrderMeta /\ meta # None
      /\ meta.side = side /\ meta.price = price /\ meta.account = account
  BY NoneAssumption DEF OrderMeta
<1> HIDE DEF s, meta
<1>3. BookTypeOK'
  BY <1>0, <1>1, <1>2
<1>4. IndexExact'
  <2>1. \A i \in OrderId : index'[i] # None <=> \E r \in resting' : r.id = i
    BY <1>0, <1>1, <1>2 DEF IndexExact
  <2>2. \A r \in resting' : /\ index'[r.id].side = r.side
                            /\ index'[r.id].price = r.price
    BY <1>0, <1>1, <1>2 DEF IndexExact, RestingOrder
  <2>3. \A r, q \in resting' : r.id = q.id => r = q
    BY <1>0, <1>1 DEF IndexExact, RestingOrder
  <2>4. \A a \in Account, i \in OrderId :
          i \in byAccount'[a] <=> index'[i] # None /\ index'[i].account = a
    BY <1>0, <1>2 DEF IndexExact
  <2> QED
    BY <2>1, <2>2, <2>3, <2>4, Zenon DEF IndexExact
<1>5. LevelsExact'
  BY <1>0, <1>1 DEF LevelsExact, Level
<1>6. StampsDistinct'
  BY <1>0, <1>1 DEF StampsDistinct, RestingOrder
<1> QED
  BY <1>3, <1>4, <1>5, <1>6, Zenon

-----------------------------------------------------------------------------
(* The operations.                                                         *)

\* The orders an id leads to rest in the book.
LEMMA AtRests ==
  ASSUME NEW id \in OrderId
  PROVE  At(id) \subseteq resting
BY Zenon DEF At, Level

\* Resting what is left of a taker that may rest keeps the containers exact.
LEMMA AddResidualKeepsBookOK ==
  ASSUME BookOK, taker \in Taker, taker.limit \in Price,
         taker.tif \in RestingTif, remaining \in Nat, remaining > 0,
         AddResidual
  PROVE  BookOK'
<1>1. /\ taker.id \in OrderId /\ taker.account \in Account
      /\ taker.side \in Side /\ remaining \in Lots
  BY DEF Taker, Lots
<1> QED
  BY <1>1, AddKeepsBookOK, Zenon DEF AddResidual

\* The end of a walk, for a new order and for a replace.
LEMMA ReturnKeepsInv ==
  ASSUME BookInv, phase = "walk", ReturnFromWalk
  PROVE  BookInv'
<1> USE DEF BookInv
<1>1. taker \in Taker
  BY Zenon DEF WalkTypeOK, WalkState
<1>2. BookOK'
  <2>1. CASE taker.origin = "replace" /\ stp = None /\ remaining > 0
    BY <1>1, <2>1, AddResidualKeepsBookOK, NoneAssumption, Zenon
       DEF ReturnFromWalk, WalkState, WalkTypeOK
  <2>2. CASE ~(taker.origin = "replace" /\ stp = None /\ remaining > 0)
    <3>1. UNCHANGED bookVars
      BY <2>2, Zenon DEF ReturnFromWalk
    <3> QED
      BY <3>1 DEF bookVars, BookOK, BookTypeOK, IndexExact, LevelsExact,
                  Level, StampsDistinct
  <2> QED
    BY <2>1, <2>2, Zenon
<1>3. /\ phase' = "done"
      /\ UNCHANGED <<taker, remaining, fills, stp>>
  BY Zenon DEF ReturnFromWalk
<1> QED
  BY <1>2, <1>3, Zenon DEF WalkTypeOK, WalkState, PostOnlyNeverTakes

\* Releasing the result of a walk.
LEMMA ReleaseKeepsInv ==
  ASSUME BookOK', Release
  PROVE  BookInv'
<1>1. <<>> \in Seq(Fill)
  BY EmptySeq, Zenon
<1> QED
  BY <1>1, Zenon DEF BookInv, Release, WalkTypeOK, WalkState, PostOnlyNeverTakes

\* The containers stay exact while the book is not touched.
LEMMA UnchangedKeepsBookOK ==
  ASSUME BookOK, UNCHANGED bookVars
  PROVE  BookOK'
BY DEF bookVars, BookOK, BookTypeOK, IndexExact, LevelsExact, Level,
       StampsDistinct

\* What the walk knows of its taker survives a step that leaves the walk's
\* state alone, when no walk is running.
LEMMA IdleKeepsWalkState ==
  ASSUME BookInv, phase = "idle", UNCHANGED walkVars, BookOK'
  PROVE  BookInv'
BY Zenon DEF BookInv, walkVars, WalkTypeOK, WalkState, PostOnlyNeverTakes

\* Initially.
LEMMA InitInv == Init => BookInv
<1> SUFFICES ASSUME Init PROVE BookInv
  BY Zenon
<1> USE DEF Init
<1>1. BookTypeOK
  BY Zenon DEF BookTypeOK, Side
<1>2. IndexExact /\ LevelsExact /\ StampsDistinct
  BY Zenon DEF IndexExact, LevelsExact, Level, StampsDistinct, Side
<1>3. WalkTypeOK /\ WalkState /\ PostOnlyNeverTakes
  <2>1. <<>> \in Seq(Fill)
    BY EmptySeq, Zenon
  <2> QED
    BY <2>1, Zenon DEF WalkTypeOK, WalkState, PostOnlyNeverTakes
<1> QED
  BY <1>1, <1>2, <1>3, Zenon DEF BookInv, BookOK

\* The start of a walk on behalf of a new order.
LEMMA MatchKeepsInv ==
  ASSUME BookInv, NEW t \in NewOrders, MatchAggressive(t)
  PROVE  BookInv'
<1> USE DEF BookInv
<1>1. t \in Taker /\ t.origin = "new"
  BY NewOrdersAssumption, Zenon
<1>2. BookOK'
  BY UnchangedKeepsBookOK, Zenon DEF MatchAggressive
<1>3. /\ phase' = "walk" /\ taker' = t /\ remaining' = t.qty
      /\ fills' = <<>> /\ stp' = None /\ prices' = prices
  BY Zenon DEF MatchAggressive, StartWalk, bookVars
<1>4. WalkTypeOK'
  BY <1>1, <1>3, EmptySeq, Zenon DEF WalkTypeOK, Taker, Lots
<1>5. t.tif = "PostOnly" => ~WouldCross(t.side, t.limit)
  BY Zenon DEF MatchAggressive
<1>6. WalkState' /\ PostOnlyNeverTakes'
  BY <1>1, <1>3, <1>5, NoneAssumption, Zenon
     DEF WalkState, PostOnlyNeverTakes, WouldCross, IsBest
<1> QED
  BY <1>2, <1>4, <1>6, Zenon

\* The quantity of a fill is positive and covers neither more than the taker
\* still wants nor more than the maker has.
LEMMA FillQtyBounds ==
  ASSUME BookInv, NEW m \in resting, phase = "walk", ~WalkOver
  PROVE  /\ FillQty(m) \in Lots
         /\ FillQty(m) <= m.qty /\ FillQty(m) <= remaining
         /\ remaining - FillQty(m) \in Nat
         /\ m.qty - FillQty(m) \in Nat
BY DEF BookInv, BookOK, BookTypeOK, WalkTypeOK, RestingOrder, Lots, FillQty,
       WalkOver

\* A fill, full or partial, keeps the invariant.
LEMMA FillHeadKeepsInv == BookInv /\ FillHead => BookInv'
<1> SUFFICES ASSUME BookInv, FillHead PROVE BookInv'
  BY Zenon
<1> USE DEF BookInv
<1>1. PICK m \in resting :
        /\ NextMaker(m)
        /\ IF FillQty(m) = m.qty THEN RemoveOrders({m})
           ELSE SetQty(m, m.qty - FillQty(m))
        /\ fills' = Append(fills, FillOf(m, FillQty(m)))
        /\ remaining' = remaining - FillQty(m)
  BY Zenon DEF FillHead
<1>2. phase = "walk" /\ ~WalkOver /\ UNCHANGED <<phase, taker, stp>>
  BY Zenon DEF FillHead
<1>3. m \in RestingOrder
  BY Zenon DEF BookOK, BookTypeOK
<1>4. BookOK'
  <2>1. CASE FillQty(m) = m.qty
    BY <1>1, <2>1, RemoveKeepsBookOK, Zenon
  <2>2. CASE FillQty(m) # m.qty
    <3>1. m.qty - FillQty(m) \in Lots
      BY <1>2, <1>3, <2>2, FillQtyBounds DEF Lots, RestingOrder
    <3> QED
      BY <1>1, <2>2, <3>1, SetQtyKeepsBookOK, Zenon
  <2> QED
    BY <2>1, <2>2, Zenon
<1>5. WalkTypeOK'
  <2>1. FillOf(m, FillQty(m)) \in Fill
    BY <1>2, <1>3, FillQtyBounds, Zenon DEF FillOf, Fill, RestingOrder
  <2>2. fills' \in Seq(Fill)
    BY <1>1, <2>1, AppendProperties, Zenon DEF WalkTypeOK
  <2> QED
    BY <1>1, <1>2, <2>2, FillQtyBounds, Zenon DEF WalkTypeOK
<1>6. taker # None /\ taker.tif # "PostOnly"
  BY <1>2, Zenon DEF WalkOver, WalkState
<1> QED
  BY <1>2, <1>4, <1>5, <1>6, Zenon DEF WalkState, PostOnlyNeverTakes

\* Self-trade prevention keeps the invariant.
LEMMA StpHeadKeepsInv == BookInv /\ StpHead => BookInv'
<1> SUFFICES ASSUME BookInv, StpHead PROVE BookInv'
  BY Zenon
<1> USE DEF BookInv
<1>1. PICK m \in resting : RemoveOrders({m}) /\ stp' = m.id
  BY Zenon DEF StpHead
<1>2. /\ phase = "walk" /\ ~WalkOver
      /\ UNCHANGED <<phase, taker, remaining, fills>>
  BY Zenon DEF StpHead
<1>3. BookOK'
  BY <1>1, RemoveKeepsBookOK, Zenon
<1>4. WalkTypeOK'
  BY <1>1, <1>2, Zenon DEF WalkTypeOK, BookOK, BookTypeOK, RestingOrder
<1>5. taker # None /\ taker.tif # "PostOnly"
  BY <1>2, Zenon DEF WalkOver, WalkState
<1> QED
  BY <1>2, <1>3, <1>4, <1>5, Zenon DEF WalkState, PostOnlyNeverTakes

\* Removing orders of one side leaves the prices of the other alone.
LEMMA OtherSideKept ==
  ASSUME BookOK, NEW s \in Side, NEW gone \in SUBSET resting,
         \A r \in gone : r.side # s, RemoveOrders(gone)
  PROVE  prices'[s] = prices[s]
BY Zenon DEF RemoveOrders, Pruned, Level, BookOK, BookTypeOK

\* The cancel of a losing-priority replace and the start of its walk keep the
\* invariant; a PostOnly taker still has nothing to trade with, because the
\* cancel leaves the opposite side alone.
LEMMA RepriceKeepsInv ==
  ASSUME BookInv, NEW id \in OrderId, NEW price \in Price, NEW qty \in Qty,
         ReplaceReprice(id, price, qty)
  PROVE  BookInv'
<1> USE DEF BookInv
<1> DEFINE t == ReplaceTaker(id, price, qty)
<1>1. index[id] \in OrderMeta
  BY Zenon DEF ReplaceReprice, Known, BookOK, BookTypeOK
<1>2. /\ t \in Taker /\ t.origin = "replace" /\ t.limit = price /\ t.qty = qty
      /\ t.side = index[id].side /\ t.tif = index[id].tif
      /\ t.limit \in Price /\ t.tif \in RestingTif
  BY <1>1, QtyAssumption, Zenon
     DEF ReplaceTaker, Taker, OrderMeta, Limit, Lots, Tif, RestingTif
<1>3. RemoveOrders(At(id)) /\ StartWalk(t) /\ ~PostOnlyRefused(id, price)
  BY Zenon DEF ReplaceReprice
<1> HIDE DEF t
<1>4. BookOK'
  BY <1>3, AtRests, RemoveKeepsBookOK, Zenon
<1>5. /\ phase' = "walk" /\ taker' = t /\ remaining' = t.qty
      /\ fills' = <<>> /\ stp' = None
  BY <1>3, Zenon DEF StartWalk
<1>6. WalkTypeOK'
  BY <1>2, <1>5, EmptySeq, QtyAssumption, Zenon DEF WalkTypeOK
<1>7. prices'[Opposite(t.side)] = prices[Opposite(t.side)]
  <2>1. Opposite(t.side) \in Side
    BY Zenon DEF Opposite, Side
  <2>2. \A r \in At(id) : r.side # Opposite(t.side)
    BY <1>2, Zenon DEF At, Level, Opposite
  <2> QED
    BY <1>3, <2>1, <2>2, AtRests, OtherSideKept, Zenon
<1>8. t.tif = "PostOnly" => ~WouldCross(t.side, t.limit)
  BY <1>2, <1>3, Zenon DEF PostOnlyRefused
<1>9. WalkState' /\ PostOnlyNeverTakes'
  BY <1>2, <1>5, <1>7, <1>8, NoneAssumption, Zenon
     DEF WalkState, PostOnlyNeverTakes, WouldCross, IsBest
<1> QED
  BY <1>4, <1>6, <1>9, Zenon

\* Every step keeps the invariant.
LEMMA NextInv == BookInv /\ [Next]_vars => BookInv'
<1> SUFFICES ASSUME BookInv, [Next]_vars PROVE BookInv'
  BY Zenon
<1> USE DEF BookInv
<1>1. ASSUME NEW t \in NewOrders, MatchAggressive(t) PROVE BookInv'
  BY <1>1, MatchKeepsInv, Zenon
<1>2. ASSUME NEW id \in OrderId, Cancel(id) PROVE BookInv'
  BY <1>2, AtRests, RemoveKeepsBookOK, IdleKeepsWalkState, Zenon DEF Cancel
<1>3. ASSUME NEW id \in OrderId, NEW p \in Price, NEW q \in Qty,
             ReplaceInPlace(id, p, q)
      PROVE  BookInv'
  <2>1. PICK r \in resting : SetQty(r, q)
    BY <1>3, AtRests, Zenon DEF ReplaceInPlace
  <2>2. BookOK'
    BY <2>1, SetQtyKeepsBookOK, QtyAssumption, Zenon DEF Lots
  <2> QED
    BY <1>3, <2>2, IdleKeepsWalkState, Zenon DEF ReplaceInPlace
<1>4. ASSUME NEW id \in OrderId, NEW p \in Price, NEW q \in Qty,
             ReplaceReprice(id, p, q)
      PROVE  BookInv'
  BY <1>4, RepriceKeepsInv, Zenon
<1>5. ASSUME NEW a \in Account, MassCancel(a) PROVE BookInv'
  <2>1. UNION {At(i) : i \in byAccount[a]} \subseteq resting
    BY Zenon DEF At, Level
  <2> QED
    BY <1>5, <2>1, RemoveKeepsBookOK, IdleKeepsWalkState, Zenon DEF MassCancel
<1>6. CASE FillHead
  BY <1>6, FillHeadKeepsInv, Zenon
<1>7. CASE StpHead
  BY <1>7, StpHeadKeepsInv, Zenon
<1>8. CASE WalkEnd
  BY <1>8, ReturnKeepsInv, Zenon DEF WalkEnd
<1>9. CASE SnapshotFails
  BY <1>9, ReturnKeepsInv, Zenon DEF SnapshotFails
<1>10. CASE RestResidual
  <2>1. /\ taker \in Taker /\ taker.limit \in Price /\ taker.tif \in RestingTif
        /\ remaining \in Nat /\ remaining > 0
    BY <1>10, Zenon DEF RestResidual, WalkTypeOK, WalkState, Taker, Limit, NoPrice,
                 Tif, RestingTif
  <2>2. BookOK'
    BY <1>10, <2>1, AddResidualKeepsBookOK, Zenon DEF RestResidual
  <2> QED
    BY <1>10, <2>2, ReleaseKeepsInv, Zenon DEF RestResidual
<1>11. CASE DropResult
  BY <1>11, UnchangedKeepsBookOK, ReleaseKeepsInv, Zenon DEF DropResult
<1>12. CASE CancelResidual
  <2>1. taker.id \in OrderId
    BY <1>12, Zenon DEF CancelResidual, WalkTypeOK, WalkState, Taker
  <2>2. BookOK'
    BY <1>12, <2>1, AtRests, RemoveKeepsBookOK, Zenon DEF CancelResidual
  <2> QED
    BY <1>12, <2>2, ReleaseKeepsInv, Zenon DEF CancelResidual
<1>13. CASE UNCHANGED vars
  <2>1. UNCHANGED bookVars /\ UNCHANGED walkVars
    BY <1>13, Zenon DEF vars
  <2>2. BookOK'
    BY <2>1, UnchangedKeepsBookOK, Zenon
  <2> QED
    BY <2>1, <2>2, Zenon DEF bookVars, walkVars, WalkTypeOK, WalkState,
                      PostOnlyNeverTakes, WouldCross, IsBest
<1>14. CASE Refused
  BY <1>13, <1>14, Zenon DEF Refused
<1> QED
  BY <1>1, <1>2, <1>3, <1>4, <1>5, <1>6, <1>7, <1>8, <1>9, <1>10, <1>11,
     <1>12, <1>13, <1>14, Zenon DEF Next, Calls, Walk, Dispose

\* The invariant holds in every reachable state.
THEOREM BookInvariant == Spec => []BookInv
BY InitInv, NextInv, PTL DEF Spec

\* Every variable keeps its type: no resting order has quantity zero or is
\* Ioc, no remaining quantity goes below zero.
THEOREM TypeCorrect == Spec => []TypeOK
<1>1. BookInv => TypeOK
  BY Zenon DEF BookInv, BookOK, TypeOK
<1> QED
  BY <1>1, BookInvariant, PTL

\* The sidecar, the per-account sets, the levels and the price maps agree,
\* whatever sequence of matches, cancels, replaces, self-trade cancels and
\* failed snapshots a book goes through.
THEOREM ContainersAgree == Spec => [](IndexExact /\ LevelsExact)
<1>1. BookInv => IndexExact /\ LevelsExact
  BY Zenon DEF BookInv, BookOK
<1> QED
  BY <1>1, BookInvariant, PTL

\* A PostOnly order never takes, on arrival or through a replace.
THEOREM PostOnlySafe == Spec => []PostOnlyNeverTakes
<1>1. BookInv => PostOnlyNeverTakes
  BY Zenon DEF BookInv
<1> QED
  BY <1>1, BookInvariant, PTL

-----------------------------------------------------------------------------
(* The book is never locked or crossed.                                    *)

\* Prices are positive, so none is the limit of a market order.
LEMMA PriceNat == \A p \in Price : p \in Nat /\ p # 0
BY PriceAssumption

\* A side that is not empty has a best price.
LEMMA SomeBest ==
  ASSUME NEW s \in Side, NEW P \in SUBSET Price, P # {}
  PROVE  \E p \in P : \A q \in P : AsGood(s, p, q)
<1>1. P \subseteq 1..MaxPrice /\ MaxPrice \in Nat
  BY PriceAssumption, Zenon
<1>2. CASE s = "Ask"
  <2>1. P \in SUBSET Nat
    BY <1>1
  <2> QED
    BY <1>2, <2>1, LeastNat, Zenon DEF AsGood
<1>3. CASE s = "Bid"
  <2> DEFINE D == {MaxPrice - p : p \in P}
  <2>1. D # {}
    BY Zenon
  <2>2. \A p \in P : p \in Nat /\ MaxPrice - p \in Nat
    BY <1>1
  <2>3. D \in SUBSET Nat
    BY <2>2, Zenon
  <2>4. PICK p \in P : \A e \in D : MaxPrice - p <= e
    BY <2>1, <2>3, LeastNat, Zenon
  <2>5. \A q \in P : MaxPrice - p <= MaxPrice - q
    BY <2>4, Zenon
  <2>6. \A q \in P : p >= q
    BY <1>1, <2>2, <2>5
  <2> QED
    BY <1>3, <2>6, Zenon DEF AsGood
<1> QED
  BY <1>2, <1>3, Zenon DEF Side

\* When the best opposite price does not cross, no opposite price does.
LEMMA NothingCrosses ==
  ASSUME BookTypeOK, NEW s \in Side, NEW l \in Limit, ~WouldCross(s, l),
         NEW p \in prices[Opposite(s)]
  PROVE  ~Crosses(s, l, p)
<1>1. Opposite(s) \in Side /\ prices[Opposite(s)] \in SUBSET Price
  BY Zenon DEF Opposite, Side, BookTypeOK
<1>2. PICK b \in prices[Opposite(s)] :
        \A q \in prices[Opposite(s)] : AsGood(Opposite(s), b, q)
  BY <1>1, SomeBest, Zenon
<1>3. ~Crosses(s, l, b)
  BY <1>2, Zenon DEF WouldCross, IsBest
<1>4. AsGood(Opposite(s), b, p)
  BY <1>2, Zenon
<1>5. b \in Nat /\ p \in Nat /\ l \in Nat
  BY <1>1, PriceNat DEF Limit, NoPrice
<1> QED
  BY <1>3, <1>4, <1>5 DEF Crosses, AsGood, Opposite, Side

\* Removing orders adds no price to either side.
LEMMA RemoveKeepsUncrossed ==
  ASSUME BookOK, Uncrossed, NEW gone \in SUBSET resting, RemoveOrders(gone)
  PROVE  Uncrossed'
<1>1. prices'["Bid"] \subseteq prices["Bid"] /\ prices'["Ask"] \subseteq prices["Ask"]
  BY Zenon DEF RemoveOrders, Pruned, Side
<1> QED
  BY <1>1, Zenon DEF Uncrossed

\* An order that crosses nothing may rest.
LEMMA AddKeepsUncrossed ==
  ASSUME BookOK, Uncrossed, taker \in Taker, taker.limit \in Price,
         ~WouldCross(taker.side, taker.limit), AddResidual
  PROVE  Uncrossed'
<1> DEFINE s == taker.side
           l == taker.limit
<1>1. s \in Side /\ l \in Limit
  BY Zenon DEF Taker, Limit
<1>2. prices' = [prices EXCEPT ![s] = @ \cup {l}]
  BY Zenon DEF AddResidual, AddResting
<1>3. \A p \in prices[Opposite(s)] : ~Crosses(s, l, p)
  BY <1>1, NothingCrosses, Zenon DEF BookOK
<1>4. l \in Nat /\ l # 0
  BY PriceNat, Zenon
<1>5. prices \in [Side -> SUBSET Price]
  BY Zenon DEF BookOK, BookTypeOK
<1>6. \A x \in Side : \A p \in prices[x] : p \in Nat
  BY <1>5, PriceNat, Zenon
<1>7. CASE s = "Bid"
  <2>1. \A p \in prices["Ask"] : l < p
    BY <1>3, <1>4, <1>6, <1>7 DEF Opposite, Crosses, NoPrice, Side
  <2>2. prices'["Bid"] = prices["Bid"] \cup {l} /\ prices'["Ask"] = prices["Ask"]
    BY <1>2, <1>5, <1>7, Zenon DEF Side
  <2> QED
    BY <2>1, <2>2, Zenon DEF Uncrossed
<1>8. CASE s = "Ask"
  <2>1. \A p \in prices["Bid"] : p < l
    BY <1>3, <1>4, <1>6, <1>8 DEF Opposite, Crosses, NoPrice, Side
  <2>2. prices'["Ask"] = prices["Ask"] \cup {l} /\ prices'["Bid"] = prices["Bid"]
    BY <1>2, <1>5, <1>8, Zenon DEF Side
  <2> QED
    BY <2>1, <2>2, Zenon DEF Uncrossed
<1> QED
  BY <1>1, <1>7, <1>8, Zenon DEF Side

\* The walk comes back only when what is left crosses nothing.
LEMMA WalkEndPassive ==
  ASSUME BookInv, Uncrossed, WalkEnd
  PROVE  Uncrossed' /\ ResidualPassive'
<1> USE DEF BookInv
<1>1. phase = "walk" /\ WalkOver /\ ReturnFromWalk
  BY Zenon DEF WalkEnd
<1>2. taker \in Taker /\ UNCHANGED <<taker, remaining, stp>>
  BY <1>1, Zenon DEF WalkTypeOK, WalkState, ReturnFromWalk
<1>3. stp = None /\ remaining > 0 => ~WouldCross(taker.side, taker.limit)
  BY <1>1 DEF WalkOver
<1>4. CASE taker.origin = "replace" /\ stp = None /\ remaining > 0
  <2>1. Uncrossed'
    BY <1>1, <1>2, <1>3, <1>4, AddKeepsUncrossed, NoneAssumption, Zenon
       DEF ReturnFromWalk, WalkState
  <2> QED
    BY <1>2, <1>4, <2>1, Zenon DEF ResidualPassive
<1>5. CASE ~(taker.origin = "replace" /\ stp = None /\ remaining > 0)
  <2>1. UNCHANGED prices
    BY <1>1, <1>5, Zenon DEF ReturnFromWalk, bookVars
  <2> QED
    BY <1>2, <1>3, <2>1, Zenon DEF ResidualPassive, Uncrossed, WouldCross, IsBest
<1> QED
  BY <1>4, <1>5, Zenon

\* The step: one case per action.
LEMMA NextUncrossed ==
  ASSUME ~SnapshotMayFail, BookInv, Uncrossed, ResidualPassive, [Next]_vars
  PROVE  Uncrossed' /\ ResidualPassive'
<1> USE DEF BookInv
<1>1. ASSUME phase' # "done", UNCHANGED prices
      PROVE  Uncrossed' /\ ResidualPassive'
  BY <1>1, Zenon DEF Uncrossed, ResidualPassive
<1>2. ASSUME phase' # "done", NEW gone \in SUBSET resting, RemoveOrders(gone)
      PROVE  Uncrossed' /\ ResidualPassive'
  BY <1>2, RemoveKeepsUncrossed, Zenon DEF ResidualPassive
<1>3. ASSUME NEW t \in NewOrders, MatchAggressive(t)
      PROVE  Uncrossed' /\ ResidualPassive'
  BY <1>1, <1>3, Zenon DEF MatchAggressive, StartWalk, bookVars
<1>4. ASSUME NEW id \in OrderId, Cancel(id)
      PROVE  Uncrossed' /\ ResidualPassive'
  BY <1>2, <1>4, AtRests, Zenon DEF Cancel, walkVars
<1>5. ASSUME NEW id \in OrderId, NEW p \in Price, NEW q \in Qty,
             ReplaceInPlace(id, p, q)
      PROVE  Uncrossed' /\ ResidualPassive'
  BY <1>1, <1>5, Zenon DEF ReplaceInPlace, SetQty, walkVars
<1>6. ASSUME NEW id \in OrderId, NEW p \in Price, NEW q \in Qty,
             ReplaceReprice(id, p, q)
      PROVE  Uncrossed' /\ ResidualPassive'
  BY <1>2, <1>6, AtRests, Zenon DEF ReplaceReprice, StartWalk
<1>7. ASSUME NEW a \in Account, MassCancel(a)
      PROVE  Uncrossed' /\ ResidualPassive'
  <2>1. UNION {At(i) : i \in byAccount[a]} \subseteq resting
    BY Zenon DEF At, Level
  <2> QED
    BY <1>2, <1>7, <2>1, Zenon DEF MassCancel, walkVars
<1>8. CASE FillHead
  <2>1. PICK m \in resting :
          IF FillQty(m) = m.qty THEN RemoveOrders({m})
          ELSE SetQty(m, m.qty - FillQty(m))
    BY <1>8, Zenon DEF FillHead
  <2>2. phase' = "walk"
    BY <1>8, Zenon DEF FillHead
  <2> QED
    BY <1>1, <1>2, <2>1, <2>2, Zenon DEF SetQty
<1>9. CASE StpHead
  <2>1. PICK m \in resting : RemoveOrders({m}) /\ phase' = "walk"
    BY <1>9, Zenon DEF StpHead
  <2> QED
    BY <1>2, <2>1, Zenon
<1>10. CASE WalkEnd
  BY <1>10, WalkEndPassive, Zenon
<1>11. CASE RestResidual
  <2>1. taker \in Taker /\ taker.limit \in Price
    BY <1>11, Zenon DEF RestResidual, WalkTypeOK, WalkState, Taker, Limit
  <2>2. ~WouldCross(taker.side, taker.limit)
    BY <1>11, Zenon DEF RestResidual, ResidualPassive
  <2> QED
    BY <1>11, <2>1, <2>2, AddKeepsUncrossed, Zenon
       DEF RestResidual, Release, ResidualPassive
<1>12. CASE DropResult
  BY <1>1, <1>12, Zenon DEF DropResult, Release, bookVars
<1>13. CASE CancelResidual
  <2>1. taker.id \in OrderId
    BY <1>13, Zenon DEF CancelResidual, WalkTypeOK, WalkState, Taker
  <2> QED
    BY <1>2, <1>13, <2>1, AtRests, Zenon DEF CancelResidual, Release
<1>14. CASE UNCHANGED vars
  BY <1>14, Zenon DEF vars, bookVars, walkVars, Uncrossed, ResidualPassive,
               WouldCross, IsBest
<1>15. CASE Refused
  BY <1>14, <1>15, Zenon DEF Refused
<1>16. ~SnapshotFails
  BY Zenon DEF SnapshotFails
<1> QED
  BY <1>3, <1>4, <1>5, <1>6, <1>7, <1>8, <1>9, <1>10, <1>11, <1>12, <1>13,
     <1>14, <1>15, <1>16, Zenon DEF Next, Calls, Walk, Dispose

\* Together these are an invariant, as long as every level snapshot succeeds.
LEMMA UncrossedInvariant ==
  ASSUME ~SnapshotMayFail
  PROVE  Spec => [](BookInv /\ Uncrossed /\ ResidualPassive)
<1> DEFINE I == BookInv /\ Uncrossed /\ ResidualPassive
<1>1. Init => I
  <2>1. Init => Uncrossed /\ ResidualPassive
    BY Zenon DEF Init, Uncrossed, ResidualPassive, Side
  <2> QED
    BY <2>1, InitInv, Zenon
<1>2. I /\ [Next]_vars => I'
  BY NextInv, NextUncrossed, Zenon
<1> QED
  BY <1>1, <1>2, PTL DEF Spec

\* As long as every level snapshot succeeds, the book is never locked or
\* crossed, not even between two fills of one walk.
THEOREM NeverCrossed ==
  ASSUME ~SnapshotMayFail
  PROVE  Spec => []Uncrossed
BY UncrossedInvariant, PTL

\* As long as every level snapshot succeeds, match_aggressive leaves nothing
\* that still crosses: a residual the engine goes on to rest is passive.
\* Stamps are distinct, and no walk is without its taker, in any case.
THEOREM WalksComplete ==
  ASSUME ~SnapshotMayFail
  PROVE  Spec => []WalkInv
<1>1. BookInv /\ ResidualPassive => WalkInv
  BY Zenon DEF BookInv, BookOK, WalkInv
<1> QED
  BY <1>1, UncrossedInvariant, PTL

-----------------------------------------------------------------------------
(* Priority and self-trade prevention.                                     *)

\* Only the fill branch of the walk adds a fill.
LEMMA OnlyFillHeadFills ==
  ASSUME BookInv, [Next]_vars, Filled
  PROVE  FillHead
<1>1. fills \in Seq(Fill) /\ Len(fills) \in Nat
  BY LenProperties, Zenon DEF BookInv, WalkTypeOK
<1>2. fills' # fills /\ fills' # <<>>
  BY <1>1 DEF Filled
<1> QED
  BY <1>2, Zenon DEF Next, Calls, Walk, Dispose, vars, walkVars, MatchAggressive,
     StartWalk, Cancel, ReplaceInPlace, ReplaceReprice, MassCancel, Refused,
     StpHead, WalkEnd, SnapshotFails, ReturnFromWalk, RestResidual,
     DropResult, CancelResidual, Release

\* The maker of the new fill, and what the walk checked of it.
LEMMA FilledMaker ==
  ASSUME BookInv, [Next]_vars, Filled
  PROVE  \E m \in resting : NextMaker(m) /\ ~SelfTrade(m) /\ LastMaker = m.id
<1>1. PICK m \in resting : /\ NextMaker(m) /\ ~SelfTrade(m)
                           /\ fills' = Append(fills, FillOf(m, FillQty(m)))
  BY OnlyFillHeadFills, Zenon DEF FillHead
<1>2. phase = "walk" /\ ~WalkOver
  BY OnlyFillHeadFills, Zenon DEF FillHead
<1>3. FillOf(m, FillQty(m)) \in Fill
  BY <1>2, FillQtyBounds, Zenon
     DEF FillOf, Fill, BookInv, BookOK, BookTypeOK, RestingOrder
<1>4. fills'[Len(fills')] = FillOf(m, FillQty(m))
  BY <1>1, <1>3, AppendProperties DEF BookInv, WalkTypeOK
<1> QED
  BY <1>1, <1>4 DEF LastMaker, FillOf

\* No trade has one account on both sides.
THEOREM NeverSelfTrades == Spec => NoSelfTrade
<1>1. BookInv /\ [Next]_vars =>
        [Filled => index[LastMaker].account # taker.account]_vars
  BY FilledMaker, Zenon DEF SelfTrade
<1> QED
  BY <1>1, BookInvariant, PTL DEF Spec, NoSelfTrade

\* Fills respect price-time priority: no order on the maker's side had a
\* better price, and none at its price an earlier stamp.
THEOREM PriorityRespected == Spec => PriceTimePriority
<1> DEFINE First == \A m, r \in resting :
             m.id = LastMaker /\ r.side = m.side /\ r # m =>
               /\ AsGood(m.side, m.price, r.price)
               /\ r.price = m.price => m.ts < r.ts
<1>1. ASSUME BookInv, [Next]_vars, Filled PROVE First
  <2>1. PICK h \in resting : NextMaker(h) /\ LastMaker = h.id
    BY <1>1, FilledMaker, Zenon
  <2> SUFFICES ASSUME NEW m \in resting, NEW r \in resting,
                      m.id = LastMaker, r.side = m.side, r # m
               PROVE  /\ AsGood(m.side, m.price, r.price)
                      /\ r.price = m.price => m.ts < r.ts
    BY Zenon
  <2>2. m = h
    BY <1>1, <2>1 DEF BookInv, BookOK, IndexExact
  <2>3. /\ m \in RestingOrder /\ r \in RestingOrder
        /\ r.price \in prices[r.side]
    BY <1>1, Zenon DEF BookInv, BookOK, BookTypeOK, LevelsExact, Level, RestingOrder
  <2>4. AsGood(m.side, m.price, r.price)
    BY <2>1, <2>2, <2>3, Zenon DEF NextMaker, IsBest
  <2>5. ASSUME r.price = m.price PROVE m.ts < r.ts
    <3>1. m.ts <= r.ts
      BY <2>1, <2>2, <2>5, Zenon DEF NextMaker, IsHead, Level
    <3>2. m.ts # r.ts
      BY <1>1, Zenon DEF BookInv, BookOK, StampsDistinct
    <3> QED
      BY <2>3, <3>1, <3>2 DEF RestingOrder
  <2> QED
    BY <2>4, <2>5, Zenon
<1>2. BookInv /\ [Next]_vars => [Filled => First]_vars
  BY <1>1, Zenon
<1> QED
  BY <1>2, BookInvariant, PTL DEF Spec, PriceTimePriority

\* After a step an order was there before, under the same stamp, or is new
\* and carries the next stamp.
KeptOrNew ==
  \A r \in resting' :
    \/ \E x \in resting : x.id = r.id /\ x.ts = r.ts
    \/ r.ts = seq + 1 /\ \A x \in resting : x.id # r.id

\* Every step of the book leaves only orders that keep their stamp and new
\* ones with a stamp above all others.
LEMMA NextKeptOrNew ==
  ASSUME BookInv, [Next]_vars
  PROVE  KeptOrNew
<1> USE DEF BookInv
<1>1. ASSUME resting' \subseteq resting PROVE KeptOrNew
  BY <1>1, Zenon DEF KeptOrNew
<1>2. ASSUME NEW gone, RemoveOrders(gone) PROVE KeptOrNew
  BY <1>1, <1>2, Zenon DEF RemoveOrders
<1>3. ASSUME NEW r \in resting, NEW q, SetQty(r, q) PROVE KeptOrNew
  <2>1. r \in RestingOrder
    BY Zenon DEF BookOK, BookTypeOK
  <2>2. [r EXCEPT !.qty = q].id = r.id /\ [r EXCEPT !.qty = q].ts = r.ts
    BY <2>1, Zenon DEF RestingOrder
  <2> QED
    BY <1>3, <2>2, Zenon DEF SetQty, KeptOrNew
<1>4. ASSUME AddResidual, taker \in Taker PROVE KeptOrNew
  <2>1. taker.id \in OrderId /\ index[taker.id] = None
    BY <1>4, Zenon DEF AddResidual, AddResting, Taker
  <2>2. \A x \in resting : x.id # taker.id
    BY <2>1, Zenon DEF BookOK, IndexExact
  <2> QED
    BY <1>4, <2>2 DEF AddResidual, AddResting, KeptOrNew
<1>5. ASSUME UNCHANGED bookVars PROVE KeptOrNew
  BY <1>1, <1>5, Zenon DEF bookVars
<1>6. ASSUME NEW t \in NewOrders, MatchAggressive(t) PROVE KeptOrNew
  BY <1>5, <1>6, Zenon DEF MatchAggressive
<1>7. ASSUME NEW id \in OrderId, Cancel(id) PROVE KeptOrNew
  BY <1>2, <1>7, Zenon DEF Cancel
<1>8. ASSUME NEW id \in OrderId, NEW p \in Price, NEW q \in Qty,
             ReplaceInPlace(id, p, q)
      PROVE  KeptOrNew
  BY <1>3, <1>8, AtRests, Zenon DEF ReplaceInPlace
<1>9. ASSUME NEW id \in OrderId, NEW p \in Price, NEW q \in Qty,
             ReplaceReprice(id, p, q)
      PROVE  KeptOrNew
  BY <1>2, <1>9, Zenon DEF ReplaceReprice
<1>10. ASSUME NEW a \in Account, MassCancel(a) PROVE KeptOrNew
  BY <1>2, <1>10, Zenon DEF MassCancel
<1>11. CASE FillHead
  BY <1>2, <1>3, <1>11, Zenon DEF FillHead
<1>12. CASE StpHead
  BY <1>2, <1>12, Zenon DEF StpHead
<1>13. CASE phase # "idle" /\ ReturnFromWalk
  BY <1>4, <1>5, <1>13, Zenon DEF ReturnFromWalk, WalkTypeOK, WalkState
<1>14. CASE RestResidual
  BY <1>4, <1>14, Zenon DEF RestResidual, WalkTypeOK, WalkState
<1>15. CASE DropResult
  BY <1>5, <1>15, Zenon DEF DropResult
<1>16. CASE CancelResidual
  BY <1>2, <1>16, Zenon DEF CancelResidual
<1>17. CASE UNCHANGED vars
  BY <1>5, <1>17, Zenon DEF vars
<1> QED
  BY <1>6, <1>7, <1>8, <1>9, <1>10, <1>11, <1>12, <1>13, <1>14, <1>15, <1>16,
     <1>17, Zenon DEF Next, Calls, Walk, Dispose, WalkEnd, SnapshotFails, Refused

\* Queues change only by removal and at their back: a partial fill or a
\* quantity-down replace keeps its place and a newcomer goes last.
THEOREM QueuesDisciplined == Spec => QueueDiscipline
<1> DEFINE D == \A r, q \in resting' : r.side = q.side /\ r.price = q.price =>
         /\ (\E x \in resting : x.id = r.id) /\ (\A x \in resting : x.id # q.id)
              => r.ts < q.ts
         /\ \A x, y \in resting : x.id = r.id /\ y.id = q.id /\ x.ts < y.ts
              => r.ts < q.ts
<1>1. ASSUME BookInv, [Next]_vars PROVE D
  <2> SUFFICES ASSUME NEW r \in resting', NEW q \in resting'
               PROVE  /\ /\ \E x \in resting : x.id = r.id
                         /\ \A x \in resting : x.id # q.id
                         => r.ts < q.ts
                      /\ \A x, y \in resting :
                           x.id = r.id /\ y.id = q.id /\ x.ts < y.ts
                           => r.ts < q.ts
    BY Zenon
  <2>1. KeptOrNew
    BY <1>1, NextKeptOrNew, Zenon
  <2>2. /\ seq \in Nat
        /\ \A x \in resting : x.ts \in Nat /\ x.ts <= seq
        /\ \A x, y \in resting : x.id = y.id => x = y
    BY <1>1, Zenon DEF BookInv, BookOK, BookTypeOK, RestingOrder, StampsDistinct,
                IndexExact
  <2>3. ASSUME \E x \in resting : x.id = r.id, \A x \in resting : x.id # q.id
        PROVE  r.ts < q.ts
    BY <2>1, <2>2, <2>3 DEF KeptOrNew
  <2>4. ASSUME NEW x \in resting, NEW y \in resting, x.id = r.id,
               y.id = q.id, x.ts < y.ts
        PROVE  r.ts < q.ts
    BY <2>1, <2>2, <2>4 DEF KeptOrNew
  <2> QED
    BY <2>3, <2>4, Zenon
<1>2. BookInv /\ [Next]_vars => [D]_vars
  BY <1>1, Zenon
<1> QED
  BY <1>2, BookInvariant, PTL DEF Spec, QueueDiscipline

-----------------------------------------------------------------------------
(* Lots.                                                                   *)

\* The lots of a set of orders are the sum of any function that gives each
\* order its quantity.
LEMMA TotalIsSum ==
  ASSUME NEW S, IsFiniteSet(S), NEW f, \A r \in S : f[r] = r.qty
  PROVE  Total(S) = SumOf(f, S)
<1> DEFINE Iterates(g) ==
             g = [s \in SUBSET S |->
                    IF s = {} THEN 0 ELSE Chosen(s).qty + g[s \ {Chosen(s)}]]
           c == CHOOSE g : Iterates(g)
<1>1. Total(S) = c[S]
  BY Zenon DEF Total, MapThenSumSet, MapThenFoldSet, Chosen
<1>2. \A s \in SUBSET S : s # {} => f[Chosen(s)] = Chosen(s).qty
  BY Zenon DEF Chosen
<1>3. \A g : IsSum(f, g, SUBSET S) <=> Iterates(g)
  BY <1>2, Zenon DEF IsSum
<1>4. \E g : Iterates(g)
  BY <1>3, SumExists, Zenon
<1>5. IsSum(f, c, SUBSET S)
  BY <1>3, <1>4, Zenon
<1> QED
  BY <1>1, <1>5, SumOfIs, Zenon

\* One order more is its lots more.
LEMMA TotalSplit ==
  ASSUME NEW S \in SUBSET RestingOrder, IsFiniteSet(S), NEW m \in S
  PROVE  /\ Total(S \ {m}) \in Nat
         /\ Total(S) = m.qty + Total(S \ {m})
<1>1. PICK f : f = [r \in S |-> r.qty]
  BY Zenon
<1>2. \A r \in S : f[r] = r.qty /\ f[r] \in Nat
  BY <1>1, Zenon DEF RestingOrder, Lots
<1>3. IsFiniteSet(S \ {m})
  BY FS_Subset, Zenon
<1>4. Total(S) = SumOf(f, S) /\ Total(S \ {m}) = SumOf(f, S \ {m})
  BY <1>2, <1>3, TotalIsSum, Zenon
<1>5. SumOf(f, S \ {m}) \in Nat
  BY <1>2, <1>3, SumOfNat, Zenon
<1>6. SumOf(f, S) = f[m] + SumOf(f, S \ {m})
  BY <1>2, SumOfSplit, Zenon
<1> QED
  BY <1>2, <1>4, <1>5, <1>6, Zenon

\* There are finitely many resting orders: an operation adds at most one.
LEMMA NextFinite ==
  ASSUME IsFiniteSet(resting), [Next]_vars
  PROVE  IsFiniteSet(resting')
<1>1. ASSUME NEW x, resting' \subseteq resting \cup {x} PROVE IsFiniteSet(resting')
  BY <1>1, FS_AddElement, FS_Subset, Zenon
<1>2. ASSUME resting' \subseteq resting PROVE IsFiniteSet(resting')
  BY <1>2, FS_Subset, Zenon
<1>3. ASSUME NEW gone, RemoveOrders(gone) PROVE IsFiniteSet(resting')
  BY <1>2, <1>3, Zenon DEF RemoveOrders
<1>4. ASSUME NEW r, NEW q, SetQty(r, q) PROVE IsFiniteSet(resting')
  BY <1>1, <1>4, Zenon DEF SetQty
<1>5. CASE AddResidual
  BY <1>1, <1>5, Zenon DEF AddResidual, AddResting
<1>6. CASE UNCHANGED bookVars
  BY <1>6, Zenon DEF bookVars
<1>7. CASE Calls
  BY <1>3, <1>4, <1>6, <1>7, Zenon DEF Calls, MatchAggressive, StartWalk, Cancel,
     ReplaceInPlace, ReplaceReprice, MassCancel, Refused, vars
<1>8. CASE Walk
  BY <1>3, <1>4, <1>5, <1>6, <1>8, Zenon DEF Walk, FillHead, StpHead, WalkEnd,
     SnapshotFails, ReturnFromWalk
<1>9. CASE Dispose
  BY <1>3, <1>5, <1>6, <1>9, Zenon DEF Dispose, RestResidual, DropResult,
     CancelResidual, Release
<1>10. CASE UNCHANGED vars
  BY <1>6, <1>10, Zenon DEF vars
<1> QED
  BY <1>7, <1>8, <1>9, <1>10, Zenon DEF Next

\* What the fill branch of the walk takes from the book and from the taker.
LEMMA FillLots ==
  ASSUME BookInv, IsFiniteSet(resting), FillHead
  PROVE  /\ Total(resting) - Total(resting') = remaining - remaining'
         /\ fills'[Len(fills')].qty = remaining - remaining'
<1>1. PICK m \in resting :
        /\ IF FillQty(m) = m.qty THEN RemoveOrders({m})
           ELSE SetQty(m, m.qty - FillQty(m))
        /\ fills' = Append(fills, FillOf(m, FillQty(m)))
        /\ remaining' = remaining - FillQty(m)
  BY Zenon DEF FillHead
<1>2. phase = "walk" /\ ~WalkOver
  BY Zenon DEF FillHead
<1>3. resting \in SUBSET RestingOrder /\ remaining \in Nat /\ fills \in Seq(Fill)
  BY Zenon DEF BookInv, BookOK, BookTypeOK, WalkTypeOK
<1>4. PICK q \in Nat : /\ q = FillQty(m) /\ q <= m.qty /\ remaining' = remaining - q
                       /\ q \in Lots /\ m.qty - q \in Nat
  BY <1>1, <1>2, FillQtyBounds, Zenon DEF Lots
<1>5. m.qty \in Nat
  BY <1>3, Zenon DEF RestingOrder, Lots
<1>6. remaining - remaining' = q
  BY <1>3, <1>4
<1>7. fills'[Len(fills')].qty = q
  <2>1. FillOf(m, q) \in Fill
    BY <1>3, <1>4, Zenon DEF FillOf, Fill, RestingOrder
  <2>2. fills'[Len(fills')] = FillOf(m, q)
    BY <1>1, <1>3, <1>4, <2>1, AppendProperties
  <2> QED
    BY <2>2 DEF FillOf
<1>8. /\ Total(resting \ {m}) \in Nat
      /\ Total(resting) = m.qty + Total(resting \ {m})
  BY <1>3, TotalSplit, Zenon
<1>9. CASE q = m.qty
  <2>1. resting' = resting \ {m}
    BY <1>1, <1>4, <1>9, Zenon DEF RemoveOrders
  <2> QED
    BY <1>5, <1>6, <1>7, <1>8, <1>9, <2>1
<1>10. CASE q # m.qty
  <2>1. PICK n : n = [m EXCEPT !.qty = m.qty - q]
    BY Zenon
  <2>2. resting' = (resting \ {m}) \cup {n}
    BY <1>1, <1>4, <1>10, <2>1, Zenon DEF SetQty
  <2>3. n \in RestingOrder /\ n.qty = m.qty - q /\ n.id = m.id
    BY <1>3, <1>4, <1>5, <1>10, <2>1 DEF RestingOrder, Lots
  <2>4. n \notin resting \ {m}
    BY <2>3, Zenon DEF BookInv, BookOK, IndexExact
  <2>5. resting' \ {n} = resting \ {m} /\ n \in resting'
    BY <2>2, <2>4, Zenon
  <2>6. resting' \in SUBSET RestingOrder /\ IsFiniteSet(resting')
    BY <1>3, <2>2, <2>3, FS_Subset, FS_AddElement, Zenon
  <2>7. Total(resting') = n.qty + Total(resting' \ {n})
    BY <2>5, <2>6, TotalSplit, Zenon
  <2>8. Total(resting') = (m.qty - q) + Total(resting \ {m})
    BY <2>3, <2>5, <2>7, Zenon
  <2> QED
    BY <1>4, <1>5, <1>6, <1>7, <1>8, <2>8
<1> QED
  BY <1>9, <1>10, Zenon

\* A fill moves lots and neither makes nor loses any: the book gives up what
\* the taker gets, and the print says so (book.rs, the fill branch of
\* match_aggressive).
THEOREM FillsConserveLots == Spec => FillMovesLots
<1> DEFINE I == BookInv /\ IsFiniteSet(resting)
           Moves == /\ Total(resting) - Total(resting') = remaining - remaining'
                    /\ fills'[Len(fills')].qty = remaining - remaining'
<1>1. Init => I
  <2>1. Init => IsFiniteSet(resting)
    BY FS_EmptySet, Zenon DEF Init
  <2> QED
    BY <2>1, InitInv, Zenon
<1>2. I /\ [Next]_vars => I'
  BY NextInv, NextFinite, Zenon
<1>3. I /\ [Next]_vars => [Filled => Moves]_vars
  BY OnlyFillHeadFills, FillLots, Zenon
<1> QED
  BY <1>1, <1>2, <1>3, PTL DEF Spec, FillMovesLots

=============================================================================
