----------------------- MODULE AllocationEngineProofs -----------------------
(***************************************************************************)
(* What the waterfall of AllocationEngine computes, for every amount, every *)
(* set of months and every state of them.                                   *)
(*                                                                         *)
(* `Remaining' is a recursive function.  Its facts are proved by the least  *)
(* counterexample: a nonempty set of natural numbers has a least element,   *)
(* and the least month at which a fact fails would contradict the month     *)
(* before it.                                                               *)
(***************************************************************************)
EXTENDS AllocationEngine, TLAPS, WellFoundedInduction, FiniteSetTheorems

\* A nonempty set of natural numbers has a least element.
LEMMA LeastElement ==
  ASSUME NEW T, T \subseteq Nat, T # {}
  PROVE  \E x \in T : \A y \in T : x <= y
<1> DEFINE R == OpToRel(<, Nat)
<1>1. IsWellFoundedOn(R, Nat)
  BY NatLessThanWellFounded
<1>2. \A x, y \in T : y < x => <<y, x>> \in R
  BY DEF OpToRel
<1> HIDE DEF R
<1>3. PICK x \in T : \A y \in T : <<y, x>> \notin R
  BY <1>1, WFMin
<1>4. \A y \in T : ~(y < x)
  BY <1>2, <1>3, Zenon
<1>5. QED
  BY <1>4

\* A nonempty set of months has a last one, which is what LastKnown names.
LEMMA LastKnownIsLast ==
  ASSUME NEW last \in Nat, NEW rows \in SUBSET (1..last), rows # {}
  PROVE  /\ LastKnown(rows) \in rows
         /\ \A k \in rows : k <= LastKnown(rows)
<1> DEFINE T == {n \in Nat : \E m \in rows : n = last - m}
<1>1. T \subseteq Nat
  OBVIOUS
<1>2. T # {}
  <2>1. PICK m \in rows : TRUE
    OBVIOUS
  <2>2. last - m \in T
    BY <2>1
  <2> QED
    BY <2>2
<1>3. PICK n \in T : \A y \in T : n <= y
  <2> HIDE DEF T
  <2> QED
    BY <1>1, <1>2, LeastElement
<1>4. PICK m \in rows : n = last - m
  BY <1>3
<1>5. \A k \in rows : k <= m
  <2>1. \A k \in rows : last - k \in T
    OBVIOUS
  <2> QED
    BY <1>3, <1>4, <2>1
<1>6. QED
  BY <1>4, <1>5 DEF LastKnown

\* What `left' has to satisfy to be the function Remaining defines.
IsRemaining(left, amount, capacity, last) ==
    left = [m \in 0..last |->
               IF m = 0 THEN amount
               ELSE left[m - 1] - Lesser(left[m - 1], capacity[m])]

\* Such a function exists, and it stays between nothing and the amount.
LEMMA RemainingExists ==
  ASSUME NEW amount \in Nat, NEW last \in Nat, NEW c \in [1..last -> Nat]
  PROVE  \E left \in [0..last -> 0..amount] : IsRemaining(left, amount, c, last)
<1> DEFINE Has(n) == \E left \in [0..n -> 0..amount] :
                         IsRemaining(left, amount, c, n)
           T == {n \in 0..last : ~Has(n)}
<1>1. SUFFICES ASSUME T # {} PROVE FALSE
  <2>1. last \in 0..last
    OBVIOUS
  <2> QED
    BY <2>1
<1>2. PICK n \in T : \A y \in T : n <= y
  <2>1. T \subseteq Nat
    OBVIOUS
  <2> HIDE DEF T
  <2> QED
    BY <1>1, <2>1, LeastElement
<1>3. n \in 0..last /\ ~Has(n)
  BY <1>2
<1>4. CASE n = 0
  <2> DEFINE f == [m \in 0..0 |-> amount]
  <2>1. f \in [0..n -> 0..amount]
    BY <1>4
  <2>2. IsRemaining(f, amount, c, n)
    BY <1>4 DEF IsRemaining
  <2>3. QED
    BY <1>3, <2>1, <2>2
<1>5. CASE n # 0
  <2>1. n - 1 \in 0..last /\ ~(n <= n - 1)
    BY <1>3, <1>5
  <2>2. Has(n - 1)
    <3> HIDE DEF Has
    <3> QED
      BY <1>2, <2>1
  <2>3. PICK g \in [0..(n - 1) -> 0..amount] : IsRemaining(g, amount, c, n - 1)
    BY <2>2
  <2> DEFINE x == g[n - 1] - Lesser(g[n - 1], c[n])
             f == [m \in 0..n |-> IF m = n THEN x ELSE g[m]]
  <2>4. x \in 0..amount
    BY <1>3, <1>5, <2>3 DEF Lesser
  <2>5. f \in [0..n -> 0..amount]
    BY <1>3, <2>3, <2>4
  <2>6. \A m \in 0..(n - 1) :
           g[m] = IF m = 0 THEN amount ELSE g[m - 1] - Lesser(g[m - 1], c[m])
    BY <2>3 DEF IsRemaining
  <2>7. \A m \in 0..(n - 1) : f[m] = g[m]
    BY <1>3
  <2>8. f[n] = x /\ n # 0
    BY <1>3, <1>5
  <2>9. \A m \in 0..n :
           f[m] = IF m = 0 THEN amount ELSE f[m - 1] - Lesser(f[m - 1], c[m])
    <3> SUFFICES ASSUME NEW m \in 0..n
                 PROVE  f[m] = IF m = 0 THEN amount
                               ELSE f[m - 1] - Lesser(f[m - 1], c[m])
      OBVIOUS
    <3>1. CASE m = n
      <4>1. n - 1 \in 0..(n - 1)
        BY <1>3, <1>5
      <4>2. f[n - 1] = g[n - 1]
        BY <2>7, <4>1
      <4> HIDE DEF f
      <4>3. QED
        BY <2>8, <3>1, <4>2
    <3>2. CASE m # n
      <4>1. m \in 0..(n - 1) /\ (m # 0 => m - 1 \in 0..(n - 1))
        BY <1>3, <3>2
      <4> HIDE DEF f
      <4>2. QED
        BY <2>6, <2>7, <4>1
    <3>3. QED
      BY <3>1, <3>2
  <2>10. f = [m \in 0..n |-> f[m]]
    OBVIOUS
  <2>11. IsRemaining(f, amount, c, n)
    <3> HIDE DEF f
    <3> QED
      BY <2>9, <2>10 DEF IsRemaining
  <2>12. QED
    BY <1>3, <2>5, <2>11
<1>6. QED
  BY <1>4, <1>5

\* The money left after each month: it starts at the amount, and each month
\* takes what it can hold of what the month before left.
IsWaterfall(left, amount, c, last) ==
    /\ left \in [0..last -> 0..amount]
    /\ left[0] = amount
    /\ \A m \in 1..last : left[m] = left[m - 1] - Lesser(left[m - 1], c[m])

\* Whatever satisfies the definition of Remaining is typed, month by month.
LEMMA RemainingTyped ==
  ASSUME NEW amount \in Nat, NEW last \in Nat, NEW c \in [1..last -> Nat],
         NEW left, IsRemaining(left, amount, c, last)
  PROVE  IsWaterfall(left, amount, c, last)
<1>1. left[0] = amount
  BY DEF IsRemaining
<1>2. \A m \in 1..last : left[m] = left[m - 1] - Lesser(left[m - 1], c[m])
  BY DEF IsRemaining
<1>3. left = [m \in 0..last |-> left[m]]
  BY Zenon DEF IsRemaining
<1> DEFINE T == {n \in 0..last : left[n] \notin 0..amount}
<1>4. T = {}
  <2> SUFFICES ASSUME T # {} PROVE FALSE
    OBVIOUS
  <2>1. PICK n \in T : \A y \in T : n <= y
    <3>1. T \subseteq Nat
      OBVIOUS
    <3> HIDE DEF T
    <3> QED
      BY <3>1, LeastElement
  <2>2. n \in 0..last /\ left[n] \notin 0..amount /\ n # 0
    BY <1>1, <2>1
  <2>3. n - 1 \in 0..last /\ ~(n <= n - 1) /\ n \in 1..last
    BY <2>2
  <2>4. left[n - 1] \in 0..amount
    BY <2>1, <2>3
  <2>5. left[n] = left[n - 1] - Lesser(left[n - 1], c[n]) /\ c[n] \in Nat
    BY <1>2, <2>3
  <2>6. left[n] \in 0..amount
    BY <2>4, <2>5 DEF Lesser
  <2>7. QED
    BY <2>2, <2>6
<1>5. left \in [0..last -> 0..amount]
  BY <1>3, <1>4
<1>6. QED
  BY <1>1, <1>2, <1>5 DEF IsWaterfall

\* So is the function Remaining defines.
LEMMA RemainingIsWaterfall ==
  ASSUME NEW amount \in Nat, NEW last \in Nat, NEW c \in [1..last -> Nat]
  PROVE  IsWaterfall(Remaining(amount, c, last), amount, c, last)
<1>1. Remaining(amount, c, last) = CHOOSE f : IsRemaining(f, amount, c, last)
  BY DEF Remaining, IsRemaining
<1>2. \E f : IsRemaining(f, amount, c, last)
  BY RemainingExists
<1>3. IsRemaining(CHOOSE f : IsRemaining(f, amount, c, last), amount, c, last)
  BY <1>2
<1>4. IsRemaining(Remaining(amount, c, last), amount, c, last)
  BY <1>1, <1>3
<1>5. QED
  BY <1>4, RemainingTyped

\* Once the money has run out it stays out.
LEMMA StaysZero ==
  ASSUME NEW amount \in Nat, NEW last \in Nat, NEW c \in [1..last -> Nat],
         NEW left, IsWaterfall(left, amount, c, last),
         NEW k \in 0..last, left[k] = 0, NEW m \in 0..last, k <= m
  PROVE  left[m] = 0
<1> DEFINE T == {n \in 0..last : k <= n /\ left[n] # 0}
<1> SUFFICES ASSUME T # {} PROVE FALSE
  OBVIOUS
<1>1. PICK n \in T : \A y \in T : n <= y
  <2>1. T \subseteq Nat
    OBVIOUS
  <2> HIDE DEF T
  <2> QED
    BY <2>1, LeastElement
<1>2. n \in 1..last /\ k <= n - 1 /\ n - 1 \in 0..last /\ ~(n <= n - 1)
  BY <1>1
<1>3. left[n - 1] = 0
  BY <1>1, <1>2
<1>4. left[n] = left[n - 1] - Lesser(left[n - 1], c[n]) /\ c[n] \in Nat
  BY <1>2 DEF IsWaterfall
<1>5. left[n] # 0
  BY <1>1
<1>6. QED
  BY <1>3, <1>4, <1>5 DEF Lesser

\* What a month takes fits into it, and a month is reached only when every
\* older one took all it could.
LEMMA WaterfallOldestFirst ==
  ASSUME NEW amount \in Nat, NEW last \in Nat, NEW c \in [1..last -> Nat],
         NEW left, IsWaterfall(left, amount, c, last),
         NEW m \in 1..last
  PROVE  /\ left[m - 1] - left[m] \in 0..c[m]
         /\ left[m - 1] - left[m] > 0 =>
                \A k \in 1..(m - 1) : left[k - 1] - left[k] = c[k]
<1>1. \A n \in 1..last :
         /\ left[n] = left[n - 1] - Lesser(left[n - 1], c[n])
         /\ left[n] \in Nat /\ left[n - 1] \in Nat /\ c[n] \in Nat
  <2> TAKE n \in 1..last
  <2>1. n - 1 \in 0..last /\ n \in 0..last
    OBVIOUS
  <2>2. QED
    BY <2>1 DEF IsWaterfall
<1>2. left[m - 1] - left[m] \in 0..c[m]
  BY <1>1 DEF Lesser
<1>3. ASSUME left[m - 1] - left[m] > 0, NEW k \in 1..(m - 1)
      PROVE  left[k - 1] - left[k] = c[k]
  <2>1. left[m - 1] # 0
    BY <1>1, <1>3 DEF Lesser
  <2>2. k \in 1..last /\ k \in 0..last /\ m - 1 \in 0..last /\ k <= m - 1
    OBVIOUS
  <2>3. left[k] # 0
    BY <2>1, <2>2, StaysZero
  <2>4. /\ left[k] = left[k - 1] - Lesser(left[k - 1], c[k])
        /\ left[k] \in Nat /\ left[k - 1] \in Nat /\ c[k] \in Nat
    BY <1>1, <2>2
  <2>5. QED
    BY <2>3, <2>4 DEF Lesser
<1>4. QED
  BY <1>2, <1>3

\* So what each month takes, as a function, fills the oldest months first.
LEMMA WaterfallFills ==
  ASSUME NEW amount \in Nat, NEW last \in Nat, NEW c \in [1..last -> Nat],
         NEW left, IsWaterfall(left, amount, c, last),
         NEW plan, \A m \in 1..last : plan[m] = left[m - 1] - left[m]
  PROVE  FillsOldestFirst(plan, c, last)
<1> SUFFICES ASSUME NEW m \in 1..last
             PROVE  /\ plan[m] \in 0..c[m]
                    /\ plan[m] > 0 => \A k \in 1..(m - 1) : plan[k] = c[k]
  BY DEF FillsOldestFirst
<1>1. plan[m] = left[m - 1] - left[m]
  OBVIOUS
<1>2. plan[m] \in 0..c[m]
  <2>1. left[m - 1] - left[m] \in 0..c[m]
    BY WaterfallOldestFirst
  <2>2. QED
    BY <1>1, <2>1, Zenon
<1>3. ASSUME plan[m] > 0, NEW k \in 1..(m - 1)
      PROVE  plan[k] = c[k]
  <2>1. k \in 1..last
    OBVIOUS
  <2>2. plan[k] = left[k - 1] - left[k]
    BY <2>1
  <2>3. left[m - 1] - left[m] > 0
    BY <1>1, <1>3
  <2>4. \A j \in 1..(m - 1) : left[j - 1] - left[j] = c[j]
    BY <2>3, WaterfallOldestFirst
  <2>5. QED
    BY <2>2, <2>4
<1>4. QED
  BY <1>2, <1>3

-----------------------------------------------------------------------------
(* What a plan adds up to                                                   *)

\* As many cents as an amount, all with one tag.
LEMMA TaggedCents ==
  ASSUME NEW r, NEW n \in Nat
  PROVE  IsFiniteSet({r} \X (1..n)) /\ Cardinality({r} \X (1..n)) = n
<1>1. IsFiniteSet({r}) /\ Cardinality({r}) = 1
  BY FS_Singleton
<1>2. IsFiniteSet(1..n) /\ Cardinality(1..n) = n
  BY FS_Interval
<1>3. /\ IsFiniteSet({r} \X (1..n))
      /\ Cardinality({r} \X (1..n)) = Cardinality({r}) * Cardinality(1..n)
  BY <1>1, <1>2, FS_Product
<1>4. QED
  BY <1>1, <1>2, <1>3

\* The cents of the months up to n are those of the months before it and its own.
LEMMA CentsUpTo ==
  ASSUME NEW plan, NEW n \in Nat, n # 0
  PROVE  PlanCents(plan, n) = PlanCents(plan, n - 1) \cup ({n} \X (1..plan[n]))
<1>1. 1..n = (1..(n - 1)) \cup {n}
  OBVIOUS
<1>2. QED
  BY <1>1 DEF PlanCents

\* Months that each take what one month has more left than the next take, together,
\* what the first has more than the last.
LEMMA TotalTelescopes ==
  ASSUME NEW last \in Nat, NEW plan, NEW left \in [0..last -> Nat],
         \A m \in 1..last : plan[m] = left[m - 1] - left[m] /\ plan[m] \in Nat
  PROVE  /\ IsFiniteSet(PlanCents(plan, last))
         /\ PlanTotal(plan, last) = left[0] - left[last]
<1> DEFINE Right(n) == /\ IsFiniteSet(PlanCents(plan, n))
                       /\ Cardinality(PlanCents(plan, n)) = left[0] - left[n]
           T == {n \in 0..last : ~Right(n)}
<1>1. T = {}
  <2> SUFFICES ASSUME T # {} PROVE FALSE
    OBVIOUS
  <2>1. PICK n \in T : \A y \in T : n <= y
    <3>1. T \subseteq Nat
      OBVIOUS
    <3> HIDE DEF T
    <3> QED
      BY <3>1, LeastElement
  <2>2. n \in 0..last /\ ~Right(n)
    BY <2>1
  <2>3. CASE n = 0
    <3>1. PlanCents(plan, 0) = {} /\ left[0] \in Nat
      BY DEF PlanCents
    <3>2. IsFiniteSet(PlanCents(plan, 0)) /\ Cardinality(PlanCents(plan, 0)) = 0
      BY <3>1, FS_EmptySet, Zenon
    <3>3. QED
      BY <2>2, <2>3, <3>1, <3>2
  <2>4. CASE n # 0
    <3>1. n \in 1..last /\ n \in Nat /\ n - 1 \in 0..last /\ ~(n <= n - 1)
      BY <2>2, <2>4
    <3>2. Right(n - 1)
      <4> HIDE DEF Right
      <4> QED
        BY <2>1, <3>1
    <3> DEFINE before == PlanCents(plan, n - 1)
               own == {n} \X (1..plan[n])
    <3>3. /\ plan[n] = left[n - 1] - left[n] /\ plan[n] \in Nat
          /\ left[0] \in Nat /\ left[n - 1] \in Nat /\ left[n] \in Nat
      BY <2>2, <3>1
    <3>4. IsFiniteSet(own) /\ Cardinality(own) = plan[n]
      BY <3>3, TaggedCents
    <3>5. before \cap own = {}
      BY <3>1 DEF PlanCents
    <3>6. PlanCents(plan, n) = before \cup own
      BY <2>4, <3>1, CentsUpTo
    <3> HIDE DEF before, own
    <3>7. IsFiniteSet(before) /\ Cardinality(before) = left[0] - left[n - 1]
      BY <3>2 DEF before
    <3>8. /\ IsFiniteSet(before \cup own)
          /\ Cardinality(before \cup own)
               = Cardinality(before) + Cardinality(own) - Cardinality(before \cap own)
      BY <3>4, <3>7, FS_Union
    <3>9. Cardinality(before \cap own) = 0
      BY <3>5, FS_EmptySet
    <3>10. Cardinality(before \cup own) = left[0] - left[n]
      BY <3>3, <3>4, <3>7, <3>8, <3>9
    <3>11. QED
      BY <2>2, <3>6, <3>8, <3>10
  <2>5. QED
    BY <2>3, <2>4
<1>2. Right(last)
  <2>1. last \in 0..last
    OBVIOUS
  <2> HIDE DEF Right
  <2>2. QED
    BY <1>1, <2>1
<1>3. QED
  BY <1>2 DEF PlanTotal

\* While money is left, every month has taken all it can hold.
LEMMA MoneyLeftMeansFull ==
  ASSUME NEW amount \in Nat, NEW last \in Nat, NEW c \in [1..last -> Nat],
         NEW left, IsWaterfall(left, amount, c, last), left[last] # 0,
         NEW m \in 1..last
  PROVE  left[m - 1] - left[m] = c[m]
<1>1. m \in 0..last /\ m - 1 \in 0..last /\ last \in 0..last /\ m <= last
  OBVIOUS
<1>2. left[m] # 0
  BY <1>1, StaysZero
<1>3. /\ left[m] = left[m - 1] - Lesser(left[m - 1], c[m])
      /\ left[m] \in Nat /\ left[m - 1] \in Nat /\ c[m] \in Nat
  BY <1>1 DEF IsWaterfall
<1>4. QED
  BY <1>2, <1>3 DEF Lesser

\* A plan enters no more than the payment, and less only when nothing more fits.
Spends(plan, capacity, amount, last) ==
    /\ PlanTotal(plan, last) \in 0..amount
    /\ PlanTotal(plan, last) # amount => \A m \in 1..last : plan[m] = capacity[m]

\* What the months take, as a function, spends the payment.
LEMMA WaterfallSpends ==
  ASSUME NEW amount \in Nat, NEW last \in Nat, NEW c \in [1..last -> Nat],
         NEW left, IsWaterfall(left, amount, c, last),
         NEW plan, \A m \in 1..last : plan[m] = left[m - 1] - left[m]
  PROVE  Spends(plan, c, amount, last)
<1>1. left \in [0..last -> Nat] /\ left[0] = amount /\ left[last] \in 0..amount
  BY DEF IsWaterfall
<1>2. \A m \in 1..last : plan[m] \in Nat
  <2> TAKE m \in 1..last
  <2>1. left[m - 1] - left[m] \in 0..c[m] /\ c[m] \in Nat
    BY WaterfallOldestFirst
  <2>2. QED
    BY <2>1
<1>3. PlanTotal(plan, last) = amount - left[last]
  BY <1>1, <1>2, TotalTelescopes
<1>4. ASSUME left[last] # 0, NEW m \in 1..last
      PROVE  plan[m] = c[m]
  <2>1. left[m - 1] - left[m] = c[m]
    BY <1>4, MoneyLeftMeansFull
  <2>2. QED
    BY <2>1
<1>5. PlanTotal(plan, last) \in 0..amount
  BY <1>1, <1>3
<1>6. PlanTotal(plan, last) # amount => left[last] # 0
  BY <1>1, <1>3
<1>7. QED
  BY <1>4, <1>5, <1>6 DEF Spends

-----------------------------------------------------------------------------
(* planAllocation                                                           *)

\* Every month has a natural capacity.
LEMMA CapacityType ==
  ASSUME NEW last \in Nat, NEW rows \in SUBSET (1..last), rows # {},
         NEW due \in [1..last -> Nat], NEW allocated \in [1..last -> Nat],
         NEW horizon \in Nat
  PROVE  Capacity(rows, due, allocated, horizon, last) \in [1..last -> Nat]
<1>1. LastKnown(rows) \in 1..last
  BY LastKnownIsLast
<1>2. QED
  BY <1>1 DEF Capacity, Greater

\* The plan of a payment gives each month a natural amount.
THEOREM PlanType ==
  ASSUME NEW amount \in Nat, NEW last \in Nat, NEW rows \in SUBSET (1..last),
         NEW due \in [1..last -> Nat], NEW allocated \in [1..last -> Nat],
         NEW horizon \in Nat
  PROVE  PlanAllocation(amount, rows, due, allocated, horizon, last)
            \in [1..last -> Nat]
<1>1. CASE rows = {}
  BY <1>1 DEF PlanAllocation
<1>2. CASE rows # {}
  <2> DEFINE c == Capacity(rows, due, allocated, horizon, last)
             left == Remaining(amount, c, last)
  <2>1. c \in [1..last -> Nat]
    BY <1>2, CapacityType
  <2>2. PlanAllocation(amount, rows, due, allocated, horizon, last)
           = [m \in 1..last |-> left[m - 1] - left[m]]
    BY <1>2 DEF PlanAllocation
  <2> HIDE DEF c
  <2>3. \A m \in 1..last : left[m - 1] - left[m] \in 0..c[m]
    BY <2>1, RemainingIsWaterfall, WaterfallOldestFirst
  <2>4. QED
    BY <2>1, <2>2, <2>3
<1>3. QED
  BY <1>1, <1>2

\* "Always fill the oldest not-fully-allocated period": no month is given more
\* than it can hold, and one is given money only when every older month is
\* given all that was open.  It is pass 1 and pass 2 of planAllocation together.
THEOREM PlanOldestFirst ==
  ASSUME NEW amount \in Nat, NEW last \in Nat, NEW rows \in SUBSET (1..last),
         rows # {},
         NEW due \in [1..last -> Nat], NEW allocated \in [1..last -> Nat],
         NEW horizon \in Nat,
         NEW c, c = Capacity(rows, due, allocated, horizon, last),
         NEW plan, plan = PlanAllocation(amount, rows, due, allocated, horizon, last)
  PROVE  FillsOldestFirst(plan, c, last)
<1>1. c \in [1..last -> Nat]
  BY CapacityType
<1>2. IsWaterfall(Remaining(amount, c, last), amount, c, last)
  BY <1>1, RemainingIsWaterfall
<1>3. \A m \in 1..last :
         plan[m] = Remaining(amount, c, last)[m - 1] - Remaining(amount, c, last)[m]
  BY DEF PlanAllocation
<1> DEFINE left == Remaining(amount, c, last)
<1> HIDE DEF left
<1>4. QED
  BY <1>1, <1>2, <1>3, WaterfallFills DEF left

\* No cent appears or disappears in a plan: it enters no more than the payment,
\* and less only when every month within the horizon is full.  It is what
\* planAllocation calls remaining, and its horizon_exceeded warning.
THEOREM PlanSpendsThePayment ==
  ASSUME NEW amount \in Nat, NEW last \in Nat, NEW rows \in SUBSET (1..last),
         rows # {},
         NEW due \in [1..last -> Nat], NEW allocated \in [1..last -> Nat],
         NEW horizon \in Nat,
         NEW c, c = Capacity(rows, due, allocated, horizon, last),
         NEW plan, plan = PlanAllocation(amount, rows, due, allocated, horizon, last)
  PROVE  Spends(plan, c, amount, last)
<1>1. c \in [1..last -> Nat]
  BY CapacityType
<1>2. IsWaterfall(Remaining(amount, c, last), amount, c, last)
  BY <1>1, RemainingIsWaterfall
<1>3. \A m \in 1..last :
         plan[m] = Remaining(amount, c, last)[m - 1] - Remaining(amount, c, last)[m]
  BY DEF PlanAllocation
<1> DEFINE left == Remaining(amount, c, last)
<1> HIDE DEF left
<1>4. QED
  BY <1>1, <1>2, <1>3, WaterfallSpends DEF left

\* A month whose row is full is given nothing.
COROLLARY FullMonthGetsNothing ==
  ASSUME NEW amount \in Nat, NEW last \in Nat, NEW rows \in SUBSET (1..last),
         NEW due \in [1..last -> Nat], NEW allocated \in [1..last -> Nat],
         NEW horizon \in Nat,
         NEW m \in rows, allocated[m] >= due[m]
  PROVE  PlanAllocation(amount, rows, due, allocated, horizon, last)[m] = 0
<1> DEFINE c == Capacity(rows, due, allocated, horizon, last)
           plan == PlanAllocation(amount, rows, due, allocated, horizon, last)
<1>1. FillsOldestFirst(plan, c, last)
  BY PlanOldestFirst
<1>2. m \in 1..last /\ due[m] \in Nat /\ allocated[m] \in Nat
  OBVIOUS
<1>3. c[m] = Greater(due[m] - allocated[m], 0)
  BY DEF Capacity
<1>4. c[m] = 0
  BY <1>2, <1>3 DEF Greater
<1>5. plan[m] \in 0..c[m]
  BY <1>1, <1>2 DEF FillsOldestFirst
<1> HIDE DEF plan, c
<1>6. plan[m] = 0
  BY <1>4, <1>5
<1>7. QED
  BY <1>6 DEF plan
=============================================================================
