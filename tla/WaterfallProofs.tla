-------------------------- MODULE WaterfallProofs --------------------------
(***************************************************************************)
(* The loops of planAllocation compute the closed form of AllocationEngine, *)
(* for every payment, every set of months and every horizon.                *)
(*                                                                         *)
(* Whatever loop runs, some month t has been reached: the months up to t    *)
(* hold what the closed form gives them, the later ones hold nothing, and   *)
(* what remains is what the closed form leaves after t.                     *)
(***************************************************************************)
EXTENDS Waterfall, AllocationEngineProofs

Top  == LastKnown(input.rows)
Left == Remaining(input.amount, InputCapacity, LastMonth)

InputOK ==
    /\ input.amount \in Nat /\ input.horizon \in Horizons
    /\ input.rows \in SUBSET (1..LastRow)
    /\ input.due \in [Months -> Nat] /\ input.allocated \in [Months -> Nat]

Reached(t) ==
    /\ remaining = Left[t]
    /\ \A m \in Months : poured[m] = IF m <= t THEN Left[m - 1] - Left[m] ELSE 0

KindsRight ==
    \A m \in Months : poured[m] > 0 => kind[m] = EntryType(poured, InputCapacity, m)

Planned == PlanAllocation(input.amount, input.rows, input.due, input.allocated,
                          input.horizon, LastMonth)

\* Pass 1 has gone through the periods up to t.
ReachedInKnown ==
    \E t \in 0..Top : visited = {m \in input.rows : m <= t} /\ Reached(t)

\* Pass 2 has created the months up to t.
ReachedInFuture ==
    \E t \in Top..(Top + input.horizon) :
        visited = input.rows \cup ((Top + 1)..t) /\ Reached(t)

IInv ==
    /\ InputOK
    /\ loop \in {"known", "future", "done"}
    /\ poured \in [Months -> Nat] /\ DOMAIN kind = Months
    /\ KindsRight
    /\ Refused => loop # "future" /\ poured = NoEntries /\ remaining = input.amount
    /\ ~Refused =>
          /\ loop = "known" => ReachedInKnown
          /\ loop = "future" => ReachedInFuture
          /\ loop = "done" => poured = Planned /\ remaining = Left[LastMonth]

-----------------------------------------------------------------------------
(* The closed form                                                          *)

LEMMA InputBounds ==
  ASSUME InputOK
  PROVE  input.rows \in SUBSET Months /\ LastMonth \in Nat /\ input.horizon \in Nat
<1>1. /\ input.horizon \in Nat /\ LastRow + input.horizon <= LastMonth
      /\ LastMonth \in Nat /\ LastRow \in Nat
  BY InputAssumption DEF InputOK
<1>2. 1..LastRow \subseteq 1..LastMonth
  BY <1>1
<1>3. input.rows \subseteq 1..LastRow
  BY DEF InputOK
<1>4. QED
  BY <1>1, <1>2, <1>3 DEF Months

LEMMA TopBounds ==
  ASSUME InputOK, ~Refused
  PROVE  /\ Top \in input.rows /\ \A k \in input.rows : k <= Top
         /\ Top \in 1..LastRow
         /\ input.horizon \in Nat /\ Top + input.horizon <= LastMonth
         /\ input.rows \in SUBSET Months /\ LastMonth \in Nat
<1>1. input.rows \in SUBSET (1..LastRow) /\ input.rows # {} /\ LastRow \in Nat
  BY InputAssumption DEF InputOK, Refused
<1>2. Top \in input.rows /\ \A k \in input.rows : k <= Top
  BY <1>1, LastKnownIsLast DEF Top
<1>3. /\ input.horizon \in Nat /\ LastRow + input.horizon <= LastMonth
      /\ LastMonth \in Nat
  BY InputAssumption DEF InputOK
<1>4. QED
  BY <1>1, <1>2, <1>3 DEF Months

LEMMA CapacityOfMonth ==
  ASSUME InputOK, ~Refused, NEW m \in Months
  PROVE  InputCapacity[m] =
             IF m \in input.rows THEN Greater(input.due[m] - input.allocated[m], 0)
             ELSE IF Top < m /\ m <= Top + input.horizon THEN FutureDue ELSE 0
BY DEF InputCapacity, Capacity, Top, FutureDue, Refused, Months

LEMMA LeftIsWaterfall ==
  ASSUME InputOK, ~Refused
  PROVE  /\ input.amount \in Nat /\ LastMonth \in Nat
         /\ InputCapacity \in [1..LastMonth -> Nat]
         /\ IsWaterfall(Left, input.amount, InputCapacity, LastMonth)
<1>1. input.horizon \in Nat /\ input.rows \in SUBSET Months /\ LastMonth \in Nat
  BY TopBounds
<1>2. InputCapacity \in [1..LastMonth -> Nat]
  BY <1>1, CapacityType DEF InputCapacity, InputOK, Refused, Months
<1>3. input.amount \in Nat
  BY DEF InputOK
<1>4. QED
  BY <1>1, <1>2, <1>3, RemainingIsWaterfall DEF Left

LEMMA PlannedIs ==
  ASSUME InputOK, ~Refused
  PROVE  Planned = [m \in Months |-> Left[m - 1] - Left[m]]
BY DEF Planned, PlanAllocation, Left, InputCapacity, Refused, Months

\* Months that can hold nothing leave what remains as it was.
LEMMA FlatOverGap ==
  ASSUME NEW amount \in Nat, NEW last \in Nat, NEW c \in [1..last -> Nat],
         NEW left, IsWaterfall(left, amount, c, last),
         NEW k \in 0..last, NEW n \in 0..last, k <= n,
         \A m \in (k + 1)..n : c[m] = 0
  PROVE  left[n] = left[k]
<1> DEFINE T == {m \in k..n : left[m] # left[k]}
<1> SUFFICES ASSUME T # {} PROVE FALSE
  OBVIOUS
<1>1. PICK m \in T : \A y \in T : m <= y
  <2>1. T \subseteq Nat
    OBVIOUS
  <2> HIDE DEF T
  <2> QED
    BY <2>1, LeastElement
<1>2. m \in (k + 1)..n /\ m \in 1..last /\ m - 1 \in k..n /\ ~(m <= m - 1)
  BY <1>1
<1>3. left[m - 1] = left[k]
  BY <1>1, <1>2
<1>4. left[m] = left[m - 1] - Lesser(left[m - 1], c[m]) /\ c[m] = 0
  BY <1>2 DEF IsWaterfall
<1>5. left[k] \in Nat
  BY DEF IsWaterfall
<1>6. left[m] # left[k]
  BY <1>1
<1>7. QED
  BY <1>3, <1>4, <1>5, <1>6 DEF Lesser

\* What is left after a month is a natural number, and a month takes the lesser
\* of what is left and what it can hold.
LEMMA LeftStep ==
  ASSUME InputOK, ~Refused
  PROVE  /\ \A t \in 0..LastMonth : Left[t] \in Nat
         /\ \A m \in Months : /\ Left[m] = Left[m - 1] - Lesser(Left[m - 1], InputCapacity[m])
                              /\ InputCapacity[m] \in Nat /\ m - 1 \in 0..LastMonth
<1>1. LastMonth \in Nat
  BY TopBounds
<1>2. Left \in [0..LastMonth -> 0..input.amount]
  BY LeftIsWaterfall DEF IsWaterfall
<1>3. \A m \in Months : Left[m] = Left[m - 1] - Lesser(Left[m - 1], InputCapacity[m])
  BY LeftIsWaterfall DEF IsWaterfall, Months
<1>4. \A t \in 0..LastMonth : Left[t] \in Nat
  BY <1>2, LeftIsWaterfall
<1>5. \A m \in Months : InputCapacity[m] \in Nat /\ m - 1 \in 0..LastMonth
  BY <1>1, LeftIsWaterfall DEF Months
<1>6. QED
  BY <1>3, <1>4, <1>5

\* When the months after the one reached get nothing, all of the plan is poured.
LEMMA PlanComplete ==
  ASSUME InputOK, ~Refused, poured \in [Months -> Nat],
         NEW t \in 0..LastMonth, Reached(t),
         \/ Left[t] = 0
         \/ \A m \in (t + 1)..LastMonth : InputCapacity[m] = 0
  PROVE  poured = Planned /\ remaining = Left[LastMonth]
<1>1. LastMonth \in Nat
  BY TopBounds
<1>2. ASSUME NEW m \in Months, m > t  PROVE Left[m - 1] - Left[m] = 0
  <2>1. m - 1 \in 0..LastMonth /\ t <= m - 1 /\ m \in (t + 1)..LastMonth
    BY <1>1, <1>2 DEF Months
  <2>2. CASE Left[t] = 0
    <3>1. m \in 0..LastMonth /\ t <= m
      BY <1>1, <1>2 DEF Months
    <3>2. Left[m - 1] = 0
      BY <2>1, <2>2, LeftIsWaterfall, StaysZero
    <3>3. Left[m] = 0
      BY <2>2, <3>1, LeftIsWaterfall, StaysZero
    <3>4. QED
      BY <3>2, <3>3
  <2>3. CASE InputCapacity[m] = 0
    BY <2>1, <2>3, LeftStep DEF Lesser
  <2>4. QED
    BY <2>1, <2>2, <2>3
<1>3. \A m \in Months : poured[m] = Left[m - 1] - Left[m]
  BY <1>1, <1>2 DEF Reached, Months
<1>4. Left[LastMonth] = Left[t]
  <2>1. t \in 0..LastMonth /\ LastMonth \in 0..LastMonth /\ t <= LastMonth
    BY <1>1
  <2>2. CASE Left[t] = 0
    BY <2>1, <2>2, LeftIsWaterfall, StaysZero
  <2>3. CASE \A m \in (t + 1)..LastMonth : InputCapacity[m] = 0
    BY <2>1, <2>3, LeftIsWaterfall, FlatOverGap
  <2>4. QED
    BY <2>2, <2>3
<1>5. QED
  BY <1>3, <1>4, PlannedIs DEF Reached

-----------------------------------------------------------------------------
(* The steps                                                                *)

\* An iteration that takes money for the month after the one reached.
LEMMA PushStep ==
  ASSUME InputOK, ~Refused, poured \in [Months -> Nat], DOMAIN kind = Months,
         KindsRight, NEW m \in Months, Reached(m - 1),
         InputCapacity[m] = Open(m), Push(m), input' = input
  PROVE  /\ poured' \in [Months -> Nat] /\ DOMAIN kind' = Months
         /\ KindsRight' /\ Reached(m)'
<1>1. /\ LastMonth \in Nat /\ m - 1 \in 0..LastMonth /\ InputCapacity[m] \in Nat
      /\ Left[m] = Left[m - 1] - Lesser(Left[m - 1], InputCapacity[m])
      /\ Left[m - 1] \in Nat /\ Left[m] \in Nat
  BY TopBounds, LeftStep DEF Months
<1>2. Take(m) = Left[m - 1] - Left[m] /\ Take(m) \in Nat
  BY <1>1 DEF Take, Lesser, Reached
<1>3. /\ poured' = [poured EXCEPT ![m] = Take(m)]
      /\ kind' = [kind EXCEPT ![m] = Kind(m)]
      /\ remaining' = remaining - Take(m)
  BY DEF Push
<1>4. poured' \in [Months -> Nat] /\ DOMAIN kind' = Months
  BY <1>2, <1>3
<1>5. Left' = Left /\ InputCapacity' = InputCapacity
  BY DEF Left, InputCapacity
<1>6. Reached(m)'
  <2>1. remaining' = Left[m]
    BY <1>1, <1>2, <1>3 DEF Reached
  <2>2. ASSUME NEW k \in Months
        PROVE  poured'[k] = IF k <= m THEN Left[k - 1] - Left[k] ELSE 0
    <3>1. poured[k] = IF k <= m - 1 THEN Left[k - 1] - Left[k] ELSE 0
      BY DEF Reached
    <3>2. QED
      BY <1>1, <1>2, <1>3, <3>1 DEF Months
  <2>3. QED
    BY <1>5, <2>1, <2>2 DEF Reached
<1>7. KindsRight'
  <2>1. First <=> ~\E k \in 1..(m - 1) : poured[k] > 0
    <3>1. \A k \in Months : k >= m => poured[k] = 0
      BY <1>1 DEF Reached, Months
    <3>2. First <=> \A k \in Months : poured[k] = 0
      BY DEF First, NoEntries
    <3>3. QED
      BY <1>1, <3>1, <3>2 DEF Months
  <2>2. ASSUME NEW k \in 1..(m - 1)  PROVE k \in Months /\ poured'[k] = poured[k]
    BY <1>1, <1>3 DEF Months
  <2>3. kind'[m] = EntryType(poured', InputCapacity, m)
    <3>1. kind'[m] = Kind(m) /\ poured'[m] = Take(m)
      BY <1>3
    <3>2. QED
      BY <2>1, <2>2, <3>1 DEF EntryType, Kind
  <2>4. ASSUME NEW k \in Months, k # m, poured'[k] > 0
        PROVE  kind'[k] = EntryType(poured', InputCapacity, k)
    <3>1. poured'[k] = poured[k] /\ kind'[k] = kind[k]
      BY <1>3, <2>4
    <3>2. k <= m - 1
      BY <1>1, <2>4, <3>1 DEF Reached, Months
    <3>3. \A j \in 1..(k - 1) : poured'[j] = poured[j]
      BY <1>1, <2>2, <3>2 DEF Months
    <3>4. kind[k] = EntryType(poured, InputCapacity, k)
      BY <2>4, <3>1 DEF KindsRight
    <3>5. QED
      BY <3>1, <3>3, <3>4 DEF EntryType
  <2>5. QED
    BY <1>5, <2>3, <2>4 DEF KindsRight
<1>8. QED
  BY <1>4, <1>6, <1>7

LEMMA NextPeriodIsOldest ==
  ASSUME NEW T, T \subseteq Nat, T # {}
  PROVE  NextPeriod(T) \in T /\ \A k \in T : NextPeriod(T) <= k
<1>1. \E m \in T : \A k \in T : m <= k
  BY LeastElement
<1>2. QED
  BY <1>1 DEF NextPeriod

\* The months between two periods hold nothing, so an iteration of pass 1 finds
\* what the closed form leaves it.
LEMMA GapBeforePeriod ==
  ASSUME InputOK, ~Refused, NEW t \in 0..Top, Reached(t),
         NEW m \in input.rows, t < m,
         \A k \in input.rows : k <= t \/ m <= k
  PROVE  Reached(m - 1)
<1>1. /\ LastMonth \in Nat /\ m \in Months /\ m <= Top /\ Top \in Nat /\ t \in Nat
      /\ Top <= LastMonth
  BY TopBounds DEF Months
<1>2. \A k \in (t + 1)..(m - 1) : InputCapacity[k] = 0
  BY <1>1, CapacityOfMonth DEF Months
<1>3. \A k \in t..(m - 1) : Left[k] = Left[t]
  <2>1. ASSUME NEW n \in t..(m - 1)  PROVE Left[n] = Left[t]
    <3>1. t \in 0..LastMonth /\ n \in 0..LastMonth /\ t <= n
      BY <1>1 DEF Months
    <3>2. \A k \in (t + 1)..n : InputCapacity[k] = 0
      BY <1>1, <1>2 DEF Months
    <3>3. QED
      BY <3>1, <3>2, LeftIsWaterfall, FlatOverGap
  <2>2. QED
    BY <2>1
<1>4. ASSUME NEW k \in Months
      PROVE  poured[k] = IF k <= m - 1 THEN Left[k - 1] - Left[k] ELSE 0
  <2>1. poured[k] = IF k <= t THEN Left[k - 1] - Left[k] ELSE 0
    BY DEF Reached
  <2>2. CASE k > t /\ k <= m - 1
    <3>1. Left[k - 1] = Left[t] /\ Left[k] = Left[t] /\ Left[t] \in Nat
      BY <1>1, <1>3, <2>2, LeftStep DEF Months
    <3>2. QED
      BY <1>1, <2>1, <2>2, <3>1 DEF Months
  <2>3. CASE k <= t \/ k > m - 1
    BY <1>1, <2>1, <2>3 DEF Months
  <2>4. QED
    BY <1>1, <2>2, <2>3 DEF Months
<1>5. Left[m - 1] = Left[t]
  BY <1>1, <1>3 DEF Months
<1>6. QED
  BY <1>4, <1>5 DEF Reached

LEMMA KnownPeriodStep ==
  ASSUME IInv, KnownPeriod
  PROVE  IInv'
<1>1. /\ InputOK /\ ~Refused /\ loop = "known" /\ ReachedInKnown
      /\ poured \in [Months -> Nat] /\ DOMAIN kind = Months /\ KindsRight
      /\ UNCHANGED <<input, loop>> /\ remaining > 0
  BY DEF IInv, KnownPeriod, Refused
<1>2. PICK t \in 0..Top : visited = {k \in input.rows : k <= t} /\ Reached(t)
  BY <1>1 DEF ReachedInKnown
<1>3. PICK m \in input.rows \ visited :
          /\ m = NextPeriod(input.rows \ visited)
          /\ \A k \in input.rows \ visited : m <= k
  <2>1. input.rows \ visited \subseteq Nat /\ input.rows \ visited # {}
    BY <1>1, TopBounds DEF KnownPeriod, Months
  <2>2. QED
    BY <2>1, NextPeriodIsOldest
<1>4. m \in Months /\ m \in 0..Top /\ Top \in Nat /\ m \in Nat
  BY <1>1, <1>3, TopBounds DEF Months
<1>5. visited \cup {m} = {k \in input.rows : k <= m}
  <2>1. input.rows \subseteq Nat /\ t \in Nat
    BY <1>1, <1>2, <1>4, TopBounds DEF Months
  <2>2. m > t
    BY <1>2, <1>3, <1>4, <2>1
  <2>3. \A k \in input.rows : k <= m <=> k <= t \/ k = m
    BY <1>2, <1>3, <1>4, <2>1, <2>2
  <2>4. QED
    BY <1>2, <1>3, <2>3
<1>6. CASE Open(m) <= 0
  <2>1. visited' = visited \cup {m} /\ UNCHANGED <<remaining, poured, kind>>
    BY <1>3, <1>6 DEF KnownPeriod
  <2>2. Reached(m - 1)
    BY <1>1, <1>2, <1>3, <1>4, GapBeforePeriod DEF Months
  <2>3. InputCapacity[m] = 0
    BY <1>1, <1>3, <1>4, <1>6, CapacityOfMonth DEF Open, Greater, InputOK
  <2>4. Left[m] = Left[m - 1] /\ Left[m] \in Nat
    BY <1>1, <1>4, <2>3, LeftStep DEF Lesser
  <2>5. Reached(m)
    BY <1>4, <2>2, <2>4 DEF Reached, Months
  <2>6. visited' = {k \in input.rows : k <= m}
    BY <1>5, <2>1
  <2>7. ReachedInKnown'
    BY <1>1, <1>4, <2>1, <2>5, <2>6
    DEF ReachedInKnown, Reached, Left, InputCapacity, Top
  <2>8. QED
    BY <1>1, <2>1, <2>7 DEF IInv, InputOK, KindsRight, InputCapacity, Refused
<1>7. CASE ~(Open(m) <= 0)
  <2>1. Push(m)
    BY <1>3, <1>7 DEF KnownPeriod
  <2>2. Reached(m - 1)
    BY <1>1, <1>2, <1>3, <1>4, GapBeforePeriod DEF Months
  <2>3. InputCapacity[m] = Open(m)
    BY <1>1, <1>3, <1>4, <1>7, CapacityOfMonth DEF Open, Greater, InputOK
  <2>4. visited' = {k \in input.rows : k <= m}
    BY <1>5, <2>1 DEF Push
  <2>5. /\ poured' \in [Months -> Nat] /\ DOMAIN kind' = Months
        /\ KindsRight' /\ Reached(m)'
    BY <1>1, <1>4, <2>1, <2>2, <2>3, PushStep
  <2>6. ReachedInKnown'
    BY <1>1, <1>4, <2>4, <2>5 DEF ReachedInKnown, Reached, Top
  <2>7. QED
    BY <1>1, <2>5, <2>6 DEF IInv, InputOK, Refused
<1>8. QED
  BY <1>6, <1>7

LEMMA EndOfKnownStep ==
  ASSUME IInv, EndOfKnown
  PROVE  IInv'
<1>1. /\ InputOK /\ ~Refused /\ loop = "known" /\ ReachedInKnown
      /\ poured \in [Months -> Nat] /\ DOMAIN kind = Months /\ KindsRight
      /\ UNCHANGED <<input, visited, remaining, poured, kind>>
  BY DEF IInv, EndOfKnown
<1>2. PICK t \in 0..Top : visited = {k \in input.rows : k <= t} /\ Reached(t)
  BY <1>1 DEF ReachedInKnown
<1>3. t \in 0..LastMonth /\ t \in Nat /\ Top \in Nat /\ Top + input.horizon \in Nat
  BY <1>1, TopBounds
<1>4. Left[t] = remaining /\ remaining \in Nat
  BY <1>1, <1>2, <1>3, LeftStep DEF Reached
<1>5. remaining > 0 => t = Top
  BY <1>1, <1>2, <1>3, <1>4, TopBounds DEF EndOfKnown
<1>6. CASE remaining > 0 /\ FutureDue > 0
  <2>1. visited = input.rows \cup ((Top + 1)..Top)
    BY <1>1, <1>2, <1>3, <1>5, <1>6, TopBounds
  <2>2. Top \in Top..(Top + input.horizon)
    BY <1>1, <1>3, TopBounds
  <2>3. ReachedInFuture
    BY <1>2, <1>5, <1>6, <2>1, <2>2 DEF ReachedInFuture
  <2>4. ReachedInFuture' /\ loop' = "future"
    BY <1>1, <1>6, <2>3
    DEF EndOfKnown, ReachedInFuture, Reached, Left, InputCapacity, Top
  <2>5. QED
    BY <1>1, <2>4 DEF IInv, InputOK, KindsRight, InputCapacity, Refused
<1>7. CASE ~(remaining > 0 /\ FutureDue > 0)
  <2>1. FutureDue \in Nat
    BY <1>1, TopBounds DEF FutureDue, InputOK, Top
  <2>2. \/ Left[t] = 0
        \/ \A m \in (t + 1)..LastMonth : InputCapacity[m] = 0
    <3>1. CASE remaining = 0
      BY <1>4, <3>1
    <3>2. CASE remaining > 0
      <4>1. t = Top /\ FutureDue = 0
        BY <1>5, <1>7, <2>1, <3>2
      <4>2. QED
        BY <1>1, <1>3, <4>1, TopBounds, CapacityOfMonth DEF Months
    <3>3. QED
      BY <1>4, <3>1, <3>2
  <2>3. poured = Planned /\ remaining = Left[LastMonth]
    BY <1>1, <1>2, <1>3, <2>2, PlanComplete
  <2>4. poured' = Planned' /\ remaining' = Left'[LastMonth] /\ loop' = "done"
    BY <1>1, <1>7, <2>3 DEF EndOfKnown, Planned, Left, InputCapacity
  <2>5. QED
    BY <1>1, <2>4 DEF IInv, InputOK, KindsRight, InputCapacity, Refused
<1>8. QED
  BY <1>6, <1>7

LEMMA FuturePeriodStep ==
  ASSUME IInv, FuturePeriod
  PROVE  IInv'
<1>1. /\ InputOK /\ ~Refused /\ loop = "future" /\ ReachedInFuture
      /\ poured \in [Months -> Nat] /\ DOMAIN kind = Months /\ KindsRight
      /\ UNCHANGED <<input, loop>>
  BY DEF IInv, FuturePeriod
<1>2. PICK t \in Top..(Top + input.horizon) :
          visited = input.rows \cup ((Top + 1)..t) /\ Reached(t)
  BY <1>1 DEF ReachedInFuture
<1>3. /\ Top \in Nat /\ input.horizon \in Nat /\ t \in Nat /\ LastMonth \in Nat
      /\ Top \in input.rows /\ Top <= t /\ Top \in 1..LastMonth
      /\ \A k \in input.rows : k \in Nat /\ k <= Top
  BY <1>1, <1>2, TopBounds DEF Months
<1>4. LastKnown(visited) = t
  <2>1. t \in visited /\ \A k \in visited : k \in Nat /\ k <= t
    BY <1>2, <1>3
  <2>2. \A x \in visited : (\A k \in visited : k <= x) => x = t
    BY <1>3, <2>1
  <2>3. QED
    BY <2>1, <2>2 DEF LastKnown
<1> DEFINE m == t + 1
<1>5. NextIndex = m /\ m \in Months /\ m <= Top + input.horizon /\ m - 1 = t
  BY <1>3, <1>4 DEF FuturePeriod, NextIndex, InHorizon, Top
<1>6. InputCapacity[m] = Open(m)
  <2>1. m \notin input.rows /\ Top < m
    BY <1>3
  <2>2. QED
    BY <1>1, <1>5, <2>1, CapacityOfMonth DEF Open
<1>7. Push(m)
  BY <1>5 DEF FuturePeriod
<1>8. visited' = input.rows \cup ((Top + 1)..m) /\ m \in Top..(Top + input.horizon)
  BY <1>2, <1>3, <1>5, <1>7 DEF Push
<1> HIDE DEF m
<1>9. /\ poured' \in [Months -> Nat] /\ DOMAIN kind' = Months
      /\ KindsRight' /\ Reached(m)'
  BY <1>1, <1>2, <1>5, <1>6, <1>7, PushStep
<1>10. ReachedInFuture'
  BY <1>1, <1>8, <1>9 DEF ReachedInFuture, Reached, Top
<1>11. QED
  BY <1>1, <1>9, <1>10 DEF IInv, InputOK, Refused

LEMMA EndOfFutureStep ==
  ASSUME IInv, EndOfFuture
  PROVE  IInv'
<1>1. /\ InputOK /\ ~Refused /\ loop = "future" /\ ReachedInFuture
      /\ poured \in [Months -> Nat] /\ DOMAIN kind = Months /\ KindsRight
      /\ UNCHANGED <<input, visited, remaining, poured, kind>> /\ loop' = "done"
  BY DEF IInv, EndOfFuture
<1>2. PICK t \in Top..(Top + input.horizon) :
          visited = input.rows \cup ((Top + 1)..t) /\ Reached(t)
  BY <1>1 DEF ReachedInFuture
<1>3. /\ Top \in Nat /\ input.horizon \in Nat /\ t \in Nat /\ LastMonth \in Nat
      /\ Top \in input.rows /\ Top <= t /\ t \in 0..LastMonth
      /\ \A k \in input.rows : k \in Nat /\ k <= Top
  BY <1>1, <1>2, TopBounds DEF Months
<1>4. LastKnown(visited) = t
  <2>1. t \in visited /\ \A k \in visited : k \in Nat /\ k <= t
    BY <1>2, <1>3
  <2>2. \A x \in visited : (\A k \in visited : k <= x) => x = t
    BY <1>3, <2>1
  <2>3. QED
    BY <2>1, <2>2 DEF LastKnown
<1>5. \/ Left[t] = 0
      \/ \A m \in (t + 1)..LastMonth : InputCapacity[m] = 0
  <2>1. CASE remaining = 0
    BY <1>2, <2>1 DEF Reached
  <2>2. CASE ~InHorizon(NextIndex)
    <3>1. t = Top + input.horizon
      BY <1>2, <1>3, <1>4, <2>2 DEF InHorizon, NextIndex, Top
    <3>2. QED
      BY <1>1, <1>3, <3>1, CapacityOfMonth DEF Months
  <2>3. QED
    BY <2>1, <2>2 DEF EndOfFuture
<1>6. poured = Planned /\ remaining = Left[LastMonth]
  BY <1>1, <1>2, <1>3, <1>5, PlanComplete
<1>7. poured' = Planned' /\ remaining' = Left'[LastMonth]
  BY <1>1, <1>6 DEF Planned, Left, InputCapacity
<1>8. QED
  BY <1>1, <1>7 DEF IInv, InputOK, KindsRight, InputCapacity, Refused

LEMMA RefuseStep ==
  ASSUME IInv, Refuse
  PROVE  IInv'
BY DEF IInv, Refuse, Refused, InputOK, KindsRight, InputCapacity

LEMMA InitIInv == Init => IInv
<1> SUFFICES ASSUME Init PROVE IInv
  OBVIOUS
<1>1. InputOK
  <2>1. PICK rows \in SUBSET (1..LastRow), amount \in Amounts, h \in Horizons :
             \E d \in [rows -> Dues], a \in [rows -> Totals] :
                input = [amount |-> amount, rows |-> rows, horizon |-> h,
                         due |-> [m \in Months |-> IF m \in rows THEN d[m] ELSE 0],
                         allocated |->
                             [m \in Months |-> IF m \in rows THEN a[m] ELSE 0]]
    BY DEF Init
  <2>2. PICK d \in [rows -> Dues], a \in [rows -> Totals] :
             input = [amount |-> amount, rows |-> rows, horizon |-> h,
                      due |-> [m \in Months |-> IF m \in rows THEN d[m] ELSE 0],
                      allocated |->
                          [m \in Months |-> IF m \in rows THEN a[m] ELSE 0]]
    BY <2>1
  <2>3. \A m \in rows : d[m] \in Nat /\ a[m] \in Nat
    BY InputAssumption
  <2>4. QED
    BY <2>2, <2>3, InputAssumption DEF InputOK
<1>2. /\ loop = "known" /\ visited = {} /\ remaining = input.amount
      /\ poured = NoEntries /\ kind = [m \in Months |-> "none"]
  BY DEF Init
<1>3. poured \in [Months -> Nat] /\ DOMAIN kind = Months /\ KindsRight
  BY <1>2 DEF NoEntries, KindsRight
<1>4. ASSUME ~Refused  PROVE ReachedInKnown
  <2>1. /\ 0 \in 0..Top /\ LastMonth \in Nat
        /\ \A k \in input.rows : k \in Nat /\ ~(k <= 0)
    BY <1>1, <1>4, TopBounds DEF Months
  <2>2. Left[0] = input.amount
    BY <1>1, <1>4, LeftIsWaterfall DEF IsWaterfall
  <2>3. Reached(0)
    BY <1>2, <2>1, <2>2 DEF Reached, NoEntries, Months
  <2>4. visited = {m \in input.rows : m <= 0}
    BY <1>2, <2>1
  <2>5. QED
    BY <2>1, <2>3, <2>4 DEF ReachedInKnown
<1>5. QED
  BY <1>1, <1>2, <1>3, <1>4 DEF IInv

LEMMA StepIInv == IInv /\ [Next]_vars => IInv'
<1> SUFFICES ASSUME IInv, [Next]_vars PROVE IInv'
  OBVIOUS
<1>1. CASE UNCHANGED vars
  BY <1>1 DEF vars, IInv, InputOK, KindsRight, InputCapacity, Refused, ReachedInKnown,
              ReachedInFuture, Reached, Left, Top, Planned
<1>2. CASE Next
  BY <1>1, <1>2, RefuseStep, KnownPeriodStep, EndOfKnownStep, FuturePeriodStep,
     EndOfFutureStep DEF Next, Returned
<1>3. QED
  BY <1>1, <1>2

LEMMA PlannedFills ==
  ASSUME InputOK, ~Refused
  PROVE  FillsOldestFirst(Planned, InputCapacity, LastMonth)
<1>1. input.rows \in SUBSET (1..LastMonth) /\ LastMonth \in Nat /\ input.horizon \in Nat
  BY InputBounds DEF Months
<1>2. QED
  BY <1>1, PlanOldestFirst DEF Planned, InputCapacity, InputOK, Refused, Months

LEMMA WaterfallInvariant == Spec => []IInv
<1>1. QED
  BY InitIInv, StepIInv, PTL DEF Spec

-----------------------------------------------------------------------------
(* The theorems                                                             *)

\* What the two loops return is the closed form of AllocationEngine, entry by
\* entry and type by type, for every input.
THEOREM LoopsAreTheClosedForm == Spec => []LoopsComputePlan
<1>1. IInv => LoopsComputePlan
  <2> SUFFICES ASSUME IInv, loop = "done" PROVE poured = Planned
    BY DEF LoopsComputePlan, Planned, IInv, KindsRight
  <2>1. CASE ~Refused
    BY <2>1 DEF IInv
  <2>2. CASE input.rows = {}
    BY <2>2 DEF IInv, Refused, NoEntries, Planned, PlanAllocation, Months
  <2>3. CASE input.rows # {} /\ input.amount = 0
    <3>1. poured = NoEntries /\ InputOK
      BY <2>3 DEF IInv, Refused
    <3>2. /\ input.rows \in SUBSET Months /\ LastMonth \in Nat
          /\ input.horizon \in Nat
      BY <3>1, InputBounds
    <3>3. InputCapacity \in [1..LastMonth -> Nat]
      BY <2>3, <3>1, <3>2, CapacityType DEF InputCapacity, InputOK, Months
    <3>4. IsWaterfall(Left, 0, InputCapacity, LastMonth)
      BY <2>3, <3>2, <3>3, RemainingIsWaterfall DEF Left
    <3>5. \A m \in 0..LastMonth : Left[m] = 0
      BY <3>4 DEF IsWaterfall
    <3>6. Planned = [m \in Months |-> Left[m - 1] - Left[m]]
      BY <2>3 DEF Planned, PlanAllocation, Left, InputCapacity, Months
    <3>7. \A m \in Months : Left[m - 1] - Left[m] = 0
      BY <3>2, <3>5 DEF Months
    <3>8. QED
      BY <3>1, <3>6, <3>7 DEF NoEntries
  <2>4. QED
    BY <2>1, <2>2, <2>3 DEF Refused
<1>2. QED
  BY <1>1, WaterfallInvariant, PTL

\* Money in the months up to t, and nothing later: together it is what has left the
\* payment.
LEMMA ReachedTotal ==
  ASSUME InputOK, ~Refused, poured \in [Months -> Nat],
         NEW t \in 0..LastMonth, Reached(t)
  PROVE  remaining + PlanTotal(poured, LastMonth) = input.amount
<1> DEFINE left == [m \in 0..LastMonth |-> IF m <= t THEN Left[m] ELSE Left[t]]
<1>1. LastMonth \in Nat /\ input.amount \in Nat /\ \A m \in 0..LastMonth : Left[m] \in Nat
  BY TopBounds, LeftStep, LeftIsWaterfall
<1>2. left \in [0..LastMonth -> Nat]
  BY <1>1
<1>3. ASSUME NEW m \in 1..LastMonth
      PROVE  poured[m] = left[m - 1] - left[m] /\ poured[m] \in Nat
  <2>1. m \in Months /\ m \in 0..LastMonth /\ m - 1 \in 0..LastMonth
    BY <1>1 DEF Months
  <2>2. poured[m] = IF m <= t THEN Left[m - 1] - Left[m] ELSE 0
    BY <2>1 DEF Reached
  <2>3. CASE m <= t
    BY <1>1, <2>1, <2>2, <2>3
  <2>4. CASE ~(m <= t)
    <3>1. left[m] = Left[t] /\ left[m - 1] = Left[t] /\ Left[t] \in Nat
      BY <1>1, <2>1, <2>4
    <3>2. QED
      BY <2>2, <2>4, <3>1
  <2>5. QED
    BY <2>3, <2>4
<1>4. left[0] = input.amount /\ left[LastMonth] = Left[t] /\ Left[t] \in Nat
  BY <1>1, LeftIsWaterfall DEF IsWaterfall
<1> HIDE DEF left
<1>5. PlanTotal(poured, LastMonth) = left[0] - left[LastMonth]
  BY <1>1, <1>2, <1>3, TotalTelescopes
<1>6. QED
  BY <1>1, <1>4, <1>5 DEF Reached

\* No iteration makes or loses a cent, and what the loops leave over is left over only
\* because every month within the horizon is full.
THEOREM LoopsLoseNothing == Spec => []NothingLost
<1>1. IInv => NothingLost
  <2> SUFFICES ASSUME IInv PROVE NothingLost
    OBVIOUS
  <2>1. InputOK /\ LastMonth \in Nat /\ poured \in [Months -> Nat] /\ input.amount \in Nat
    BY InputAssumption DEF IInv, InputOK
  <2>2. CASE Refused
    <3>1. poured = NoEntries /\ remaining = input.amount
      BY <2>2 DEF IInv
    <3>2. PlanCents(poured, LastMonth) = {}
      BY <2>1, <3>1 DEF PlanCents, NoEntries, Months
    <3>3. PlanTotal(poured, LastMonth) = 0
      BY <3>2, FS_EmptySet DEF PlanTotal
    <3>4. remaining > 0 => poured = InputCapacity
      BY <2>1, <2>2, <3>1 DEF Refused, InputCapacity
    <3>5. QED
      BY <2>1, <3>1, <3>3, <3>4 DEF NothingLost
  <2>3. ASSUME ~Refused, NEW t \in 0..LastMonth, Reached(t), loop # "done"
        PROVE  NothingLost
    BY <2>1, <2>3, ReachedTotal DEF NothingLost
  <2>4. CASE ~Refused /\ loop = "known"
    <3>1. PICK t \in 0..Top : Reached(t)
      BY <2>4 DEF IInv, ReachedInKnown
    <3>2. t \in 0..LastMonth
      BY <2>1, <2>4, TopBounds DEF Months
    <3>3. QED
      BY <2>3, <2>4, <3>1, <3>2
  <2>5. CASE ~Refused /\ loop = "future"
    <3>1. PICK t \in Top..(Top + input.horizon) : Reached(t)
      BY <2>5 DEF IInv, ReachedInFuture
    <3>2. t \in 0..LastMonth
      BY <2>1, <2>5, TopBounds DEF Months
    <3>3. QED
      BY <2>3, <2>5, <3>1, <3>2
  <2>6. CASE ~Refused /\ loop = "done"
    <3>1. poured = Planned /\ remaining = Left[LastMonth]
      BY <2>6 DEF IInv
    <3>2. \A m \in Months : Planned[m] = Left[m - 1] - Left[m]
      BY <2>1, <2>6, PlannedIs
    <3>3. Reached(LastMonth)
      BY <2>1, <3>1, <3>2 DEF Reached, Months
    <3>4. LastMonth \in 0..LastMonth
      BY <2>1
    <3>5. remaining + PlanTotal(poured, LastMonth) = input.amount
      BY <2>1, <2>6, <3>3, <3>4, ReachedTotal
    <3>6. ASSUME remaining > 0 PROVE poured = InputCapacity
      <4>1. \A m \in 1..LastMonth : Left[m - 1] - Left[m] = InputCapacity[m]
        BY <2>1, <2>6, <3>1, <3>6, LeftIsWaterfall, MoneyLeftMeansFull
      <4>2. \A m \in Months : poured[m] = InputCapacity[m]
        BY <3>1, <3>2, <4>1 DEF Months
      <4>3. InputCapacity \in [Months -> Nat]
        BY <2>1, <2>6, LeftIsWaterfall DEF Months
      <4>4. QED
        BY <2>1, <4>2, <4>3
    <3>7. QED
      BY <3>5, <3>6 DEF NothingLost
  <2>7. QED
    BY <2>2, <2>4, <2>5, <2>6 DEF IInv
<1>2. QED
  BY <1>1, WaterfallInvariant, PTL

\* Between any two iterations the money sits on the oldest months with room.
THEOREM EveryIterationOldestFirst == Spec => []PouredOldestFirst
<1>1. IInv => PouredOldestFirst
  <2> SUFFICES ASSUME IInv PROVE PouredOldestFirst
    OBVIOUS
  <2>1. InputOK /\ LastMonth \in Nat
    BY InputAssumption DEF IInv
  <2>2. ASSUME ~Refused, NEW t \in 0..LastMonth, Reached(t)
        PROVE  PouredOldestFirst
    <3>1. \A m \in Months :
              /\ Left[m - 1] - Left[m] \in 0..InputCapacity[m]
              /\ Left[m - 1] - Left[m] > 0 =>
                     \A k \in 1..(m - 1) : Left[k - 1] - Left[k] = InputCapacity[k]
      <4>1. \A m \in Months : Planned[m] = Left[m - 1] - Left[m]
        BY <2>1, <2>2, PlannedIs
      <4>2. \A m \in Months : \A k \in 1..(m - 1) : k \in Months
        BY <2>1 DEF Months
      <4>3. QED
        BY <2>1, <2>2, <4>1, <4>2, PlannedFills DEF FillsOldestFirst, Months
    <3>2. \A m \in Months : InputCapacity[m] \in Nat
      BY <2>1, <2>2, LeftIsWaterfall DEF Months
    <3>3. ASSUME NEW m \in Months
          PROVE  /\ poured[m] \in 0..InputCapacity[m]
                 /\ poured[m] > 0 =>
                        \A k \in 1..(m - 1) : poured[k] = InputCapacity[k]
      <4>1. CASE m <= t
        <5>1. \A k \in 1..m : k \in Months /\ poured[k] = Left[k - 1] - Left[k]
          BY <2>1, <2>2, <4>1 DEF Reached, Months
        <5>2. poured[m] = Left[m - 1] - Left[m]
          BY <2>2, <4>1 DEF Reached
        <5>3. \A k \in 1..(m - 1) : k \in 1..m
          BY <2>1 DEF Months
        <5>4. QED
          BY <3>1, <5>1, <5>2, <5>3
      <4>2. CASE ~(m <= t)
        <5>1. poured[m] = 0
          BY <2>2, <4>2 DEF Reached
        <5>2. QED
          BY <3>2, <5>1
      <4>3. QED
        BY <4>1, <4>2
    <3>4. QED
      BY <3>3 DEF PouredOldestFirst, FillsOldestFirst, Months
  <2>3. CASE Refused
    <3>1. poured = NoEntries
      BY <2>3 DEF IInv
    <3>2. \A m \in Months : InputCapacity[m] \in Nat
      <4>1. CASE input.rows = {}
        BY <4>1 DEF InputCapacity, NoEntries
      <4>2. CASE input.rows # {}
        <5>1. input.rows \in SUBSET Months /\ input.horizon \in Nat
          BY <2>1, InputBounds
        <5>2. InputCapacity \in [1..LastMonth -> Nat]
          BY <2>1, <4>2, <5>1, CapacityType DEF InputCapacity, InputOK, Months
        <5>3. QED
          BY <5>2 DEF Months
      <4>3. QED
        BY <4>1, <4>2
    <3>3. QED
      BY <3>1, <3>2 DEF PouredOldestFirst, FillsOldestFirst, NoEntries, Months
  <2>4. CASE ~Refused /\ loop = "known"
    <3>1. PICK t \in 0..Top : Reached(t)
      BY <2>4 DEF IInv, ReachedInKnown
    <3>2. t \in 0..LastMonth
      BY <2>1, <2>4, TopBounds DEF Months
    <3>3. QED
      BY <2>2, <2>4, <3>1, <3>2
  <2>5. CASE ~Refused /\ loop = "future"
    <3>1. PICK t \in Top..(Top + input.horizon) : Reached(t)
      BY <2>5 DEF IInv, ReachedInFuture
    <3>2. t \in 0..LastMonth
      BY <2>1, <2>5, TopBounds DEF Months
    <3>3. QED
      BY <2>2, <2>5, <3>1, <3>2
  <2>6. CASE ~Refused /\ loop = "done"
    BY <2>1, <2>6, PlannedFills DEF IInv, PouredOldestFirst
  <2>7. QED
    BY <2>3, <2>4, <2>5, <2>6 DEF IInv
<1>2. QED
  BY <1>1, WaterfallInvariant, PTL
=============================================================================
