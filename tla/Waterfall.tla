----------------------------- MODULE Waterfall -----------------------------
(***************************************************************************)
(* The two loops of planAllocation (lib/services/allocation/engine.ts), one *)
(* iteration a step, over every input of a bounded size.                   *)
(*                                                                         *)
(* AllocationEngine states in closed form what the loops compute; the       *)
(* ledger uses that form and the proofs are about it.  Here the loops run   *)
(* as the code runs them and their answer is compared with it.             *)
(***************************************************************************)
EXTENDS AllocationEngine

CONSTANTS
    Amounts,     \* payment.amount, in cents
    Dues,        \* dueAmount of a period
    Totals,      \* allocatedAmount of a period; over its due after an edit or race
    Horizons,    \* horizonMonths
    LastRow,     \* bound: the periods are among the months 1..LastRow
    LastMonth    \* bound: LastRow plus the longest horizon

ASSUME InputAssumption ==
    /\ Amounts \subseteq Nat /\ Dues \subseteq Nat /\ Totals \subseteq Nat
    /\ Horizons \subseteq Nat /\ LastRow \in Nat /\ LastMonth \in Nat
    /\ \A h \in Horizons : LastRow + h <= LastMonth

Months == 1..LastMonth

VARIABLES
    input,      \* the payment and the periods
    loop,       \* "known" (pass 1), "future" (pass 2) or "done"
    visited,    \* the months that had their iteration
    remaining,  \* what is left of the payment
    poured,     \* the amount of each month's entry, 0 for none
    kind        \* the type of each month's entry, "none" for none

vars == <<input, loop, visited, remaining, poured, kind>>

NoEntries == [m \in Months |-> 0]

FutureDue == input.due[LastKnown(input.rows)]

\* What an iteration may take for a month, and how much it does take.
Open(m) == IF m \in input.rows THEN input.due[m] - input.allocated[m] ELSE FutureDue

Take(m) == Lesser(remaining, Open(m))

\* The flag `first' is still set: no entry was pushed.
First == poured = NoEntries

\* The type of the entry an iteration pushes.
KindOfTake(m) ==
    IF Take(m) >= Open(m) THEN "rent" ELSE "partial"
Kind(m) ==
    IF ~First THEN "overpayment_credit"
    ELSE IF Take(m) >= Open(m) THEN "rent" ELSE "partial"

Push(m) ==
    /\ poured' = [poured EXCEPT ![m] = Take(m)]
    /\ kind' = [kind EXCEPT ![m] = Kind(m)]
    /\ remaining' = remaining - Take(m)
    /\ visited' = visited \cup {m}

\* The sort of the periods: the next of them is the oldest not seen yet.
NewestPeriod(unseen) == CHOOSE m \in unseen : \A k \in unseen : k <= m
NextPeriod(unseen)   == CHOOSE m \in unseen : \A k \in unseen : m <= k

Init ==
    /\ \E rows \in SUBSET (1..LastRow) : \E amount \in Amounts, h \in Horizons :
       \E d \in [rows -> Dues], a \in [rows -> Totals] :
          input = [amount |-> amount, rows |-> rows, horizon |-> h,
                   due |-> [m \in Months |-> IF m \in rows THEN d[m] ELSE 0],
                   allocated |-> [m \in Months |-> IF m \in rows THEN a[m] ELSE 0]]
    /\ loop = "known"
    /\ visited = {}
    /\ remaining = input.amount
    /\ poured = NoEntries
    /\ kind = [m \in Months |-> "none"]

\* The early returns: nothing to allocate, or no period to allocate it to.
Refused == input.amount = 0 \/ input.rows = {}

Refuse ==
    /\ loop = "known"
    /\ Refused
    /\ loop' = "done"
    /\ UNCHANGED <<input, visited, remaining, poured, kind>>

\* An iteration of pass 1; a month that is full is passed over.
KnownPeriod ==
    /\ loop = "known"
    /\ remaining > 0 /\ input.rows \ visited # {}
    /\ LET m == NextPeriod(input.rows \ visited)
       IN  IF Open(m) <= 0
           THEN visited' = visited \cup {m} /\ UNCHANGED <<remaining, poured, kind>>
           ELSE Push(m)
    /\ UNCHANGED <<input, loop>>

EndOfKnown ==
    /\ loop = "known"
    /\ ~Refused
    /\ remaining = 0 \/ input.rows \subseteq visited
    /\ loop' = IF remaining > 0 /\ FutureDue > 0 THEN "future" ELSE "done"
    /\ UNCHANGED <<input, visited, remaining, poured, kind>>

\* Pass 2 creates at most horizonMonths months.
InHorizonLate(m) == m <= LastKnown(input.rows) + input.horizon + 1
InHorizon(m)     == m <= LastKnown(input.rows) + input.horizon

NextIndex == LastKnown(visited) + 1

\* An iteration of pass 2, which creates the next month.
FuturePeriod ==
    /\ loop = "future"
    /\ remaining > 0 /\ InHorizon(NextIndex)
    /\ NextIndex \in Months
    /\ Push(NextIndex)
    /\ UNCHANGED <<input, loop>>

EndOfFuture ==
    /\ loop = "future"
    /\ remaining = 0 \/ ~InHorizon(NextIndex)
    /\ loop' = "done"
    /\ UNCHANGED <<input, visited, remaining, poured, kind>>

\* The plan is returned.
Returned == loop = "done" /\ UNCHANGED vars

Next == Refuse \/ KnownPeriod \/ EndOfKnown \/ FuturePeriod \/ EndOfFuture \/ Returned

Spec == Init /\ [][Next]_vars

-----------------------------------------------------------------------------
(* Properties                                                               *)

\* What each month could hold.
InputCapacity ==
    IF input.rows = {} THEN NoEntries
    ELSE Capacity(input.rows, input.due, input.allocated, input.horizon, LastMonth)

\* The entries of the two loops, with their types, are those of the closed form
\* the ledger is built from.
LoopsComputePlan ==
    loop = "done" =>
        /\ poured = PlanAllocation(input.amount, input.rows, input.due,
                                   input.allocated, input.horizon, LastMonth)
        /\ \A m \in Months :
              poured[m] > 0 => kind[m] = EntryType(poured, InputCapacity, m)

\* At every iteration, and not only at the end, money sits on the oldest months
\* that had room.
PouredOldestFirst == FillsOldestFirst(poured, InputCapacity, LastMonth)

\* No cent appears or disappears; some is left over (the horizon_exceeded
\* warning) only when every month within the horizon is full.
NothingLost ==
    /\ remaining + PlanTotal(poured, LastMonth) = input.amount
    /\ loop = "done" /\ remaining > 0 => poured = InputCapacity
=============================================================================
