-------------------------- MODULE AllocationEngine --------------------------
(***************************************************************************)
(* The pure reference-month waterfall of lib/services/allocation/engine.ts. *)
(*                                                                         *)
(* A reference month is its index 1..last, counted from the month the lease *)
(* starts.  Money is an integer (cents), so the code's MONEY_EPSILON of half *)
(* a cent becomes an exact comparison with zero.  A date is a month index   *)
(* too: month m falls due at time m, and a time later than m is at least a  *)
(* day past the due date.                                                   *)
(***************************************************************************)
EXTENDS Integers, FiniteSets

Lesser(a, b)  == IF a < b THEN a ELSE b
Greater(a, b) == IF a > b THEN a ELSE b

PeriodStatuses ==
    {"upcoming", "due", "overdue", "partially_paid", "paid", "paid_late"}
PaidStatuses   == {"paid", "paid_late"}
TenantStatuses == {"paid", "overdue", "pending"}

\* No payment date: RentPeriod.paidAt is null while the month is not full.
NotPaid == -1

LastKnown(rows) == CHOOSE m \in rows : \A k \in rows : k <= m

(***************************************************************************)
(* How much the waterfall may pour into each month: what is still open of a *)
(* month that has a row, and futureDueAmount (the due amount of the last    *)
(* known month) for each of the next `horizon' months, which the engine     *)
(* creates.                                                                 *)
(***************************************************************************)
DueCapacity(rows, due, allocated, horizon, last) ==
    [m \in 1..last |-> IF m \in rows THEN due[m] ELSE 0]
Capacity(rows, due, allocated, horizon, last) ==
    [m \in 1..last |->
        IF m \in rows THEN Greater(due[m] - allocated[m], 0)
        ELSE IF LastKnown(rows) < m /\ m <= LastKnown(rows) + horizon
             THEN due[LastKnown(rows)]
             ELSE 0]

\* What remains of `amount' once the months up to m took what they could hold.
Remaining(amount, capacity, last) ==
    LET left[m \in 0..last] ==
            IF m = 0 THEN amount
            ELSE left[m - 1] - Lesser(left[m - 1], capacity[m])
    IN  left

PlanEveryMonth(amount, rows, due, allocated, horizon, last) ==
    IF rows = {} THEN [m \in 1..last |-> 0]
    ELSE [m \in 1..last |->
             Lesser(amount, Capacity(rows, due, allocated, horizon, last)[m])]

\* planAllocation: the entries of a plan, as the amount each month receives.
PlanAllocation(amount, rows, due, allocated, horizon, last) ==
    IF rows = {} THEN [m \in 1..last |-> 0]
    ELSE LET left == Remaining(amount,
                         Capacity(rows, due, allocated, horizon, last), last)
         IN  [m \in 1..last |-> left[m - 1] - left[m]]

\* A plan fills the oldest months first: nobody is given more than fits, and a
\* month is given money only when every older one is given all it can hold.
FillsOldestFirst(plan, capacity, last) ==
    \A m \in 1..last :
        /\ plan[m] \in 0..capacity[m]
        /\ plan[m] > 0 => \A k \in 1..(m - 1) : plan[k] = capacity[k]

\* One element for each cent of a plan; their number is what it adds up to.
PlanCents(plan, last) == UNION {{m} \X (1..plan[m]) : m \in 1..last}
PlanTotal(plan, last) == Cardinality(PlanCents(plan, last))

\* The type a plan's entry for month m carries: the first month touched says
\* whether it was settled in full, every later one is carried-forward credit.
EntryType(plan, capacity, m) ==
    IF \E k \in 1..(m - 1) : plan[k] > 0 THEN "overpayment_credit"
    ELSE IF plan[m] >= capacity[m] THEN "rent" ELSE "partial"

DerivePeriodStatusStrict(m, due, allocated, fullyPaidAt, today) ==
    IF allocated > due THEN "paid" ELSE IF today < m THEN "upcoming"
    ELSE IF allocated > 0 THEN "partially_paid" ELSE "due"

\* derivePeriodStatus of month m, read at time today.
DerivePeriodStatus(m, due, allocated, fullyPaidAt, today) ==
    IF allocated >= due
    THEN IF fullyPaidAt > m THEN "paid_late" ELSE "paid"
    ELSE IF today < m THEN "upcoming"
    ELSE IF allocated > 0 THEN "partially_paid"
    ELSE IF today > m THEN "overdue" ELSE "due"

\* deriveTenantStatus of the statuses of a tenant's months.
DeriveTenantStatus(statuses) ==
    IF statuses \cap {"overdue", "partially_paid"} # {} THEN "overdue"
    ELSE IF "due" \in statuses THEN "pending" ELSE "paid"
=============================================================================
