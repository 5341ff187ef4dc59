----------------------------- MODULE RentLedger -----------------------------
(***************************************************************************)
(* The reference-month ledger of one lease: the rent periods, the receipts  *)
(* of its tenant, the payment allocations that join them, and the requests  *)
(* that move money between them.                                           *)
(*                                                                         *)
(* A request is split where the code awaits: what it read before is kept in *)
(* its record and used after, while other requests ran in between.  The     *)
(* body of a prisma.$transaction is one step: the database is one SQLite    *)
(* connection, on which interactive transactions run one at a time.         *)
(*                                                                         *)
(* Server requests live in memory.  A restart of the server loses them and  *)
(* leaves the database as the last committed step left it, which is what    *)
(* Abandon does to one request, and a series of them to all.               *)
(***************************************************************************)
EXTENDS AllocationEngine, FiniteSets

CONSTANTS
    Receipts,      \* receipts that may come to exist, for the one lease
    Tenants,       \* tenants an edit may give a receipt to
    Tenant,        \* the lease's tenant
    Workers,       \* requests the server may be working on at once
    Script,        \* the backfill script, run while the server is stopped
    NoReceipt,     \* the receipt of a request that has none
    Amounts,       \* amounts a receipt may state, in cents
    Dates,         \* payment dates a receipt may state
    Sources,       \* lifecycles of a new receipt: "emitted" by hand, "draft" by
                   \* the bank inbox
    Targets,       \* lifecycles a transition may ask for
    Rents,         \* values Lease.monthlyRent may take, in cents
    LeaseEnd,      \* month index of Lease.endDate
    Horizon,       \* HORIZON_MONTHS
    LastMonth,     \* bound: no month after it is modelled
    MaxTime        \* bound: the clock stops there

Procs  == Workers \cup {Script}
Months == 1..LastMonth

ASSUME ProcsAssumption  == Script \notin Workers /\ NoReceipt \notin Receipts
ASSUME TenantAssumption == Tenant \in Tenants
ASSUME MoneyAssumption  == Amounts \subseteq Nat \ {0} /\ Rents \subseteq Nat \ {0}
ASSUME LifecycleAssumption ==
    Sources \subseteq {"emitted", "draft"} /\ Targets \subseteq
    {"draft", "review", "emitted", "submitted", "accepted", "rejected", "voided"}
ASSUME TimeAssumption   ==
    /\ Dates \subseteq Nat
    /\ MaxTime \in Nat /\ Horizon \in Nat /\ LastMonth \in Nat
    /\ LeaseEnd \in 1..LastMonth

VARIABLES
    today,         \* the clock, a month index
    rent,          \* Lease.monthlyRent
    rows,          \* months that have a RentPeriod row
    due,           \* RentPeriod.dueAmount
    allocated,     \* RentPeriod.allocatedAmount
    paidAt,        \* RentPeriod.paidAt, NotPaid for null
    status,        \* RentPeriod.status
    tenantStatus,  \* Tenant.paymentStatus
    receipt,       \* the Receipt rows
    live,          \* live[r][m]: non-reversed PaymentAllocation of r on month m
    request        \* the requests in flight

periodVars == <<rows, due, allocated, paidAt, status>>
ledgerVars == <<rows, due, allocated, paidAt, status, tenantStatus, live>>
vars == <<today, rent, rows, due, allocated, paidAt, status, tenantStatus,
          receipt, live, request>>

Lifecycles == {"draft", "review", "emitted", "submitted", "accepted",
               "rejected", "voided"}

\* TRANSITIONS of receipts/lifecycle.ts
Transitions ==
    [draft     |-> {"review", "emitted", "voided"},
     review    |-> {"draft", "emitted", "voided"},
     emitted   |-> {"submitted", "voided"},
     submitted |-> {"accepted", "rejected"},
     accepted  |-> {},
     rejected  |-> {"review"},
     voided    |-> {}]

FiledStates    == {"submitted", "accepted"}
TerminalStates == {"accepted", "voided"}

NoMoney == [m \in Months |-> 0]

IdleRequest ==
    [pc |-> "idle", receipt |-> NoReceipt, amount |-> 0, date |-> 0,
     rent |-> 0, months |-> {}, plan |-> NoMoney, target |-> "draft"]

Idle(p) == request[p].pc = "idle"

\* The server answers requests only while the backfill script is not running.
Online == Idle(Script)

Finish(p) == request' = [request EXCEPT ![p] = IdleRequest]

Stored(r) == receipt[r].state = "stored"

\* Some live allocation names r.
HoldsMoney(r) == \E m \in Months : live[r][m] > 0

\* min(endDate, now + horizon): the months a lease should have by now.
WantedMonths == {m \in Months : m <= LeaseEnd /\ m <= today + Horizon}

-----------------------------------------------------------------------------
(* Creating a receipt, and the allocation request that follows it           *)

\* POST /api/receipts stores an emitted receipt, the bank inbox a draft; both
\* then call allocateReceipt.
CreateReceipt(w, r, amount, date, lifecycle) ==
    /\ Online /\ Idle(w)
    /\ receipt[r].state = "unborn"
    /\ receipt' = [receipt EXCEPT ![r] =
           [state |-> "stored", tenant |-> Tenant, amount |-> amount, date |-> date,
            lifecycle |-> lifecycle, month |-> 0]]
    /\ request' = [request EXCEPT ![w] =
           [IdleRequest EXCEPT !.pc = "load", !.receipt = r]]
    /\ UNCHANGED <<today, rent, ledgerVars>>

\* The backfill script allocates every stored receipt, whatever its lifecycle.
StartBackfill(r) ==
    /\ \A p \in Procs : Idle(p)
    /\ Stored(r)
    /\ request' = [request EXCEPT ![Script] =
           [IdleRequest EXCEPT !.pc = "load", !.receipt = r]]
    /\ UNCHANGED <<today, rent, ledgerVars, receipt>>

\* POST /api/leases seeds the months of the new lease.
SeedLease(w) ==
    /\ Online /\ Idle(w)
    /\ rows = {} /\ WantedMonths # {}
    /\ request' = [request EXCEPT ![w] =
           [IdleRequest EXCEPT !.pc = "generate", !.rent = rent,
                               !.months = WantedMonths]]
    /\ UNCHANGED <<today, rent, ledgerVars, receipt>>

\* The idempotency check: a receipt with live allocations is skipped.
MayAllocateAgain(r) == Stored(r)
MayAllocate(r) == Stored(r) /\ ~HoldsMoney(r)

\* allocateReceipt's reads: the receipt, its live allocations, and what
\* generateRentPeriods reads of the lease.
Load(p) ==
    /\ request[p].pc = "load"
    /\ LET r       == request[p].receipt
           missing == WantedMonths \ rows
       IN  /\ MayAllocate(r)
           /\ request' = [request EXCEPT ![p] =
                  [request[p] EXCEPT
                      !.pc     = IF missing = {} THEN "plan" ELSE "generate",
                      !.amount = receipt[r].amount,
                      !.date   = receipt[r].date,
                      !.rent   = rent,
                      !.months = missing]]
    /\ UNCHANGED <<today, rent, ledgerVars, receipt>>

\* generateRentPeriods' createMany.  It throws on a month that another request
\* inserted since this one read what was there, and then the request ends.
Generate(p) ==
    /\ request[p].pc = "generate"
    /\ LET new == request[p].months
           amt == request[p].rent
       IN  /\ new \cap rows = {}
           /\ rows' = rows \cup new
           /\ due' = [m \in Months |-> IF m \in new THEN amt ELSE due[m]]
           /\ allocated' = [m \in Months |-> IF m \in new THEN 0 ELSE allocated[m]]
           /\ paidAt' = [m \in Months |-> IF m \in new THEN NotPaid ELSE paidAt[m]]
           /\ status' = [m \in Months |->
                  IF m \in new THEN DerivePeriodStatus(m, amt, 0, NotPaid, today)
                  ELSE status[m]]
    /\ request' = [request EXCEPT ![p] =
           IF request[p].receipt = NoReceipt THEN IdleRequest
           ELSE [request[p] EXCEPT !.pc = "plan", !.months = {}]]
    /\ UNCHANGED <<today, rent, tenantStatus, receipt, live>>

\* The periods are read and the waterfall planned over what they showed.  The
\* lease is read again, for the due amount of the months the plan creates.
Plan(p) ==
    /\ request[p].pc = "plan"
    /\ LET plan == PlanAllocation(request[p].amount, rows, due, allocated,
                                  Horizon, LastMonth)
       IN  /\ plan # NoMoney
           /\ request' = [request EXCEPT ![p] =
                  [request[p] EXCEPT !.pc = "commit", !.plan = plan,
                                     !.rent = rent, !.months = rows]]
    /\ UNCHANGED <<today, rent, ledgerVars, receipt>>

\* Tenant.paymentStatus, recomputed in the same transaction, on its own client.
TenantStatusBefore(newRows)     == DeriveTenantStatus({status[m] : m \in newRows})
RecomputedTenantStatus(newRows) == DeriveTenantStatus({status'[m] : m \in newRows})

\* What a write leaves of the months: their totals, and their statuses.
WritePeriods(touched, newRows, newDue, newAllocated, newPaidAt) ==
    /\ rows' = newRows
    /\ due' = newDue
    /\ allocated' = newAllocated
    /\ paidAt' = newPaidAt
    /\ status' = [m \in Months |->
           IF m \in touched
           THEN DerivePeriodStatus(m, newDue[m], newAllocated[m], newPaidAt[m], today)
           ELSE status[m]]

\* The transaction rolls back, and the request ends, when a month it is to
\* create has appeared (@@unique leaseId, year, month) or the receipt has gone.
CanCreateMonths(p, touched) ==
    \A m \in touched : m \in request[p].months <=> m \in rows
CanCommit(p, touched) ==
    Stored(request[p].receipt) /\ CanCreateMonths(p, touched)

\* Receipt.rentPeriodId and referenceMonth: the month of the first entry,
\* whether its row was there or the plan created it.
FirstKnownMonth(touched, known) ==
    IF touched \cap known = {} THEN 0
    ELSE CHOOSE m \in touched \cap known : \A k \in touched \cap known : m <= k
PrimaryMonth(touched, known) ==
    CHOOSE m \in touched : \A k \in touched : m <= k

\* The transaction that applies a plan, month by month, to the rows it re-reads, and
\* recomputes the status of the lease's tenant, whoever the receipt names.
CommitAllocation(p) ==
    /\ request[p].pc = "commit"
    /\ LET r       == request[p].receipt
           plan    == request[p].plan
           touched == {m \in Months : plan[m] > 0}
           newDue  == [m \in Months |->
                          IF m \in touched \ rows THEN request[p].rent ELSE due[m]]
           newAllocated == [m \in Months |-> allocated[m] + plan[m]]
       IN  /\ CanCommit(p, touched)
           /\ WritePeriods(touched, rows \cup touched, newDue, newAllocated,
                  [m \in Months |->
                      IF m \notin touched THEN paidAt[m]
                      ELSE IF newAllocated[m] >= newDue[m]
                           THEN request[p].date ELSE NotPaid])
           /\ tenantStatus' = RecomputedTenantStatus(rows \cup touched)
           /\ live' = [live EXCEPT ![r] = [m \in Months |-> live[r][m] + plan[m]]]
           /\ receipt' = [receipt EXCEPT ![r].month =
                  PrimaryMonth(touched, request[p].months)]
    /\ Finish(p)
    /\ UNCHANGED <<today, rent>>

-----------------------------------------------------------------------------
(* Lifecycle transitions, deletion and edits                                *)

\* Math.max(0, period.allocatedAmount - allocation.amount)
LessReceiptAmount(r, m) == allocated[m] - receipt[r].amount
LessNothing(r, m)       == allocated[m]
LessEverything(r, m)    == 0
LessAllocation(r, m)    == Greater(0, allocated[m] - live[r][m])

\* reverseAllocationsForReceipt, inside its caller's transaction: the tenant whose
\* status it recomputes is the one the receipt names now.
Reverse(r) ==
    IF ~HoldsMoney(r) THEN UNCHANGED ledgerVars
    ELSE LET touched == {m \in Months : live[r][m] > 0}
             newAllocated == [m \in Months |->
                 IF m \in touched THEN LessAllocation(r, m) ELSE allocated[m]]
         IN  /\ WritePeriods(touched, rows, due, newAllocated,
                    [m \in Months |->
                        IF m \in touched /\ newAllocated[m] < due[m]
                        THEN NotPaid ELSE paidAt[m]])
             /\ tenantStatus' = IF receipt[r].tenant = Tenant
                                THEN RecomputedTenantStatus(rows) ELSE tenantStatus
             /\ live' = [live EXCEPT ![r] = NoMoney]

\* transitionReceipt reads the lifecycle and checks the move.
StartTransition(w, r, to) ==
    /\ Online /\ Idle(w)
    /\ Stored(r)
    /\ to \in Transitions[receipt[r].lifecycle]
    /\ request' = [request EXCEPT ![w] =
           [IdleRequest EXCEPT !.pc = "transition", !.receipt = r, !.target = to]]
    /\ UNCHANGED <<today, rent, ledgerVars, receipt>>

\* Its write, after the connector and the archive: unconditional on the
\* lifecycle read, and in one transaction with the reversal for a void.
ApplyTransition(w) ==
    /\ request[w].pc = "transition"
    /\ LET r  == request[w].receipt
           to == request[w].target
       IN  /\ Stored(r)
           /\ IF to = "voided" THEN Reverse(r) ELSE UNCHANGED ledgerVars
           /\ receipt' = [receipt EXCEPT ![r].lifecycle = to]
    /\ Finish(w)
    /\ UNCHANGED <<today, rent>>

\* receiptService.delete refuses a filed receipt, then deletes in a transaction.
MayDelete(r) == Stored(r) /\ receipt[r].lifecycle \notin FiledStates

StartDelete(w, r) ==
    /\ Online /\ Idle(w)
    /\ MayDelete(r)
    /\ request' = [request EXCEPT ![w] =
           [IdleRequest EXCEPT !.pc = "delete", !.receipt = r]]
    /\ UNCHANGED <<today, rent, ledgerVars, receipt>>

ApplyDelete(w) ==
    /\ request[w].pc = "delete"
    /\ LET r == request[w].receipt
       IN  /\ Stored(r)
           /\ Reverse(r)
           /\ receipt' = [receipt EXCEPT ![r].state = "deleted"]
    /\ Finish(w)
    /\ UNCHANGED <<today, rent>>

\* PUT /api/receipts/[id]: the receipt changes, its allocations do not.  It may be given
\* to another tenant, and keeps its lease if it has one; without, it is that tenant's
\* lease that allocateReceipt finds, and here the request ends (Abandon), as it does when
\* the receipt is no longer for rent.
UpdateReceipt(r, tenant, amount, date) ==
    /\ Online
    /\ Stored(r)
    /\ receipt' = [receipt EXCEPT ![r].tenant = tenant, ![r].amount = amount,
                                  ![r].date = date]
    /\ UNCHANGED <<today, rent, ledgerVars, request>>

\* A request ends without its next step: it returned early (a receipt already
\* allocated, an ambiguous lease, nothing to allocate), threw (a rolled-back
\* transaction, a refusal of the tax connector), or the process stopped.
Abandon(p) ==
    /\ ~Idle(p)
    /\ Finish(p)
    /\ UNCHANGED <<today, rent, ledgerVars, receipt>>

-----------------------------------------------------------------------------
(* The environment                                                          *)

\* PUT /api/leases/[id]: dueAmount of the months there are stays as it is.
ChangeRent(x) ==
    /\ Online
    /\ rent' = x
    /\ UNCHANGED <<today, ledgerVars, receipt, request>>

Tick ==
    /\ today < MaxTime
    /\ today' = today + 1
    /\ UNCHANGED <<rent, ledgerVars, receipt, request>>

Init ==
    /\ today = 0
    /\ rent \in Rents
    /\ rows = {}
    /\ due = NoMoney
    /\ allocated = NoMoney
    /\ paidAt = [m \in Months |-> NotPaid]
    /\ status = [m \in Months |-> "upcoming"]
    /\ tenantStatus = "pending"
    /\ receipt = [r \in Receipts |->
           [state |-> "unborn", tenant |-> Tenant, amount |-> 0, date |-> 0,
            lifecycle |-> "draft", month |-> 0]]
    /\ live = [r \in Receipts |-> NoMoney]
    /\ request = [p \in Procs |-> IdleRequest]

AllocationStep(p) == Load(p) \/ Generate(p) \/ Plan(p) \/ CommitAllocation(p)

ServerStep(w) ==
    \/ SeedLease(w)
    \/ \E r \in Receipts :
          \/ \E a \in Amounts, d \in Dates, l \in Sources :
                CreateReceipt(w, r, a, d, l)
          \/ \E to \in Targets : StartTransition(w, r, to)
          \/ StartDelete(w, r)
    \/ ApplyTransition(w)
    \/ ApplyDelete(w)

Next ==
    \/ \E w \in Workers : ServerStep(w)
    \/ \E p \in Procs : AllocationStep(p) \/ Abandon(p)
    \/ \E r \in Receipts : StartBackfill(r)
    \/ \E r \in Receipts, t \in Tenants, a \in Amounts, d \in Dates :
          UpdateReceipt(r, t, a, d)
    \/ \E x \in Rents : ChangeRent(x)
    \/ Tick

Spec == Init /\ [][Next]_vars

-----------------------------------------------------------------------------
(* Properties                                                               *)

\* One element for each cent of the live allocations on month m: their number
\* is the sum of the allocations, over any set of receipts.
Cents(m) == UNION {{r} \X (1..live[r][m]) : r \in Receipts}

\* A Receipt row; month 0 stands for a null rentPeriodId.
ReceiptRow ==
    [state: {"unborn", "stored", "deleted"}, tenant: Tenants, amount: Nat, date: Nat,
     lifecycle: Lifecycles, month: 0..LastMonth]

\* A request: where it is, and what it holds from its reads.
RequestRecord ==
    [pc: {"idle", "load", "generate", "plan", "commit", "transition", "delete"},
     receipt: Receipts \cup {NoReceipt}, amount: Nat, date: Nat, rent: Nat,
     months: SUBSET Months, plan: [Months -> Nat], target: Lifecycles]

\* Every variable keeps its type; the shape the proofs start from.
TypeOK ==
    /\ today \in 0..MaxTime
    /\ rent \in Rents
    /\ rows \in SUBSET Months
    /\ due \in [Months -> Nat]
    /\ allocated \in [Months -> Nat]
    /\ paidAt \in [Months -> Nat \cup {NotPaid}]
    /\ status \in [Months -> PeriodStatuses]
    /\ tenantStatus \in TenantStatuses
    /\ receipt \in [Receipts -> ReceiptRow]
    /\ live \in [Receipts -> [Months -> Nat]]
    /\ request \in [Procs -> RequestRecord]

\* The materialized total of a month is the sum of its non-reversed
\* allocations, however allocations and reversals interleave: a commit adds to
\* the total it re-reads, never to the one its plan was made from.
LedgerBalanced ==
    \A m \in Months :
        allocated[m] = Cardinality(Cents(m))

\* A month's persisted status agrees with its money: it reads paid exactly when
\* the money covers the rent due, has a payment date only then, and no month
\* that holds money reads due or overdue.
StatusFollowsMoney ==
    \A m \in rows :
        /\ status[m] \in PaidStatuses <=> allocated[m] >= due[m]
        /\ paidAt[m] # NotPaid => allocated[m] >= due[m]
        /\ status[m] = "partially_paid" => allocated[m] > 0
        /\ status[m] \in {"due", "overdue"} => allocated[m] = 0

\* A live allocation is always of a receipt that still exists, on a month that
\* has a row: a deletion never leaves money behind, and an allocation planned
\* before the deletion never lands after it.
MoneyHasReceipt ==
    \A r \in Receipts, m \in Months :
        live[r][m] > 0 => Stored(r) /\ m \in rows

\* A receipt that holds money points back at the oldest month it pays.
BackLink ==
    \A r \in Receipts :
        HoldsMoney(r) =>
            /\ receipt[r].month \in Months
            /\ live[r][receipt[r].month] > 0
            /\ \A m \in Months : live[r][m] > 0 => receipt[r].month <= m

\* A receipt's money reaches the ledger only while none of it is there: the
\* idempotency check, made before the transaction, still holds inside it.
AllocatedOnce ==
    [][\A r \in Receipts, m \in Months :
         live'[r][m] > live[r][m] => ~HoldsMoney(r)]_vars

\* No cent is minted: when a receipt's money enters the ledger it adds up to no
\* more than the amount its request read from the receipt, whatever the months
\* have become since the plan was made.
NoMoneyMinted ==
    [][\A r \in Receipts :
         ~HoldsMoney(r) /\ HoldsMoney(r)' =>
            \E p \in Procs : /\ request[p].receipt = r
                             /\ PlanTotal(live'[r], LastMonth) <= request[p].amount]_vars

\* A tenant who reads overdue owes: a month that has come is short of its rent.  The
\* status is derived when money moves and then kept, while months are added, a void or
\* a deletion of a receipt given to another tenant recomputes that tenant's, and the
\* months keep the statuses of an earlier day (allocation/service.ts:221-232, 313-322).
OverdueTenantOwes ==
    tenantStatus = "overdue" =>
        \E m \in rows : m <= today /\ allocated[m] < due[m]

\* The waterfall never skips a month: when money lands on a month, every older
\* month that has a row is full.
NoSkippedMonth ==
    [][\A m \in Months : allocated'[m] > allocated[m] =>
         \A k \in rows' : k < m => allocated'[k] >= due'[k]]_vars

\* A receipt never leaves a terminal state of its lifecycle.
TerminalStays ==
    [][\A r \in Receipts :
         Stored(r) /\ receipt[r].lifecycle \in TerminalStates =>
            receipt'[r].lifecycle = receipt[r].lifecycle]_vars

-----------------------------------------------------------------------------
(* Refinement                                                               *)

Account == INSTANCE RentAccount WITH owed <- due, paid <- allocated, holds <- live

\* However requests interleave, whatever the rent does and wherever the server
\* stops: a receipt's money enters the account in one step, while none of it is
\* there, and leaves it in one step, month by month as it came.
MovesWhole == Account!WholeSpec

\* One request at a time and a rent that does not change: the ledger behaves as
\* the account, so every entry also goes to the oldest open months.
ImplementsAccount == Account!Spec

\* What the account promises of its months the ledger then keeps too: no month
\* is ever allocated more than it is due, over any series of allocations, voids
\* and deletions.
NeverOverfilled == Account!NeverOverfilled
=============================================================================
