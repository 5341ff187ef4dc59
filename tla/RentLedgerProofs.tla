-------------------------- MODULE RentLedgerProofs --------------------------
(***************************************************************************)
(* Proofs about RentLedger, for any number of receipts, requests and months *)
(* and any amounts.                                                        *)
(*                                                                         *)
(* The ledger's own invariants do not say why a commit may trust the check  *)
(* its request made two awaits earlier.  RequestsSound adds that: of all    *)
(* requests only one is ever allocating a given receipt, so nobody else can *)
(* have put money on it since.                                             *)
(***************************************************************************)
EXTENDS RentLedger, AllocationEngineProofs

\* p is on its way to give its receipt's money to the months.
Allocating(p) ==
    \/ request[p].pc \in {"load", "plan", "commit"}
    \/ request[p].pc = "generate" /\ request[p].receipt # NoReceipt

\* Past the idempotency check.
Checked(p) == Allocating(p) /\ request[p].pc # "load"

NamesReceipt ==
    \A p \in Procs :
        /\ Allocating(p) => /\ request[p].receipt \in Receipts
                            /\ receipt[request[p].receipt].state # "unborn"
        /\ request[p].pc \in {"transition", "delete"} =>
               request[p].receipt \in Receipts

CheckStillHolds == \A p \in Procs : Checked(p) => ~HoldsMoney(request[p].receipt)

OneAllocator ==
    \A p, q \in Procs :
        Allocating(p) /\ Allocating(q) /\ p # q =>
            request[p].receipt # request[q].receipt

PlansMoney == \A p \in Procs : request[p].pc = "commit" => request[p].plan # NoMoney

RequestsSound == NamesReceipt /\ CheckStillHolds /\ OneAllocator /\ PlansMoney

CentsFinite == \A m \in Months : IsFiniteSet(Cents(m))

IInv == /\ TypeOK /\ RequestsSound
        /\ MoneyHasReceipt /\ CentsFinite /\ LedgerBalanced
        /\ StatusFollowsMoney /\ BackLink

-----------------------------------------------------------------------------
(* Facts about the operators                                                *)

\* A derived status is one of the persisted ones.
LEMMA DerivedStatuses ==
  /\ \A m, d, a, f, t : DerivePeriodStatus(m, d, a, f, t) \in PeriodStatuses
  /\ \A s : DeriveTenantStatus(s) \in TenantStatuses
BY DEF DerivePeriodStatus, DeriveTenantStatus, PeriodStatuses, TenantStatuses

\* The month a receipt points back at is the oldest one its money touches.
LEMMA PrimaryMonthIsOldest ==
  ASSUME NEW touched \in SUBSET Months, touched # {}, NEW known
  PROVE  /\ PrimaryMonth(touched, known) \in touched
         /\ \A k \in touched : PrimaryMonth(touched, known) <= k
<1>1. touched \subseteq Nat
  BY DEF Months
<1>2. \E m \in touched : \A k \in touched : m <= k
  BY <1>1, LeastElement
<1>3. QED
  BY <1>2 DEF PrimaryMonth

\* A plan that is not empty touches a month.
LEMMA PlanTouches ==
  ASSUME NEW plan \in [Months -> Nat], plan # NoMoney
  PROVE  {m \in Months : plan[m] > 0} # {}
BY DEF NoMoney

-----------------------------------------------------------------------------
(* Types                                                                    *)

\* What the ledger tables hold.
LedgerType ==
    /\ rows \in SUBSET Months
    /\ due \in [Months -> Nat]
    /\ allocated \in [Months -> Nat]
    /\ paidAt \in [Months -> Nat \cup {NotPaid}]
    /\ status \in [Months -> PeriodStatuses]
    /\ tenantStatus \in TenantStatuses
    /\ live \in [Receipts -> [Months -> Nat]]

LEMMA IdleRequestType == IdleRequest \in RequestRecord
BY DEF IdleRequest, RequestRecord, NoMoney, Lifecycles

LEMMA InitType == Init => TypeOK
<1> SUFFICES ASSUME Init PROVE TypeOK
  OBVIOUS
<1> USE DEF Init
<1>1. NoMoney \in [Months -> Nat]
  BY DEF NoMoney
<1>2. today \in 0..MaxTime /\ rent \in Rents
  BY TimeAssumption
<1>3. rows \in SUBSET Months /\ due \in [Months -> Nat] /\ allocated \in [Months -> Nat]
  BY <1>1
<1>4. /\ paidAt \in [Months -> Nat \cup {NotPaid}]
      /\ status \in [Months -> PeriodStatuses]
      /\ tenantStatus \in TenantStatuses
  BY DEF PeriodStatuses, TenantStatuses
<1>5. receipt \in [Receipts -> ReceiptRow]
  BY TimeAssumption, TenantAssumption DEF ReceiptRow, Lifecycles
<1>6. live \in [Receipts -> [Months -> Nat]]
  BY <1>1
<1>7. request \in [Procs -> RequestRecord]
  BY IdleRequestType
<1>8. QED
  BY <1>2, <1>3, <1>4, <1>5, <1>6, <1>7 DEF TypeOK

\* A write of the months keeps their types.
LEMMA WritePeriodsType ==
  ASSUME TypeOK, NEW touched, NEW newRows \in SUBSET Months,
         NEW newDue \in [Months -> Nat], NEW newAllocated \in [Months -> Nat],
         NEW newPaidAt \in [Months -> Nat \cup {NotPaid}],
         WritePeriods(touched, newRows, newDue, newAllocated, newPaidAt),
         live' \in [Receipts -> [Months -> Nat]], tenantStatus' \in TenantStatuses
  PROVE  LedgerType'
<1>1. /\ rows' \in SUBSET Months /\ due' \in [Months -> Nat]
      /\ allocated' \in [Months -> Nat]
      /\ paidAt' \in [Months -> Nat \cup {NotPaid}]
  BY DEF WritePeriods
<1>2. status' \in [Months -> PeriodStatuses]
  BY DerivedStatuses DEF WritePeriods, TypeOK
<1>3. QED
  BY <1>1, <1>2 DEF LedgerType

LEMMA ReverseType ==
  ASSUME TypeOK, NEW r \in Receipts, Reverse(r)
  PROVE  LedgerType'
<1>1. CASE ~HoldsMoney(r)
  BY <1>1 DEF Reverse, ledgerVars, LedgerType, TypeOK
<1>2. CASE HoldsMoney(r)
  <2> DEFINE touched == {m \in Months : live[r][m] > 0}
             newAllocated == [m \in Months |->
                 IF m \in touched THEN LessAllocation(r, m) ELSE allocated[m]]
             newPaidAt == [m \in Months |->
                 IF m \in touched /\ newAllocated[m] < due[m]
                 THEN NotPaid ELSE paidAt[m]]
  <2>1. /\ WritePeriods(touched, rows, due, newAllocated, newPaidAt)
        /\ live' = [live EXCEPT ![r] = NoMoney]
        /\ tenantStatus' = RecomputedTenantStatus(rows) \/ tenantStatus' = tenantStatus
    BY <1>2 DEF Reverse
  <2>2. newAllocated \in [Months -> Nat]
    BY DEF TypeOK, LessAllocation, Greater
  <2>3. newPaidAt \in [Months -> Nat \cup {NotPaid}]
    BY DEF TypeOK
  <2>4. live' \in [Receipts -> [Months -> Nat]]
    BY <2>1 DEF TypeOK, NoMoney
  <2>5. rows \in SUBSET Months /\ due \in [Months -> Nat]
    BY DEF TypeOK
  <2> HIDE DEF touched, newAllocated, newPaidAt
  <2>6. tenantStatus' \in TenantStatuses
    BY <2>1, DerivedStatuses DEF TypeOK, RecomputedTenantStatus
  <2>7. QED
    BY <2>1, <2>2, <2>3, <2>4, <2>5, <2>6, WritePeriodsType
<1>3. QED
  BY <1>1, <1>2

\* Generate and CommitAllocation write the months; so does Reverse, above.
LEMMA GenerateType ==
  ASSUME TypeOK, NEW p \in Procs, Generate(p)
  PROVE  LedgerType' /\ request' \in [Procs -> RequestRecord]
<1> DEFINE new == request[p].months
           amt == request[p].rent
<1>1. new \in SUBSET Months /\ amt \in Nat
  BY DEF TypeOK, RequestRecord
<1>2. rows' \in SUBSET Months
  BY <1>1 DEF Generate, TypeOK
<1>3. due' \in [Months -> Nat] /\ allocated' \in [Months -> Nat]
  BY <1>1 DEF Generate, TypeOK
<1>4. paidAt' \in [Months -> Nat \cup {NotPaid}]
  BY DEF Generate, TypeOK
<1>5. status' \in [Months -> PeriodStatuses]
  BY DerivedStatuses DEF Generate, TypeOK
<1>6. tenantStatus' \in TenantStatuses /\ live' \in [Receipts -> [Months -> Nat]]
  BY DEF Generate, TypeOK
<1>7. request' \in [Procs -> RequestRecord]
  BY IdleRequestType DEF Generate, TypeOK, RequestRecord
<1>8. QED
  BY <1>2, <1>3, <1>4, <1>5, <1>6, <1>7 DEF LedgerType

LEMMA CommitType ==
  ASSUME TypeOK, RequestsSound, NEW p \in Procs, CommitAllocation(p)
  PROVE  LedgerType' /\ receipt' \in [Receipts -> ReceiptRow]
<1> DEFINE r == request[p].receipt
           plan == request[p].plan
           touched == {m \in Months : plan[m] > 0}
           newDue == [m \in Months |->
                         IF m \in touched \ rows THEN request[p].rent ELSE due[m]]
           newAllocated == [m \in Months |-> allocated[m] + plan[m]]
           newPaidAt == [m \in Months |->
                            IF m \notin touched THEN paidAt[m]
                            ELSE IF newAllocated[m] >= newDue[m]
                                 THEN request[p].date ELSE NotPaid]
<1>1. /\ r \in Receipts /\ plan \in [Months -> Nat] /\ plan # NoMoney
      /\ request[p].rent \in Nat /\ request[p].date \in Nat
  BY DEF CommitAllocation, RequestsSound, NamesReceipt, PlansMoney, Allocating,
         TypeOK, RequestRecord
<1>2. /\ WritePeriods(touched, rows \cup touched, newDue, newAllocated, newPaidAt)
      /\ live' = [live EXCEPT ![r] = [m \in Months |-> live[r][m] + plan[m]]]
      /\ receipt' = [receipt EXCEPT ![r].month =
                        PrimaryMonth(touched, request[p].months)]
      /\ tenantStatus' = RecomputedTenantStatus(rows \cup touched)
  BY DEF CommitAllocation
<1>3. rows \cup touched \in SUBSET Months
  BY DEF TypeOK
<1>4. newDue \in [Months -> Nat] /\ newAllocated \in [Months -> Nat]
  BY <1>1 DEF TypeOK
<1>5. newPaidAt \in [Months -> Nat \cup {NotPaid}]
  BY <1>1 DEF TypeOK
<1>6. live' \in [Receipts -> [Months -> Nat]]
  BY <1>1, <1>2 DEF TypeOK
<1>7. PrimaryMonth(touched, request[p].months) \in Months
  BY <1>1, PlanTouches, PrimaryMonthIsOldest
<1>8. receipt' \in [Receipts -> ReceiptRow]
  <2> DEFINE month == PrimaryMonth(touched, request[p].months)
  <2>1. month \in 0..LastMonth
    BY <1>7 DEF Months
  <2>2. receipt' = [receipt EXCEPT ![r].month = month]
    BY <1>2
  <2> HIDE DEF month
  <2>3. QED
    BY <1>1, <2>1, <2>2 DEF TypeOK, ReceiptRow
<1> HIDE DEF touched, newDue, newAllocated, newPaidAt
<1>9. tenantStatus' \in TenantStatuses
  BY <1>2, DerivedStatuses DEF RecomputedTenantStatus
<1>10. QED
  BY <1>2, <1>3, <1>4, <1>5, <1>6, <1>8, <1>9, WritePeriodsType

\* Every step keeps the types.
LEMMA TypeStep == TypeOK /\ RequestsSound /\ [Next]_vars => TypeOK'
<1> SUFFICES ASSUME TypeOK, RequestsSound, [Next]_vars PROVE TypeOK'
  OBVIOUS
<1>1. ASSUME LedgerType', receipt' \in [Receipts -> ReceiptRow],
             request' \in [Procs -> RequestRecord],
             UNCHANGED <<today, rent>>
      PROVE  TypeOK'
  BY <1>1 DEF TypeOK, LedgerType
<1>2. ASSUME UNCHANGED ledgerVars PROVE LedgerType'
  BY <1>2 DEF ledgerVars, LedgerType, TypeOK
<1>3. ASSUME NEW p \in Procs, Finish(p) PROVE request' \in [Procs -> RequestRecord]
  BY <1>3, IdleRequestType DEF Finish, TypeOK
<1>4. \A w \in Workers : w \in Procs
  BY DEF Procs
<1>5. CASE UNCHANGED vars
  BY <1>5 DEF vars, TypeOK
<1>6. ASSUME NEW w \in Workers, NEW r \in Receipts, NEW a \in Amounts, NEW d \in Dates,
             NEW l \in Sources, CreateReceipt(w, r, a, d, l)
      PROVE  TypeOK'
  <2>1. a \in Nat /\ d \in Nat /\ l \in Lifecycles
    BY MoneyAssumption, TimeAssumption, LifecycleAssumption DEF Lifecycles
  <2>2. receipt' \in [Receipts -> ReceiptRow]
    BY <1>6, <2>1, TimeAssumption, TenantAssumption DEF CreateReceipt, TypeOK, ReceiptRow
  <2>3. request' \in [Procs -> RequestRecord]
    BY <1>4, <1>6, IdleRequestType DEF CreateReceipt, TypeOK, RequestRecord
  <2>4. QED
    BY <1>1, <1>2, <1>6, <2>2, <2>3 DEF CreateReceipt
<1>7. ASSUME NEW r \in Receipts, StartBackfill(r) PROVE TypeOK'
  <2>1. request' \in [Procs -> RequestRecord]
    BY <1>7, IdleRequestType DEF StartBackfill, TypeOK, RequestRecord, Procs
  <2>2. QED
    BY <1>1, <1>2, <1>7, <2>1 DEF StartBackfill, TypeOK
<1>8. ASSUME NEW w \in Workers, SeedLease(w) PROVE TypeOK'
  <2>1. rent \in Nat /\ WantedMonths \in SUBSET Months
    BY MoneyAssumption DEF TypeOK, WantedMonths
  <2>2. request' \in [Procs -> RequestRecord]
    BY <1>4, <1>8, <2>1, IdleRequestType DEF SeedLease, TypeOK, RequestRecord
  <2>3. QED
    BY <1>1, <1>2, <1>8, <2>2 DEF SeedLease, TypeOK
<1>9. ASSUME NEW p \in Procs, Load(p) PROVE TypeOK'
  <2>1. rent \in Nat /\ WantedMonths \ rows \in SUBSET Months
    BY MoneyAssumption DEF TypeOK, WantedMonths
  <2>2. request[p].receipt \in Receipts
    BY <1>9 DEF Load, RequestsSound, NamesReceipt, Allocating
  <2>3. receipt[request[p].receipt].amount \in Nat /\ receipt[request[p].receipt].date \in Nat
    BY <2>2 DEF TypeOK, ReceiptRow
  <2> DEFINE r == request[p].receipt
             missing == WantedMonths \ rows
             x == [request[p] EXCEPT
                      !.pc     = IF missing = {} THEN "plan" ELSE "generate",
                      !.amount = receipt[r].amount,
                      !.date   = receipt[r].date,
                      !.rent   = rent,
                      !.months = missing]
  <2>4. request' = [request EXCEPT ![p] = x]
    BY <1>9 DEF Load
  <2>5. request[p] \in RequestRecord
    BY DEF TypeOK
  <2> HIDE DEF missing
  <2>6. x \in RequestRecord
    BY <2>1, <2>3, <2>5 DEF RequestRecord, missing
  <2> HIDE DEF x
  <2>7. request' \in [Procs -> RequestRecord]
    BY <2>4, <2>6 DEF TypeOK
  <2>8. QED
    BY <1>1, <1>2, <1>9, <2>7 DEF Load, TypeOK
<1>10. ASSUME NEW p \in Procs, Generate(p) PROVE TypeOK'
  BY <1>1, <1>10, GenerateType DEF Generate, TypeOK
<1>11. ASSUME NEW p \in Procs, Plan(p) PROVE TypeOK'
  <2> DEFINE plan == PlanAllocation(request[p].amount, rows, due, allocated,
                                    Horizon, LastMonth)
  <2>1. plan \in [Months -> Nat]
    BY PlanType, TimeAssumption DEF TypeOK, RequestRecord, Months
  <2>2. rent \in Nat /\ rows \in SUBSET Months
    BY MoneyAssumption DEF TypeOK
  <2> DEFINE x == [request[p] EXCEPT !.pc = "commit", !.plan = plan,
                                    !.rent = rent, !.months = rows]
  <2>3. request' = [request EXCEPT ![p] = x] /\ request[p] \in RequestRecord
    BY <1>11 DEF Plan, TypeOK
  <2> HIDE DEF plan
  <2>4. x \in RequestRecord
    BY <2>1, <2>2, <2>3 DEF RequestRecord
  <2> HIDE DEF x
  <2>5. request' \in [Procs -> RequestRecord]
    BY <2>3, <2>4 DEF TypeOK
  <2>6. QED
    BY <1>1, <1>2, <1>11, <2>5 DEF Plan, TypeOK
<1>12. ASSUME NEW p \in Procs, CommitAllocation(p) PROVE TypeOK'
  BY <1>1, <1>3, <1>12, CommitType DEF CommitAllocation
<1>13. ASSUME NEW w \in Workers, NEW r \in Receipts, NEW to \in Targets,
              StartTransition(w, r, to)
       PROVE  TypeOK'
  <2>1. to \in Lifecycles
    BY LifecycleAssumption DEF Lifecycles
  <2>2. request' \in [Procs -> RequestRecord]
    BY <1>4, <1>13, <2>1, IdleRequestType DEF StartTransition, TypeOK, RequestRecord
  <2>3. QED
    BY <1>1, <1>2, <1>13, <2>2 DEF StartTransition, TypeOK
<1>14. ASSUME NEW w \in Workers, ApplyTransition(w) PROVE TypeOK'
  <2>1. request[w].receipt \in Receipts
    BY <1>4, <1>14 DEF ApplyTransition, RequestsSound, NamesReceipt
  <2>2. request[w].target \in Lifecycles
    BY <1>4 DEF TypeOK, RequestRecord
  <2>3. receipt' \in [Receipts -> ReceiptRow]
    BY <1>14, <2>2 DEF ApplyTransition, TypeOK, ReceiptRow
  <2>4. LedgerType'
    BY <1>2, <1>14, <2>1, ReverseType DEF ApplyTransition
  <2>5. QED
    BY <1>1, <1>3, <1>4, <1>14, <2>3, <2>4 DEF ApplyTransition
<1>15. ASSUME NEW w \in Workers, NEW r \in Receipts, StartDelete(w, r) PROVE TypeOK'
  <2>1. request' \in [Procs -> RequestRecord]
    BY <1>4, <1>15, IdleRequestType DEF StartDelete, TypeOK, RequestRecord
  <2>2. QED
    BY <1>1, <1>2, <1>15, <2>1 DEF StartDelete, TypeOK
<1>16. ASSUME NEW w \in Workers, ApplyDelete(w) PROVE TypeOK'
  <2>1. request[w].receipt \in Receipts
    BY <1>4, <1>16 DEF ApplyDelete, RequestsSound, NamesReceipt
  <2>2. receipt' \in [Receipts -> ReceiptRow]
    BY <1>16 DEF ApplyDelete, TypeOK, ReceiptRow
  <2>3. LedgerType'
    BY <1>16, <2>1, ReverseType DEF ApplyDelete
  <2>4. QED
    BY <1>1, <1>3, <1>4, <1>16, <2>2, <2>3 DEF ApplyDelete
<1>17. ASSUME NEW r \in Receipts, NEW t \in Tenants, NEW a \in Amounts, NEW d \in Dates,
              UpdateReceipt(r, t, a, d)
       PROVE  TypeOK'
  <2>1. receipt' \in [Receipts -> ReceiptRow]
    <3>1. a \in Nat /\ d \in Nat
      BY MoneyAssumption, TimeAssumption
    <3>2. [receipt[r] EXCEPT !.tenant = t, !.amount = a, !.date = d] \in ReceiptRow
      BY <3>1 DEF TypeOK, ReceiptRow
    <3>3. receipt' = [receipt EXCEPT ![r] =
                         [receipt[r] EXCEPT !.tenant = t, !.amount = a, !.date = d]]
      BY <1>17 DEF UpdateReceipt, TypeOK
    <3>4. QED
      BY <3>2, <3>3 DEF TypeOK
  <2>2. QED
    BY <1>1, <1>2, <1>17, <2>1 DEF UpdateReceipt, TypeOK
<1>18. ASSUME NEW p \in Procs, Abandon(p) PROVE TypeOK'
  BY <1>1, <1>2, <1>3, <1>18 DEF Abandon, TypeOK
<1>19. ASSUME NEW x \in Rents, ChangeRent(x) PROVE TypeOK'
  BY <1>19 DEF ChangeRent, TypeOK, ledgerVars
<1>20. CASE Tick
  BY <1>20, TimeAssumption DEF Tick, TypeOK, ledgerVars
<1>21. QED
  BY <1>5, <1>6, <1>7, <1>8, <1>9, <1>10, <1>11, <1>12, <1>13, <1>14, <1>15, <1>16,
     <1>17, <1>18, <1>19, <1>20 DEF Next, ServerStep, AllocationStep

-----------------------------------------------------------------------------
(* The requests in flight                                                   *)

\* Reverse takes a receipt's money off the ledger and touches no other's.
LEMMA ReverseClears ==
  ASSUME TypeOK, NEW r \in Receipts, Reverse(r)
  PROVE  /\ \A s \in Receipts, m \in Months : s # r => live'[s][m] = live[s][m]
         /\ \A m \in Months : live'[r][m] = 0
<1>1. CASE ~HoldsMoney(r)
  <2>1. \A m \in Months : live[r][m] \in Nat /\ ~(live[r][m] > 0)
    BY <1>1 DEF HoldsMoney, TypeOK
  <2>2. live' = live
    BY <1>1 DEF Reverse, ledgerVars
  <2>3. QED
    BY <2>1, <2>2
<1>2. CASE HoldsMoney(r)
  <2>1. live' = [live EXCEPT ![r] = NoMoney]
    BY <1>2 DEF Reverse
  <2>2. QED
    BY <2>1 DEF TypeOK, NoMoney
<1>3. QED
  BY <1>1, <1>2

\* What a step that rewrites only p's request has to keep for RequestsSound.
LEMMA OneRequestChanges ==
  ASSUME TypeOK, RequestsSound, NEW p \in Procs, NEW x,
         request' = [request EXCEPT ![p] = x],
         \A r \in Receipts : receipt[r].state # "unborn" => receipt'[r].state # "unborn",
         \A q \in Procs : q # p /\ Checked(q) =>
             \A m \in Months : ~(live'[request[q].receipt][m] > 0),
         Allocating(p)' =>
             /\ x.receipt \in Receipts /\ receipt'[x.receipt].state # "unborn"
             /\ \A q \in Procs : q # p /\ Allocating(q) => request[q].receipt # x.receipt,
         x.pc \in {"transition", "delete"} => x.receipt \in Receipts,
         Checked(p)' => \A m \in Months : ~(live'[x.receipt][m] > 0),
         x.pc = "commit" => x.plan # NoMoney
  PROVE  RequestsSound'
<1>1. request'[p] = x /\ \A q \in Procs : q # p => request'[q] = request[q]
  BY DEF TypeOK
<1>2. \A q \in Procs : q # p => /\ Allocating(q)' <=> Allocating(q)
                                /\ Checked(q)' <=> Checked(q)
  BY <1>1 DEF Allocating, Checked
<1>3. NamesReceipt'
  BY <1>1, <1>2 DEF RequestsSound, NamesReceipt
<1>4. CheckStillHolds'
  BY <1>1, <1>2 DEF CheckStillHolds, HoldsMoney
<1>5. OneAllocator'
  BY <1>1, <1>2 DEF RequestsSound, OneAllocator
<1>6. PlansMoney'
  BY <1>1 DEF RequestsSound, PlansMoney
<1>7. QED
  BY <1>3, <1>4, <1>5, <1>6 DEF RequestsSound

\* What a step that changes no request has to keep.
LEMMA NoRequestChanges ==
  ASSUME RequestsSound, UNCHANGED <<request, live>>,
         \A r \in Receipts : receipt[r].state # "unborn" => receipt'[r].state # "unborn"
  PROVE  RequestsSound'
<1>1. \A q \in Procs : Allocating(q)' <=> Allocating(q)
  BY DEF Allocating
<1>2. NamesReceipt'
  BY <1>1 DEF RequestsSound, NamesReceipt
<1>3. CheckStillHolds'
  BY <1>1 DEF RequestsSound, CheckStillHolds, Checked, HoldsMoney
<1>4. OneAllocator' /\ PlansMoney'
  BY <1>1 DEF RequestsSound, OneAllocator, PlansMoney
<1>5. QED
  BY <1>2, <1>3, <1>4 DEF RequestsSound

\* Money off a receipt stays off while its request is past the check.
LEMMA StillOff ==
  ASSUME RequestsSound, NEW q \in Procs, Checked(q)
  PROVE  \A m \in Months : ~(live[request[q].receipt][m] > 0)
BY DEF RequestsSound, CheckStillHolds, HoldsMoney

\* An idle request keeps nothing.
LEMMA IdleIsSound ==
  ASSUME TypeOK, RequestsSound, NEW p \in Procs, Finish(p),
         \A r \in Receipts : receipt[r].state # "unborn" => receipt'[r].state # "unborn",
         \A q \in Procs : q # p /\ Checked(q) =>
             \A m \in Months : ~(live'[request[q].receipt][m] > 0)
  PROVE  RequestsSound'
<1>1. request' = [request EXCEPT ![p] = IdleRequest] /\ request'[p] = IdleRequest
  BY DEF Finish, TypeOK
<1>2. ~Allocating(p)' /\ ~Checked(p)'
  BY <1>1 DEF Allocating, Checked, IdleRequest
<1>3. IdleRequest.pc = "idle"
  BY DEF IdleRequest
<1> HIDE DEF Finish
<1>4. QED
  BY <1>1, <1>2, <1>3, OneRequestChanges

\* An allocation goes on: its receipt stays the same, and holds no money yet.
LEMMA AllocationGoesOn ==
  ASSUME TypeOK, RequestsSound, NEW p \in Procs, NEW x,
         Allocating(p), UNCHANGED <<receipt, live>>,
         request' = [request EXCEPT ![p] = x],
         x.receipt = request[p].receipt,
         x.pc \notin {"transition", "delete"},
         ~HoldsMoney(request[p].receipt),
         x.pc = "commit" => x.plan # NoMoney
  PROVE  RequestsSound'
<1>1. x.receipt \in Receipts /\ receipt[x.receipt].state # "unborn"
  BY DEF RequestsSound, NamesReceipt
<1>2. \A q \in Procs : q # p /\ Allocating(q) => request[q].receipt # x.receipt
  BY DEF RequestsSound, OneAllocator
<1>3. \A m \in Months : ~(live'[x.receipt][m] > 0)
  BY DEF HoldsMoney
<1>4. \A q \in Procs : q # p /\ Checked(q) =>
         \A m \in Months : ~(live'[request[q].receipt][m] > 0)
  BY StillOff
<1>5. QED
  BY <1>1, <1>2, <1>3, <1>4, OneRequestChanges

\* Every step keeps the requests sound.
LEMMA RequestsStep == TypeOK /\ RequestsSound /\ [Next]_vars => RequestsSound'
<1> SUFFICES ASSUME TypeOK, RequestsSound, [Next]_vars PROVE RequestsSound'
  OBVIOUS
<1> USE DEF Stored
<1>1. \A w \in Workers : w \in Procs
  BY DEF Procs
<1>2. ASSUME UNCHANGED receipt
      PROVE  \A r \in Receipts :
                 receipt[r].state # "unborn" => receipt'[r].state # "unborn"
  BY <1>2
<1>3. ASSUME UNCHANGED live, NEW p \in Procs
      PROVE  \A q \in Procs : q # p /\ Checked(q) =>
                 \A m \in Months : ~(live'[request[q].receipt][m] > 0)
  BY <1>3, StillOff
<1>4. CASE UNCHANGED vars
  BY <1>2, <1>4, NoRequestChanges DEF vars
<1>5. ASSUME NEW w \in Workers, NEW r \in Receipts, NEW a \in Amounts, NEW d \in Dates,
             NEW l \in Sources, CreateReceipt(w, r, a, d, l)
      PROVE  RequestsSound'
  <2> DEFINE x == [IdleRequest EXCEPT !.pc = "load", !.receipt = r]
  <2>1. request' = [request EXCEPT ![w] = x] /\ request'[w] = x /\ UNCHANGED live
    BY <1>1, <1>5 DEF CreateReceipt, TypeOK, ledgerVars
  <2>2. x.pc = "load" /\ x.receipt = r
    BY DEF IdleRequest
  <2>3. \A s \in Receipts : receipt[s].state # "unborn" => receipt'[s].state # "unborn"
    BY <1>5 DEF CreateReceipt, TypeOK
  <2>4. receipt'[r].state # "unborn" /\ receipt[r].state = "unborn"
    BY <1>5 DEF CreateReceipt, TypeOK
  <2>5. \A q \in Procs : Allocating(q) => request[q].receipt # r
    BY <2>4 DEF RequestsSound, NamesReceipt
  <2>6. ~Checked(w)'
    BY <2>1, <2>2 DEF Checked
  <2> HIDE DEF x
  <2>7. QED
    BY <1>1, <1>3, <2>1, <2>2, <2>3, <2>4, <2>5, <2>6, OneRequestChanges
<1>6. ASSUME NEW r \in Receipts, StartBackfill(r) PROVE RequestsSound'
  <2> DEFINE x == [IdleRequest EXCEPT !.pc = "load", !.receipt = r]
  <2>1. Script \in Procs
    BY DEF Procs
  <2>2. /\ request' = [request EXCEPT ![Script] = x] /\ request'[Script] = x
        /\ UNCHANGED <<live, receipt>>
    BY <1>6, <2>1 DEF StartBackfill, TypeOK, ledgerVars
  <2>3. x.pc = "load" /\ x.receipt = r
    BY DEF IdleRequest
  <2>4. receipt'[r].state # "unborn"
    BY <1>6, <2>2 DEF StartBackfill
  <2>5. \A q \in Procs : ~Allocating(q)
    BY <1>6 DEF StartBackfill, Idle, Allocating
  <2>6. ~Checked(Script)'
    BY <2>2, <2>3 DEF Checked
  <2> HIDE DEF x
  <2>7. QED
    BY <1>2, <1>3, <2>1, <2>2, <2>3, <2>4, <2>5, <2>6, OneRequestChanges
<1>7. ASSUME NEW w \in Workers, SeedLease(w) PROVE RequestsSound'
  <2> DEFINE x == [IdleRequest EXCEPT !.pc = "generate", !.rent = rent,
                                     !.months = WantedMonths]
  <2>1. /\ request' = [request EXCEPT ![w] = x] /\ request'[w] = x
        /\ UNCHANGED <<live, receipt>>
    BY <1>1, <1>7 DEF SeedLease, TypeOK, ledgerVars
  <2>2. x.pc = "generate" /\ x.receipt = NoReceipt
    BY DEF IdleRequest
  <2>3. ~Allocating(w)' /\ ~Checked(w)'
    BY <2>1, <2>2 DEF Checked, Allocating
  <2> HIDE DEF x
  <2>4. QED
    BY <1>1, <1>2, <1>3, <2>1, <2>2, <2>3, OneRequestChanges
<1>9. ASSUME NEW p \in Procs, Load(p) PROVE RequestsSound'
  <2> DEFINE missing == WantedMonths \ rows
             x == [request[p] EXCEPT
                      !.pc     = IF missing = {} THEN "plan" ELSE "generate",
                      !.amount = receipt[request[p].receipt].amount,
                      !.date   = receipt[request[p].receipt].date,
                      !.rent   = rent,
                      !.months = missing]
  <2>1. /\ request' = [request EXCEPT ![p] = x] /\ UNCHANGED <<receipt, live>>
        /\ request[p].pc = "load" /\ ~HoldsMoney(request[p].receipt)
    BY <1>9 DEF Load, MayAllocate, ledgerVars
  <2>2. /\ x.receipt = request[p].receipt /\ x.pc # "commit"
        /\ x.pc \notin {"transition", "delete"}
    BY DEF TypeOK, RequestRecord
  <2>3. Allocating(p)
    BY <2>1 DEF Allocating
  <2> HIDE DEF x
  <2>4. QED
    BY <2>1, <2>2, <2>3, AllocationGoesOn
<1>10. ASSUME NEW p \in Procs, Generate(p) PROVE RequestsSound'
  <2>1. /\ UNCHANGED <<receipt, live>> /\ request[p].pc = "generate"
        /\ request' = [request EXCEPT ![p] =
               IF request[p].receipt = NoReceipt THEN IdleRequest
               ELSE [request[p] EXCEPT !.pc = "plan", !.months = {}]]
    BY <1>10 DEF Generate
  <2>2. CASE request[p].receipt = NoReceipt
    <3>1. Finish(p)
      BY <2>1, <2>2 DEF Finish
    <3>2. QED
      BY <1>2, <1>3, <2>1, <3>1, IdleIsSound
  <2>3. CASE request[p].receipt # NoReceipt
    <3> DEFINE x == [request[p] EXCEPT !.pc = "plan", !.months = {}]
    <3>1. request' = [request EXCEPT ![p] = x]
      BY <2>1, <2>3
    <3>2. /\ x.receipt = request[p].receipt /\ x.pc # "commit"
          /\ x.pc \notin {"transition", "delete"}
      BY DEF TypeOK, RequestRecord
    <3>3. Allocating(p) /\ Checked(p)
      BY <2>1, <2>3 DEF Allocating, Checked
    <3>4. ~HoldsMoney(request[p].receipt)
      BY <3>3 DEF RequestsSound, CheckStillHolds
    <3> HIDE DEF x
    <3>5. QED
      BY <2>1, <3>1, <3>2, <3>3, <3>4, AllocationGoesOn
  <2>4. QED
    BY <2>2, <2>3
<1>11. ASSUME NEW p \in Procs, Plan(p) PROVE RequestsSound'
  <2> DEFINE plan == PlanAllocation(request[p].amount, rows, due, allocated,
                                    Horizon, LastMonth)
             x == [request[p] EXCEPT !.pc = "commit", !.plan = plan,
                                    !.rent = rent, !.months = rows]
  <2>1. /\ request' = [request EXCEPT ![p] = x] /\ UNCHANGED <<receipt, live>>
        /\ request[p].pc = "plan" /\ plan # NoMoney
    BY <1>11 DEF Plan, ledgerVars
  <2> HIDE DEF plan
  <2>2. /\ x.receipt = request[p].receipt /\ x.plan = plan
        /\ x.pc \notin {"transition", "delete"}
    BY DEF TypeOK, RequestRecord
  <2>3. Allocating(p) /\ Checked(p)
    BY <2>1 DEF Allocating, Checked
  <2>4. ~HoldsMoney(request[p].receipt)
    BY <2>3 DEF RequestsSound, CheckStillHolds
  <2> HIDE DEF x
  <2>5. QED
    BY <2>1, <2>2, <2>3, <2>4, AllocationGoesOn
<1>12. ASSUME NEW p \in Procs, CommitAllocation(p) PROVE RequestsSound'
  <2> DEFINE r == request[p].receipt
             plan == request[p].plan
  <2>1. /\ Finish(p) /\ Allocating(p)
        /\ live' = [live EXCEPT ![r] = [m \in Months |-> live[r][m] + plan[m]]]
    BY <1>12 DEF CommitAllocation, Allocating
  <2>2. r \in Receipts
    BY <2>1 DEF RequestsSound, NamesReceipt
  <2>3. \A s \in Receipts : s # r => live'[s] = live[s]
    BY <2>1, <2>2 DEF TypeOK
  <2>4. \A q \in Procs : q # p /\ Checked(q) =>
           request[q].receipt # r /\ request[q].receipt \in Receipts
    BY <2>1 DEF RequestsSound, OneAllocator, NamesReceipt, Checked
  <2>5. \A q \in Procs : q # p /\ Checked(q) =>
           \A m \in Months : ~(live'[request[q].receipt][m] > 0)
    BY <2>3, <2>4, StillOff
  <2>6. \A s \in Receipts : receipt[s].state # "unborn" => receipt'[s].state # "unborn"
    <3> DEFINE month == PrimaryMonth({m \in Months : plan[m] > 0}, request[p].months)
    <3>1. receipt' = [receipt EXCEPT ![r].month = month]
      BY <1>12 DEF CommitAllocation
    <3> HIDE DEF month
    <3>2. QED
      BY <3>1 DEF TypeOK, ReceiptRow
  <2>7. QED
    BY <2>1, <2>5, <2>6, IdleIsSound
<1>13. ASSUME NEW w \in Workers, NEW r \in Receipts, NEW x,
              Idle(w), UNCHANGED <<live, receipt>>,
              request' = [request EXCEPT ![w] = x],
              x.pc \in {"transition", "delete"}, x.receipt = r
       PROVE  RequestsSound'
  <2>1. request'[w] = x
    BY <1>1, <1>13 DEF TypeOK
  <2>2. ~Allocating(w)' /\ ~Checked(w)' /\ x.pc # "commit"
    BY <1>13, <2>1 DEF Allocating, Checked
  <2>3. QED
    BY <1>1, <1>2, <1>3, <1>13, <2>2, OneRequestChanges
<1>14. ASSUME NEW w \in Workers, NEW r \in Receipts, NEW to \in Targets,
              StartTransition(w, r, to)
       PROVE  RequestsSound'
  <2> DEFINE x == [IdleRequest EXCEPT !.pc = "transition", !.receipt = r, !.target = to]
  <2>1. /\ request' = [request EXCEPT ![w] = x] /\ UNCHANGED <<live, receipt>>
        /\ Idle(w)
    BY <1>14 DEF StartTransition, ledgerVars
  <2>2. x.pc = "transition" /\ x.receipt = r
    BY DEF IdleRequest
  <2> HIDE DEF x
  <2>3. QED
    BY <1>13, <2>1, <2>2
<1>15. ASSUME NEW w \in Workers, NEW r \in Receipts, StartDelete(w, r)
       PROVE  RequestsSound'
  <2> DEFINE x == [IdleRequest EXCEPT !.pc = "delete", !.receipt = r]
  <2>1. /\ request' = [request EXCEPT ![w] = x] /\ UNCHANGED <<live, receipt>>
        /\ Idle(w)
    BY <1>15 DEF StartDelete, ledgerVars
  <2>2. x.pc = "delete" /\ x.receipt = r
    BY DEF IdleRequest
  <2> HIDE DEF x
  <2>3. QED
    BY <1>13, <2>1, <2>2
<1>16. ASSUME NEW w \in Workers, NEW r \in Receipts, Reverse(r), Finish(w),
              \A s \in Receipts : receipt[s].state # "unborn" => receipt'[s].state # "unborn"
       PROVE  RequestsSound'
  <2>1. \A q \in Procs : Checked(q) => request[q].receipt \in Receipts
    BY DEF RequestsSound, NamesReceipt, Checked
  <2>2. \A q \in Procs : q # w /\ Checked(q) =>
           \A m \in Months : ~(live'[request[q].receipt][m] > 0)
    BY <1>16, <2>1, ReverseClears, StillOff
  <2>3. QED
    BY <1>1, <1>16, <2>2, IdleIsSound
<1>17. ASSUME NEW w \in Workers, ApplyTransition(w) PROVE RequestsSound'
  <2>1. request[w].receipt \in Receipts
    BY <1>1, <1>17 DEF ApplyTransition, RequestsSound, NamesReceipt
  <2>2. \A s \in Receipts : receipt[s].state # "unborn" => receipt'[s].state # "unborn"
    BY <1>17 DEF ApplyTransition, TypeOK, ReceiptRow
  <2>3. CASE request[w].target = "voided"
    BY <1>16, <1>17, <2>1, <2>2, <2>3 DEF ApplyTransition
  <2>4. CASE request[w].target # "voided"
    BY <1>1, <1>3, <1>17, <2>2, <2>4, IdleIsSound DEF ApplyTransition, ledgerVars
  <2>5. QED
    BY <2>3, <2>4
<1>18. ASSUME NEW w \in Workers, ApplyDelete(w) PROVE RequestsSound'
  <2>1. request[w].receipt \in Receipts
    BY <1>1, <1>18 DEF ApplyDelete, RequestsSound, NamesReceipt
  <2>2. \A s \in Receipts : receipt[s].state # "unborn" => receipt'[s].state # "unborn"
    BY <1>18 DEF ApplyDelete, TypeOK, ReceiptRow
  <2>3. QED
    BY <1>16, <1>18, <2>1, <2>2 DEF ApplyDelete
<1>19. ASSUME NEW r \in Receipts, NEW t \in Tenants, NEW a \in Amounts, NEW d \in Dates,
              UpdateReceipt(r, t, a, d)
       PROVE  RequestsSound'
  <2>1. \A s \in Receipts : receipt[s].state # "unborn" => receipt'[s].state # "unborn"
    BY <1>19 DEF UpdateReceipt, TypeOK, ReceiptRow
  <2>2. QED
    BY <1>19, <2>1, NoRequestChanges DEF UpdateReceipt, ledgerVars
<1>20. ASSUME NEW p \in Procs, Abandon(p) PROVE RequestsSound'
  BY <1>2, <1>3, <1>20, IdleIsSound DEF Abandon, ledgerVars
<1>21. ASSUME NEW x \in Rents, ChangeRent(x) PROVE RequestsSound'
  BY <1>2, <1>21, NoRequestChanges DEF ChangeRent, ledgerVars
<1>22. CASE Tick
  BY <1>2, <1>22, NoRequestChanges DEF Tick, ledgerVars
<1>23. QED
  BY <1>4, <1>5, <1>6, <1>7, <1>9, <1>10, <1>11, <1>12, <1>14, <1>15, <1>17, <1>18,
     <1>19, <1>20, <1>21, <1>22 DEF Next, ServerStep, AllocationStep

-----------------------------------------------------------------------------
(* Counting the money of a month                                            *)

\* A cent of a month is one of some receipt's.
LEMMA CentsMember ==
  ASSUME NEW m, NEW x
  PROVE  x \in Cents(m) <=> \E r \in Receipts : x \in {r} \X (1..live[r][m])
BY DEF Cents

\* Money entered on a month that held none of the receipt's is counted once.
LEMMA CentsEntered ==
  ASSUME TypeOK, NEW m \in Months, NEW r \in Receipts, NEW n \in Nat,
         IsFiniteSet(Cents(m)),
         live[r][m] = 0, live'[r][m] = n,
         \A s \in Receipts : s # r => live'[s][m] = live[s][m]
  PROVE  /\ IsFiniteSet(Cents(m)')
         /\ Cardinality(Cents(m)') = Cardinality(Cents(m)) + n
<1> DEFINE new == {r} \X (1..n)
<1>1. IsFiniteSet(new) /\ Cardinality(new) = n
  BY TaggedCents
<1>2. Cents(m)' = Cents(m) \cup new
  <2>1. ASSUME NEW x \in Cents(m)' PROVE x \in Cents(m) \cup new
    <3>1. PICK s \in Receipts : x \in {s} \X (1..live'[s][m])
      BY <2>1 DEF Cents
    <3>2. CASE s = r
      BY <3>1, <3>2
    <3>3. CASE s # r
      BY <3>1, <3>3, CentsMember
    <3>4. QED
      BY <3>2, <3>3
  <2>2. ASSUME NEW x \in Cents(m) PROVE x \in Cents(m)'
    <3>1. PICK s \in Receipts : x \in {s} \X (1..live[s][m])
      BY <2>2 DEF Cents
    <3>2. s # r
      BY <3>1
    <3>3. QED
      BY <3>1, <3>2 DEF Cents
  <2>3. ASSUME NEW x \in new PROVE x \in Cents(m)'
    BY <2>3 DEF Cents
  <2>4. QED
    BY <2>1, <2>2, <2>3
<1>3. Cents(m) \cap new = {}
  <2> SUFFICES ASSUME NEW x \in Cents(m), x \in new PROVE FALSE
    OBVIOUS
  <2>1. PICK s \in Receipts : x \in {s} \X (1..live[s][m])
    BY DEF Cents
  <2>2. s = r
    BY <2>1
  <2>3. QED
    BY <2>1, <2>2
<1> HIDE DEF new
<1>4. /\ IsFiniteSet(Cents(m) \cup new)
      /\ Cardinality(Cents(m) \cup new)
           = Cardinality(Cents(m)) + Cardinality(new) - Cardinality(Cents(m) \cap new)
  BY <1>1, FS_Union
<1>5. Cardinality(Cents(m)) \in Nat
  BY FS_CardinalityType
<1>6. Cardinality(Cents(m) \cap new) = 0
  BY <1>3, FS_EmptySet
<1>7. Cardinality(Cents(m) \cup new) = Cardinality(Cents(m)) + n
  BY <1>1, <1>4, <1>5, <1>6
<1>8. QED
  BY <1>2, <1>4, <1>7

\* Money taken back is counted out once, and there was as much to take.
LEMMA CentsTaken ==
  ASSUME TypeOK, NEW m \in Months, NEW r \in Receipts,
         IsFiniteSet(Cents(m)),
         live'[r][m] = 0,
         \A s \in Receipts : s # r => live'[s][m] = live[s][m]
  PROVE  /\ IsFiniteSet(Cents(m)')
         /\ Cardinality(Cents(m)') = Cardinality(Cents(m)) - live[r][m]
         /\ live[r][m] <= Cardinality(Cents(m))
<1> DEFINE old == {r} \X (1..live[r][m])
<1>1. live[r][m] \in Nat
  BY DEF TypeOK
<1>2. IsFiniteSet(old) /\ Cardinality(old) = live[r][m]
  BY <1>1, TaggedCents
<1>3. old \subseteq Cents(m)
  BY DEF Cents
<1>4. Cents(m)' = Cents(m) \ old
  <2>1. ASSUME NEW x \in Cents(m)' PROVE x \in Cents(m) /\ x \notin old
    <3>1. PICK s \in Receipts : x \in {s} \X (1..live'[s][m])
      BY <2>1 DEF Cents
    <3>2. s # r
      BY <3>1
    <3>3. QED
      BY <3>1, <3>2, CentsMember
  <2>2. ASSUME NEW x \in Cents(m), x \notin old PROVE x \in Cents(m)'
    <3>1. PICK s \in Receipts : x \in {s} \X (1..live[s][m])
      BY <2>2 DEF Cents
    <3>2. s # r
      BY <2>2, <3>1
    <3>3. QED
      BY <3>1, <3>2 DEF Cents
  <2>3. QED
    BY <2>1, <2>2
<1>5. Cents(m) \cap old = old
  BY <1>3
<1> HIDE DEF old
<1>6. /\ IsFiniteSet(Cents(m) \ old)
      /\ Cardinality(Cents(m) \ old) = Cardinality(Cents(m)) - Cardinality(Cents(m) \cap old)
  BY FS_Difference
<1>7. Cardinality(old) <= Cardinality(Cents(m))
  BY <1>3, FS_Subset
<1>8. QED
  BY <1>2, <1>4, <1>5, <1>6, <1>7

\* A month none of whose allocations changed counts the same.
LEMMA CentsKept ==
  ASSUME NEW m, \A s \in Receipts : live'[s][m] = live[s][m]
  PROVE  Cents(m)' = Cents(m)
BY DEF Cents

\* A month no receipt pays holds nothing.
LEMMA CentsNone ==
  ASSUME TypeOK, LedgerBalanced, NEW m \in Months,
         \A r \in Receipts : ~(live[r][m] > 0)
  PROVE  allocated[m] = 0
<1>1. \A r \in Receipts : live[r][m] = 0
  BY DEF TypeOK
<1>2. Cents(m) = {}
  BY <1>1 DEF Cents
<1>3. QED
  BY <1>2, FS_EmptySet DEF LedgerBalanced

-----------------------------------------------------------------------------
(* The ledger                                                               *)

\* What derivePeriodStatus says of the money it is given.
LEMMA StatusSaysMoney ==
  ASSUME NEW m, NEW d \in Nat, NEW a \in Nat, NEW f, NEW t,
         NEW s, s = DerivePeriodStatus(m, d, a, f, t)
  PROVE  /\ s \in PaidStatuses <=> a >= d
         /\ s = "partially_paid" => a > 0
         /\ s \in {"due", "overdue"} => a = 0
BY DEF DerivePeriodStatus, PaidStatuses

\* A write that derives what it touches leaves status and money in agreement.
LEMMA WriteKeepsStatus ==
  ASSUME TypeOK, StatusFollowsMoney, NEW touched \in SUBSET Months,
         NEW newDue \in [Months -> Nat], NEW newAllocated \in [Months -> Nat],
         NEW newPaidAt, NEW newRows, newRows \subseteq rows \cup touched,
         WritePeriods(touched, newRows, newDue, newAllocated, newPaidAt),
         \A m \in touched : newPaidAt[m] # NotPaid => newAllocated[m] >= newDue[m],
         \A m \in Months \ touched : /\ newDue[m] = due[m]
                                     /\ newAllocated[m] = allocated[m]
                                     /\ newPaidAt[m] = paidAt[m]
  PROVE  StatusFollowsMoney'
<1> SUFFICES ASSUME NEW m \in newRows
             PROVE  /\ status'[m] \in PaidStatuses <=> newAllocated[m] >= newDue[m]
                    /\ newPaidAt[m] # NotPaid => newAllocated[m] >= newDue[m]
                    /\ status'[m] = "partially_paid" => newAllocated[m] > 0
                    /\ status'[m] \in {"due", "overdue"} => newAllocated[m] = 0
  BY DEF StatusFollowsMoney, WritePeriods
<1>1. m \in Months
  BY DEF TypeOK
<1>2. CASE m \in touched
  <2>1. status'[m] = DerivePeriodStatus(m, newDue[m], newAllocated[m], newPaidAt[m], today)
    BY <1>1, <1>2 DEF WritePeriods
  <2>2. newDue[m] \in Nat /\ newAllocated[m] \in Nat
    BY <1>1
  <2>3. /\ status'[m] \in PaidStatuses <=> newAllocated[m] >= newDue[m]
        /\ status'[m] = "partially_paid" => newAllocated[m] > 0
        /\ status'[m] \in {"due", "overdue"} => newAllocated[m] = 0
    BY <2>1, <2>2, StatusSaysMoney
  <2>4. QED
    BY <1>2, <2>3
<1>3. CASE m \notin touched
  <2>1. status'[m] = status[m]
    BY <1>1, <1>3 DEF WritePeriods
  <2>2. m \in rows
    BY <1>3
  <2>3. QED
    BY <1>1, <1>3, <2>1, <2>2 DEF StatusFollowsMoney
<1>4. QED
  BY <1>2, <1>3

\* reverseAllocationsForReceipt keeps the books: the clamp at zero never bites.
LEMMA ReverseKeepsBooks ==
  ASSUME TypeOK, CentsFinite, LedgerBalanced, StatusFollowsMoney,
         NEW r \in Receipts, Reverse(r)
  PROVE  rows' = rows /\ CentsFinite' /\ LedgerBalanced' /\ StatusFollowsMoney'
<1>1. CASE ~HoldsMoney(r)
  <2>1. UNCHANGED ledgerVars
    BY <1>1 DEF Reverse
  <2>2. rows' = rows
    BY <2>1 DEF ledgerVars
  <2>3. CentsFinite'
    BY <2>1 DEF ledgerVars, CentsFinite, Cents
  <2>4. LedgerBalanced'
    BY <2>1 DEF ledgerVars, LedgerBalanced, Cents
  <2>5. StatusFollowsMoney'
    BY <2>1 DEF ledgerVars, StatusFollowsMoney
  <2>6. QED
    BY <2>2, <2>3, <2>4, <2>5
<1>2. CASE HoldsMoney(r)
  <2> DEFINE touched == {m \in Months : live[r][m] > 0}
             newAllocated == [m \in Months |->
                 IF m \in touched THEN LessAllocation(r, m) ELSE allocated[m]]
             newPaidAt == [m \in Months |->
                 IF m \in touched /\ newAllocated[m] < due[m]
                 THEN NotPaid ELSE paidAt[m]]
  <2>1. WritePeriods(touched, rows, due, newAllocated, newPaidAt)
    BY <1>2 DEF Reverse
  <2>2. rows' = rows /\ allocated' = newAllocated
    BY <2>1 DEF WritePeriods
  <2>3. ASSUME NEW m \in Months
        PROVE  /\ IsFiniteSet(Cents(m)')
               /\ Cardinality(Cents(m)') = Cardinality(Cents(m)) - live[r][m]
               /\ live[r][m] <= Cardinality(Cents(m))
    BY ReverseClears, CentsTaken DEF CentsFinite
  <2>4. CentsFinite'
    BY <2>3 DEF CentsFinite
  <2>5. ASSUME NEW m \in Months
        PROVE  allocated'[m] = Cardinality(Cents(m)')
    <3>1. /\ allocated[m] = Cardinality(Cents(m)) /\ allocated[m] \in Nat
          /\ live[r][m] \in Nat
      BY DEF LedgerBalanced, TypeOK
    <3>2. allocated'[m] = IF m \in touched THEN LessAllocation(r, m) ELSE allocated[m]
      BY <2>2
    <3>3. QED
      BY <2>3, <3>1, <3>2 DEF LessAllocation, Greater
  <2>6. LedgerBalanced'
    BY <2>5 DEF LedgerBalanced
  <2>7. newAllocated \in [Months -> Nat] /\ due \in [Months -> Nat]
    BY DEF TypeOK, LessAllocation, Greater
  <2>8. \A m \in touched : newPaidAt[m] # NotPaid => newAllocated[m] >= due[m]
    BY <2>7
  <2>9. \A m \in Months \ touched : /\ newAllocated[m] = allocated[m]
                                    /\ newPaidAt[m] = paidAt[m]
    OBVIOUS
  <2>10. touched \in SUBSET Months
    OBVIOUS
  <2> HIDE DEF touched, newAllocated, newPaidAt
  <2>11. StatusFollowsMoney'
    BY <2>1, <2>7, <2>8, <2>9, <2>10, WriteKeepsStatus
  <2>12. QED
    BY <2>2, <2>4, <2>6, <2>11
<1>3. QED
  BY <1>1, <1>2

\* The transaction of allocateReceipt keeps the books, and points the receipt
\* back at the oldest month it paid.
LEMMA CommitKeepsBooks ==
  ASSUME IInv, NEW p \in Procs, CommitAllocation(p)
  PROVE  /\ CentsFinite' /\ LedgerBalanced' /\ StatusFollowsMoney'
         /\ MoneyHasReceipt' /\ BackLink'
<1> DEFINE r == request[p].receipt
           plan == request[p].plan
           touched == {m \in Months : plan[m] > 0}
           newDue == [m \in Months |->
                         IF m \in touched \ rows THEN request[p].rent ELSE due[m]]
           newAllocated == [m \in Months |-> allocated[m] + plan[m]]
           newPaidAt == [m \in Months |->
                            IF m \notin touched THEN paidAt[m]
                            ELSE IF newAllocated[m] >= newDue[m]
                                 THEN request[p].date ELSE NotPaid]
           month == PrimaryMonth(touched, request[p].months)
<1>1. TypeOK /\ RequestsSound
  BY DEF IInv
<1>2. /\ r \in Receipts /\ plan \in [Months -> Nat] /\ plan # NoMoney
      /\ request[p].rent \in Nat /\ Checked(p)
  BY <1>1 DEF CommitAllocation, RequestsSound, NamesReceipt, PlansMoney, Allocating,
              Checked, TypeOK, RequestRecord
<1>3. /\ WritePeriods(touched, rows \cup touched, newDue, newAllocated, newPaidAt)
      /\ live' = [live EXCEPT ![r] = [m \in Months |-> live[r][m] + plan[m]]]
      /\ receipt' = [receipt EXCEPT ![r].month = month]
      /\ Stored(r)
  BY DEF CommitAllocation, CanCommit
<1>4. \A m \in Months : live[r][m] = 0
  <2>1. \A m \in Months : ~(live[r][m] > 0)
    BY <1>1, <1>2, StillOff
  <2>2. QED
    BY <1>1, <1>2, <2>1 DEF TypeOK
<1>5. /\ \A m \in Months : live'[r][m] = plan[m]
      /\ \A s \in Receipts : s # r => live'[s] = live[s]
  BY <1>1, <1>2, <1>3, <1>4 DEF TypeOK
<1>6. /\ rows' = rows \cup touched /\ allocated' = newAllocated
  BY <1>3 DEF WritePeriods
<1>7. ASSUME NEW m \in Months
      PROVE  /\ IsFiniteSet(Cents(m)')
             /\ Cardinality(Cents(m)') = Cardinality(Cents(m)) + plan[m]
  BY <1>1, <1>2, <1>4, <1>5, CentsEntered DEF IInv, CentsFinite
<1>8. CentsFinite'
  BY <1>7 DEF CentsFinite
<1>9. LedgerBalanced'
  BY <1>6, <1>7 DEF IInv, LedgerBalanced
<1>10. StatusFollowsMoney'
  <2>1. newAllocated \in [Months -> Nat] /\ newDue \in [Months -> Nat]
    BY <1>1, <1>2 DEF TypeOK
  <2>2. \A m \in touched : newPaidAt[m] # NotPaid => newAllocated[m] >= newDue[m]
    OBVIOUS
  <2>3. \A m \in Months \ touched : /\ newDue[m] = due[m]
                                    /\ newAllocated[m] = allocated[m]
                                    /\ newPaidAt[m] = paidAt[m]
    <3> SUFFICES ASSUME NEW m \in Months \ touched
                 PROVE  newAllocated[m] = allocated[m]
      OBVIOUS
    <3>1. plan[m] \in Nat /\ ~(plan[m] > 0) /\ allocated[m] \in Nat
      BY <1>1, <1>2 DEF TypeOK
    <3>2. QED
      BY <3>1
  <2>4. touched \in SUBSET Months /\ StatusFollowsMoney
    BY DEF IInv
  <2> HIDE DEF touched, newDue, newAllocated, newPaidAt
  <2>5. QED
    BY <1>1, <1>3, <2>1, <2>2, <2>3, <2>4, WriteKeepsStatus
<1>11. /\ receipt'[r].state = receipt[r].state /\ receipt'[r].month = month
       /\ \A s \in Receipts : s # r => receipt'[s] = receipt[s]
  <2> HIDE DEF month
  <2> QED
    BY <1>1, <1>2, <1>3 DEF TypeOK, ReceiptRow
<1>12. MoneyHasReceipt'
  <2> SUFFICES ASSUME NEW s \in Receipts, NEW m \in Months, live'[s][m] > 0
               PROVE  receipt'[s].state = "stored" /\ m \in rows'
    BY DEF MoneyHasReceipt, Stored
  <2>1. CASE s = r
    BY <1>3, <1>5, <1>6, <1>11, <2>1 DEF Stored
  <2>2. CASE s # r
    BY <1>5, <1>6, <1>11, <2>2 DEF IInv, MoneyHasReceipt, Stored
  <2>3. QED
    BY <2>1, <2>2
<1>13. BackLink'
  <2> SUFFICES ASSUME NEW s \in Receipts, NEW n \in Months, live'[s][n] > 0
               PROVE  /\ receipt'[s].month \in Months
                      /\ live'[s][receipt'[s].month] > 0
                      /\ \A m \in Months : live'[s][m] > 0 => receipt'[s].month <= m
    BY DEF BackLink, HoldsMoney
  <2>1. CASE s = r
    <3>1. touched # {} /\ touched \in SUBSET Months
      BY <1>2, PlanTouches
    <3>2. month \in touched /\ \A k \in touched : month <= k
      BY <3>1, PrimaryMonthIsOldest
    <3> HIDE DEF month
    <3>3. QED
      BY <1>5, <1>11, <2>1, <3>2
  <2>2. CASE s # r
    BY <1>5, <1>11, <2>2 DEF IInv, BackLink, HoldsMoney
  <2>3. QED
    BY <2>1, <2>2
<1>14. QED
  BY <1>8, <1>9, <1>10, <1>12, <1>13

\* generateRentPeriods adds months that hold no money.
LEMMA GenerateKeepsBooks ==
  ASSUME IInv, NEW p \in Procs, Generate(p)
  PROVE  /\ CentsFinite' /\ LedgerBalanced' /\ StatusFollowsMoney'
         /\ MoneyHasReceipt' /\ BackLink'
<1> DEFINE new == request[p].months
           amt == request[p].rent
<1>1. TypeOK /\ new \in SUBSET Months /\ amt \in Nat
  BY DEF IInv, TypeOK, RequestRecord
<1>2. /\ new \cap rows = {} /\ rows' = rows \cup new
      /\ UNCHANGED <<live, receipt>>
      /\ \A m \in Months :
            /\ due'[m] = (IF m \in new THEN amt ELSE due[m])
            /\ allocated'[m] = (IF m \in new THEN 0 ELSE allocated[m])
            /\ paidAt'[m] = (IF m \in new THEN NotPaid ELSE paidAt[m])
            /\ status'[m] = (IF m \in new
                             THEN DerivePeriodStatus(m, amt, 0, NotPaid, today)
                             ELSE status[m])
  BY DEF Generate
<1>3. \A m \in Months : Cents(m)' = Cents(m)
  BY <1>2, CentsKept
<1>4. CentsFinite'
  BY <1>3 DEF IInv, CentsFinite
<1>5. \A m \in new : allocated[m] = 0
  <2> SUFFICES ASSUME NEW m \in new PROVE allocated[m] = 0
    OBVIOUS
  <2>1. m \in Months /\ m \notin rows
    BY <1>1, <1>2
  <2>2. \A r \in Receipts : ~(live[r][m] > 0)
    BY <2>1 DEF IInv, MoneyHasReceipt
  <2>3. QED
    BY <1>1, <2>1, <2>2, CentsNone DEF IInv
<1>6. LedgerBalanced'
  BY <1>1, <1>2, <1>3, <1>5 DEF IInv, LedgerBalanced
<1>7. StatusFollowsMoney'
  <2> SUFFICES ASSUME NEW m \in rows'
               PROVE  /\ status'[m] \in PaidStatuses <=> allocated'[m] >= due'[m]
                      /\ paidAt'[m] # NotPaid => allocated'[m] >= due'[m]
                      /\ status'[m] = "partially_paid" => allocated'[m] > 0
                      /\ status'[m] \in {"due", "overdue"} => allocated'[m] = 0
    BY DEF StatusFollowsMoney
  <2>1. m \in Months
    BY <1>1, <1>2 DEF TypeOK
  <2>2. CASE m \in new
    <3>1. /\ status'[m] = DerivePeriodStatus(m, amt, 0, NotPaid, today)
          /\ due'[m] = amt /\ allocated'[m] = 0 /\ paidAt'[m] = NotPaid
      BY <1>2, <2>1, <2>2
    <3>2. QED
      BY <1>1, <3>1, StatusSaysMoney
  <2>3. CASE m \notin new
    <3>1. /\ status'[m] = status[m] /\ due'[m] = due[m]
          /\ allocated'[m] = allocated[m] /\ paidAt'[m] = paidAt[m] /\ m \in rows
      BY <1>2, <2>1, <2>3
    <3>2. QED
      BY <3>1 DEF IInv, StatusFollowsMoney
  <2>4. QED
    BY <2>2, <2>3
<1>8. MoneyHasReceipt'
  BY <1>2 DEF IInv, MoneyHasReceipt, Stored
<1>9. BackLink'
  BY <1>2 DEF IInv, BackLink, HoldsMoney
<1>10. QED
  BY <1>4, <1>6, <1>7, <1>8, <1>9

\* What the books say of months and receipts.
Books == /\ CentsFinite /\ LedgerBalanced /\ StatusFollowsMoney
         /\ MoneyHasReceipt /\ BackLink

\* A step that leaves the ledger alone, and the receipts that hold money.
LEMMA LedgerAloneKeepsBooks ==
  ASSUME IInv, UNCHANGED ledgerVars,
         \A r \in Receipts : Stored(r) =>
             receipt'[r].state = "stored" /\ receipt'[r].month = receipt[r].month
  PROVE  Books'
<1> USE DEF ledgerVars
<1>1. CentsFinite' /\ LedgerBalanced'
  BY DEF IInv, CentsFinite, LedgerBalanced, Cents
<1>2. StatusFollowsMoney'
  BY DEF IInv, StatusFollowsMoney
<1>3. MoneyHasReceipt'
  BY DEF IInv, MoneyHasReceipt, Stored
<1>4. BackLink'
  <2> SUFFICES ASSUME NEW r \in Receipts, NEW n \in Months, live[r][n] > 0
               PROVE  /\ receipt'[r].month \in Months
                      /\ live[r][receipt'[r].month] > 0
                      /\ \A m \in Months : live[r][m] > 0 => receipt'[r].month <= m
    BY DEF BackLink, HoldsMoney
  <2>1. receipt'[r].month = receipt[r].month
    BY DEF IInv, MoneyHasReceipt
  <2>2. QED
    BY <2>1 DEF IInv, BackLink, HoldsMoney
<1>5. QED
  BY <1>1, <1>2, <1>3, <1>4 DEF Books

\* A reversal, and the write to its receipt that goes with it.
LEMMA ReverseWriteKeepsBooks ==
  ASSUME IInv, NEW r \in Receipts, Reverse(r),
         \A s \in Receipts : s # r => receipt'[s] = receipt[s]
  PROVE  Books'
<1>1. TypeOK /\ CentsFinite /\ LedgerBalanced /\ StatusFollowsMoney
  BY DEF IInv
<1>2. rows' = rows /\ CentsFinite' /\ LedgerBalanced' /\ StatusFollowsMoney'
  BY <1>1, ReverseKeepsBooks
<1>3. /\ \A s \in Receipts, m \in Months : s # r => live'[s][m] = live[s][m]
      /\ \A m \in Months : ~(live'[r][m] > 0)
  BY <1>1, ReverseClears
<1>4. MoneyHasReceipt'
  BY <1>2, <1>3 DEF IInv, MoneyHasReceipt, Stored
<1>5. BackLink'
  <2> SUFFICES ASSUME NEW s \in Receipts, NEW n \in Months, live'[s][n] > 0
               PROVE  /\ receipt'[s].month \in Months
                      /\ live'[s][receipt'[s].month] > 0
                      /\ \A m \in Months : live'[s][m] > 0 => receipt'[s].month <= m
    BY DEF BackLink, HoldsMoney
  <2>1. s # r
    BY <1>3
  <2>2. receipt'[s] = receipt[s] /\ \A m \in Months : live'[s][m] = live[s][m]
    BY <1>3, <2>1
  <2>3. QED
    BY <2>2 DEF IInv, BackLink, HoldsMoney
<1>6. QED
  BY <1>2, <1>4, <1>5 DEF Books

\* Every step keeps the books.
LEMMA BooksStep == IInv /\ [Next]_vars => Books'
<1> SUFFICES ASSUME IInv, [Next]_vars PROVE Books'
  OBVIOUS
<1>1. TypeOK /\ RequestsSound
  BY DEF IInv
<1>2. ASSUME UNCHANGED <<ledgerVars, receipt>> PROVE Books'
  BY <1>2, LedgerAloneKeepsBooks DEF Stored
<1>3. \A w \in Workers : w \in Procs
  BY DEF Procs
<1>4. CASE UNCHANGED vars
  BY <1>2, <1>4 DEF vars, ledgerVars
<1>5. ASSUME NEW w \in Workers, NEW r \in Receipts, NEW a \in Amounts, NEW d \in Dates,
             NEW l \in Sources, CreateReceipt(w, r, a, d, l)
      PROVE  Books'
  <2>1. \A s \in Receipts : Stored(s) => receipt'[s] = receipt[s]
    BY <1>1, <1>5 DEF CreateReceipt, TypeOK, Stored
  <2>2. QED
    BY <1>5, <2>1, LedgerAloneKeepsBooks DEF CreateReceipt, Stored
<1>6. ASSUME NEW p \in Procs, Generate(p) PROVE Books'
  BY <1>6, GenerateKeepsBooks DEF Books
<1>7. ASSUME NEW p \in Procs, CommitAllocation(p) PROVE Books'
  BY <1>7, CommitKeepsBooks DEF Books
<1>8. ASSUME NEW w \in Workers, ApplyTransition(w) PROVE Books'
  <2>1. request[w].receipt \in Receipts
    BY <1>1, <1>3, <1>8 DEF ApplyTransition, RequestsSound, NamesReceipt
  <2>2. receipt' = [receipt EXCEPT ![request[w].receipt].lifecycle = request[w].target]
    BY <1>8 DEF ApplyTransition
  <2>3. /\ \A s \in Receipts : s # request[w].receipt => receipt'[s] = receipt[s]
        /\ \A s \in Receipts : Stored(s) =>
              receipt'[s].state = "stored" /\ receipt'[s].month = receipt[s].month
    BY <1>1, <2>1, <2>2 DEF TypeOK, ReceiptRow, Stored
  <2>4. CASE request[w].target = "voided"
    <3>1. Reverse(request[w].receipt)
      BY <1>8, <2>4 DEF ApplyTransition
    <3>2. QED
      BY <2>1, <2>3, <3>1, ReverseWriteKeepsBooks
  <2>5. CASE request[w].target # "voided"
    <3>1. UNCHANGED ledgerVars
      BY <1>8, <2>5 DEF ApplyTransition
    <3>2. QED
      BY <2>3, <3>1, LedgerAloneKeepsBooks
  <2>6. QED
    BY <2>4, <2>5
<1>9. ASSUME NEW w \in Workers, ApplyDelete(w) PROVE Books'
  <2>1. request[w].receipt \in Receipts
    BY <1>1, <1>3, <1>9 DEF ApplyDelete, RequestsSound, NamesReceipt
  <2>2. receipt' = [receipt EXCEPT ![request[w].receipt].state = "deleted"]
    BY <1>9 DEF ApplyDelete
  <2>3. \A s \in Receipts : s # request[w].receipt => receipt'[s] = receipt[s]
    BY <1>1, <2>1, <2>2 DEF TypeOK
  <2>4. Reverse(request[w].receipt)
    BY <1>9 DEF ApplyDelete
  <2>5. QED
    BY <2>1, <2>3, <2>4, ReverseWriteKeepsBooks
<1>10. ASSUME NEW r \in Receipts, NEW t \in Tenants, NEW a \in Amounts, NEW d \in Dates,
              UpdateReceipt(r, t, a, d)
       PROVE  Books'
  <2>1. \A s \in Receipts : Stored(s) =>
           receipt'[s].state = "stored" /\ receipt'[s].month = receipt[s].month
    BY <1>1, <1>10 DEF UpdateReceipt, TypeOK, ReceiptRow, Stored
  <2>2. QED
    BY <1>10, <2>1, LedgerAloneKeepsBooks DEF UpdateReceipt
<1>11. ASSUME NEW w \in Workers, NEW r \in Receipts, NEW to \in Targets,
              StartTransition(w, r, to)
       PROVE  Books'
  BY <1>2, <1>11 DEF StartTransition
<1>12. ASSUME NEW w \in Workers, SeedLease(w) PROVE Books'
  BY <1>2, <1>12 DEF SeedLease
<1>13. ASSUME NEW r \in Receipts, StartBackfill(r) PROVE Books'
  BY <1>2, <1>13 DEF StartBackfill
<1>14. ASSUME NEW w \in Workers, NEW r \in Receipts, StartDelete(w, r) PROVE Books'
  BY <1>2, <1>14 DEF StartDelete
<1>15. ASSUME NEW p \in Procs, Load(p) \/ Plan(p) \/ Abandon(p) PROVE Books'
  BY <1>2, <1>15 DEF Load, Plan, Abandon
<1>16. ASSUME NEW x \in Rents, ChangeRent(x) PROVE Books'
  BY <1>2, <1>16 DEF ChangeRent
<1>17. CASE Tick
  BY <1>2, <1>17 DEF Tick
<1>18. QED
  BY <1>4, <1>5, <1>6, <1>7, <1>8, <1>9, <1>10, <1>11, <1>12, <1>13, <1>14, <1>15,
     <1>16, <1>17 DEF Next, ServerStep, AllocationStep

-----------------------------------------------------------------------------
(* The inductive invariant and what follows from it                         *)

LEMMA InitIInv == Init => IInv
<1> SUFFICES ASSUME Init PROVE IInv
  OBVIOUS
<1>1. TypeOK
  BY InitType
<1>2. \A p \in Procs : request[p] = IdleRequest
  BY DEF Init
<1>3. \A p \in Procs : request[p].pc = "idle"
  BY <1>2 DEF IdleRequest
<1>4. RequestsSound
  BY <1>3 DEF RequestsSound, NamesReceipt, CheckStillHolds, OneAllocator, PlansMoney,
              Allocating, Checked
<1>5. \A r \in Receipts, m \in Months : live[r][m] = 0
  BY DEF Init, NoMoney
<1>6. \A m \in Months : Cents(m) = {}
  BY <1>5 DEF Cents
<1>7. CentsFinite /\ LedgerBalanced
  BY <1>6, FS_EmptySet DEF CentsFinite, LedgerBalanced, Init, NoMoney
<1>8. StatusFollowsMoney
  BY DEF Init, StatusFollowsMoney
<1>9. MoneyHasReceipt /\ BackLink
  BY <1>5 DEF MoneyHasReceipt, BackLink, HoldsMoney
<1>10. QED
  BY <1>1, <1>4, <1>7, <1>8, <1>9 DEF IInv

LEMMA IInvStep == IInv /\ [Next]_vars => IInv'
<1> SUFFICES ASSUME IInv, [Next]_vars PROVE IInv'
  OBVIOUS
<1>1. TypeOK'
  BY TypeStep DEF IInv
<1>2. RequestsSound'
  BY RequestsStep DEF IInv
<1>3. Books'
  BY BooksStep
<1>4. QED
  BY <1>1, <1>2, <1>3 DEF IInv, Books

LEMMA Inductive == Spec => []IInv
BY InitIInv, IInvStep, PTL DEF Spec

\* Every variable keeps its type.
THEOREM TypeCorrect == Spec => []TypeOK
<1>1. IInv => TypeOK
  BY DEF IInv
<1>2. QED
  BY <1>1, Inductive, PTL

\* RentPeriod.allocatedAmount is the sum of the live allocations, always.
THEOREM LedgerStaysBalanced == Spec => []LedgerBalanced
<1>1. IInv => LedgerBalanced
  BY DEF IInv
<1>2. QED
  BY <1>1, Inductive, PTL

\* A month's status agrees with the money it holds, always.
THEOREM StatusAlwaysFollowsMoney == Spec => []StatusFollowsMoney
<1>1. IInv => StatusFollowsMoney
  BY DEF IInv
<1>2. QED
  BY <1>1, Inductive, PTL

\* No allocation outlives its receipt, or names a month that is not there.
THEOREM MoneyAlwaysHasReceipt == Spec => []MoneyHasReceipt
<1>1. IInv => MoneyHasReceipt
  BY DEF IInv
<1>2. QED
  BY <1>1, Inductive, PTL

\* A receipt with money points at the oldest month it pays, always.
THEOREM BackLinkHolds == Spec => []BackLink
<1>1. IInv => BackLink
  BY DEF IInv
<1>2. QED
  BY <1>1, Inductive, PTL

-----------------------------------------------------------------------------
(* Action properties                                                        *)

\* A step that leaves the allocations alone raises none.
LEMMA OnlyCommitEnters ==
  ASSUME IInv, [Next]_vars, \A p \in Procs : ~CommitAllocation(p)
  PROVE  \A r \in Receipts, m \in Months : ~(live'[r][m] > live[r][m])
<1>1. \A r \in Receipts, m \in Months : live[r][m] \in Nat
  BY DEF IInv, TypeOK
<1>2. ASSUME UNCHANGED live
      PROVE  \A r \in Receipts, m \in Months : ~(live'[r][m] > live[r][m])
  BY <1>1, <1>2
<1>3. ASSUME NEW r \in Receipts, Reverse(r)
      PROVE  \A s \in Receipts, m \in Months : ~(live'[s][m] > live[s][m])
  <2>1. TypeOK
    BY DEF IInv
  <2>2. /\ \A s \in Receipts, m \in Months : s # r => live'[s][m] = live[s][m]
        /\ \A m \in Months : live'[r][m] = 0
    BY <1>3, <2>1, ReverseClears
  <2>3. QED
    BY <1>1, <2>2
<1>4. \A w \in Workers : w \in Procs
  BY DEF Procs
<1>5. ASSUME NEW w \in Workers, ApplyTransition(w) \/ ApplyDelete(w)
      PROVE  \A r \in Receipts, m \in Months : ~(live'[r][m] > live[r][m])
  <2>1. request[w].receipt \in Receipts
    BY <1>4, <1>5 DEF ApplyTransition, ApplyDelete, IInv, RequestsSound, NamesReceipt
  <2>2. Reverse(request[w].receipt) \/ UNCHANGED ledgerVars
    BY <1>5 DEF ApplyTransition, ApplyDelete
  <2>3. QED
    BY <1>2, <1>3, <2>1, <2>2 DEF ledgerVars
<1>6. UNCHANGED live \/ \E w \in Workers : ApplyTransition(w) \/ ApplyDelete(w)
  BY DEF Next, ServerStep, AllocationStep, vars, ledgerVars, CreateReceipt, StartBackfill,
         SeedLease, Load, Generate, Plan, StartTransition, StartDelete, UpdateReceipt,
         Abandon, ChangeRent, Tick
<1>7. QED
  BY <1>2, <1>5, <1>6

\* The idempotency of allocateReceipt survives every interleaving: the check it
\* makes two awaits before its transaction still holds when money is entered.
THEOREM AllocatesOnce == Spec => AllocatedOnce
<1> DEFINE Once == \A r \in Receipts, m \in Months :
                       live'[r][m] > live[r][m] => ~HoldsMoney(r)
<1>1. ASSUME IInv, [Next]_vars PROVE Once
  <2>1. CASE \A p \in Procs : ~CommitAllocation(p)
    BY <1>1, <2>1, OnlyCommitEnters
  <2>2. ASSUME NEW p \in Procs, CommitAllocation(p) PROVE Once
    <3> DEFINE r == request[p].receipt
    <3>1. Checked(p)
      BY <2>2 DEF CommitAllocation, Checked, Allocating
    <3>2. r \in Receipts /\ ~HoldsMoney(r)
      BY <1>1, <3>1 DEF IInv, RequestsSound, NamesReceipt, CheckStillHolds, Checked
    <3>3. \A s \in Receipts : s # r => live'[s] = live[s]
      BY <1>1, <2>2, <3>2 DEF CommitAllocation, IInv, TypeOK
    <3>4. \A s \in Receipts, m \in Months : live[s][m] \in Nat
      BY <1>1 DEF IInv, TypeOK
    <3>5. QED
      BY <3>2, <3>3, <3>4
  <2>3. QED
    BY <2>1, <2>2
<1>2. IInv /\ [Next]_vars => [Once]_vars
  BY <1>1
<1>3. QED
  BY <1>2, Inductive, PTL DEF Spec, AllocatedOnce

-----------------------------------------------------------------------------
(* The tenant's status                                                      *)

\* A month that is said to be short has come; while StatusFollowsMoney says it is short.
ShortHasCome ==
    \A m \in rows : status[m] \in {"overdue", "partially_paid"} => m <= today

OwesInv == IInv /\ ShortHasCome /\ OverdueTenantOwes

LEMMA DerivedShort ==
  ASSUME NEW m \in Int, NEW t \in Int, NEW d, NEW a, NEW f,
         DerivePeriodStatus(m, d, a, f, t) \in {"overdue", "partially_paid"}
  PROVE  m <= t
BY DEF DerivePeriodStatus

\* A tenant who has just been derived overdue from the months owes one of them.
LEMMA DerivedOwes ==
  ASSUME TypeOK', StatusFollowsMoney', ShortHasCome',
         tenantStatus' = DeriveTenantStatus({status'[m] : m \in rows'})
  PROVE  OverdueTenantOwes'
<1> SUFFICES ASSUME tenantStatus' = "overdue"
             PROVE  \E m \in rows' : m <= today' /\ allocated'[m] < due'[m]
  BY DEF OverdueTenantOwes
<1>1. PICK m \in rows' : status'[m] \in {"overdue", "partially_paid"}
  BY DEF DeriveTenantStatus
<1>2. status'[m] \notin PaidStatuses
  BY <1>1 DEF PaidStatuses
<1>3. m \in Months /\ allocated'[m] \in Nat /\ due'[m] \in Nat
  BY DEF TypeOK
<1>4. ~(allocated'[m] >= due'[m])
  BY <1>2 DEF StatusFollowsMoney
<1>5. m <= today'
  BY <1>1 DEF ShortHasCome
<1>6. QED
  BY <1>3, <1>4, <1>5

\* Statuses that are derived today, or kept, say that nothing is short before its time.
LEMMA WriteHasCome ==
  ASSUME TypeOK, ShortHasCome, UNCHANGED today, NEW touched \in SUBSET Months,
         NEW newRows \in SUBSET Months, newRows \subseteq rows \cup touched,
         NEW newDue, NEW newAllocated, NEW newPaidAt,
         WritePeriods(touched, newRows, newDue, newAllocated, newPaidAt)
  PROVE  ShortHasCome'
<1> SUFFICES ASSUME NEW m \in newRows, status'[m] \in {"overdue", "partially_paid"}
             PROVE  m <= today
  BY DEF ShortHasCome, WritePeriods
<1>1. m \in Months /\ m \in Int /\ today \in Int
  BY TimeAssumption DEF Months, TypeOK
<1>2. CASE m \in touched
  BY <1>1, <1>2, DerivedShort DEF WritePeriods
<1>3. CASE m \notin touched
  BY <1>1, <1>3 DEF WritePeriods, ShortHasCome
<1>4. QED
  BY <1>2, <1>3

\* A reversal only takes money off, so a month that was short is.
LEMMA ReverseOwes ==
  ASSUME OwesInv, IInv', UNCHANGED today, NEW r \in Receipts, Reverse(r)
  PROVE  ShortHasCome' /\ OverdueTenantOwes'
<1>1. CASE ~HoldsMoney(r)
  BY <1>1 DEF Reverse, ledgerVars, OwesInv, ShortHasCome, OverdueTenantOwes
<1>2. CASE HoldsMoney(r)
  <2> DEFINE touched == {m \in Months : live[r][m] > 0}
             newAllocated == [m \in Months |->
                 IF m \in touched THEN LessAllocation(r, m) ELSE allocated[m]]
             newPaidAt == [m \in Months |->
                 IF m \in touched /\ newAllocated[m] < due[m]
                 THEN NotPaid ELSE paidAt[m]]
  <2>1. TypeOK /\ rows \in SUBSET Months /\ touched \in SUBSET Months
    BY DEF OwesInv, IInv, TypeOK
  <2>2. /\ WritePeriods(touched, rows, due, newAllocated, newPaidAt)
        /\ \/ tenantStatus' = RecomputedTenantStatus(rows)
           \/ tenantStatus' = tenantStatus
    BY <1>2 DEF Reverse
  <2>3. \A m \in Months : newAllocated[m] \in Nat /\ newAllocated[m] <= allocated[m]
    BY <2>1 DEF TypeOK, LessAllocation, Greater
  <2>4. rows' = rows /\ due' = due /\ allocated' = newAllocated
    BY <2>2 DEF WritePeriods
  <2> HIDE DEF touched, newAllocated, newPaidAt
  <2>5. ShortHasCome'
    BY <2>1, <2>2, WriteHasCome DEF OwesInv
  <2>6. CASE tenantStatus' = tenantStatus
    <3>1. \A m \in rows : allocated[m] < due[m] => allocated'[m] < due'[m]
      BY <2>1, <2>3, <2>4 DEF TypeOK
    <3>2. today' = today
      OBVIOUS
    <3>3. tenantStatus = "overdue" => \E m \in rows : m <= today /\ allocated[m] < due[m]
      BY DEF OwesInv, OverdueTenantOwes
    <3>4. tenantStatus' = "overdue" =>
              \E m \in rows : m <= today /\ allocated'[m] < due'[m]
      BY <2>6, <3>1, <3>3
    <3>5. OverdueTenantOwes'
      BY <2>4, <3>2, <3>4 DEF OverdueTenantOwes
    <3>6. QED
      BY <2>5, <3>5
  <2>7. CASE tenantStatus' = RecomputedTenantStatus(rows)
    <3>1. tenantStatus' = DeriveTenantStatus({status'[m] : m \in rows'})
      BY <2>4, <2>7 DEF RecomputedTenantStatus
    <3>2. QED
      BY <2>5, <3>1, DerivedOwes DEF IInv
  <2>8. QED
    BY <2>2, <2>5, <2>6, <2>7
<1>3. QED
  BY <1>1, <1>2

LEMMA CommitOwes ==
  ASSUME OwesInv, IInv', NEW p \in Procs, CommitAllocation(p)
  PROVE  ShortHasCome' /\ OverdueTenantOwes'
<1> DEFINE touched == {m \in Months : request[p].plan[m] > 0}
<1>1. TypeOK /\ rows \cup touched \in SUBSET Months /\ touched \in SUBSET Months
  BY DEF OwesInv, IInv, TypeOK
<1>2. PICK newDue, newAllocated, newPaidAt :
          /\ WritePeriods(touched, rows \cup touched, newDue, newAllocated, newPaidAt)
          /\ tenantStatus' = RecomputedTenantStatus(rows \cup touched)
          /\ UNCHANGED today
  BY DEF CommitAllocation
<1> HIDE DEF touched
<1>3. ShortHasCome'
  BY <1>1, <1>2, WriteHasCome DEF OwesInv
<1>4. tenantStatus' = DeriveTenantStatus({status'[m] : m \in rows'})
  BY <1>2 DEF RecomputedTenantStatus, WritePeriods
<1>5. QED
  BY <1>3, <1>4, DerivedOwes DEF IInv

\* New months do not change what the old ones hold.
LEMMA GenerateOwes ==
  ASSUME OwesInv, NEW p \in Procs, Generate(p)
  PROVE  ShortHasCome' /\ OverdueTenantOwes'
<1> DEFINE new == request[p].months
           amt == request[p].rent
<1>1. TypeOK /\ new \in SUBSET Months /\ rows \in SUBSET Months
  BY DEF OwesInv, IInv, TypeOK, RequestRecord
<1>2. /\ new \cap rows = {} /\ rows' = rows \cup new
      /\ UNCHANGED <<today, tenantStatus>>
      /\ \A m \in Months :
            /\ due'[m] = (IF m \in new THEN amt ELSE due[m])
            /\ allocated'[m] = (IF m \in new THEN 0 ELSE allocated[m])
            /\ status'[m] = (IF m \in new
                             THEN DerivePeriodStatus(m, amt, 0, NotPaid, today)
                             ELSE status[m])
  BY DEF Generate
<1> HIDE DEF new, amt
<1>3. ShortHasCome'
  <2> SUFFICES ASSUME NEW m \in rows', status'[m] \in {"overdue", "partially_paid"}
               PROVE  m <= today
    BY <1>2 DEF ShortHasCome
  <2>1. m \in Months /\ m \in Int /\ today \in Int
    BY <1>1, <1>2, TimeAssumption DEF Months, TypeOK
  <2>2. CASE m \in new
    BY <1>2, <2>1, <2>2, DerivedShort
  <2>3. CASE m \notin new
    BY <1>2, <2>1, <2>3 DEF OwesInv, ShortHasCome
  <2>4. QED
    BY <2>2, <2>3
<1>4. OverdueTenantOwes'
  <2>1. \A m \in rows : m \in rows' /\ due'[m] = due[m] /\ allocated'[m] = allocated[m]
    BY <1>1, <1>2
  <2>2. QED
    BY <1>2, <2>1 DEF OwesInv, OverdueTenantOwes
<1>5. QED
  BY <1>3, <1>4

LEMMA OwesStep == OwesInv /\ [Next]_vars /\ IInv' => OwesInv'
<1> SUFFICES ASSUME OwesInv, [Next]_vars, IInv'
             PROVE  ShortHasCome' /\ OverdueTenantOwes'
  BY DEF OwesInv
<1>1. ASSUME UNCHANGED <<today, ledgerVars>>  PROVE ShortHasCome' /\ OverdueTenantOwes'
  BY <1>1 DEF ledgerVars, OwesInv, ShortHasCome, OverdueTenantOwes
<1>2. ASSUME NEW p \in Procs, CommitAllocation(p) \/ Generate(p)
      PROVE  ShortHasCome' /\ OverdueTenantOwes'
  BY <1>2, CommitOwes, GenerateOwes
<1>3. ASSUME NEW w \in Workers, ApplyTransition(w) \/ ApplyDelete(w)
      PROVE  ShortHasCome' /\ OverdueTenantOwes'
  <2>1. w \in Procs /\ request[w].receipt \in Receipts
    BY <1>3 DEF Procs, ApplyTransition, ApplyDelete, OwesInv, IInv, RequestsSound,
                NamesReceipt
  <2>2. /\ UNCHANGED today
        /\ Reverse(request[w].receipt) \/ UNCHANGED ledgerVars
    BY <1>3 DEF ApplyTransition, ApplyDelete
  <2>3. QED
    BY <1>1, <2>1, <2>2, ReverseOwes
<1>4. CASE Tick
  <2>1. /\ today \in Int /\ today' = today + 1
        /\ rows' = rows /\ due' = due /\ allocated' = allocated /\ status' = status
        /\ tenantStatus' = tenantStatus
    BY <1>4, TimeAssumption DEF Tick, ledgerVars, OwesInv, IInv, TypeOK
  <2>2. \A m \in rows : m \in Int
    BY TimeAssumption DEF OwesInv, IInv, TypeOK, Months
  <2>3. \A m \in rows : m <= today => m <= today'
    BY <2>1, <2>2
  <2>4. ShortHasCome'
    BY <2>1, <2>3 DEF OwesInv, ShortHasCome
  <2>5. tenantStatus = "overdue" => \E m \in rows : m <= today' /\ allocated[m] < due[m]
    BY <2>3 DEF OwesInv, OverdueTenantOwes
  <2>6. OverdueTenantOwes'
    BY <2>1, <2>5 DEF OverdueTenantOwes
  <2>7. QED
    BY <2>4, <2>6
<1>5. \/ UNCHANGED <<today, ledgerVars>>
      \/ \E p \in Procs : CommitAllocation(p) \/ Generate(p)
      \/ \E w \in Workers : ApplyTransition(w) \/ ApplyDelete(w)
      \/ Tick
  <2>1. CASE UNCHANGED vars
    BY <2>1 DEF vars, ledgerVars
  <2>2. CASE \E w \in Workers : ServerStep(w)
    BY <2>2 DEF ServerStep, CreateReceipt, SeedLease, StartTransition, StartDelete
  <2>3. CASE \E p \in Procs : AllocationStep(p) \/ Abandon(p)
    BY <2>3 DEF AllocationStep, Load, Plan, Abandon
  <2>4. QED
    BY <2>1, <2>2, <2>3 DEF Next, StartBackfill, UpdateReceipt, ChangeRent
<1>6. QED
  BY <1>1, <1>2, <1>3, <1>4, <1>5

\* A tenant who reads overdue owes a month that has come, always: though the status is
\* kept while months are added and receipts are given to other tenants, nothing that
\* leaves it standing can settle what it was derived from.
THEOREM OverdueAlwaysOwes == Spec => []OverdueTenantOwes
<1>1. Init => OwesInv
  BY InitIInv DEF Init, OwesInv, ShortHasCome, OverdueTenantOwes
<1>2. Spec => []OwesInv
  BY <1>1, Inductive, OwesStep, PTL DEF Spec
<1>3. OwesInv => OverdueTenantOwes
  BY DEF OwesInv
<1>4. QED
  BY <1>2, <1>3, PTL
=============================================================================
