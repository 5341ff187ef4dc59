-------------------------- MODULE RentAccountProofs -------------------------
(***************************************************************************)
(* RentLedger implements RentAccount: the refinement, step by step.         *)
(*                                                                         *)
(* Whatever interleaves, money moves as a whole (MovesWhole).  That it also *)
(* goes to the oldest open months needs what a plan was made from still to  *)
(* hold when it is written, which is so when requests come one at a time    *)
(* and the rent does not change (ImplementsAccount).                        *)
(***************************************************************************)
EXTENDS RentLedgerProofs

-----------------------------------------------------------------------------
(* Money moves as a whole                                                   *)

\* A month without a row owes nothing.
Unbilled == \A m \in Months : m \notin rows => due[m] = 0

\* Nor has it been paid anything.
LEMMA NothingPaidAhead ==
  ASSUME IInv, NEW m \in Months, m \notin rows
  PROVE  allocated[m] = 0
<1>1. \A r \in Receipts : ~(live[r][m] > 0)
  BY DEF IInv, MoneyHasReceipt
<1>2. QED
  BY <1>1, CentsNone DEF IInv

\* generateRentPeriods adds months to the account and moves no money.
LEMMA GenerateAdds ==
  ASSUME IInv, Unbilled, TypeOK', NEW p \in Procs, Generate(p)
  PROVE  Unbilled' /\ Account!AddMonths
<1> DEFINE new == request[p].months
<1>1. /\ new \cap rows = {} /\ rows' = rows \cup new
      /\ due' = [m \in Months |-> IF m \in new THEN request[p].rent ELSE due[m]]
      /\ allocated' = [m \in Months |-> IF m \in new THEN 0 ELSE allocated[m]]
      /\ live' = live
  BY DEF Generate
<1>2. allocated' = allocated
  <2>1. \A m \in Months : m \in new => allocated[m] = 0
    BY <1>1, NothingPaidAhead
  <2>2. QED
    BY <1>1, <2>1 DEF IInv, TypeOK
<1>3. Account!Bills
  BY <1>1 DEF Account!Bills, Unbilled, TypeOK
<1>4. Unbilled'
  BY <1>1 DEF Unbilled
<1>5. QED
  BY <1>1, <1>2, <1>3, <1>4 DEF Account!AddMonths

\* What the transaction of a plan does to the months and to its receipt.
LEMMA CommitWrites ==
  ASSUME IInv, NEW p \in Procs, CommitAllocation(p)
  PROVE  LET r       == request[p].receipt
             plan    == request[p].plan
             touched == {m \in Months : plan[m] > 0}
         IN  /\ r \in Receipts /\ ~HoldsMoney(r)
             /\ plan \in [Months -> Nat] /\ plan # NoMoney
             /\ rows' = rows \cup touched
             /\ due' = [m \in Months |->
                           IF m \in touched \ rows THEN request[p].rent ELSE due[m]]
             /\ \A m \in Months : allocated'[m] = allocated[m] + plan[m]
             /\ \A m \in Months : live'[r][m] = plan[m]
             /\ \A s \in Receipts \ {r} : live'[s] = live[s]
<1> DEFINE r == request[p].receipt
           plan == request[p].plan
<1>1. TypeOK /\ RequestsSound
  BY DEF IInv
<1>2. Checked(p) /\ request[p].pc = "commit"
  BY DEF CommitAllocation, Checked, Allocating
<1>3. r \in Receipts /\ ~HoldsMoney(r) /\ plan \in [Months -> Nat] /\ plan # NoMoney
  BY <1>1, <1>2 DEF RequestsSound, NamesReceipt, CheckStillHolds, PlansMoney, Checked,
                    TypeOK, RequestRecord
<1>4. /\ live' = [live EXCEPT ![r] = [m \in Months |-> live[r][m] + plan[m]]]
      /\ rows' = rows \cup {m \in Months : plan[m] > 0}
      /\ due' = [m \in Months |->
                    IF m \in {k \in Months : plan[k] > 0} \ rows
                    THEN request[p].rent ELSE due[m]]
      /\ allocated' = [m \in Months |-> allocated[m] + plan[m]]
  BY DEF CommitAllocation, WritePeriods
<1>5. \A m \in Months : live[r][m] = 0
  <2>1. \A m \in Months : ~(live[r][m] > 0)
    BY <1>3 DEF HoldsMoney
  <2>2. QED
    BY <1>1, <1>3, <2>1 DEF TypeOK
<1>6. /\ \A m \in Months : live'[r][m] = plan[m]
      /\ \A s \in Receipts \ {r} : live'[s] = live[s]
  BY <1>1, <1>3, <1>4, <1>5 DEF TypeOK
<1>7. \A m \in Months : allocated'[m] = allocated[m] + plan[m]
  BY <1>4
<1>8. QED
  BY <1>3, <1>4, <1>6, <1>7

\* Committing a plan enters the receipt's money, none of which was there.
LEMMA CommitEnters ==
  ASSUME IInv, Unbilled, TypeOK', NEW p \in Procs, CommitAllocation(p),
         NEW r \in Receipts, r = request[p].receipt
  PROVE  Unbilled' /\ Account!Enter(r)
<1> DEFINE plan == request[p].plan
           touched == {m \in Months : plan[m] > 0}
<1>1. /\ r \in Receipts /\ ~HoldsMoney(r)
      /\ plan \in [Months -> Nat] /\ plan # NoMoney
      /\ rows' = rows \cup touched
      /\ due' = [m \in Months |-> IF m \in touched \ rows THEN request[p].rent ELSE due[m]]
      /\ \A m \in Months : allocated'[m] = allocated[m] + plan[m]
      /\ \A m \in Months : live'[r][m] = plan[m]
      /\ \A s \in Receipts \ {r} : live'[s] = live[s]
  BY CommitWrites
<1>2. \E m \in Months : plan[m] > 0
  BY <1>1, PlanTouches
<1>3. Account!Bills
  BY <1>1 DEF Account!Bills, Unbilled, TypeOK
<1>4. ~Account!Holds(r) /\ Account!Holds(r)'
  BY <1>1, <1>2 DEF Account!Holds, HoldsMoney
<1>5. /\ live' \in [Receipts -> [Months -> Nat]]
      /\ allocated' \in [Months -> Nat]
  BY DEF TypeOK
<1>6. Unbilled'
  BY <1>1 DEF Unbilled
<1>7. QED
  BY <1>1, <1>3, <1>4, <1>5, <1>6 DEF Account!Enter

\* A reversal takes back, month by month, what the receipt holds; when it holds
\* nothing the account stays as it is.
LEMMA ReverseWithdraws ==
  ASSUME IInv, TypeOK', NEW r \in Receipts, Reverse(r)
  PROVE  /\ rows' = rows /\ due' = due
         /\ Account!Withdraw(r) \/ UNCHANGED Account!acct
<1>1. TypeOK
  BY DEF IInv
<1>2. CASE ~HoldsMoney(r)
  BY <1>2 DEF Reverse, ledgerVars, Account!acct
<1>3. CASE HoldsMoney(r)
  <2>1. /\ \A s \in Receipts, m \in Months : s # r => live'[s][m] = live[s][m]
        /\ \A m \in Months : live'[r][m] = 0
    BY <1>1, ReverseClears
  <2>2. /\ rows' = rows /\ due' = due
        /\ live' = [live EXCEPT ![r] = NoMoney]
        /\ \A m \in Months : allocated'[m] =
               IF live[r][m] > 0 THEN Greater(0, allocated[m] - live[r][m])
               ELSE allocated[m]
    BY <1>3 DEF Reverse, WritePeriods, LessAllocation
  <2>3. \A m \in Months : allocated'[m] = allocated[m] - live[r][m]
    <3> TAKE m \in Months
    <3>1. live[r][m] <= Cardinality(Cents(m))
      BY <1>1, <2>1, CentsTaken DEF IInv, CentsFinite
    <3>2. allocated[m] \in Nat /\ live[r][m] \in Nat /\ live[r][m] <= allocated[m]
      BY <1>1, <3>1 DEF TypeOK, IInv, LedgerBalanced
    <3>3. QED
      BY <2>2, <3>2 DEF Greater
  <2>4. Account!Holds(r) /\ ~Account!Holds(r)'
    BY <1>3, <2>1 DEF Account!Holds, HoldsMoney
  <2>5. \A s \in Receipts \ {r} : live'[s] = live[s]
    BY <1>1, <2>2 DEF TypeOK
  <2>6. /\ live' \in [Receipts -> [Months -> Nat]]
        /\ allocated' \in [Months -> Nat]
    BY DEF TypeOK
  <2>7. QED
    BY <2>2, <2>3, <2>4, <2>5, <2>6 DEF Account!Withdraw
<1>4. QED
  BY <1>2, <1>3

\* The steps that write what the account sees.
LEMMA WhoWritesTheAccount ==
  ASSUME [Next]_vars
  PROVE  \/ UNCHANGED <<rows, due, allocated, live>>
         \/ \E p \in Procs : Generate(p) \/ CommitAllocation(p)
         \/ \E w \in Workers : (ApplyTransition(w) \/ ApplyDelete(w))
                                  /\ Reverse(request[w].receipt)
BY DEF Next, ServerStep, AllocationStep, vars, ledgerVars, CreateReceipt, StartBackfill,
       SeedLease, Load, Plan, StartTransition, StartDelete, ApplyTransition, ApplyDelete,
       UpdateReceipt, Abandon, ChangeRent, Tick

\* A request that reverses names a receipt.
LEMMA ReversesAReceipt ==
  ASSUME IInv, NEW w \in Workers, ApplyTransition(w) \/ ApplyDelete(w)
  PROVE  request[w].receipt \in Receipts
BY DEF ApplyTransition, ApplyDelete, IInv, RequestsSound, NamesReceipt, Procs

LEMMA AccountStarts ==
  Init => Unbilled /\ Account!Init
BY DEF Init, Unbilled, NoMoney, Account!Init

LEMMA WholeStep ==
  IInv /\ Unbilled /\ [Next]_vars =>
      Unbilled' /\ [Account!WholeNext]_(Account!acct)
<1> SUFFICES ASSUME IInv, Unbilled, [Next]_vars
             PROVE  Unbilled' /\ [Account!WholeNext]_(Account!acct)
  OBVIOUS
<1>1. TypeOK'
  BY IInvStep DEF IInv
<1>2. CASE UNCHANGED <<rows, due, allocated, live>>
  BY <1>2 DEF Unbilled, Account!acct
<1>3. ASSUME NEW p \in Procs, Generate(p)
      PROVE  Unbilled' /\ [Account!WholeNext]_(Account!acct)
  BY <1>1, <1>3, GenerateAdds DEF Account!WholeNext
<1>4. ASSUME NEW p \in Procs, CommitAllocation(p)
      PROVE  Unbilled' /\ [Account!WholeNext]_(Account!acct)
  <2>1. PICK r \in Receipts : r = request[p].receipt
    BY <1>4, CommitWrites
  <2>2. QED
    BY <1>1, <1>4, <2>1, CommitEnters DEF Account!WholeNext
<1>5. ASSUME NEW w \in Workers, ApplyTransition(w) \/ ApplyDelete(w),
             Reverse(request[w].receipt)
      PROVE  Unbilled' /\ [Account!WholeNext]_(Account!acct)
  <2>1. PICK r \in Receipts : r = request[w].receipt
    BY <1>5, ReversesAReceipt
  <2>2. /\ rows' = rows /\ due' = due
        /\ Account!Withdraw(r) \/ UNCHANGED Account!acct
    BY <1>1, <1>5, <2>1, ReverseWithdraws
  <2>3. QED
    BY <2>1, <2>2 DEF Unbilled, Account!WholeNext
<1>6. QED
  BY <1>2, <1>3, <1>4, <1>5, WhoWritesTheAccount

LEMMA MonthsStayUnbilled == Spec => []Unbilled
<1>1. IInv /\ Unbilled /\ [Next]_vars => Unbilled'
  BY WholeStep
<1>2. QED
  BY <1>1, AccountStarts, Inductive, PTL DEF Spec

\* Whatever requests interleave, whatever the rent does and wherever the server
\* stops, a receipt's money enters the account in one step and leaves it in one
\* step, as it came (allocateReceipt's and reverseAllocationsForReceipt's
\* transactions).
THEOREM MoneyMovesWhole == Spec => MovesWhole
<1>1. Init => Account!Init
  BY AccountStarts
<1>2. IInv /\ Unbilled /\ [Next]_vars => [Account!WholeNext]_(Account!acct)
  BY WholeStep
<1>3. QED
  BY <1>1, <1>2, Inductive, MonthsStayUnbilled, PTL
     DEF Spec, MovesWhole, Account!WholeSpec

-----------------------------------------------------------------------------
(* One request at a time                                                    *)

\* The server works on one request at a time.
OneAtATime == \A v, w \in Workers : v = w

\* The rent of the lease does not change.
FixedRent == \A x, y \in Rents : x = y

\* Of all the processes, the script included, at most one has a request.
OneActive == \A p, q \in Procs : p # q => Idle(p) \/ Idle(q)

\* Every month that has a row owes the rent.
RentOwed == \A m \in Months : m \in rows => due[m] = rent

\* What a request read of the ledger is what the ledger still says.
Fresh(p) ==
    /\ request[p].pc \in {"generate", "commit"} => request[p].rent = rent
    /\ request[p].pc = "commit" =>
          request[p].plan = PlanAllocation(request[p].amount, rows, due, allocated,
                                           Horizon, LastMonth)

Sequential == OneActive /\ RentOwed /\ \A p \in Procs : Fresh(p)

\* The rent is the same after every step.
LEMMA RentStays ==
  ASSUME FixedRent, TypeOK, TypeOK'
  PROVE  rent' = rent
BY DEF FixedRent, TypeOK

\* Everyone is idle when a request arrives.
LEMMA AllIdle ==
  ASSUME OneAtATime, NEW w \in Workers, Online, Idle(w)
  PROVE  \A q \in Procs : Idle(q)
BY DEF OneAtATime, Online, Procs

\* A step moves at most one request on: one under way, or a new one while all idle.
LEMMA OneMoves ==
  ASSUME OneAtATime, TypeOK, [Next]_vars
  PROVE  \/ UNCHANGED request
         \/ \E p \in Procs : /\ \A q \in Procs \ {p} : request'[q] = request[q]
                             /\ Idle(p) => \A q \in Procs : Idle(q)
<1> DEFINE Moves(p) == /\ \A q \in Procs \ {p} : request'[q] = request[q]
                       /\ Idle(p) => \A q \in Procs : Idle(q)
<1>1. \A w \in Workers : w \in Procs
  BY DEF Procs
<1>2. ASSUME NEW p \in Procs, NEW x, request' = [request EXCEPT ![p] = x],
             ~Idle(p) \/ \A q \in Procs : Idle(q)
      PROVE  Moves(p)
  BY <1>2 DEF TypeOK
<1>3. ASSUME NEW p \in Procs, AllocationStep(p) \/ Abandon(p)
      PROVE  Moves(p)
  <2>1. ~Idle(p)
    BY <1>3 DEF AllocationStep, Load, Generate, Plan, CommitAllocation, Abandon, Idle
  <2>2. \E x : request' = [request EXCEPT ![p] = x]
    BY <1>3 DEF AllocationStep, Load, Generate, Plan, CommitAllocation, Abandon, Finish
  <2>3. QED
    BY <1>2, <2>1, <2>2
<1>4. ASSUME NEW w \in Workers, ServerStep(w)
      PROVE  Moves(w)
  <2>1. \E x : request' = [request EXCEPT ![w] = x]
    BY <1>4 DEF ServerStep, SeedLease, CreateReceipt, StartTransition, StartDelete,
                ApplyTransition, ApplyDelete, Finish
  <2>2. ~Idle(w) \/ (Online /\ Idle(w))
    BY <1>4 DEF ServerStep, SeedLease, CreateReceipt, StartTransition, StartDelete,
                ApplyTransition, ApplyDelete, Idle
  <2>3. QED
    BY <1>1, <1>2, <2>1, <2>2, AllIdle
<1>5. ASSUME NEW r \in Receipts, StartBackfill(r)
      PROVE  Moves(Script)
  <2>1. Script \in Procs
    BY DEF Procs
  <2>2. QED
    BY <1>2, <1>5, <2>1 DEF StartBackfill
<1>6. \/ UNCHANGED request
      \/ \E w \in Workers : ServerStep(w)
      \/ \E p \in Procs : AllocationStep(p) \/ Abandon(p)
      \/ \E r \in Receipts : StartBackfill(r)
  BY DEF Next, vars, UpdateReceipt, ChangeRent, Tick
<1> HIDE DEF Moves
<1>7. UNCHANGED request \/ \E p \in Procs : Moves(p)
  <2>1. Script \in Procs
    BY DEF Procs
  <2>2. QED
    BY <1>1, <1>3, <1>4, <1>5, <1>6, <2>1
<1>8. QED
  BY <1>7 DEF Moves

LEMMA OneActiveStep ==
  ASSUME OneAtATime, TypeOK, OneActive, [Next]_vars
  PROVE  OneActive'
<1>1. CASE UNCHANGED request
  BY <1>1 DEF OneActive, Idle
<1>2. ASSUME NEW p \in Procs,
             \A q \in Procs \ {p} : request'[q] = request[q],
             Idle(p) => \A q \in Procs : Idle(q)
      PROVE  OneActive'
  <2>1. \A q \in Procs \ {p} : Idle(q)
    BY <1>2 DEF OneActive
  <2>2. \A q \in Procs \ {p} : Idle(q)'
    BY <1>2, <2>1 DEF Idle
  <2>3. QED
    BY <2>2 DEF OneActive
<1>3. QED
  BY <1>1, <1>2, OneMoves

\* A request that reaches a write read the ledger in the step that sent it there.
LEMMA ReadsBeforeWriting ==
  ASSUME TypeOK, [Next]_vars, NEW q \in Procs
  PROVE  \/ request'[q] = request[q]
         \/ request'[q].pc \notin {"generate", "commit"}
         \/ request'[q].pc = "generate" /\ request'[q].rent = rent
         \/ Plan(q)
<1> DEFINE Good == \/ request'[q] = request[q]
                   \/ request'[q].pc \notin {"generate", "commit"}
                   \/ request'[q].pc = "generate" /\ request'[q].rent = rent
                   \/ Plan(q)
<1>1. \A p \in Procs : request[p] \in RequestRecord
  BY DEF TypeOK
<1>2. ASSUME NEW p \in Procs, NEW x, request' = [request EXCEPT ![p] = x],
             \/ x.pc \notin {"generate", "commit"}
             \/ x.pc = "generate" /\ x.rent = rent
      PROVE  Good
  BY <1>2 DEF TypeOK
<1>3. ASSUME NEW p \in Procs, Finish(p) PROVE Good
  <2>1. request' = [request EXCEPT ![p] = IdleRequest] /\ IdleRequest.pc = "idle"
    BY <1>3 DEF Finish, IdleRequest
  <2>2. QED
    BY <1>2, <2>1
<1>4. \A w \in Workers : w \in Procs
  BY DEF Procs
<1> HIDE DEF Good
<1>5. ASSUME NEW w \in Workers, ServerStep(w) PROVE Good
  <2>1. CASE ApplyTransition(w) \/ ApplyDelete(w)
    BY <1>3, <1>4, <2>1 DEF ApplyTransition, ApplyDelete
  <2>2. CASE SeedLease(w)
    <3> DEFINE x == [IdleRequest EXCEPT !.pc = "generate", !.rent = rent,
                                        !.months = WantedMonths]
    <3>1. x.pc = "generate" /\ x.rent = rent
      BY DEF IdleRequest
    <3>2. request' = [request EXCEPT ![w] = x]
      BY <2>2 DEF SeedLease
    <3> HIDE DEF x
    <3>3. QED
      BY <1>2, <1>4, <3>1, <3>2
  <2>3. ASSUME NEW r \in Receipts, NEW a \in Amounts, NEW d \in Dates, NEW l \in Sources,
               CreateReceipt(w, r, a, d, l)
        PROVE  Good
    <3> DEFINE x == [IdleRequest EXCEPT !.pc = "load", !.receipt = r]
    <3>1. x.pc = "load"
      BY DEF IdleRequest
    <3>2. request' = [request EXCEPT ![w] = x]
      BY <2>3 DEF CreateReceipt
    <3> HIDE DEF x
    <3>3. QED
      BY <1>2, <1>4, <3>1, <3>2
  <2>4. ASSUME NEW r \in Receipts, NEW to \in Targets, StartTransition(w, r, to)
        PROVE  Good
    <3> DEFINE x == [IdleRequest EXCEPT !.pc = "transition", !.receipt = r, !.target = to]
    <3>1. x.pc = "transition"
      BY DEF IdleRequest
    <3>2. request' = [request EXCEPT ![w] = x]
      BY <2>4 DEF StartTransition
    <3> HIDE DEF x
    <3>3. QED
      BY <1>2, <1>4, <3>1, <3>2
  <2>5. ASSUME NEW r \in Receipts, StartDelete(w, r)
        PROVE  Good
    <3> DEFINE x == [IdleRequest EXCEPT !.pc = "delete", !.receipt = r]
    <3>1. x.pc = "delete"
      BY DEF IdleRequest
    <3>2. request' = [request EXCEPT ![w] = x]
      BY <2>5 DEF StartDelete
    <3> HIDE DEF x
    <3>3. QED
      BY <1>2, <1>4, <3>1, <3>2
  <2>6. QED
    BY <1>5, <2>1, <2>2, <2>3, <2>4, <2>5 DEF ServerStep
<1>6. ASSUME NEW r \in Receipts, StartBackfill(r) PROVE Good
  <2> DEFINE x == [IdleRequest EXCEPT !.pc = "load", !.receipt = r]
  <2>1. x.pc = "load" /\ Script \in Procs
    BY DEF IdleRequest, Procs
  <2>2. request' = [request EXCEPT ![Script] = x]
    BY <1>6 DEF StartBackfill
  <2> HIDE DEF x
  <2>3. QED
    BY <1>2, <2>1, <2>2
<1>7. ASSUME NEW p \in Procs, Load(p) PROVE Good
  <2> DEFINE r == request[p].receipt
             missing == WantedMonths \ rows
             x == [request[p] EXCEPT
                      !.pc     = IF missing = {} THEN "plan" ELSE "generate",
                      !.amount = receipt[r].amount,
                      !.date   = receipt[r].date,
                      !.rent   = rent,
                      !.months = missing]
  <2>1. x.pc \in {"plan", "generate"} /\ x.rent = rent
    BY <1>1 DEF RequestRecord
  <2>2. request' = [request EXCEPT ![p] = x]
    BY <1>7 DEF Load
  <2> HIDE DEF x
  <2>3. QED
    BY <1>2, <2>1, <2>2
<1>8. ASSUME NEW p \in Procs, Generate(p) PROVE Good
  <2> DEFINE x == IF request[p].receipt = NoReceipt THEN IdleRequest
                  ELSE [request[p] EXCEPT !.pc = "plan", !.months = {}]
  <2>1. x.pc \notin {"generate", "commit"}
    BY <1>1 DEF IdleRequest, RequestRecord
  <2>2. request' = [request EXCEPT ![p] = x]
    BY <1>8 DEF Generate
  <2> HIDE DEF x
  <2>3. QED
    BY <1>2, <2>1, <2>2
<1>9. ASSUME NEW p \in Procs, Plan(p) PROVE Good
  <2>1. CASE p = q
    BY <1>9, <2>1 DEF Good
  <2>2. CASE p # q
    BY <1>9, <2>2 DEF Plan, TypeOK, Good
  <2>3. QED
    BY <2>1, <2>2
<1>10. ASSUME NEW p \in Procs, CommitAllocation(p) \/ Abandon(p) PROVE Good
  BY <1>3, <1>10 DEF CommitAllocation, Abandon
<1>11. ASSUME UNCHANGED request PROVE Good
  BY <1>11 DEF Good
<1>12. QED
  <2>1. \/ UNCHANGED request
        \/ \E w \in Workers : ServerStep(w)
        \/ \E p \in Procs : AllocationStep(p) \/ Abandon(p)
        \/ \E r \in Receipts : StartBackfill(r)
    BY DEF Next, vars, UpdateReceipt, ChangeRent, Tick
  <2>2. ASSUME NEW p \in Procs, AllocationStep(p) \/ Abandon(p) PROVE Good
    BY <1>7, <1>8, <1>9, <1>10, <2>2, Zenon DEF AllocationStep
  <2>3. Good
    BY <1>5, <1>6, <1>11, <2>1, <2>2
  <2>4. QED
    BY <2>3 DEF Good

\* Nobody else is under way while one request writes, so what a request read of
\* the ledger stays true until it writes itself.
LEMMA FreshStep ==
  ASSUME OneAtATime, FixedRent, TypeOK, TypeOK', Sequential, [Next]_vars,
         NEW q \in Procs
  PROVE  Fresh(q)'
<1>1. rent' = rent
  BY RentStays
<1>2. ASSUME request'[q].pc \notin {"generate", "commit"} PROVE Fresh(q)'
  BY <1>2 DEF Fresh
<1>3. CASE UNCHANGED <<rows, due, allocated, live>>
  <2>1. CASE request'[q] = request[q]
    BY <1>1, <1>3, <2>1 DEF Sequential, Fresh
  <2>2. CASE request'[q].pc = "generate" /\ request'[q].rent = rent
    BY <1>1, <2>2 DEF Fresh
  <2>3. CASE Plan(q)
    <3> DEFINE plan == PlanAllocation(request[q].amount, rows, due, allocated,
                                      Horizon, LastMonth)
               x == [request[q] EXCEPT !.pc = "commit", !.plan = plan,
                                       !.rent = rent, !.months = rows]
    <3>1. request'[q] = x /\ request[q] \in RequestRecord
      BY <2>3 DEF Plan, TypeOK
    <3> HIDE DEF plan
    <3>2. x.plan = plan /\ x.rent = rent /\ x.amount = request[q].amount
      BY <3>1 DEF RequestRecord
    <3> HIDE DEF x
    <3>3. request'[q].plan = PlanAllocation(request'[q].amount, rows', due', allocated',
                                            Horizon, LastMonth)
      BY <1>3, <3>1, <3>2 DEF plan
    <3>4. request'[q].rent = rent'
      BY <1>1, <3>1, <3>2
    <3>5. QED
      BY <3>3, <3>4 DEF Fresh
  <2>4. QED
    BY <1>2, <2>1, <2>2, <2>3, ReadsBeforeWriting
<1>4. ASSUME NEW p \in Procs, ~Idle(p),
             \A o \in Procs \ {p} : request'[o] = request[o],
             request'[p].pc \notin {"generate", "commit"}
      PROVE  Fresh(q)'
  <2>1. CASE q = p
    BY <1>2, <1>4, <2>1
  <2>2. CASE q # p
    <3>1. Idle(q) /\ request'[q] = request[q]
      BY <1>4, <2>2 DEF Sequential, OneActive
    <3>2. QED
      BY <1>2, <3>1 DEF Idle
  <2>3. QED
    BY <2>1, <2>2
<1>5. ASSUME NEW p \in Procs, Finish(p), ~Idle(p) PROVE Fresh(q)'
  <2>1. request'[p].pc = "idle" /\ \A o \in Procs \ {p} : request'[o] = request[o]
    BY <1>5 DEF Finish, IdleRequest, TypeOK
  <2>2. QED
    BY <1>4, <1>5, <2>1
<1>6. ASSUME NEW p \in Procs, Generate(p) PROVE Fresh(q)'
  <2> DEFINE x == IF request[p].receipt = NoReceipt THEN IdleRequest
                  ELSE [request[p] EXCEPT !.pc = "plan", !.months = {}]
  <2>1. x.pc \notin {"generate", "commit"}
    BY DEF IdleRequest, RequestRecord, TypeOK
  <2>2. request' = [request EXCEPT ![p] = x] /\ ~Idle(p)
    BY <1>6 DEF Generate, Idle
  <2> HIDE DEF x
  <2>3. request'[p] = x /\ \A o \in Procs \ {p} : request'[o] = request[o]
    BY <2>2 DEF TypeOK
  <2>4. QED
    BY <1>4, <2>1, <2>2, <2>3
<1>7. ASSUME NEW p \in Procs, CommitAllocation(p) PROVE Fresh(q)'
  BY <1>5, <1>7 DEF CommitAllocation, Idle
<1>8. ASSUME NEW w \in Workers, ApplyTransition(w) \/ ApplyDelete(w) PROVE Fresh(q)'
  BY <1>5, <1>8 DEF ApplyTransition, ApplyDelete, Idle, Procs
<1>9. QED
  BY <1>3, <1>6, <1>7, <1>8, WhoWritesTheAccount

\* A month that gets a row gets the rent, and keeps it.
LEMMA RentOwedStep ==
  ASSUME FixedRent, IInv, TypeOK', Sequential, [Next]_vars
  PROVE  RentOwed'
<1>1. TypeOK
  BY DEF IInv
<1>2. rent' = rent
  BY <1>1, RentStays
<1>3. RentOwed
  BY DEF Sequential
<1>4. CASE UNCHANGED <<rows, due, allocated, live>>
  BY <1>2, <1>3, <1>4 DEF RentOwed
<1>5. ASSUME NEW p \in Procs, Generate(p) PROVE RentOwed'
  <2>1. request[p].rent = rent
    BY <1>5 DEF Generate, Sequential, Fresh
  <2>2. /\ rows' = rows \cup request[p].months
        /\ due' = [m \in Months |-> IF m \in request[p].months THEN request[p].rent
                                    ELSE due[m]]
    BY <1>5 DEF Generate
  <2>3. QED
    BY <1>2, <1>3, <2>1, <2>2 DEF RentOwed
<1>6. ASSUME NEW p \in Procs, CommitAllocation(p) PROVE RentOwed'
  <2>1. request[p].rent = rent
    BY <1>6 DEF CommitAllocation, Sequential, Fresh
  <2> DEFINE touched == {m \in Months : request[p].plan[m] > 0}
  <2>2. /\ rows' = rows \cup touched
        /\ due' = [m \in Months |-> IF m \in touched \ rows THEN request[p].rent
                                    ELSE due[m]]
    BY <1>6 DEF CommitAllocation, WritePeriods
  <2> HIDE DEF touched
  <2>3. QED
    BY <1>2, <1>3, <2>1, <2>2 DEF RentOwed
<1>7. ASSUME NEW w \in Workers, ApplyTransition(w) \/ ApplyDelete(w),
             Reverse(request[w].receipt)
      PROVE  RentOwed'
  <2>1. PICK r \in Receipts : r = request[w].receipt
    BY <1>7, ReversesAReceipt
  <2>2. rows' = rows /\ due' = due
    BY <1>7, <2>1, ReverseWithdraws
  <2>3. QED
    BY <1>2, <1>3, <2>2 DEF RentOwed
<1>8. QED
  BY <1>4, <1>5, <1>6, <1>7, WhoWritesTheAccount

LEMMA SequentialStep ==
  ASSUME OneAtATime, FixedRent, IInv, Sequential, [Next]_vars
  PROVE  Sequential'
<1>1. TypeOK /\ TypeOK'
  BY IInvStep DEF IInv
<1>2. OneActive'
  BY <1>1, OneActiveStep DEF Sequential
<1>3. RentOwed'
  BY <1>1, RentOwedStep
<1>4. \A p \in Procs : Fresh(p)'
  BY <1>1, FreshStep
<1>5. QED
  BY <1>2, <1>3, <1>4 DEF Sequential

LEMMA SequentialStart == Init => Sequential
<1> SUFFICES ASSUME Init PROVE Sequential
  OBVIOUS
<1>1. \A p \in Procs : request[p].pc = "idle"
  BY DEF Init, IdleRequest
<1>2. OneActive /\ \A p \in Procs : Fresh(p)
  BY <1>1 DEF OneActive, Idle, Fresh
<1>3. RentOwed
  BY DEF Init, RentOwed
<1>4. QED
  BY <1>2, <1>3 DEF Sequential

\* A plan made from the ledger as it still is goes to the oldest open months.
LEMMA CommitFillsOldest ==
  ASSUME IInv, Unbilled, Sequential, NEW p \in Procs, CommitAllocation(p),
         NEW r \in Receipts, r = request[p].receipt
  PROVE  Account!OldestFirst(r)
<1> DEFINE plan == request[p].plan
           amount == request[p].amount
           touched == {m \in Months : plan[m] > 0}
           c == Capacity(rows, due, allocated, Horizon, LastMonth)
<1>1. /\ plan \in [Months -> Nat] /\ plan # NoMoney
      /\ rows' = rows \cup touched
      /\ due' = [m \in Months |-> IF m \in touched \ rows THEN request[p].rent ELSE due[m]]
      /\ \A m \in Months : allocated'[m] = allocated[m] + plan[m]
      /\ \A m \in Months : live'[r][m] = plan[m]
  BY CommitWrites
<1>2. /\ rows \in SUBSET (1..LastMonth) /\ due \in [1..LastMonth -> Nat]
      /\ allocated \in [1..LastMonth -> Nat] /\ amount \in Nat
      /\ LastMonth \in Nat /\ Horizon \in Nat /\ rent \in Nat
  BY TimeAssumption, MoneyAssumption DEF IInv, TypeOK, Months, RequestRecord
<1>3. /\ request[p].rent = rent
      /\ plan = PlanAllocation(amount, rows, due, allocated, Horizon, LastMonth)
  BY DEF CommitAllocation, Sequential, Fresh
<1>4. rows # {}
  BY <1>1, <1>3 DEF PlanAllocation, NoMoney, Months
<1>5. FillsOldestFirst(plan, c, LastMonth)
  BY <1>2, <1>3, <1>4, PlanOldestFirst
<1>6. LastKnown(rows) \in rows
  BY <1>2, <1>4, LastKnownIsLast
<1>7. \A m \in Months : IF m \in rows THEN c[m] = Greater(due[m] - allocated[m], 0)
                        ELSE c[m] \in {rent, 0}
  BY <1>2, <1>6 DEF Capacity, Sequential, RentOwed, Months
<1>8. \A m \in Months : /\ due'[m] = IF m \in rows THEN due[m]
                                     ELSE IF plan[m] > 0 THEN rent ELSE 0
                        /\ m \notin rows => allocated[m] = 0
                        /\ due[m] \in Nat /\ allocated[m] \in Nat /\ plan[m] \in Nat
  BY <1>1, <1>2, <1>3, NothingPaidAhead DEF Unbilled, Months
<1> HIDE DEF plan, c
<1>9. ASSUME NEW m \in Months, plan[m] > 0
      PROVE  /\ allocated'[m] <= due'[m]
             /\ \A k \in Months : k < m => plan[k] = c[k]
  <2>1. plan[m] \in 0..c[m] /\ \A k \in 1..(m - 1) : plan[k] = c[k]
    BY <1>5, <1>9 DEF FillsOldestFirst, Months
  <2>2. \A k \in Months : k < m => k \in 1..(m - 1)
    BY DEF Months
  <2>3. CASE m \in rows
    <3>1. /\ allocated'[m] = allocated[m] + plan[m] /\ due'[m] = due[m]
          /\ c[m] = Greater(due[m] - allocated[m], 0)
      BY <1>1, <1>7, <1>8, <2>3 DEF plan
    <3>2. QED
      BY <1>8, <1>9, <2>1, <2>2, <3>1 DEF Greater
  <2>4. CASE m \notin rows
    <3>1. /\ allocated'[m] = allocated[m] + plan[m] /\ due'[m] = rent
          /\ allocated[m] = 0 /\ c[m] \in {rent, 0}
      BY <1>1, <1>7, <1>8, <1>9, <2>4 DEF plan
    <3>2. QED
      BY <1>2, <1>8, <1>9, <2>1, <2>2, <3>1
  <2>5. QED
    BY <2>3, <2>4
<1>10. ASSUME NEW k \in Months, plan[k] = c[k]
       PROVE  allocated'[k] >= due'[k]
  <2>1. allocated'[k] = allocated[k] + plan[k]
    BY <1>1 DEF plan
  <2>2. CASE k \in rows
    <3>1. due'[k] = due[k] /\ c[k] = Greater(due[k] - allocated[k], 0)
      BY <1>7, <1>8, <2>2
    <3>2. QED
      BY <1>8, <1>10, <2>1, <3>1 DEF Greater
  <2>3. CASE k \notin rows
    <3>1. /\ due'[k] = IF plan[k] > 0 THEN rent ELSE 0
          /\ allocated[k] = 0 /\ c[k] \in {rent, 0}
      BY <1>7, <1>8, <2>3
    <3>2. QED
      BY <1>2, <1>8, <1>10, <2>1, <3>1
  <2>4. QED
    BY <2>2, <2>3
<1>11. \A m \in Months : live'[r][m] > 0 => plan[m] > 0
  BY <1>1 DEF plan
<1>12. QED
  BY <1>9, <1>10, <1>11 DEF Account!OldestFirst

LEMMA AccountStep ==
  ASSUME OneAtATime, FixedRent, IInv, Unbilled, Sequential, [Next]_vars
  PROVE  [Account!Next]_(Account!acct)
<1>1. TypeOK'
  BY IInvStep DEF IInv
<1>2. CASE UNCHANGED <<rows, due, allocated, live>>
  BY <1>2 DEF Account!acct
<1>3. ASSUME NEW p \in Procs, Generate(p) PROVE [Account!Next]_(Account!acct)
  BY <1>1, <1>3, GenerateAdds DEF Account!Next
<1>4. ASSUME NEW p \in Procs, CommitAllocation(p) PROVE [Account!Next]_(Account!acct)
  <2>1. PICK r \in Receipts : r = request[p].receipt
    BY <1>4, CommitWrites
  <2>2. Account!Credit(r)
    BY <1>1, <1>4, <2>1, CommitEnters, CommitFillsOldest DEF Account!Credit
  <2>3. QED
    BY <2>1, <2>2 DEF Account!Next
<1>5. ASSUME NEW w \in Workers, ApplyTransition(w) \/ ApplyDelete(w),
             Reverse(request[w].receipt)
      PROVE  [Account!Next]_(Account!acct)
  <2>1. PICK r \in Receipts : r = request[w].receipt
    BY <1>5, ReversesAReceipt
  <2>2. Account!Withdraw(r) \/ UNCHANGED Account!acct
    BY <1>1, <1>5, <2>1, ReverseWithdraws
  <2>3. QED
    BY <2>1, <2>2 DEF Account!Next
<1>6. QED
  BY <1>2, <1>3, <1>4, <1>5, WhoWritesTheAccount

\* With one request at a time and a rent that does not change, the ledger is the
\* account: every payment goes to the oldest open months, and a void or a deletion
\* takes back exactly what was entered.
THEOREM LedgerIsAnAccount ==
  ASSUME OneAtATime, FixedRent
  PROVE  Spec => ImplementsAccount
<1>1. Init => Account!Init /\ Sequential
  BY AccountStarts, SequentialStart
<1>2. IInv /\ Sequential /\ [Next]_vars => Sequential'
  BY SequentialStep
<1>3. IInv /\ Unbilled /\ Sequential /\ [Next]_vars => [Account!Next]_(Account!acct)
  BY AccountStep
<1>4. QED
  BY <1>1, <1>2, <1>3, Inductive, MonthsStayUnbilled, PTL
     DEF Spec, ImplementsAccount, Account!Spec

-----------------------------------------------------------------------------
(* What an account promises, its implementation keeps                       *)

AccountTyped == /\ due \in [Months -> Nat] /\ allocated \in [Months -> Nat]
                /\ live \in [Receipts -> [Months -> Nat]]

\* An account never holds more on a month than the month owes: an entry stops at
\* the month's due amount, a withdrawal takes away, and a month is billed once.
THEOREM AccountNeverOverfills == Account!Spec => []Account!NeverOverfilled
<1> DEFINE Fits == AccountTyped /\ Account!NeverOverfilled
<1>1. Account!Init => Fits
  BY DEF Account!Init, AccountTyped, Account!NeverOverfilled
<1>2. Fits /\ [Account!Next]_(Account!acct) => Fits'
  <2> SUFFICES ASSUME Fits, [Account!Next]_(Account!acct) PROVE Fits'
    OBVIOUS
  <2>1. \A m \in Months : due[m] \in Nat /\ allocated[m] \in Nat /\ allocated[m] <= due[m]
    BY DEF AccountTyped, Account!NeverOverfilled
  <2>2. CASE UNCHANGED Account!acct
    BY <2>2 DEF Account!acct, AccountTyped, Account!NeverOverfilled
  <2>3. CASE Account!AddMonths
    BY <2>1, <2>3 DEF Account!AddMonths, Account!Bills, AccountTyped,
                      Account!NeverOverfilled
  <2>4. ASSUME NEW r \in Receipts, Account!Credit(r) PROVE Fits'
    <3>1. AccountTyped'
      BY <2>4 DEF Account!Credit, Account!Enter, Account!Bills, AccountTyped
    <3>2. ASSUME NEW m \in Months PROVE allocated'[m] <= due'[m]
      <4>1. /\ allocated'[m] = allocated[m] + live'[r][m] /\ live'[r][m] \in Nat
            /\ due[m] = 0 \/ due'[m] = due[m]
            /\ live'[r][m] > 0 => allocated'[m] <= due'[m]
            /\ due'[m] \in Nat
        BY <2>4, <3>1 DEF Account!Credit, Account!Enter, Account!Bills,
                          Account!OldestFirst, AccountTyped
      <4>2. QED
        BY <2>1, <4>1
    <3>3. QED
      BY <3>1, <3>2 DEF Account!NeverOverfilled
  <2>5. ASSUME NEW r \in Receipts, Account!Withdraw(r) PROVE Fits'
    <3>1. AccountTyped'
      BY <2>5 DEF Account!Withdraw, AccountTyped
    <3>2. ASSUME NEW m \in Months PROVE allocated'[m] <= due'[m]
      <4>1. allocated'[m] = allocated[m] - live[r][m] /\ due'[m] = due[m]
            /\ live[r][m] \in Nat
        BY <2>5 DEF Account!Withdraw, AccountTyped
      <4>2. QED
        BY <2>1, <4>1
    <3>3. QED
      BY <3>1, <3>2 DEF Account!NeverOverfilled
  <2>6. QED
    BY <2>2, <2>3, <2>4, <2>5 DEF Account!Next
<1>3. QED
  BY <1>1, <1>2, PTL DEF Account!Spec

\* So no month of a lease is ever allocated more than its rent, over any series of
\* allocations, voids and deletions, when requests come one at a time.
COROLLARY LedgerNeverOverfills ==
  ASSUME OneAtATime, FixedRent
  PROVE  Spec => []NeverOverfilled
<1>1. Spec => Account!Spec
  BY LedgerIsAnAccount DEF ImplementsAccount
<1>2. NeverOverfilled <=> Account!NeverOverfilled
  BY DEF NeverOverfilled
<1>3. QED
  BY <1>1, <1>2, AccountNeverOverfills, PTL

-----------------------------------------------------------------------------
(* No cent is minted                                                        *)

\* The plan of a request adds up to no more than the amount it read.
PlanAffordable ==
    \A p \in Procs : request[p].pc = "commit" =>
        PlanTotal(request[p].plan, LastMonth) <= request[p].amount

LEMMA PlanAffordableStep ==
  ASSUME TypeOK, PlanAffordable, [Next]_vars
  PROVE  PlanAffordable'
<1> SUFFICES ASSUME NEW p \in Procs, request'[p].pc = "commit"
             PROVE  PlanTotal(request'[p].plan, LastMonth) <= request'[p].amount
  BY DEF PlanAffordable
<1>1. CASE request'[p] = request[p]
  BY <1>1 DEF PlanAffordable
<1>2. CASE Plan(p)
  <2> DEFINE amount == request[p].amount
             plan == PlanAllocation(amount, rows, due, allocated, Horizon, LastMonth)
             c == Capacity(rows, due, allocated, Horizon, LastMonth)
             x == [request[p] EXCEPT !.pc = "commit", !.plan = plan,
                                     !.rent = rent, !.months = rows]
  <2>1. request'[p] = x /\ request[p] \in RequestRecord /\ plan # NoMoney
    BY <1>2 DEF Plan, TypeOK
  <2>2. /\ rows \in SUBSET (1..LastMonth) /\ due \in [1..LastMonth -> Nat]
        /\ allocated \in [1..LastMonth -> Nat] /\ amount \in Nat
        /\ LastMonth \in Nat /\ Horizon \in Nat
    BY TimeAssumption DEF TypeOK, Months, RequestRecord
  <2>3. rows # {}
    BY <2>1 DEF PlanAllocation, NoMoney, Months
  <2>4. Spends(plan, c, amount, LastMonth)
    BY <2>2, <2>3, PlanSpendsThePayment
  <2> HIDE DEF plan, c
  <2>5. PlanTotal(plan, LastMonth) <= amount
    BY <2>2, <2>4 DEF Spends
  <2>6. x.plan = plan /\ x.amount = amount
    BY <2>1 DEF RequestRecord
  <2> HIDE DEF x
  <2>7. QED
    BY <2>1, <2>5, <2>6
<1>3. QED
  BY <1>1, <1>2, ReadsBeforeWriting

\* However requests interleave, a receipt's money enters the ledger as no more
\* than its request read: a plan spends each cent of the payment at most once.
THEOREM NoCentMinted == Spec => NoMoneyMinted
<1> DEFINE Bounded(r) == \E p \in Procs :
               /\ request[p].receipt = r
               /\ PlanTotal(live'[r], LastMonth) <= request[p].amount
           NoneMinted == \A r \in Receipts : ~HoldsMoney(r) /\ HoldsMoney(r)' => Bounded(r)
<1>1. Init => PlanAffordable
  BY DEF Init, IdleRequest, PlanAffordable
<1>2. IInv /\ PlanAffordable /\ [Next]_vars => PlanAffordable'
  BY PlanAffordableStep DEF IInv
<1>3. ASSUME IInv, PlanAffordable, [Next]_vars PROVE NoneMinted
  <2> SUFFICES ASSUME NEW r \in Receipts, ~HoldsMoney(r), HoldsMoney(r)'
               PROVE  Bounded(r)
    OBVIOUS
  <2>1. PICK m \in Months : live'[r][m] > live[r][m]
    <3>1. PICK m \in Months : live'[r][m] > 0
      BY DEF HoldsMoney
    <3>2. live[r][m] \in Nat /\ ~(live[r][m] > 0)
      BY <1>3 DEF HoldsMoney, IInv, TypeOK
    <3>3. QED
      BY <3>1, <3>2
  <2>2. PICK p \in Procs : CommitAllocation(p)
    BY <1>3, <2>1, OnlyCommitEnters
  <2> DEFINE plan == request[p].plan
  <2>3. /\ \A k \in Months : live'[request[p].receipt][k] = plan[k]
        /\ \A s \in Receipts \ {request[p].receipt} : live'[s] = live[s]
    BY <1>3, <2>2, CommitWrites
  <2>4. live[r][m] \in Nat
    BY <1>3 DEF IInv, TypeOK
  <2>5. request[p].receipt = r
    BY <2>1, <2>3, <2>4
  <2>6. PlanTotal(live'[r], LastMonth) = PlanTotal(plan, LastMonth)
    BY <2>3, <2>5 DEF PlanTotal, PlanCents, Months
  <2>7. PlanTotal(plan, LastMonth) <= request[p].amount
    BY <1>3, <2>2 DEF PlanAffordable, CommitAllocation
  <2>8. QED
    BY <2>5, <2>6, <2>7
<1>4. IInv /\ PlanAffordable /\ [Next]_vars => [NoneMinted]_vars
  BY <1>3
<1>5. QED
  BY <1>1, <1>2, <1>4, Inductive, PTL DEF Spec, NoMoneyMinted
=============================================================================
