---------------------------- MODULE RentAccount -----------------------------
(***************************************************************************)
(* What the rent ledger promises, without requests, plans or clocks: a      *)
(* tenant's account in which the money of a receipt is entered as a whole,  *)
(* into the oldest months that are not full, and taken back as a whole.     *)
(***************************************************************************)
EXTENDS Integers, FiniteSets

CONSTANTS Receipts, Months

VARIABLES owed, paid, holds

acct == <<owed, paid, holds>>

Holds(r) == \E m \in Months : holds[r][m] > 0

Init ==
    /\ owed  = [m \in Months |-> 0]
    /\ paid  = [m \in Months |-> 0]
    /\ holds = [r \in Receipts |-> [m \in Months |-> 0]]

\* What a month owes is fixed when the month is added, once.
Bills ==
    /\ owed' \in [Months -> Nat]
    /\ \A m \in Months : owed[m] = 0 \/ owed'[m] = owed[m]

AddMonths == Bills /\ UNCHANGED <<paid, holds>>

\* The money of a receipt that is not on the account is entered, all in one step.
Enter(r) ==
    /\ ~Holds(r) /\ Holds(r)'
    /\ holds' \in [Receipts -> [Months -> Nat]]
    /\ \A s \in Receipts \ {r} : holds'[s] = holds[s]
    /\ paid' \in [Months -> Nat]
    /\ \A m \in Months : paid'[m] = paid[m] + holds'[r][m]
    /\ Bills

\* No month takes more than it owes, or anything before the older ones are full.
OldestFirst(r) ==
    \A m \in Months : holds'[r][m] > 0 =>
        /\ paid'[m] <= owed'[m]
        /\ \A k \in Months : k < m => paid'[k] >= owed'[k]

Credit(r) == Enter(r) /\ OldestFirst(r)

\* All of a receipt's money leaves the account.
Withdraw(r) ==
    /\ Holds(r) /\ ~Holds(r)'
    /\ holds' \in [Receipts -> [Months -> Nat]]
    /\ \A s \in Receipts \ {r} : holds'[s] = holds[s]
    /\ paid' \in [Months -> Nat]
    /\ \A m \in Months : paid'[m] = paid[m] - holds[r][m]
    /\ UNCHANGED owed

Next == AddMonths \/ \E r \in Receipts : Credit(r) \/ Withdraw(r)

Spec == Init /\ [][Next]_acct

\* The same account with the order left open: money enters and leaves as a whole.
WholeNext == AddMonths \/ \E r \in Receipts : Enter(r) \/ Withdraw(r)

WholeSpec == Init /\ [][WholeNext]_acct

\* No month ever holds more than it owes.
NeverOverfilled == \A m \in Months : paid[m] <= owed[m]
=============================================================================
