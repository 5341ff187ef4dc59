---------------------------- MODULE MatchingBook ----------------------------
(***************************************************************************)
(* What the movements inbox promises, without requests, statuses or leases: *)
(* a book of which receipt each bank movement has become and which receipts *)
(* count on the ledger.  A movement is given a receipt nobody else has; one *)
(* made from a movement counts only once it is a movement's; what was given *)
(* is taken back only by deleting the receipt, and a deleted one is gone.   *)
(***************************************************************************)
EXTENDS FiniteSets

CONSTANTS Movements, HandReceipts, AutoReceipts, None

Receipts == HandReceipts \cup AutoReceipts

VARIABLES taken, counted, gone

book == <<taken, counted, gone>>

Given(r) == \E m \in Movements : taken[m] = r

Init ==
    /\ taken = [m \in Movements |-> None]
    /\ counted = {}
    /\ gone = {}

\* A movement that has no receipt is given one that no movement has.
Give(m, r) ==
    /\ taken[m] = None
    /\ ~Given(r) /\ r \notin gone
    /\ r \in AutoReceipts => r \notin counted
    /\ taken' = [taken EXCEPT ![m] = r]
    /\ UNCHANGED <<counted, gone>>

\* A receipt made from a movement counts once a movement has it.
Count(r) ==
    /\ r \notin gone
    /\ r \in AutoReceipts => Given(r)
    /\ counted' = counted \cup {r}
    /\ UNCHANGED <<taken, gone>>

Uncount(r) ==
    /\ counted' = counted \ {r}
    /\ UNCHANGED <<taken, gone>>

\* A deletion takes a receipt out of the book for good.
Delete(r) ==
    /\ r \notin gone
    /\ gone' = gone \cup {r}
    /\ counted' = counted \ {r}
    /\ taken' = [m \in Movements |-> IF taken[m] = r THEN None ELSE taken[m]]

Next == \E r \in Receipts :
           Count(r) \/ Uncount(r) \/ Delete(r) \/ \E m \in Movements : Give(m, r)

Spec == Init /\ [][Next]_book

\* The money of a movement counts once: whatever was made from a movement counts
\* only as the receipt of one, and no two movements share a receipt.
EachCountsOnce ==
    /\ \A r \in counted \cap AutoReceipts : Given(r)
    /\ \A m, k \in Movements : taken[m] # None /\ taken[m] = taken[k] => m = k
=============================================================================
