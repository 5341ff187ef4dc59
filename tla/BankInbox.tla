------------------------------ MODULE BankInbox ------------------------------
(***************************************************************************)
(* The movements inbox of lib/services/bank/import.ts: bank movements, the  *)
(* receipts that record their money, and the requests that join the two.    *)
(*                                                                         *)
(* A movement and a receipt are written by separate database calls, so a    *)
(* request is split at each await.  Amounts, dates, payer accounts and rules *)
(* are left open: an import may classify a movement in any way the code can, *)
(* and a receipt may or may not be of a movement's amount and date.        *)
(* allocateReceipt is one step here; RentLedger is about its inside.       *)
(***************************************************************************)
EXTENDS Naturals, FiniteSets

CONSTANTS
    Movements,      \* payments at the bank, one fingerprint each
    HandReceipts,   \* receipts the owner may record by hand
    AutoReceipts,   \* receipts the inbox may create
    Leases,
    Workers,        \* requests the server may be working on at once
    None            \* null

ASSUME InboxAssumption ==
    /\ HandReceipts \cap AutoReceipts = {}
    /\ None \notin Movements \cup HandReceipts \cup AutoReceipts \cup Leases

Receipts == HandReceipts \cup AutoReceipts

VARIABLES
    kind,       \* what each movement is: rent, an outflow, or test money
    movement,   \* the BankTransaction rows
    receipt,    \* the Receipt rows
    request     \* the requests in flight

vars == <<kind, movement, receipt, request>>

\* No row: not imported yet, or purged.
NoRow == [status |-> "absent", lease |-> None, receipt |-> None]

Present(m) == movement[m].status # "absent"

\* `counts': it has live allocations.  `origin': the movement it was made from.
NoReceipt == [state |-> "unborn", lease |-> None, counts |-> FALSE,
              origin |-> None]
Gone == [NoReceipt EXCEPT !.state = "deleted"]

Stored(r) == receipt[r].state = "stored"

IdleRequest == [pc |-> "idle", movement |-> None, receipt |-> None,
                lease |-> None, status |-> "needs_review",
                confirms |-> FALSE]

Idle(w)   == request[w].pc = "idle"
Finish(w) == request' = [request EXCEPT ![w] = IdleRequest]
Goto(w, pc) == request' = [request EXCEPT ![w].pc = pc]

WaitingStatuses == {"needs_review", "imported"}

\* recordedPaymentsFor: the receipts on a lease that count and that no movement
\* is linked to.  Those of the movement's amount and date are offered, so any of
\* these may be, and it may be that none is.
Recorded(lease) ==
    {r \in Receipts : /\ Stored(r) /\ receipt[r].counts
                      /\ receipt[r].lease = lease
                      /\ \A m \in Movements : movement[m].receipt # r}

-----------------------------------------------------------------------------
(* importBankRows, one row                                                  *)

\* Sandbox money is not matched on its own.
Unquarantined(m, found) == found
Quarantined(m, found) ==
    IF kind[m] = "test" /\ found = "auto_matched" THEN "needs_review" ELSE found

\* The row is no duplicate and is classified.  A match that may be a duplicate,
\* names another month, or may be a payment recorded by hand waits for review; a
\* rule may match without naming a lease; an outflow is never looked at.
StartImport(w, m, found, lease) ==
    /\ Idle(w) /\ ~Present(m)
    /\ kind[m] = "outflow" => found = "needs_review" /\ lease = None
    /\ request' = [request EXCEPT ![w] =
           [IdleRequest EXCEPT !.pc = "insert", !.movement = m, !.lease = lease,
                               !.status = Quarantined(m, found)]]
    /\ UNCHANGED <<kind, movement, receipt>>

\* Only a movement matched to a lease pays it.
PaysAtOnceUnnamed(status, lease) == status = "auto_matched"
PaysAtOnce(status, lease)        == status = "auto_matched" /\ lease # None

\* The row is inserted; the unique fingerprint refuses the second of two
\* imports of one movement.
Insert(w) ==
    /\ request[w].pc = "insert"
    /\ LET m == request[w].movement
           q == request[w]
       IN  /\ ~Present(m)
           /\ movement' = [movement EXCEPT ![m] =
                  [status |-> q.status, lease |-> q.lease, receipt |-> None]]
           /\ IF PaysAtOnce(q.status, q.lease) THEN Goto(w, "receipt") ELSE Finish(w)
    /\ UNCHANGED <<kind, receipt>>

-----------------------------------------------------------------------------
(* createReceiptAndAllocate                                                 *)

MakeReceipt(w, r) ==
    /\ request[w].pc = "receipt"
    /\ receipt[r].state = "unborn"
    /\ receipt' = [receipt EXCEPT ![r] =
           [state |-> "stored", lease |-> request[w].lease, counts |-> FALSE,
            origin |-> request[w].movement]]
    /\ request' = [request EXCEPT ![w].pc = "claim", ![w].receipt = r]
    /\ UNCHANGED <<kind, movement>>

\* The movement takes the receipt only if it still has none.
ClaimableAnyway(m) == Present(m)
Claimable(m)       == Present(m) /\ movement[m].receipt = None

\* updateMany: it claims the movement, or the receipt is to be discarded.  A
\* receipt that is gone is refused by its foreign key, and the request ends.
Claim(w) ==
    /\ request[w].pc = "claim"
    /\ LET m == request[w].movement
       IN  \/ /\ Claimable(m) /\ Stored(request[w].receipt)
              /\ movement' = [movement EXCEPT ![m].receipt = request[w].receipt]
              /\ Goto(w, "allocate")
           \/ /\ ~Claimable(m)
              /\ Goto(w, "discard")
              /\ UNCHANGED movement
    /\ UNCHANGED <<kind, receipt>>

\* The receipt that lost is deleted and the request answers with a conflict.
Discard(w) ==
    /\ request[w].pc = "discard"
    /\ Stored(request[w].receipt)
    /\ receipt' = [receipt EXCEPT ![request[w].receipt] = Gone]
    /\ Finish(w)
    /\ UNCHANGED <<kind, movement>>

\* allocateReceipt, which skips a receipt that is gone or already counts; it may
\* also find nothing to allocate the money to.
Allocate(w) ==
    /\ request[w].pc = "allocate"
    /\ LET r == request[w].receipt
       IN  receipt' = [receipt EXCEPT ![r].counts = Stored(r)] \/ UNCHANGED receipt
    /\ IF request[w].confirms THEN Goto(w, "settle") ELSE Finish(w)
    /\ UNCHANGED <<kind, movement>>

-----------------------------------------------------------------------------
(* applyTransactionAction                                                   *)

\* Sandbox money is never confirmed and an outflow is not rent.
IsRent(m) == kind[m] = "rent"

\* confirm and reassign read the movement; one that has a receipt only gets its
\* status and lease written.
StartConfirm(w, m, lease, new) ==
    /\ Idle(w) /\ Present(m)
    /\ movement[m].status # "matched_confirmed"
    /\ IsRent(m)
    /\ request' = [request EXCEPT ![w] =
           [IdleRequest EXCEPT
               !.pc = IF movement[m].receipt # None THEN "settle"
                      ELSE IF new THEN "receipt" ELSE "check",
               !.movement = m, !.lease = lease, !.confirms = TRUE]]
    /\ UNCHANGED <<kind, movement, receipt>>

\* Are there payments recorded by hand the movement may be?  Then it waits.
CheckRecorded(w) ==
    /\ request[w].pc = "check"
    /\ \/ Recorded(request[w].lease) # {} /\ Goto(w, "park")
       \/ Goto(w, "receipt")
    /\ UNCHANGED <<kind, movement, receipt>>

\* A write to the movement that asks nothing of it but to be there.
SetStatus(w, pc, status, lease) ==
    /\ request[w].pc = pc
    /\ LET m == request[w].movement
       IN  /\ Present(m)
           /\ movement' = [movement EXCEPT ![m] =
                  [@ EXCEPT !.status = status, !.lease = lease]]
    /\ Finish(w)
    /\ UNCHANGED <<kind, receipt>>

Park(w)   == SetStatus(w, "park", "needs_review", request[w].lease)
Settle(w) == SetStatus(w, "settle", "matched_confirmed", request[w].lease)

StartIgnore(w, m) ==
    /\ Idle(w) /\ Present(m)
    /\ movement[m].receipt = None /\ movement[m].status # "ignored"
    /\ request' = [request EXCEPT ![w] =
           [IdleRequest EXCEPT !.pc = "ignore", !.movement = m]]
    /\ UNCHANGED <<kind, movement, receipt>>

Ignore(w) ==
    SetStatus(w, "ignore", "ignored", movement[request[w].movement].lease)

StartRestore(w, m) ==
    /\ Idle(w) /\ Present(m)
    /\ movement[m].status = "ignored" /\ movement[m].receipt = None
    /\ request' = [request EXCEPT ![w] =
           [IdleRequest EXCEPT !.pc = "restore", !.movement = m]]
    /\ UNCHANGED <<kind, movement, receipt>>

Restore(w) ==
    SetStatus(w, "restore", "needs_review", movement[request[w].movement].lease)

-----------------------------------------------------------------------------
(* linkToRecordedPayment                                                    *)

StartLink(w, m, r) ==
    /\ Idle(w) /\ Present(m)
    /\ IsRent(m)
    /\ movement[m].receipt = None
    /\ movement[m].status \in WaitingStatuses
    /\ movement[m].lease # None
    /\ request' = [request EXCEPT ![w] =
           [IdleRequest EXCEPT !.pc = "offer", !.movement = m, !.receipt = r,
                               !.lease = movement[m].lease]]
    /\ UNCHANGED <<kind, movement, receipt>>

\* Only a payment the inbox could have offered can be linked.
Offer(w) ==
    /\ request[w].pc = "offer"
    /\ request[w].receipt \in Recorded(request[w].lease)
    /\ Goto(w, "link")
    /\ UNCHANGED <<kind, movement, receipt>>

\* Read again inside the transaction: the payment is not linked to a movement,
\* and the movement still waits with no receipt.
LinkableOnce(m, r) ==
    movement[m].receipt = None /\ movement[m].status \in WaitingStatuses
LinkableUnread(m, r) ==
    Present(m) /\ \A k \in Movements : movement[k].receipt # r
Linkable(m, r) ==
    /\ \A k \in Movements : movement[k].receipt # r
    /\ movement[m].receipt = None
    /\ movement[m].status \in WaitingStatuses

LinkPayment(w) ==
    /\ request[w].pc = "link"
    /\ LET m == request[w].movement
           r == request[w].receipt
       IN  /\ Linkable(m, r) /\ Stored(r)
           /\ movement' = [movement EXCEPT ![m] =
                  [@ EXCEPT !.receipt = r, !.status = "matched_confirmed"]]
    /\ Finish(w)
    /\ UNCHANGED <<kind, receipt>>

-----------------------------------------------------------------------------
(* Receipts by hand, deletions, the retention job, a stop of the server     *)

\* POST /api/receipts.
RecordByHand(w, r, lease) ==
    /\ Idle(w)
    /\ receipt[r].state = "unborn"
    /\ receipt' = [receipt EXCEPT ![r] =
           [NoReceipt EXCEPT !.state = "stored", !.lease = lease]]
    /\ request' = [request EXCEPT ![w] =
           [IdleRequest EXCEPT !.pc = "allocate", !.receipt = r]]
    /\ UNCHANGED <<kind, movement>>

\* A void takes the money off the ledger and leaves the receipt.
VoidReceipt(r) ==
    /\ Stored(r)
    /\ receipt' = [receipt EXCEPT ![r].counts = FALSE]
    /\ UNCHANGED <<kind, movement, request>>

\* A deletion takes the money off the ledger, and sends the movement the receipt
\* came from back to the inbox; the foreign key clears its receiptId.
DeleteReceipt(r) ==
    /\ Stored(r)
    /\ receipt' = [receipt EXCEPT ![r] = Gone]
    /\ movement' = [m \in Movements |->
           IF movement[m].receipt = r
           THEN [movement[m] EXCEPT !.status = "needs_review", !.receipt = None]
           ELSE movement[m]]
    /\ UNCHANGED <<kind, request>>

\* The retention job deletes old movements, those that became a receipt never.
PurgeMovement(m) ==
    /\ Present(m) /\ movement[m].receipt = None
    /\ movement' = [movement EXCEPT ![m] = NoRow]
    /\ UNCHANGED <<kind, receipt, request>>

\* A request ends before its next step: an early return, an error, a stop.
Abandon(w) ==
    /\ ~Idle(w)
    /\ Finish(w)
    /\ UNCHANGED <<kind, movement, receipt>>

Init ==
    /\ kind \in [Movements -> {"rent", "outflow", "test"}]
    /\ movement = [m \in Movements |-> NoRow]
    /\ receipt = [r \in Receipts |-> NoReceipt]
    /\ request = [w \in Workers |-> IdleRequest]

Start(w) ==
    \/ \E m \in Movements :
          \/ \E found \in {"ignored", "needs_review", "auto_matched"},
                lease \in Leases \cup {None} : StartImport(w, m, found, lease)
          \/ \E lease \in Leases, new \in BOOLEAN : StartConfirm(w, m, lease, new)
          \/ StartIgnore(w, m)
          \/ StartRestore(w, m)
          \/ \E r \in Receipts : StartLink(w, m, r)
    \/ \E r \in HandReceipts, lease \in Leases : RecordByHand(w, r, lease)

Continue(w) ==
    \/ Insert(w)
    \/ \E r \in AutoReceipts : MakeReceipt(w, r)
    \/ Claim(w) \/ Discard(w) \/ Allocate(w)
    \/ CheckRecorded(w) \/ Park(w) \/ Settle(w)
    \/ Ignore(w) \/ Restore(w)
    \/ Offer(w) \/ LinkPayment(w)
    \/ Abandon(w)

Next ==
    \/ \E w \in Workers : Start(w) \/ Continue(w)
    \/ \E r \in Receipts : VoidReceipt(r) \/ DeleteReceipt(r)
    \/ \E m \in Movements : PurgeMovement(m)

Spec == Init /\ [][Next]_vars

-----------------------------------------------------------------------------
(* Properties                                                               *)

MovementRow ==
    [status: {"absent", "needs_review", "auto_matched", "matched_confirmed", "ignored"},
     lease: Leases \cup {None}, receipt: Receipts \cup {None}]

ReceiptRow ==
    [state: {"unborn", "stored", "deleted"}, lease: Leases \cup {None},
     counts: BOOLEAN, origin: Movements \cup {None}]

RequestRow ==
    [pc: {"idle", "insert", "receipt", "claim", "discard", "allocate", "check",
          "park", "settle", "ignore", "restore", "offer", "link"},
     movement: Movements \cup {None}, receipt: Receipts \cup {None},
     lease: Leases \cup {None},
     status: {"needs_review", "auto_matched", "ignored"},
     confirms: BOOLEAN]

\* Every variable keeps its type; a stored receipt is on a lease.
TypeOK ==
    /\ kind \in [Movements -> {"rent", "outflow", "test"}]
    /\ movement \in [Movements -> MovementRow]
    /\ receipt \in [Receipts -> ReceiptRow]
    /\ request \in [Workers -> RequestRow]
    /\ \A r \in Receipts : Stored(r) => receipt[r].lease \in Leases

\* One payment recorded by hand is never the answer for two movements, and no two
\* movements share a receipt, whatever links and confirmations overlap.
OneMovementPerReceipt ==
    \A m, k \in Movements :
        movement[m].receipt # None /\ movement[m].receipt = movement[k].receipt
            => m = k

\* The money of a movement counts once: a receipt the inbox made from a movement
\* counts on the ledger only while it is the receipt of that movement, so two
\* confirmations, or a confirmation and a link, never both count.
MoneyBehindMovement ==
    \A r \in AutoReceipts :
        receipt[r].counts => movement[receipt[r].origin].receipt = r

\* Sandbox money never reaches the ledger: not by import, not by hand.
TestMoneyStaysOut ==
    /\ \A m \in Movements : kind[m] = "test" => movement[m].receipt = None
    /\ \A r \in AutoReceipts :
          Stored(r) => kind[receipt[r].origin] # "test"

\* A movement keeps the receipt it has until that receipt is deleted.
ReceiptNeverReplaced ==
    [][\A m \in Movements :
         movement[m].receipt # None /\ movement'[m].receipt # movement[m].receipt
            => receipt'[movement[m].receipt].state # "stored"]_vars

\* The inbox implements the book of movements and receipts: whatever requests
\* overlap, a movement is only ever given a receipt that is nobody else's, its
\* receipt counts only after that, and nothing but a deletion takes it back.
Book == INSTANCE MatchingBook WITH
            taken   <- [m \in Movements |-> movement[m].receipt],
            counted <- {r \in Receipts : receipt[r].counts},
            gone    <- {r \in Receipts : receipt[r].state = "deleted"}
ImplementsBook == Book!Spec
=============================================================================
