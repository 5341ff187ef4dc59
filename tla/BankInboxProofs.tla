-------------------------- MODULE BankInboxProofs --------------------------
(***************************************************************************)
(* Proofs about BankInbox, for any number of movements, receipts, leases    *)
(* and requests in flight.                                                 *)
(*                                                                         *)
(* MoneyBehindMovement is about the moment allocateReceipt counts a receipt *)
(* in; it holds because of what each request still owns at its await.       *)
(* Sound(w) says that: a receipt on its way to claim a movement belongs to  *)
(* one request, counts nowhere and is linked nowhere; a receipt about to    *)
(* count either is gone or is its movement's; and a payment about to be     *)
(* linked was recorded by hand, since the inbox's own never stand unlinked  *)
(* and counting.                                                           *)
(***************************************************************************)
EXTENDS BankInbox, TLAPS

Unlinked(r) == \A m \in Movements : movement[m].receipt # r

Born(r) == receipt[r].state # "unborn"

\* The request made a receipt that has no movement yet.
Holds(w) == request[w].pc \in {"claim", "discard"}

\* A receipt the inbox made is its movement's.
AtItsMovement(r) ==
    r \in AutoReceipts /\ Stored(r) => movement[receipt[r].origin].receipt = r

NamesMovement(w) ==
    /\ request[w].pc \notin {"idle", "allocate"} => request[w].movement \in Movements
    /\ request[w].pc = "allocate" /\ request[w].confirms =>
           request[w].movement \in Movements
    /\ request[w].pc \in {"check", "receipt"} => request[w].lease \in Leases

KeepsTestMoneyOut(w) ==
    /\ request[w].pc = "insert" /\ request[w].status = "auto_matched" =>
           kind[request[w].movement] # "test"
    /\ request[w].pc \in {"check", "receipt", "claim", "offer", "link"} =>
           kind[request[w].movement] # "test"

HoldsUnpaid(w) ==
    Holds(w) => LET r == request[w].receipt IN
        /\ r \in AutoReceipts /\ Born(r)
        /\ ~receipt[r].counts /\ Unlinked(r)
        /\ Stored(r) => receipt[r].origin = request[w].movement

OwnsWhatItCounts(w) ==
    request[w].pc = "allocate" => LET r == request[w].receipt IN
        r \in Receipts /\ Born(r) /\ AtItsMovement(r)

LinksByHand(w) ==
    /\ request[w].pc = "offer" => request[w].receipt \in Receipts
    /\ request[w].pc = "link" => request[w].receipt \in HandReceipts

Sound(w) ==
    /\ NamesMovement(w) /\ KeepsTestMoneyOut(w)
    /\ HoldsUnpaid(w) /\ OwnsWhatItCounts(w) /\ LinksByHand(w)

OneHolder ==
    \A w, v \in Workers :
        Holds(w) /\ Holds(v) /\ w # v => request[w].receipt # request[v].receipt

\* A movement that is not there has no receipt, one that has a receipt has one
\* that was made, and a receipt the inbox made remembers its movement.
RowsSound ==
    /\ \A m \in Movements : ~Present(m) => movement[m].receipt = None
    /\ \A r \in Receipts : ~Born(r) => Unlinked(r)
    /\ \A r \in AutoReceipts : Stored(r) => receipt[r].origin \in Movements
    /\ \A r \in Receipts : receipt[r].counts => Stored(r)

IInv ==
    /\ TypeOK /\ RowsSound
    /\ \A w \in Workers : Sound(w)
    /\ OneHolder
    /\ OneMovementPerReceipt /\ MoneyBehindMovement /\ TestMoneyStaysOut

-----------------------------------------------------------------------------
(* Steps that keep every receipt and what every movement has behind it: the  *)
(* starts of requests, the checks, the writes of a movement's status.       *)

\* What a request is sound by, other than its own record, did not change.
SameMoney ==
    /\ UNCHANGED <<kind, receipt>>
    /\ movement' \in [Movements -> MovementRow]
    /\ \A m \in Movements : movement'[m].receipt = movement[m].receipt

\* Only w's request moves, and it takes hold of no receipt it did not hold.
OnlyRequest(w) ==
    /\ \A v \in Workers \ {w} : request'[v] = request[v]
    /\ Holds(w)' => Holds(w) /\ request'[w].receipt = request[w].receipt

\* A request that does not move stays sound while the money stays.
LEMMA OthersStaySound ==
  ASSUME IInv, SameMoney, NEW v \in Workers, request'[v] = request[v]
  PROVE  Sound(v)'
<1>1. NamesMovement(v)' /\ KeepsTestMoneyOut(v)' /\ LinksByHand(v)'
  BY DEF IInv, Sound, SameMoney, NamesMovement, KeepsTestMoneyOut, LinksByHand
<1>2. HoldsUnpaid(v)'
  BY DEF IInv, Sound, SameMoney, HoldsUnpaid, Holds, Born, Unlinked, Stored
<1>3. OwnsWhatItCounts(v)'
  <2>1. \A r \in AutoReceipts : Stored(r) => receipt[r].origin \in Movements
    BY DEF IInv, RowsSound
  <2>2. QED
    BY <2>1 DEF IInv, Sound, SameMoney, OwnsWhatItCounts, Born, AtItsMovement, Stored
<1>4. QED
  BY <1>1, <1>2, <1>3 DEF Sound

\* Such a step keeps the invariant when its own request stays sound.
LEMMA MoneyStays ==
  ASSUME IInv, SameMoney, NEW w \in Workers, OnlyRequest(w),
         request' \in [Workers -> RequestRow], Sound(w)',
         \A m \in Movements : Present(m)' \/ movement'[m].receipt = None
  PROVE  IInv'
<1>1. TypeOK'
  BY DEF IInv, TypeOK, SameMoney, Stored
<1>2. RowsSound'
  BY DEF IInv, RowsSound, SameMoney, Stored, Born, Unlinked
<1>3. \A v \in Workers : Sound(v)'
  BY OthersStaySound DEF OnlyRequest
<1>4. OneHolder'
  BY DEF IInv, OneHolder, OnlyRequest, Holds
<1>5. OneMovementPerReceipt'
  BY DEF IInv, OneMovementPerReceipt, SameMoney
<1>6. MoneyBehindMovement'
  BY DEF IInv, MoneyBehindMovement, RowsSound, SameMoney, Receipts
<1>7. TestMoneyStaysOut'
  BY DEF IInv, TestMoneyStaysOut, SameMoney, Stored
<1>8. QED
  BY <1>1, <1>2, <1>3, <1>4, <1>5, <1>6, <1>7 DEF IInv

-----------------------------------------------------------------------------
(* The steps of that kind                                                   *)

LEMMA IdleType == IdleRequest \in RequestRow
BY DEF IdleRequest, RequestRow

\* A request that ended asks nothing.
LEMMA IdleSound ==
  ASSUME NEW w \in Workers, request'[w] = IdleRequest
  PROVE  Sound(w)' /\ ~Holds(w)'
BY DEF IdleRequest, Sound, NamesMovement, KeepsTestMoneyOut, HoldsUnpaid, Holds,
       OwnsWhatItCounts, LinksByHand

LEMMA RowsStayThere ==
  ASSUME IInv, UNCHANGED movement
  PROVE  \A m \in Movements : Present(m)' \/ movement'[m].receipt = None
BY DEF IInv, RowsSound, Present

LEMMA NothingWritten ==
  ASSUME IInv, UNCHANGED <<kind, movement, receipt>>
  PROVE  SameMoney
BY DEF IInv, TypeOK, SameMoney

LEMMA StartImportStep ==
  ASSUME IInv, NEW w \in Workers, NEW m \in Movements,
         NEW found \in {"ignored", "needs_review", "auto_matched"},
         NEW lease \in Leases \cup {None}, StartImport(w, m, found, lease)
  PROVE  IInv'
<1>1. Quarantined(m, found) \in {"needs_review", "auto_matched", "ignored"}
  BY DEF Quarantined
<1>2. request \in [Workers -> RequestRow]
  BY DEF IInv, TypeOK
<1>3. request' \in [Workers -> RequestRow]
  BY <1>1, <1>2 DEF StartImport, IdleRequest, RequestRow
<1>4. /\ request'[w].pc = "insert" /\ request'[w].movement = m
      /\ request'[w].status = Quarantined(m, found)
  BY <1>2 DEF StartImport, IdleRequest
<1>5. OnlyRequest(w)
  BY <1>2, <1>4 DEF StartImport, OnlyRequest, Holds
<1>6. Sound(w)'
  BY <1>4 DEF StartImport, Quarantined, Sound, NamesMovement, KeepsTestMoneyOut,
              HoldsUnpaid, Holds, OwnsWhatItCounts, LinksByHand
<1>7. SameMoney
  BY NothingWritten DEF StartImport
<1>8. QED
  BY <1>3, <1>5, <1>6, <1>7, MoneyStays, RowsStayThere DEF StartImport

LEMMA StartConfirmStep ==
  ASSUME IInv, NEW w \in Workers, NEW m \in Movements, NEW lease \in Leases,
         NEW new \in BOOLEAN, StartConfirm(w, m, lease, new)
  PROVE  IInv'
<1> DEFINE pc == IF movement[m].receipt # None THEN "settle"
                 ELSE IF new THEN "receipt" ELSE "check"
<1>1. pc \in {"settle", "receipt", "check"}
  OBVIOUS
<1>2. request \in [Workers -> RequestRow]
  BY DEF IInv, TypeOK
<1>3. request' = [request EXCEPT ![w] =
          [IdleRequest EXCEPT !.pc = pc, !.movement = m, !.lease = lease,
                              !.confirms = TRUE]]
  BY DEF StartConfirm
<1> HIDE DEF pc
<1>4. request' \in [Workers -> RequestRow]
  BY <1>1, <1>2, <1>3 DEF IdleRequest, RequestRow
<1>5. request'[w].pc = pc /\ request'[w].movement = m /\ request'[w].lease = lease
  BY <1>2, <1>3 DEF IdleRequest
<1>6. OnlyRequest(w)
  BY <1>1, <1>2, <1>3, <1>5 DEF OnlyRequest, Holds
<1>7. Sound(w)'
  BY <1>1, <1>5 DEF StartConfirm, IsRent, Sound, NamesMovement, KeepsTestMoneyOut,
                    HoldsUnpaid, Holds, OwnsWhatItCounts, LinksByHand
<1>8. SameMoney
  BY NothingWritten DEF StartConfirm
<1>9. QED
  BY <1>4, <1>6, <1>7, <1>8, MoneyStays, RowsStayThere DEF StartConfirm

LEMMA StartStatusStep ==
  ASSUME IInv, NEW w \in Workers, NEW m \in Movements,
         StartIgnore(w, m) \/ StartRestore(w, m)
  PROVE  IInv'
<1>1. request \in [Workers -> RequestRow]
  BY DEF IInv, TypeOK
<1>2. PICK pc \in {"ignore", "restore"} :
          request' = [request EXCEPT ![w] =
              [IdleRequest EXCEPT !.pc = pc, !.movement = m]]
  BY DEF StartIgnore, StartRestore
<1>3. request' \in [Workers -> RequestRow]
  BY <1>1, <1>2 DEF IdleRequest, RequestRow
<1>4. request'[w].pc = pc /\ request'[w].movement = m
  BY <1>1, <1>2 DEF IdleRequest
<1>5. OnlyRequest(w)
  BY <1>1, <1>2, <1>4 DEF OnlyRequest, Holds
<1>6. Sound(w)'
  BY <1>2, <1>4 DEF Sound, NamesMovement, KeepsTestMoneyOut, HoldsUnpaid, Holds,
                    OwnsWhatItCounts, LinksByHand
<1>7. SameMoney
  BY NothingWritten DEF StartIgnore, StartRestore
<1>8. QED
  BY <1>3, <1>5, <1>6, <1>7, MoneyStays, RowsStayThere DEF StartIgnore, StartRestore

LEMMA StartLinkStep ==
  ASSUME IInv, NEW w \in Workers, NEW m \in Movements, NEW r \in Receipts,
         StartLink(w, m, r)
  PROVE  IInv'
<1>1. /\ request \in [Workers -> RequestRow]
      /\ movement[m].lease \in Leases \cup {None}
  BY DEF IInv, TypeOK, MovementRow
<1>2. request' \in [Workers -> RequestRow]
  BY <1>1 DEF StartLink, IdleRequest, RequestRow
<1>3. /\ request'[w].pc = "offer" /\ request'[w].movement = m
      /\ request'[w].receipt = r
  BY <1>1 DEF StartLink, IdleRequest
<1>4. OnlyRequest(w)
  BY <1>1, <1>3 DEF StartLink, OnlyRequest, Holds
<1>5. Sound(w)'
  BY <1>3 DEF StartLink, IsRent, Sound, NamesMovement, KeepsTestMoneyOut,
              HoldsUnpaid, Holds, OwnsWhatItCounts, LinksByHand
<1>6. SameMoney
  BY NothingWritten DEF StartLink
<1>7. QED
  BY <1>2, <1>4, <1>5, <1>6, MoneyStays, RowsStayThere DEF StartLink

LEMMA AbandonStep ==
  ASSUME IInv, NEW w \in Workers, Abandon(w)
  PROVE  IInv'
<1>1. request \in [Workers -> RequestRow]
  BY DEF IInv, TypeOK
<1>2. request' \in [Workers -> RequestRow] /\ request'[w] = IdleRequest
  BY <1>1, IdleType DEF Abandon, Finish
<1>3. OnlyRequest(w)
  BY <1>1, <1>2, IdleSound DEF Abandon, Finish, OnlyRequest
<1>4. SameMoney
  BY NothingWritten DEF Abandon
<1>5. QED
  BY <1>2, <1>3, <1>4, IdleSound, MoneyStays, RowsStayThere DEF Abandon

LEMMA CheckRecordedStep ==
  ASSUME IInv, NEW w \in Workers, CheckRecorded(w)
  PROVE  IInv'
<1>1. request \in [Workers -> RequestRow] /\ Sound(w)
  BY DEF IInv, TypeOK
<1>2. PICK pc \in {"park", "receipt"} : request' = [request EXCEPT ![w].pc = pc]
  BY DEF CheckRecorded, Goto
<1>3. request' \in [Workers -> RequestRow]
  BY <1>1, <1>2 DEF RequestRow
<1>4. /\ request'[w].pc = pc /\ request'[w].movement = request[w].movement
      /\ request'[w].lease = request[w].lease
  BY <1>1, <1>2 DEF RequestRow
<1>5. OnlyRequest(w)
  BY <1>1, <1>2, <1>4 DEF OnlyRequest, Holds
<1>6. Sound(w)'
  BY <1>1, <1>4 DEF CheckRecorded, Sound, NamesMovement, KeepsTestMoneyOut,
                    HoldsUnpaid, Holds, OwnsWhatItCounts, LinksByHand
<1>7. SameMoney
  BY NothingWritten DEF CheckRecorded
<1>8. QED
  BY <1>3, <1>5, <1>6, <1>7, MoneyStays, RowsStayThere DEF CheckRecorded

\* A payment the inbox offers was recorded by hand: its own receipts count only
\* while they are a movement's.
LEMMA OfferedByHand ==
  ASSUME IInv, NEW lease, NEW r \in Recorded(lease)
  PROVE  r \in HandReceipts
<1>1. receipt[r].counts /\ Stored(r) /\ Unlinked(r) /\ r \in Receipts
  BY DEF Recorded, Unlinked
<1>2. r \notin AutoReceipts
  BY <1>1 DEF IInv, RowsSound, MoneyBehindMovement, Unlinked
<1>3. QED
  BY <1>1, <1>2 DEF Receipts

LEMMA OfferStep ==
  ASSUME IInv, NEW w \in Workers, Offer(w)
  PROVE  IInv'
<1>1. request \in [Workers -> RequestRow] /\ Sound(w)
  BY DEF IInv, TypeOK
<1>2. request' \in [Workers -> RequestRow]
  BY <1>1 DEF Offer, Goto, RequestRow
<1>3. /\ request'[w].pc = "link" /\ request'[w].movement = request[w].movement
      /\ request'[w].receipt = request[w].receipt
  BY <1>1 DEF Offer, Goto, RequestRow
<1>4. OnlyRequest(w)
  BY <1>1, <1>3 DEF Offer, Goto, OnlyRequest, Holds
<1>5. request[w].receipt \in HandReceipts
  BY OfferedByHand DEF Offer
<1>6. Sound(w)'
  BY <1>1, <1>3, <1>5 DEF Offer, Sound, NamesMovement, KeepsTestMoneyOut,
                          HoldsUnpaid, Holds, OwnsWhatItCounts, LinksByHand
<1>7. SameMoney
  BY NothingWritten DEF Offer
<1>8. QED
  BY <1>2, <1>4, <1>6, <1>7, MoneyStays, RowsStayThere DEF Offer

\* A status is written on whatever the movement has become, and leaves its
\* receipt where it is.
LEMMA SetStatusStep ==
  ASSUME IInv, NEW w \in Workers,
         NEW pc \in {"park", "settle", "ignore", "restore"},
         NEW new \in {"needs_review", "matched_confirmed", "ignored"},
         NEW lease \in Leases \cup {None}, SetStatus(w, pc, new, lease)
  PROVE  IInv'
<1> DEFINE m == request[w].movement
<1>1. /\ request \in [Workers -> RequestRow] /\ m \in Movements
      /\ movement \in [Movements -> MovementRow]
  BY DEF IInv, TypeOK, Sound, NamesMovement, SetStatus
<1>2. request' \in [Workers -> RequestRow] /\ request'[w] = IdleRequest
  BY <1>1, IdleType DEF SetStatus, Finish
<1>3. OnlyRequest(w)
  BY <1>1, <1>2, IdleSound DEF SetStatus, Finish, OnlyRequest
<1>4. movement' = [movement EXCEPT ![m] =
          [movement[m] EXCEPT !.status = new, !.lease = lease]]
  BY DEF SetStatus
<1> HIDE DEF m
<1>5. SameMoney
  <2>1. /\ [movement[m] EXCEPT !.status = new, !.lease = lease] \in MovementRow
        /\ [movement[m] EXCEPT !.status = new, !.lease = lease].receipt =
               movement[m].receipt
    BY <1>1 DEF MovementRow
  <2>2. UNCHANGED <<kind, receipt>>
    BY DEF SetStatus
  <2>3. QED
    BY <1>1, <1>4, <2>1, <2>2 DEF SameMoney
<1>6. \A k \in Movements : Present(k)' \/ movement'[k].receipt = None
  BY <1>1, <1>4 DEF IInv, RowsSound, Present, MovementRow
<1>7. QED
  BY <1>2, <1>3, <1>5, <1>6, IdleSound, MoneyStays

LEMMA SetStatusSteps ==
  ASSUME IInv, NEW w \in Workers, Park(w) \/ Settle(w) \/ Ignore(w) \/ Restore(w)
  PROVE  IInv'
<1>1. request[w].lease \in Leases \cup {None}
  BY DEF IInv, TypeOK, RequestRow
<1>2. CASE Park(w)
  BY <1>1, <1>2, SetStatusStep DEF Park
<1>3. CASE Settle(w)
  BY <1>1, <1>3, SetStatusStep DEF Settle
<1>4. ASSUME Ignore(w) \/ Restore(w)
      PROVE  movement[request[w].movement].lease \in Leases \cup {None}
  <2>1. request[w].movement \in Movements
    BY <1>4 DEF IInv, Sound, NamesMovement, Ignore, Restore, SetStatus
  <2>2. QED
    BY <2>1 DEF IInv, TypeOK, MovementRow
<1>5. CASE Ignore(w)
  BY <1>4, <1>5, SetStatusStep DEF Ignore
<1>6. CASE Restore(w)
  BY <1>4, <1>6, SetStatusStep DEF Restore
<1>7. QED
  BY <1>2, <1>3, <1>5, <1>6

LEMMA InsertStep ==
  ASSUME IInv, NEW w \in Workers, Insert(w)
  PROVE  IInv'
<1> DEFINE q == request[w]
           m == request[w].movement
<1>1. /\ request \in [Workers -> RequestRow] /\ Sound(w) /\ q \in RequestRow
      /\ movement \in [Movements -> MovementRow]
  BY DEF IInv, TypeOK
<1>2. m \in Movements
  BY <1>1 DEF Insert, Sound, NamesMovement
<1>3. movement' = [movement EXCEPT ![m] =
          [status |-> q.status, lease |-> q.lease, receipt |-> None]]
  BY DEF Insert
<1>4. q.status # "absent" /\ movement[m].receipt = None
  BY <1>1, <1>2 DEF Insert, IInv, RowsSound, RequestRow
<1>5. SameMoney
  BY <1>1, <1>2, <1>3, <1>4 DEF Insert, SameMoney, MovementRow, RequestRow
<1>6. \A k \in Movements : Present(k)' \/ movement'[k].receipt = None
  BY <1>1, <1>2, <1>3, <1>4 DEF IInv, RowsSound, Present
<1>7. CASE ~PaysAtOnce(q.status, q.lease)
  <2>1. request' = [request EXCEPT ![w] = IdleRequest]
    BY <1>7 DEF Insert, Finish
  <2>2. request' \in [Workers -> RequestRow] /\ request'[w] = IdleRequest
    BY <1>1, <2>1, IdleType
  <2>3. OnlyRequest(w)
    BY <1>1, <2>1, <2>2, IdleSound DEF OnlyRequest
  <2>4. QED
    BY <1>5, <1>6, <2>2, <2>3, IdleSound, MoneyStays
<1>8. CASE PaysAtOnce(q.status, q.lease)
  <2>1. request' = [request EXCEPT ![w].pc = "receipt"]
    BY <1>8 DEF Insert, Goto
  <2>2. request' \in [Workers -> RequestRow]
    BY <1>1, <2>1 DEF RequestRow
  <2>3. /\ request'[w].pc = "receipt" /\ request'[w].movement = m
        /\ request'[w].lease = q.lease
    BY <1>1, <2>1 DEF RequestRow
  <2>4. OnlyRequest(w)
    BY <1>1, <2>1, <2>3 DEF OnlyRequest, Holds
  <2>5. kind'[m] # "test" /\ q.lease \in Leases
    BY <1>1, <1>8 DEF Insert, PaysAtOnce, Sound, KeepsTestMoneyOut, RequestRow
  <2>6. Sound(w)'
    BY <1>2, <2>3, <2>5 DEF Sound, NamesMovement, KeepsTestMoneyOut, HoldsUnpaid,
                            Holds, OwnsWhatItCounts, LinksByHand
  <2>7. QED
    BY <1>5, <1>6, <2>2, <2>4, <2>6, MoneyStays
<1>9. QED
  BY <1>7, <1>8

-----------------------------------------------------------------------------
(* The steps that move money                                                *)

\* A request that does not move stays sound through a step that unmakes no
\* receipt, lets the receipt it holds alone, and takes no receipt of the inbox off
\* its movement without deleting it.
LEMMA UnmovedStaySound ==
  ASSUME IInv, NEW v \in Workers, request'[v] = request[v], kind' = kind,
         \A r \in Receipts : Born(r) => Born(r)',
         \A r \in Receipts : Born(r) /\ AtItsMovement(r) => AtItsMovement(r)',
         Holds(v) => LET r == request[v].receipt IN
             /\ Unlinked(r)' /\ ~receipt'[r].counts
             /\ Stored(r)' => Stored(r) /\ receipt'[r].origin = receipt[r].origin
  PROVE  Sound(v)'
<1>1. Sound(v)
  BY DEF IInv
<1>2. NamesMovement(v)' /\ KeepsTestMoneyOut(v)' /\ LinksByHand(v)'
  BY <1>1 DEF Sound, NamesMovement, KeepsTestMoneyOut, LinksByHand
<1>3. HoldsUnpaid(v)'
  BY <1>1 DEF Sound, HoldsUnpaid, Holds, Receipts
<1>4. OwnsWhatItCounts(v)'
  BY <1>1 DEF Sound, OwnsWhatItCounts
<1>5. QED
  BY <1>2, <1>3, <1>4 DEF Sound

\* A new receipt, unlinked and not counting, by a request that then holds it or
\* that recorded it by hand.
LEMMA NewReceipt ==
  ASSUME IInv, NEW w \in Workers, NEW r \in Receipts,
         NEW row \in ReceiptRow, row.state = "stored", row.lease \in Leases,
         ~row.counts,
         r \in AutoReceipts => row.origin \in Movements /\ kind[row.origin] # "test",
         receipt[r].state = "unborn", receipt' = [receipt EXCEPT ![r] = row],
         UNCHANGED <<kind, movement>>,
         request' \in [Workers -> RequestRow],
         \A v \in Workers \ {w} : request'[v] = request[v],
         Holds(w)' => request'[w].receipt = r,
         Sound(w)'
  PROVE  IInv'
<1>1. receipt \in [Receipts -> ReceiptRow]
  BY DEF IInv, TypeOK
<1>2. receipt'[r] = row /\ \A s \in Receipts : s # r => receipt'[s] = receipt[s]
  BY <1>1
<1>3. TypeOK'
  BY <1>1, <1>2 DEF IInv, TypeOK, Stored
<1>4. RowsSound'
  BY <1>2 DEF IInv, RowsSound, Stored, Born, Unlinked, Present, Receipts
<1>5. \A v \in Workers : Sound(v)'
  <2>1. ASSUME NEW v \in Workers \ {w}  PROVE Sound(v)'
    <3>1. \A s \in Receipts : Born(s) => Born(s)' /\ s # r
      BY <1>2 DEF Born
    <3>2. \A s \in Receipts : Born(s) /\ AtItsMovement(s) => AtItsMovement(s)'
      BY <1>2, <3>1 DEF AtItsMovement, Stored
    <3>3. Holds(v) => LET s == request[v].receipt IN
              /\ Unlinked(s)' /\ ~receipt'[s].counts
              /\ Stored(s)' => Stored(s) /\ receipt'[s].origin = receipt[s].origin
      BY <1>2, <3>1 DEF IInv, Sound, HoldsUnpaid, Stored, Unlinked, Receipts
    <3>4. QED
      BY <2>1, <3>1, <3>2, <3>3, UnmovedStaySound
  <2>2. QED
    BY <2>1
<1>6. OneHolder'
  <2>1. \A v \in Workers : Holds(v) => request[v].receipt # r
    BY DEF IInv, Sound, HoldsUnpaid, Born
  <2>2. QED
    BY <2>1 DEF IInv, OneHolder, Holds
<1>7. OneMovementPerReceipt'
  BY DEF IInv, OneMovementPerReceipt
<1>8. MoneyBehindMovement'
  BY <1>2 DEF IInv, MoneyBehindMovement, Receipts
<1>9. TestMoneyStaysOut'
  BY <1>2 DEF IInv, TestMoneyStaysOut, Stored, Receipts
<1>10. QED
  BY <1>3, <1>4, <1>5, <1>6, <1>7, <1>8, <1>9 DEF IInv

LEMMA MakeReceiptStep ==
  ASSUME IInv, NEW w \in Workers, NEW r \in AutoReceipts, MakeReceipt(w, r)
  PROVE  IInv'
<1> DEFINE q == request[w]
           row == [state |-> "stored", lease |-> q.lease, counts |-> FALSE,
                   origin |-> q.movement]
<1>1. /\ request \in [Workers -> RequestRow] /\ q \in RequestRow /\ Sound(w)
      /\ q.movement \in Movements /\ q.lease \in Leases /\ kind[q.movement] # "test"
      /\ r \in Receipts /\ receipt \in [Receipts -> ReceiptRow]
  BY DEF IInv, TypeOK, MakeReceipt, Sound, NamesMovement, KeepsTestMoneyOut, Receipts
<1>2. /\ row \in ReceiptRow /\ row.state = "stored" /\ row.lease = q.lease
      /\ row.origin = q.movement /\ ~row.counts
  BY <1>1 DEF ReceiptRow
<1>3. request' = [request EXCEPT ![w] = [q EXCEPT !.pc = "claim", !.receipt = r]]
  BY <1>1 DEF MakeReceipt, RequestRow
<1>4. /\ request' \in [Workers -> RequestRow]
      /\ request'[w].pc = "claim" /\ request'[w].receipt = r
      /\ request'[w].movement = q.movement
  BY <1>1, <1>3 DEF RequestRow
<1>5. Unlinked(r)
  BY <1>1 DEF IInv, RowsSound, MakeReceipt, Born
<1>6. Sound(w)'
  <2>1. receipt'[r] = row /\ UNCHANGED <<kind, movement>>
    BY <1>1 DEF MakeReceipt
  <2>2. HoldsUnpaid(w)'
    BY <1>4, <1>5, <2>1 DEF HoldsUnpaid, Holds, Born, Unlinked
  <2>3. QED
    BY <1>1, <1>4, <2>1, <2>2 DEF Sound, NamesMovement, KeepsTestMoneyOut,
                                  OwnsWhatItCounts, LinksByHand
<1>7. \A v \in Workers \ {w} : request'[v] = request[v]
  BY <1>1, <1>3
<1>8. /\ receipt' = [receipt EXCEPT ![r] = row] /\ receipt[r].state = "unborn"
      /\ UNCHANGED <<kind, movement>>
  BY DEF MakeReceipt
<1> HIDE DEF row, q
<1>9. QED
  BY <1>1, <1>2, <1>4, <1>6, <1>7, <1>8, NewReceipt

LEMMA RecordByHandStep ==
  ASSUME IInv, NEW w \in Workers, NEW r \in HandReceipts, NEW lease \in Leases,
         RecordByHand(w, r, lease)
  PROVE  IInv'
<1> DEFINE row == [NoReceipt EXCEPT !.state = "stored", !.lease = lease]
<1>1. /\ request \in [Workers -> RequestRow]
      /\ r \in Receipts /\ r \notin AutoReceipts /\ receipt \in [Receipts -> ReceiptRow]
  BY InboxAssumption DEF IInv, TypeOK, Receipts
<1>2. row \in ReceiptRow /\ row.state = "stored" /\ row.lease = lease /\ ~row.counts
  BY DEF ReceiptRow, NoReceipt
<1>3. receipt' = [receipt EXCEPT ![r] = row] /\ receipt[r].state = "unborn"
  BY DEF RecordByHand
<1>4. request' \in [Workers -> RequestRow]
  BY <1>1 DEF RecordByHand, IdleRequest, RequestRow
<1>5. /\ request'[w].pc = "allocate" /\ request'[w].receipt = r
      /\ ~request'[w].confirms
  BY <1>1 DEF RecordByHand, IdleRequest
<1> HIDE DEF row
<1>6. Sound(w)'
  BY <1>1, <1>2, <1>3, <1>5 DEF Sound, NamesMovement, KeepsTestMoneyOut, HoldsUnpaid,
        Holds, OwnsWhatItCounts, AtItsMovement, LinksByHand, Born
<1>7. \A v \in Workers \ {w} : request'[v] = request[v]
  BY <1>1 DEF RecordByHand
<1>8. ~Holds(w)'
  BY <1>5 DEF Holds
<1>9. QED
  BY <1>1, <1>2, <1>3, <1>4, <1>6, <1>7, <1>8, NewReceipt DEF RecordByHand

\* The movement takes the receipt the request holds, and had none before.
LEMMA ClaimStep ==
  ASSUME IInv, NEW w \in Workers, Claim(w)
  PROVE  IInv'
<1> DEFINE q == request[w]
           m == request[w].movement
           r == request[w].receipt
<1>1. /\ request \in [Workers -> RequestRow] /\ q \in RequestRow /\ Sound(w)
      /\ m \in Movements /\ r \in AutoReceipts /\ r \in Receipts
      /\ Born(r) /\ ~receipt[r].counts /\ Unlinked(r)
      /\ Stored(r) => receipt[r].origin = m
      /\ kind[m] # "test"
      /\ movement \in [Movements -> MovementRow]
  BY DEF IInv, TypeOK, Claim, Sound, NamesMovement, KeepsTestMoneyOut, HoldsUnpaid,
         Holds, Receipts
<1>2. UNCHANGED <<kind, receipt>>
  BY DEF Claim
<1>3. CASE ~Claimable(m)
  <2>1. request' = [request EXCEPT ![w].pc = "discard"] /\ UNCHANGED movement
    BY <1>3 DEF Claim, Goto
  <2>2. request' \in [Workers -> RequestRow]
    BY <1>1, <2>1 DEF RequestRow
  <2>3. /\ request'[w].pc = "discard" /\ request'[w].movement = m
        /\ request'[w].receipt = r
    BY <1>1, <2>1 DEF RequestRow
  <2>4. OnlyRequest(w)
    BY <1>1, <2>1, <2>3 DEF Claim, OnlyRequest, Holds
  <2>5. Sound(w)'
    BY <1>1, <1>2, <2>1, <2>3 DEF Sound, NamesMovement, KeepsTestMoneyOut, HoldsUnpaid,
          Holds, OwnsWhatItCounts, LinksByHand, Born, Unlinked, Stored
  <2>6. SameMoney
    BY <1>2, <2>1, NothingWritten
  <2>7. QED
    BY <2>1, <2>2, <2>4, <2>5, <2>6, MoneyStays, RowsStayThere
<1>4. CASE Claimable(m)
  <2>1. /\ movement' = [movement EXCEPT ![m].receipt = r]
        /\ request' = [request EXCEPT ![w].pc = "allocate"]
        /\ Stored(r) /\ Present(m) /\ movement[m].receipt = None
    BY <1>4 DEF Claim, Goto, Claimable
  <2>2. /\ request' \in [Workers -> RequestRow]
        /\ movement' \in [Movements -> MovementRow]
    BY <1>1, <2>1 DEF RequestRow, MovementRow
  <2>3. /\ request'[w].pc = "allocate" /\ request'[w].receipt = r
        /\ request'[w].movement = m
        /\ \A v \in Workers \ {w} : request'[v] = request[v]
    BY <1>1, <2>1 DEF RequestRow
  <2>4. /\ movement'[m].receipt = r
        /\ \A k \in Movements : movement'[k].status = movement[k].status
        /\ \A k \in Movements : k # m => movement'[k].receipt = movement[k].receipt
    BY <1>1, <2>1 DEF MovementRow
  <2>5. receipt[r].origin = m /\ r # None
    BY <1>1, <2>1, InboxAssumption
  <2> HIDE DEF m, r, q
  <2>6. TypeOK'
    BY <1>2, <2>2 DEF IInv, TypeOK, Stored
  <2>7. RowsSound'
    BY <1>1, <1>2, <2>1, <2>4 DEF IInv, RowsSound, Stored, Born, Unlinked, Present
  <2>8. \A v \in Workers : Sound(v)'
    <3>1. ASSUME NEW v \in Workers \ {w}  PROVE Sound(v)'
      <4>1. \A s \in Receipts : AtItsMovement(s) => AtItsMovement(s)'
        BY <1>2, <2>1, <2>4, InboxAssumption
        DEF IInv, RowsSound, AtItsMovement, Stored, Receipts
      <4>2. Holds(v) => LET s == request[v].receipt IN
                /\ Unlinked(s)' /\ ~receipt'[s].counts
                /\ Stored(s)' => Stored(s) /\ receipt'[s].origin = receipt[s].origin
        <5>1. Holds(v) => request[v].receipt # r
          BY DEF IInv, OneHolder, Holds, Claim, r
        <5>2. HoldsUnpaid(v)
          BY DEF IInv, Sound
        <5>3. request'[v] = request[v]
          BY <2>3, <3>1
        <5>4. QED
          BY <1>2, <2>4, <5>1, <5>2, <5>3 DEF HoldsUnpaid, Unlinked, Stored
      <4>3. QED
        BY <1>2, <2>3, <3>1, <4>1, <4>2, UnmovedStaySound DEF Born
    <3>2. Sound(w)'
      BY <1>1, <1>2, <2>3, <2>4, <2>5 DEF Sound, NamesMovement, KeepsTestMoneyOut,
          HoldsUnpaid, Holds, OwnsWhatItCounts, AtItsMovement, LinksByHand, Born, Stored
    <3>3. QED
      BY <3>1, <3>2
  <2>9. OneHolder'
    BY <2>3 DEF IInv, OneHolder, Holds
  <2>10. OneMovementPerReceipt'
    BY <1>1, <2>4 DEF IInv, OneMovementPerReceipt, Unlinked
  <2>11. MoneyBehindMovement'
    BY <1>1, <1>2, <2>1, <2>4, InboxAssumption
    DEF IInv, MoneyBehindMovement, RowsSound, Stored, Receipts
  <2>12. TestMoneyStaysOut'
    BY <1>1, <1>2, <2>4 DEF IInv, TestMoneyStaysOut, Stored
  <2>13. QED
    BY <2>6, <2>7, <2>8, <2>9, <2>10, <2>11, <2>12 DEF IInv
<1>5. QED
  BY <1>3, <1>4

\* A receipt is rewritten: deleted, counted out, or counted in while it stands at
\* its movement.
LEMMA ReceiptRewritten ==
  ASSUME IInv, NEW r \in Receipts, NEW row \in ReceiptRow, Born(r),
         row.state # "unborn",
         row.state = "stored" =>
             Stored(r) /\ row.lease = receipt[r].lease /\ row.origin = receipt[r].origin,
         row.counts => row.state = "stored" /\ AtItsMovement(r),
         receipt' = [receipt EXCEPT ![r] = row], UNCHANGED <<kind, movement>>,
         request' \in [Workers -> RequestRow],
         \A v \in Workers : request'[v] = request[v] \/ (Sound(v)' /\ ~Holds(v)')
  PROVE  IInv'
<1>1. receipt \in [Receipts -> ReceiptRow]
  BY DEF IInv, TypeOK
<1>2. receipt'[r] = row /\ \A s \in Receipts : s # r => receipt'[s] = receipt[s]
  BY <1>1
<1>3. TypeOK'
  BY <1>1, <1>2 DEF IInv, TypeOK, Stored
<1>4. RowsSound'
  BY <1>2 DEF IInv, RowsSound, Stored, Born, Unlinked, Present, Receipts
<1>5. ASSUME NEW v \in Workers, request'[v] = request[v]  PROVE Sound(v)'
  <2>1. \A s \in Receipts : Born(s) => Born(s)'
    BY <1>2 DEF Born
  <2>2. \A s \in Receipts : AtItsMovement(s) => AtItsMovement(s)'
    BY <1>2 DEF AtItsMovement, Stored
  <2>3. HoldsUnpaid(v)
    BY DEF IInv, Sound
  <2>4. Holds(v) /\ request[v].receipt = r => ~row.counts
    BY <2>3 DEF HoldsUnpaid, AtItsMovement, Unlinked, IInv, RowsSound
  <2>5. Holds(v) => LET s == request[v].receipt IN
            /\ Unlinked(s)' /\ ~receipt'[s].counts
            /\ Stored(s)' => Stored(s) /\ receipt'[s].origin = receipt[s].origin
    BY <1>2, <1>5, <2>3, <2>4 DEF HoldsUnpaid, Unlinked, Stored, Receipts
  <2>6. QED
    BY <1>5, <2>1, <2>2, <2>5, UnmovedStaySound
<1>6. \A v \in Workers : Sound(v)'
  BY <1>5
<1>7. OneHolder'
  BY DEF IInv, OneHolder, Holds
<1>8. OneMovementPerReceipt'
  BY DEF IInv, OneMovementPerReceipt
<1>9. MoneyBehindMovement'
  BY <1>2 DEF IInv, MoneyBehindMovement, AtItsMovement, Receipts
<1>10. TestMoneyStaysOut'
  BY <1>2 DEF IInv, TestMoneyStaysOut, Stored, Receipts
<1>11. QED
  BY <1>3, <1>4, <1>6, <1>7, <1>8, <1>9, <1>10 DEF IInv

LEMMA GoneType == /\ Gone \in ReceiptRow
                  /\ Gone.state = "deleted" /\ Gone.counts = FALSE
BY DEF Gone, NoReceipt, ReceiptRow

LEMMA DiscardStep ==
  ASSUME IInv, NEW w \in Workers, Discard(w)
  PROVE  IInv'
<1>1. request \in [Workers -> RequestRow] /\ HoldsUnpaid(w)
  BY DEF IInv, TypeOK, Sound
<1>2. request[w].receipt \in Receipts /\ Born(request[w].receipt)
  BY <1>1 DEF Discard, HoldsUnpaid, Holds, Receipts
<1>3. /\ request' \in [Workers -> RequestRow] /\ request'[w] = IdleRequest
      /\ \A v \in Workers \ {w} : request'[v] = request[v]
  BY <1>1, IdleType DEF Discard, Finish
<1>4. QED
  BY <1>2, <1>3, GoneType, IdleSound, ReceiptRewritten DEF Discard

LEMMA VoidReceiptStep ==
  ASSUME IInv, NEW r \in Receipts, VoidReceipt(r)
  PROVE  IInv'
<1> DEFINE row == [receipt[r] EXCEPT !.counts = FALSE]
<1>1. receipt \in [Receipts -> ReceiptRow] /\ request \in [Workers -> RequestRow]
  BY DEF IInv, TypeOK
<1>2. /\ row \in ReceiptRow /\ row.state = "stored" /\ ~row.counts
      /\ row.lease = receipt[r].lease /\ row.origin = receipt[r].origin
  BY <1>1 DEF ReceiptRow, VoidReceipt, Stored
<1>3. receipt' = [receipt EXCEPT ![r] = row] /\ UNCHANGED <<kind, movement, request>>
  BY DEF VoidReceipt
<1>4. Stored(r) /\ Born(r)
  BY DEF VoidReceipt, Stored, Born
<1> HIDE DEF row
<1>5. QED
  BY <1>1, <1>2, <1>3, <1>4, ReceiptRewritten

\* A receipt counts in when its request still owns it, or when it was recorded by
\* hand; one that was deleted meanwhile never does.
LEMMA AllocateStep ==
  ASSUME IInv, NEW w \in Workers, Allocate(w)
  PROVE  IInv'
<1> DEFINE q == request[w]
           r == request[w].receipt
<1>1. /\ request \in [Workers -> RequestRow] /\ q \in RequestRow
      /\ receipt \in [Receipts -> ReceiptRow]
      /\ r \in Receipts /\ Born(r) /\ AtItsMovement(r)
      /\ q.confirms => q.movement \in Movements
  BY DEF IInv, TypeOK, Allocate, Sound, NamesMovement, OwnsWhatItCounts
<1>2. UNCHANGED <<kind, movement>>
  BY DEF Allocate
<1>3. /\ request' \in [Workers -> RequestRow]
      /\ \A v \in Workers \ {w} : request'[v] = request[v]
      /\ Sound(w)' /\ ~Holds(w)'
  <2>1. CASE q.confirms
    <3>1. request' = [request EXCEPT ![w].pc = "settle"]
      BY <2>1 DEF Allocate, Goto
    <3>2. request' \in [Workers -> RequestRow]
      BY <1>1, <3>1 DEF RequestRow
    <3>3. request'[w].pc = "settle" /\ request'[w].movement = q.movement
      BY <1>1, <3>1 DEF RequestRow
    <3>4. QED
      BY <1>1, <2>1, <3>1, <3>2, <3>3 DEF Sound, NamesMovement, KeepsTestMoneyOut,
          HoldsUnpaid, Holds, OwnsWhatItCounts, LinksByHand
  <2>2. CASE ~q.confirms
    <3>1. request' = [request EXCEPT ![w] = IdleRequest]
      BY <2>2 DEF Allocate, Finish
    <3>2. QED
      BY <1>1, <3>1, IdleType, IdleSound
  <2>3. QED
    BY <2>1, <2>2
<1>4. CASE UNCHANGED receipt
  <2>1. SameMoney
    BY <1>2, <1>4, NothingWritten
  <2>2. QED
    BY <1>2, <1>3, <2>1, MoneyStays, RowsStayThere DEF OnlyRequest
<1>5. CASE receipt' = [receipt EXCEPT ![r].counts = Stored(r)]
  <2> DEFINE row == [receipt[r] EXCEPT !.counts = Stored(r)]
  <2>1. /\ row \in ReceiptRow /\ row.counts = Stored(r)
        /\ row.state = receipt[r].state
        /\ row.lease = receipt[r].lease /\ row.origin = receipt[r].origin
    BY <1>1 DEF ReceiptRow, Stored
  <2>2. receipt' = [receipt EXCEPT ![r] = row]
    BY <1>5
  <2> HIDE DEF row, q, r
  <2>3. row.state # "unborn" /\ (row.state = "stored" <=> Stored(r))
    BY <1>1, <2>1 DEF Born, Stored
  <2>4. QED
    BY <1>1, <1>2, <1>3, <2>1, <2>2, <2>3, ReceiptRewritten
<1>6. QED
  BY <1>4, <1>5 DEF Allocate

\* A movement takes a payment recorded by hand that no movement has.
LEMMA LinkPaymentStep ==
  ASSUME IInv, NEW w \in Workers, LinkPayment(w)
  PROVE  IInv'
<1> DEFINE m == request[w].movement
           r == request[w].receipt
<1>1. /\ request \in [Workers -> RequestRow]
      /\ m \in Movements /\ kind[m] # "test"
      /\ r \in HandReceipts /\ r \in Receipts /\ r \notin AutoReceipts /\ r # None
      /\ Stored(r) /\ Unlinked(r)
      /\ movement[m].receipt = None /\ movement \in [Movements -> MovementRow]
  BY InboxAssumption DEF IInv, TypeOK, LinkPayment, Linkable, Sound, NamesMovement,
     KeepsTestMoneyOut, LinksByHand, Unlinked, Receipts
<1>2. /\ request' \in [Workers -> RequestRow] /\ request'[w] = IdleRequest
      /\ \A v \in Workers \ {w} : request'[v] = request[v]
  BY <1>1, IdleType DEF LinkPayment, Finish
<1>3. movement' = [movement EXCEPT ![m] =
          [movement[m] EXCEPT !.receipt = r, !.status = "matched_confirmed"]]
  BY DEF LinkPayment
<1>4. UNCHANGED <<kind, receipt>>
  BY DEF LinkPayment
<1> HIDE DEF m, r
<1>5. /\ movement' \in [Movements -> MovementRow]
      /\ movement'[m].receipt = r /\ movement'[m].status = "matched_confirmed"
      /\ \A k \in Movements : k # m => movement'[k] = movement[k]
  <2>1. /\ [movement[m] EXCEPT !.receipt = r, !.status = "matched_confirmed"]
               \in MovementRow
        /\ [movement[m] EXCEPT !.receipt = r, !.status = "matched_confirmed"].receipt = r
        /\ [movement[m] EXCEPT !.receipt = r, !.status = "matched_confirmed"].status
               = "matched_confirmed"
    BY <1>1 DEF MovementRow
  <2>2. QED
    BY <1>1, <1>3, <2>1
<1>6. TypeOK'
  BY <1>2, <1>4, <1>5 DEF IInv, TypeOK, Stored
<1>7. RowsSound'
  BY <1>1, <1>4, <1>5 DEF IInv, RowsSound, Stored, Born, Unlinked, Present
<1>8. ASSUME NEW s \in AutoReceipts, Stored(s), movement[receipt[s].origin].receipt = s
      PROVE  movement'[receipt'[s].origin].receipt = s
  BY <1>1, <1>4, <1>5, <1>8, InboxAssumption DEF IInv, RowsSound
<1>9. \A v \in Workers : Sound(v)'
  <2>1. ASSUME NEW v \in Workers \ {w}  PROVE Sound(v)'
    <3>1. request'[v] = request[v]
      BY <1>2, <2>1
    <3>2. HoldsUnpaid(v)
      BY DEF IInv, Sound
    <3>3. Holds(v) => LET s == request[v].receipt IN
              /\ Unlinked(s)' /\ ~receipt'[s].counts
              /\ Stored(s)' => Stored(s) /\ receipt'[s].origin = receipt[s].origin
      BY <1>1, <1>4, <1>5, <3>1, <3>2 DEF HoldsUnpaid, Unlinked, Stored
    <3>4. QED
      BY <1>4, <1>8, <2>1, <3>1, <3>3, UnmovedStaySound DEF Born, AtItsMovement, Stored
  <2>2. QED
    BY <1>2, <2>1, IdleSound
<1>10. OneHolder'
  BY <1>2, IdleSound DEF IInv, OneHolder, Holds
<1>11. OneMovementPerReceipt'
  BY <1>1, <1>5 DEF IInv, OneMovementPerReceipt, Unlinked
<1>12. MoneyBehindMovement'
  BY <1>4, <1>8 DEF IInv, MoneyBehindMovement, RowsSound, Receipts
<1>13. TestMoneyStaysOut'
  BY <1>1, <1>4, <1>5 DEF IInv, TestMoneyStaysOut, Stored
<1>14. QED
  BY <1>6, <1>7, <1>9, <1>10, <1>11, <1>12, <1>13 DEF IInv

\* The deletion takes the receipt off its movement in the same step.
LEMMA DeleteReceiptStep ==
  ASSUME IInv, NEW r \in Receipts, DeleteReceipt(r)
  PROVE  IInv'
<1>1. /\ movement \in [Movements -> MovementRow] /\ receipt \in [Receipts -> ReceiptRow]
      /\ r # None /\ None \notin Receipts
  BY InboxAssumption DEF IInv, TypeOK, Receipts
<1>2. /\ receipt'[r] = Gone /\ receipt' \in [Receipts -> ReceiptRow]
      /\ \A s \in Receipts : s # r => receipt'[s] = receipt[s]
      /\ UNCHANGED <<kind, request>>
  BY <1>1, GoneType DEF DeleteReceipt
<1>3. ASSUME NEW m \in Movements
      PROVE  /\ movement'[m] \in MovementRow
             /\ movement[m].receipt # r => movement'[m] = movement[m]
             /\ movement[m].receipt = r => /\ movement'[m].receipt = None
                                           /\ movement'[m].status = "needs_review"
  <2>1. movement[m] \in MovementRow
    BY <1>1
  <2>2. movement'[m] = IF movement[m].receipt = r
            THEN [movement[m] EXCEPT !.status = "needs_review", !.receipt = None]
            ELSE movement[m]
    BY DEF DeleteReceipt
  <2>3. QED
    BY <2>1, <2>2 DEF MovementRow
<1>4. movement' \in [Movements -> MovementRow]
  BY <1>3 DEF DeleteReceipt
<1>5. TypeOK'
  BY <1>2, <1>4, GoneType DEF IInv, TypeOK, Stored
<1>6. RowsSound'
  BY <1>1, <1>2, <1>3, GoneType
  DEF IInv, RowsSound, Stored, Born, Unlinked, Present, Receipts
<1>7. ASSUME NEW s \in AutoReceipts, Stored(s)', movement[receipt[s].origin].receipt = s
      PROVE  movement'[receipt'[s].origin].receipt = s
  BY <1>1, <1>2, <1>3, <1>7, GoneType DEF IInv, RowsSound, Stored, Receipts
<1>8. ASSUME NEW v \in Workers  PROVE Sound(v)'
  <2>1. \A s \in Receipts : Born(s) => Born(s)'
    BY <1>2, GoneType DEF Born
  <2>2. \A s \in Receipts : AtItsMovement(s) => AtItsMovement(s)'
    BY <1>2, <1>7, GoneType DEF AtItsMovement, Stored
  <2>3. HoldsUnpaid(v)
    BY DEF IInv, Sound
  <2>4. Holds(v) => LET s == request[v].receipt IN
            /\ Unlinked(s)' /\ ~receipt'[s].counts
            /\ Stored(s)' => Stored(s) /\ receipt'[s].origin = receipt[s].origin
    BY <1>1, <1>2, <1>3, <2>3, GoneType DEF HoldsUnpaid, Unlinked, Stored, Receipts
  <2>5. QED
    BY <1>2, <2>1, <2>2, <2>4, UnmovedStaySound
<1>9. OneHolder'
  BY <1>2 DEF IInv, OneHolder, Holds
<1>10. OneMovementPerReceipt'
  BY <1>3 DEF IInv, OneMovementPerReceipt
<1>11. MoneyBehindMovement'
  <2>1. \A s \in AutoReceipts : receipt'[s].counts => s # r /\ Stored(s)'
    BY <1>2, GoneType DEF IInv, RowsSound, Stored, Receipts
  <2>2. QED
    BY <1>2, <1>7, <2>1 DEF IInv, MoneyBehindMovement, Receipts
<1>12. TestMoneyStaysOut'
  BY <1>2, <1>3, GoneType DEF IInv, TestMoneyStaysOut, Stored, Receipts
<1>13. QED
  BY <1>5, <1>6, <1>8, <1>9, <1>10, <1>11, <1>12 DEF IInv

\* The retention job deletes no movement that has a receipt.
LEMMA PurgeMovementStep ==
  ASSUME IInv, NEW m \in Movements, PurgeMovement(m)
  PROVE  IInv'
<1>1. NoRow \in MovementRow /\ NoRow.receipt = None /\ NoRow.status = "absent"
  BY DEF NoRow, MovementRow
<1>2. movement \in [Movements -> MovementRow] /\ request \in [Workers -> RequestRow]
  BY DEF IInv, TypeOK
<1>3. SameMoney
  BY <1>1, <1>2 DEF PurgeMovement, SameMoney
<1>4. \A k \in Movements : Present(k)' \/ movement'[k].receipt = None
  BY <1>1, <1>2 DEF PurgeMovement, IInv, RowsSound, Present
<1>5. request' = request
  BY DEF PurgeMovement
<1>6. \A v \in Workers : Sound(v)'
  BY <1>3, <1>5, OthersStaySound
<1>7. CASE Workers = {}
  BY <1>2, <1>3, <1>4, <1>5, <1>6, <1>7
  DEF IInv, TypeOK, SameMoney, RowsSound, OneHolder, OneMovementPerReceipt,
      MoneyBehindMovement, TestMoneyStaysOut, Stored, Born, Unlinked, Receipts
<1>8. ASSUME NEW w \in Workers  PROVE IInv'
  BY <1>2, <1>3, <1>4, <1>5, <1>6, MoneyStays DEF OnlyRequest, Holds
<1>9. QED
  BY <1>7, <1>8

-----------------------------------------------------------------------------
(* The invariant                                                            *)

LEMMA InitIInv == Init => IInv
<1> SUFFICES ASSUME Init PROVE IInv
  OBVIOUS
<1> USE DEF Init
<1>1. /\ NoRow \in MovementRow /\ NoRow.receipt = None
      /\ NoReceipt \in ReceiptRow /\ NoReceipt.state = "unborn" /\ ~NoReceipt.counts
      /\ None \notin Receipts
  BY InboxAssumption DEF NoRow, MovementRow, NoReceipt, ReceiptRow, Receipts
<1>2. TypeOK
  BY <1>1, IdleType DEF TypeOK, Stored
<1>3. RowsSound
  BY <1>1 DEF RowsSound, Stored, Born, Unlinked, Present, Receipts
<1>4. ASSUME NEW w \in Workers  PROVE Sound(w) /\ ~Holds(w)
  BY DEF IdleRequest, Sound, NamesMovement, KeepsTestMoneyOut, HoldsUnpaid, Holds,
         OwnsWhatItCounts, LinksByHand
<1>5. OneHolder
  BY <1>4 DEF OneHolder
<1>6. OneMovementPerReceipt /\ MoneyBehindMovement /\ TestMoneyStaysOut
  BY <1>1 DEF OneMovementPerReceipt, MoneyBehindMovement, TestMoneyStaysOut, Stored,
              Receipts
<1>7. QED
  BY <1>2, <1>3, <1>4, <1>5, <1>6 DEF IInv

LEMMA StepIInv == IInv /\ [Next]_vars => IInv'
<1> SUFFICES ASSUME IInv, [Next]_vars PROVE IInv'
  OBVIOUS
<1>1. ASSUME NEW w \in Workers, Start(w)  PROVE IInv'
  BY <1>1, StartImportStep, StartConfirmStep, StartStatusStep, StartLinkStep,
     RecordByHandStep DEF Start
<1>2. ASSUME NEW w \in Workers, Continue(w)  PROVE IInv'
  BY <1>2, InsertStep, MakeReceiptStep, ClaimStep, DiscardStep, AllocateStep,
     CheckRecordedStep, SetStatusSteps, OfferStep, LinkPaymentStep, AbandonStep
  DEF Continue
<1>3. ASSUME NEW r \in Receipts, VoidReceipt(r) \/ DeleteReceipt(r)  PROVE IInv'
  BY <1>3, VoidReceiptStep, DeleteReceiptStep
<1>4. ASSUME NEW m \in Movements, PurgeMovement(m)  PROVE IInv'
  BY <1>4, PurgeMovementStep
<1>5. CASE UNCHANGED vars
  <2>1. TypeOK' /\ RowsSound' /\ OneHolder' /\ TestMoneyStaysOut'
    BY <1>5 DEF vars, IInv, TypeOK, RowsSound, OneHolder, Holds, TestMoneyStaysOut,
                Stored, Born, Unlinked, Present
  <2>2. OneMovementPerReceipt' /\ MoneyBehindMovement'
    BY <1>5 DEF vars, IInv, OneMovementPerReceipt, MoneyBehindMovement
  <2>3. \A w \in Workers : Sound(w)'
    BY <1>5 DEF vars, IInv, Sound, NamesMovement, KeepsTestMoneyOut, HoldsUnpaid, Holds,
                OwnsWhatItCounts, AtItsMovement, LinksByHand, Stored, Born, Unlinked
  <2>4. QED
    BY <2>1, <2>2, <2>3 DEF IInv
<1>6. QED
  BY <1>1, <1>2, <1>3, <1>4, <1>5 DEF Next

\* What each request still owns at its await is as Sound says, always.
THEOREM InboxInvariant == Spec => []IInv
<1>1. QED
  BY InitIInv, StepIInv, PTL DEF Spec

\* The rows keep their types, a receipt that is stored is on a lease.
THEOREM InboxTypeCorrect == Spec => []TypeOK
<1>1. IInv => TypeOK
  BY DEF IInv
<1>2. QED
  BY <1>1, InboxInvariant, PTL

\* However many confirmations, links and imports overlap, the money of a movement
\* counts once.
THEOREM MoneyCountsOnce == Spec => []MoneyBehindMovement
<1>1. IInv => MoneyBehindMovement
  BY DEF IInv
<1>2. QED
  BY <1>1, InboxInvariant, PTL

\* No receipt, made by the inbox or by hand, is behind two movements.
THEOREM ReceiptHasOneMovement == Spec => []OneMovementPerReceipt
<1>1. IInv => OneMovementPerReceipt
  BY DEF IInv
<1>2. QED
  BY <1>1, InboxInvariant, PTL

\* The money of a sandbox account never becomes a receipt.
THEOREM SandboxStaysOut == Spec => []TestMoneyStaysOut
<1>1. IInv => TestMoneyStaysOut
  BY DEF IInv
<1>2. QED
  BY <1>1, InboxInvariant, PTL

-----------------------------------------------------------------------------
(* A movement keeps its receipt                                             *)

\* The steps of requests write the receipt of a movement that has none, or leave
\* it.
LEMMA RequestsKeepReceipts ==
  ASSUME IInv, NEW w \in Workers, Start(w) \/ Continue(w),
         NEW m \in Movements, movement[m].receipt # None
  PROVE  movement'[m].receipt = movement[m].receipt
<1> DEFINE k == request[w].movement
<1>1. movement[m] \in MovementRow /\ movement \in [Movements -> MovementRow]
  BY DEF IInv, TypeOK
<1>2. CASE Start(w)
  BY <1>2 DEF Start, StartImport, StartConfirm, StartIgnore, StartRestore, StartLink,
              RecordByHand
<1>3. CASE UNCHANGED movement
  BY <1>3
<1>4. CASE Insert(w)
  <2>1. movement[k].receipt = None \/ k \notin Movements
    BY <1>4 DEF Insert, IInv, RowsSound
  <2>2. \E row : movement' = [movement EXCEPT ![k] = row]
    BY <1>4 DEF Insert
  <2>3. QED
    BY <1>1, <2>1, <2>2
<1>5. ASSUME NEW pc, NEW new, NEW lease, SetStatus(w, pc, new, lease)
      PROVE  movement'[m].receipt = movement[m].receipt
  <2>1. movement' = [movement EXCEPT ![k] =
            [movement[k] EXCEPT !.status = new, !.lease = lease]]
    BY <1>5 DEF SetStatus
  <2>2. [movement[m] EXCEPT !.status = new, !.lease = lease].receipt =
            movement[m].receipt
    BY <1>1 DEF MovementRow
  <2>3. QED
    BY <1>1, <2>1, <2>2
<1>6. CASE Claim(w)
  <2>1. UNCHANGED movement \/
        /\ movement[k].receipt = None
        /\ \E row : movement' = [movement EXCEPT ![k] = row]
    BY <1>6 DEF Claim, Claimable
  <2>2. QED
    BY <1>1, <2>1
<1>7. CASE LinkPayment(w)
  <2>1. /\ movement[k].receipt = None
        /\ \E row : movement' = [movement EXCEPT ![k] = row]
    BY <1>7 DEF LinkPayment, Linkable
  <2>2. QED
    BY <1>1, <2>1
<1>8. CASE \/ Discard(w) \/ Allocate(w) \/ CheckRecorded(w)
           \/ Offer(w) \/ Abandon(w)
  BY <1>3, <1>8 DEF Discard, Allocate, CheckRecorded, Offer, Abandon
<1>9. CASE \E r \in AutoReceipts : MakeReceipt(w, r)
  BY <1>3, <1>9 DEF MakeReceipt
<1>10. CASE Park(w) \/ Settle(w) \/ Ignore(w) \/ Restore(w)
  BY <1>5, <1>10 DEF Park, Settle, Ignore, Restore
<1>11. QED
  BY <1>2, <1>4, <1>6, <1>7, <1>8, <1>9, <1>10 DEF Continue

\* A movement keeps the receipt it has until that receipt is deleted.
THEOREM MovementKeepsReceipt == Spec => ReceiptNeverReplaced
<1> DEFINE A == \A m \in Movements :
             movement[m].receipt # None /\ movement'[m].receipt # movement[m].receipt
                => receipt'[movement[m].receipt].state # "stored"
<1>1. IInv /\ [Next]_vars => [A]_vars
  <2> SUFFICES ASSUME IInv, Next, NEW m \in Movements, movement[m].receipt # None,
                      movement'[m].receipt # movement[m].receipt
               PROVE  receipt'[movement[m].receipt].state # "stored"
    BY DEF vars
  <2>1. movement \in [Movements -> MovementRow] /\ receipt \in [Receipts -> ReceiptRow]
    BY DEF IInv, TypeOK
  <2>2. ASSUME NEW r \in Receipts, VoidReceipt(r)  PROVE FALSE
    BY <2>2 DEF VoidReceipt
  <2>3. ASSUME NEW k \in Movements, PurgeMovement(k)  PROVE FALSE
    BY <2>1, <2>3 DEF PurgeMovement
  <2>4. ASSUME NEW r \in Receipts, DeleteReceipt(r)
        PROVE  receipt'[movement[m].receipt].state # "stored"
    <3>1. movement[m].receipt = r
      BY <2>4 DEF DeleteReceipt
    <3>2. QED
      BY <2>1, <2>4, <3>1, GoneType DEF DeleteReceipt
  <2>5. QED
    BY <2>2, <2>3, <2>4, RequestsKeepReceipts DEF Next
<1>2. QED
  BY <1>1, InboxInvariant, PTL DEF Spec, ReceiptNeverReplaced

-----------------------------------------------------------------------------
(* The inbox implements the book                                            *)

\* What the book shows of a movement and of a receipt.
Quiet(m) == movement'[m].receipt = movement[m].receipt
Kept(r)  == /\ receipt'[r].counts = receipt[r].counts
            /\ receipt'[r].state = "deleted" <=> receipt[r].state = "deleted"

LEMMA BookStays ==
  ASSUME \A m \in Movements : Quiet(m), \A r \in Receipts : Kept(r)
  PROVE  UNCHANGED Book!book
<1>1. [m \in Movements |-> movement'[m].receipt] = [m \in Movements |-> movement[m].receipt]
  BY DEF Quiet
<1>2. {r \in Receipts : receipt'[r].counts} = {r \in Receipts : receipt[r].counts}
  BY DEF Kept
<1>3. {r \in Receipts : receipt'[r].state = "deleted"}
        = {r \in Receipts : receipt[r].state = "deleted"}
  BY DEF Kept
<1>4. QED
  BY <1>1, <1>2, <1>3 DEF Book!book

\* A new receipt is not in the book yet.
LEMMA NewReceiptKept ==
  ASSUME IInv, NEW r, NEW row, receipt[r].state = "unborn",
         row.state = "stored", row.counts = FALSE,
         receipt' = [receipt EXCEPT ![r] = row]
  PROVE  \A s \in Receipts : Kept(s)
<1> TAKE s \in Receipts
<1>1. receipt[s] \in ReceiptRow /\ receipt \in [Receipts -> ReceiptRow]
  BY DEF IInv, TypeOK
<1>2. CASE s = r
  <2>1. receipt[s].counts = FALSE
    BY <1>1, <1>2 DEF IInv, RowsSound, Stored, ReceiptRow
  <2>2. QED
    BY <1>1, <1>2, <2>1 DEF Kept
<1>3. CASE s # r
  BY <1>1, <1>3 DEF Kept
<1>4. QED
  BY <1>2, <1>3

\* Starting a request writes nothing the book shows.
LEMMA StartKeepsBook ==
  ASSUME IInv, NEW w \in Workers, Start(w)
  PROVE  UNCHANGED Book!book
<1>1. CASE UNCHANGED <<movement, receipt>>
  BY <1>1, BookStays DEF Quiet, Kept
<1>2. ASSUME NEW r \in HandReceipts, NEW lease \in Leases, RecordByHand(w, r, lease)
      PROVE  UNCHANGED Book!book
  <2> DEFINE row == [NoReceipt EXCEPT !.state = "stored", !.lease = lease]
  <2>1. row.state = "stored" /\ row.counts = FALSE
    BY DEF NoReceipt
  <2>2. /\ receipt[r].state = "unborn" /\ receipt' = [receipt EXCEPT ![r] = row]
        /\ movement' = movement
    BY <1>2 DEF RecordByHand
  <2> HIDE DEF row
  <2>3. \A s \in Receipts : Kept(s)
    BY <2>1, <2>2, NewReceiptKept
  <2>4. \A m \in Movements : Quiet(m)
    BY <2>2 DEF Quiet
  <2>5. QED
    BY <2>3, <2>4, BookStays
<1>3. QED
  BY <1>1, <1>2 DEF Start, StartImport, StartConfirm, StartIgnore, StartRestore, StartLink

\* A movement is given the receipt a request holds for it.
LEMMA GiveStep ==
  ASSUME NEW m \in Movements, NEW r \in Receipts,
         movement[m].receipt = None, Unlinked(r), Stored(r),
         r \in AutoReceipts => ~receipt[r].counts,
         \A k \in Movements : movement'[k].receipt = IF k = m THEN r
                                                     ELSE movement[k].receipt,
         receipt' = receipt
  PROVE  [Book!Next]_(Book!book)
<1> DEFINE was == [k \in Movements |-> movement[k].receipt]
<1>1. [k \in Movements |-> movement'[k].receipt] = [was EXCEPT ![m] = r]
  OBVIOUS
<1>2. was[m] = None /\ ~ \E k \in Movements : was[k] = r
  BY DEF Unlinked
<1>3. r \notin {s \in Receipts : receipt[s].state = "deleted"}
  BY DEF Stored
<1>4. r \in AutoReceipts => r \notin {s \in Receipts : receipt[s].counts}
  OBVIOUS
<1>5. Book!Give(m, r)
  BY <1>1, <1>2, <1>3, <1>4 DEF Book!Give, Book!Given
<1>6. QED
  BY <1>5 DEF Book!Next, Book!Receipts, Receipts

LEMMA ClaimInBook ==
  ASSUME IInv, NEW w \in Workers, Claim(w)
  PROVE  [Book!Next]_(Book!book)
<1>1. PICK m \in Movements, r \in AutoReceipts :
         m = request[w].movement /\ r = request[w].receipt
  BY DEF Claim, IInv, Sound, NamesMovement, HoldsUnpaid, Holds
<1>2. r \in Receipts /\ Unlinked(r) /\ ~receipt[r].counts
  BY <1>1 DEF Claim, IInv, Sound, HoldsUnpaid, Holds, Receipts
<1>3. CASE UNCHANGED movement
  BY <1>3, BookStays DEF Claim, Quiet, Kept
<1>4. CASE movement' # movement
  <2>1. /\ movement[m].receipt = None /\ Stored(r) /\ receipt' = receipt
        /\ movement' = [movement EXCEPT ![m].receipt = r]
    BY <1>1, <1>4 DEF Claim, Claimable
  <2>2. \A k \in Movements : movement'[k].receipt = IF k = m THEN r
                                                    ELSE movement[k].receipt
    BY <2>1 DEF IInv, TypeOK, MovementRow
  <2>3. QED
    BY <1>2, <2>1, <2>2, GiveStep
<1>5. QED
  BY <1>3, <1>4

LEMMA LinkInBook ==
  ASSUME IInv, NEW w \in Workers, LinkPayment(w)
  PROVE  [Book!Next]_(Book!book)
<1>1. PICK m \in Movements, r \in HandReceipts :
         m = request[w].movement /\ r = request[w].receipt
  BY DEF LinkPayment, IInv, Sound, NamesMovement, LinksByHand
<1>2. r \in Receipts /\ r \notin AutoReceipts
  BY InboxAssumption DEF Receipts
<1>3. /\ movement[m].receipt = None /\ Stored(r) /\ Unlinked(r) /\ receipt' = receipt
      /\ movement' = [movement EXCEPT ![m] =
             [movement[m] EXCEPT !.receipt = r, !.status = "matched_confirmed"]]
  BY <1>1 DEF LinkPayment, Linkable, Unlinked
<1>4. \A k \in Movements : movement'[k].receipt = IF k = m THEN r
                                                  ELSE movement[k].receipt
  BY <1>3 DEF IInv, TypeOK, MovementRow
<1>5. QED
  BY <1>2, <1>3, <1>4, GiveStep

\* A receipt leaves the book, and the movement it was given to has none again.
LEMMA DeleteInBook ==
  ASSUME IInv, NEW r \in Receipts, Stored(r), receipt' = [receipt EXCEPT ![r] = Gone],
         \A m \in Movements : movement'[m].receipt = IF movement[m].receipt = r
                                                     THEN None ELSE movement[m].receipt
  PROVE  [Book!Next]_(Book!book)
<1> DEFINE gone == {s \in Receipts : receipt[s].state = "deleted"}
           counted == {s \in Receipts : receipt[s].counts}
<1>1. receipt \in [Receipts -> ReceiptRow]
  BY DEF IInv, TypeOK
<1>2. \A s \in Receipts : receipt'[s] = IF s = r THEN Gone ELSE receipt[s]
  BY <1>1
<1>3. {s \in Receipts : receipt'[s].state = "deleted"} = gone \cup {r}
  BY <1>2, GoneType
<1>4. {s \in Receipts : receipt'[s].counts} = counted \ {r}
  BY <1>2, GoneType
<1>5. [m \in Movements |-> movement'[m].receipt] =
         [m \in Movements |-> IF [k \in Movements |-> movement[k].receipt][m] = r THEN None
                              ELSE [k \in Movements |-> movement[k].receipt][m]]
  OBVIOUS
<1>6. r \notin gone
  BY DEF Stored
<1>7. Book!Delete(r)
  BY <1>3, <1>4, <1>5, <1>6 DEF Book!Delete
<1>8. QED
  BY <1>7 DEF Book!Next, Book!Receipts, Receipts

\* A receipt counts from now on, or no longer.
LEMMA CountInBook ==
  ASSUME IInv, NEW r \in Receipts, Stored(r), NEW c \in BOOLEAN,
         receipt' = [receipt EXCEPT ![r].counts = c], movement' = movement,
         c => AtItsMovement(r)
  PROVE  [Book!Next]_(Book!book)
<1> DEFINE gone == {s \in Receipts : receipt[s].state = "deleted"}
           counted == {s \in Receipts : receipt[s].counts}
           taken == [m \in Movements |-> movement[m].receipt]
<1>1. receipt \in [Receipts -> ReceiptRow]
  BY DEF IInv, TypeOK
<1>2. \A s \in Receipts : /\ receipt'[s].counts = IF s = r THEN c ELSE receipt[s].counts
                          /\ receipt'[s].state = receipt[s].state
  BY <1>1 DEF ReceiptRow
<1>3. {s \in Receipts : receipt'[s].state = "deleted"} = gone
  BY <1>2
<1>4. r \notin gone /\ [m \in Movements |-> movement'[m].receipt] = taken
  BY DEF Stored
<1>5. CASE c
  <2>1. {s \in Receipts : receipt'[s].counts} = counted \cup {r}
    BY <1>2, <1>5
  <2>2. r \in AutoReceipts => \E m \in Movements : taken[m] = r
    <3>1. r \in AutoReceipts => receipt[r].origin \in Movements
      BY DEF IInv, RowsSound
    <3>2. r \in AutoReceipts => taken[receipt[r].origin] = r
      BY <1>5, <3>1 DEF AtItsMovement
    <3>3. QED
      BY <3>1, <3>2
  <2>3. Book!Count(r)
    BY <1>3, <1>4, <2>1, <2>2 DEF Book!Count, Book!Given
  <2>4. QED
    BY <2>3 DEF Book!Next, Book!Receipts, Receipts
<1>6. CASE ~c
  <2>1. {s \in Receipts : receipt'[s].counts} = counted \ {r}
    BY <1>2, <1>6
  <2>2. Book!Uncount(r)
    BY <1>3, <1>4, <2>1 DEF Book!Uncount
  <2>3. QED
    BY <2>2 DEF Book!Next, Book!Receipts, Receipts
<1>7. QED
  BY <1>5, <1>6

LEMMA AllocateInBook ==
  ASSUME IInv, NEW w \in Workers, Allocate(w)
  PROVE  [Book!Next]_(Book!book)
<1>1. PICK r \in Receipts : r = request[w].receipt
  BY DEF Allocate, IInv, Sound, OwnsWhatItCounts
<1>2. AtItsMovement(r) /\ movement' = movement
  BY <1>1 DEF Allocate, IInv, Sound, OwnsWhatItCounts
<1>3. CASE UNCHANGED receipt
  BY <1>2, <1>3, BookStays DEF Quiet, Kept
<1>4. CASE receipt' = [receipt EXCEPT ![r].counts = Stored(r)]
  <2>1. PICK c \in BOOLEAN : c = Stored(r)
    BY DEF Stored
  <2>2. receipt' = [receipt EXCEPT ![r].counts = c]
    BY <1>4, <2>1, Zenon
  <2>3. CASE Stored(r)
    BY <1>2, <2>2, <2>3, CountInBook
  <2>4. CASE ~Stored(r)
    <3>1. receipt \in [Receipts -> ReceiptRow] /\ ~receipt[r].counts /\ ~c
      BY <2>1, <2>4 DEF IInv, TypeOK, RowsSound
    <3>2. \A s \in Receipts : Kept(s)
      BY <2>2, <3>1 DEF Kept, ReceiptRow
    <3>3. QED
      BY <1>2, <3>2, BookStays DEF Quiet
  <2>5. QED
    BY <2>3, <2>4
<1>5. QED
  BY <1>1, <1>3, <1>4 DEF Allocate

LEMMA DiscardInBook ==
  ASSUME IInv, NEW w \in Workers, Discard(w)
  PROVE  [Book!Next]_(Book!book)
<1>1. PICK r \in Receipts : r = request[w].receipt
  BY DEF Discard, IInv, Sound, HoldsUnpaid, Holds, Receipts
<1>2. /\ Stored(r) /\ Unlinked(r) /\ movement' = movement
      /\ receipt' = [receipt EXCEPT ![r] = Gone]
  BY <1>1 DEF Discard, IInv, Sound, HoldsUnpaid, Holds
<1>3. QED
  BY <1>2, DeleteInBook DEF Unlinked

\* A row that is inserted has no receipt, and no other write changes the receipt
\* of a movement.
LEMMA QuietInBook ==
  ASSUME IInv, NEW w \in Workers,
         \/ Insert(w) \/ (\E r \in AutoReceipts : MakeReceipt(w, r))
         \/ CheckRecorded(w) \/ Park(w) \/ Settle(w) \/ Ignore(w) \/ Restore(w)
         \/ Offer(w) \/ Abandon(w)
  PROVE  UNCHANGED Book!book
<1> DEFINE k == request[w].movement
<1>1. movement \in [Movements -> MovementRow]
  BY DEF IInv, TypeOK
<1>2. CASE Insert(w)
  <2>1. /\ k \in Movements => movement[k].receipt = None
        /\ movement' = [movement EXCEPT ![k] =
               [status |-> request[w].status, lease |-> request[w].lease,
                receipt |-> None]]
        /\ receipt' = receipt
    BY <1>2 DEF Insert, IInv, RowsSound
  <2>2. \A m \in Movements : Quiet(m)
    BY <1>1, <2>1 DEF Quiet
  <2>3. QED
    BY <2>1, <2>2, BookStays DEF Kept
<1>3. ASSUME NEW pc, NEW new, NEW lease, SetStatus(w, pc, new, lease)
      PROVE  UNCHANGED Book!book
  <2>1. /\ movement' = [movement EXCEPT ![k] =
               [movement[k] EXCEPT !.status = new, !.lease = lease]]
        /\ receipt' = receipt
    BY <1>3 DEF SetStatus
  <2>2. \A m \in Movements : Quiet(m)
    BY <1>1, <2>1 DEF Quiet, MovementRow
  <2>3. QED
    BY <2>1, <2>2, BookStays DEF Kept
<1>4. ASSUME NEW r \in AutoReceipts, MakeReceipt(w, r) PROVE UNCHANGED Book!book
  <2> DEFINE row == [state |-> "stored", lease |-> request[w].lease, counts |-> FALSE,
                     origin |-> request[w].movement]
  <2>1. /\ receipt[r].state = "unborn" /\ receipt' = [receipt EXCEPT ![r] = row]
        /\ movement' = movement
    BY <1>4 DEF MakeReceipt
  <2>2. row.state = "stored" /\ row.counts = FALSE
    OBVIOUS
  <2> HIDE DEF row
  <2>3. \A s \in Receipts : Kept(s)
    BY <2>1, <2>2, NewReceiptKept
  <2>4. QED
    BY <2>1, <2>3, BookStays DEF Quiet
<1>5. CASE CheckRecorded(w) \/ Offer(w) \/ Abandon(w)
  <2>1. UNCHANGED <<movement, receipt>>
    BY <1>5 DEF CheckRecorded, Offer, Abandon
  <2>2. QED
    BY <2>1, BookStays DEF Quiet, Kept
<1>6. CASE Park(w) \/ Settle(w) \/ Ignore(w) \/ Restore(w)
  BY <1>3, <1>6 DEF Park, Settle, Ignore, Restore
<1>7. QED
  BY <1>2, <1>4, <1>5, <1>6

\* Whatever requests overlap, a movement is only ever given a receipt that is
\* nobody else's, its receipt counts only after that, and nothing but a deletion
\* takes it back: every step of the inbox is a step of the book, or shows nothing.
THEOREM InboxImplementsBook == Spec => ImplementsBook
<1>1. Init => Book!Init
  BY DEF Init, Book!Init, NoRow, NoReceipt
<1>2. IInv /\ [Next]_vars => [Book!Next]_(Book!book)
  <2> SUFFICES ASSUME IInv, [Next]_vars PROVE [Book!Next]_(Book!book)
    OBVIOUS
  <2>1. CASE UNCHANGED vars
    BY <2>1, BookStays DEF vars, Quiet, Kept
  <2>2. ASSUME NEW w \in Workers, Start(w) PROVE [Book!Next]_(Book!book)
    BY <2>2, StartKeepsBook
  <2>3. ASSUME NEW w \in Workers, Continue(w) PROVE [Book!Next]_(Book!book)
    BY <2>3, QuietInBook, ClaimInBook, LinkInBook, DiscardInBook, AllocateInBook
    DEF Continue
  <2>4. ASSUME NEW r \in Receipts, VoidReceipt(r) PROVE [Book!Next]_(Book!book)
    BY <2>4, CountInBook DEF VoidReceipt
  <2>5. ASSUME NEW r \in Receipts, DeleteReceipt(r) PROVE [Book!Next]_(Book!book)
    <3>1. Stored(r) /\ receipt' = [receipt EXCEPT ![r] = Gone]
      BY <2>5 DEF DeleteReceipt
    <3>2. \A m \in Movements : movement'[m].receipt =
              IF movement[m].receipt = r THEN None ELSE movement[m].receipt
      BY <2>5 DEF DeleteReceipt, IInv, TypeOK, MovementRow
    <3>3. QED
      BY <3>1, <3>2, DeleteInBook
  <2>6. ASSUME NEW k \in Movements, PurgeMovement(k) PROVE [Book!Next]_(Book!book)
    <3>1. \A m \in Movements : Quiet(m)
      BY <2>6 DEF PurgeMovement, NoRow, Quiet, IInv, TypeOK
    <3>2. QED
      BY <2>6, <3>1, BookStays DEF PurgeMovement, Kept
  <2>7. QED
    BY <2>1, <2>2, <2>3, <2>4, <2>5, <2>6 DEF Next
<1>3. QED
  BY <1>1, <1>2, InboxInvariant, PTL DEF Spec, ImplementsBook, Book!Spec

\* The book keeps the money of a movement counting once, so whatever implements it
\* does; nothing of the requests is needed for that.
THEOREM BookCountsOnce == Book!Spec => []Book!EachCountsOnce
<1> DEFINE taken == [m \in Movements |-> movement[m].receipt]
           counted == {r \in Receipts : receipt[r].counts}
           One(T) == \A m, k \in Movements : T[m] # None /\ T[m] = T[k] => m = k
           Backed(T, C) == \A r \in C \cap AutoReceipts : \E m \in Movements : T[m] = r
<1>1. Book!Init => Book!EachCountsOnce
  BY DEF Book!Init, Book!EachCountsOnce
<1>2. Book!EachCountsOnce /\ [Book!Next]_(Book!book) => Book!EachCountsOnce'
  <2> SUFFICES ASSUME One(taken), Backed(taken, counted), [Book!Next]_(Book!book)
               PROVE  One(taken') /\ Backed(taken', counted')
    BY DEF Book!EachCountsOnce, Book!Given
  <2>1. CASE UNCHANGED Book!book
    <3>1. taken' = taken /\ counted' = counted
      BY <2>1 DEF Book!book
    <3> HIDE DEF taken, counted
    <3>2. QED
      BY <3>1
  <2>2. ASSUME NEW r \in Receipts, NEW m \in Movements, Book!Give(m, r)
        PROVE  One(taken') /\ Backed(taken', counted')
    <3>1. /\ taken[m] = None /\ (\A k \in Movements : taken[k] # r)
          /\ taken' = [taken EXCEPT ![m] = r] /\ counted' = counted
      BY <2>2 DEF Book!Give, Book!Given
    <3>2. \A k \in Movements : taken'[k] = IF k = m THEN r ELSE taken[k]
      BY <3>1
    <3>3. r \notin {None}
      BY InboxAssumption DEF Receipts
    <3> HIDE DEF taken, counted
    <3>4. One(taken')
      BY <3>1, <3>2
    <3>5. Backed(taken', counted')
      <4> SUFFICES ASSUME NEW s \in counted \cap AutoReceipts
                   PROVE  \E k \in Movements : taken'[k] = s
        BY <3>1
      <4>1. PICK k \in Movements : taken[k] = s
        OBVIOUS
      <4>2. k # m
        BY <3>1, <4>1, InboxAssumption
      <4>3. QED
        BY <3>2, <4>1, <4>2
    <3>6. QED
      BY <3>4, <3>5
  <2>3. ASSUME NEW r \in Receipts, Book!Count(r) \/ Book!Uncount(r)
        PROVE  One(taken') /\ Backed(taken', counted')
    <3>1. /\ taken' = taken
          /\ counted' \subseteq counted \cup {s \in {r} : s \in AutoReceipts =>
                                               \E m \in Movements : taken[m] = s}
      BY <2>3 DEF Book!Count, Book!Uncount, Book!Given
    <3> HIDE DEF taken, counted
    <3>2. QED
      BY <3>1
  <2>4. ASSUME NEW r \in Receipts, Book!Delete(r)
        PROVE  One(taken') /\ Backed(taken', counted')
    <3>1. /\ taken' = [m \in Movements |-> IF taken[m] = r THEN None ELSE taken[m]]
          /\ counted' = counted \ {r}
      BY <2>4 DEF Book!Delete
    <3>2. \A m \in Movements : taken'[m] = IF taken[m] = r THEN None ELSE taken[m]
      BY <3>1
    <3> HIDE DEF taken, counted
    <3>3. One(taken')
      BY <3>2
    <3>4. Backed(taken', counted')
      <4> SUFFICES ASSUME NEW s \in counted \cap AutoReceipts, s # r
                   PROVE  \E k \in Movements : taken'[k] = s
        BY <3>1
      <4>1. PICK k \in Movements : taken[k] = s
        OBVIOUS
      <4>2. QED
        BY <3>2, <4>1
    <3>5. QED
      BY <3>3, <3>4
  <2>5. QED
    BY <2>1, <2>2, <2>3, <2>4 DEF Book!Next, Book!Receipts, Receipts
<1>3. QED
  BY <1>1, <1>2, PTL DEF Book!Spec
=============================================================================
