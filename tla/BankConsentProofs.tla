------------------------- MODULE BankConsentProofs -------------------------
(***************************************************************************)
(* Proofs about BankConsent, for any number of consent attempts and of     *)
(* requests in flight.                                                     *)
(*                                                                         *)
(* The row is written by requests that read it long before, so what makes   *)
(* each write right is said of the request (Sound): what it knows of its    *)
(* own consent, which only grows, and of the row's accounts, which only go  *)
(* with the row.  Quiet says why the unconditional write of startConsent is *)
(* harmless: until the link is handed out, nothing can complete.           *)
(***************************************************************************)
EXTENDS BankConsent, TLAPS

Completing == {"accounts", "reread", "rewrite", "activate"}
Naming     == {"link", "park", "claim", "exchange"} \cup Completing

\* A request that works for an attempt; once past the exchange, its consent is
\* one the bank granted.
NamesAttempt(w) ==
    /\ request[w].pc \in Naming =>
           request[w].attempt \in Attempts /\ ~Unused(request[w].attempt)
    /\ request[w].pc \in Completing => session[request[w].attempt] # "none"
    /\ request[w].pc = "claim" /\ request[w].seen.status = "pending_consent" =>
           request[w].attempt = request[w].seen.metadata.reference

\* What it left on the row is there while the row is, or the bank's answer had none.
LeftOnRow(w) ==
    Exists =>
        /\ request[w].pc \in {"reread", "rewrite", "activate"} /\ Carries(w, "accounts") =>
               row.accounts
        /\ request[w].pc = "activate" /\ row.metadata.accountRefs = None =>
               AnsweredWithout("accounts")
        /\ request[w].pc = "import" => row.accounts
        /\ request[w].pc = "fetch" /\ request[w].seen.metadata.accountRefs # None =>
               row.accounts
        /\ request[w].pc = "discard" => row.isTest

\* What it learnt of the consent it read.
KnowsConsent(w) ==
    /\ request[w].pc = "expire" => request[w].seen.consentId \in refused
    /\ request[w].pc = "stop" => request[w].seen.status \in {"active", "expired", "revoked"}
    /\ request[w].pc = "letgo" => /\ request[w].seen.consentId # None
                                  /\ session[request[w].seen.consentId] = "ended"

Sound(w) == NamesAttempt(w) /\ LeftOnRow(w) /\ KnowsConsent(w)

\* While startConsent waits for its link, only a removal can be under way.
Unaware == {"idle", "remove", "discard", "deleted"}

Quiet(w) ==
    At(w, "link") =>
        /\ row.status \in {"pending_consent", "removed"}
        /\ row.consentId = None
        /\ Pending => row.metadata.reference = request[w].attempt
        /\ reference[request[w].attempt] # "sent"
        /\ \A v \in Workers \ {w} : request[v].pc \in Unaware

RowSound ==
    /\ row.status = "absent" => \A w \in Workers : Idle(w)
    /\ row.consentId # None => session[row.consentId] # "none"
    /\ row.metadata.accountRefs # None => /\ session[row.metadata.accountRefs] # "none"
                                         /\ row.accounts
    /\ row.status \in {"active", "expired"} =>
           /\ row.consentId = None => AnsweredWithout("id")
           /\ row.metadata.accountRefs = None => AnsweredWithout("accounts")
    /\ row.movements => row.accounts
    /\ Pending /\ row.metadata.reference # None =>
           row.metadata.reference \notin spent /\ ~Unused(row.metadata.reference)
    /\ \A a \in spent : ~Unused(a)

IInv ==
    /\ TypeOK /\ RowSound
    /\ \A w \in Workers : Sound(w)
    /\ \A w \in Workers : Quiet(w)

-----------------------------------------------------------------------------
(* What every step keeps                                                    *)

\* The bank's and the references' histories only grow; the row keeps its
\* accounts, its provider ids and its kind until it is gone.
Onward ==
    /\ \A a \in Attempts : ~Unused(a) => ~Unused(a)'
    /\ \A a \in Attempts : session[a] # "none" => session'[a] # "none"
    /\ \A a \in Attempts : session[a] = "ended" => session'[a] = "ended"
    /\ \A a \in Attempts : session[a] # "none" => answer'[a] = answer[a]
    /\ refused \subseteq refused'
    /\ Exists' => /\ Exists
                  /\ row.accounts => row'.accounts
                  /\ row'.metadata.accountRefs = None =>
                         row.metadata.accountRefs = None \/ AnsweredWithout("accounts")'
                  /\ row'.isTest = row.isTest

OnlyRequest(w) == \A v \in Workers \ {w} : request'[v] = request[v]

\* What the bank once left out of an answer stays left out.
LEMMA AnswersStay ==
  ASSUME Onward, NEW part
  PROVE  AnsweredWithout(part) => AnsweredWithout(part)'
BY DEF Onward, AnsweredWithout

\* A request that does not move stays sound.
LEMMA OthersStaySound ==
  ASSUME IInv, Onward, NEW v \in Workers, request'[v] = request[v]
  PROVE  Sound(v)'
<1>1. request[v] \in RequestRow /\ Sound(v)
  BY DEF IInv, TypeOK
<1>2. NamesAttempt(v)'
  BY <1>1 DEF Sound, NamesAttempt, Onward, Naming, Completing
<1>3. LeftOnRow(v)'
  <2>1. request[v].pc \in Completing => (Carries(v, "accounts")' <=> Carries(v, "accounts"))
    BY <1>1 DEF Sound, NamesAttempt, Onward, Carries, Naming
  <2>2. AnsweredWithout("accounts") => AnsweredWithout("accounts")'
    BY AnswersStay
  <2>3. QED
    BY <1>1, <2>1, <2>2 DEF Sound, LeftOnRow, Onward, Completing
<1>4. KnowsConsent(v)'
  BY <1>1 DEF Sound, KnowsConsent, Onward, RequestRow, Seen, MaybeAttempt
<1>5. QED
  BY <1>2, <1>3, <1>4 DEF Sound

\* A step of w, which is not storing a link, keeps the invariant if its own
\* request and the row stay sound and nobody else is storing one, or nothing of
\* what such a request relies on changed.
LEMMA StepKeeps ==
  ASSUME IInv, NEW w \in Workers, OnlyRequest(w), Onward,
         TypeOK', RowSound', Sound(w)', Quiet(w)',
         \A v \in Workers \ {w} : Quiet(v)'
  PROVE  IInv'
<1>1. \A v \in Workers \ {w} : Sound(v)'
  BY OthersStaySound DEF OnlyRequest
<1>2. QED
  BY <1>1 DEF IInv

\* While a request is past its read of a connection, no link is being stored.
LEMMA NobodyLinks ==
  ASSUME IInv, NEW w \in Workers, request[w].pc \notin Unaware, ~At(w, "link"),
         OnlyRequest(w), ~At(w, "link")'
  PROVE  \A v \in Workers : Quiet(v)'
<1>1. \A v \in Workers \ {w} : ~At(v, "link")
  BY DEF IInv, Quiet
<1>2. QED
  BY <1>1 DEF OnlyRequest, Quiet, At

\* Neither is one when the connection is past its first consent.
LEMMA NobodyLinksYet ==
  ASSUME IInv, NEW w \in Workers, row.status \in {"active", "expired", "revoked"},
         OnlyRequest(w), ~At(w, "link")'
  PROVE  \A v \in Workers : Quiet(v)'
BY DEF IInv, Quiet, OnlyRequest, At

LEMMA IdleType == IdleRequest \in RequestRow
BY DEF IdleRequest, RequestRow, Points, NothingRead, Seen, Statuses, NoMetadata, Metadata,
       MaybeAttempt

LEMMA IdleSound ==
  ASSUME NEW w \in Workers, request'[w] = IdleRequest
  PROVE  Sound(w)' /\ Quiet(w)' /\ ~At(w, "link")'
BY DEF IdleRequest, Sound, NamesAttempt, LeftOnRow, KnowsConsent, Quiet, At, Naming,
       Completing

\* The four ways a request moves.
LEMMA Finished ==
  ASSUME IInv, NEW w \in Workers, Finish(w)
  PROVE  /\ request' \in [Workers -> RequestRow] /\ request'[w] = IdleRequest
         /\ OnlyRequest(w) /\ Sound(w)' /\ Quiet(w)' /\ ~At(w, "link")' /\ Idle(w)'
<1>1. request' \in [Workers -> RequestRow] /\ request'[w] = IdleRequest /\ OnlyRequest(w)
  BY IdleType DEF IInv, TypeOK, Finish, OnlyRequest
<1>2. QED
  BY <1>1, IdleSound DEF Idle, IdleRequest

LEMMA Moved ==
  ASSUME IInv, NEW w \in Workers, NEW pc \in Points, Goto(w, pc)
  PROVE  /\ request' \in [Workers -> RequestRow]
         /\ request'[w].pc = pc /\ request'[w].attempt = request[w].attempt
         /\ request'[w].seen = request[w].seen
         /\ request'[w].metadata = request[w].metadata
         /\ OnlyRequest(w)
<1>1. request \in [Workers -> RequestRow]
  BY DEF IInv, TypeOK
<1>2. QED
  BY <1>1 DEF Goto, OnlyRequest, RequestRow

LEMMA MovedWithId ==
  ASSUME IInv, NEW w \in Workers, NEW pc \in Points, GotoWithId(w, pc)
  PROVE  /\ request' \in [Workers -> RequestRow]
         /\ request'[w].pc = pc
         /\ request'[w].seen.consentId = request[w].seen.consentId
         /\ OnlyRequest(w)
<1> DEFINE left == [IdleRequest EXCEPT !.pc = pc, !.seen.consentId = request[w].seen.consentId]
<1>1. request \in [Workers -> RequestRow] /\ request[w].seen.consentId \in MaybeAttempt
  BY DEF IInv, TypeOK, RequestRow, Seen
<1>2. left \in RequestRow /\ left.pc = pc /\ left.seen.consentId = request[w].seen.consentId
  BY <1>1, IdleType DEF RequestRow, Seen
<1>3. request' = [request EXCEPT ![w] = left]
  BY DEF GotoWithId
<1> HIDE DEF left
<1>4. QED
  BY <1>1, <1>2, <1>3 DEF OnlyRequest

LEMMA Began ==
  ASSUME IInv, NEW w \in Workers, NEW pc \in Points, NEW a \in MaybeAttempt,
         NEW seen \in Seen, Begin(w, pc, a, seen)
  PROVE  /\ request' \in [Workers -> RequestRow]
         /\ request'[w].pc = pc /\ request'[w].attempt = a /\ request'[w].seen = seen
         /\ OnlyRequest(w)
<1>1. request \in [Workers -> RequestRow]
  BY DEF IInv, TypeOK
<1>2. request' \in [Workers -> RequestRow]
  BY <1>1, IdleType DEF Begin, RequestRow
<1>3. /\ request'[w].pc = pc /\ request'[w].attempt = a /\ request'[w].seen = seen
      /\ OnlyRequest(w)
  BY <1>1, IdleType DEF Begin, RequestRow, OnlyRequest
<1>4. QED
  BY <1>2, <1>3

\* What a request keeps of the row it read.
LEMMA ReadTypes ==
  ASSUME IInv
  PROVE  /\ row \in Rows /\ row.status \in Statuses /\ row.consentId \in MaybeAttempt
         /\ row.metadata \in Metadata /\ row.metadata.accountRefs \in MaybeAttempt
         /\ row.movements \in BOOLEAN /\ NothingRead \in Seen
BY IdleType DEF IInv, TypeOK, Rows, Metadata, IdleRequest, RequestRow

-----------------------------------------------------------------------------
(* Steps of requests that leave the row alone                               *)

\* What is said of the row and of the histories stays if they do.
LEMMA RowStays ==
  ASSUME IInv, UNCHANGED <<row, session, answer, spent>>,
         \A a \in Attempts : ~Unused(a) => ~Unused(a)',
         row.status = "absent" => \A w \in Workers : Idle(w)'
  PROVE  RowSound'
<1>1. row \in Rows /\ spent \subseteq Attempts
  BY DEF IInv, TypeOK
<1>2. RowSound
  BY DEF IInv
<1>3. QED
  BY <1>1, <1>2 DEF RowSound, Pending, Rows, Metadata, MaybeAttempt, AnsweredWithout

\* A request that only moves on, or begins by reading a row that is there.
LEMMA OnlyMoves ==
  ASSUME IInv, NEW w \in Workers, UNCHANGED <<row, reference, session, answer, spent>>,
         refused \subseteq refused', refused' \subseteq MaybeAttempt,
         OnlyRequest(w), request' \in [Workers -> RequestRow], Sound(w)',
         ~At(w, "link")', Exists \/ ~Idle(w),
         \A v \in Workers \ {w} : ~At(v, "link") \/ request'[w].pc \in Unaware
  PROVE  IInv'
<1>1. TypeOK'
  BY DEF IInv, TypeOK, Exists, Pending
<1>2. Onward
  BY DEF Onward, Unused, Exists
<1>3. row.status # "absent"
  BY DEF IInv, RowSound, Exists
<1>4. RowSound'
  BY <1>3, RowStays DEF Unused
<1>5. Quiet(w)'
  BY DEF Quiet
<1>6. ASSUME NEW v \in Workers \ {w}  PROVE Quiet(v)'
  <2>1. Quiet(v) /\ request'[v] = request[v]
    BY <1>6 DEF IInv, OnlyRequest
  <2>2. CASE ~At(v, "link")
    BY <2>1, <2>2 DEF Quiet, At
  <2>3. CASE At(v, "link")
    BY <2>1, <2>3 DEF Quiet, At, Pending, OnlyRequest
  <2>4. QED
    BY <2>2, <2>3
<1>7. QED
  BY <1>1, <1>2, <1>4, <1>5, <1>6, StepKeeps

\* The reads a connection past its first consent allows.
LEMMA ReadForDisconnectStep ==
  ASSUME IInv, NEW w \in Workers, ReadForDisconnect(w)
  PROVE  IInv'
<1> DEFINE seen == [NothingRead EXCEPT !.status = row.status, !.consentId = row.consentId,
                                       !.metadata = row.metadata]
<1>1. /\ Begin(w, "stop", None, seen) /\ "stop" \in Points /\ None \in MaybeAttempt
      /\ seen \in Seen /\ seen.status = row.status
  BY ReadTypes DEF ReadForDisconnect, Points, MaybeAttempt, Seen
<1> HIDE DEF seen
<1>2. /\ request' \in [Workers -> RequestRow] /\ request'[w].pc = "stop" /\ OnlyRequest(w)
      /\ request'[w].seen.status = row.status
  BY <1>1, Began
<1>3. Exists /\ ~Pending /\ row \in Rows
  BY DEF ReadForDisconnect, CanDisconnect, IInv, TypeOK
<1>4. Sound(w)'
  BY <1>2, <1>3 DEF Sound, NamesAttempt, LeftOnRow, KnowsConsent, Naming, Completing,
                    Exists, Pending, Rows, Statuses
<1>5. \A v \in Workers : ~At(v, "link")
  BY <1>3 DEF IInv, Quiet, Exists, Pending
<1>6. QED
  BY <1>2, <1>3, <1>4, <1>5, OnlyMoves DEF ReadForDisconnect, At, IInv, TypeOK

LEMMA ReadForSyncStep ==
  ASSUME IInv, NEW w \in Workers, ReadForSync(w)
  PROVE  IInv'
<1> DEFINE seen == [NothingRead EXCEPT !.consentId = row.consentId,
                                       !.metadata.accountRefs = row.metadata.accountRefs]
<1>1. /\ Begin(w, "fetch", None, seen) /\ "fetch" \in Points /\ None \in MaybeAttempt
      /\ seen \in Seen /\ seen.metadata.accountRefs = row.metadata.accountRefs
  BY ReadTypes DEF ReadForSync, Points, MaybeAttempt, Seen, Metadata
<1> HIDE DEF seen
<1>2. /\ request' \in [Workers -> RequestRow] /\ request'[w].pc = "fetch"
      /\ request'[w].seen.metadata.accountRefs = row.metadata.accountRefs /\ OnlyRequest(w)
  BY <1>1, Began
<1>3. row.status = "active" /\ (row.metadata.accountRefs # None => row.accounts)
  BY DEF ReadForSync, IInv, RowSound
<1>4. UNCHANGED row
  BY DEF ReadForSync
<1>5. Sound(w)'
  BY <1>2, <1>3, <1>4 DEF Sound, NamesAttempt, LeftOnRow, KnowsConsent, Naming, Completing
<1>6. \A v \in Workers : ~At(v, "link")
  BY <1>3 DEF IInv, Quiet
<1>7. QED
  BY <1>2, <1>3, <1>5, <1>6, OnlyMoves DEF ReadForSync, At, IInv, TypeOK, Exists

\* The bank's redirect for an attempt cannot come before its link is handed out.
LEMMA ReadForCompletionStep ==
  ASSUME IInv, NEW w \in Workers, NEW a \in Attempts, ReadForCompletion(w, a)
  PROVE  IInv'
<1> DEFINE seen == [NothingRead EXCEPT !.status = row.status, !.consentId = row.consentId,
                                       !.metadata = row.metadata]
<1>1. /\ Begin(w, "claim", a, seen) /\ "claim" \in Points /\ a \in MaybeAttempt
      /\ seen \in Seen /\ seen.status = row.status /\ seen.metadata = row.metadata
  BY ReadTypes DEF ReadForCompletion, Points, MaybeAttempt, Seen
<1> HIDE DEF seen
<1>2. /\ request' \in [Workers -> RequestRow] /\ request'[w].pc = "claim"
      /\ request'[w].attempt = a /\ request'[w].seen.status = row.status
      /\ request'[w].seen.metadata = row.metadata /\ OnlyRequest(w)
  BY <1>1, Began
<1>3. Exists /\ Usable = a /\ reference[a] = "sent" /\ UNCHANGED <<row, reference>>
  BY DEF ReadForCompletion
<1>4. Sound(w)'
  <2>1. NamesAttempt(w)'
    BY <1>2, <1>3 DEF NamesAttempt, Naming, Completing, Unused, Usable, Pending
  <2>2. QED
    BY <1>2, <2>1 DEF Sound, LeftOnRow, KnowsConsent
<1>5. \A v \in Workers : ~At(v, "link")
  BY <1>3 DEF IInv, Quiet, Usable, Exists, Pending
<1>6. QED
  BY <1>2, <1>3, <1>4, <1>5, OnlyMoves DEF ReadForCompletion, At, IInv, TypeOK

LEMMA ReadForRemovalSteps ==
  ASSUME IInv, NEW w \in Workers, ReadForRemoval(w) \/ ReadForTestDeletion(w)
  PROVE  IInv'
<1>1. PICK pc \in {"remove", "discard"}, seen \in Seen :
          Begin(w, pc, None, seen) /\ (pc = "discard" => row.isTest)
  BY ReadTypes DEF ReadForRemoval, ReadForTestDeletion, Seen
<1>2. pc \in Points /\ None \in MaybeAttempt
  BY <1>1 DEF Points, MaybeAttempt
<1>3. /\ request' \in [Workers -> RequestRow] /\ request'[w].pc = pc /\ OnlyRequest(w)
  BY <1>1, <1>2, Began
<1>4. Exists /\ UNCHANGED <<row, reference, session, answer, spent, refused>>
  BY DEF ReadForRemoval, ReadForTestDeletion
<1>5. Sound(w)'
  BY <1>1, <1>3, <1>4 DEF Sound, NamesAttempt, LeftOnRow, KnowsConsent, Naming, Completing
<1>6. QED
  BY <1>1, <1>3, <1>4, <1>5, OnlyMoves DEF At, Unaware, IInv, TypeOK

\* A renewal mints its reference before it knows whether it can park it.
LEMMA ReadForRenewalStep ==
  ASSUME IInv, NEW w \in Workers, NEW a \in Attempts, ReadForRenewal(w, a)
  PROVE  IInv'
<1>1. PICK seen \in Seen : Begin(w, "park", a, seen)
  BY ReadTypes DEF ReadForRenewal, Seen
<1>2. /\ request' \in [Workers -> RequestRow] /\ request'[w].pc = "park"
      /\ request'[w].attempt = a /\ OnlyRequest(w)
  BY <1>1, Began DEF Points, MaybeAttempt
<1>3. /\ Exists /\ ~Pending /\ reference' = [reference EXCEPT ![a] = "minted"]
      /\ UNCHANGED <<row, session, answer, spent, refused>>
      /\ reference \in [Attempts -> {"unused", "minted", "sent", "lapsed"}]
  BY DEF ReadForRenewal, IInv, TypeOK
<1>4. TypeOK'
  BY <1>2, <1>3 DEF IInv, TypeOK, Exists, Pending
<1>5. Onward
  BY <1>3 DEF Onward, Unused, Exists
<1>6. Sound(w)'
  BY <1>2, <1>3 DEF Sound, NamesAttempt, LeftOnRow, KnowsConsent, Naming, Completing,
                    Unused
<1>7. RowSound'
  BY <1>3, <1>5, RowStays DEF Onward, Exists
<1>8. row.status \in {"active", "expired", "revoked"}
  BY <1>3 DEF IInv, TypeOK, Rows, Statuses, Exists, Pending
<1>9. \A v \in Workers : Quiet(v)'
  BY <1>2, <1>8, NobodyLinksYet DEF At
<1>10. QED
  BY <1>2, <1>4, <1>5, <1>6, <1>7, <1>9, StepKeeps

LEMMA FetchStep ==
  ASSUME IInv, NEW w \in Workers, Fetch(w)
  PROVE  IInv'
<1>1. Goto(w, "import") /\ "import" \in Points /\ Sound(w)
  BY DEF Fetch, Points, IInv
<1>2. /\ request' \in [Workers -> RequestRow] /\ request'[w].pc = "import"
      /\ request'[w].seen = request[w].seen /\ OnlyRequest(w)
  BY <1>1, Moved
<1>3. /\ request[w].pc = "fetch" /\ request[w].seen.metadata.accountRefs # None
      /\ UNCHANGED <<row, reference, session, answer, spent, refused>>
  BY DEF Fetch, At
<1>4. Sound(w)'
  BY <1>1, <1>2, <1>3 DEF Sound, NamesAttempt, LeftOnRow, KnowsConsent, Naming, Completing, Exists
<1>5. \A v \in Workers \ {w} : ~At(v, "link")
  BY <1>3 DEF IInv, Quiet, Unaware
<1>6. QED
  BY <1>2, <1>3, <1>4, <1>5, OnlyMoves DEF At, Idle, IInv, TypeOK

LEMMA FetchRefusedStep ==
  ASSUME IInv, NEW w \in Workers, FetchRefused(w)
  PROVE  IInv'
<1>1. GotoWithId(w, "expire") /\ "expire" \in Points
  BY DEF FetchRefused, Points
<1>2. /\ request' \in [Workers -> RequestRow] /\ request'[w].pc = "expire"
      /\ request'[w].seen.consentId = request[w].seen.consentId /\ OnlyRequest(w)
  BY <1>1, MovedWithId
<1>3. /\ request[w].pc = "fetch" /\ UNCHANGED <<row, reference, session, answer, spent>>
      /\ refused' = refused \cup {request[w].seen.consentId}
  BY DEF FetchRefused, At
<1>4. request[w].seen.consentId \in MaybeAttempt
  BY DEF IInv, TypeOK, RequestRow, Seen
<1>5. Sound(w)'
  BY <1>2, <1>3 DEF Sound, NamesAttempt, LeftOnRow, KnowsConsent, Naming, Completing
<1>6. \A v \in Workers \ {w} : ~At(v, "link")
  BY <1>3 DEF IInv, Quiet, Unaware
<1>7. refused' \subseteq MaybeAttempt
  BY <1>3, <1>4 DEF IInv, TypeOK
<1>8. QED
  BY <1>2, <1>3, <1>5, <1>6, <1>7, OnlyMoves DEF At, Idle

LEMMA RereadMetadataStep ==
  ASSUME IInv, NEW w \in Workers, RereadMetadata(w)
  PROVE  IInv'
<1>1. /\ request \in [Workers -> RequestRow] /\ row.metadata \in Metadata /\ Sound(w)
  BY DEF IInv, TypeOK, Rows
<1>2. /\ request' = [request EXCEPT ![w].pc = "rewrite", ![w].metadata = row.metadata]
      /\ request[w].pc = "reread" /\ UNCHANGED <<row, reference, session, answer, spent, refused>>
  BY DEF RereadMetadata, At
<1>3. request' \in [Workers -> RequestRow]
  BY <1>1, <1>2 DEF RequestRow, Points
<1>4. /\ request'[w].pc = "rewrite" /\ request'[w].attempt = request[w].attempt
      /\ OnlyRequest(w)
  BY <1>1, <1>2 DEF RequestRow, OnlyRequest
<1>5. Sound(w)'
  BY <1>1, <1>2, <1>4 DEF Sound, NamesAttempt, LeftOnRow, KnowsConsent, Naming,
     Completing, Exists, Unused, Carries
<1>6. \A v \in Workers \ {w} : ~At(v, "link")
  BY <1>2 DEF IInv, Quiet, Unaware
<1>7. QED
  BY <1>2, <1>3, <1>4, <1>5, <1>6, OnlyMoves DEF At, Idle, IInv, TypeOK

LEMMA LostStep ==
  ASSUME IInv, NEW w \in Workers, Lost(w)
  PROVE  IInv'
<1>1. Finish(w) /\ ~Idle(w) /\ UNCHANGED <<row, reference, session, answer, spent, refused>>
  BY DEF Lost
<1>2. /\ request' \in [Workers -> RequestRow] /\ OnlyRequest(w) /\ Sound(w)'
      /\ ~At(w, "link")' /\ Idle(w)'
  BY <1>1, Finished
<1>3. request'[w].pc \in Unaware
  BY <1>2 DEF Idle, Unaware
<1>4. QED
  BY <1>1, <1>2, <1>3, OnlyMoves DEF IInv, TypeOK

-----------------------------------------------------------------------------
(* Steps that write the row or learn of a consent                           *)

\* Past its read of the connection, a request keeps the invariant if the row and
\* its own record stay sound.
LEMMA Writes ==
  ASSUME IInv, NEW w \in Workers, request[w].pc \notin Unaware, ~At(w, "link"),
         OnlyRequest(w), ~At(w, "link")', Sound(w)', Onward, TypeOK', RowSound'
  PROVE  IInv'
BY NobodyLinks, StepKeeps

\* Nobody has begun on a connection that was never made.
LEMMA SomebodyBegan ==
  ASSUME IInv, NEW w \in Workers, ~Idle(w)
  PROVE  row.status # "absent"
BY DEF IInv, RowSound

LEMMA ExchangeStep ==
  ASSUME IInv, NEW w \in Workers, NEW granted \in BOOLEAN, NEW carried \in SUBSET Parts,
         Exchange(w, granted, carried)
  PROVE  IInv'
<1> DEFINE a == request[w].attempt
<1>1. /\ request[w].pc = "exchange" /\ Sound(w) /\ a \in Attempts /\ ~Unused(a)
      /\ UNCHANGED <<row, reference, spent, refused>>
      /\ session \in [Attempts -> {"none", "live", "ended"}]
      /\ answer \in [Attempts -> SUBSET Parts]
  BY DEF Exchange, At, IInv, Sound, NamesAttempt, Naming, TypeOK
<1>2. CASE granted
  <2>1. /\ session[a] = "none" /\ session' = [session EXCEPT ![a] = "live"]
        /\ answer' = [answer EXCEPT ![a] = carried]
        /\ Goto(w, "accounts") /\ "accounts" \in Points
    BY <1>2 DEF Exchange, Points
  <2>2. /\ request' \in [Workers -> RequestRow] /\ request'[w].pc = "accounts"
        /\ request'[w].attempt = a /\ OnlyRequest(w)
    BY <2>1, Moved
  <2>3. Onward
    BY <1>1, <2>1 DEF Onward, Unused, Exists
  <2>4. TypeOK'
    BY <1>1, <2>1, <2>2 DEF IInv, TypeOK, Exists, Pending
  <2>5. Sound(w)'
    BY <1>1, <2>1, <2>2 DEF Sound, NamesAttempt, LeftOnRow, KnowsConsent, Naming, Completing, Unused
  <2>6. RowSound'
    <3>1. row.status # "absent" /\ row \in Rows
      BY <1>1, SomebodyBegan DEF Idle, IInv, TypeOK
    <3>2. QED
      BY <1>1, <2>1, <3>1 DEF IInv, RowSound, AnsweredWithout, Rows, Metadata, MaybeAttempt,
         Pending, Unused
  <2>7. QED
    BY <1>1, <2>2, <2>3, <2>4, <2>5, <2>6, Writes DEF At, Unaware
<1>3. CASE ~granted
  <2>1. Finish(w) /\ UNCHANGED <<row, reference, session, answer, spent, refused>>
    BY <1>3 DEF Exchange
  <2>2. QED
    BY <1>1, <2>1, LostStep DEF Lost, Idle
<1>4. QED
  BY <1>2, <1>3

\* The bank's word for a consent's end is kept; a removed connection is not asked
\* about again.
LEMMA AskBankStep ==
  ASSUME IInv, NEW w \in Workers, NEW confirmed \in BOOLEAN, AskBank(w, confirmed)
  PROVE  IInv'
<1> DEFINE held == request[w].seen.consentId
<1>1. /\ request[w].pc \in {"replaced", "disconnected", "deleted"} /\ Sound(w)
      /\ UNCHANGED <<row, reference, answer, spent, refused>>
      /\ session \in [Attempts -> {"none", "live", "ended"}]
      /\ held \in MaybeAttempt
  BY DEF AskBank, IInv, TypeOK, RequestRow, Seen
<1>2. CASE ~confirmed
  <2>1. Finish(w) /\ UNCHANGED <<row, reference, session, answer, spent, refused>>
    BY <1>2 DEF AskBank
  <2>2. QED
    BY <1>1, <2>1, LostStep DEF Lost, Idle
<1>3. CASE confirmed
  <2>1. held \in Attempts /\ session' = [session EXCEPT ![held] = "ended"]
    BY <1>1, <1>3 DEF AskBank, MaybeAttempt
  <2>2. \/ Finish(w)
        \/ At(w, "disconnected") /\ Goto(w, "letgo") /\ "letgo" \in Points
    BY <1>3 DEF AskBank, Points
  <2>3. /\ request' \in [Workers -> RequestRow] /\ OnlyRequest(w)
        /\ \/ request'[w] = IdleRequest
           \/ /\ request'[w].pc = "letgo" /\ request'[w].seen = request[w].seen
              /\ At(w, "disconnected")
    BY <2>2, Finished, Moved
  <2>4. Onward
    BY <1>1, <2>1 DEF Onward, Unused, Exists
  <2>5. TypeOK'
    BY <1>1, <2>1, <2>3 DEF IInv, TypeOK, Exists, Pending
  <2>6. Sound(w)' /\ request'[w].pc # "link"
    <3>1. CASE request'[w] = IdleRequest
      BY <3>1, IdleSound DEF IdleRequest
    <3>2. CASE request'[w] # IdleRequest
      BY <1>1, <2>1, <2>3, <3>2, ConsentAssumption
         DEF Sound, NamesAttempt, LeftOnRow, KnowsConsent, Naming, Completing
    <3>3. QED
      BY <3>1, <3>2
  <2>7. RowSound'
    <3>1. row.status # "absent" /\ row \in Rows
      BY <1>1, SomebodyBegan DEF Idle, IInv, TypeOK
    <3>2. QED
      BY <1>1, <2>1, <3>1 DEF IInv, RowSound, AnsweredWithout, Rows, Metadata, MaybeAttempt,
         Pending, Unused
  <2>8. CASE request[w].pc # "deleted"
    BY <1>1, <2>3, <2>4, <2>5, <2>6, <2>7, <2>8, Writes DEF At, Unaware
  <2>9. CASE request[w].pc = "deleted"
    <3>1. Quiet(w)'
      BY <2>6 DEF Quiet, At
    <3>2. ASSUME NEW v \in Workers \ {w}  PROVE Quiet(v)'
      <4>1. Quiet(v) /\ request'[v] = request[v] /\ request'[w] = IdleRequest
        BY <2>3, <2>9, <3>2 DEF IInv, OnlyRequest, At
      <4>2. QED
        BY <1>1, <2>3, <4>1 DEF Quiet, At, Pending, OnlyRequest, Unaware, IdleRequest
    <3>3. QED
      BY <2>3, <2>4, <2>5, <2>6, <2>7, <3>1, <3>2, StepKeeps
  <2>10. QED
    BY <2>8, <2>9
<1>4. QED
  BY <1>2, <1>3

LEMMA StoreLinkStep ==
  ASSUME IInv, NEW w \in Workers, StoreLink(w)
  PROVE  IInv'
<1> DEFINE a == request[w].attempt
<1>1. /\ request[w].pc = "link" /\ Sound(w) /\ Quiet(w) /\ a \in Attempts /\ ~Unused(a)
      /\ UNCHANGED <<session, answer, spent, refused>> /\ Finish(w)
      /\ row \in Rows
      /\ reference \in [Attempts -> {"unused", "minted", "sent", "lapsed"}]
  BY DEF StoreLink, At, IInv, Sound, NamesAttempt, Naming, TypeOK
<1>2. /\ row.status \in {"pending_consent", "removed"} /\ row.consentId = None
      /\ \A v \in Workers \ {w} : request[v].pc \in Unaware
  BY <1>1 DEF Quiet, At
<1>3. /\ request' \in [Workers -> RequestRow] /\ OnlyRequest(w) /\ Sound(w)' /\ Quiet(w)'
      /\ Idle(w)'
  BY <1>1, Finished
<1>4. /\ row' = row \/ row' = [row EXCEPT !.consentId = None]
      /\ reference' = reference \/
         reference' = [reference EXCEPT ![a] = IF @ = "minted" THEN "sent" ELSE @]
  BY DEF StoreLink, Send
<1>5. /\ row'.status = row.status /\ row'.consentId = None /\ row'.metadata = row.metadata
      /\ row'.isTest = row.isTest /\ row'.accounts = row.accounts
      /\ row'.movements = row.movements /\ row' \in Rows
  BY <1>1, <1>2, <1>4 DEF Rows, MaybeAttempt
<1>6. /\ reference' \in [Attempts -> {"unused", "minted", "sent", "lapsed"}]
      /\ \A b \in Attempts : ~Unused(b) => ~Unused(b)'
  BY <1>1, <1>4 DEF Unused
<1>7. TypeOK'
  BY <1>1, <1>3, <1>5, <1>6 DEF IInv, TypeOK, Exists, Pending
<1>8. Onward
  BY <1>1, <1>5, <1>6 DEF Onward, Exists
<1>9. RowSound'
  BY <1>1, <1>2, <1>5, <1>6 DEF IInv, RowSound, AnsweredWithout, Rows, Metadata,
     MaybeAttempt, Pending, TypeOK
<1>10. \A v \in Workers \ {w} : Quiet(v)'
  BY <1>2, <1>3 DEF Quiet, At, Unaware, OnlyRequest
<1>11. QED
  BY <1>3, <1>7, <1>8, <1>9, <1>10, StepKeeps

LEMMA ParkStep ==
  ASSUME IInv, NEW w \in Workers, Park(w)
  PROVE  IInv'
<1> DEFINE a == request[w].attempt
<1>1. /\ request[w].pc = "park" /\ Sound(w) /\ a \in Attempts /\ ~Unused(a)
      /\ UNCHANGED <<session, answer, spent, refused>> /\ Finish(w)
      /\ row \in Rows
      /\ reference \in [Attempts -> {"unused", "minted", "sent", "lapsed"}]
  BY DEF Park, At, IInv, Sound, NamesAttempt, Naming, TypeOK
<1>2. /\ request' \in [Workers -> RequestRow] /\ OnlyRequest(w) /\ Sound(w)'
      /\ ~At(w, "link")'
  BY <1>1, Finished
<1>3. CASE UNCHANGED <<row, reference>>
  BY <1>1, <1>3, LostStep DEF Lost, Idle
<1>4. CASE ~UNCHANGED <<row, reference>>
  <2>1. /\ Exists /\ row' = [row EXCEPT !.metadata.renewal = a]
        /\ reference' = [reference EXCEPT ![a] = IF @ = "minted" THEN "sent" ELSE @]
    BY <1>4 DEF Park, Send
  <2>2. /\ row' \in Rows /\ row'.status = row.status /\ row'.consentId = row.consentId
        /\ row'.metadata.reference = row.metadata.reference
        /\ row'.metadata.accountRefs = row.metadata.accountRefs
        /\ row'.isTest = row.isTest /\ row'.accounts = row.accounts
        /\ row'.movements = row.movements
    BY <1>1, <2>1 DEF Rows, Metadata, MaybeAttempt
  <2>3. /\ reference' \in [Attempts -> {"unused", "minted", "sent", "lapsed"}]
        /\ \A b \in Attempts : ~Unused(b) => ~Unused(b)'
    BY <1>1, <2>1 DEF Unused
  <2>4. TypeOK'
    BY <1>1, <1>2, <2>1, <2>2, <2>3 DEF IInv, TypeOK, Exists, Pending
  <2>5. Onward
    BY <1>1, <2>2, <2>3 DEF Onward, Exists
  <2>6. RowSound'
    <3>1. row.status # "absent"
      BY <2>1 DEF Exists
    <3>2. QED
      BY <1>1, <2>2, <2>3, <3>1
         DEF IInv, RowSound, AnsweredWithout, Rows, Metadata, MaybeAttempt, Pending, TypeOK
  <2>7. QED
    BY <1>1, <1>2, <2>4, <2>5, <2>6, Writes DEF At, Unaware
<1>5. QED
  BY <1>3, <1>4

\* The claim takes the reference off the row as it adds it to the spent ones.
LEMMA ClaimStep ==
  ASSUME IInv, NEW w \in Workers, Claim(w)
  PROVE  IInv'
<1> DEFINE a == request[w].attempt
           seen == request[w].seen.metadata
<1>1. /\ request[w].pc = "claim" /\ Sound(w) /\ a \in Attempts /\ ~Unused(a)
      /\ UNCHANGED <<reference, session, answer, refused>>
      /\ row \in Rows /\ seen \in Metadata /\ spent \subseteq Attempts
  BY DEF Claim, At, IInv, Sound, NamesAttempt, Naming, TypeOK, RequestRow, Seen
<1>2. CASE ~Unclaimed(w)
  <2>1. Finish(w) /\ UNCHANGED <<row, reference, session, answer, spent, refused>>
    BY <1>2 DEF Claim
  <2>2. QED
    BY <1>1, <2>1, LostStep DEF Lost, Idle
<1>3. CASE Unclaimed(w)
  <2>1. /\ Exists /\ row.metadata = seen /\ spent' = spent \cup {a}
        /\ row' = [row EXCEPT !.metadata =
                     [seen EXCEPT !.reference = None, !.renewal = None]]
        /\ request' = [request EXCEPT ![w].pc = "exchange",
                                      ![w].seen.metadata = NoMetadata]
    BY <1>3 DEF Claim, Unclaimed
  <2>2. /\ request' \in [Workers -> RequestRow] /\ request'[w].pc = "exchange"
        /\ request'[w].attempt = a /\ OnlyRequest(w)
    <3>1. request \in [Workers -> RequestRow] /\ NoMetadata \in Metadata
      BY IdleType DEF IInv, TypeOK, RequestRow, IdleRequest
    <3>2. [request[w] EXCEPT !.pc = "exchange", !.seen.metadata = NoMetadata] \in RequestRow
      BY <3>1 DEF RequestRow, Seen, Points
    <3>3. request' = [request EXCEPT ![w] =
              [request[w] EXCEPT !.pc = "exchange", !.seen.metadata = NoMetadata]]
      BY <2>1, <3>1
    <3>4. QED
      BY <3>1, <3>2, <3>3 DEF OnlyRequest, RequestRow
  <2>3. /\ row' \in Rows /\ row'.status = row.status /\ row'.consentId = row.consentId
        /\ row'.metadata.reference = None
        /\ row'.metadata.accountRefs = row.metadata.accountRefs
        /\ row'.isTest = row.isTest /\ row'.accounts = row.accounts
        /\ row'.movements = row.movements
    BY <1>1, <2>1 DEF Rows, Metadata, MaybeAttempt
  <2>4. TypeOK'
    BY <1>1, <2>1, <2>2, <2>3 DEF IInv, TypeOK, Exists, Pending
  <2>5. Onward
    BY <1>1, <2>3 DEF Onward, Exists, Unused
  <2>6. Sound(w)'
    BY <1>1, <2>2 DEF Sound, NamesAttempt, LeftOnRow, KnowsConsent, Naming, Completing, Unused
  <2>7. RowSound'
    <3>1. row.status # "absent"
      BY <2>1 DEF Exists
    <3>2. QED
      BY <1>1, <2>1, <2>3, <3>1
         DEF IInv, RowSound, AnsweredWithout, Rows, Metadata, MaybeAttempt, Pending, TypeOK, Unused
  <2>8. QED
    BY <1>1, <2>2, <2>4, <2>5, <2>6, <2>7, Writes DEF At, Unaware
<1>4. QED
  BY <1>2, <1>3

\* A completion past the exchange works for a consent the bank granted.
LEMMA WorksForGranted ==
  ASSUME IInv, NEW w \in Workers, request[w].pc \in Completing
  PROVE  /\ request[w].attempt \in Attempts /\ ~Unused(request[w].attempt)
         /\ session[request[w].attempt] # "none"
         /\ request[w].pc \notin Unaware /\ ~At(w, "link") /\ ~Idle(w)
BY DEF IInv, Sound, NamesAttempt, Naming, Completing, At, Unaware, Idle

LEMMA PersistAccountsStep ==
  ASSUME IInv, NEW w \in Workers, PersistAccounts(w)
  PROVE  IInv'
<1>1. request[w].pc = "accounts" /\ UNCHANGED <<reference, session, answer, spent, refused>>
      /\ row \in Rows
  BY DEF PersistAccounts, At, IInv, TypeOK
<1>2. CASE ~Exists /\ Carries(w, "accounts")
  <2>1. Finish(w) /\ UNCHANGED <<row, reference, session, answer, spent, refused>>
    BY <1>2 DEF PersistAccounts
  <2>2. QED
    BY <1>1, <2>1, LostStep DEF Lost, Idle
<1>3. CASE Exists \/ ~Carries(w, "accounts")
  <2>1. /\ row' = [row EXCEPT !.accounts = @ \/ Carries(w, "accounts")]
        /\ Goto(w, "reread") /\ "reread" \in Points
    BY <1>3 DEF PersistAccounts, Points
  <2>2. /\ request' \in [Workers -> RequestRow] /\ request'[w].pc = "reread"
        /\ request'[w].attempt = request[w].attempt /\ OnlyRequest(w)
    BY <2>1, Moved
  <2>3. /\ row' \in Rows /\ row'.status = row.status /\ row'.consentId = row.consentId
        /\ row'.metadata = row.metadata /\ row'.isTest = row.isTest
        /\ row'.movements = row.movements
        /\ row.accounts => row'.accounts
        /\ Carries(w, "accounts") => row'.accounts
        /\ ~Exists => ~row'.accounts
    <3>1. PICK c \in BOOLEAN : c = (row.accounts \/ Carries(w, "accounts"))
      OBVIOUS
    <3>2. row' = [row EXCEPT !.accounts = c]
      BY <1>1, <2>1, <3>1 DEF Rows
    <3>3. ~Exists => ~row.accounts
      BY DEF IInv, TypeOK
    <3>4. QED
      BY <1>1, <1>3, <3>1, <3>2, <3>3 DEF Rows
  <2>4. TypeOK'
    BY <1>1, <1>3, <2>2, <2>3 DEF IInv, TypeOK, Exists, Pending
  <2>5. Onward
    BY <1>1, <2>3 DEF Onward, Exists, Unused
  <2>6. Sound(w)'
    BY <1>1, <2>2, <2>3, WorksForGranted
       DEF Sound, NamesAttempt, LeftOnRow, KnowsConsent, Naming, Completing, Unused, Carries
  <2>7. RowSound'
    <3>1. row.status # "absent"
      BY <1>1, SomebodyBegan DEF Idle
    <3>2. QED
      BY <1>1, <2>3, <3>1
         DEF IInv, RowSound, AnsweredWithout, Rows, Metadata, MaybeAttempt, Pending, TypeOK, Unused
  <2>8. QED
    BY <1>1, <2>2, <2>4, <2>5, <2>6, <2>7, Writes, WorksForGranted DEF At, Completing
<1>4. QED
  BY <1>2, <1>3

LEMMA RewriteMetadataStep ==
  ASSUME IInv, NEW w \in Workers, RewriteMetadata(w)
  PROVE  IInv'
<1> DEFINE a == request[w].attempt
           refs == IF Carries(w, "accounts") THEN a ELSE None
           kept == request[w].metadata
<1>1. /\ request[w].pc = "rewrite" /\ UNCHANGED <<reference, session, answer, spent, refused>>
      /\ row \in Rows /\ kept \in Metadata /\ Sound(w)
  BY DEF RewriteMetadata, At, IInv, TypeOK, RequestRow
<1>2. a \in Attempts /\ session[a] # "none" /\ ~Unused(a)
  BY <1>1, WorksForGranted DEF Completing
<1>3. CASE ~Exists
  <2>1. Finish(w) /\ UNCHANGED <<row, reference, session, answer, spent, refused>>
    BY <1>3 DEF RewriteMetadata
  <2>2. QED
    BY <1>1, <2>1, LostStep DEF Lost, Idle
<1>4. CASE Exists
  <2>1. /\ row' = [row EXCEPT !.metadata =
                     [kept EXCEPT !.reference = None, !.accountRefs = refs]]
        /\ request' = [request EXCEPT ![w].pc = "activate", ![w].metadata = NoMetadata]
    BY <1>4 DEF RewriteMetadata
  <2>2. /\ request' \in [Workers -> RequestRow] /\ request'[w].pc = "activate"
        /\ request'[w].attempt = a /\ OnlyRequest(w)
    BY <2>1, IdleType DEF IInv, TypeOK, RequestRow, Points, IdleRequest, OnlyRequest
  <2>3. /\ row' \in Rows /\ row'.status = row.status /\ row'.consentId = row.consentId
        /\ row'.metadata.reference = None /\ row'.metadata.accountRefs = refs
        /\ row'.isTest = row.isTest /\ row'.accounts = row.accounts
        /\ row'.movements = row.movements
    BY <1>1, <1>2, <2>1 DEF Rows, Metadata, MaybeAttempt
  <2>4. /\ refs # None => refs = a /\ row.accounts
        /\ refs = None => AnsweredWithout("accounts") /\ AnsweredWithout("accounts")'
        /\ ~Carries(w, "accounts") => refs = None
    BY <1>1, <1>2, <1>4, ConsentAssumption DEF AnsweredWithout, Carries, Sound, LeftOnRow
  <2>5. TypeOK'
    BY <1>1, <1>4, <2>2, <2>3 DEF IInv, TypeOK, Exists, Pending
  <2>6. Onward
    BY <1>1, <2>3, <2>4 DEF Onward, Exists, Unused
  <2>7. Sound(w)'
    BY <1>1, <1>2, <1>4, <2>2, <2>3, <2>4
       DEF Sound, NamesAttempt, LeftOnRow, KnowsConsent, Naming, Completing, Unused,
           Carries
  <2>8. RowSound'
    <3>1. row.status # "absent"
      BY <1>4 DEF Exists
    <3>2. QED
      BY <1>1, <1>2, <2>3, <2>4, <3>1
         DEF IInv, RowSound, AnsweredWithout, Rows, Metadata, MaybeAttempt, Pending, TypeOK, Unused
  <2>9. QED
    BY <1>1, <2>2, <2>5, <2>6, <2>7, <2>8, Writes, WorksForGranted DEF At, Completing
<1>5. QED
  BY <1>3, <1>4

\* Whatever happened to the row since the claim, what it lacks when it is made
\* active the bank left out.
LEMMA ActivateStep ==
  ASSUME IInv, NEW w \in Workers, Activate(w)
  PROVE  IInv'
<1> DEFINE a == request[w].attempt
<1>1. /\ request[w].pc = "activate" /\ UNCHANGED <<reference, session, answer, spent, refused>>
      /\ row \in Rows /\ Sound(w)
  BY DEF Activate, At, IInv, TypeOK
<1>2. a \in Attempts /\ session[a] # "none" /\ ~Unused(a) /\ a # None
  BY <1>1, WorksForGranted, ConsentAssumption DEF Completing
<1>3. CASE ~Exists
  <2>1. Finish(w) /\ UNCHANGED <<row, reference, session, answer, spent, refused>>
    BY <1>3 DEF Activate
  <2>2. QED
    BY <1>1, <2>1, LostStep DEF Lost, Idle
<1>4. CASE Exists
  <2>1. row' = [row EXCEPT !.status = "active", !.consentId = MintedConsent(w)]
    BY <1>4 DEF Activate
  <2>2. Finish(w) \/ (GotoWithId(w, "replaced") /\ "replaced" \in Points)
    BY DEF Activate, Points
  <2>3. /\ request' \in [Workers -> RequestRow] /\ OnlyRequest(w)
        /\ \/ request'[w] = IdleRequest
           \/ request'[w].pc = "replaced"
    BY <2>2, Finished, MovedWithId
  <2>4. /\ row' \in Rows /\ row'.status = "active" /\ row'.consentId = MintedConsent(w)
        /\ row'.metadata = row.metadata
        /\ row'.isTest = row.isTest /\ row'.accounts = row.accounts
        /\ row'.movements = row.movements
    BY <1>1, <1>2, <2>1 DEF MintedConsent, Rows, MaybeAttempt, Statuses
  <2>5. /\ row.metadata.accountRefs = None => AnsweredWithout("accounts")
        /\ MintedConsent(w) \in {a, None}
        /\ MintedConsent(w) = None => AnsweredWithout("id")
    BY <1>1, <1>2, <1>4 DEF Sound, LeftOnRow, MintedConsent, Carries, AnsweredWithout
  <2>6. TypeOK'
    BY <1>1, <1>4, <2>3, <2>4 DEF IInv, TypeOK, Exists, Pending
  <2>7. Onward
    BY <1>1, <1>4, <2>4 DEF Onward, Exists, Unused
  <2>8. Sound(w)' /\ request'[w].pc # "link"
    <3>1. CASE request'[w] = IdleRequest
      BY <3>1, IdleSound DEF IdleRequest
    <3>2. CASE request'[w].pc = "replaced"
      BY <1>1, <1>2, <2>3, <3>2
         DEF Sound, NamesAttempt, LeftOnRow, KnowsConsent, Naming, Completing,
             Unused, IdleRequest
    <3>3. QED
      BY <2>3, <3>1, <3>2
  <2>9. RowSound'
    <3>1. row.status # "absent"
      BY <1>4 DEF Exists
    <3>2. QED
      BY <1>1, <1>2, <2>4, <2>5, <3>1
         DEF IInv, RowSound, AnsweredWithout, Rows, Metadata, MaybeAttempt, Pending, TypeOK, Unused
  <2>10. QED
    BY <1>1, <2>3, <2>6, <2>7, <2>8, <2>9, Writes, WorksForGranted DEF At, Completing
<1>5. QED
  BY <1>3, <1>4

LEMMA StopSyncingStep ==
  ASSUME IInv, NEW w \in Workers, StopSyncing(w)
  PROVE  IInv'
<1> DEFINE seen == request[w].seen
<1>1. /\ request[w].pc = "stop" /\ UNCHANGED <<reference, session, answer, spent, refused>>
      /\ row \in Rows /\ seen \in Seen /\ Sound(w)
  BY DEF StopSyncing, At, IInv, TypeOK, RequestRow
<1>2. CASE row' = row
  <2>1. CASE Finish(w)
    BY <1>1, <1>2, <2>1, LostStep DEF Lost, Idle
  <2>2. CASE GotoWithId(w, "disconnected")
    <3>1. /\ request' \in [Workers -> RequestRow] /\ request'[w].pc = "disconnected"
          /\ OnlyRequest(w)
      BY <2>2, MovedWithId DEF Points
    <3>2. Sound(w)'
      BY <3>1 DEF Sound, NamesAttempt, LeftOnRow, KnowsConsent, Naming, Completing
    <3>3. \A v \in Workers \ {w} : ~At(v, "link")
      BY <1>1 DEF IInv, Quiet, Unaware
    <3>4. QED
      BY <1>1, <1>2, <3>1, <3>2, <3>3, OnlyMoves DEF At, Idle, IInv, TypeOK
  <2>3. QED
    BY <2>1, <2>2 DEF StopSyncing
<1>3. CASE row' # row
  <2>1. /\ row.status = seen.status /\ row.metadata = seen.metadata
        /\ row' = [row EXCEPT !.status = "revoked",
                              !.metadata = [seen.metadata EXCEPT !.renewal = None]]
        /\ GotoWithId(w, "disconnected") /\ "disconnected" \in Points
    BY <1>3 DEF StopSyncing, Points
  <2>2. /\ request' \in [Workers -> RequestRow] /\ request'[w].pc = "disconnected"
        /\ OnlyRequest(w)
    BY <2>1, MovedWithId
  <2>3. /\ row' \in Rows /\ row'.status = "revoked" /\ row'.consentId = row.consentId
        /\ row'.metadata.accountRefs = row.metadata.accountRefs
        /\ row'.isTest = row.isTest /\ row'.accounts = row.accounts
        /\ row'.movements = row.movements
    BY <1>1, <2>1 DEF Rows, Seen, Metadata, MaybeAttempt, Statuses
  <2>4. seen.status \in {"active", "expired", "revoked"}
    BY <1>1 DEF Sound, KnowsConsent
  <2>5. TypeOK'
    BY <1>1, <2>2, <2>3 DEF IInv, TypeOK, Exists, Pending
  <2>6. Onward
    BY <1>1, <2>1, <2>3, <2>4 DEF Onward, Exists, Unused
  <2>7. Sound(w)'
    BY <2>2 DEF Sound, NamesAttempt, LeftOnRow, KnowsConsent, Naming, Completing
  <2>8. RowSound'
    BY <1>1, <2>1, <2>3, <2>4
       DEF IInv, RowSound, AnsweredWithout, Rows, Metadata, MaybeAttempt, Pending, TypeOK, Unused
  <2>9. QED
    BY <1>1, <2>2, <2>5, <2>6, <2>7, <2>8, Writes DEF At, Unaware
<1>4. QED
  BY <1>2, <1>3

LEMMA LetConsentGoStep ==
  ASSUME IInv, NEW w \in Workers, LetConsentGo(w)
  PROVE  IInv'
<1>1. /\ request[w].pc = "letgo" /\ UNCHANGED <<reference, session, answer, spent, refused>>
      /\ row \in Rows /\ Finish(w)
  BY DEF LetConsentGo, At, IInv, TypeOK
<1>2. CASE row' = row
  BY <1>1, <1>2, LostStep DEF Lost, Idle
<1>3. CASE row' # row
  <2>1. row.status = "revoked" /\ row' = [row EXCEPT !.consentId = None]
    BY <1>3 DEF LetConsentGo, StillHeld
  <2>2. /\ request' \in [Workers -> RequestRow] /\ OnlyRequest(w) /\ Sound(w)'
        /\ ~At(w, "link")'
    BY <1>1, Finished
  <2>3. /\ row' \in Rows /\ row'.status = "revoked" /\ row'.consentId = None
        /\ row'.metadata = row.metadata
        /\ row'.isTest = row.isTest /\ row'.accounts = row.accounts
        /\ row'.movements = row.movements
    BY <1>1, <2>1 DEF Rows, MaybeAttempt
  <2>4. TypeOK'
    BY <1>1, <2>2, <2>3 DEF IInv, TypeOK, Exists, Pending
  <2>5. Onward
    BY <1>1, <2>1, <2>3 DEF Onward, Exists, Unused
  <2>6. RowSound'
    BY <1>1, <2>1, <2>3
       DEF IInv, RowSound, AnsweredWithout, Rows, Metadata, MaybeAttempt, Pending, TypeOK, Unused
  <2>7. QED
    BY <1>1, <2>2, <2>4, <2>5, <2>6, Writes DEF At, Unaware
<1>4. QED
  BY <1>2, <1>3

LEMMA MarkExpiredStep ==
  ASSUME IInv, NEW w \in Workers, MarkExpired(w)
  PROVE  IInv'
<1>1. /\ request[w].pc = "expire" /\ UNCHANGED <<reference, session, answer, spent, refused>>
      /\ row \in Rows /\ Finish(w)
  BY DEF MarkExpired, At, IInv, TypeOK
<1>2. CASE row' = row
  BY <1>1, <1>2, LostStep DEF Lost, Idle
<1>3. CASE row' # row
  <2>1. row.status = "active" /\ row' = [row EXCEPT !.status = "expired"]
    BY <1>3 DEF MarkExpired, StillAsSynced
  <2>2. /\ request' \in [Workers -> RequestRow] /\ OnlyRequest(w) /\ Sound(w)'
        /\ ~At(w, "link")'
    BY <1>1, Finished
  <2>3. /\ row' \in Rows /\ row'.status = "expired" /\ row'.consentId = row.consentId
        /\ row'.metadata = row.metadata
        /\ row'.isTest = row.isTest /\ row'.accounts = row.accounts
        /\ row'.movements = row.movements
    BY <1>1, <2>1 DEF Rows, Statuses
  <2>4. TypeOK'
    BY <1>1, <2>2, <2>3 DEF IInv, TypeOK, Exists, Pending
  <2>5. Onward
    BY <1>1, <2>1, <2>3 DEF Onward, Exists, Unused
  <2>6. RowSound'
    BY <1>1, <2>1, <2>3
       DEF IInv, RowSound, AnsweredWithout, Rows, Metadata, MaybeAttempt, Pending, TypeOK, Unused
  <2>7. QED
    BY <1>1, <2>2, <2>4, <2>5, <2>6, Writes DEF At, Unaware
<1>4. QED
  BY <1>2, <1>3

\* Movements only come to a connection that has accounts.
LEMMA ImportRowsStep ==
  ASSUME IInv, NEW w \in Workers, NEW brings \in BOOLEAN, NEW more \in BOOLEAN,
         ImportRows(w, brings, more)
  PROVE  IInv'
<1>1. /\ request[w].pc = "import" /\ UNCHANGED <<reference, session, answer, spent, refused>>
      /\ row \in Rows /\ Sound(w)
  BY DEF ImportRows, At, IInv, TypeOK
<1>2. CASE ~Exists
  <2>1. Finish(w) /\ row' = row
    BY <1>2 DEF ImportRows
  <2>2. QED
    BY <1>1, <2>1, LostStep DEF Lost, Idle
<1>3. CASE Exists
  <2>1. /\ row' = [row EXCEPT !.movements = @ \/ brings]
        /\ Finish(w) \/ (Goto(w, "fetch") /\ "fetch" \in Points)
    BY <1>3 DEF ImportRows, Points
  <2>2. /\ request' \in [Workers -> RequestRow] /\ OnlyRequest(w)
        /\ \/ request'[w] = IdleRequest
           \/ request'[w].pc = "fetch"
    BY <2>1, Finished, Moved
  <2>3. row.accounts
    BY <1>1, <1>3 DEF Sound, LeftOnRow
  <2>4. /\ row' \in Rows /\ row'.status = row.status /\ row'.consentId = row.consentId
        /\ row'.metadata = row.metadata
        /\ row'.isTest = row.isTest /\ row'.accounts = row.accounts
    <3>1. (row.movements \/ brings) \in BOOLEAN
      BY <1>1 DEF Rows
    <3>2. QED
      BY <1>1, <2>1, <3>1 DEF Rows
  <2>5. TypeOK'
    BY <1>1, <1>3, <2>2, <2>4 DEF IInv, TypeOK, Exists, Pending
  <2>6. Onward
    BY <1>1, <1>3, <2>4 DEF Onward, Exists, Unused
  <2>7. Sound(w)' /\ request'[w].pc # "link"
    <3>1. CASE request'[w] = IdleRequest
      BY <3>1, IdleSound DEF IdleRequest
    <3>2. CASE request'[w].pc = "fetch"
      BY <1>1, <2>2, <2>3, <2>4, <3>2
         DEF Sound, NamesAttempt, LeftOnRow, KnowsConsent, Naming, Completing,
             IdleRequest
    <3>3. QED
      BY <2>2, <3>1, <3>2
  <2>8. RowSound'
    BY <1>1, <1>3, <2>3, <2>4
       DEF IInv, RowSound, AnsweredWithout, Rows, Metadata, MaybeAttempt, Pending, TypeOK,
           Unused, Exists
  <2>9. QED
    BY <1>1, <2>2, <2>5, <2>6, <2>7, <2>8, Writes DEF At, Unaware
<1>4. QED
  BY <1>2, <1>3

-----------------------------------------------------------------------------
(* The beginning and the end of the connection, and its surroundings        *)

\* Nothing is left of a removed row for anything to be wrong about.
LEMMA Removed ==
  ASSUME IInv, Exists, RemoveRow, UNCHANGED <<reference, session, answer, spent, refused>>,
         request' \in [Workers -> RequestRow]
  PROVE  /\ TypeOK' /\ Onward /\ RowSound'
         /\ row'.status = "removed" /\ row'.consentId = None
<1>1. /\ row' = [NoRow EXCEPT !.status = "removed"]
      /\ row'.status = "removed" /\ row'.consentId = None /\ row'.metadata = NoMetadata
      /\ row'.accounts = FALSE /\ row'.movements = FALSE
  BY DEF RemoveRow, NoRow
<1>2. row' \in Rows
  BY <1>1 DEF NoRow, NoMetadata, Rows, Metadata, MaybeAttempt, Statuses
<1>3. TypeOK'
  BY <1>1, <1>2 DEF IInv, TypeOK
<1>4. Onward
  BY <1>1 DEF Onward, Exists, Unused
<1>5. RowSound'
  BY <1>1 DEF IInv, RowSound, NoMetadata, Pending, Unused
<1>6. QED
  BY <1>1, <1>3, <1>4, <1>5

LEMMA RemovalSteps ==
  ASSUME IInv, NEW w \in Workers, Remove(w) \/ Discard(w)
  PROVE  IInv'
<1>1. /\ request[w].pc \in {"remove", "discard"}
      /\ UNCHANGED <<reference, session, answer, spent, refused>>
  BY DEF Remove, Discard, At
<1>2. CASE Finish(w) /\ row' = row
  BY <1>1, <1>2, LostStep DEF Lost, Idle
<1>3. CASE ~(Finish(w) /\ row' = row)
  <2>1. Exists /\ RemoveRow /\ GotoWithId(w, "deleted") /\ "deleted" \in Points
    BY <1>3 DEF Remove, Discard, Removable, Points
  <2>2. /\ request' \in [Workers -> RequestRow] /\ request'[w].pc = "deleted"
        /\ OnlyRequest(w)
    BY <2>1, MovedWithId
  <2>3. /\ TypeOK' /\ Onward /\ RowSound'
        /\ row'.status = "removed" /\ row'.consentId = None
    BY <1>1, <2>1, <2>2, Removed
  <2>4. Sound(w)' /\ Quiet(w)'
    BY <2>2 DEF Sound, NamesAttempt, LeftOnRow, KnowsConsent, Naming, Completing,
                Quiet, At
  <2>5. ASSUME NEW v \in Workers \ {w}  PROVE Quiet(v)'
    <3>1. Quiet(v) /\ request'[v] = request[v]
      BY <2>2, <2>5 DEF IInv, OnlyRequest
    <3>2. QED
      BY <1>1, <2>2, <2>3, <3>1 DEF Quiet, At, Pending, OnlyRequest, Unaware
  <2>6. QED
    BY <2>2, <2>3, <2>4, <2>5, StepKeeps
<1>4. QED
  BY <1>2, <1>3

\* A step of the surroundings moves no request.
LEMMA AroundKeeps ==
  ASSUME IInv, Onward, TypeOK', RowSound', UNCHANGED request,
         \A w \in Workers : Quiet(w)'
  PROVE  IInv'
BY OthersStaySound DEF IInv

LEMMA SweepStep ==
  ASSUME IInv, SweepAbandoned
  PROVE  IInv'
<1>1. /\ Exists /\ RemoveRow /\ UNCHANGED <<reference, session, answer, spent, refused, request>>
  BY DEF SweepAbandoned, Pending, Exists
<1>2. /\ TypeOK' /\ Onward /\ RowSound' /\ row'.status = "removed" /\ row'.consentId = None
  BY <1>1, Removed DEF IInv, TypeOK
<1>3. \A w \in Workers : Quiet(w)'
  BY <1>1, <1>2 DEF IInv, Quiet, At, Pending
<1>4. QED
  BY <1>1, <1>2, <1>3, AroundKeeps

LEMMA BankEndsStep ==
  ASSUME IInv, NEW a \in Attempts, BankEnds(a)
  PROVE  IInv'
<1>1. /\ session' = [session EXCEPT ![a] = "ended"]
      /\ UNCHANGED <<row, reference, answer, spent, refused, request>>
      /\ session \in [Attempts -> {"none", "live", "ended"}] /\ row \in Rows
  BY DEF BankEnds, IInv, TypeOK
<1>2. TypeOK'
  BY <1>1 DEF IInv, TypeOK, Exists, Pending
<1>3. Onward
  BY <1>1 DEF Onward, Exists, Unused
<1>4. RowSound'
  BY <1>1 DEF IInv, RowSound, AnsweredWithout, Rows, Metadata, MaybeAttempt, Pending, Unused, Idle
<1>5. \A w \in Workers : Quiet(w)'
  BY <1>1 DEF IInv, Quiet, At, Pending
<1>6. QED
  BY <1>1, <1>2, <1>3, <1>4, <1>5, AroundKeeps

LEMMA DayPassesStep ==
  ASSUME IInv, DayPasses
  PROVE  IInv'
<1>1. /\ reference' = [a \in Attempts |-> IF Fresh(a) THEN "lapsed" ELSE reference[a]]
      /\ UNCHANGED <<row, session, answer, spent, refused, request>>
      /\ reference \in [Attempts -> {"unused", "minted", "sent", "lapsed"}]
      /\ row \in Rows
  BY DEF DayPasses, IInv, TypeOK
<1>2. /\ reference' \in [Attempts -> {"unused", "minted", "sent", "lapsed"}]
      /\ \A a \in Attempts : ~Unused(a) => ~Unused(a)'
      /\ \A a \in Attempts : reference'[a] # "sent"
  BY <1>1 DEF Fresh, Unused
<1>3. TypeOK'
  BY <1>1, <1>2 DEF IInv, TypeOK, Exists, Pending
<1>4. Onward
  BY <1>1, <1>2 DEF Onward, Exists
<1>5. RowSound'
  <2>1. row.status = "absent" => \A w \in Workers : Idle(w)'
    BY <1>1 DEF IInv, RowSound, Idle
  <2>2. QED
    BY <1>1, <1>2, <2>1, RowStays
<1>6. ASSUME NEW w \in Workers  PROVE Quiet(w)'
  <2>1. Quiet(w) /\ Sound(w)
    BY <1>6 DEF IInv
  <2>2. At(w, "link") => request[w].attempt \in Attempts
    BY <2>1 DEF Sound, NamesAttempt, Naming, At
  <2>3. QED
    BY <1>1, <1>2, <2>1, <2>2 DEF Quiet, At, Pending
<1>7. QED
  BY <1>1, <1>3, <1>4, <1>5, <1>6, AroundKeeps

\* The connection is made when nobody works on it.
LEMMA CreatePendingStep ==
  ASSUME IInv, NEW w \in Workers, NEW a \in Attempts, NEW isTest \in BOOLEAN,
         CreatePending(w, a, isTest)
  PROVE  IInv'
<1>1. /\ Begin(w, "link", a, NothingRead) /\ "link" \in Points /\ a \in MaybeAttempt
      /\ NothingRead \in Seen
  BY ReadTypes DEF CreatePending, Points, MaybeAttempt
<1>2. /\ request' \in [Workers -> RequestRow] /\ request'[w].pc = "link"
      /\ request'[w].attempt = a /\ OnlyRequest(w)
  BY <1>1, Began
<1>3. /\ row.status = "absent" /\ Unused(a) /\ a # None
      /\ reference' = [reference EXCEPT ![a] = "minted"]
      /\ UNCHANGED <<session, answer, spent, refused>>
      /\ reference \in [Attempts -> {"unused", "minted", "sent", "lapsed"}]
  BY ConsentAssumption DEF CreatePending, IInv, TypeOK
<1>4. row' = [status |-> "pending_consent", consentId |-> None,
              metadata |-> [reference |-> a, renewal |-> None, accountRefs |-> None],
              made |-> a, isTest |-> isTest, accounts |-> FALSE, movements |-> FALSE]
  BY DEF CreatePending, NoRow, NoMetadata
<1>5. /\ row' \in Rows /\ row'.status = "pending_consent" /\ row'.consentId = None
      /\ row'.metadata.reference = a /\ row'.metadata.accountRefs = None
      /\ row'.movements = FALSE
  BY <1>4 DEF Rows, Metadata, MaybeAttempt, Statuses
<1>6. \A v \in Workers \ {w} : request'[v] = request[v] /\ request'[v].pc = "idle"
  BY <1>2, <1>3 DEF IInv, RowSound, Idle, OnlyRequest
<1>7. TypeOK'
  BY <1>2, <1>3, <1>5 DEF IInv, TypeOK, Exists
<1>8. Sound(w)'
  BY <1>2, <1>3 DEF Sound, NamesAttempt, LeftOnRow, KnowsConsent, Naming, Completing,
                    Unused
<1>9. \A v \in Workers \ {w} : Sound(v)' /\ Quiet(v)'
  BY <1>6 DEF Sound, NamesAttempt, LeftOnRow, KnowsConsent, Naming, Completing,
              Quiet, At
<1>10. Quiet(w)'
  BY <1>2, <1>3, <1>5, <1>6 DEF Quiet, At, Unaware
<1>11. RowSound'
  <2>1. a \notin spent /\ \A b \in spent : ~Unused(b) /\ b \in Attempts
    BY <1>3 DEF IInv, RowSound, TypeOK
  <2>2. QED
    BY <1>3, <1>5, <2>1 DEF RowSound, Pending, Unused
<1>12. QED
  BY <1>7, <1>8, <1>9, <1>10, <1>11 DEF IInv

-----------------------------------------------------------------------------
(* The theorems                                                             *)

LEMMA InitIInv == Init => IInv
<1> SUFFICES ASSUME Init  PROVE IInv
  OBVIOUS
<1>1. /\ row = [status |-> "absent", consentId |-> None, metadata |-> NoMetadata,
                made |-> None, isTest |-> FALSE, accounts |-> FALSE, movements |-> FALSE]
      /\ NoMetadata = [reference |-> None, renewal |-> None, accountRefs |-> None]
  BY DEF Init, NoRow, NoMetadata
<1>2. TypeOK
  <2>1. row \in Rows
    BY <1>1 DEF Rows, Metadata, MaybeAttempt, Statuses
  <2>2. QED
    BY <1>1, <2>1, IdleType DEF Init, TypeOK
<1>3. RowSound
  BY <1>1 DEF Init, RowSound, Pending, Idle, IdleRequest
<1>4. \A w \in Workers : Sound(w) /\ Quiet(w)
  BY DEF Init, IdleRequest, Sound, NamesAttempt, LeftOnRow, KnowsConsent, Naming,
     Completing, Quiet, At
<1>5. QED
  BY <1>2, <1>3, <1>4 DEF IInv

LEMMA StepIInv == IInv /\ [Next]_vars => IInv'
<1> SUFFICES ASSUME IInv, [Next]_vars  PROVE IInv'
  OBVIOUS
<1>1. ASSUME NEW w \in Workers, Completion(w)  PROVE IInv'
  BY <1>1, ReadForCompletionStep, ClaimStep, ExchangeStep, PersistAccountsStep,
     RereadMetadataStep, RewriteMetadataStep, ActivateStep DEF Completion
<1>2. ASSUME NEW w \in Workers, Step(w)  PROVE IInv'
  BY <1>1, <1>2, CreatePendingStep, StoreLinkStep, ReadForRenewalStep, ParkStep,
     ReadForDisconnectStep, StopSyncingStep, LetConsentGoStep, AskBankStep,
     ReadForRemovalSteps, RemovalSteps, ReadForSyncStep, FetchStep, FetchRefusedStep,
     MarkExpiredStep, ImportRowsStep, LostStep DEF Step
<1>3. CASE UNCHANGED vars
  BY <1>3 DEF vars, IInv, TypeOK, RowSound, AnsweredWithout, Carries, Sound, NamesAttempt,
     LeftOnRow, KnowsConsent,
              Quiet, At, Idle, Unused, Exists, Pending
<1>4. QED
  BY <1>2, <1>3, BankEndsStep, SweepStep, DayPassesStep DEF Next

\* What each request knows of its consent and left on the row is as Sound says.
THEOREM ConsentInvariant == Spec => []IInv
<1>1. QED
  BY InitIInv, StepIInv, PTL DEF Spec

\* The row keeps its types, and nothing is left of a connection that is gone.
THEOREM ConsentTypeCorrect == Spec => []TypeOK
<1>1. IInv => TypeOK
  BY DEF IInv
<1>2. QED
  BY <1>1, ConsentInvariant, PTL

\* Whatever the bank refuses and wherever requests stop, what the row holds was
\* granted, and a connection that says it works lacks only what the bank left out.
THEOREM WorkingIsGranted == Spec => []ActiveIsGranted
<1>1. IInv => ActiveIsGranted
  BY DEF IInv, RowSound, ActiveIsGranted
<1>2. QED
  BY <1>1, ConsentInvariant, PTL

-----------------------------------------------------------------------------
(* What a step may never do                                                 *)

\* The row keeps its status and its consent, and loses no movements.
SameConsent ==
    /\ row'.status = row.status /\ row'.consentId = row.consentId
    /\ row.movements => row'.movements

\* Few steps write a status or a consent.
LEMMA StatusWriters ==
  ASSUME IInv, Next
  PROVE  \/ SameConsent
         \/ row.status = "absent" /\ row'.status = "pending_consent"
         \/ \E w \in Workers : \/ Activate(w) \/ StopSyncing(w) \/ LetConsentGo(w)
                               \/ MarkExpired(w) \/ Remove(w) \/ Discard(w)
         \/ SweepAbandoned
<1>1. row \in Rows
  BY DEF IInv, TypeOK
<1>2. ASSUME UNCHANGED row  PROVE SameConsent
  BY <1>2 DEF SameConsent
<1>3. ASSUME NEW w \in Workers, StoreLink(w)  PROVE SameConsent
  <2>1. Quiet(w) /\ At(w, "link")
    BY <1>3 DEF IInv, StoreLink
  <2>2. row.consentId = None
    BY <2>1 DEF Quiet
  <2>3. QED
    BY <1>1, <1>3, <2>2 DEF StoreLink, SameConsent, Rows
<1>4. ASSUME NEW w \in Workers,
             \/ Park(w) \/ Claim(w) \/ PersistAccounts(w) \/ RewriteMetadata(w)
      PROVE  SameConsent
  BY <1>1, <1>4 DEF Park, Claim, PersistAccounts, RewriteMetadata, SameConsent, Rows, Metadata
<1>5. ASSUME NEW w \in Workers, NEW brings \in BOOLEAN, NEW more \in BOOLEAN,
             ImportRows(w, brings, more)
      PROVE  SameConsent
  BY <1>1, <1>5 DEF ImportRows, SameConsent, Rows
<1>6. ASSUME NEW w \in Workers, NEW a \in Attempts, NEW isTest \in BOOLEAN,
             CreatePending(w, a, isTest)
      PROVE  row.status = "absent" /\ row'.status = "pending_consent"
  BY <1>6 DEF CreatePending, NoRow, NoMetadata
<1>7. ASSUME NEW w \in Workers, Completion(w)
      PROVE  SameConsent \/ Activate(w)
  BY <1>2, <1>4, <1>7 DEF Completion, ReadForCompletion, Exchange, RereadMetadata
<1>8. ASSUME NEW w \in Workers, Step(w)
      PROVE  \/ SameConsent
             \/ row.status = "absent" /\ row'.status = "pending_consent"
             \/ Activate(w) \/ StopSyncing(w) \/ LetConsentGo(w) \/ MarkExpired(w)
             \/ Remove(w) \/ Discard(w)
  BY <1>2, <1>3, <1>4, <1>5, <1>6, <1>7, <1>8
     DEF Step, ReadForRenewal, ReadForDisconnect, AskBank, ReadForRemoval,
         ReadForTestDeletion, ReadForSync, Fetch, FetchRefused, Lost
<1>9. QED
  BY <1>2, <1>8 DEF Next, BankEnds, DayPasses

\* A connection is marked expired only by a refusal of the consent it holds.
THEOREM ExpiredForItsConsent == Spec => ExpiryIsEarned
<1> DEFINE A == row'.status = "expired" /\ row.status # "expired" =>
                    row.status = "active" /\ row.consentId \in refused
<1>1. IInv /\ [Next]_vars => [A]_vars
  <2> SUFFICES ASSUME IInv, Next, row'.status = "expired", row.status # "expired"
               PROVE  row.status = "active" /\ row.consentId \in refused
    BY DEF vars
  <2>1. PICK w \in Workers : MarkExpired(w)
    <3>1. row \in Rows
      BY DEF IInv, TypeOK
    <3>2. ASSUME NEW w \in Workers,
                 \/ Activate(w) \/ StopSyncing(w) \/ LetConsentGo(w)
                 \/ Remove(w) \/ Discard(w)
          PROVE  FALSE
      BY <3>1, <3>2 DEF Activate, StopSyncing, LetConsentGo, Remove, Discard, RemoveRow,
                        NoRow, Rows
    <3>3. ~SweepAbandoned
      BY DEF SweepAbandoned, RemoveRow, NoRow
    <3>4. QED
      BY <3>2, <3>3, StatusWriters DEF SameConsent
  <2>2. StillAsSynced(w) /\ request[w].pc = "expire" /\ Sound(w)
    BY <2>1 DEF MarkExpired, At, IInv
  <2>3. QED
    BY <2>2 DEF StillAsSynced, Sound, KnowsConsent
<1>2. QED
  BY <1>1, ConsentInvariant, PTL DEF Spec, ExpiryIsEarned

\* No disconnection loses the handle of a consent that is still good, and a renewal
\* loses it only when the bank has given no id for the new one.
THEOREM ConsentKeptWhileLive == Spec => LetGoOnlyWhenEnded
<1> DEFINE A == row.consentId # None /\ row'.consentId = None /\ row'.status # "removed" =>
                    \/ session[row.consentId] = "ended"
                    \/ \E w \in Workers : At(w, "activate") /\ ~Carries(w, "id")
<1>1. IInv /\ [Next]_vars => [A]_vars
  <2> SUFFICES ASSUME IInv, Next, row.consentId # None, row'.consentId = None,
                      row'.status # "removed",
                      ~ \E w \in Workers : At(w, "activate") /\ ~Carries(w, "id")
               PROVE  session[row.consentId] = "ended"
    BY DEF vars
  <2>1. row \in Rows
    BY DEF IInv, TypeOK
  <2>2. PICK w \in Workers : LetConsentGo(w)
    <3>1. ASSUME NEW w \in Workers, StopSyncing(w) \/ MarkExpired(w)  PROVE FALSE
      BY <2>1, <3>1 DEF StopSyncing, MarkExpired, Rows
    <3>2. ASSUME NEW w \in Workers, Activate(w)  PROVE FALSE
      <4>1. request[w].attempt \in Attempts /\ Carries(w, "id")
        BY <3>2, WorksForGranted DEF Activate, At, Completing
      <4>2. QED
        BY <2>1, <3>2, <4>1, ConsentAssumption DEF Activate, MintedConsent, Rows
    <3>3. ASSUME NEW w \in Workers, Remove(w) \/ Discard(w)  PROVE FALSE
      BY <3>3 DEF Remove, Discard, RemoveRow, NoRow
    <3>4. ~SweepAbandoned
      BY DEF SweepAbandoned, RemoveRow, NoRow
    <3>5. row.status # "absent"
      BY DEF IInv, TypeOK, Exists
    <3>6. QED
      BY <3>1, <3>2, <3>3, <3>4, <3>5, StatusWriters DEF SameConsent
  <2>3. StillHeld(w) /\ request[w].pc = "letgo" /\ Sound(w)
    BY <2>2 DEF LetConsentGo, At, IInv
  <2>4. QED
    BY <2>3 DEF StillHeld, Sound, KnowsConsent
<1>2. QED
  BY <1>1, ConsentInvariant, PTL DEF Spec, LetGoOnlyWhenEnded

\* No removal of a real connection takes its movements, whenever they landed.
THEOREM MovementsOutliveRemoval == Spec => RemovalKeepsMovements
<1> DEFINE A == row.movements /\ ~row.isTest => row'.movements
<1>1. IInv /\ [Next]_vars => [A]_vars
  <2> SUFFICES ASSUME IInv, Next, row.movements, ~row.isTest, ~row'.movements
               PROVE  FALSE
    BY DEF vars
  <2>1. row \in Rows
    BY DEF IInv, TypeOK
  <2>2. ASSUME NEW w \in Workers,
               Activate(w) \/ StopSyncing(w) \/ LetConsentGo(w) \/ MarkExpired(w)
        PROVE  FALSE
    BY <2>1, <2>2 DEF Activate, StopSyncing, LetConsentGo, MarkExpired, Rows
  <2>3. ASSUME NEW w \in Workers, Remove(w)  PROVE FALSE
    BY <2>3 DEF Remove, Removable
  <2>4. ASSUME NEW w \in Workers, Discard(w)  PROVE FALSE
    BY <2>4 DEF Discard, At, IInv, Sound, LeftOnRow
  <2>5. ~SweepAbandoned
    BY DEF SweepAbandoned, IInv, RowSound
  <2>6. row.status # "absent"
    BY DEF IInv, TypeOK, Exists
  <2>7. QED
    BY <2>2, <2>3, <2>4, <2>5, <2>6, StatusWriters DEF SameConsent
<1>2. QED
  BY <1>1, ConsentInvariant, PTL DEF Spec, RemovalKeepsMovements

\* A request moves on from its claim only by claiming.
LEMMA OnlyClaims ==
  ASSUME IInv, Next, NEW w \in Workers, At(w, "claim"), request'[w].pc = "exchange"
  PROVE  Claim(w) /\ Unclaimed(w)
<1>1. request \in [Workers -> RequestRow]
  BY DEF IInv, TypeOK
<1>2. ASSUME NEW v \in Workers, NEW pc, NEW a, NEW seen, Begin(v, pc, a, seen)  PROVE FALSE
  BY <1>1, <1>2 DEF Begin, Idle, At
<1>3. ASSUME NEW v \in Workers, Finish(v)  PROVE FALSE
  BY <1>1, <1>3 DEF Finish, IdleRequest, At
<1>4. ASSUME NEW v \in Workers, NEW pc, Goto(v, pc), ~At(v, "claim")  PROVE FALSE
  BY <1>1, <1>4 DEF Goto, At
<1>5. ASSUME NEW v \in Workers, RereadMetadata(v) \/ RewriteMetadata(v)  PROVE FALSE
  BY <1>1, <1>3, <1>5 DEF RereadMetadata, RewriteMetadata, At
<1>12. ASSUME NEW v \in Workers, NEW pc, GotoWithId(v, pc), pc # "exchange"  PROVE FALSE
  BY <1>1, <1>12 DEF GotoWithId, IdleRequest, At
<1>6. UNCHANGED request => FALSE
  BY DEF At
<1>7. ASSUME NEW v \in Workers, Claim(v)  PROVE v = w /\ Unclaimed(w)
  <2>1. /\ Unclaimed(v)
        /\ request' = [request EXCEPT ![v].pc = "exchange", ![v].seen.metadata = NoMetadata]
    BY <1>3, <1>7 DEF Claim
  <2>2. QED
    BY <1>1, <2>1 DEF At
<1>8. ASSUME NEW v \in Workers, Completion(v)  PROVE Claim(w) /\ Unclaimed(w)
  <2>1. CASE \E a \in Attempts : ReadForCompletion(v, a)
    BY <1>2, <2>1 DEF ReadForCompletion
  <2>2. CASE \/ \E granted \in BOOLEAN, carried \in SUBSET Parts :
                    Exchange(v, granted, carried)
             \/ PersistAccounts(v) \/ Activate(v)
    BY <1>3, <1>4, <1>12, <2>2 DEF Exchange, PersistAccounts, Activate, At
  <2>3. QED
    BY <1>5, <1>7, <1>8, <2>1, <2>2 DEF Completion
<1>9. ASSUME NEW v \in Workers,
             \/ \E a \in Attempts, isTest \in BOOLEAN : CreatePending(v, a, isTest)
             \/ \E a \in Attempts : ReadForRenewal(v, a)
             \/ ReadForDisconnect(v) \/ ReadForRemoval(v) \/ ReadForTestDeletion(v)
             \/ ReadForSync(v)
      PROVE  FALSE
  BY <1>2, <1>9 DEF CreatePending, ReadForRenewal, ReadForDisconnect, ReadForRemoval,
                    ReadForTestDeletion, ReadForSync
<1>10. ASSUME NEW v \in Workers,
              \/ StoreLink(v) \/ Park(v) \/ StopSyncing(v) \/ LetConsentGo(v)
              \/ \E confirmed \in BOOLEAN : AskBank(v, confirmed)
              \/ Remove(v) \/ Discard(v) \/ Fetch(v) \/ FetchRefused(v) \/ MarkExpired(v)
              \/ \E brings, more \in BOOLEAN : ImportRows(v, brings, more)
              \/ Lost(v)
       PROVE  FALSE
  BY <1>3, <1>4, <1>10, <1>12 DEF StoreLink, Park, StopSyncing, LetConsentGo, AskBank, Remove,
                           Discard, Fetch, FetchRefused, MarkExpired, ImportRows, Lost, At
<1>11. QED
  BY <1>6, <1>8, <1>9, <1>10 DEF Next, Step, BankEnds, SweepAbandoned, DayPasses

\* However often the bank's redirect comes back, a first consent is claimed once.
THEOREM FirstConsentClaimedOnce == Spec => FirstReferenceSpentOnce
<1> DEFINE A == \A w \in Workers :
             (At(w, "claim") /\ request'[w].pc = "exchange" /\ Pending)
                 => request[w].attempt \notin spent
<1>1. IInv /\ [Next]_vars => [A]_vars
  <2> SUFFICES ASSUME IInv, Next, NEW w \in Workers, At(w, "claim"),
                      request'[w].pc = "exchange", Pending
               PROVE  request[w].attempt \notin spent
    BY DEF vars
  <2>1. Unclaimed(w) /\ Sound(w)
    BY OnlyClaims DEF IInv
  <2>2. request[w].attempt \in Attempts /\ request[w].attempt = row.metadata.reference
    BY <2>1 DEF Unclaimed, Sound, NamesAttempt, Naming, At, Pending
  <2>3. QED
    BY <2>2, ConsentAssumption DEF IInv, RowSound
<1>2. QED
  BY <1>1, ConsentInvariant, PTL DEF Spec, FirstReferenceSpentOnce

-----------------------------------------------------------------------------
(* The handlers implement ConsentLife                                       *)

\* A granted consent is in the hands of one completion, and a request that read a
\* consent read a granted one.
OneHolder ==
    \A w, v \in Workers :
        /\ request[w].pc \in Holding /\ request[v].pc \in Holding
        /\ request[w].attempt = request[v].attempt
        => w = v

ReadsGranted(w) ==
    request[w].seen.consentId # None => session[request[w].seen.consentId] # "none"

\* The bank grants the consent, whatever its answer carries.
Granting(w) == \E carried \in SUBSET Parts : Exchange(w, TRUE, carried)

LifeInv == IInv /\ OneHolder /\ \A w \in Workers : ReadsGranted(w)

\* A request ends, begins by reading the row, or goes on with what it has; only the
\* bank's grant puts a consent in its hands.
GoesOn(w) ==
    /\ request'[w].seen.consentId = request[w].seen.consentId
    /\ request'[w].pc \in Holding =>
           request[w].pc \in Holding /\ request'[w].attempt = request[w].attempt

Starts(w) ==
    /\ request'[w].seen.consentId \in {None, row.consentId}
    /\ request'[w].pc \notin Holding

\* A finished request is blank.
Ends(w) == request'[w].seen.consentId = None /\ request'[w].pc \notin Holding

MovesOn(w) == OnlyRequest(w) /\ (Ends(w) \/ Starts(w) \/ GoesOn(w))

LEMMA FinishMoves ==
  ASSUME IInv, NEW w \in Workers, Finish(w)
  PROVE  MovesOn(w) /\ request'[w].pc \notin Holding
BY Finished DEF MovesOn, Ends, IdleRequest, NothingRead, Holding

LEMMA GotoMoves ==
  ASSUME IInv, NEW w \in Workers, NEW pc \in Points, Goto(w, pc),
         pc \in Holding => request[w].pc \in Holding
  PROVE  MovesOn(w)
BY Moved DEF MovesOn, GoesOn

LEMMA GotoWithIdMoves ==
  ASSUME IInv, NEW w \in Workers, NEW pc \in Points, GotoWithId(w, pc), pc \notin Holding
  PROVE  MovesOn(w) /\ request'[w].pc \notin Holding
BY MovedWithId DEF MovesOn, GoesOn

LEMMA BeginMoves ==
  ASSUME IInv, NEW w \in Workers, NEW pc \in Points, NEW a \in MaybeAttempt,
         NEW seen \in Seen, Begin(w, pc, a, seen), pc \notin Holding,
         seen.consentId \in {None, row.consentId}
  PROVE  MovesOn(w) /\ request'[w].pc \notin Holding /\ request[w].pc \notin Holding
BY Began DEF MovesOn, Starts, Begin, Idle, Holding

\* What the reads keep of the row.
LEMMA ReadsKeepConsent ==
  ASSUME IInv, NEW w \in Workers,
         \/ \E a \in Attempts, isTest \in BOOLEAN : CreatePending(w, a, isTest)
         \/ \E a \in Attempts : ReadForRenewal(w, a) \/ ReadForCompletion(w, a)
         \/ ReadForDisconnect(w) \/ ReadForRemoval(w) \/ ReadForTestDeletion(w)
         \/ ReadForSync(w)
  PROVE  MovesOn(w) /\ request'[w].pc \notin Holding /\ request[w].pc \notin Holding
<1>1. /\ {"link", "park", "claim", "stop", "remove", "discard", "fetch"} \subseteq Points
      /\ {"link", "park", "claim", "stop", "remove", "discard", "fetch"} \cap Holding = {}
      /\ Attempts \subseteq MaybeAttempt /\ None \in MaybeAttempt
  BY DEF Points, Holding, MaybeAttempt
<1>2. NothingRead \in Seen /\ NothingRead.consentId = None
  BY ReadTypes DEF NothingRead
<1>3. ASSUME NEW a \in Attempts, NEW isTest \in BOOLEAN, CreatePending(w, a, isTest)
      PROVE  MovesOn(w) /\ request'[w].pc \notin Holding /\ request[w].pc \notin Holding
  BY <1>1, <1>2, <1>3, BeginMoves DEF CreatePending
<1>4. ASSUME NEW a \in Attempts, ReadForRenewal(w, a)
      PROVE  MovesOn(w) /\ request'[w].pc \notin Holding /\ request[w].pc \notin Holding
  <2> DEFINE seen == [NothingRead EXCEPT !.metadata = row.metadata]
  <2>1. seen \in Seen /\ seen.consentId = None
    BY <1>2, ReadTypes DEF Seen
  <2>2. Begin(w, "park", a, seen)
    BY <1>4 DEF ReadForRenewal
  <2> HIDE DEF seen
  <2>3. QED
    BY <1>1, <2>1, <2>2, BeginMoves
<1>5. ASSUME NEW a \in MaybeAttempt, NEW pc \in {"claim", "stop"},
             Begin(w, pc, a, [NothingRead EXCEPT !.status = row.status,
                                                 !.consentId = row.consentId,
                                                 !.metadata = row.metadata])
      PROVE  MovesOn(w) /\ request'[w].pc \notin Holding /\ request[w].pc \notin Holding
  <2> DEFINE seen == [NothingRead EXCEPT !.status = row.status, !.consentId = row.consentId,
                                         !.metadata = row.metadata]
  <2>1. seen \in Seen /\ seen.consentId = row.consentId
    BY <1>2, ReadTypes DEF Seen
  <2>2. Begin(w, pc, a, seen)
    BY <1>5
  <2> HIDE DEF seen
  <2>3. QED
    BY <1>1, <2>1, <2>2, BeginMoves
<1>6. ASSUME ReadForRemoval(w)
      PROVE  MovesOn(w) /\ request'[w].pc \notin Holding /\ request[w].pc \notin Holding
  <2> DEFINE seen == [NothingRead EXCEPT !.consentId = row.consentId,
                                         !.movements = row.movements]
  <2>1. seen \in Seen /\ seen.consentId = row.consentId
    BY <1>2, ReadTypes DEF Seen
  <2>2. Begin(w, "remove", None, seen)
    BY <1>6 DEF ReadForRemoval
  <2> HIDE DEF seen
  <2>3. QED
    BY <1>1, <2>1, <2>2, BeginMoves
<1>7. ASSUME ReadForTestDeletion(w)
      PROVE  MovesOn(w) /\ request'[w].pc \notin Holding /\ request[w].pc \notin Holding
  <2> DEFINE seen == [NothingRead EXCEPT !.consentId = row.consentId]
  <2>1. seen \in Seen /\ seen.consentId = row.consentId
    BY <1>2, ReadTypes DEF Seen
  <2>2. Begin(w, "discard", None, seen)
    BY <1>7 DEF ReadForTestDeletion
  <2> HIDE DEF seen
  <2>3. QED
    BY <1>1, <2>1, <2>2, BeginMoves
<1>8. ASSUME ReadForSync(w)
      PROVE  MovesOn(w) /\ request'[w].pc \notin Holding /\ request[w].pc \notin Holding
  <2> DEFINE seen == [NothingRead EXCEPT !.consentId = row.consentId,
                                         !.metadata.accountRefs = row.metadata.accountRefs]
  <2>1. seen \in Seen /\ seen.consentId = row.consentId
    BY <1>2, ReadTypes DEF Seen, Metadata
  <2>2. Begin(w, "fetch", None, seen)
    BY <1>8 DEF ReadForSync
  <2> HIDE DEF seen
  <2>3. QED
    BY <1>1, <2>1, <2>2, BeginMoves
<1>9. QED
  BY <1>1, <1>3, <1>4, <1>5, <1>6, <1>7, <1>8 DEF ReadForCompletion, ReadForDisconnect

LEMMA CompletionMoves ==
  ASSUME IInv, NEW w \in Workers, Completion(w), ~Granting(w)
  PROVE  MovesOn(w)
<1>1. CASE \E a \in Attempts : ReadForCompletion(w, a)
  BY <1>1, ReadsKeepConsent
<1>2. CASE Claim(w)
  <2>1. request \in [Workers -> RequestRow]
    BY DEF IInv, TypeOK
  <2>2. CASE Finish(w)
    BY <2>2, FinishMoves
  <2>3. CASE request' = [request EXCEPT ![w].pc = "exchange", ![w].seen.metadata = NoMetadata]
    BY <2>1, <2>3 DEF MovesOn, GoesOn, OnlyRequest, RequestRow, Seen, Holding
  <2>4. QED
    BY <1>2, <2>2, <2>3 DEF Claim
<1>3. ASSUME NEW carried \in SUBSET Parts, Exchange(w, FALSE, carried)  PROVE MovesOn(w)
  BY <1>3, FinishMoves DEF Exchange
<1>4. CASE PersistAccounts(w) \/ Activate(w)
  BY <1>4, FinishMoves, GotoMoves, GotoWithIdMoves
     DEF PersistAccounts, Activate, At, Points, Holding
<1>7. CASE RewriteMetadata(w)
  <2>1. request \in [Workers -> RequestRow]
    BY DEF IInv, TypeOK
  <2>2. CASE Finish(w)
    BY <2>2, FinishMoves
  <2>3. CASE request' = [request EXCEPT ![w].pc = "activate", ![w].metadata = NoMetadata]
    <3>1. request[w].pc \in Holding
      BY <1>7 DEF RewriteMetadata, At, Holding
    <3>2. QED
      BY <2>1, <2>3, <3>1 DEF MovesOn, GoesOn, OnlyRequest, RequestRow
  <2>4. QED
    BY <1>7, <2>2, <2>3 DEF RewriteMetadata
<1>5. CASE RereadMetadata(w)
  <2>1. request \in [Workers -> RequestRow]
    BY DEF IInv, TypeOK
  <2>2. request[w].pc \in Holding
    BY <1>5 DEF RereadMetadata, At, Holding
  <2>3. QED
    BY <1>5, <2>1, <2>2 DEF RereadMetadata, MovesOn, GoesOn, OnlyRequest, RequestRow
<1>6. QED
  BY <1>1, <1>2, <1>3, <1>4, <1>5, <1>7 DEF Completion, Granting

LEMMA StepMoves ==
  ASSUME IInv, NEW w \in Workers, Step(w), ~Granting(w)
  PROVE  MovesOn(w)
<1>1. CASE Completion(w)
  BY <1>1, CompletionMoves
<1>2. CASE \/ \E a \in Attempts, isTest \in BOOLEAN : CreatePending(w, a, isTest)
           \/ \E a \in Attempts : ReadForRenewal(w, a)
           \/ ReadForDisconnect(w) \/ ReadForRemoval(w) \/ ReadForTestDeletion(w)
           \/ ReadForSync(w)
  BY <1>2, ReadsKeepConsent
<1>3. CASE \/ StoreLink(w) \/ Park(w) \/ StopSyncing(w) \/ LetConsentGo(w)
           \/ \E confirmed \in BOOLEAN : AskBank(w, confirmed)
           \/ Remove(w) \/ Discard(w) \/ MarkExpired(w) \/ Lost(w)
  BY <1>3, FinishMoves, GotoMoves, GotoWithIdMoves
     DEF StoreLink, Park, StopSyncing, LetConsentGo, AskBank, Remove, Discard, MarkExpired,
         Lost, Points, Holding
<1>4. CASE \/ Fetch(w) \/ FetchRefused(w)
           \/ \E brings, more \in BOOLEAN : ImportRows(w, brings, more)
  BY <1>4, FinishMoves, GotoMoves, GotoWithIdMoves
     DEF Fetch, FetchRefused, ImportRows, Points, Holding
<1>5. QED
  BY <1>1, <1>2, <1>3, <1>4 DEF Step

\* The bank grants a consent once, so whoever gets it is alone with it.
LEMMA ExchangeMoves ==
  ASSUME IInv, NEW w \in Workers, Granting(w)
  PROVE  /\ request[w].attempt \in Attempts /\ session[request[w].attempt] = "none"
         /\ session' = [session EXCEPT ![request[w].attempt] = "live"]
         /\ request[w].pc \notin Holding /\ request'[w].pc \in Holding
         /\ request'[w].attempt = request[w].attempt
         /\ request'[w].seen = request[w].seen
         /\ OnlyRequest(w) /\ UNCHANGED <<row, refused>>
<1>1. Goto(w, "accounts") /\ request[w].pc = "exchange" /\ Sound(w)
  BY DEF Granting, Exchange, At, IInv
<1>2. request[w].attempt \in Attempts
  BY <1>1 DEF Sound, NamesAttempt, Naming
<1>3. QED
  BY <1>1, <1>2, Moved DEF Granting, Exchange, Points, Holding

LEMMA HoldersAreGranted ==
  ASSUME IInv, NEW w \in Workers, request[w].pc \in Holding
  PROVE  request[w].attempt \in Attempts /\ session[request[w].attempt] # "none"
BY WorksForGranted DEF Holding, Completing

LEMMA StepOnward ==
  ASSUME IInv, Next
  PROVE  \A a \in Attempts : session[a] # "none" => session'[a] # "none"
<1>1. session \in [Attempts -> {"none", "live", "ended"}]
  BY DEF IInv, TypeOK
<1>2. ASSUME NEW w \in Workers, NEW granted \in BOOLEAN, NEW carried \in SUBSET Parts,
             Exchange(w, granted, carried)
      PROVE  \A a \in Attempts : session[a] # "none" => session'[a] # "none"
  BY <1>1, <1>2 DEF Exchange
<1>3. ASSUME NEW w \in Workers, NEW confirmed \in BOOLEAN, AskBank(w, confirmed)
      PROVE  \A a \in Attempts : session[a] # "none" => session'[a] # "none"
  BY <1>1, <1>3 DEF AskBank
<1>4. ASSUME NEW a \in Attempts, BankEnds(a)
      PROVE  \A b \in Attempts : session[b] # "none" => session'[b] # "none"
  BY <1>1, <1>4 DEF BankEnds
<1>5. ASSUME NEW w \in Workers, Step(w)
      PROVE  \A a \in Attempts : session[a] # "none" => session'[a] # "none"
  BY <1>2, <1>3, <1>5
     DEF Step, Completion, CreatePending, StoreLink, ReadForRenewal, Park, ReadForCompletion,
         Claim, PersistAccounts, RereadMetadata, RewriteMetadata, Activate,
         ReadForDisconnect, StopSyncing, LetConsentGo, ReadForRemoval, Remove,
         ReadForTestDeletion, Discard, ReadForSync, Fetch, FetchRefused, MarkExpired,
         ImportRows, Lost
<1>6. QED
  BY <1>4, <1>5 DEF Next, SweepAbandoned, DayPasses

LEMMA StepLifeInv ==
  ASSUME LifeInv, [Next]_vars
  PROVE  LifeInv'
<1>1. IInv /\ IInv'
  BY StepIInv DEF LifeInv
<1>2. CASE UNCHANGED vars
  BY <1>1, <1>2 DEF vars, LifeInv, OneHolder, ReadsGranted
<1>3. CASE Next
  <2>1. \A a \in Attempts : session[a] # "none" => session'[a] # "none"
    BY <1>1, <1>3, StepOnward
  <2>2. /\ \A v \in Workers : request[v].seen.consentId \in MaybeAttempt
        /\ row.consentId \in MaybeAttempt
    BY <1>1 DEF IInv, TypeOK, RequestRow, Seen, Rows
  <2>3. ASSUME NEW v \in Workers, request'[v] = request[v]  PROVE ReadsGranted(v)'
    BY <2>1, <2>2, <2>3 DEF LifeInv, ReadsGranted, MaybeAttempt
  <2>4. ASSUME NEW w \in Workers, MovesOn(w)  PROVE LifeInv'
    <3>1. ReadsGranted(w)'
      BY <1>1, <2>1, <2>2, <2>4
         DEF MovesOn, Ends, Starts, GoesOn, LifeInv, ReadsGranted, IInv, RowSound,
             MaybeAttempt
    <3>2. OneHolder'
      BY <2>4 DEF MovesOn, OnlyRequest, Ends, Starts, GoesOn, LifeInv, OneHolder
    <3>3. QED
      BY <1>1, <2>3, <2>4, <3>1, <3>2 DEF MovesOn, OnlyRequest, LifeInv
  <2>5. ASSUME NEW w \in Workers, Granting(w)  PROVE LifeInv'
    <3>1. ReadsGranted(w)'
      BY <1>1, <2>1, <2>2, <2>5, ExchangeMoves DEF LifeInv, ReadsGranted, MaybeAttempt
    <3>2. OneHolder'
      <4>1. /\ session[request[w].attempt] = "none"
            /\ request'[w].attempt = request[w].attempt
            /\ \A v \in Workers \ {w} : request'[v] = request[v]
        BY <1>1, <2>5, ExchangeMoves DEF OnlyRequest
      <4>2. \A v \in Workers : request[v].pc \in Holding =>
                                 session[request[v].attempt] # "none"
        BY <1>1, HoldersAreGranted
      <4>3. QED
        BY <4>1, <4>2 DEF LifeInv, OneHolder
    <3>3. QED
      BY <1>1, <2>3, <2>5, <3>1, <3>2, ExchangeMoves DEF OnlyRequest, LifeInv
  <2>6. ASSUME UNCHANGED request  PROVE LifeInv'
    BY <1>1, <2>3, <2>6 DEF LifeInv, OneHolder
  <2>7. QED
    BY <1>1, <1>3, <2>4, <2>5, <2>6, StepMoves
       DEF Next, BankEnds, SweepAbandoned, DayPasses
<1>4. QED
  BY <1>2, <1>3

LEMMA InitLifeInv == Init => LifeInv
BY InitIInv DEF Init, LifeInv, OneHolder, ReadsGranted, IdleRequest, NothingRead, Holding

-----------------------------------------------------------------------------
(* What a step does to the consents in hand                                 *)

LEMMA HandsStay ==
  ASSUME UNCHANGED request
  PROVE  InHand' = InHand
BY DEF InHand

\* A request that holds no consent, before or after.
LEMMA HandsElsewhere ==
  ASSUME NEW w \in Workers, OnlyRequest(w),
         request[w].pc \notin Holding, request'[w].pc \notin Holding
  PROVE  InHand' = InHand
<1>1. \A v \in Workers : /\ request'[v].pc \in Holding <=> request[v].pc \in Holding
                         /\ request[v].pc \in Holding => request'[v] = request[v]
  BY DEF OnlyRequest
<1>2. QED
  BY <1>1 DEF InHand

\* One that goes on with its consent.
LEMMA HandsHold ==
  ASSUME NEW w \in Workers, OnlyRequest(w), request'[w].attempt = request[w].attempt,
         request[w].pc \in Holding, request'[w].pc \in Holding
  PROVE  InHand' = InHand
<1>1. \A v \in Workers : /\ request'[v].pc \in Holding <=> request[v].pc \in Holding
                         /\ request'[v].attempt = request[v].attempt
                            \/ request[v].pc \notin Holding
  BY DEF OnlyRequest
<1>2. QED
  BY <1>1 DEF InHand

\* One that lets go of it: nobody else has it.
LEMMA HandsLetGo ==
  ASSUME LifeInv, NEW w \in Workers, OnlyRequest(w),
         request[w].pc \in Holding, request'[w].pc \notin Holding
  PROVE  request[w].attempt \in InHand /\ InHand' = InHand \ {request[w].attempt}
<1>1. \A v \in Workers \ {w} : request'[v] = request[v]
  BY DEF OnlyRequest
<1>2. \A v \in Workers \ {w} : request[v].pc \in Holding =>
                                  request[v].attempt # request[w].attempt
  BY DEF LifeInv, OneHolder
<1>3. QED
  BY <1>1, <1>2 DEF InHand

\* One the bank gives a consent.
LEMMA HandsGet ==
  ASSUME NEW w \in Workers, OnlyRequest(w),
         request[w].pc \notin Holding, request'[w].pc \in Holding
  PROVE  InHand' = InHand \cup {request'[w].attempt}
<1>1. \A v \in Workers \ {w} : request'[v] = request[v]
  BY DEF OnlyRequest
<1>2. QED
  BY <1>1 DEF InHand

-----------------------------------------------------------------------------
(* Each step is one of ConsentLife, or none                                 *)

SameLook ==
    /\ row'.status = row.status /\ row'.consentId = row.consentId
    /\ row'.isTest = row.isTest /\ row'.movements = row.movements

\* Bookkeeping, which ConsentLife does not see unless a consent is dropped.
LEMMA Unseen ==
  ASSUME LifeInv, NEW w \in Workers, MovesOn(w), SameLook, UNCHANGED <<session, answer, refused>>
  PROVE  [Life!Next]_(Life!life)
<1>1. Granted' = Granted /\ Ended' = Ended /\ refused' = refused
  BY DEF Granted, Ended
<1>2. OnlyRequest(w)
  BY DEF MovesOn
<1>3. CASE InHand' = InHand
  BY <1>1, <1>3 DEF SameLook, Life!life, Life!connection, Life!bank
<1>4. CASE request[w].pc \notin Holding
  BY <1>2, <1>3, <1>4, HandsElsewhere DEF MovesOn, Ends, Starts, GoesOn
<1>5. CASE request'[w].pc \in Holding /\ request[w].pc \in Holding
  BY <1>2, <1>3, <1>5, HandsHold DEF MovesOn, Ends, Starts, GoesOn
<1>6. CASE request'[w].pc \notin Holding /\ request[w].pc \in Holding
  <2>1. PICK a \in Attempts : a \in InHand /\ InHand' = InHand \ {a}
    BY <1>2, <1>6, HandsLetGo, HoldersAreGranted DEF LifeInv
  <2>2. Life!Drop(a)
    BY <1>1, <2>1 DEF SameLook, Life!Drop, Life!connection, Life!bank
  <2>3. QED
    BY <2>2 DEF Life!Next
<1>7. QED
  BY <1>4, <1>5, <1>6

LEMMA QuietFinish ==
  ASSUME LifeInv, NEW w \in Workers, Finish(w), request[w].pc \notin Holding
  PROVE  InHand' = InHand
BY FinishMoves, HandsElsewhere DEF LifeInv, MovesOn

LEMMA QuietGoto ==
  ASSUME LifeInv, NEW w \in Workers, NEW pc \in Points, Goto(w, pc),
         request[w].pc \notin Holding, pc \notin Holding
  PROVE  InHand' = InHand
BY Moved, HandsElsewhere DEF LifeInv

LEMMA QuietGotoWithId ==
  ASSUME LifeInv, NEW w \in Workers, NEW pc \in Points, GotoWithId(w, pc),
         request[w].pc \notin Holding, pc \notin Holding
  PROVE  InHand' = InHand
BY MovedWithId, HandsElsewhere DEF LifeInv

LEMMA BankStays ==
  ASSUME UNCHANGED <<session, answer, refused>>
  PROVE  Granted' = Granted /\ Ended' = Ended /\ refused' = refused
BY DEF Granted, Ended

LEMMA CreatePendingIsStart ==
  ASSUME LifeInv, NEW w \in Workers, NEW a \in Attempts, NEW isTest \in BOOLEAN,
         CreatePending(w, a, isTest)
  PROVE  Life!Start(isTest)
<1>1. InHand' = InHand
  BY ReadsKeepConsent, HandsElsewhere DEF LifeInv, MovesOn
<1>2. row.consentId = None /\ row.movements = FALSE
  BY DEF CreatePending, LifeInv, IInv, TypeOK, Exists, Rows
<1>3. QED
  BY <1>1, <1>2, BankStays DEF CreatePending, NoRow, NoMetadata, Life!Start, Life!bank

LEMMA ExchangeIsGrant ==
  ASSUME LifeInv, NEW w \in Workers, Granting(w)
  PROVE  Life!Grant(request[w].attempt)
<1> DEFINE a == request[w].attempt
<1>1. InHand' = InHand \cup {a}
  BY ExchangeMoves, HandsGet DEF LifeInv
<1>2. /\ a \in Attempts /\ session[a] = "none" /\ session' = [session EXCEPT ![a] = "live"]
      /\ UNCHANGED <<row, refused>>
      /\ session \in [Attempts -> {"none", "live", "ended"}]
  BY ExchangeMoves DEF LifeInv, IInv, TypeOK
<1>3. a \notin Granted /\ Granted' = Granted \cup {a} /\ Ended' = Ended
  BY <1>2 DEF Granted, Ended
<1>4. QED
  BY <1>1, <1>2, <1>3 DEF Life!Grant, Life!connection

LEMMA ActivateIsPlace ==
  ASSUME LifeInv, NEW w \in Workers, Activate(w), Exists
  PROVE  Life!Place(request[w].attempt)
<1> DEFINE a == request[w].attempt
<1>1. request[w].pc \in Holding /\ row \in Rows
  BY DEF Activate, At, Holding, LifeInv, IInv, TypeOK
<1>2. OnlyRequest(w) /\ request'[w].pc \notin Holding
  <2>1. CASE Finish(w)
    BY <2>1, FinishMoves DEF LifeInv, MovesOn
  <2>2. CASE GotoWithId(w, "replaced")
    BY <2>2, MovedWithId DEF LifeInv, Points, Holding
  <2>3. QED
    BY <2>1, <2>2 DEF Activate
<1>3. a \in InHand /\ InHand' = InHand \ {a}
  BY <1>1, <1>2, HandsLetGo
<1>4. row'.status = "active" /\ row'.consentId \in {a, None} /\ row'.isTest = row.isTest
      /\ row'.movements = row.movements
  BY <1>1 DEF Activate, MintedConsent, Rows
<1>5. Life!Held
  BY <1>1 DEF Exists, Rows, Statuses, Life!Held
<1>6. QED
  BY <1>3, <1>4, <1>5, BankStays DEF Activate, Life!Place, Life!bank

LEMMA StopIsDisconnect ==
  ASSUME LifeInv, NEW w \in Workers, StopSyncing(w), GotoWithId(w, "disconnected")
  PROVE  Life!Disconnect
<1>1. request[w].pc = "stop" /\ row \in Rows /\ KnowsConsent(w)
  BY DEF StopSyncing, At, LifeInv, IInv, TypeOK, Sound
<1>2. InHand' = InHand
  BY <1>1, QuietGotoWithId DEF Points, Holding
<1>3. request'[w].pc # "idle"
  BY MovedWithId DEF LifeInv, Points
<1>4. ~Finish(w)
  BY <1>3, Finished DEF LifeInv, Idle
<1>5. /\ row.status = request[w].seen.status
      /\ row' = [row EXCEPT !.status = "revoked",
                   !.metadata = [request[w].seen.metadata EXCEPT !.renewal = None]]
      /\ UNCHANGED <<session, answer, refused>>
  BY <1>4 DEF StopSyncing
<1>6. row.status \in {"active", "expired", "revoked"}
  BY <1>1, <1>5 DEF KnowsConsent
<1>7. QED
  BY <1>1, <1>2, <1>5, <1>6, BankStays DEF Rows, Life!Disconnect, Life!Held, Life!bank

LEMMA AskBankIsEnd ==
  ASSUME LifeInv, NEW w \in Workers, AskBank(w, TRUE)
  PROVE  \E a \in Attempts : Life!End(a)
<1> DEFINE held == request[w].seen.consentId
<1>1. /\ held # None /\ session' = [session EXCEPT ![held] = "ended"]
      /\ UNCHANGED <<row, refused>> /\ request[w].pc \notin Holding
      /\ session \in [Attempts -> {"none", "live", "ended"}]
  BY DEF AskBank, Holding, LifeInv, IInv, TypeOK
<1>2. held \in Attempts /\ session[held] # "none"
  <2>1. held \in MaybeAttempt
    BY DEF LifeInv, IInv, TypeOK, RequestRow, Seen
  <2>2. QED
    BY <1>1, <2>1 DEF MaybeAttempt, LifeInv, ReadsGranted
<1>3. InHand' = InHand
  BY <1>1, QuietFinish, QuietGoto DEF AskBank, Points, Holding
<1>4. held \in Granted /\ Granted' = Granted /\ Ended' = Ended \cup {held}
  BY <1>1, <1>2 DEF Granted, Ended
<1>5. Life!End(held)
  BY <1>1, <1>3, <1>4 DEF Life!End, Life!connection
<1>6. QED
  BY <1>2, <1>5

LEMMA BankEndsIsEnd ==
  ASSUME LifeInv, NEW a \in Attempts, BankEnds(a)
  PROVE  Life!End(a)
<1>1. session \in [Attempts -> {"none", "live", "ended"}]
  BY DEF LifeInv, IInv, TypeOK
<1>2. a \in Granted /\ Granted' = Granted /\ Ended' = Ended \cup {a}
  BY <1>1 DEF BankEnds, Granted, Ended
<1>3. QED
  BY <1>2, HandsStay DEF BankEnds, Life!End, Life!connection

LEMMA LetGoIsLetGo ==
  ASSUME LifeInv, NEW w \in Workers, LetConsentGo(w), StillHeld(w)
  PROVE  Life!LetGo
<1>1. request[w].pc = "letgo" /\ row \in Rows /\ KnowsConsent(w)
      /\ row.consentId \in MaybeAttempt
  BY DEF LetConsentGo, At, LifeInv, IInv, TypeOK, Sound, Rows
<1>2. InHand' = InHand
  BY <1>1, QuietFinish DEF LetConsentGo, Holding
<1>3. row.status = "revoked" /\ row.consentId \in Ended
  BY <1>1 DEF StillHeld, KnowsConsent, MaybeAttempt, Ended
<1>4. row' = [row EXCEPT !.consentId = None]
  BY DEF LetConsentGo
<1>5. QED
  BY <1>1, <1>2, <1>3, <1>4, BankStays DEF LetConsentGo, Rows, Life!LetGo, Life!bank

LEMMA RemovalIsRemove ==
  ASSUME LifeInv, Exists, RemoveRow, row.movements => row.isTest,
         UNCHANGED <<session, answer, refused>>, InHand' = InHand
  PROVE  Life!Remove
<1>1. Life!Held
  BY DEF LifeInv, IInv, TypeOK, Exists, Rows, Statuses, Life!Held
<1>2. QED
  BY <1>1, BankStays DEF RemoveRow, NoRow, Life!Remove, Life!bank

LEMMA RefusedIsRefuse ==
  ASSUME LifeInv, NEW w \in Workers, FetchRefused(w)
  PROVE  \E a \in Attempts \cup {None} : Life!Refuse(a)
<1> DEFINE held == request[w].seen.consentId
<1>1. request[w].pc = "fetch" /\ ReadsGranted(w) /\ held \in MaybeAttempt
  BY DEF FetchRefused, At, LifeInv, IInv, TypeOK, RequestRow, Seen
<1>2. held \in Attempts \cup {None} /\ held \in Granted \cup {None}
  BY <1>1 DEF ReadsGranted, MaybeAttempt, Granted
<1>3. InHand' = InHand
  BY <1>1, QuietGotoWithId DEF FetchRefused, Points, Holding
<1>4. Granted' = Granted /\ Ended' = Ended
  BY DEF FetchRefused, Granted, Ended
<1>5. Life!Refuse(held)
  BY <1>2, <1>3, <1>4 DEF FetchRefused, Life!Refuse, Life!connection
<1>6. QED
  BY <1>2, <1>5

LEMMA ImportIsLand ==
  ASSUME LifeInv, NEW w \in Workers, NEW more \in BOOLEAN, ImportRows(w, TRUE, more), Exists
  PROVE  Life!Land
<1>1. request[w].pc = "import" /\ row \in Rows
  BY DEF ImportRows, At, LifeInv, IInv, TypeOK
<1>2. InHand' = InHand
  BY <1>1, QuietFinish, QuietGoto DEF ImportRows, Points, Holding
<1>3. Life!Held
  BY <1>1 DEF Exists, Rows, Statuses, Life!Held
<1>4. row'.movements = TRUE /\ row'.status = row.status /\ row'.consentId = row.consentId
      /\ row'.isTest = row.isTest
  BY <1>1 DEF ImportRows, Rows
<1>5. QED
  BY <1>2, <1>3, <1>4, BankStays DEF ImportRows, Life!Land, Life!bank

LEMMA MarkIsExpire ==
  ASSUME LifeInv, NEW w \in Workers, MarkExpired(w), StillAsSynced(w)
  PROVE  Life!Expire
<1>1. request[w].pc = "expire" /\ row \in Rows /\ KnowsConsent(w)
  BY DEF MarkExpired, At, LifeInv, IInv, TypeOK, Sound
<1>2. InHand' = InHand
  BY <1>1, QuietFinish DEF MarkExpired, Holding
<1>3. row.status = "active" /\ row.consentId \in refused
  BY <1>1 DEF StillAsSynced, KnowsConsent
<1>4. row' = [row EXCEPT !.status = "expired"]
  BY DEF MarkExpired
<1>5. QED
  BY <1>1, <1>2, <1>3, <1>4, BankStays DEF MarkExpired, Rows, Life!Expire, Life!bank

\* The writes of the row that ConsentLife does not see.
LEMMA RowLooksTheSame ==
  ASSUME LifeInv, NEW w \in Workers,
         StoreLink(w) \/ Park(w) \/ Claim(w) \/ PersistAccounts(w) \/ RewriteMetadata(w)
  PROVE  SameLook /\ UNCHANGED <<session, answer, refused>>
<1>1. row \in Rows /\ Quiet(w)
  BY DEF LifeInv, IInv, TypeOK
<1>2. ASSUME StoreLink(w)  PROVE SameLook
  BY <1>1, <1>2 DEF StoreLink, Quiet, SameLook, Rows
<1>3. ASSUME Park(w) \/ Claim(w) \/ PersistAccounts(w) \/ RewriteMetadata(w)
      PROVE  SameLook
  BY <1>1, <1>3 DEF Park, Claim, PersistAccounts, RewriteMetadata, SameLook, Rows
<1>4. QED
  BY <1>2, <1>3 DEF StoreLink, Park, Claim, PersistAccounts, RewriteMetadata

\* The condition of a write was not met, or a request only read.
LEMMA RowUntouched ==
  ASSUME LifeInv, NEW w \in Workers, Step(w), ~Granting(w),
         UNCHANGED <<row, session, answer, refused>>
  PROVE  [Life!Next]_(Life!life)
BY StepMoves, Unseen DEF LifeInv, SameLook

LEMMA CompletionIsLife ==
  ASSUME LifeInv, NEW w \in Workers, Completion(w)
  PROVE  [Life!Next]_(Life!life)
<1>1. CASE Granting(w)
  BY <1>1, ExchangeIsGrant, ExchangeMoves DEF LifeInv, Life!Next
<1>2. CASE ~Granting(w) /\ UNCHANGED <<row, session, answer, refused>>
  BY <1>2, RowUntouched DEF Step
<1>3. CASE ~Granting(w) /\ ~UNCHANGED <<row, session, answer, refused>>
  <2>1. CASE Claim(w) \/ PersistAccounts(w) \/ RewriteMetadata(w)
    BY <1>3, <2>1, RowLooksTheSame, CompletionMoves, Unseen DEF LifeInv
  <2>2. CASE Activate(w)
    <3>1. Exists /\ request[w].attempt \in Attempts
      BY <1>3, <2>2, HoldersAreGranted DEF Activate, At, Holding, LifeInv
    <3>2. QED
      BY <2>2, <3>1, ActivateIsPlace DEF Life!Next
  <2>3. ~\E granted \in BOOLEAN, carried \in SUBSET Parts : Exchange(w, granted, carried)
    BY <1>3 DEF Granting, Exchange
  <2>4. QED
    BY <1>3, <2>1, <2>2, <2>3 DEF Completion, ReadForCompletion, RereadMetadata
<1>4. QED
  BY <1>1, <1>2, <1>3

LEMMA StepIsLife ==
  ASSUME LifeInv, NEW w \in Workers, Step(w), ~Completion(w)
  PROVE  [Life!Next]_(Life!life)
<1>1. ~Granting(w)
  BY DEF Completion, Granting
<1>2. CASE UNCHANGED <<row, session, answer, refused>>
  BY <1>1, <1>2, RowUntouched
<1>3. CASE ~UNCHANGED <<row, session, answer, refused>>
  <2>1. CASE \E a \in Attempts, isTest \in BOOLEAN : CreatePending(w, a, isTest)
    BY <2>1, CreatePendingIsStart DEF Life!Next
  <2>2. CASE StoreLink(w) \/ Park(w)
    BY <1>1, <2>2, RowLooksTheSame, StepMoves, Unseen DEF LifeInv
  <2>3. CASE StopSyncing(w)
    BY <1>3, <2>3, StopIsDisconnect DEF StopSyncing, Life!Next
  <2>4. CASE \E confirmed \in BOOLEAN : AskBank(w, confirmed)
    <3>1. AskBank(w, TRUE)
      BY <1>3, <2>4 DEF AskBank
    <3>2. QED
      BY <3>1, AskBankIsEnd DEF Life!Next
  <2>5. CASE LetConsentGo(w)
    BY <1>3, <2>5, LetGoIsLetGo DEF LetConsentGo, Life!Next
  <2>6. CASE Remove(w)
    <3>1. request[w].pc \notin Holding /\ Removable(w) /\ RemoveRow /\ GotoWithId(w, "deleted")
          /\ UNCHANGED <<session, answer, refused>>
      BY <1>3, <2>6 DEF Remove, At, Holding
    <3>2. InHand' = InHand
      BY <3>1, QuietGotoWithId DEF Points, Holding
    <3>3. QED
      BY <3>1, <3>2, RemovalIsRemove DEF Removable, Life!Next
  <2>7. CASE Discard(w)
    <3>1. /\ request[w].pc = "discard" /\ Exists /\ RemoveRow /\ GotoWithId(w, "deleted")
          /\ UNCHANGED <<session, answer, refused>> /\ LeftOnRow(w)
      BY <1>3, <2>7 DEF Discard, At, LifeInv, IInv, Sound
    <3>2. InHand' = InHand
      BY <3>1, QuietGotoWithId DEF Points, Holding
    <3>3. QED
      BY <3>1, <3>2, RemovalIsRemove DEF LeftOnRow, Life!Next
  <2>8. CASE FetchRefused(w)
    BY <2>8, RefusedIsRefuse DEF Life!Next
  <2>9. CASE MarkExpired(w)
    BY <1>3, <2>9, MarkIsExpire DEF MarkExpired, Life!Next
  <2>10. CASE \E brings, more \in BOOLEAN : ImportRows(w, brings, more)
    <3>1. PICK brings \in BOOLEAN, more \in BOOLEAN : ImportRows(w, brings, more)
      BY <2>10
    <3>2. row \in Rows /\ Exists
      BY <1>3, <3>1 DEF ImportRows, LifeInv, IInv, TypeOK
    <3>3. CASE brings
      BY <3>1, <3>2, <3>3, ImportIsLand DEF Life!Next
    <3>4. CASE ~brings
      <4>1. row'.status = row.status /\ row'.consentId = row.consentId
            /\ row'.isTest = row.isTest
        BY <3>1, <3>2 DEF ImportRows, Rows
      <4>2. row'.movements = row.movements
        BY <3>1, <3>2, <3>4 DEF ImportRows, Rows
      <4>3. UNCHANGED <<session, answer, refused>>
        BY <3>1 DEF ImportRows
      <4>4. QED
        BY <1>1, <4>1, <4>2, <4>3, StepMoves, Unseen DEF LifeInv, SameLook
    <3>5. QED
      BY <3>3, <3>4
  <2>11. QED
    BY <1>3, <2>1, <2>2, <2>3, <2>4, <2>5, <2>6, <2>7, <2>8, <2>9, <2>10
       DEF Step, ReadForRenewal, ReadForDisconnect, ReadForRemoval, ReadForTestDeletion,
           ReadForSync, Fetch, Lost
<1>4. QED
  BY <1>2, <1>3

LEMMA NextIsLife ==
  ASSUME LifeInv, [Next]_vars
  PROVE  [Life!Next]_(Life!life)
<1>1. ASSUME NEW w \in Workers, Step(w)  PROVE [Life!Next]_(Life!life)
  BY <1>1, CompletionIsLife, StepIsLife
<1>2. ASSUME NEW a \in Attempts, BankEnds(a)  PROVE [Life!Next]_(Life!life)
  BY <1>2, BankEndsIsEnd DEF Life!Next
<1>3. CASE SweepAbandoned
  <2>1. /\ Exists /\ RemoveRow /\ UNCHANGED <<session, answer, refused>> /\ UNCHANGED request
        /\ row.movements => row.isTest
    BY <1>3 DEF SweepAbandoned, Pending, Exists, LifeInv, IInv, RowSound
  <2>2. InHand' = InHand
    BY <2>1, HandsStay
  <2>3. Life!Remove
    BY <2>1, <2>2, RemovalIsRemove
  <2>4. QED
    BY <2>3 DEF Life!Next
<1>4. CASE DayPasses \/ UNCHANGED vars
  BY <1>4, BankStays, HandsStay
     DEF DayPasses, vars, Life!life, Life!connection, Life!bank
<1>5. QED
  BY <1>1, <1>2, <1>3, <1>4 DEF Next

\* Every step of a handler, an interleaved one or a last one, is a step of the life
\* of a connection that has no requests, or changes nothing of it.
THEOREM ConsentImplementsLife == Spec => ImplementsLife
<1>1. Init => Life!Init
  BY DEF Init, NoRow, IdleRequest, Holding, Granted, Ended, InHand, Life!Init
<1>2. Spec => []LifeInv
  BY InitLifeInv, StepLifeInv, PTL DEF Spec
<1>3. LifeInv /\ [Next]_vars => [Life!Next]_(Life!life)
  BY NextIsLife
<1>4. QED
  BY <1>1, <1>2, <1>3, PTL DEF Spec, ImplementsLife, Life!Spec

-----------------------------------------------------------------------------
(* What follows in ConsentLife                                              *)

\* A consent in hand was granted, and the one in place is granted and in nobody's hands.
Consents ==
    /\ Granted \subseteq Attempts /\ InHand \subseteq Granted
    /\ row.consentId # None => row.consentId \in Granted \ InHand

LEMMA ConsentsStep ==
  ASSUME Consents, [Life!Next]_(Life!life)
  PROVE  Consents'
<1>1. CASE \/ UNCHANGED Life!life
           \/ \E isTest \in BOOLEAN : Life!Start(isTest)
           \/ Life!Expire \/ Life!Disconnect \/ Life!Land
  BY <1>1 DEF Consents, Life!life, Life!connection, Life!bank, Life!Start, Life!Expire,
              Life!Disconnect, Life!Land
<1>2. CASE Life!LetGo \/ Life!Remove
  BY <1>2 DEF Consents, Life!bank, Life!LetGo, Life!Remove
<1>3. ASSUME NEW a \in Attempts,
             Life!Grant(a) \/ Life!Drop(a) \/ Life!Place(a) \/ Life!End(a)
      PROVE  Consents'
  BY <1>3 DEF Consents, Life!connection, Life!bank, Life!Grant, Life!Drop, Life!Place,
              Life!End
<1>5. ASSUME NEW a, Life!Refuse(a)  PROVE Consents'
  BY <1>5 DEF Consents, Life!connection, Life!Refuse
<1>4. QED
  BY <1>1, <1>2, <1>3, <1>5 DEF Life!Next

\* In the life of a connection a consent that was put in place, or dropped, never
\* comes back: only one in hand is put in place, and only a grant puts one in hand.
THEOREM LifePlacesOnce == Life!Spec => Life!PlacedOnce
<1> DEFINE Stay == \A a \in Granted \ InHand :
                      a \notin InHand' /\ (row.consentId # a => row.consentId' # a)
<1>1. Life!Init => Consents
  BY DEF Life!Init, Consents
<1>2. Consents /\ [Life!Next]_(Life!life) => Consents'
  BY ConsentsStep
<1>3. Consents /\ [Life!Next]_(Life!life) => [Stay]_(Life!life)
  <2> SUFFICES ASSUME Consents, Life!Next, NEW a \in Granted \ InHand
               PROVE  a \notin InHand' /\ (row.consentId # a => row'.consentId # a)
    OBVIOUS
  <2>1. a \in Attempts /\ a # None
    BY ConsentAssumption DEF Consents
  <2>2. CASE \/ \E isTest \in BOOLEAN : Life!Start(isTest)
             \/ Life!Expire \/ Life!Disconnect \/ Life!LetGo \/ Life!Land \/ Life!Remove
    BY <2>1, <2>2 DEF Life!Start, Life!Expire, Life!Disconnect, Life!LetGo, Life!Land,
                      Life!Remove
  <2>3. ASSUME NEW b \in Attempts,
               Life!Grant(b) \/ Life!Drop(b) \/ Life!Place(b) \/ Life!End(b)
        PROVE  a \notin InHand' /\ (row.consentId # a => row'.consentId # a)
    BY <2>1, <2>3 DEF Life!connection, Life!Grant, Life!Drop, Life!Place, Life!End
  <2>4. ASSUME NEW b, Life!Refuse(b)
        PROVE  a \notin InHand' /\ (row.consentId # a => row'.consentId # a)
    BY <2>1, <2>4 DEF Life!connection, Life!Refuse
  <2>5. QED
    BY <2>2, <2>3, <2>4 DEF Life!Next
<1>4. QED
  BY <1>1, <1>2, <1>3, PTL DEF Life!Spec, Life!PlacedOnce

\* So no redirect that is delivered again, and no request that went on too long,
\* brings an old consent back over the one in place.
COROLLARY ConsentPlacedOnce == Spec => PlacedOnce
<1>1. Spec => Life!Spec
  BY ConsentImplementsLife DEF ImplementsLife
<1>2. QED
  BY <1>1, LifePlacesOnce DEF PlacedOnce
=============================================================================
