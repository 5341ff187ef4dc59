----------------------------- MODULE BankConsent -----------------------------
(***************************************************************************)
(* The life of one live bank connection: its first consent, its renewals,  *)
(* its syncs, and its disconnection or removal (lib/services/bank/).        *)
(*                                                                         *)
(* A consent attempt is known by the reference minted for it.  The bank's   *)
(* page comes back with that reference and a code good for one exchange,    *)
(* which mints the consent; so an attempt also names the consent it mints.   *)
(* Every handler is split at its awaits.  The metadata column is one value,  *)
(* compared and written whole.                                              *)
(***************************************************************************)
EXTENDS Naturals, FiniteSets

CONSTANTS
    Attempts,   \* the consents the owner may ask for
    Workers,    \* requests the server may be working on at once
    None        \* null

ASSUME ConsentAssumption == None \notin Attempts

VARIABLES
    row,        \* the BankConnection row, its accounts and its movements
    reference,  \* how far each attempt's reference has come
    session,    \* each consent, as the bank sees it
    answer,     \* what the bank's answer to each exchange carried
    spent,      \* references claimed by a completion
    refused,    \* consents on which a sync was refused
    request     \* the requests in flight

vars == <<row, reference, session, answer, spent, refused, request>>

NoMetadata == [reference |-> None, renewal |-> None, accountRefs |-> None]

\* `metadata.accountRefs': the consent whose account ids it holds.  `made': the
\* attempt that created the row, and so the row's age.
NoRow == [status |-> "absent", consentId |-> None, metadata |-> NoMetadata,
          made |-> None, isTest |-> FALSE, accounts |-> FALSE, movements |-> FALSE]

Exists  == row.status \notin {"absent", "removed"}
Pending == row.status = "pending_consent"

\* Deleting the row cascades to its accounts and their movements.
MarkRowRemoved == row' = [row EXCEPT !.status = "removed"]
RemoveRow == row' = [NoRow EXCEPT !.status = "removed"]

\* What the bank's answer to an exchange may carry, or lack.
Parts == {"id", "accounts"}

\* Of the row a request read, what it uses later.
NothingRead == [status |-> "absent", consentId |-> None, metadata |-> NoMetadata,
                movements |-> FALSE]

IdleRequest == [pc |-> "idle", attempt |-> None, seen |-> NothingRead,
                metadata |-> NoMetadata]

Idle(w)     == request[w].pc = "idle"
At(w, pc)   == request[w].pc = pc
Goto(w, pc) == request' = [request EXCEPT ![w].pc = pc]
Finish(w)   == request' = [request EXCEPT ![w] = IdleRequest]

\* A request that has read the row.
Begin(w, pc, a, seen) ==
    /\ Idle(w)
    /\ request' = [request EXCEPT ![w] =
           [IdleRequest EXCEPT !.pc = pc, !.attempt = a, !.seen = seen]]

\* ... and from here on needs nothing of it but the consent's id.
GotoWithId(w, pc) ==
    request' = [request EXCEPT ![w] =
        [IdleRequest EXCEPT !.pc = pc, !.seen.consentId = request[w].seen.consentId]]

Unused(a) == reference[a] = "unused"
Fresh(a)  == reference[a] \in {"minted", "sent"}

Send(a) == reference' = [reference EXCEPT ![a] = IF @ = "minted" THEN "sent" ELSE @]

-----------------------------------------------------------------------------
(* startConsent                                                             *)

CreatePending(w, a, isTest) ==
    /\ row.status = "absent" /\ Unused(a)
    /\ row' = [NoRow EXCEPT !.status = "pending_consent", !.made = a,
                            !.isTest = isTest, !.metadata.reference = a]
    /\ reference' = [reference EXCEPT ![a] = "minted"]
    /\ Begin(w, "link", a, NothingRead)
    /\ UNCHANGED <<session, answer, spent, refused>>

\* The provider answered with a link and no consent id.  The row is updated, and
\* the owner is sent to the bank; a row gone meanwhile makes the update fail.
StoreLink(w) ==
    /\ At(w, "link")
    /\ IF Exists
       THEN /\ row' = [row EXCEPT !.consentId = None]
            /\ Send(request[w].attempt)
       ELSE UNCHANGED <<row, reference>>
    /\ Finish(w)
    /\ UNCHANGED <<session, answer, spent, refused>>

-----------------------------------------------------------------------------
(* startRenewal                                                             *)

ReadForRenewal(w, a) ==
    /\ Exists /\ ~Pending /\ Unused(a)
    /\ reference' = [reference EXCEPT ![a] = "minted"]
    /\ Begin(w, "park", a, [NothingRead EXCEPT !.metadata = row.metadata])
    /\ UNCHANGED <<row, session, answer, spent, refused>>

\* Parked if the metadata is as it was read; otherwise the owner is told that
\* the connection changed, and the link is never used.
Park(w) ==
    /\ At(w, "park")
    /\ IF Exists /\ row.metadata = request[w].seen.metadata
       THEN /\ row' = [row EXCEPT !.metadata.renewal = request[w].attempt]
            /\ Send(request[w].attempt)
       ELSE UNCHANGED <<row, reference>>
    /\ Finish(w)
    /\ UNCHANGED <<session, answer, spent, refused>>

-----------------------------------------------------------------------------
(* completeConsent                                                          *)

\* Where the row holds a reference that can be used: a first consent's while it
\* is pending, a renewal's afterwards.
Usable == IF Pending THEN row.metadata.reference ELSE row.metadata.renewal

\* The bank's redirect, which can come any number of times.
ReadForCompletion(w, a) ==
    /\ Exists /\ Usable = a
    /\ reference[a] = "sent"
    /\ Begin(w, "claim", a, [NothingRead EXCEPT !.status = row.status,
                                                !.consentId = row.consentId,
                                                !.metadata = row.metadata])
    /\ UNCHANGED <<row, reference, session, answer, spent, refused>>

\* The row is still as the request read it.
UnclaimedStatus(w) == Exists /\ row.status = request[w].seen.status
Unclaimed(w) ==
    /\ Exists
    /\ row.status = request[w].seen.status
    /\ row.metadata = request[w].seen.metadata

\* The reference is spent before the bank is called.
Claim(w) ==
    /\ At(w, "claim")
    /\ IF Unclaimed(w)
       THEN /\ row' = [row EXCEPT !.metadata =
                   [request[w].seen.metadata EXCEPT !.reference = None, !.renewal = None]]
            /\ spent' = spent \cup {request[w].attempt}
            /\ request' = [request EXCEPT ![w].pc = "exchange", ![w].seen.metadata = NoMetadata]
       ELSE Finish(w) /\ UNCHANGED <<row, spent>>
    /\ UNCHANGED <<reference, session, answer, refused>>

\* The bank mints the consent in exchange for the code, once, or refuses and the
\* request fails.  Its answer may leave out the consent's id, and may name accounts
\* by nothing a sync could use; one with no accounts at all is taken as a refusal.
ExchangeUnchecked(w, granted, carried) ==
    /\ At(w, "exchange")
    /\ granted => session[request[w].attempt] = "none"
    /\ session' = [session EXCEPT ![request[w].attempt] = IF granted THEN "live" ELSE @]
    /\ answer' = [answer EXCEPT ![request[w].attempt] = carried]
    /\ Goto(w, "accounts")
    /\ UNCHANGED <<row, reference, spent, refused>>
Exchange(w, granted, carried) ==
    /\ At(w, "exchange")
    /\ IF granted
       THEN /\ session[request[w].attempt] = "none"
            /\ session' = [session EXCEPT ![request[w].attempt] = "live"]
            /\ answer' = [answer EXCEPT ![request[w].attempt] = carried]
            /\ Goto(w, "accounts")
       ELSE Finish(w) /\ UNCHANGED <<session, answer>>
    /\ UNCHANGED <<row, reference, spent, refused>>

Carries(w, part) == part \in answer[request[w].attempt]

\* persistAccounts: the account rows, whose foreign key needs the connection.  The
\* others of the connection are kept, and no longer synced.
PersistAccounts(w) ==
    /\ At(w, "accounts")
    /\ IF Exists \/ ~Carries(w, "accounts")
       THEN /\ row' = [row EXCEPT !.accounts = @ \/ Carries(w, "accounts")]
            /\ Goto(w, "reread")
       ELSE Finish(w) /\ UNCHANGED row
    /\ UNCHANGED <<reference, session, answer, spent, refused>>

\* persistAccounts: the metadata is read again; a row gone meanwhile reads as none.
RereadMetadata(w) ==
    /\ At(w, "reread")
    /\ request' = [request EXCEPT ![w].pc = "rewrite", ![w].metadata = row.metadata]
    /\ UNCHANGED <<row, reference, session, answer, spent, refused>>

\* persistAccounts: ... and written back, without a condition, with the provider's
\* ids of the accounts, if any, in place of those it had.
RewriteMetadata(w) ==
    /\ At(w, "rewrite")
    /\ IF Exists
       THEN /\ row' = [row EXCEPT !.metadata =
                   [request[w].metadata EXCEPT !.reference = None,
                                               !.accountRefs =
                        IF Carries(w, "accounts") THEN request[w].attempt ELSE None]]
            /\ request' = [request EXCEPT ![w].pc = "activate", ![w].metadata = NoMetadata]
       ELSE Finish(w) /\ UNCHANGED row
    /\ UNCHANGED <<reference, session, answer, spent, refused>>

\* The id the bank's answer carries.  The one known at the start, which would come
\* after it, is null: this provider's link has none.
ConsentAsRead(w) == IF request[w].seen.consentId # None THEN request[w].seen.consentId
                    ELSE IF Carries(w, "id") THEN request[w].attempt ELSE None
MintedConsent(w) == IF Carries(w, "id") THEN request[w].attempt ELSE None

\* The new consent is put in place, without a condition.  A renewal then asks
\* the bank to end the one it read at the start.
Activate(w) ==
    /\ At(w, "activate")
    /\ IF Exists
       THEN row' = [row EXCEPT !.status = "active", !.consentId = MintedConsent(w)]
       ELSE UNCHANGED row
    /\ IF /\ Exists /\ request[w].seen.status # "pending_consent"
          /\ request[w].seen.consentId # MintedConsent(w)
       THEN GotoWithId(w, "replaced")
       ELSE Finish(w)
    /\ UNCHANGED <<reference, session, answer, spent, refused>>

-----------------------------------------------------------------------------
(* disconnectConnection                                                     *)

CanDisconnect == /\ Exists /\ ~Pending
                 /\ row.status = "revoked" => row.consentId # None

ReadForDisconnect(w) ==
    /\ CanDisconnect
    /\ Begin(w, "stop", None, [NothingRead EXCEPT !.status = row.status,
                                                  !.consentId = row.consentId,
                                                  !.metadata = row.metadata])
    /\ UNCHANGED <<row, reference, session, answer, spent, refused>>

\* Stopped if the row is as it was read; the parked renewal goes with it.
StopSyncing(w) ==
    /\ At(w, "stop")
    /\ LET seen == request[w].seen
       IN  IF /\ row.status = seen.status
              /\ row.consentId = seen.consentId
              /\ row.metadata = seen.metadata
           THEN /\ row' = [row EXCEPT !.status = "revoked",
                                      !.metadata = [seen.metadata EXCEPT !.renewal = None]]
                /\ GotoWithId(w, "disconnected")
           ELSE Finish(w) /\ UNCHANGED row
    /\ UNCHANGED <<reference, session, answer, spent, refused>>

\* revokeAtBank, after a renewal, a disconnection or a removal: the bank confirms
\* that the consent read at the start has ended, or nothing is known.
AskBank(w, confirmed) ==
    /\ request[w].pc \in {"replaced", "disconnected", "deleted"}
    /\ LET held == request[w].seen.consentId
       IN  /\ confirmed => held # None
           /\ session' = IF confirmed THEN [session EXCEPT ![held] = "ended"] ELSE session
    /\ IF At(w, "disconnected") /\ confirmed THEN Goto(w, "letgo") ELSE Finish(w)
    /\ UNCHANGED <<row, reference, answer, spent, refused>>

\* Only the consent that ended is let go.
StillHeldLoosely(w) == row.status = "revoked"
StillHeld(w) == row.status = "revoked" /\ row.consentId = request[w].seen.consentId

LetConsentGo(w) ==
    /\ At(w, "letgo")
    /\ row' = IF StillHeld(w) THEN [row EXCEPT !.consentId = None] ELSE row
    /\ Finish(w)
    /\ UNCHANGED <<reference, session, answer, spent, refused>>

-----------------------------------------------------------------------------
(* removeConnection, deleteTestConnection and the retention sweep           *)

ReadForRemoval(w) ==
    /\ Exists
    /\ Begin(w, "remove", None, [NothingRead EXCEPT !.consentId = row.consentId,
                                                    !.movements = row.movements])
    /\ UNCHANGED <<row, reference, session, answer, spent, refused>>

RemovableAsRead(w) == Exists /\ ~request[w].seen.movements
Removable(w)       == Exists /\ ~row.movements

Remove(w) ==
    /\ At(w, "remove")
    /\ IF Removable(w)
       THEN RemoveRow /\ GotoWithId(w, "deleted")
       ELSE Finish(w) /\ UNCHANGED row
    /\ UNCHANGED <<reference, session, answer, spent, refused>>

ReadForTestDeletion(w) ==
    /\ Exists /\ row.isTest
    /\ Begin(w, "discard", None, [NothingRead EXCEPT !.consentId = row.consentId])
    /\ UNCHANGED <<row, reference, session, answer, spent, refused>>

\* A test connection goes with its movements.
Discard(w) ==
    /\ At(w, "discard")
    /\ IF Exists
       THEN RemoveRow /\ GotoWithId(w, "deleted")
       ELSE Finish(w) /\ UNCHANGED row
    /\ UNCHANGED <<reference, session, answer, spent, refused>>

\* The daily sweep: a consent started a day ago, never completed, with no accounts.
SweepAbandoned ==
    /\ Pending
    /\ reference[row.made] = "lapsed"
    /\ ~row.accounts
    /\ RemoveRow
    /\ UNCHANGED <<reference, session, answer, spent, refused, request>>

-----------------------------------------------------------------------------
(* syncConnection                                                           *)

ReadForSync(w) ==
    /\ row.status = "active"
    /\ Begin(w, "fetch", None,
             [NothingRead EXCEPT !.consentId = row.consentId,
                                 !.metadata.accountRefs = row.metadata.accountRefs])
    /\ UNCHANGED <<row, reference, session, answer, spent, refused>>

\* The movements of the accounts are fetched under the consent that granted them.
Fetch(w) ==
    /\ At(w, "fetch")
    /\ LET refs == request[w].seen.metadata.accountRefs
       IN  refs # None /\ session[refs] = "live"
    /\ Goto(w, "import")
    /\ UNCHANGED <<row, reference, session, answer, spent, refused>>

\* The consent's date has passed, or the provider refuses, which it may do for
\* reasons of its own.
FetchRefused(w) ==
    /\ At(w, "fetch")
    /\ refused' = refused \cup {request[w].seen.consentId}
    /\ GotoWithId(w, "expire")
    /\ UNCHANGED <<row, reference, session, answer, spent>>

\* importBankRows, which may bring nothing and fails if the row is gone.  Then
\* the next account is fetched, if there is one.
ImportRows(w, brings, more) ==
    /\ At(w, "import")
    /\ row' = IF Exists THEN [row EXCEPT !.movements = @ \/ brings] ELSE row
    /\ IF Exists /\ more THEN Goto(w, "fetch") ELSE Finish(w)
    /\ UNCHANGED <<reference, session, answer, spent, refused>>

\* markExpired: still the connection this sync read.
StillActive(w) == row.status = "active"
StillAsSynced(w) == row.status = "active" /\ row.consentId = request[w].seen.consentId

MarkExpired(w) ==
    /\ At(w, "expire")
    /\ row' = IF StillAsSynced(w) THEN [row EXCEPT !.status = "expired"] ELSE row
    /\ Finish(w)
    /\ UNCHANGED <<reference, session, answer, spent, refused>>

-----------------------------------------------------------------------------
(* What happens around the server                                           *)

\* The request ends where it is: a call failed, or the process stopped.
Lost(w) == ~Idle(w) /\ Finish(w) /\ UNCHANGED <<row, reference, session, answer, spent, refused>>

\* A consent ends at the bank: its date, or the owner in the bank's app.
BankEnds(a) ==
    /\ session[a] = "live"
    /\ session' = [session EXCEPT ![a] = "ended"]
    /\ UNCHANGED <<row, reference, answer, spent, refused, request>>

\* A day passes: references minted before it can no longer be used.
DayPasses ==
    /\ \E a \in Attempts : Fresh(a)
    /\ reference' = [a \in Attempts |-> IF Fresh(a) THEN "lapsed" ELSE reference[a]]
    /\ UNCHANGED <<row, session, answer, spent, refused, request>>

-----------------------------------------------------------------------------

Init ==
    /\ row = NoRow
    /\ reference = [a \in Attempts |-> "unused"]
    /\ session = [a \in Attempts |-> "none"]
    /\ answer = [a \in Attempts |-> {}]
    /\ spent = {}
    /\ refused = {}
    /\ request = [w \in Workers |-> IdleRequest]

Completion(w) ==
    \/ \E a \in Attempts : ReadForCompletion(w, a)
    \/ Claim(w)
    \/ \E granted \in BOOLEAN, carried \in SUBSET Parts : Exchange(w, granted, carried)
    \/ PersistAccounts(w) \/ RereadMetadata(w) \/ RewriteMetadata(w) \/ Activate(w)

Step(w) ==
    \/ \E a \in Attempts, isTest \in BOOLEAN : CreatePending(w, a, isTest)
    \/ StoreLink(w)
    \/ \E a \in Attempts : ReadForRenewal(w, a)
    \/ Park(w)
    \/ Completion(w)
    \/ ReadForDisconnect(w) \/ StopSyncing(w) \/ LetConsentGo(w)
    \/ \E confirmed \in BOOLEAN : AskBank(w, confirmed)
    \/ ReadForRemoval(w) \/ Remove(w)
    \/ ReadForTestDeletion(w) \/ Discard(w)
    \/ ReadForSync(w) \/ Fetch(w) \/ FetchRefused(w) \/ MarkExpired(w)
    \/ \E brings, more \in BOOLEAN : ImportRows(w, brings, more)
    \/ Lost(w)

Next ==
    \/ \E w \in Workers : Step(w)
    \/ \E a \in Attempts : BankEnds(a)
    \/ SweepAbandoned
    \/ DayPasses

Spec == Init /\ [][Next]_vars

-----------------------------------------------------------------------------
(* Properties                                                               *)

MaybeAttempt == Attempts \cup {None}

Metadata == [reference : MaybeAttempt, renewal : MaybeAttempt, accountRefs : MaybeAttempt]

Statuses == {"absent", "pending_consent", "active", "expired", "revoked", "removed"}

Rows == [status : Statuses, consentId : MaybeAttempt, metadata : Metadata,
         made : MaybeAttempt, isTest : BOOLEAN, accounts : BOOLEAN, movements : BOOLEAN]

Points == {"idle", "link", "park", "claim", "exchange", "accounts", "reread", "rewrite",
           "activate", "replaced", "stop", "disconnected", "letgo", "remove", "discard",
           "deleted", "fetch", "import", "expire"}

Seen == [status : Statuses, consentId : MaybeAttempt, metadata : Metadata,
         movements : BOOLEAN]

RequestRow == [pc : Points, attempt : MaybeAttempt, seen : Seen, metadata : Metadata]

\* Every variable holds what the schema and the handlers can put there; of a
\* connection that is gone, nothing is left.
TypeOK ==
    /\ row \in Rows
    /\ ~Exists => /\ row.consentId = None /\ row.metadata = NoMetadata
                  /\ ~row.accounts /\ ~row.movements
    /\ reference \in [Attempts -> {"unused", "minted", "sent", "lapsed"}]
    /\ session \in [Attempts -> {"none", "live", "ended"}]
    /\ spent \subseteq Attempts
    /\ answer \in [Attempts -> SUBSET Parts]
    /\ refused \subseteq MaybeAttempt
    /\ request \in [Workers -> RequestRow]

AnsweredWithout(part) == \E a \in Attempts : session[a] # "none" /\ part \notin answer[a]

\* What the row holds the bank really granted, whatever it refuses and wherever a
\* completion stops (consent.ts:366-384); and a connection that says it works is
\* without the id of its consent, or without account ids, only if the bank has once
\* answered without them.
ActiveIsGranted ==
    /\ row.consentId # None => session[row.consentId] # "none"
    /\ row.metadata.accountRefs # None => /\ session[row.metadata.accountRefs] # "none"
                                         /\ row.accounts
    /\ row.status \in {"active", "expired"} =>
           /\ row.consentId = None => AnsweredWithout("id")
           /\ row.metadata.accountRefs = None => AnsweredWithout("accounts")

\* A first consent's reference is claimed by one completion only, however often
\* the redirect comes back, and claims stay one when others fail (consent.ts:344-359).
FirstReferenceSpentOnce ==
    [][\A w \in Workers :
         (At(w, "claim") /\ request'[w].pc = "exchange" /\ Pending)
             => request[w].attempt \notin spent]_vars

\* A connection is marked expired only from active, and only if a sync was
\* refused on the very consent it holds: a sync that started before a renewal or
\* a disconnection does not speak for what came after (sync.ts:115-127).
ExpiryIsEarned ==
    [][(row'.status = "expired" /\ row.status # "expired")
           => row.status = "active" /\ row.consentId \in refused]_vars

\* The id of a consent leaves the row only when the bank's access under it has
\* ended (connections.ts:94-95), when another takes its place, or when a renewal
\* completes on an answer without an id: no disconnection loses the handle of a
\* consent that is still good.
LetGoOnlyWhenEnded ==
    [][(row.consentId # None /\ row'.consentId = None /\ row'.status # "removed") =>
           \/ session[row.consentId] = "ended"
           \/ \E w \in Workers : At(w, "activate") /\ ~Carries(w, "id")]_vars

\* Movements are the owner's records: no removal, sweep or race takes them with
\* the connection, except those of a test (connections.ts:205-212).
RemovalKeepsMovements ==
    [][(row.movements /\ ~row.isTest) => row'.movements]_vars

\* What connections.ts:92-93 says: once a connection is disconnected, a
\* completion that had started on it before does not bring it back.
DisconnectedStays ==
    [][(row.status = "revoked" /\ row'.status = "active")
           => \E w \in Workers : /\ At(w, "activate")
                                 /\ request[w].seen.status = "revoked"]_vars

-----------------------------------------------------------------------------
(* Refinement                                                               *)

\* From the exchange to the write that puts its consent in place.
Holding == {"accounts", "reread", "rewrite", "activate"}

Granted == {a \in Attempts : session[a] # "none"}
Ended   == {a \in Attempts : session[a] = "ended"}
InHand  == {request[w].attempt : w \in {v \in Workers : request[v].pc \in Holding}}

Life == INSTANCE ConsentLife WITH
            status <- row.status, consent <- row.consentId,
            test <- row.isTest, movements <- row.movements,
            granted <- Granted, ended <- Ended, inHand <- InHand

\* Split at every await, with requests overlapping and lost anywhere, the handlers
\* do what ConsentLife does in one step: a consent is put in place by the one
\* completion the bank granted it to, and every write is about the consent it read.
ImplementsLife == Life!Spec

\* A consent once replaced, let go or lost is never put in place again.  The
\* unconditional write of the metadata can bring a spent reference back
\* (consent.ts:493); that the redirect with it then leads nowhere is what the bank's
\* one-time code and the end of a refused completion (consent.ts:366) make sure of.
PlacedOnce == Life!PlacedOnce
=============================================================================
