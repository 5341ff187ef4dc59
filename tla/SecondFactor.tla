----------------------------- MODULE SecondFactor -----------------------------
(***************************************************************************)
(* One account's second factor and the sessions signed in to it: the jwt    *)
(* callback (lib/services/auth/auth.ts), the session epoch and its cache     *)
(* (session-epoch.ts), the proofs that release or keep a session, and the    *)
(* routes that set the factor up, turn it on and off, and answer it          *)
(* (app/api/auth/totp, app/api/auth/passkey).                                *)
(*                                                                         *)
(* Every request is split at its awaits; a value computed in the turn that    *)
(* issues a statement is computed with it.  Whoever sends a code may send the *)
(* right one: an authenticator code is right for the secret it is checked     *)
(* against, and each secret that is confirmed comes with its own backup       *)
(* codes.  What a browser does with a proof is its own affair: it may hand it  *)
(* over late or never.                                                       *)
(***************************************************************************)
EXTENDS Naturals, FiniteSets

CONSTANTS
    Sessions,     \* the sign-ins to the account, each once
    Secrets,      \* the authenticator secrets; one nobody holds may be made again
    BackupCodes,  \* the backup codes that come with a confirmed secret
    Keys,         \* the passkeys people's devices hold
    Asked,        \* what requests may ask for
    Workers,      \* requests the server may be working on at once
    MaxTime,      \* the clock's bound
    None          \* null

ASSUME SecondFactorAssumption ==
    /\ None \notin Sessions \cup Secrets
    /\ MaxTime \in Nat \ {0}

VARIABLES
    user,      \* the account's row: the factor, its stamp, its passkeys
    now,       \* Date.now()
    session,   \* each session's token, and the proofs its browser holds
    cache,     \* the stamp as this process remembers it, or None
    request    \* the requests in flight

vars == <<user, now, session, cache, request>>

\* A backup code is named by the secret it came with.
Codes      == Secrets \X BackupCodes
CodesOf(x) == {x} \X BackupCodes

\* `validFrom' 0: no stamp.  `confirmed', for the properties only: an app has shown a
\* code for the secret that is held.
NoUser == [secret |-> None, enabled |-> FALSE, codes |-> {}, validFrom |-> 0,
           passkeys |-> {}, confirmed |-> FALSE]

\* `keepFor': the sign-in time a keep proof was made for, 0 when there is none.
\* `accepted', for the properties only: its own second factor was accepted.
NoSession == [state |-> "none", signedAt |-> 0, pending |-> FALSE,
              mfaProof |-> FALSE, keepFor |-> 0, accepted |-> FALSE]

FactorOn(x, keys) == [secret |-> x, enabled |-> TRUE, codes |-> CodesOf(x), validFrom |-> 1,
                      passkeys |-> keys, confirmed |-> TRUE]

\* A session that is over: a request already sent with its token still has it.
Over(s) == [s EXCEPT !.state = "over", !.mfaProof = FALSE, !.keepFor = 0,
                     !.accepted = FALSE]

\* What a request read of the row, as far as it uses it later; `signedAt' is the sign-in
\* time a keep proof is made for, `code' the code or the passkey it was sent.
NothingRead == [secret |-> None, enabled |-> FALSE, codes |-> {}, validFrom |-> 0]

IdleRequest == [pc |-> "idle", session |-> None, read |-> NothingRead,
                code |-> None, signedAt |-> 0]

Idle(w)     == request[w].pc = "idle"
At(w, pc)   == request[w].pc = pc
Goto(w, pc) == request' = [request EXCEPT ![w].pc = pc]
Finish(w)   == request' = [request EXCEPT ![w] = IdleRequest]

SessionOf(w) == request[w].session

\* A proof handed to a browser whose session is over is of no use to it.
LiveSession(w) == session[SessionOf(w)].state = "live"

-----------------------------------------------------------------------------
(* Signing in                                                               *)

\* The token's sign-in time is set before the account is read.
SignIn(w, s) ==
    /\ Idle(w) /\ session[s].state = "none"
    /\ session' = [session EXCEPT ![s].state = "signing", ![s].signedAt = now]
    /\ request' = [request EXCEPT ![w] =
           [IdleRequest EXCEPT !.pc = "mint", !.session = s]]
    /\ UNCHANGED <<user, now, cache>>

\* Held pending if the account has a factor now.
Mint(w) ==
    /\ At(w, "mint")
    /\ session' = [session EXCEPT ![SessionOf(w)].state = "live",
                                  ![SessionOf(w)].pending = user.enabled]
    /\ Finish(w)
    /\ UNCHANGED <<user, now, cache>>

-----------------------------------------------------------------------------
(* A request with a session: the jwt callback, then the route               *)

\* A waiting session may only answer its factor, and only such a session may.
Answering == {"verify", "passkey"}
Managing  == {"setup", "enable", "disable", "register", "remove"}
Admitted(s, op) ==
    \/ op \in Answering /\ session[s].pending
    \/ op \in Managing /\ ~session[s].pending

SessionEnded(s, validFrom) == validFrom # 0 /\ session[s].signedAt < validFrom

ReleasedByAny(s) == \E t \in Sessions : session[t].mfaProof
Released(s)      == session[s].mfaProof

\* What the callback does once it has the stamp, and what the request asked for: the
\* session ends, or it is released by its own proof, or the route begins.
Judge(w, s, op, validFrom) ==
    IF SessionEnded(s, validFrom) THEN
       /\ session' = [session EXCEPT ![s] = Over(@)]
       /\ Finish(w)
    ELSE IF op = "release" /\ Released(s) THEN
       /\ session' = [session EXCEPT ![s].pending = FALSE, ![s].mfaProof = FALSE]
       /\ Finish(w)
    ELSE IF Admitted(s, op) THEN
       /\ request' = [request EXCEPT ![w] =
              [IdleRequest EXCEPT !.pc = op, !.session = s,
                  !.signedAt = IF op = "enable" THEN session[s].signedAt ELSE 0]]
       /\ UNCHANGED session
    ELSE Finish(w) /\ UNCHANGED session

\* The stamp comes from the cache while it has one, otherwise from the row.
BeginCached(w, s, op) ==
    /\ Idle(w) /\ session[s].state = "live"
    /\ cache # None
    /\ Judge(w, s, op, cache)
    /\ UNCHANGED <<user, now, cache>>

Begin(w, s) ==
    /\ Idle(w) /\ session[s].state = "live"
    /\ cache = None
    /\ request' = [request EXCEPT ![w] =
           [IdleRequest EXCEPT !.pc = "epoch", !.session = s]]
    /\ UNCHANGED <<user, now, session, cache>>

ReadEpoch(w) ==
    /\ At(w, "epoch")
    /\ request' = [request EXCEPT ![w].pc = "remember",
                                  ![w].read.validFrom = user.validFrom]
    /\ UNCHANGED <<user, now, session, cache>>

\* Remembered when the answer is back, whatever was written meanwhile.
RememberEpoch(w, op) ==
    /\ At(w, "remember")
    /\ cache' = request[w].read.validFrom
    /\ Judge(w, SessionOf(w), op, request[w].read.validFrom)
    /\ UNCHANGED <<user, now>>

\* A stamp that cannot be read ends nothing.
EpochUnreadable(w, op) ==
    /\ At(w, "epoch")
    /\ Judge(w, SessionOf(w), op, 0)
    /\ UNCHANGED <<user, now, cache>>

\* The session that turned the factor on renews itself with its keep proof.
KeepAhead(s) ==
    /\ session[s].state = "live"
    /\ session[s].keepFor # 0 /\ session[s].keepFor = session[s].signedAt
    /\ session' = [session EXCEPT ![s].signedAt = now + 1]
    /\ UNCHANGED <<user, now, cache, request>>
Keep(s) ==
    /\ session[s].state = "live"
    /\ session[s].keepFor # 0 /\ session[s].keepFor = session[s].signedAt
    /\ session' = [session EXCEPT ![s].signedAt = now]
    /\ UNCHANGED <<user, now, cache, request>>

\* Five seconds pass, or newer accounts push the entry out.
CacheExpiresUnlessBlank ==
    /\ cache \notin {None, 0}
    /\ cache' = None
    /\ UNCHANGED <<user, now, session, request>>
CacheExpires ==
    /\ cache # None
    /\ cache' = None
    /\ UNCHANGED <<user, now, session, request>>

-----------------------------------------------------------------------------
(* totp/setup and totp/enable                                               *)

Setup(w) ==
    /\ At(w, "setup")
    /\ IF user.enabled THEN Finish(w) ELSE Goto(w, "storeSecret")
    /\ UNCHANGED <<user, now, session, cache>>

\* A secret like no other that is held or being confirmed.
Fresh(x) == x # user.secret /\ \A v \in Workers : request[v].read.secret # x

\* Written only while the factor is still off.
StoreSecret(w, x) ==
    /\ At(w, "storeSecret")
    /\ Fresh(x)
    /\ user' = IF user.enabled THEN user
               ELSE [user EXCEPT !.secret = x, !.confirmed = FALSE]
    /\ Finish(w)
    /\ UNCHANGED <<now, session, cache>>

\* Goes on with the factor a code was just checked against.
ReadFactor(w, pc) ==
    request' = [request EXCEPT ![w].pc = pc, ![w].read.secret = user.secret,
                               ![w].read.enabled = user.enabled]

Enable(w) ==
    /\ At(w, "enable")
    /\ IF user.secret = None \/ user.enabled
       THEN Finish(w) /\ UNCHANGED user
       ELSE ReadFactor(w, "turnOn") /\ user' = [user EXCEPT !.confirmed = TRUE]
    /\ UNCHANGED <<now, session, cache>>

\* The row still is what the code was checked against.
UnchangedState(w)  == user.enabled = request[w].read.enabled
UnchangedSecret(w) == user.secret = request[w].read.secret
Unchanged(w) ==
    /\ user.secret = request[w].read.secret
    /\ user.enabled = request[w].read.enabled

\* Turned on, stamped and given its backup codes in one statement.
TurnOn(w) ==
    /\ At(w, "turnOn")
    /\ IF Unchanged(w)
       THEN /\ user' = [user EXCEPT !.enabled = TRUE, !.validFrom = now,
                                    !.codes = CodesOf(user.secret)]
            /\ session' = [session EXCEPT ![SessionOf(w)].accepted = @ \/ LiveSession(w)]
            /\ request' = [request EXCEPT ![w].pc = "stamped",
                   ![w].read = [NothingRead EXCEPT !.validFrom = now]]
       ELSE Finish(w) /\ UNCHANGED <<user, session>>
    /\ UNCHANGED <<now, cache>>

RememberStamp(w) ==
    /\ At(w, "stamped")
    /\ cache' = request[w].read.validFrom
    /\ request' = [request EXCEPT ![w].pc = "clearKeys", ![w].read = NothingRead]
    /\ UNCHANGED <<user, now, session>>

\* Turning the factor on or off ends with the passkeys removed; the session that
\* turned it on gets its keep proof.
ClearPasskeys(w) ==
    /\ At(w, "clearKeys")
    /\ user' = [user EXCEPT !.passkeys = {}]
    /\ session' = [session EXCEPT ![SessionOf(w)].keepFor =
           IF LiveSession(w) /\ request[w].signedAt # 0 THEN request[w].signedAt ELSE @]
    /\ Finish(w)
    /\ UNCHANGED <<now, cache>>

-----------------------------------------------------------------------------
(* totp/disable                                                             *)

\* provesSecondFactor: the authenticator's code, named by its secret, or a code of
\* the stored list, whichever secret that list came with.  Nothing is spent.
RightCodes == {user.secret} \cup user.codes

\* A factor that is on takes a right code; without one nothing is asked.
Disable(w, c) ==
    /\ At(w, "disable")
    /\ c \in IF user.enabled /\ user.secret # None THEN RightCodes ELSE {None}
    /\ request' = [request EXCEPT ![w].pc = "turnOff", ![w].code = c,
           ![w].read.secret = user.secret, ![w].read.enabled = user.enabled]
    /\ UNCHANGED <<user, now, session, cache>>

TurnOff(w) ==
    /\ At(w, "turnOff")
    /\ IF Unchanged(w)
       THEN /\ user' = [user EXCEPT !.enabled = FALSE, !.secret = None, !.codes = {},
                                    !.confirmed = FALSE]
            /\ request' = [request EXCEPT ![w].pc = "clearKeys", ![w].read = NothingRead,
                                          ![w].code = None, ![w].signedAt = 0]
       ELSE Finish(w) /\ UNCHANGED user
    /\ UNCHANGED <<now, session, cache>>

-----------------------------------------------------------------------------
(* totp/verify                                                              *)

GiveProof(w) ==
    session' = [session EXCEPT ![SessionOf(w)].mfaProof = @ \/ LiveSession(w),
                               ![SessionOf(w)].accepted = @ \/ LiveSession(w)]

\* An authenticator code is accepted at once.
VerifyTotp(w) ==
    /\ At(w, "verify")
    /\ IF user.secret # None /\ user.enabled
       THEN GiveProof(w) ELSE UNCHANGED <<session>>
    /\ Finish(w)
    /\ UNCHANGED <<user, now, cache>>

\* A backup code is looked up in the list as read, and the rest of it written back,
\* whatever the list, the secret and the factor are by then.
VerifyBackup(w, c) ==
    /\ At(w, "verify")
    /\ user.enabled /\ c \in user.codes
    /\ request' = [request EXCEPT ![w].pc = "spend", ![w].read.codes = user.codes \ {c}]
    /\ UNCHANGED <<user, now, session, cache>>

SpendCode(w) ==
    /\ At(w, "spend")
    /\ user' = [user EXCEPT !.codes = request[w].read.codes]
    /\ GiveProof(w)
    /\ Finish(w)
    /\ UNCHANGED <<now, cache>>

-----------------------------------------------------------------------------
(* Passkeys                                                                 *)

\* register/verify, for a browser that holds a challenge register/options made for
\* the account and a right code.
Register(w) ==
    /\ At(w, "register")
    /\ IF user.enabled THEN Goto(w, "saveKey") ELSE Finish(w)
    /\ UNCHANGED <<user, now, session, cache>>

SaveKey(w, k) ==
    /\ At(w, "saveKey")
    /\ user' = [user EXCEPT !.passkeys = @ \cup {k}]
    /\ Finish(w)
    /\ UNCHANGED <<now, session, cache>>

\* Taking a code, and scoped to the account.
RemoveKey(w) ==
    /\ At(w, "remove")
    /\ IF RightCodes # {None} THEN Goto(w, "dropKey") ELSE Finish(w)
    /\ UNCHANGED <<user, now, session, cache>>

DropKey(w, k) ==
    /\ At(w, "dropKey")
    /\ user' = [user EXCEPT !.passkeys = @ \ {k}]
    /\ Finish(w)
    /\ UNCHANGED <<now, session, cache>>

\* authenticate/verify: the passkey, then whether the factor is on, then the
\* count written to the passkey, which fails if it is gone.
FindKey(w, k) ==
    /\ At(w, "passkey")
    /\ IF k \in user.passkeys
       THEN request' = [request EXCEPT ![w].pc = "keyFactor", ![w].code = k]
       ELSE Finish(w)
    /\ UNCHANGED <<user, now, session, cache>>

CheckFactor(w) ==
    /\ At(w, "keyFactor")
    /\ IF user.enabled THEN Goto(w, "useKey") ELSE Finish(w)
    /\ UNCHANGED <<user, now, session, cache>>

UseKey(w) ==
    /\ At(w, "useKey")
    /\ IF request[w].code \in user.passkeys
       THEN GiveProof(w) ELSE UNCHANGED <<session>>
    /\ Finish(w)
    /\ UNCHANGED <<user, now, cache>>

-----------------------------------------------------------------------------

Tick ==
    /\ now < MaxTime
    /\ now' = now + 1
    /\ UNCHANGED <<user, session, cache, request>>

\* A request that fails at any await; the browser of one signing in tries again
\* as another session.
Lose(w) ==
    /\ ~Idle(w)
    /\ session' = [session EXCEPT ![SessionOf(w)] =
           IF @.state = "signing" THEN Over(@) ELSE @]
    /\ Finish(w)
    /\ UNCHANGED <<user, now, cache>>

\* The account has no second factor, has set one up without a code, or has had one
\* since before now.
Init ==
    /\ user \in {NoUser} \cup {[NoUser EXCEPT !.secret = x] : x \in Secrets}
                   \cup {FactorOn(x, keys) : x \in Secrets, keys \in SUBSET Keys}
    /\ now = 1
    /\ session = [s \in Sessions |-> NoSession]
    /\ cache = None
    /\ request = [w \in Workers |-> IdleRequest]

SessionStep(w) ==
    \/ \E s \in Sessions : SignIn(w, s) \/ Begin(w, s)
    \/ Mint(w)
    \/ \E s \in Sessions, op \in Asked : BeginCached(w, s, op)
    \/ ReadEpoch(w)
    \/ \E op \in Asked : RememberEpoch(w, op) \/ EpochUnreadable(w, op)

RouteStep(w) ==
    \/ Setup(w) \/ (\E x \in Secrets : StoreSecret(w, x))
    \/ Enable(w) \/ TurnOn(w) \/ RememberStamp(w) \/ ClearPasskeys(w)
    \/ (\E c \in RightCodes \cup {None} : Disable(w, c)) \/ TurnOff(w)
    \/ VerifyTotp(w) \/ (\E c \in user.codes : VerifyBackup(w, c)) \/ SpendCode(w)
    \/ Register(w) \/ RemoveKey(w)
    \/ (\E k \in Keys : SaveKey(w, k) \/ DropKey(w, k) \/ FindKey(w, k))
    \/ CheckFactor(w) \/ UseKey(w)

Next ==
    \/ \E w \in Workers : SessionStep(w) \/ RouteStep(w) \/ Lose(w)
    \/ \E s \in Sessions : Keep(s)
    \/ CacheExpires
    \/ Tick

\* Cached entries age; a session in use asks again and again, and some of the times
\* its request has to read the row the answer comes.  Every request goes on or fails;
\* a route may fail each time.
Asks(s)    == \E w \in Workers : Begin(w, s) \/ \E op \in Asked : BeginCached(w, s, op)
Reads(s)  == \E w \in Workers : SessionOf(w) = s /\ ReadEpoch(w)
Judges(s) == \E w \in Workers, op \in Asked : SessionOf(w) = s /\ RememberEpoch(w, op)
Fairness ==
    /\ WF_vars(CacheExpires)
    /\ \A w \in Workers : WF_vars((SessionStep(w) /\ ~Idle(w)) \/ RouteStep(w) \/ Lose(w))
    /\ \A s \in Sessions :
          /\ SF_vars(Asks(s))
          /\ SF_vars(Reads(s)) /\ SF_vars(Judges(s))

Spec == Init /\ [][Next]_vars
FairSpec == Spec /\ Fairness

-----------------------------------------------------------------------------
(* Properties                                                               *)

Pcs   == {"idle", "mint", "epoch", "remember", "storeSecret", "turnOn", "stamped", "clearKeys",
          "turnOff", "spend", "saveKey", "dropKey", "keyFactor", "useKey"}
             \cup Answering \cup Managing

UserType ==
    [secret : Secrets \cup {None}, enabled : BOOLEAN, codes : SUBSET Codes,
     validFrom : 0..MaxTime, passkeys : SUBSET Keys, confirmed : BOOLEAN]

SessionType ==
    [state : {"none", "signing", "live", "over"}, signedAt : 0..MaxTime, pending : BOOLEAN,
     mfaProof : BOOLEAN, keepFor : 0..MaxTime, accepted : BOOLEAN]

ReadType ==
    [secret : Secrets \cup {None}, enabled : BOOLEAN, codes : SUBSET Codes,
     validFrom : 0..MaxTime]

RequestType ==
    [pc : Pcs, session : Sessions \cup {None}, read : ReadType,
     code : Codes \cup Secrets \cup Keys \cup {None}, signedAt : 0..MaxTime]

\* The type of every variable.
TypeOK ==
    /\ user \in UserType
    /\ now \in 1..MaxTime
    /\ session \in [Sessions -> SessionType]
    /\ cache \in {None} \cup 0..MaxTime
    /\ request \in [Workers -> RequestType]

\* While the factor is on, every session that was signed in after it was turned on
\* and is not waiting for a code has had its own factor accepted: another
\* session's, or a proof made for one, releases nothing.
OwnProof ==
    \A s \in Sessions :
        session[s].state = "live" /\ ~session[s].pending /\ user.enabled
            => session[s].accepted \/ session[s].signedAt <= user.validFrom

\* Nobody is locked out: the secret of a factor that is on is one an app has shown a
\* code for, whatever setup stored or removal cleared between that code and the write.
FactorConfirmed == user.enabled => user.secret # None /\ user.confirmed

\* The factor goes off only for a signed-in session that showed a right code while
\* this very secret was on: its authenticator's, never another secret's, or one of the
\* list the account then held; and not for a request let past because it was off.
OffByItsOwnCode ==
    [][user.enabled /\ ~user'.enabled =>
          \E w \in Workers : /\ At(w, "turnOff") /\ ~session[SessionOf(w)].pending
                             /\ request[w].read.secret = user.secret
                             /\ request[w].code \in {user.secret} \cup Codes]_vars

\* A session older than the stamp that stays in use ends, unless it is the one
\* that turned the factor on and renews itself: no cached reading keeps it.
EndedSessionsEnd ==
    \A s \in Sessions :
        session[s].state = "live" /\ SessionEnded(s, user.validFrom)
            ~> ~(session[s].state = "live" /\ SessionEnded(s, user.validFrom))

=============================================================================
