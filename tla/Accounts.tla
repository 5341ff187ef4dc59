------------------------------- MODULE Accounts -------------------------------
(***************************************************************************)
(* Who has an account, and who may be what: sign-ins and the registration   *)
(* gate (lib/services/auth/registration.ts), the switches and invitations   *)
(* behind it (sign-up.ts), role changes and erasures (accounts.ts), and the  *)
(* administrator routes that call them.                                     *)
(*                                                                         *)
(* Every request is split at its awaits; a single SQL statement and a       *)
(* transaction that begins with a write are one step each, since SQLite has  *)
(* one writer.  The account that signs in comes from Google, the one         *)
(* provider of a production instance.                                        *)
(***************************************************************************)
EXTENDS Naturals, FiniteSets

CONSTANTS
    Emails,     \* the addresses people sign in with
    Allowed,    \* AUTH_ALLOWED_EMAILS
    Verified,   \* the addresses the provider says it verified
    Ids,        \* account ids; an id is never given twice
    Tickets,    \* invitation ids; an id is never given twice
    Workers,    \* requests the server may be working on at once
    None        \* null

ASSUME AccountsAssumption ==
    /\ Allowed \subseteq Emails /\ Verified \subseteq Emails
    /\ None \notin Emails \cup Ids \cup Tickets

VARIABLES
    role,        \* each account's role, or why it has none
    email,       \* each account's address
    settings,    \* the two sign-up switches
    invitation,  \* the invitation held for each address
    issued,      \* the invitation ids given so far
    request,     \* the requests in flight
    open         \* the doors found open at some moment of each provisioning

vars == <<role, email, settings, invitation, issued, request, open>>

Registry == INSTANCE AccountRegistry

Roles   == {"ADMIN", "MANAGER"}
Present == {i \in Ids : role[i] \in Roles}
Admins  == {i \in Ids : role[i] = "ADMIN"}
AccountsOf(e) == {i \in Present : email[i] = e}

\* DEFAULT_SIGN_UP_SETTINGS; settings that cannot be read are both closed.
DefaultSettings == [googleSignUp |-> FALSE, invitations |-> TRUE]
ClosedSettings  == [googleSignUp |-> FALSE, invitations |-> FALSE]

NoInvitation == [id |-> None, role |-> None, lapsed |-> FALSE]
Live(inv)    == inv.id # None /\ ~inv.lapsed

Refused == [reason |-> "refused", role |-> None, id |-> None]

\* None: a switch the request does not name.
NoPatch == [googleSignUp |-> None, invitations |-> None]
Patches == [googleSignUp : BOOLEAN \cup {None}, invitations : BOOLEAN \cup {None}]

IdleRequest ==
    [pc |-> "idle", stage |-> None, actor |-> None, target |-> None, from |-> None, to |-> None,
     attempt |-> 0, email |-> None, patch |-> NoPatch, exists |-> FALSE,
     first |-> FALSE, settings |-> ClosedSettings, decision |-> Refused]

Idle(w)     == request[w].pc = "idle"
At(w, pc)   == request[w].pc = pc
Goto(w, pc) == request' = [request EXCEPT ![w].pc = pc]
Finish(w)   == request' = [request EXCEPT ![w] = IdleRequest]

-----------------------------------------------------------------------------
(* Who is allowed to sign in: decideSignIn                                  *)

Decision(reason, r, id) == [reason |-> reason, role |-> r, id |-> id]

\* What the request read, and the invitation it found last.
DecideSignIn(q, inv) ==
    LET invited    == q.settings.invitations /\ Live(inv)
        googleOpen == q.settings.googleSignUp
    IN CASE q.exists                    -> Decision("existing_user", None, None)
         [] ~q.exists /\ q.first        -> Decision("bootstrap", "ADMIN", None)
         [] ~q.exists /\ ~q.first /\ q.email \in Allowed
                                        -> Decision("allowlisted", "ADMIN", None)
         [] ~q.exists /\ ~q.first /\ q.email \notin Allowed ->
              IF q.email \notin Verified \/ ~(invited \/ googleOpen) THEN Refused
              ELSE IF invited THEN Decision("invited", inv.role, inv.id)
              ELSE Decision("open_google", "MANAGER", None)

\* The gate only lets an identity through; provisioning acts on its own decision.
Decide(w, q, inv) ==
    LET d     == DecideSignIn(q, inv)
        onward == [IdleRequest EXCEPT !.stage = "provision", !.email = q.email]
    IN request' = [request EXCEPT ![w] =
           IF d = Refused THEN IdleRequest
           ELSE IF q.stage = "gate" THEN [onward EXCEPT !.pc = "find"]
           ELSE IF d.reason = "existing_user" THEN [onward EXCEPT !.pc = "raced"]
           ELSE [onward EXCEPT !.pc = "create", !.decision = d]]

-----------------------------------------------------------------------------
(* A sign-in: the gate, then provisionAccount                               *)

SignIn(w, e) ==
    /\ Idle(w)
    /\ request' = [request EXCEPT ![w] =
           [IdleRequest EXCEPT !.pc = "lookup", !.stage = "gate", !.email = e]]
    /\ UNCHANGED <<role, email, settings, invitation, issued>>

LookUpUser(w) ==
    /\ At(w, "lookup")
    /\ request' = [request EXCEPT ![w].pc = "count",
                       ![w].exists = AccountsOf(request[w].email) # {}]
    /\ UNCHANGED <<role, email, settings, invitation, issued>>

\* The switches and the invitations are read only for a newcomer.
CountUsers(w) ==
    LET q == [request[w] EXCEPT !.first = (Present = {})]
    IN /\ At(w, "count")
       /\ IF q.exists \/ q.first \/ q.email \in Allowed
          THEN Decide(w, q, NoInvitation)
          ELSE Goto(w, "settings")
       /\ UNCHANGED <<role, email, settings, invitation, issued>>

ReadOrDefault(readable) == IF readable THEN settings ELSE DefaultSettings
ReadOrClosed(readable)  == IF readable THEN settings ELSE ClosedSettings

ReadSignUpSettings(w, readable) ==
    /\ At(w, "settings")
    /\ request' = [request EXCEPT ![w].pc = "invitation",
                       ![w].settings = ReadOrClosed(readable)]
    /\ UNCHANGED <<role, email, settings, invitation, issued>>

FindLiveInvitation(w, readable) ==
    /\ At(w, "invitation")
    /\ Decide(w, request[w], IF readable THEN invitation[request[w].email]
                                         ELSE NoInvitation)
    /\ UNCHANGED <<role, email, settings, invitation, issued>>

\* An account that exists signs in as it is; otherwise the policy decides again.
FindAccount(w) ==
    /\ At(w, "find")
    /\ IF AccountsOf(request[w].email) # {} THEN Finish(w) ELSE Goto(w, "lookup")
    /\ UNCHANGED <<role, email, settings, invitation, issued>>

NeverTaken(e) == FALSE
Taken(e)      == AccountsOf(e) # {}

\* One transaction: the row, the check that someone administers it, and the
\* invitation it used up.  A taken address is looked up instead.
CreateAccount(w, i) ==
    LET q == request[w]
        d == q.decision
        unmanaged == d.role # "ADMIN" /\ Admins = {}
    IN /\ At(w, "create")
       /\ role[i] = "unused"
       /\ IF Taken(q.email) THEN
             Goto(w, "raced") /\ UNCHANGED <<role, email, invitation>>
          ELSE IF unmanaged THEN
             Finish(w) /\ UNCHANGED <<role, email, invitation>>
          ELSE
             /\ role' = [role EXCEPT ![i] = d.role]
             /\ email' = [email EXCEPT ![i] = q.email]
             /\ invitation' = [e \in Emails |->
                    IF d.reason = "invited" /\ invitation[e].id = d.id
                    THEN NoInvitation ELSE invitation[e]]
             /\ Finish(w)
       /\ UNCHANGED <<settings, issued>>

\* Created by another sign-in meanwhile: it is that account, or the sign-in fails.
FindRaced(w) ==
    /\ At(w, "raced")
    /\ Finish(w)
    /\ UNCHANGED <<role, email, settings, invitation, issued>>

-----------------------------------------------------------------------------
(* changeAccountRole                                                        *)

Attempts == 3

\* requireAdmin reads the role stored on the account, not the session's.
ChangeAccountRole(w, actor, i, r) ==
    /\ Idle(w) /\ actor \in Admins
    /\ request' = [request EXCEPT ![w] =
           [IdleRequest EXCEPT !.pc = "target", !.actor = actor, !.target = i, !.to = r]]
    /\ UNCHANGED <<role, email, settings, invitation, issued>>

ReadTarget(w) ==
    LET q == request[w]
    IN /\ At(w, "target")
       /\ IF q.target \notin Present \/ role[q.target] = q.to
          THEN Finish(w)
          ELSE request' = [request EXCEPT ![w].pc = "write", ![w].from = role[q.target]]
       /\ UNCHANGED <<role, email, settings, invitation, issued>>

MayWriteLast(q)     == role[q.target] = q.from /\ q.actor \in Admins
MayWriteAnyone(q)   == role[q.target] = q.from /\ (q.target \in Admins => Admins # {q.target})

\* What the UPDATE checks as it writes.
MayWrite(q) ==
    /\ role[q.target] = q.from
    /\ q.actor \in Admins
    /\ q.target \in Admins => Admins # {q.target}

WriteRole(w) ==
    LET q == request[w]
    IN /\ At(w, "write")
       /\ IF MayWrite(q)
          THEN role' = [role EXCEPT ![q.target] = q.to] /\ Finish(w)
          ELSE Goto(w, "classify") /\ UNCHANGED role
       /\ UNCHANGED <<email, settings, invitation, issued>>

LastAttemptLate(q) == q.attempt = Attempts
LastAttempt(q)     == q.attempt + 1 = Attempts

\* Why nothing was written: only an account that changed meanwhile is read again.
Classify(w) ==
    LET q == request[w]
        forbidden == q.actor \notin Admins
        lastAdmin == q.from = "ADMIN" /\ q.target \in Admins
    IN /\ At(w, "classify")
       /\ IF forbidden \/ lastAdmin \/ LastAttempt(q)
          THEN Finish(w)
          ELSE request' = [request EXCEPT ![w].pc = "target", ![w].from = None,
                                          ![w].attempt = @ + 1]
       /\ UNCHANGED <<role, email, settings, invitation, issued>>

-----------------------------------------------------------------------------
(* deleteOwnAccount                                                         *)

DeleteOwnAccount(w, i) ==
    /\ Idle(w) /\ i \in Present
    /\ request' = [request EXCEPT ![w] =
           [IdleRequest EXCEPT !.pc = "delete", !.actor = i]]
    /\ UNCHANGED <<role, email, settings, invitation, issued>>

MayGo(i) == i \in Present /\ (i \in Admins => Admins # {i} \/ Present = {i})

\* The transaction lists the live bank consents it is about to cascade over.  A
\* refusal rolls it back, and is only explained.
DeleteAccount(w, consents) ==
    LET i == request[w].actor
    IN /\ At(w, "delete")
       /\ IF MayGo(i)
          THEN /\ role' = [role EXCEPT ![i] = "erased"]
               /\ IF consents THEN Goto(w, "revoke") ELSE Finish(w)
          ELSE Finish(w) /\ UNCHANGED role
       /\ UNCHANGED <<email, settings, invitation, issued>>

\* Each is ended at the bank, and the account's files removed.  What becomes of
\* a consent is BankConsent's.
RevokeAtBank(w) ==
    /\ At(w, "revoke")
    /\ Finish(w)
    /\ UNCHANGED <<role, email, settings, invitation, issued>>

-----------------------------------------------------------------------------
(* The administrator's switches and invitations                             *)

UpdateSignUpSettings(w, actor, patch) ==
    /\ Idle(w) /\ actor \in Admins /\ patch # NoPatch
    /\ request' = [request EXCEPT ![w] =
           [IdleRequest EXCEPT !.pc = "before", !.patch = patch]]
    /\ UNCHANGED <<role, email, settings, invitation, issued>>

\* What stands before: for the audit, and for the row, if there is none yet.
ReadSettingsBefore(w) ==
    /\ At(w, "before")
    /\ request' = [request EXCEPT ![w].pc = "switches", ![w].settings = settings]
    /\ UNCHANGED <<role, email, settings, invitation, issued>>

PatchedOverReading(q) ==
    [s \in DOMAIN settings |-> IF q.patch[s] = None THEN q.settings[s] ELSE q.patch[s]]

\* Only the switches the request names are written, over what is stored now.  While
\* there is no row the defaults stand, and the request that makes it has read them.
Patched(q) == [s \in DOMAIN settings |-> IF q.patch[s] = None THEN settings[s] ELSE q.patch[s]]

StoreSettings(w) ==
    /\ At(w, "switches")
    /\ settings' = Patched(request[w])
    /\ Finish(w)
    /\ UNCHANGED <<role, email, invitation, issued>>

CreateInvitation(w, actor, e, r) ==
    /\ Idle(w) /\ actor \in Admins
    /\ request' = [request EXCEPT ![w] =
           [IdleRequest EXCEPT !.pc = "invitee", !.email = e, !.to = r]]
    /\ UNCHANGED <<role, email, settings, invitation, issued>>

CheckInvitee(w) ==
    /\ At(w, "invitee")
    /\ IF AccountsOf(request[w].email) # {} THEN Finish(w) ELSE Goto(w, "invite")
    /\ UNCHANGED <<role, email, settings, invitation, issued>>

\* One that is there is renewed and keeps its id.
StoreInvitation(w, t) ==
    LET q == request[w]
        held == invitation[q.email].id
        id == IF held # None THEN held ELSE t
    IN /\ At(w, "invite")
       /\ t \notin issued \/ held # None
       /\ invitation' = [invitation EXCEPT ![q.email] =
              [id |-> id, role |-> q.to, lapsed |-> FALSE]]
       /\ issued' = issued \cup {id}
       /\ Finish(w)
       /\ UNCHANGED <<role, email, settings>>

RevokeInvitation(w, actor, e) ==
    /\ Idle(w) /\ actor \in Admins /\ invitation[e].id # None
    /\ request' = [request EXCEPT ![w] =
           [IdleRequest EXCEPT !.pc = "withdraw", !.target = invitation[e].id]]
    /\ UNCHANGED <<role, email, settings, invitation, issued>>

DeleteInvitation(w) ==
    /\ At(w, "withdraw")
    /\ invitation' = [e \in Emails |->
           IF invitation[e].id = request[w].target THEN NoInvitation ELSE invitation[e]]
    /\ Finish(w)
    /\ UNCHANGED <<role, email, settings, issued>>

\* Thirty days pass.
Lapse(e) ==
    /\ Live(invitation[e])
    /\ invitation' = [invitation EXCEPT ![e].lapsed = TRUE]
    /\ UNCHANGED <<role, email, settings, issued, request>>

\* The daily retention run removes the lapsed ones.
RemoveLapsed ==
    /\ \E e \in Emails : invitation[e].lapsed
    /\ invitation' = [e \in Emails |->
           IF invitation[e].lapsed THEN NoInvitation ELSE invitation[e]]
    /\ UNCHANGED <<role, email, settings, issued, request>>

\* The server stops, or the database fails, in the middle of a request.
Lose(w) ==
    /\ ~Idle(w)
    /\ Finish(w)
    /\ UNCHANGED <<role, email, settings, invitation, issued>>

-----------------------------------------------------------------------------

Init ==
    /\ role = [i \in Ids |-> "unused"]
    /\ email = [i \in Ids |-> None]
    /\ settings = DefaultSettings
    /\ invitation = [e \in Emails |-> NoInvitation]
    /\ issued = {}
    /\ request = [w \in Workers |-> IdleRequest]
    /\ open = [w \in Workers |-> {}]

SignInStep(w) ==
    \/ \E e \in Emails : SignIn(w, e)
    \/ LookUpUser(w) \/ CountUsers(w) \/ FindAccount(w) \/ FindRaced(w)
    \/ \E readable \in BOOLEAN :
          ReadSignUpSettings(w, readable) \/ FindLiveInvitation(w, readable)
    \/ \E i \in Ids : CreateAccount(w, i)

RoleStep(w) ==
    \/ \E actor, i \in Ids, r \in Roles : ChangeAccountRole(w, actor, i, r)
    \/ ReadTarget(w) \/ WriteRole(w) \/ Classify(w)

ErasureStep(w) ==
    \/ \E i \in Ids : DeleteOwnAccount(w, i)
    \/ \E consents \in BOOLEAN : DeleteAccount(w, consents)
    \/ RevokeAtBank(w)

AccessStep(w) ==
    \/ \E actor \in Ids, patch \in Patches : UpdateSignUpSettings(w, actor, patch)
    \/ ReadSettingsBefore(w) \/ StoreSettings(w)
    \/ \E actor \in Ids, e \in Emails, r \in Roles : CreateInvitation(w, actor, e, r)
    \/ CheckInvitee(w)
    \/ \E t \in Tickets : StoreInvitation(w, t)
    \/ \E actor \in Ids, e \in Emails : RevokeInvitation(w, actor, e)
    \/ DeleteInvitation(w)

Step ==
    \/ \E w \in Workers :
          SignInStep(w) \/ RoleStep(w) \/ ErasureStep(w) \/ AccessStep(w) \/ Lose(w)
    \/ \E e \in Emails : Lapse(e)
    \/ RemoveLapsed

\* What a newcomer could be admitted on at this moment, for the properties only: an
\* instance without accounts, a switch, an invitation in a role.
\* The allowlist never closes, so nothing else is recorded for an address on it.
Doors(e) ==
    (IF Present = {} THEN {"first"} ELSE {})
        \cup IF e \in Allowed \/ e \notin Verified THEN {}
             ELSE {s \in DOMAIN settings : settings[s]}
                  \cup IF Live(invitation[e]) THEN {invitation[e].role} ELSE {}

Provisioning(w) == request[w].stage = "provision"

RecordDoors ==
    open' = [w \in Workers |->
        IF Provisioning(w)' THEN open[w] \cup Doors(request[w].email)' ELSE {}]

Next == Step /\ RecordDoors

Spec == Init /\ [][Next]_vars

(* Properties                                                               *)

Reasons == {"refused", "existing_user", "bootstrap", "allowlisted", "invited", "open_google"}

Decisions == [reason : Reasons, role : Roles \cup {None}, id : Tickets \cup {None}]
Switches  == [googleSignUp : BOOLEAN, invitations : BOOLEAN]
Invitations == [id : Tickets \cup {None}, role : Roles \cup {None}, lapsed : BOOLEAN]

RequestType ==
    [pc : {"idle", "lookup", "count", "settings", "invitation", "find", "create",
           "raced", "target", "write", "classify", "delete", "revoke", "before", "switches",
           "invitee", "invite", "withdraw"},
     stage : {None, "gate", "provision"},
     actor : Ids \cup {None}, target : Ids \cup Tickets \cup {None},
     from : Roles \cup {None}, to : Roles \cup {None}, attempt : 0..(Attempts - 1),
     email : Emails \cup {None}, patch : Patches,
     exists : BOOLEAN, first : BOOLEAN,
     settings : Switches,
     decision : Decisions]

\* The type of every variable.
TypeOK ==
    /\ role \in [Ids -> Roles \cup {"unused", "erased"}]
    /\ email \in [Ids -> Emails \cup {None}]
    /\ settings \in Switches
    /\ invitation \in [Emails -> Invitations]
    /\ issued \subseteq Tickets
    /\ request \in [Workers -> RequestType]

\* The instance keeps an administrator: whatever role changes, erasures and
\* sign-ins overlap, accounts are never left with nobody to administer them.
AdministratorRemains == Present # {} => Admins # {}

\* Sign-ins, role changes and erasures, each split at its awaits, do what the
\* registry allows in one step: one account per address, the first of them an
\* administrator, and the last administrator leaving only as the last account.
ImplementsRegistry == Registry!Spec

\* A role is changed by someone who is an administrator as it is written: one who
\* was demoted, or left, while the request was on its way changes nothing.
RoleGivenByAdmin ==
    [][\A i \in Ids : role[i] \in Roles /\ role'[i] \in Roles \ {role[i]} =>
          \E w \in Workers : /\ At(w, "write") /\ request[w].target = i
                             /\ request[w].actor \in Admins]_vars

\* A new account was let in by a door that stood open while it was provisioned: the
\* first account, the allowlist, or, for a verified email, the switch and the
\* invitation or the Google switch; and with that door's role.  A read that fails
\* opens none.
Warrant(w, e, r) ==
    \/ r = "ADMIN" /\ ("first" \in open[w] \/ e \in Allowed)
    \/ {"invitations", r} \subseteq open[w]
    \/ "googleSignUp" \in open[w] /\ r = "MANAGER"
AdmittedByADoor ==
    [][\A i \in Ids : role[i] = "unused" /\ role'[i] # "unused" =>
          \E w \in Workers : At(w, "create") /\ Warrant(w, email'[i], role'[i])]_vars

\* Two administrators changing different switches never put back the one the
\* other just closed, though each has read both before it writes: a switch moves
\* only to what a request asked for it.
SwitchNeverPutBack ==
    [][\A s \in DOMAIN settings : settings'[s] # settings[s] =>
          \E w \in Workers : At(w, "switches") /\ request[w].patch[s] = settings'[s]]_vars

=============================================================================
