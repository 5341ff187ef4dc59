--------------------------- MODULE AccountsProofs ---------------------------
(***************************************************************************)
(* Proofs about Accounts, for any number of addresses, accounts, invitations *)
(* and requests in flight.                                                  *)
(*                                                                         *)
(* What a request holds between two awaits is said of its record             *)
(* (SoundRequest): it names an account and a role where it is about to write  *)
(* one.  DoorFound says which open doors a newcomer was seen to come by.      *)
(***************************************************************************)
EXTENDS Accounts, TLAPS

SigningIn  == {"lookup", "count", "settings", "invitation", "find", "create", "raced"}
Inviting   == {"invitee", "invite"}
Regrading  == {"target", "write", "classify"}
Erasing    == {"delete", "revoke"}

SoundRequest(q) ==
    /\ q \in RequestType
    /\ q.pc \in SigningIn \cup Inviting => q.email \in Emails
    /\ q.pc \in SigningIn => ~q.first /\ q.stage \in {"gate", "provision"}
    /\ q.pc \in Inviting \cup Regrading => q.to \in Roles
    /\ q.pc \in Regrading => q.target \in Ids
    /\ q.pc = "write" => q.from \in Roles
    /\ q.pc \in Erasing => q.actor \in Ids
    /\ q.pc = "create" => q.stage = "provision" /\ q.decision.role \in Roles

RequestsSound == \A w \in Workers : SoundRequest(request[w])

\* An invitation that is held is for a role.
InvitationsSound == \A e \in Emails : invitation[e].id # None => invitation[e].role \in Roles

IInv == TypeOK /\ AdministratorRemains /\ RequestsSound /\ InvitationsSound

\* Nothing is written.
Reading == UNCHANGED <<role, email, settings, invitation, issued>>

-----------------------------------------------------------------------------
(* Requests                                                                 *)

LEMMA IdleIsSound == SoundRequest(IdleRequest)
<1>1. NoPatch \in Patches
  BY Zenon DEF NoPatch, Patches
<1>2. ClosedSettings \in Switches
  BY DEF ClosedSettings, Switches
<1>3. Refused \in Decisions
  BY DEF Refused, Reasons, Decisions
<1>4. 0 \in 0..(Attempts - 1)
  BY DEF Attempts
<1>5. IdleRequest \in RequestType
  BY <1>1, <1>2, <1>3, <1>4, Zenon DEF IdleRequest, RequestType
<1>6. IdleRequest.pc = "idle"
  BY DEF IdleRequest
<1>. QED
  BY <1>5, <1>6 DEF SoundRequest, SigningIn, Inviting, Regrading, Erasing

\* One request moves: the others stay as they are.
LEMMA Onward ==
    ASSUME TypeOK, RequestsSound, NEW w \in Workers,
           request' = [request EXCEPT ![w] = request'[w]], SoundRequest(request'[w])
    PROVE  request' \in [Workers -> RequestType] /\ RequestsSound'
<1>1. request' \in [Workers -> RequestType]
  BY DEF TypeOK, SoundRequest
<1>2. ASSUME NEW v \in Workers PROVE SoundRequest(request'[v])
  <2>1. CASE v = w
    BY <2>1
  <2>2. CASE v # w
    BY <2>2 DEF TypeOK, RequestsSound
  <2>. QED  BY <2>1, <2>2
<1>. QED  BY <1>1, <1>2 DEF RequestsSound

LEMMA Finished ==
    ASSUME TypeOK, RequestsSound, NEW w \in Workers, Finish(w)
    PROVE  /\ request' \in [Workers -> RequestType] /\ RequestsSound'
           /\ request'[w] = IdleRequest /\ \A v \in Workers \ {w} : request'[v] = request[v]
<1>1. request' = [request EXCEPT ![w] = request'[w]] /\ request'[w] = IdleRequest
  BY DEF Finish, TypeOK
<1>. QED  BY <1>1, IdleIsSound, Onward DEF TypeOK

-----------------------------------------------------------------------------
(* Steps that only read                                                     *)

LEMMA ReadingKeeps ==
    ASSUME IInv, NEW w \in Workers, Reading,
           request' = [request EXCEPT ![w] = request'[w]], SoundRequest(request'[w])
    PROVE  IInv'
<1>1. request' \in [Workers -> RequestType] /\ RequestsSound'
  BY Onward DEF IInv
<1>. QED
  BY <1>1 DEF IInv, TypeOK, AdministratorRemains, Present, Admins, InvitationsSound, Reading

LEMMA FinishKeeps ==
    ASSUME IInv, NEW w \in Workers, Reading, Finish(w)
    PROVE  IInv'
<1>1. request' = [request EXCEPT ![w] = request'[w]] /\ request'[w] = IdleRequest
  BY DEF Finish, IInv, TypeOK
<1>. QED  BY <1>1, IdleIsSound, ReadingKeeps DEF IdleRequest

\* A request that moves on with nothing new: it holds what the next step needs.
LEMMA GotoKeeps ==
    ASSUME IInv, NEW w \in Workers, Reading,
           NEW pc \in {"count", "settings", "invitation", "find", "lookup", "raced",
                       "target", "classify", "invite"},
           Goto(w, pc),
           pc \in SigningIn => request[w].pc \in SigningIn,
           pc \in Regrading => request[w].pc \in Regrading,
           pc \in Inviting => request[w].pc \in Inviting
    PROVE  IInv'
<1>1. request[w] \in RequestType /\ SoundRequest(request[w])
  BY DEF IInv, TypeOK, RequestsSound
<1>2. /\ request' = [request EXCEPT ![w] = request'[w]]
      /\ request'[w] = [request[w] EXCEPT !.pc = pc]
  BY DEF Goto, IInv, TypeOK
<1>3. SoundRequest(request'[w])
  BY <1>1, <1>2 DEF SoundRequest, RequestType, SigningIn, Inviting, Regrading, Erasing
<1>. QED  BY <1>2, <1>3, ReadingKeeps

\* A request that begins.
LEMMA BeginKeeps ==
    ASSUME IInv, NEW w \in Workers, Reading, NEW q,
           request' = [request EXCEPT ![w] = q], SoundRequest(q)
    PROVE  IInv'
<1>1. request' = [request EXCEPT ![w] = request'[w]] /\ request'[w] = q
  BY DEF IInv, TypeOK
<1>. QED  BY <1>1, ReadingKeeps

LEMMA IdleShape == IdleRequest \in RequestType /\ ~IdleRequest.first
BY IdleIsSound DEF SoundRequest, IdleRequest

LEMMA SignInStart ==
    ASSUME IInv, NEW w \in Workers, NEW e \in Emails, SignIn(w, e)
    PROVE  IInv'
<1> DEFINE q == [IdleRequest EXCEPT !.pc = "lookup", !.stage = "gate", !.email = e]
<1>1. q \in RequestType
  BY IdleShape, Zenon DEF RequestType
<1>2. q.pc = "lookup" /\ q.stage = "gate" /\ q.email = e /\ q.first = FALSE
  BY DEF IdleRequest
<1>3. SoundRequest(q)
  BY <1>1, <1>2 DEF SoundRequest, SigningIn, Inviting, Regrading, Erasing
<1>4. Reading /\ request' = [request EXCEPT ![w] = q]
  BY DEF SignIn, Reading
<1>. QED  BY <1>3, <1>4, BeginKeeps

LEMMA LookUpUserStep ==
    ASSUME IInv, NEW w \in Workers, LookUpUser(w)
    PROVE  IInv'
<1>1. PICK has \in BOOLEAN : has = (AccountsOf(request[w].email) # {})
  OBVIOUS
<1> DEFINE q == [request[w] EXCEPT !.pc = "count", !.exists = has]
<1>2. request[w] \in RequestType /\ SoundRequest(request[w]) /\ request[w].pc = "lookup"
  BY DEF IInv, TypeOK, RequestsSound, LookUpUser, At
<1>3. q \in RequestType
  BY <1>2, Zenon DEF RequestType
<1>4. /\ q.pc = "count" /\ q.email = request[w].email
      /\ q.first = request[w].first /\ q.stage = request[w].stage
  BY <1>2 DEF RequestType
<1>5. SoundRequest(q)
  BY <1>2, <1>3, <1>4 DEF SoundRequest, SigningIn, Inviting, Regrading, Erasing
<1>6. Reading /\ request' = [request EXCEPT ![w] = q]
  BY <1>1 DEF LookUpUser, Reading, IInv, TypeOK
<1>. QED  BY <1>5, <1>6, BeginKeeps

\* What a sign-in goes on with is sound, whatever the policy says of it.
LEMMA DecisionSound ==
    ASSUME NEW q \in RequestType, NEW inv \in Invitations,
           inv.id # None => inv.role \in Roles,
           DecideSignIn(q, inv) # Refused, DecideSignIn(q, inv).reason # "existing_user"
    PROVE  DecideSignIn(q, inv) \in Decisions /\ DecideSignIn(q, inv).role \in Roles
<1>1. CASE q.exists
  BY <1>1 DEF DecideSignIn, Decision
<1>2. CASE ~q.exists /\ q.first
  BY <1>2 DEF DecideSignIn, Decision, Decisions, Reasons, Roles
<1>3. CASE ~q.exists /\ ~q.first /\ q.email \in Allowed
  BY <1>3 DEF DecideSignIn, Decision, Decisions, Reasons, Roles
<1>4. CASE ~q.exists /\ ~q.first /\ q.email \notin Allowed
  BY <1>4 DEF DecideSignIn, Decision, Decisions, Reasons, Roles, Invitations, Live
<1>. QED  BY <1>1, <1>2, <1>3, <1>4 DEF RequestType

LEMMA DecideKeeps ==
    ASSUME IInv, NEW w \in Workers, Reading, NEW q \in RequestType, NEW inv \in Invitations,
           inv.id # None => inv.role \in Roles,
           q.email \in Emails, Decide(w, q, inv)
    PROVE  IInv'
<1> DEFINE d == DecideSignIn(q, inv)
           onward == [IdleRequest EXCEPT !.stage = "provision", !.email = q.email]
<1>1. CASE d = Refused
  <2>1. Finish(w)
    BY <1>1 DEF Decide, Finish
  <2>. QED  BY <2>1, FinishKeeps
<1>2. CASE d # Refused /\ q.stage = "gate"
  <2> DEFINE r == [onward EXCEPT !.pc = "find"]
  <2>1. request' = [request EXCEPT ![w] = r]
    BY <1>2 DEF Decide
  <2>2. r \in RequestType
    BY IdleShape, Zenon DEF RequestType
  <2>3. r.pc = "find" /\ r.email = q.email /\ r.first = FALSE /\ r.stage = "provision"
    BY DEF IdleRequest
  <2>4. SoundRequest(r)
    BY <2>2, <2>3 DEF SoundRequest, SigningIn, Inviting, Regrading, Erasing
  <2>. QED  BY <2>1, <2>4, BeginKeeps
<1>3. CASE d # Refused /\ q.stage # "gate" /\ d.reason = "existing_user"
  <2> DEFINE r == [onward EXCEPT !.pc = "raced"]
  <2>1. request' = [request EXCEPT ![w] = r]
    BY <1>3 DEF Decide
  <2>2. r \in RequestType
    BY IdleShape, Zenon DEF RequestType
  <2>3. r.pc = "raced" /\ r.email = q.email /\ r.first = FALSE /\ r.stage = "provision"
    BY DEF IdleRequest
  <2>4. SoundRequest(r)
    BY <2>2, <2>3 DEF SoundRequest, SigningIn, Inviting, Regrading, Erasing
  <2>. QED  BY <2>1, <2>4, BeginKeeps
<1>4. CASE d # Refused /\ q.stage # "gate" /\ d.reason # "existing_user"
  <2> DEFINE r == [onward EXCEPT !.pc = "create", !.decision = d]
  <2>1. request' = [request EXCEPT ![w] = r]
    BY <1>4 DEF Decide
  <2>2. d \in Decisions /\ d.role \in Roles
    BY <1>4, DecisionSound
  <2> HIDE DEF d
  <2>3. r \in RequestType
    BY <2>2, IdleShape, Zenon DEF RequestType
  <2>4. /\ r.pc = "create" /\ r.email = q.email /\ r.first = FALSE
        /\ r.stage = "provision" /\ r.decision = d
    BY DEF IdleRequest
  <2>5. SoundRequest(r)
    BY <2>2, <2>3, <2>4 DEF SoundRequest, SigningIn, Inviting, Regrading, Erasing
  <2>. QED  BY <2>1, <2>5, BeginKeeps
<1>. QED  BY <1>1, <1>2, <1>3, <1>4


LEMMA CountUsersStep ==
    ASSUME IInv, NEW w \in Workers, CountUsers(w)
    PROVE  IInv'
<1> DEFINE q == [request[w] EXCEPT !.first = (Present = {})]
<1>1. request[w] \in RequestType /\ SoundRequest(request[w]) /\ request[w].pc = "count"
  BY DEF IInv, TypeOK, RequestsSound, CountUsers, At
<1>2. (Present = {}) \in BOOLEAN
  OBVIOUS
<1>3. q \in RequestType
  BY <1>1, <1>2, Zenon DEF RequestType
<1>4. q.email = request[w].email /\ request[w].email \in Emails
  BY <1>1 DEF RequestType, SoundRequest, SigningIn
<1>5. Reading
  BY DEF CountUsers, Reading
<1>6. NoInvitation \in Invitations /\ NoInvitation.id = None
  BY DEF NoInvitation, Invitations
<1>7. CASE q.exists \/ q.first \/ q.email \in Allowed
  <2>1. Decide(w, q, NoInvitation)
    BY <1>7 DEF CountUsers
  <2> HIDE DEF q
  <2>. QED  BY <1>3, <1>4, <1>5, <1>6, <2>1, DecideKeeps
<1>8. CASE ~(q.exists \/ q.first \/ q.email \in Allowed)
  <2>1. Goto(w, "settings")
    BY <1>8 DEF CountUsers
  <2>. QED  BY <1>1, <1>5, <2>1, GotoKeeps DEF SigningIn, Regrading, Inviting
<1>. QED  BY <1>7, <1>8

LEMMA ReadSignUpSettingsStep ==
    ASSUME IInv, NEW w \in Workers, NEW readable \in BOOLEAN, ReadSignUpSettings(w, readable)
    PROVE  IInv'
<1> DEFINE q == [request[w] EXCEPT !.pc = "invitation", !.settings = ReadOrClosed(readable)]
<1>1. request[w] \in RequestType /\ SoundRequest(request[w]) /\ request[w].pc = "settings"
  BY DEF IInv, TypeOK, RequestsSound, ReadSignUpSettings, At
<1>2. ReadOrClosed(readable) \in Switches
  BY DEF ReadOrClosed, ClosedSettings, Switches, IInv, TypeOK
<1>3. q \in RequestType
  BY <1>1, <1>2, Zenon DEF RequestType
<1>4. /\ q.pc = "invitation" /\ q.email = request[w].email
      /\ q.first = request[w].first /\ q.stage = request[w].stage
  BY <1>1 DEF RequestType
<1>5. SoundRequest(q)
  BY <1>1, <1>3, <1>4 DEF SoundRequest, SigningIn, Inviting, Regrading, Erasing
<1>6. Reading /\ request' = [request EXCEPT ![w] = q]
  BY DEF ReadSignUpSettings, Reading, IInv, TypeOK
<1>. QED  BY <1>5, <1>6, BeginKeeps

LEMMA FindLiveInvitationStep ==
    ASSUME IInv, NEW w \in Workers, NEW readable \in BOOLEAN, FindLiveInvitation(w, readable)
    PROVE  IInv'
<1> DEFINE inv == IF readable THEN invitation[request[w].email] ELSE NoInvitation
<1>1. request[w] \in RequestType /\ SoundRequest(request[w]) /\ request[w].pc = "invitation"
  BY DEF IInv, TypeOK, RequestsSound, FindLiveInvitation, At
<1>2. request[w].email \in Emails
  BY <1>1 DEF SoundRequest, SigningIn
<1>3. inv \in Invitations /\ (inv.id # None => inv.role \in Roles)
  BY <1>2 DEF IInv, TypeOK, InvitationsSound, NoInvitation, Invitations
<1>4. Reading /\ Decide(w, request[w], inv)
  BY DEF FindLiveInvitation, Reading
<1> HIDE DEF inv
<1>. QED  BY <1>1, <1>2, <1>3, <1>4, DecideKeeps

LEMMA FindAccountStep ==
    ASSUME IInv, NEW w \in Workers, FindAccount(w)
    PROVE  IInv'
<1>1. Reading
  BY DEF FindAccount, Reading
<1>2. request[w].pc = "find"
  BY DEF FindAccount, At
<1>3. ASSUME Finish(w) PROVE IInv'
  BY <1>1, <1>3, FinishKeeps
<1>4. ASSUME Goto(w, "lookup") PROVE IInv'
  BY <1>1, <1>2, <1>4, GotoKeeps DEF SigningIn, Regrading, Inviting
<1>. QED  BY <1>3, <1>4 DEF FindAccount

LEMMA CheckInviteeStep ==
    ASSUME IInv, NEW w \in Workers, CheckInvitee(w)
    PROVE  IInv'
<1>1. Reading
  BY DEF CheckInvitee, Reading
<1>2. request[w].pc = "invitee"
  BY DEF CheckInvitee, At
<1>3. ASSUME Finish(w) PROVE IInv'
  BY <1>1, <1>3, FinishKeeps
<1>4. ASSUME Goto(w, "invite") PROVE IInv'
  BY <1>1, <1>2, <1>4, GotoKeeps DEF SigningIn, Regrading, Inviting
<1>. QED  BY <1>3, <1>4 DEF CheckInvitee

LEMMA FindRacedStep ==
    ASSUME IInv, NEW w \in Workers, FindRaced(w)
    PROVE  IInv'
<1>1. Reading /\ Finish(w)
  BY DEF FindRaced, Reading
<1>. QED  BY <1>1, FinishKeeps

LEMMA RevokeAtBankStep ==
    ASSUME IInv, NEW w \in Workers, RevokeAtBank(w)
    PROVE  IInv'
<1>1. Reading /\ Finish(w)
  BY DEF RevokeAtBank, Reading
<1>. QED  BY <1>1, FinishKeeps

LEMMA LoseStep ==
    ASSUME IInv, NEW w \in Workers, Lose(w)
    PROVE  IInv'
<1>1. Reading /\ Finish(w)
  BY DEF Lose, Reading
<1>. QED  BY <1>1, FinishKeeps

LEMMA ChangeAccountRoleStep ==
    ASSUME IInv, NEW w \in Workers, NEW actor \in Ids, NEW i \in Ids, NEW r \in Roles,
            ChangeAccountRole(w, actor, i, r)
    PROVE  IInv'
<1> DEFINE q == [IdleRequest EXCEPT !.pc = "target", !.actor = actor, !.target = i, !.to = r]
<1>2. q \in RequestType
  BY IdleShape, Zenon DEF RequestType
<1>3. q.pc = "target" /\ q.actor = actor /\ q.target = i /\ q.to = r /\ q.first = FALSE
  BY DEF IdleRequest
<1>4. SoundRequest(q)
  BY <1>2, <1>3 DEF SoundRequest, SigningIn, Inviting, Regrading, Erasing
<1>5. Reading /\ request' = [request EXCEPT ![w] = q]
  BY DEF ChangeAccountRole, Reading
<1>. QED  BY <1>4, <1>5, BeginKeeps

LEMMA DeleteOwnAccountStep ==
    ASSUME IInv, NEW w \in Workers, NEW i \in Ids, DeleteOwnAccount(w, i)
    PROVE  IInv'
<1> DEFINE q == [IdleRequest EXCEPT !.pc = "delete", !.actor = i]
<1>2. q \in RequestType
  BY IdleShape, Zenon DEF RequestType
<1>3. q.pc = "delete" /\ q.actor = i /\ q.first = FALSE
  BY DEF IdleRequest
<1>4. SoundRequest(q)
  BY <1>2, <1>3 DEF SoundRequest, SigningIn, Inviting, Regrading, Erasing
<1>5. Reading /\ request' = [request EXCEPT ![w] = q]
  BY DEF DeleteOwnAccount, Reading
<1>. QED  BY <1>4, <1>5, BeginKeeps

LEMMA UpdateSignUpSettingsStep ==
    ASSUME IInv, NEW w \in Workers, NEW actor \in Ids, NEW patch \in Patches,
            UpdateSignUpSettings(w, actor, patch)
    PROVE  IInv'
<1> DEFINE q == [IdleRequest EXCEPT !.pc = "before", !.patch = patch]
<1>2. q \in RequestType
  BY IdleShape, Zenon DEF RequestType
<1>3. q.pc = "before" /\ q.patch = patch /\ q.first = FALSE
  BY DEF IdleRequest
<1>4. SoundRequest(q)
  BY <1>2, <1>3 DEF SoundRequest, SigningIn, Inviting, Regrading, Erasing
<1>5. Reading /\ request' = [request EXCEPT ![w] = q]
  BY DEF UpdateSignUpSettings, Reading
<1>. QED  BY <1>4, <1>5, BeginKeeps

LEMMA ReadSettingsBeforeStep ==
    ASSUME IInv, NEW w \in Workers, ReadSettingsBefore(w)
    PROVE  IInv'
<1> DEFINE q == [request[w] EXCEPT !.pc = "switches", !.settings = settings]
<1>1. request[w] \in RequestType /\ settings \in Switches
  BY DEF IInv, TypeOK
<1>2. q \in RequestType
  BY <1>1, Zenon DEF RequestType
<1>3. q.pc = "switches"
  BY <1>1 DEF RequestType
<1>4. SoundRequest(q)
  BY <1>2, <1>3 DEF SoundRequest, SigningIn, Inviting, Regrading, Erasing
<1>5. Reading /\ request' = [request EXCEPT ![w] = q]
  BY DEF ReadSettingsBefore, Reading, IInv, TypeOK
<1>. QED  BY <1>4, <1>5, BeginKeeps

LEMMA CreateInvitationStep ==
    ASSUME IInv, NEW w \in Workers, NEW actor \in Ids, NEW e \in Emails, NEW r \in Roles,
            CreateInvitation(w, actor, e, r)
    PROVE  IInv'
<1> DEFINE q == [IdleRequest EXCEPT !.pc = "invitee", !.email = e, !.to = r]
<1>2. q \in RequestType
  BY IdleShape, Zenon DEF RequestType
<1>3. q.pc = "invitee" /\ q.email = e /\ q.to = r /\ q.first = FALSE
  BY DEF IdleRequest
<1>4. SoundRequest(q)
  BY <1>2, <1>3 DEF SoundRequest, SigningIn, Inviting, Regrading, Erasing
<1>5. Reading /\ request' = [request EXCEPT ![w] = q]
  BY DEF CreateInvitation, Reading
<1>. QED  BY <1>4, <1>5, BeginKeeps

LEMMA RevokeInvitationStep ==
    ASSUME IInv, NEW w \in Workers, NEW actor \in Ids, NEW e \in Emails,
            RevokeInvitation(w, actor, e)
    PROVE  IInv'
<1> DEFINE q == [IdleRequest EXCEPT !.pc = "withdraw", !.target = invitation[e].id]
<1>1. invitation[e].id \in Tickets
  BY DEF RevokeInvitation, IInv, TypeOK, Invitations
<1>2. q \in RequestType
  BY <1>1, IdleShape, Zenon DEF RequestType
<1>3. q.pc = "withdraw" /\ q.target = invitation[e].id /\ q.first = FALSE
  BY DEF IdleRequest
<1>4. SoundRequest(q)
  BY <1>2, <1>3 DEF SoundRequest, SigningIn, Inviting, Regrading, Erasing
<1>5. Reading /\ request' = [request EXCEPT ![w] = q]
  BY DEF RevokeInvitation, Reading
<1>. QED  BY <1>4, <1>5, BeginKeeps

LEMMA ReadTargetStep ==
    ASSUME IInv, NEW w \in Workers, ReadTarget(w)
    PROVE  IInv'
<1> DEFINE q == [request[w] EXCEPT !.pc = "write", !.from = role[request[w].target]]
<1>1. request[w] \in RequestType /\ SoundRequest(request[w]) /\ request[w].pc = "target"
  BY DEF IInv, TypeOK, RequestsSound, ReadTarget, At
<1>2. Reading
  BY DEF ReadTarget, Reading
<1>3. ASSUME Finish(w) PROVE IInv'
  BY <1>2, <1>3, FinishKeeps
<1>4. ASSUME request[w].target \in Present, request' = [request EXCEPT ![w] = q] PROVE IInv'
  <2>1. role[request[w].target] \in Roles
    BY <1>4 DEF Present
  <2>2. q \in RequestType
    BY <1>1, <2>1, Zenon DEF RequestType
  <2>3. /\ q.pc = "write" /\ q.from \in Roles /\ q.first = request[w].first
        /\ q.to = request[w].to /\ q.target = request[w].target
    BY <1>1, <2>1 DEF RequestType
  <2>4. SoundRequest(q)
    BY <1>1, <2>2, <2>3 DEF SoundRequest, SigningIn, Inviting, Regrading, Erasing
  <2>. QED  BY <1>2, <1>4, <2>4, BeginKeeps
<1>. QED  BY <1>3, <1>4 DEF ReadTarget, IInv, TypeOK

LEMMA ClassifyStep ==
    ASSUME IInv, NEW w \in Workers, Classify(w)
    PROVE  IInv'
<1> DEFINE q == [request[w] EXCEPT !.pc = "target", !.from = None, !.attempt = @ + 1]
<1>1. request[w] \in RequestType /\ SoundRequest(request[w]) /\ request[w].pc = "classify"
  BY DEF IInv, TypeOK, RequestsSound, Classify, At
<1>2. Reading
  BY DEF Classify, Reading
<1>3. ASSUME Finish(w) PROVE IInv'
  BY <1>2, <1>3, FinishKeeps
<1>4. ASSUME ~LastAttempt(request[w]), request' = [request EXCEPT ![w] = q] PROVE IInv'
  <2>1. request[w].attempt \in 0..(Attempts - 1)
    BY <1>1, Zenon DEF RequestType
  <2>2. request[w].attempt + 1 \in 0..(Attempts - 1)
    BY <1>4, <2>1 DEF LastAttempt, Attempts
  <2>3. q \in RequestType
    BY <1>1, <2>2, Zenon DEF RequestType
  <2>4. /\ q.pc = "target" /\ q.first = request[w].first
        /\ q.to = request[w].to /\ q.target = request[w].target
    BY <1>1 DEF RequestType
  <2>5. SoundRequest(q)
    BY <1>1, <2>3, <2>4 DEF SoundRequest, SigningIn, Inviting, Regrading, Erasing
  <2>. QED  BY <1>2, <1>4, <2>5, BeginKeeps
<1>. QED  BY <1>3, <1>4 DEF Classify, IInv, TypeOK

-----------------------------------------------------------------------------
(* Steps that write                                                         *)

LEMMA NoRoles == "unused" \notin Roles /\ "erased" \notin Roles /\ "ADMIN" \in Roles
BY DEF Roles

LEMMA CreateAccountStep ==
    ASSUME IInv, NEW w \in Workers, NEW i \in Ids, CreateAccount(w, i)
    PROVE  IInv'
<1> DEFINE q == request[w]
           d == q.decision
<1>1. /\ q \in RequestType /\ SoundRequest(q) /\ q.pc = "create"
      /\ q.email \in Emails /\ d.role \in Roles
  BY DEF IInv, TypeOK, RequestsSound, SoundRequest, SigningIn, CreateAccount, At
<1>2. CASE Taken(q.email)
  <2>1. Reading /\ Goto(w, "raced")
    BY <1>2 DEF CreateAccount, Reading
  <2>. QED  BY <1>1, <2>1, GotoKeeps DEF SigningIn, Regrading, Inviting
<1>3. CASE ~Taken(q.email) /\ d.role # "ADMIN" /\ Admins = {}
  <2>1. Reading /\ Finish(w)
    BY <1>3 DEF CreateAccount, Reading
  <2>. QED  BY <2>1, FinishKeeps
<1>4. CASE ~Taken(q.email) /\ ~(d.role # "ADMIN" /\ Admins = {})
  <2>1. /\ role' = [role EXCEPT ![i] = d.role] /\ email' = [email EXCEPT ![i] = q.email]
        /\ invitation' = [e \in Emails |->
               IF d.reason = "invited" /\ invitation[e].id = d.id
               THEN NoInvitation ELSE invitation[e]]
        /\ Finish(w) /\ UNCHANGED <<settings, issued>>
    BY <1>4 DEF CreateAccount
  <2>2. role[i] = "unused"
    BY DEF CreateAccount
  <2>3. TypeOK'
    <3>1. request' \in [Workers -> RequestType]
      BY <2>1, Finished DEF IInv
    <3>2. NoInvitation \in Invitations
      BY DEF NoInvitation, Invitations
    <3>. QED  BY <1>1, <2>1, <3>1, <3>2 DEF IInv, TypeOK
  <2>4. RequestsSound'
    BY <2>1, Finished DEF IInv
  <2>5. AdministratorRemains'
    <3>1. CASE d.role = "ADMIN"
      BY <2>1, <3>1 DEF IInv, TypeOK, AdministratorRemains, Admins
    <3>2. CASE Admins # {}
      <4>1. PICK a \in Ids : role[a] = "ADMIN"
        BY <3>2 DEF Admins
      <4>2. role'[a] = "ADMIN"
        BY <2>1, <2>2, <4>1 DEF IInv, TypeOK
      <4>. QED  BY <4>2 DEF AdministratorRemains, Admins
    <3>. QED  BY <1>4, <3>1, <3>2
  <2>6. InvitationsSound'
    BY <2>1 DEF IInv, InvitationsSound, NoInvitation
  <2>. QED  BY <2>3, <2>4, <2>5, <2>6 DEF IInv
<1>. QED  BY <1>2, <1>3, <1>4

\* The last administrator is never the one whose role the UPDATE writes.
LEMMA WriteRoleStep ==
    ASSUME IInv, NEW w \in Workers, WriteRole(w)
    PROVE  IInv'
<1> DEFINE q == request[w]
<1>1. /\ q \in RequestType /\ SoundRequest(q) /\ q.pc = "write"
      /\ q.target \in Ids /\ q.to \in Roles /\ q.from \in Roles
  BY DEF IInv, TypeOK, RequestsSound, SoundRequest, Regrading, WriteRole, At
<1>2. CASE ~MayWrite(q)
  <2>1. Reading /\ Goto(w, "classify")
    BY <1>2 DEF WriteRole, Reading
  <2>. QED  BY <1>1, <2>1, GotoKeeps DEF SigningIn, Regrading, Inviting
<1>3. CASE MayWrite(q)
  <2>1. /\ role' = [role EXCEPT ![q.target] = q.to] /\ Finish(w)
        /\ UNCHANGED <<email, settings, invitation, issued>>
    BY <1>3 DEF WriteRole
  <2>2. TypeOK' /\ RequestsSound'
    BY <1>1, <2>1, Finished DEF IInv, TypeOK
  <2>3. PICK a \in Ids : role[a] = "ADMIN" /\ a # q.target
    BY <1>3 DEF MayWrite, Admins
  <2>4. AdministratorRemains'
    <3>1. role'[a] = "ADMIN"
      BY <2>1, <2>3 DEF IInv, TypeOK
    <3>. QED  BY <3>1 DEF AdministratorRemains, Admins
  <2>5. InvitationsSound'
    BY <2>1 DEF IInv, InvitationsSound
  <2>. QED  BY <2>2, <2>4, <2>5 DEF IInv
<1>. QED  BY <1>2, <1>3

\* The last administrator leaves only as the last account.
LEMMA DeleteAccountStep ==
    ASSUME IInv, NEW w \in Workers, NEW consents \in BOOLEAN, DeleteAccount(w, consents)
    PROVE  IInv'
<1> DEFINE q == request[w]
           i == q.actor
<1>1. /\ q \in RequestType /\ SoundRequest(q) /\ q.pc = "delete" /\ i \in Ids
  BY DEF IInv, TypeOK, RequestsSound, SoundRequest, Erasing, DeleteAccount, At
<1>2. CASE ~MayGo(i)
  <2>1. Reading /\ Finish(w)
    BY <1>2 DEF DeleteAccount, Reading
  <2>. QED  BY <2>1, FinishKeeps
<1>3. CASE MayGo(i)
  <2>1. /\ role' = [role EXCEPT ![i] = "erased"]
        /\ UNCHANGED <<email, settings, invitation, issued>>
        /\ Finish(w) \/ Goto(w, "revoke")
    BY <1>3 DEF DeleteAccount
  <2>2. AdministratorRemains'
    <3>1. \A j \in Ids : role'[j] = IF j = i THEN "erased" ELSE role[j]
      BY <2>1 DEF IInv, TypeOK
    <3>2. CASE Present = {i}
      BY <3>1, <3>2, NoRoles DEF AdministratorRemains, Present
    <3>3. CASE i \in Admins /\ Admins # {i}
      <4>1. PICK a \in Ids : role[a] = "ADMIN" /\ a # i
        BY <3>3 DEF Admins
      <4>. QED  BY <3>1, <4>1 DEF AdministratorRemains, Admins
    <3>4. CASE i \notin Admins
      <4>1. PICK a \in Ids : role[a] = "ADMIN"
        BY <1>3 DEF MayGo, IInv, AdministratorRemains, Admins
      <4>. QED  BY <3>1, <3>4, <4>1 DEF AdministratorRemains, Admins
    <3>. QED  BY <1>3, <3>2, <3>3, <3>4 DEF MayGo
  <2>3. InvitationsSound'
    BY <2>1 DEF IInv, InvitationsSound
  <2>4. CASE Finish(w)
    <3>1. TypeOK' /\ RequestsSound'
      BY <2>1, <2>4, Finished DEF IInv, TypeOK
    <3>. QED  BY <2>2, <2>3, <3>1 DEF IInv
  <2>5. CASE Goto(w, "revoke")
    <3> DEFINE r == [q EXCEPT !.pc = "revoke"]
    <3>1. request'[w] = r /\ request' = [request EXCEPT ![w] = request'[w]]
      BY <2>5 DEF Goto, IInv, TypeOK
    <3>2. r \in RequestType
      BY <1>1, Zenon DEF RequestType
    <3>3. r.pc = "revoke" /\ r.actor = i
      BY <1>1 DEF RequestType
    <3>4. SoundRequest(r)
      BY <1>1, <3>2, <3>3 DEF SoundRequest, SigningIn, Inviting, Regrading, Erasing
    <3>5. request' \in [Workers -> RequestType] /\ RequestsSound'
      BY <3>1, <3>4, Onward DEF IInv
    <3>6. TypeOK'
      BY <2>1, <3>5 DEF IInv, TypeOK
    <3>. QED  BY <2>2, <2>3, <3>5, <3>6 DEF IInv
  <2>. QED  BY <2>1, <2>4, <2>5
<1>. QED  BY <1>2, <1>3

\* What a patch leaves out stays as it is stored.
LEMMA PatchedType ==
    ASSUME settings \in Switches, NEW q \in RequestType
    PROVE  /\ DOMAIN settings = {"googleSignUp", "invitations"} /\ Patched(q) \in Switches
           /\ \A s \in DOMAIN settings :
                 Patched(q)[s] = IF q.patch[s] = None THEN settings[s] ELSE q.patch[s]
<1>1. DOMAIN settings = {"googleSignUp", "invitations"}
  BY DEF Switches
<1>2. \A s \in DOMAIN settings : settings[s] \in BOOLEAN
  BY <1>1 DEF Switches
<1>3. q.patch \in Patches
  BY DEF RequestType
<1>4. \A s \in DOMAIN settings : q.patch[s] \in BOOLEAN \cup {None}
  BY <1>1, <1>3 DEF Patches
<1>5. \A s \in DOMAIN settings : Patched(q)[s] \in BOOLEAN
  BY <1>2, <1>4, Zenon DEF Patched
<1>6. Patched(q) = [googleSignUp |-> Patched(q)["googleSignUp"],
                    invitations |-> Patched(q)["invitations"]]
  BY <1>1 DEF Patched
<1>7. Patched(q) \in Switches
  BY <1>1, <1>5, <1>6, Zenon DEF Switches
<1>. QED  BY <1>1, <1>7 DEF Patched

LEMMA StoreSettingsStep ==
    ASSUME IInv, NEW w \in Workers, StoreSettings(w)
    PROVE  IInv'
<1>1. /\ settings' = Patched(request[w]) /\ Finish(w)
      /\ UNCHANGED <<role, email, invitation, issued>>
  BY DEF StoreSettings
<1>2. settings' \in Switches
  BY <1>1, PatchedType DEF IInv, TypeOK
<1>3. TypeOK' /\ RequestsSound'
  BY <1>1, <1>2, Finished DEF IInv, TypeOK
<1>. QED
  BY <1>1, <1>3 DEF IInv, AdministratorRemains, Present, Admins, InvitationsSound

\* A step that writes invitations only.
LEMMA InvitationsKeep ==
    ASSUME IInv, UNCHANGED <<role, email, settings>>,
           invitation' \in [Emails -> Invitations], issued' \subseteq Tickets, InvitationsSound',
           UNCHANGED request \/ \E w \in Workers : Finish(w)
    PROVE  IInv'
<1>1. ASSUME NEW w \in Workers, Finish(w) PROVE IInv'
  <2>1. TypeOK' /\ RequestsSound'
    BY <1>1, Finished DEF IInv, TypeOK
  <2>. QED  BY <2>1 DEF IInv, AdministratorRemains, Present, Admins
<1>2. CASE UNCHANGED request
  <2>1. TypeOK' /\ RequestsSound'
    BY <1>2 DEF IInv, TypeOK, RequestsSound
  <2>. QED  BY <2>1 DEF IInv, AdministratorRemains, Present, Admins
<1>. QED  BY <1>1, <1>2

LEMMA StoreInvitationStep ==
    ASSUME IInv, NEW w \in Workers, NEW t \in Tickets, StoreInvitation(w, t)
    PROVE  IInv'
<1> DEFINE q == request[w]
           held == invitation[q.email].id
           id == IF held # None THEN held ELSE t
<1>1. q.email \in Emails /\ q.to \in Roles
  BY DEF IInv, RequestsSound, SoundRequest, Inviting, StoreInvitation, At
<1>2. id \in Tickets
  BY <1>1 DEF IInv, TypeOK, Invitations
<1>3. /\ invitation' = [invitation EXCEPT ![q.email] = [id |-> id, role |-> q.to, lapsed |-> FALSE]]
      /\ issued' = issued \cup {id} /\ Finish(w) /\ UNCHANGED <<role, email, settings>>
  BY DEF StoreInvitation
<1> HIDE DEF id
<1>4. [id |-> id, role |-> q.to, lapsed |-> FALSE] \in Invitations
  BY <1>1, <1>2 DEF Invitations
<1>5. invitation' \in [Emails -> Invitations] /\ issued' \subseteq Tickets
  BY <1>2, <1>3, <1>4 DEF IInv, TypeOK
<1>6. InvitationsSound'
  BY <1>1, <1>3 DEF IInv, TypeOK, InvitationsSound
<1>. QED  BY <1>3, <1>5, <1>6, InvitationsKeep

LEMMA NoInvitationType == NoInvitation \in Invitations /\ NoInvitation.id = None
BY DEF NoInvitation, Invitations

LEMMA DeleteInvitationStep ==
    ASSUME IInv, NEW w \in Workers, DeleteInvitation(w)
    PROVE  IInv'
<1>1. /\ invitation' = [e \in Emails |-> IF invitation[e].id = request[w].target
                                         THEN NoInvitation ELSE invitation[e]]
      /\ Finish(w) /\ UNCHANGED <<role, email, settings, issued>>
  BY DEF DeleteInvitation
<1>2. invitation' \in [Emails -> Invitations] /\ InvitationsSound'
  BY <1>1, NoInvitationType DEF IInv, TypeOK, InvitationsSound
<1>. QED  BY <1>1, <1>2, InvitationsKeep DEF IInv, TypeOK

LEMMA LapseStep ==
    ASSUME IInv, NEW e \in Emails, Lapse(e)
    PROVE  IInv'
<1>1. invitation' = [invitation EXCEPT ![e].lapsed = TRUE]
  BY DEF Lapse
<1>2. [invitation[e] EXCEPT !.lapsed = TRUE] \in Invitations
  BY DEF IInv, TypeOK, Invitations
<1>3. invitation' \in [Emails -> Invitations]
  BY <1>1, <1>2 DEF IInv, TypeOK
<1>4. InvitationsSound'
  BY <1>1 DEF IInv, TypeOK, InvitationsSound, Invitations
<1>. QED  BY <1>3, <1>4, InvitationsKeep DEF Lapse, IInv, TypeOK

LEMMA RemoveLapsedStep ==
    ASSUME IInv, RemoveLapsed
    PROVE  IInv'
<1>1. invitation' = [e \in Emails |-> IF invitation[e].lapsed THEN NoInvitation ELSE invitation[e]]
  BY DEF RemoveLapsed
<1>2. invitation' \in [Emails -> Invitations] /\ InvitationsSound'
  BY <1>1, NoInvitationType DEF IInv, TypeOK, InvitationsSound
<1>. QED  BY <1>2, InvitationsKeep DEF RemoveLapsed, IInv, TypeOK

-----------------------------------------------------------------------------
(* The invariant                                                            *)

LEMMA IInvHolds == Init => IInv
<1> SUFFICES ASSUME Init PROVE IInv
  OBVIOUS
<1>1. DefaultSettings \in Switches
  BY DEF DefaultSettings, Switches
<1>2. IdleRequest \in RequestType
  BY IdleIsSound DEF SoundRequest
<1>3. TypeOK
  BY <1>1, <1>2, NoInvitationType DEF Init, TypeOK
<1>4. RequestsSound
  BY IdleIsSound DEF Init, RequestsSound
<1>5. Present = {}
  BY NoRoles DEF Init, Present
<1>. QED
  BY <1>3, <1>4, <1>5, NoInvitationType DEF IInv, AdministratorRemains, InvitationsSound, Init

LEMMA StepKeeps == IInv /\ Step => IInv'
<1> SUFFICES ASSUME IInv, Step PROVE IInv'
  OBVIOUS
<1>1. ASSUME NEW w \in Workers, SignInStep(w) PROVE IInv'
  BY <1>1, SignInStart, LookUpUserStep, CountUsersStep, FindAccountStep, FindRacedStep,
     ReadSignUpSettingsStep, FindLiveInvitationStep, CreateAccountStep DEF SignInStep
<1>2. ASSUME NEW w \in Workers, RoleStep(w) PROVE IInv'
  BY <1>2, ChangeAccountRoleStep, ReadTargetStep, WriteRoleStep, ClassifyStep DEF RoleStep
<1>3. ASSUME NEW w \in Workers, ErasureStep(w) PROVE IInv'
  BY <1>3, DeleteOwnAccountStep, DeleteAccountStep, RevokeAtBankStep DEF ErasureStep
<1>4. ASSUME NEW w \in Workers, AccessStep(w) PROVE IInv'
  BY <1>4, UpdateSignUpSettingsStep, ReadSettingsBeforeStep, StoreSettingsStep,
     CreateInvitationStep, CheckInviteeStep, StoreInvitationStep, RevokeInvitationStep,
     DeleteInvitationStep DEF AccessStep
<1>. QED  BY <1>1, <1>2, <1>3, <1>4, LoseStep, LapseStep, RemoveLapsedStep DEF Step

LEMMA StutterKeeps == IInv /\ UNCHANGED vars => IInv'
BY DEF vars, IInv, TypeOK, AdministratorRemains, Present, Admins, RequestsSound,
       InvitationsSound

\* What every reachable state satisfies: the types, an administrator wherever there are
\* accounts, and what each request in flight holds between its awaits.
THEOREM AccountsInvariant == Spec => []IInv
<1>1. IInv /\ [Next]_vars => IInv'
  BY StepKeeps, StutterKeeps DEF Next
<1>. QED  BY <1>1, IInvHolds, PTL DEF Spec

\* The type of every variable.
THEOREM TypeCorrect == Spec => []TypeOK
<1>1. IInv => TypeOK
  BY DEF IInv
<1>. QED  BY <1>1, AccountsInvariant, PTL

\* The instance keeps an administrator, whatever role changes, erasures and sign-ins
\* overlap and however many of them (accounts.ts, hasAnotherAdmin).
THEOREM SomeoneAdministers == Spec => []AdministratorRemains
<1>1. IInv => AdministratorRemains
  BY DEF IInv
<1>. QED  BY <1>1, AccountsInvariant, PTL

-----------------------------------------------------------------------------
(* Each write is a step of the registry                                     *)

\* The steps that only read.
LEMMA Readers ==
    ASSUME NEW w
    PROVE  /\ \A e : SignIn(w, e) => Reading
           /\ LookUpUser(w) => Reading
           /\ CountUsers(w) => Reading
           /\ \A r : ReadSignUpSettings(w, r) => Reading
           /\ \A r : FindLiveInvitation(w, r) => Reading
           /\ FindAccount(w) => Reading
           /\ FindRaced(w) => Reading
           /\ \A a, i, r : ChangeAccountRole(w, a, i, r) => Reading
           /\ ReadTarget(w) => Reading
           /\ Classify(w) => Reading
           /\ \A i : DeleteOwnAccount(w, i) => Reading
           /\ RevokeAtBank(w) => Reading
           /\ \A a, p : UpdateSignUpSettings(w, a, p) => Reading
           /\ ReadSettingsBefore(w) => Reading
           /\ \A a, e, r : CreateInvitation(w, a, e, r) => Reading
           /\ CheckInvitee(w) => Reading
           /\ \A a, e : RevokeInvitation(w, a, e) => Reading
           /\ Lose(w) => Reading
<1>1. \A e : SignIn(w, e) => Reading
  BY DEF SignIn, Reading
<1>2. LookUpUser(w) => Reading
  BY DEF LookUpUser, Reading
<1>3. CountUsers(w) => Reading
  BY DEF CountUsers, Reading
<1>4. \A r : ReadSignUpSettings(w, r) => Reading
  BY DEF ReadSignUpSettings, Reading
<1>5. \A r : FindLiveInvitation(w, r) => Reading
  BY DEF FindLiveInvitation, Reading
<1>6. FindAccount(w) => Reading
  BY DEF FindAccount, Reading
<1>7. FindRaced(w) => Reading
  BY DEF FindRaced, Reading
<1>8. \A a, i, r : ChangeAccountRole(w, a, i, r) => Reading
  BY DEF ChangeAccountRole, Reading
<1>9. ReadTarget(w) => Reading
  BY DEF ReadTarget, Reading
<1>10. Classify(w) => Reading
  BY DEF Classify, Reading
<1>11. \A i : DeleteOwnAccount(w, i) => Reading
  BY DEF DeleteOwnAccount, Reading
<1>12. RevokeAtBank(w) => Reading
  BY DEF RevokeAtBank, Reading
<1>13. \A a, p : UpdateSignUpSettings(w, a, p) => Reading
  BY DEF UpdateSignUpSettings, Reading
<1>14. \A a, e, r : CreateInvitation(w, a, e, r) => Reading
  BY DEF CreateInvitation, Reading
<1>15. CheckInvitee(w) => Reading
  BY DEF CheckInvitee, Reading
<1>16. \A a, e : RevokeInvitation(w, a, e) => Reading
  BY DEF RevokeInvitation, Reading
<1>17. Lose(w) => Reading
  BY DEF Lose, Reading
<1>18. ReadSettingsBefore(w) => Reading
  BY DEF ReadSettingsBefore, Reading
<1>. QED
  BY <1>1, <1>2, <1>3, <1>4, <1>5, <1>6, <1>7, <1>8, <1>9, <1>10, <1>11, <1>12, <1>13, <1>14,
     <1>15, <1>16, <1>17, <1>18

\* Two kinds of step write a role, one gives an account, and one sets the switches.
Writing(w) ==
    \/ \E i \in Ids : CreateAccount(w, i)
    \/ WriteRole(w)
    \/ \E consents \in BOOLEAN : DeleteAccount(w, consents)
    \/ StoreSettings(w)

Accounting == UNCHANGED <<role, email, settings>>

LEMMA WhatStepsWrite ==
    ASSUME Step, ~Accounting
    PROVE  \E w \in Workers : Writing(w)
<1>1. ASSUME NEW w \in Workers PROVE \A t : StoreInvitation(w, t) => Accounting
  BY DEF StoreInvitation, Accounting
<1>2. ASSUME NEW w \in Workers PROVE DeleteInvitation(w) => Accounting
  BY DEF DeleteInvitation, Accounting
<1>3. ~ \E e \in Emails : Lapse(e)
  BY DEF Lapse, Accounting
<1>4. ~RemoveLapsed
  BY DEF RemoveLapsed, Accounting
<1>5. Reading => Accounting
  BY DEF Reading, Accounting
<1>6. ASSUME NEW w \in Workers, SignInStep(w) PROVE Writing(w)
  BY <1>5, <1>6, Readers DEF SignInStep, Writing
<1>7. ASSUME NEW w \in Workers, RoleStep(w) PROVE Writing(w)
  BY <1>5, <1>7, Readers DEF RoleStep, Writing
<1>8. ASSUME NEW w \in Workers, ErasureStep(w) PROVE Writing(w)
  BY <1>5, <1>8, Readers DEF ErasureStep, Writing
<1>9. ASSUME NEW w \in Workers, AccessStep(w) PROVE Writing(w)
  BY <1>1, <1>2, <1>5, <1>9, Readers DEF AccessStep, Writing
<1>10. ASSUME NEW w \in Workers, Lose(w) PROVE Writing(w)
  BY <1>5, <1>10, Readers
<1>. QED  BY <1>3, <1>4, <1>6, <1>7, <1>8, <1>9, <1>10 DEF Step

LEMMA WhoWritesRoles ==
    ASSUME Step, ~ UNCHANGED <<role, email>>
    PROVE  \E w \in Workers :
              \/ \E i \in Ids : CreateAccount(w, i)
              \/ WriteRole(w)
              \/ \E consents \in BOOLEAN : DeleteAccount(w, consents)
<1>1. PICK w \in Workers : Writing(w)
  BY WhatStepsWrite DEF Accounting
<1>2. ~StoreSettings(w)
  BY DEF StoreSettings
<1>. QED  BY <1>1, <1>2 DEF Writing

LEMMA SameAccounts ==
    /\ Registry!Present = Present /\ Registry!Admins = Admins
    /\ \A e : Registry!AccountsOf(e) = AccountsOf(e)
BY DEF Registry!Present, Registry!Admins, Registry!AccountsOf, Registry!Roles,
       Present, Admins, AccountsOf, Roles

\* What a request in flight is about to write with.
LEMMA WriterHolds ==
    ASSUME IInv, NEW w \in Workers
    PROVE  /\ At(w, "create") => request[w].email \in Emails /\ request[w].decision.role \in Roles
           /\ At(w, "write") => /\ request[w].target \in Ids /\ request[w].to \in Roles
                                /\ request[w].from \in Roles
           /\ At(w, "delete") => request[w].actor \in Ids
BY DEF IInv, RequestsSound, SoundRequest, SigningIn, Regrading, Erasing, At

LEMMA StepRefines == IInv /\ Step => [Registry!Next]_(Registry!registry)
<1> SUFFICES ASSUME IInv, Step, ~ UNCHANGED <<role, email>> PROVE Registry!Next
  BY DEF Registry!registry
<1>1. ASSUME NEW w \in Workers, NEW i \in Ids, CreateAccount(w, i) PROVE Registry!Next
  <2> DEFINE q == request[w]
  <2>1. q.email \in Emails /\ q.decision.role \in Roles
    BY <1>1, WriterHolds DEF CreateAccount
  <2>2. /\ ~Taken(q.email) /\ (q.decision.role = "ADMIN" \/ Admins # {})
        /\ role[i] = "unused"
        /\ role' = [role EXCEPT ![i] = q.decision.role] /\ email' = [email EXCEPT ![i] = q.email]
    BY <1>1 DEF CreateAccount
  <2>3. Registry!Join(i, q.email, q.decision.role)
    BY <2>2, SameAccounts DEF Registry!Join, Taken
  <2>. QED  BY <2>1, <2>3 DEF Registry!Next, Registry!Roles, Roles
<1>2. ASSUME NEW w \in Workers, WriteRole(w) PROVE Registry!Next
  <2> DEFINE q == request[w]
  <2>1. q.target \in Ids /\ q.to \in Roles /\ q.from \in Roles
    BY <1>2, WriterHolds DEF WriteRole
  <2>2. MayWrite(q) /\ role' = [role EXCEPT ![q.target] = q.to] /\ UNCHANGED email
    BY <1>2 DEF WriteRole
  <2>3. q.target \in Present /\ q.actor \in Admins /\ q.actor \in Ids
    BY <2>1, <2>2 DEF MayWrite, Present, Admins
  <2>4. Registry!ChangeRole(q.actor, q.target, q.to)
    BY <2>2, <2>3, SameAccounts DEF Registry!ChangeRole, MayWrite
  <2>. QED  BY <2>1, <2>3, <2>4 DEF Registry!Next, Registry!Roles, Roles
<1>3. ASSUME NEW w \in Workers, NEW consents \in BOOLEAN, DeleteAccount(w, consents)
      PROVE  Registry!Next
  <2>1. request[w].actor \in Ids
    BY <1>3, WriterHolds DEF DeleteAccount
  <2>2. /\ MayGo(request[w].actor)
        /\ role' = [role EXCEPT ![request[w].actor] = "erased"] /\ UNCHANGED email
    BY <1>3 DEF DeleteAccount
  <2>3. Registry!Leave(request[w].actor)
    BY <2>2, SameAccounts DEF Registry!Leave, MayGo
  <2>. QED  BY <2>1, <2>3 DEF Registry!Next
<1>. QED  BY <1>1, <1>2, <1>3, WhoWritesRoles

\* Sign-ins, role changes and erasures, each split at its awaits, implement the registry:
\* one account per address, the first an administrator, the last one leaving alone.
THEOREM RefinesRegistry == Spec => ImplementsRegistry
<1>1. Init => Registry!Init
  BY DEF Init, Registry!Init
<1>2. IInv /\ [Next]_vars => [Registry!Next]_(Registry!registry)
  <2>1. UNCHANGED vars => UNCHANGED Registry!registry
    BY DEF vars, Registry!registry
  <2>. QED  BY <2>1, StepRefines DEF Next
<1>. QED  BY <1>1, <1>2, AccountsInvariant, PTL DEF Spec, ImplementsRegistry, Registry!Spec

-----------------------------------------------------------------------------
(* What a step may never do                                                 *)

\* A role is changed by someone who is an administrator as it is written (accounts.ts,
\* changeAccountRole's UPDATE).
THEOREM OnlyAdminsChangeRoles == Spec => RoleGivenByAdmin
<1> DEFINE Fine == \A i \in Ids : role[i] \in Roles /\ role'[i] \in Roles \ {role[i]} =>
                      \E w \in Workers : /\ At(w, "write") /\ request[w].target = i
                                         /\ request[w].actor \in Admins
<1>1. ASSUME IInv, [Next]_vars PROVE [Fine]_vars
  <2> SUFFICES ASSUME Step, NEW i \in Ids, role[i] \in Roles, role'[i] \in Roles, role'[i] # role[i]
               PROVE  \E w \in Workers : /\ At(w, "write") /\ request[w].target = i
                                         /\ request[w].actor \in Admins
    BY <1>1 DEF Next
  <2>1. \A w \in Workers : ~ \E j \in Ids : CreateAccount(w, j)
    BY <1>1, NoRoles DEF CreateAccount, IInv, TypeOK
  <2>2. \A w \in Workers : ~ \E consents \in BOOLEAN : DeleteAccount(w, consents)
    BY <1>1, NoRoles DEF DeleteAccount, IInv, TypeOK
  <2>3. PICK w \in Workers : WriteRole(w)
    BY <2>1, <2>2, WhoWritesRoles
  <2>4. MayWrite(request[w]) /\ request[w].target = i
    BY <1>1, <2>3 DEF WriteRole, IInv, TypeOK
  <2>. QED  BY <2>3, <2>4 DEF WriteRole, MayWrite
<1>. QED  BY <1>1, AccountsInvariant, PTL DEF Spec, RoleGivenByAdmin

LEMMA OnlyStoreSettings ==
    ASSUME Step, settings' # settings
    PROVE  \E w \in Workers : StoreSettings(w)
<1>1. PICK w \in Workers : Writing(w)
  BY WhatStepsWrite DEF Accounting
<1>2. ~ \E i \in Ids : CreateAccount(w, i)
  BY DEF CreateAccount
<1>3. ~WriteRole(w)
  BY DEF WriteRole
<1>4. ~ \E consents \in BOOLEAN : DeleteAccount(w, consents)
  BY DEF DeleteAccount
<1>. QED  BY <1>1, <1>2, <1>3, <1>4 DEF Writing

\* A switch moves only to what some request asked for it, however stale the switches that
\* request has read (sign-up.ts, updateSignUpSettings).
THEOREM SwitchesAsAsked == Spec => SwitchNeverPutBack
<1> DEFINE Fine == \A s \in DOMAIN settings : settings'[s] # settings[s] =>
                      \E w \in Workers : At(w, "switches") /\ request[w].patch[s] = settings'[s]
<1>1. ASSUME IInv, [Next]_vars PROVE [Fine]_vars
  <2> SUFFICES ASSUME Step, NEW s \in DOMAIN settings, settings'[s] # settings[s]
               PROVE  \E w \in Workers : At(w, "switches") /\ request[w].patch[s] = settings'[s]
    BY <1>1 DEF Next
  <2>1. PICK w \in Workers : StoreSettings(w)
    BY OnlyStoreSettings
  <2>2. request[w] \in RequestType
    BY <1>1 DEF IInv, TypeOK
  <2>3. settings'[s] = IF request[w].patch[s] = None THEN settings[s] ELSE request[w].patch[s]
    BY <1>1, <2>1, <2>2, PatchedType DEF StoreSettings, IInv, TypeOK
  <2>. QED  BY <2>1, <2>3 DEF StoreSettings
<1>. QED  BY <1>1, AccountsInvariant, PTL DEF Spec, SwitchNeverPutBack

-----------------------------------------------------------------------------
(* A newcomer comes in by a door that stood open                            *)

\* The switches a provisioning has read stood open while it ran, and so did the door
\* that the account it is about to create comes in by.
DoorFound(w) ==
    LET q == request[w]
    IN /\ /\ At(w, "invitation") /\ q.stage = "provision"
          /\ q.email \in Verified /\ q.email \notin Allowed
          => \A s \in DOMAIN q.settings : q.settings[s] => s \in open[w]
       /\ At(w, "create") => Warrant(w, q.email, q.decision.role)

DoorsFound == \A w \in Workers : DoorFound(w)

Moves(w)     == request' = [request EXCEPT ![w] = request'[w]]
Elsewhere(w) == request'[w].pc \notin {"invitation", "create"}

LEMMA EndsElsewhere ==
    ASSUME TypeOK, NEW w \in Workers
    PROVE  /\ Finish(w) => Moves(w) /\ Elsewhere(w)
           /\ \A pc : Goto(w, pc) => Moves(w) /\ request'[w].pc = pc
<1>1. Finish(w) => Moves(w) /\ Elsewhere(w)
  BY DEF Finish, Moves, Elsewhere, TypeOK, IdleRequest
<1>2. request[w] \in RequestType
  BY DEF TypeOK
<1>3. ASSUME NEW pc, Goto(w, pc) PROVE Moves(w) /\ request'[w].pc = pc
  <2>1. request'[w] = [request[w] EXCEPT !.pc = pc] /\ Moves(w)
    BY <1>3 DEF Goto, Moves, TypeOK
  <2>. QED  BY <1>2, <2>1 DEF RequestType
<1>. QED  BY <1>1, <1>3

LEMMA BeginsElsewhere ==
    ASSUME TypeOK, NEW w \in Workers, NEW q, request' = [request EXCEPT ![w] = q],
           q.pc \notin {"invitation", "create"}
    PROVE  Moves(w) /\ Elsewhere(w)
BY DEF Moves, Elsewhere, TypeOK

LEMMA MovesElsewhere ==
    ASSUME TypeOK, NEW w \in Workers
    PROVE  /\ \A e : SignIn(w, e) => Moves(w) /\ Elsewhere(w)
           /\ LookUpUser(w) => Moves(w) /\ Elsewhere(w)
           /\ FindAccount(w) => Moves(w) /\ Elsewhere(w)
           /\ FindRaced(w) => Moves(w) /\ Elsewhere(w)
           /\ \A i : CreateAccount(w, i) => Moves(w) /\ Elsewhere(w)
           /\ \A a, i, r : ChangeAccountRole(w, a, i, r) => Moves(w) /\ Elsewhere(w)
           /\ ReadTarget(w) => Moves(w) /\ Elsewhere(w)
           /\ WriteRole(w) => Moves(w) /\ Elsewhere(w)
           /\ Classify(w) => Moves(w) /\ Elsewhere(w)
           /\ \A i : DeleteOwnAccount(w, i) => Moves(w) /\ Elsewhere(w)
           /\ \A c : DeleteAccount(w, c) => Moves(w) /\ Elsewhere(w)
           /\ RevokeAtBank(w) => Moves(w) /\ Elsewhere(w)
           /\ \A a, p : UpdateSignUpSettings(w, a, p) => Moves(w) /\ Elsewhere(w)
           /\ ReadSettingsBefore(w) => Moves(w) /\ Elsewhere(w)
           /\ StoreSettings(w) => Moves(w) /\ Elsewhere(w)
           /\ \A a, e, r : CreateInvitation(w, a, e, r) => Moves(w) /\ Elsewhere(w)
           /\ CheckInvitee(w) => Moves(w) /\ Elsewhere(w)
           /\ \A t : StoreInvitation(w, t) => Moves(w) /\ Elsewhere(w)
           /\ \A a, e : RevokeInvitation(w, a, e) => Moves(w) /\ Elsewhere(w)
           /\ DeleteInvitation(w) => Moves(w) /\ Elsewhere(w)
           /\ Lose(w) => Moves(w) /\ Elsewhere(w)
<1>. USE DEF Elsewhere
<1>0. request[w] \in RequestType
  BY DEF TypeOK
<1>1. \A e : SignIn(w, e) => Moves(w) /\ Elsewhere(w)
  BY BeginsElsewhere DEF SignIn, IdleRequest
<1>2. LookUpUser(w) => Moves(w) /\ Elsewhere(w)
  <2> DEFINE q == [request[w] EXCEPT !.pc = "count", !.exists = AccountsOf(request[w].email) # {}]
  <2>1. q.pc = "count"
    BY <1>0 DEF RequestType
  <2>2. ASSUME LookUpUser(w) PROVE request' = [request EXCEPT ![w] = q]
    BY <2>2 DEF LookUpUser, TypeOK
  <2>. QED  BY <2>1, <2>2, BeginsElsewhere
<1>3. FindAccount(w) => Moves(w) /\ Elsewhere(w)
  BY EndsElsewhere DEF FindAccount
<1>4. FindRaced(w) => Moves(w) /\ Elsewhere(w)
  BY EndsElsewhere DEF FindRaced
<1>5. \A i : CreateAccount(w, i) => Moves(w) /\ Elsewhere(w)
  BY EndsElsewhere DEF CreateAccount
<1>6. \A a, i, r : ChangeAccountRole(w, a, i, r) => Moves(w) /\ Elsewhere(w)
  BY BeginsElsewhere DEF ChangeAccountRole, IdleRequest
<1>7. ReadTarget(w) => Moves(w) /\ Elsewhere(w)
  <2> DEFINE q == [request[w] EXCEPT !.pc = "write", !.from = role[request[w].target]]
  <2>1. q.pc = "write"
    BY <1>0 DEF RequestType
  <2>2. ASSUME ReadTarget(w) PROVE request' = [request EXCEPT ![w] = q] \/ Finish(w)
    BY <2>2 DEF ReadTarget, TypeOK
  <2>. QED  BY <2>1, <2>2, BeginsElsewhere, EndsElsewhere
<1>8. WriteRole(w) => Moves(w) /\ Elsewhere(w)
  BY EndsElsewhere DEF WriteRole
<1>9. Classify(w) => Moves(w) /\ Elsewhere(w)
  <2> DEFINE q == [request[w] EXCEPT !.pc = "target", !.from = None, !.attempt = @ + 1]
  <2>1. q.pc = "target"
    BY <1>0 DEF RequestType
  <2>2. ASSUME Classify(w) PROVE request' = [request EXCEPT ![w] = q] \/ Finish(w)
    BY <2>2 DEF Classify, TypeOK
  <2>. QED  BY <2>1, <2>2, BeginsElsewhere, EndsElsewhere
<1>10. \A i : DeleteOwnAccount(w, i) => Moves(w) /\ Elsewhere(w)
  BY BeginsElsewhere DEF DeleteOwnAccount, IdleRequest
<1>11. \A c : DeleteAccount(w, c) => Moves(w) /\ Elsewhere(w)
  BY EndsElsewhere DEF DeleteAccount
<1>12. RevokeAtBank(w) => Moves(w) /\ Elsewhere(w)
  BY EndsElsewhere DEF RevokeAtBank
<1>13. \A a, p : UpdateSignUpSettings(w, a, p) => Moves(w) /\ Elsewhere(w)
  BY BeginsElsewhere DEF UpdateSignUpSettings, IdleRequest
<1>14. StoreSettings(w) => Moves(w) /\ Elsewhere(w)
  BY EndsElsewhere DEF StoreSettings
<1>15. \A a, e, r : CreateInvitation(w, a, e, r) => Moves(w) /\ Elsewhere(w)
  BY BeginsElsewhere DEF CreateInvitation, IdleRequest
<1>16. CheckInvitee(w) => Moves(w) /\ Elsewhere(w)
  BY EndsElsewhere DEF CheckInvitee
<1>17. \A t : StoreInvitation(w, t) => Moves(w) /\ Elsewhere(w)
  BY EndsElsewhere DEF StoreInvitation
<1>18. \A a, e : RevokeInvitation(w, a, e) => Moves(w) /\ Elsewhere(w)
  BY BeginsElsewhere DEF RevokeInvitation, IdleRequest
<1>19. DeleteInvitation(w) => Moves(w) /\ Elsewhere(w)
  BY EndsElsewhere DEF DeleteInvitation
<1>20. Lose(w) => Moves(w) /\ Elsewhere(w)
  BY EndsElsewhere DEF Lose
<1>21. ReadSettingsBefore(w) => Moves(w) /\ Elsewhere(w)
  <2> DEFINE q == [request[w] EXCEPT !.pc = "switches", !.settings = settings]
  <2>1. q.pc = "switches"
    BY <1>0 DEF RequestType
  <2>2. ASSUME ReadSettingsBefore(w) PROVE request' = [request EXCEPT ![w] = q]
    BY <2>2 DEF ReadSettingsBefore, TypeOK
  <2>. QED  BY <2>1, <2>2, BeginsElsewhere
<1>. QED
  BY <1>1, <1>2, <1>3, <1>4, <1>5, <1>6, <1>7, <1>8, <1>9, <1>10, <1>11, <1>12, <1>13, <1>14,
     <1>15, <1>16, <1>17, <1>18, <1>19, <1>20, <1>21

LEMMA ReadersMove ==
    ASSUME TypeOK, NEW w \in Workers
    PROVE  /\ CountUsers(w) => Moves(w)
           /\ \A r : ReadSignUpSettings(w, r) => Moves(w)
           /\ \A r : FindLiveInvitation(w, r) => Moves(w)
<1>1. \A q, inv : Decide(w, q, inv) => Moves(w)
  BY DEF Decide, Moves, TypeOK
<1>2. CountUsers(w) => Moves(w)
  BY <1>1, EndsElsewhere DEF CountUsers
<1>3. \A r : ReadSignUpSettings(w, r) => Moves(w)
  BY DEF ReadSignUpSettings, Moves, TypeOK
<1>4. \A r : FindLiveInvitation(w, r) => Moves(w)
  BY <1>1 DEF FindLiveInvitation
<1>. QED  BY <1>2, <1>3, <1>4

\* How a request comes to the two points DoorFound is about.
LEMMA WhoMoves ==
    ASSUME TypeOK, Step, NEW w \in Workers
    PROVE  \/ request'[w] = request[w]
           \/ Elsewhere(w)
           \/ CountUsers(w)
           \/ \E r \in BOOLEAN : ReadSignUpSettings(w, r) \/ FindLiveInvitation(w, r)
<1>1. \A v \in Workers : Moves(v) /\ v # w => request'[w] = request[w]
  BY DEF Moves, TypeOK
<1> DEFINE Reads(v) == \/ CountUsers(v)
                       \/ \E r \in BOOLEAN : ReadSignUpSettings(v, r) \/ FindLiveInvitation(v, r)
<1>2. ASSUME NEW v \in Workers, SignInStep(v) PROVE Moves(v) /\ (Elsewhere(v) \/ Reads(v))
  BY <1>2, MovesElsewhere, ReadersMove DEF SignInStep
<1>3. ASSUME NEW v \in Workers, RoleStep(v) PROVE Moves(v) /\ Elsewhere(v)
  BY <1>3, MovesElsewhere DEF RoleStep
<1>4. ASSUME NEW v \in Workers, ErasureStep(v) PROVE Moves(v) /\ Elsewhere(v)
  BY <1>4, MovesElsewhere DEF ErasureStep
<1>5. ASSUME NEW v \in Workers, AccessStep(v) PROVE Moves(v) /\ Elsewhere(v)
  BY <1>5, MovesElsewhere DEF AccessStep
<1>6. ASSUME NEW v \in Workers, Lose(v) PROVE Moves(v) /\ Elsewhere(v)
  BY <1>6, MovesElsewhere
<1>7. ASSUME NEW e \in Emails, Lapse(e) PROVE request'[w] = request[w]
  BY <1>7 DEF Lapse
<1>8. RemoveLapsed => request'[w] = request[w]
  BY DEF RemoveLapsed
<1> HIDE DEF Reads
<1>9. \/ \E v \in Workers : Moves(v) /\ (Elsewhere(v) \/ Reads(v))
      \/ request'[w] = request[w]
  BY <1>2, <1>3, <1>4, <1>5, <1>6, <1>7, <1>8 DEF Step
<1>10. request'[w] = request[w] \/ Elsewhere(w) \/ Reads(w)
  BY <1>1, <1>9
<1>. QED  BY <1>10 DEF Reads

\* What a provisioning has found open stays recorded while it runs.
LEMMA DoorsStay ==
    ASSUME RecordDoors, NEW w \in Workers, request'[w].stage = "provision"
    PROVE  open'[w] = open[w] \cup Doors(request[w].email)'
BY DEF RecordDoors, Provisioning

\* A decision to create is warranted by what was read, if that stood open.
LEMMA DecisionWarranted ==
    ASSUME NEW q \in RequestType, NEW inv \in Invitations, NEW doors,
           q.first => "first" \in doors,
           q.email \in Verified /\ q.email \notin Allowed /\ ~q.first =>
              /\ \A s \in DOMAIN q.settings : q.settings[s] => s \in doors
              /\ Live(inv) => inv.role \in doors,
           DecideSignIn(q, inv) # Refused, DecideSignIn(q, inv).reason # "existing_user"
    PROVE  LET r == DecideSignIn(q, inv).role
           IN \/ r = "ADMIN" /\ ("first" \in doors \/ q.email \in Allowed)
              \/ {"invitations", r} \subseteq doors
              \/ "googleSignUp" \in doors /\ r = "MANAGER"
<1>1. q.settings \in Switches
  BY DEF RequestType
<1>2. DOMAIN q.settings = {"googleSignUp", "invitations"}
  BY <1>1 DEF Switches
<1>3. ~q.exists
  BY DEF DecideSignIn, Decision
<1>4. CASE q.first
  BY <1>3, <1>4 DEF DecideSignIn, Decision
<1>5. CASE ~q.first /\ q.email \in Allowed
  BY <1>3, <1>5 DEF DecideSignIn, Decision
<1>6. CASE ~q.first /\ q.email \notin Allowed
  <2> DEFINE invited == q.settings.invitations /\ Live(inv)
  <2>1. q.email \in Verified /\ (invited \/ q.settings.googleSignUp)
    BY <1>3, <1>6 DEF DecideSignIn
  <2>2. CASE invited
    <3>1. DecideSignIn(q, inv).role = inv.role
      BY <1>3, <1>6, <2>1, <2>2 DEF DecideSignIn, Decision
    <3>2. "invitations" \in doors /\ inv.role \in doors
      BY <1>2, <1>6, <2>1, <2>2
    <3>. QED  BY <3>1, <3>2
  <2>3. CASE ~invited
    <3>1. DecideSignIn(q, inv).role = "MANAGER"
      BY <1>3, <1>6, <2>1, <2>3 DEF DecideSignIn, Decision
    <3>2. "googleSignUp" \in doors
      BY <1>2, <1>6, <2>1, <2>3
    <3>. QED  BY <3>1, <3>2
  <2>. QED  BY <2>2, <2>3
<1>. QED  BY <1>4, <1>5, <1>6 DEF RequestType

LEMMA ReadSwitchesFound ==
    ASSUME IInv, RecordDoors, NEW w \in Workers, NEW r \in BOOLEAN, ReadSignUpSettings(w, r)
    PROVE  DoorFound(w)'
<1> DEFINE q == [request[w] EXCEPT !.pc = "invitation", !.settings = ReadOrClosed(r)]
<1>1. request[w] \in RequestType
  BY DEF IInv, TypeOK
<1>2. request'[w] = q /\ UNCHANGED settings
  BY DEF ReadSignUpSettings, IInv, TypeOK
<1>3. q.pc = "invitation" /\ q.settings = ReadOrClosed(r) /\ q.email = request[w].email
  BY <1>1 DEF RequestType
<1>4. DOMAIN settings = {"googleSignUp", "invitations"}
  BY DEF IInv, TypeOK, Switches
<1>5. ASSUME q.stage = "provision", q.email \in Verified, q.email \notin Allowed,
             NEW s \in DOMAIN q.settings, q.settings[s]
      PROVE  s \in open'[w]
  <2>1. r /\ q.settings = settings
    BY <1>3, <1>4, <1>5 DEF ReadOrClosed, ClosedSettings
  <2>2. open'[w] = open[w] \cup Doors(request[w].email)'
    BY <1>2, <1>5, DoorsStay
  <2>3. request'[w].email \in Verified /\ request'[w].email \notin Allowed
    BY <1>2, <1>5
  <2>4. s \in DOMAIN settings' /\ settings'[s]
    BY <1>2, <1>5, <2>1
  <2>5. s \in Doors(request[w].email)'
    BY <2>3, <2>4 DEF Doors
  <2>. QED  BY <2>2, <2>5
<1>. QED  BY <1>2, <1>3, <1>5 DEF DoorFound, At

\* The decision a provisioning makes on what it has read.
LEMMA DecideFound ==
    ASSUME IInv, RecordDoors, Reading, NEW w \in Workers, NEW q \in RequestType,
           NEW inv \in Invitations, Decide(w, q, inv),
           q.email \in Emails, q.stage \in {"gate", "provision"},
           inv = NoInvitation \/ inv = invitation[q.email],
           q.first => Present = {},
           q.stage = "provision" /\ q.email \in Verified /\ q.email \notin Allowed
              /\ ~q.first /\ ~q.exists =>
              \A s \in DOMAIN q.settings : q.settings[s] => s \in open[w]
    PROVE  DoorFound(w)'
<1> DEFINE d == DecideSignIn(q, inv)
           onward == [IdleRequest EXCEPT !.stage = "provision", !.email = q.email]
<1>1. CASE d = Refused
  <2>1. request'[w] = IdleRequest
    BY <1>1 DEF Decide, IInv, TypeOK
  <2>. QED  BY <2>1 DEF DoorFound, At, IdleRequest
<1>2. CASE d # Refused /\ q.stage = "gate"
  <2>1. request'[w] = [onward EXCEPT !.pc = "find"]
    BY <1>2 DEF Decide, IInv, TypeOK
  <2>. QED  BY <2>1 DEF DoorFound, At, IdleRequest
<1>3. CASE d # Refused /\ q.stage # "gate" /\ d.reason = "existing_user"
  <2>1. request'[w] = [onward EXCEPT !.pc = "raced"]
    BY <1>3 DEF Decide, IInv, TypeOK
  <2>. QED  BY <2>1 DEF DoorFound, At, IdleRequest
<1>4. CASE d # Refused /\ q.stage # "gate" /\ d.reason # "existing_user"
  <2> DEFINE next == [onward EXCEPT !.pc = "create", !.decision = d]
  <2>1. request'[w] = next
    BY <1>4 DEF Decide, IInv, TypeOK
  <2>2. /\ next.pc = "create" /\ next.stage = "provision"
        /\ next.email = q.email /\ next.decision = d
    BY DEF IdleRequest
  <2> HIDE DEF next
  <2>3. open'[w] = open[w] \cup Doors(q.email)'
    BY <2>1, <2>2, DoorsStay
  <2>4. q.first => "first" \in open'[w]
    BY <2>3 DEF Doors, Reading, Present
  <2>5. q.email \in Verified /\ q.email \notin Allowed /\ Live(inv) => inv.role \in open'[w]
    <3>1. NoInvitation.id = None
      BY DEF NoInvitation
    <3>. QED  BY <2>3, <3>1 DEF Doors, Reading, Live
  <2>6. /\ q.email \in Verified /\ q.email \notin Allowed /\ ~q.first
        => \A s \in DOMAIN q.settings : q.settings[s] => s \in open'[w]
    <3>1. ~q.exists
      BY <1>4 DEF DecideSignIn, Decision
    <3>. QED  BY <1>4, <2>3, <3>1
  <2>7. LET r == d.role
        IN \/ r = "ADMIN" /\ ("first" \in open'[w] \/ q.email \in Allowed)
           \/ {"invitations", r} \subseteq open'[w]
           \/ "googleSignUp" \in open'[w] /\ r = "MANAGER"
    BY <1>4, <2>4, <2>5, <2>6, DecisionWarranted
  <2> HIDE DEF d
  <2>8. Warrant(w, q.email, d.role)'
    BY <2>7 DEF Warrant
  <2>. QED  BY <2>1, <2>2, <2>8 DEF DoorFound, At
<1>. QED  BY <1>1, <1>2, <1>3, <1>4

LEMMA DoorsKept == IInv /\ Step /\ RecordDoors /\ DoorsFound => DoorsFound'
<1> SUFFICES ASSUME IInv, Step, RecordDoors, DoorsFound, NEW w \in Workers PROVE DoorFound(w)'
  BY DEF DoorsFound
<1> DEFINE q == request[w]
<1>1. q \in RequestType /\ SoundRequest(q)
  BY DEF IInv, TypeOK, RequestsSound
<1>2. CASE request'[w] = request[w]
  <2>1. At(w, "create") => q.stage = "provision"
    BY <1>1 DEF SoundRequest, At
  <2>2. q.stage = "provision" => open[w] \subseteq open'[w]
    BY <1>2, DoorsStay
  <2>3. DoorFound(w)
    BY DEF DoorsFound
  <2>4. At(w, "create") => Warrant(w, q.email, q.decision.role)'
    BY <1>2, <2>1, <2>2, <2>3 DEF DoorFound, Warrant
  <2>. QED  BY <1>2, <2>2, <2>3, <2>4 DEF DoorFound, At
<1>3. CASE Elsewhere(w)
  BY <1>3 DEF Elsewhere, DoorFound, At
<1>4. CASE CountUsers(w)
  <2> DEFINE counted == [q EXCEPT !.first = (Present = {})]
  <2>1. q.email \in Emails /\ q.stage \in {"gate", "provision"}
    BY <1>1, <1>4 DEF CountUsers, SoundRequest, SigningIn, At
  <2>2. (Present = {}) \in BOOLEAN
    OBVIOUS
  <2>3. counted \in RequestType
    BY <1>1, <2>2, Zenon DEF RequestType
  <2>4. /\ counted.first = (Present = {}) /\ counted.email = q.email
        /\ counted.stage = q.stage /\ counted.exists = q.exists /\ counted.settings = q.settings
    BY <1>1 DEF RequestType
  <2>5. Reading
    BY <1>4 DEF CountUsers, Reading
  <2>6. CASE Goto(w, "settings")
    <3>1. request'[w].pc = "settings"
      BY <2>6, EndsElsewhere DEF IInv
    <3>. QED  BY <3>1 DEF DoorFound, At
  <2>7. CASE /\ counted.exists \/ counted.first \/ counted.email \in Allowed
             /\ Decide(w, counted, NoInvitation)
    <3> HIDE DEF counted
    <3>. QED  BY <2>1, <2>3, <2>4, <2>5, <2>7, NoInvitationType, DecideFound
  <2>. QED  BY <1>4, <2>6, <2>7 DEF CountUsers
<1>5. ASSUME NEW r \in BOOLEAN, ReadSignUpSettings(w, r) PROVE DoorFound(w)'
  BY <1>5, ReadSwitchesFound
<1>6. ASSUME NEW r \in BOOLEAN, FindLiveInvitation(w, r) PROVE DoorFound(w)'
  <2> DEFINE inv == IF r THEN invitation[q.email] ELSE NoInvitation
  <2>1. At(w, "invitation") /\ Reading /\ Decide(w, q, inv)
    BY <1>6 DEF FindLiveInvitation, Reading
  <2>2. q.email \in Emails /\ q.stage \in {"gate", "provision"} /\ ~q.first
    BY <1>1, <2>1 DEF SoundRequest, SigningIn, At
  <2>3. inv \in Invitations /\ (inv = NoInvitation \/ inv = invitation[q.email])
    BY <2>2, NoInvitationType DEF IInv, TypeOK
  <2>4. q.stage = "provision" /\ q.email \in Verified /\ q.email \notin Allowed =>
           \A s \in DOMAIN q.settings : q.settings[s] => s \in open[w]
    BY <2>1 DEF DoorsFound, DoorFound
  <2> HIDE DEF inv
  <2>. QED  BY <1>1, <2>1, <2>2, <2>3, <2>4, DecideFound
<1>. QED  BY <1>2, <1>3, <1>4, <1>5, <1>6, WhoMoves DEF IInv

LEMMA DoorsStutter == DoorsFound /\ UNCHANGED vars => DoorsFound'
BY DEF vars, DoorsFound, DoorFound, At, Warrant

\* A new account comes in by a door that stood open while it was provisioned, with that
\* door's role; a read that fails opens none (registration.ts, provisionAccount).
THEOREM NobodySlipsIn == Spec => AdmittedByADoor
<1> DEFINE Fine == \A i \in Ids : role[i] = "unused" /\ role'[i] # "unused" =>
                      \E w \in Workers : At(w, "create") /\ Warrant(w, email'[i], role'[i])
<1>1. Init => DoorsFound
  BY DEF Init, DoorsFound, DoorFound, At, IdleRequest
<1>2. IInv /\ DoorsFound /\ [Next]_vars => DoorsFound'
  BY DoorsKept, DoorsStutter DEF Next
<1>3. ASSUME IInv, DoorsFound, [Next]_vars PROVE [Fine]_vars
  <2> SUFFICES ASSUME Step, NEW i \in Ids, role[i] = "unused", role'[i] # "unused"
               PROVE  \E w \in Workers : At(w, "create") /\ Warrant(w, email'[i], role'[i])
    BY <1>3 DEF Next
  <2>1. \A w \in Workers : ~WriteRole(w)
    BY <1>3, NoRoles, WriterHolds DEF WriteRole, MayWrite, IInv, TypeOK
  <2>2. \A w \in Workers : ~ \E consents \in BOOLEAN : DeleteAccount(w, consents)
    BY <1>3, NoRoles, WriterHolds DEF DeleteAccount, MayGo, Present, IInv, TypeOK
  <2>3. PICK w \in Workers, j \in Ids : CreateAccount(w, j)
    BY <2>1, <2>2, WhoWritesRoles
  <2>4. /\ At(w, "create") /\ j = i
        /\ role'[i] = request[w].decision.role /\ email'[i] = request[w].email
    BY <1>3, <2>3 DEF CreateAccount, IInv, TypeOK
  <2>. QED  BY <1>3, <2>4 DEF DoorsFound, DoorFound
<1>. QED  BY <1>1, <1>2, <1>3, AccountsInvariant, PTL DEF Spec, AdmittedByADoor

=============================================================================
