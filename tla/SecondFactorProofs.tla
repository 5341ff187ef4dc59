-------------------------- MODULE SecondFactorProofs --------------------------
(***************************************************************************)
(* Proofs about SecondFactor, for any number of sessions, secrets, codes,    *)
(* passkeys and requests in flight, and any bound on the clock.              *)
(*                                                                         *)
(* SoundRequest says what a request in flight still holds of the row and of  *)
(* its session, however long ago it looked: a sign-in owns its session, a     *)
(* session never comes back, the secret a code was checked against is either  *)
(* gone or confirmed, and a removal that read the factor on was shown a code.  *)
(***************************************************************************)
EXTENDS SecondFactor, TLAPS

InRoute(w) == request[w].pc \notin {"idle", "mint"}

SoundRequest(w) ==
    LET q == request[w]
        s == session[q.session]
    IN /\ ~Idle(w) => q.session \in Sessions
       /\ At(w, "mint") =>
             /\ s.state = "signing"
             /\ \A v \in Workers \ {w} : ~Idle(v) => request[v].session # q.session
       /\ InRoute(w) => s.state \in {"live", "over"}
       /\ q.pc \in {"disable", "turnOff"} => ~s.pending
       /\ At(w, "turnOff") /\ q.read.enabled => q.code \in {q.read.secret} \cup Codes
       /\ q.pc \in {"stamped", "clearKeys"} /\ q.signedAt # 0 /\ s.state = "live" => s.accepted
       /\ At(w, "turnOn") =>
             /\ q.read.secret # None /\ ~q.read.enabled
             /\ user.secret = q.read.secret => user.confirmed

RequestsSound == \A w \in Workers : SoundRequest(w)

\* A sign-in is never later than now, and a proof is only made for a session whose
\* factor was accepted.
SessionSound(s) ==
    /\ session[s].signedAt <= now
    /\ session[s].mfaProof \/ session[s].keepFor # 0 => session[s].accepted

SessionsSound == \A s \in Sessions : SessionSound(s)

IInv == TypeOK /\ OwnProof /\ FactorConfirmed /\ RequestsSound /\ SessionsSound

Moves(w) == request' = [request EXCEPT ![w] = request'[w]]

-----------------------------------------------------------------------------
(* What the other requests keep                                             *)

\* A session that was signed in goes on: it never waits for a code again, never loses
\* what it answered, and never comes back once it is over.
GoesOn(s) ==
    session[s].state \in {"live", "over"} =>
        /\ session'[s].state \in {"live", "over"}
        /\ session'[s].pending => session[s].pending
        /\ session'[s].state = "live" =>
              session[s].state = "live" /\ (session[s].accepted => session'[s].accepted)

\* A secret that is held after the step and was being confirmed is still confirmed.
SecretsGoOn ==
    \A v \in Workers : At(v, "turnOn") /\ user'.secret = request[v].read.secret =>
        user.secret = request[v].read.secret /\ (user.confirmed => user'.confirmed)

\* One session may change, and only a sign-in not yet begun, or one that is w's own,
\* is touched otherwise than GoesOn says.
LEMMA OthersSound ==
    ASSUME IInv, NEW w \in Workers, Moves(w), SecretsGoOn,
           \A s \in Sessions : GoesOn(s),
           \A v \in Workers \ {w} : At(v, "mint") =>
              /\ session'[request[v].session] = session[request[v].session]
              /\ request'[w].pc # "idle" => request'[w].session # request[v].session
    PROVE  \A v \in Workers \ {w} : SoundRequest(v)'
<1> SUFFICES ASSUME NEW v \in Workers \ {w} PROVE SoundRequest(v)'
  OBVIOUS
<1> DEFINE q == request[v]
           s == q.session
<1>1. SoundRequest(v)
  BY DEF IInv, RequestsSound
<1>2. \A u \in Workers \ {w} : request'[u] = request[u]
  BY DEF Moves, IInv, TypeOK
<1>3. request'[v] = q
  BY <1>2
<1>4. ~Idle(v)' => s \in Sessions
  BY <1>1, <1>3 DEF SoundRequest, Idle
<1>5. At(v, "mint")' =>
         /\ session'[s].state = "signing"
         /\ \A u \in Workers \ {v} : ~Idle(u)' => request'[u].session # s
  <2> SUFFICES ASSUME q.pc = "mint"
               PROVE  /\ session'[s].state = "signing"
                      /\ \A u \in Workers \ {v} : ~Idle(u)' => request'[u].session # s
    BY <1>3 DEF At
  <2>1. session'[s] = session[s] /\ (request'[w].pc # "idle" => request'[w].session # s)
    BY DEF At
  <2>2. session[s].state = "signing" /\ \A u \in Workers \ {v} : ~Idle(u) => request[u].session # s
    BY <1>1 DEF SoundRequest, At
  <2>. QED  BY <1>2, <2>1, <2>2 DEF Idle
<1>6. InRoute(v)' => /\ InRoute(v) /\ s \in Sessions
                     /\ session[s].state \in {"live", "over"} /\ GoesOn(s)
  BY <1>1, <1>3 DEF InRoute, SoundRequest, Idle
<1>7. InRoute(v)' => session'[s].state \in {"live", "over"}
  BY <1>6 DEF GoesOn
<1>8. q.pc \in {"disable", "turnOff"} => ~session'[s].pending
  BY <1>1, <1>3, <1>6 DEF GoesOn, SoundRequest, InRoute
<1>9. q.pc \in {"stamped", "clearKeys"} /\ q.signedAt # 0 /\ session'[s].state = "live"
         => session'[s].accepted
  BY <1>1, <1>3, <1>6 DEF GoesOn, SoundRequest, InRoute
<1>10. At(v, "turnOn")' =>
          /\ q.read.secret # None /\ ~q.read.enabled
          /\ user'.secret = q.read.secret => user'.confirmed
  BY <1>1, <1>3 DEF SecretsGoOn, SoundRequest, At
<1>11. At(v, "turnOff")' /\ q.read.enabled => q.code \in {q.read.secret} \cup Codes
  BY <1>1, <1>3 DEF SoundRequest, At
<1>. QED
  BY <1>3, <1>4, <1>5, <1>7, <1>8, <1>9, <1>10, <1>11 DEF SoundRequest

\* A step that leaves every request where it is.
LEMMA AllSound ==
    ASSUME IInv, UNCHANGED request, SecretsGoOn, \A s \in Sessions : GoesOn(s),
           \A v \in Workers : At(v, "mint") =>
              session'[request[v].session] = session[request[v].session]
    PROVE  RequestsSound'
<1> SUFFICES ASSUME NEW v \in Workers PROVE SoundRequest(v)'
  BY DEF RequestsSound
<1> DEFINE s == request[v].session
<1>1. SoundRequest(v)
  BY DEF IInv, RequestsSound
<1>2. At(v, "mint") => session'[s].state = "signing"
  BY <1>1 DEF SoundRequest, At
<1>3. InRoute(v) => s \in Sessions /\ session[s].state \in {"live", "over"} /\ GoesOn(s)
  BY <1>1 DEF InRoute, SoundRequest, Idle
<1>4. /\ InRoute(v) => session'[s].state \in {"live", "over"}
      /\ request[v].pc \in {"disable", "turnOff"} => ~session'[s].pending
      /\ request[v].pc \in {"stamped", "clearKeys"} /\ request[v].signedAt # 0
         /\ session'[s].state = "live" => session'[s].accepted
  BY <1>1, <1>3 DEF GoesOn, SoundRequest, InRoute
<1>5. At(v, "turnOn") => (user'.secret = request[v].read.secret => user'.confirmed)
  BY <1>1 DEF SecretsGoOn, SoundRequest, At
<1>. QED  BY <1>1, <1>2, <1>4, <1>5 DEF SoundRequest, At, Idle, InRoute

-----------------------------------------------------------------------------
(* Requests and sessions                                                    *)

LEMMA IdleType == IdleRequest \in RequestType /\ IdleRequest.pc = "idle"
<1>1. 0 \in 0..MaxTime
  BY SecondFactorAssumption
<1>2. NothingRead \in ReadType
  BY <1>1 DEF NothingRead, ReadType
<1>3. "idle" \in Pcs
  BY DEF Pcs
<1>4. IdleRequest \in RequestType
  BY <1>1, <1>2, <1>3, Zenon DEF IdleRequest, RequestType
<1>. QED  BY <1>4 DEF IdleRequest

LEMMA Shapes ==
    ASSUME TypeOK, NEW w \in Workers
    PROVE  /\ request[w] \in RequestType /\ user \in UserType
           /\ \A s \in Sessions : session[s] \in SessionType
BY DEF TypeOK

LEMMA Finished ==
    ASSUME TypeOK, NEW w \in Workers, Finish(w)
    PROVE  /\ Moves(w) /\ request'[w] = IdleRequest /\ request'[w].pc = "idle"
           /\ request' \in [Workers -> RequestType]
BY IdleType DEF Finish, Moves, TypeOK

LEMMA Went ==
    ASSUME TypeOK, NEW w \in Workers, NEW pc \in Pcs, Goto(w, pc)
    PROVE  /\ Moves(w) /\ request'[w] = [request[w] EXCEPT !.pc = pc]
           /\ request'[w].pc = pc /\ request'[w].session = request[w].session
           /\ request'[w].signedAt = request[w].signedAt /\ request'[w].read = request[w].read
           /\ request' \in [Workers -> RequestType]
<1> DEFINE q == [request[w] EXCEPT !.pc = pc]
<1>1. request'[w] = q /\ Moves(w)
  BY DEF Goto, Moves, TypeOK
<1>2. request[w] \in RequestType
  BY DEF TypeOK
<1>3. q \in RequestType
  BY <1>2, Zenon DEF RequestType
<1>4. /\ q.pc = pc /\ q.session = request[w].session
      /\ q.signedAt = request[w].signedAt /\ q.read = request[w].read
  BY <1>2 DEF RequestType
<1>. QED  BY <1>1, <1>3, <1>4 DEF Moves, TypeOK

\* A request that ended says nothing.
LEMMA EndedSound ==
    ASSUME NEW w \in Workers, request'[w].pc = "idle"
    PROVE  SoundRequest(w)'
BY DEF SoundRequest, Idle, At, InRoute

\* Nothing of the row or the sessions changes.
LEMMA QuietGoesOn ==
    ASSUME UNCHANGED <<user, session>>
    PROVE  SecretsGoOn /\ \A s \in Sessions : GoesOn(s)
BY DEF SecretsGoOn, GoesOn

\* A request that goes on with its session, and no other session changes.
LEMMA OwnSessionOnly ==
    ASSUME IInv, NEW w \in Workers, ~Idle(w),
           request'[w].pc = "idle" \/ request'[w].session = request[w].session,
           \A s \in Sessions \ {request[w].session} : session'[s] = session[s]
    PROVE  \A v \in Workers \ {w} : At(v, "mint") =>
              /\ session'[request[v].session] = session[request[v].session]
              /\ request'[w].pc # "idle" => request'[w].session # request[v].session
<1> SUFFICES ASSUME NEW v \in Workers \ {w}, At(v, "mint")
             PROVE  /\ session'[request[v].session] = session[request[v].session]
                    /\ request'[w].pc # "idle" => request'[w].session # request[v].session
  OBVIOUS
<1>1. SoundRequest(v)
  BY DEF IInv, RequestsSound
<1>2. request[v].session \in Sessions /\ request[w].session # request[v].session
  BY <1>1 DEF SoundRequest, At, Idle
<1>. QED  BY <1>2

-----------------------------------------------------------------------------
(* Steps that write neither the row nor a session                           *)

\* What a request that only reads has to show.
LEMMA ReadingKeeps ==
    ASSUME IInv, NEW w \in Workers, UNCHANGED <<user, now, session>>,
           cache' \in {None} \cup 0..MaxTime,
           Moves(w), request'[w] \in RequestType, SoundRequest(w)',
           ~Idle(w) => request'[w].pc = "idle" \/ request'[w].session = request[w].session,
           Idle(w) => request'[w].pc = "idle" \/ session[request'[w].session].state = "live"
    PROVE  IInv'
<1>1. \A v \in Workers \ {w} : At(v, "mint") =>
         /\ session'[request[v].session] = session[request[v].session]
         /\ request'[w].pc # "idle" => request'[w].session # request[v].session
  <2>1. CASE ~Idle(w)
    BY <2>1, OwnSessionOnly
  <2>2. CASE Idle(w)
    BY <2>2 DEF IInv, RequestsSound, SoundRequest
  <2>. QED  BY <2>1, <2>2
<1>2. \A v \in Workers : SoundRequest(v)'
  BY <1>1, OthersSound, QuietGoesOn
<1>3. TypeOK'
  BY DEF Moves, IInv, TypeOK
<1>. QED
  BY <1>2, <1>3 DEF IInv, RequestsSound, OwnProof, FactorConfirmed, SessionsSound, SessionSound

LEMMA FinishKeeps ==
    ASSUME IInv, NEW w \in Workers, UNCHANGED <<user, now, session>>,
           cache' \in {None} \cup 0..MaxTime, Finish(w), ~Idle(w)
    PROVE  IInv'
BY Finished, EndedSound, ReadingKeeps, IdleType DEF IInv

\* The places a request goes to with what it has.
LEMMA GotoKeeps ==
    ASSUME IInv, NEW w \in Workers, UNCHANGED <<user, now, session, cache>>,
           InRoute(w), NEW pc \in {"storeSecret", "saveKey", "dropKey", "useKey"}, Goto(w, pc)
    PROVE  IInv'
<1>1. pc \in Pcs
  BY DEF Pcs
<1>2. SoundRequest(w) /\ ~Idle(w)
  BY DEF IInv, RequestsSound, InRoute, Idle
<1>3. SoundRequest(w)'
  BY <1>1, <1>2, Went DEF IInv, SoundRequest, At, Idle, InRoute
<1>. QED  BY <1>1, <1>2, <1>3, Went, ReadingKeeps DEF IInv, TypeOK, Idle

-----------------------------------------------------------------------------
(* Steps that write a session                                               *)

\* What a step of w has to show of the whole state.
LEMMA StepKeeps ==
    ASSUME IInv, NEW w \in Workers, Moves(w), TypeOK', SecretsGoOn, \A s \in Sessions : GoesOn(s),
           \A v \in Workers \ {w} : At(v, "mint") =>
              /\ session'[request[v].session] = session[request[v].session]
              /\ request'[w].pc # "idle" => request'[w].session # request[v].session,
           SoundRequest(w)', OwnProof', FactorConfirmed', SessionsSound'
    PROVE  IInv'
<1>1. \A v \in Workers : SoundRequest(v)'
  BY OthersSound
<1>. QED  BY <1>1 DEF IInv, RequestsSound

\* One session changes to t, and the factor stays on or off as it was.
LEMMA OneSession ==
    ASSUME IInv, NEW s \in Sessions, NEW t \in SessionType,
           session' = [session EXCEPT ![s] = t], now' = now,
           user'.enabled = user.enabled, user'.validFrom = user.validFrom,
           session[s].state \in {"live", "over"} =>
              /\ t.state \in {"live", "over"} /\ (t.pending => session[s].pending)
              /\ t.state = "live" =>
                    session[s].state = "live" /\ (session[s].accepted => t.accepted),
           t.signedAt <= now, t.mfaProof \/ t.keepFor # 0 => t.accepted,
           t.state = "live" /\ ~t.pending /\ user.enabled =>
              t.accepted \/ t.signedAt <= user.validFrom
    PROVE  /\ session' \in [Sessions -> SessionType] /\ \A r \in Sessions : GoesOn(r)
           /\ SessionsSound' /\ OwnProof'
<1>1. session[s] \in SessionType /\ session' \in [Sessions -> SessionType]
  BY DEF IInv, TypeOK
<1>2. \A r \in Sessions : session'[r] = IF r = s THEN t ELSE session[r]
  BY DEF IInv, TypeOK
<1>3. \A r \in Sessions : GoesOn(r)
  BY <1>2 DEF GoesOn
<1>4. SessionsSound'
  BY <1>2 DEF IInv, SessionsSound, SessionSound
<1>5. OwnProof'
  BY <1>2 DEF IInv, OwnProof
<1>. QED  BY <1>1, <1>3, <1>4, <1>5

\* The end of a session.
LEMMA OverType ==
    ASSUME NEW t \in SessionType
    PROVE  /\ Over(t) \in SessionType /\ Over(t).state = "over"
           /\ Over(t).signedAt = t.signedAt /\ Over(t).pending = t.pending
           /\ ~Over(t).mfaProof /\ Over(t).keepFor = 0
<1>1. 0 \in 0..MaxTime
  BY SecondFactorAssumption
<1>. QED  BY <1>1 DEF Over, SessionType

\* A session that answered its own proof with the release it holds.
LEMMA JudgeKeeps ==
    ASSUME IInv, NEW w \in Workers, NEW s \in Sessions, NEW op, NEW validFrom,
           UNCHANGED <<user, now>>, cache' \in {None} \cup 0..MaxTime,
           Judge(w, s, op, validFrom),
           \/ Idle(w) /\ session[s].state = "live"
           \/ InRoute(w) /\ s = request[w].session
    PROVE  IInv'
<1>1. session[s] \in SessionType /\ session[s].state \in {"live", "over"} /\ SessionSound(s)
  BY DEF IInv, TypeOK, RequestsSound, SoundRequest, SessionsSound
<1>2. InRoute(w) => ~Idle(w)
  BY DEF InRoute, Idle
<1>3. ASSUME NEW t \in SessionType, session' = [session EXCEPT ![s] = t], Finish(w),
             t.state \in {"live", "over"}, t.pending => session[s].pending,
             t.state = "live" =>
                session[s].state = "live" /\ (session[s].accepted => t.accepted),
             t.signedAt = session[s].signedAt, t.mfaProof \/ t.keepFor # 0 => t.accepted,
             t.state = "live" /\ ~t.pending /\ user.enabled =>
                t.accepted \/ t.signedAt <= user.validFrom
      PROVE  IInv'
  <2>1. /\ session' \in [Sessions -> SessionType] /\ \A r \in Sessions : GoesOn(r)
        /\ SessionsSound' /\ OwnProof'
    BY <1>1, <1>3, OneSession DEF SessionSound
  <2>2. Moves(w) /\ SoundRequest(w)' /\ request'[w].pc = "idle"
    BY <1>3, Finished, EndedSound DEF IInv
  <2>3. TypeOK'
    BY <1>3, <2>1, Finished DEF IInv, TypeOK
  <2>4. \A v \in Workers \ {w} : At(v, "mint") =>
           session'[request[v].session] = session[request[v].session]
    <3>1. \A v \in Workers : At(v, "mint") =>
             request[v].session \in Sessions /\ session[request[v].session].state = "signing"
      BY DEF IInv, RequestsSound, SoundRequest, At, Idle
    <3>2. \A r \in Sessions \ {s} : session'[r] = session[r]
      BY <1>3 DEF IInv, TypeOK
    <3>. QED  BY <1>1, <3>1, <3>2
  <2>5. SecretsGoOn /\ FactorConfirmed'
    BY DEF SecretsGoOn, IInv, FactorConfirmed
  <2>. QED  BY <2>1, <2>2, <2>3, <2>4, <2>5, StepKeeps
<1>4. CASE SessionEnded(s, validFrom)
  <2>1. session' = [session EXCEPT ![s] = Over(session[s])] /\ Finish(w)
    BY <1>4 DEF Judge
  <2>. QED  BY <1>1, <1>3, <2>1, OverType
<1>5. CASE ~SessionEnded(s, validFrom) /\ op = "release" /\ Released(s)
  <2> DEFINE t == [session[s] EXCEPT !.pending = FALSE, !.mfaProof = FALSE]
  <2>1. session' = [session EXCEPT ![s] = t] /\ Finish(w)
    BY <1>5 DEF Judge, IInv, TypeOK
  <2>2. /\ t \in SessionType /\ t.state = session[s].state /\ t.pending = FALSE
        /\ t.signedAt = session[s].signedAt /\ t.accepted = session[s].accepted
        /\ t.mfaProof = FALSE /\ t.keepFor = session[s].keepFor
    BY <1>1 DEF SessionType
  <2>3. session[s].accepted
    BY <1>1, <1>5 DEF Released, SessionSound
  <2> HIDE DEF t
  <2>. QED  BY <1>1, <1>3, <2>1, <2>2, <2>3
<1>6. CASE ~SessionEnded(s, validFrom) /\ ~(op = "release" /\ Released(s)) /\ Admitted(s, op)
  <2> DEFINE q == [IdleRequest EXCEPT !.pc = op, !.session = s,
                                  !.signedAt = IF op = "enable" THEN session[s].signedAt ELSE 0]
  <2>1. request' = [request EXCEPT ![w] = q] /\ UNCHANGED session
    BY <1>6 DEF Judge
  <2>2. op \in Answering \cup Managing /\ (op \in Managing => ~session[s].pending)
    BY <1>6 DEF Admitted, Answering, Managing
  <2>3. op \in Pcs /\ op \notin {"idle", "mint", "turnOff", "stamped", "clearKeys", "turnOn"}
    BY <2>2 DEF Pcs, Answering, Managing
  <2>4. session[s].signedAt \in 0..MaxTime /\ 0 \in 0..MaxTime
    BY <1>1, SecondFactorAssumption DEF SessionType
  <2>5. q \in RequestType
    BY <2>3, <2>4, IdleType, Zenon DEF RequestType
  <2>6. q.pc = op /\ q.session = s
    BY DEF IdleRequest
  <2>7. op = "disable" => op \in Managing
    BY DEF Managing
  <2> HIDE DEF q
  <2>8. request'[w] = q /\ Moves(w)
    BY <2>1 DEF Moves, IInv, TypeOK
  <2>9. SoundRequest(w)'
    BY <1>1, <2>1, <2>2, <2>3, <2>6, <2>7, <2>8 DEF SoundRequest, At, Idle, InRoute
  <2>. QED  BY <1>2, <2>1, <2>5, <2>6, <2>8, <2>9, ReadingKeeps
<1>7. CASE ~SessionEnded(s, validFrom) /\ ~(op = "release" /\ Released(s)) /\ ~Admitted(s, op)
  <2>1. Finish(w) /\ UNCHANGED session
    BY <1>7 DEF Judge
  <2>. QED  BY <2>1, Finished, EndedSound, ReadingKeeps, IdleType DEF IInv
<1>. QED  BY <1>4, <1>5, <1>6, <1>7

LEMMA BeginCachedStep ==
    ASSUME IInv, NEW w \in Workers, NEW s \in Sessions, NEW op, BeginCached(w, s, op)
    PROVE  IInv'
BY JudgeKeeps DEF BeginCached, IInv, TypeOK

LEMMA RememberEpochStep ==
    ASSUME IInv, NEW w \in Workers, NEW op, RememberEpoch(w, op)
    PROVE  IInv'
<1>1. InRoute(w) /\ ~Idle(w)
  BY DEF RememberEpoch, At, InRoute, Idle
<1>2. SessionOf(w) \in Sessions /\ request[w].read.validFrom \in 0..MaxTime
  BY <1>1, Shapes DEF IInv, RequestsSound, SoundRequest, SessionOf, RequestType, ReadType
<1>. QED  BY <1>1, <1>2, JudgeKeeps DEF RememberEpoch, SessionOf

LEMMA EpochUnreadableStep ==
    ASSUME IInv, NEW w \in Workers, NEW op, EpochUnreadable(w, op)
    PROVE  IInv'
<1>1. InRoute(w) /\ ~Idle(w)
  BY DEF EpochUnreadable, At, InRoute, Idle
<1>2. SessionOf(w) \in Sessions
  BY <1>1 DEF IInv, RequestsSound, SoundRequest, SessionOf
<1>. QED  BY <1>1, <1>2, JudgeKeeps DEF EpochUnreadable, SessionOf, IInv, TypeOK

LEMMA BeginStep ==
    ASSUME IInv, NEW w \in Workers, NEW s \in Sessions, Begin(w, s)
    PROVE  IInv'
<1> DEFINE q == [IdleRequest EXCEPT !.pc = "epoch", !.session = s]
<1>1. "epoch" \in Pcs
  BY DEF Pcs
<1>2. q \in RequestType
  BY <1>1, IdleType, Zenon DEF RequestType
<1>3. q.pc = "epoch" /\ q.session = s
  BY DEF IdleRequest
<1> HIDE DEF q
<1>4. request'[w] = q /\ Moves(w)
  BY DEF q, Begin, Moves, IInv, TypeOK
<1>5. SoundRequest(w)'
  BY <1>3, <1>4 DEF Begin, SoundRequest, At, Idle, InRoute
<1>. QED  BY <1>2, <1>3, <1>4, <1>5, ReadingKeeps DEF Begin, IInv, TypeOK

LEMMA ReadEpochStep ==
    ASSUME IInv, NEW w \in Workers, ReadEpoch(w)
    PROVE  IInv'
<1> DEFINE read == [request[w].read EXCEPT !.validFrom = user.validFrom]
           q == [request[w] EXCEPT !.pc = "remember", !.read = read]
<1>1. request[w] \in RequestType /\ user.validFrom \in 0..MaxTime /\ "remember" \in Pcs
  BY Shapes DEF IInv, UserType, Pcs
<1>2. read \in ReadType
  BY <1>1 DEF RequestType, ReadType
<1> HIDE DEF read
<1>3. q \in RequestType
  BY <1>1, <1>2, Zenon DEF RequestType
<1>4. q.pc = "remember" /\ q.session = request[w].session
  BY <1>1 DEF RequestType
<1>5. request'[w] = q /\ Moves(w)
  BY <1>1 DEF read, ReadEpoch, Moves, IInv, TypeOK, RequestType
<1> HIDE DEF q
<1>6. SoundRequest(w) /\ InRoute(w) /\ ~Idle(w)
  BY DEF IInv, RequestsSound, ReadEpoch, At, InRoute, Idle
<1>7. SoundRequest(w)'
  BY <1>4, <1>5, <1>6 DEF ReadEpoch, SoundRequest, At, Idle, InRoute
<1>. QED  BY <1>3, <1>4, <1>5, <1>6, <1>7, ReadingKeeps DEF ReadEpoch, IInv, TypeOK

-----------------------------------------------------------------------------
(* Signing in                                                               *)

LEMMA SignInStep ==
    ASSUME IInv, NEW w \in Workers, NEW s \in Sessions, SignIn(w, s)
    PROVE  IInv'
<1> DEFINE t == [session[s] EXCEPT !.state = "signing", !.signedAt = now]
           q == [IdleRequest EXCEPT !.pc = "mint", !.session = s]
<1>1. /\ session[s] \in SessionType /\ session[s].state = "none" /\ Idle(w)
      /\ SessionSound(s) /\ now \in 0..MaxTime /\ now \in Nat
  BY SecondFactorAssumption DEF SignIn, IInv, TypeOK, SessionsSound
<1>2. /\ t \in SessionType /\ t.state = "signing" /\ t.signedAt = now
      /\ t.mfaProof = session[s].mfaProof /\ t.keepFor = session[s].keepFor
      /\ t.accepted = session[s].accepted
  BY <1>1 DEF SessionType
<1>3. "mint" \in Pcs
  BY DEF Pcs
<1>4. q \in RequestType
  BY <1>3, IdleType, Zenon DEF RequestType
<1>5. q.pc = "mint" /\ q.session = s
  BY DEF IdleRequest
<1>6. session' = [session EXCEPT ![s] = t] /\ UNCHANGED <<user, now, cache>>
  BY DEF SignIn, IInv, TypeOK
<1> HIDE DEF t, q
<1>7. request'[w] = q /\ Moves(w)
  BY DEF q, SignIn, Moves, IInv, TypeOK
<1>8. /\ session' \in [Sessions -> SessionType] /\ \A r \in Sessions : GoesOn(r)
      /\ SessionsSound' /\ OwnProof'
  <2>1. t.signedAt <= now
    BY <1>1, <1>2
  <2>2. t.mfaProof \/ t.keepFor # 0 => t.accepted
    BY <1>1, <1>2 DEF SessionSound
  <2>3. user'.enabled = user.enabled /\ user'.validFrom = user.validFrom /\ now' = now
    BY <1>6
  <2>. QED  BY <1>1, <1>2, <1>6, <2>1, <2>2, <2>3, OneSession
<1>9. \A v \in Workers \ {w} : ~Idle(v) => request[v].session # s /\ request[v].session \in Sessions
  BY <1>1 DEF IInv, RequestsSound, SoundRequest, InRoute, Idle, At
<1>10. \A v \in Workers \ {w} : request'[v] = request[v]
  BY <1>7 DEF Moves, IInv, TypeOK
<1>11. SoundRequest(w)'
  <2>1. session'[s].state = "signing"
    BY <1>2, <1>6 DEF IInv, TypeOK
  <2>2. \A v \in Workers \ {w} : ~Idle(v)' => request'[v].session # s
    BY <1>9, <1>10 DEF Idle
  <2>. QED  BY <1>5, <1>7, <2>1, <2>2 DEF SoundRequest, At, Idle, InRoute
<1>12. \A v \in Workers \ {w} : At(v, "mint") =>
          /\ session'[request[v].session] = session[request[v].session]
          /\ request'[w].pc # "idle" => request'[w].session # request[v].session
  BY <1>5, <1>6, <1>7, <1>9 DEF At, Idle, IInv, TypeOK
<1>13. TypeOK'
  BY <1>4, <1>6, <1>7, <1>8 DEF Moves, IInv, TypeOK
<1>14. SecretsGoOn /\ FactorConfirmed'
  BY <1>6 DEF SecretsGoOn, IInv, FactorConfirmed
<1>. QED  BY <1>7, <1>8, <1>11, <1>12, <1>13, <1>14, StepKeeps

\* A step of w that writes its own session, keeps the row's factor, and ends or goes on.
LEMMA OwnSessionKeeps ==
    ASSUME IInv, NEW w \in Workers, ~Idle(w), NEW t \in SessionType,
           session' = [session EXCEPT ![request[w].session] = t],
           session[request[w].session].state \in {"live", "over"} =>
              /\ t.state \in {"live", "over"}
              /\ t.pending => session[request[w].session].pending
              /\ t.state = "live" => /\ session[request[w].session].state = "live"
                                     /\ session[request[w].session].accepted => t.accepted,
           t.signedAt <= now, t.mfaProof \/ t.keepFor # 0 => t.accepted,
           t.state = "live" /\ ~t.pending /\ user.enabled =>
              t.accepted \/ t.signedAt <= user.validFrom,
           user' \in UserType, user'.enabled = user.enabled, user'.validFrom = user.validFrom,
           user'.secret = user.secret, user'.confirmed = user.confirmed,
           UNCHANGED <<now, cache>>, Finish(w)
    PROVE  IInv'
<1> DEFINE s == request[w].session
<1>1. s \in Sessions
  BY DEF IInv, RequestsSound, SoundRequest
<1>2. /\ session' \in [Sessions -> SessionType] /\ \A r \in Sessions : GoesOn(r)
      /\ SessionsSound' /\ OwnProof'
  BY <1>1, OneSession
<1>3. /\ Moves(w) /\ request'[w].pc = "idle" /\ request' \in [Workers -> RequestType]
      /\ SoundRequest(w)'
  BY Finished, EndedSound DEF IInv
<1>4. \A r \in Sessions \ {s} : session'[r] = session[r]
  BY DEF IInv, TypeOK
<1>5. TypeOK'
  BY <1>2, <1>3 DEF IInv, TypeOK
<1>6. SecretsGoOn /\ FactorConfirmed'
  BY DEF SecretsGoOn, IInv, FactorConfirmed
<1>. QED  BY <1>2, <1>3, <1>4, <1>5, <1>6, OwnSessionOnly, StepKeeps

LEMMA MintStep ==
    ASSUME IInv, NEW w \in Workers, Mint(w)
    PROVE  IInv'
<1> DEFINE s == request[w].session
           t == [session[s] EXCEPT !.state = "live", !.pending = user.enabled]
<1>1. /\ ~Idle(w) /\ s \in Sessions /\ session[s] \in SessionType
      /\ session[s].state = "signing" /\ SessionSound(s)
  BY DEF Mint, At, Idle, IInv, TypeOK, RequestsSound, SoundRequest, SessionsSound
<1>2. user.enabled \in BOOLEAN
  BY DEF IInv, TypeOK, UserType
<1>3. /\ t \in SessionType /\ t.pending = user.enabled /\ t.signedAt = session[s].signedAt
      /\ t.mfaProof = session[s].mfaProof /\ t.keepFor = session[s].keepFor
      /\ t.accepted = session[s].accepted
  BY <1>1, <1>2 DEF SessionType
<1>4. session' = [session EXCEPT ![s] = t] /\ Finish(w) /\ UNCHANGED <<user, now, cache>>
  BY DEF Mint, SessionOf, IInv, TypeOK
<1> HIDE DEF t
<1>5. user' \in UserType
  BY <1>4 DEF IInv, TypeOK
<1>. QED  BY <1>1, <1>3, <1>4, <1>5, OwnSessionKeeps DEF SessionSound

LEMMA LoseStep ==
    ASSUME IInv, NEW w \in Workers, Lose(w)
    PROVE  IInv'
<1> DEFINE s == request[w].session
           t == IF session[s].state = "signing" THEN Over(session[s]) ELSE session[s]
<1>1. ~Idle(w) /\ s \in Sessions /\ session[s] \in SessionType /\ SessionSound(s)
  BY DEF Lose, Idle, IInv, TypeOK, RequestsSound, SoundRequest, SessionsSound
<1>2. session' = [session EXCEPT ![s] = t] /\ Finish(w) /\ UNCHANGED <<user, now, cache>>
  BY DEF Lose, SessionOf, IInv, TypeOK
<1>3. t \in SessionType /\ t.signedAt = session[s].signedAt
  BY <1>1, OverType
<1>4. t.mfaProof \/ t.keepFor # 0 => t.accepted
  BY <1>1, OverType DEF SessionSound
<1>5. t.state = "live" => session[s].state = "live" /\ t = session[s]
  BY <1>1, OverType
<1>6. session[s].state \in {"live", "over"} => t = session[s]
  OBVIOUS
<1>7. t.state = "live" /\ ~t.pending /\ user.enabled => t.accepted \/ t.signedAt <= user.validFrom
  BY <1>1, <1>5 DEF IInv, OwnProof
<1> HIDE DEF t
<1>8. user' \in UserType
  BY <1>2 DEF IInv, TypeOK
<1>. QED  BY <1>1, <1>2, <1>3, <1>4, <1>5, <1>6, <1>7, <1>8, OwnSessionKeeps DEF SessionSound

\* A session renews itself: it was kept because its own factor was accepted.
LEMMA KeepStep ==
    ASSUME IInv, NEW s \in Sessions, Keep(s)
    PROVE  IInv'
<1> DEFINE t == [session[s] EXCEPT !.signedAt = now]
<1>1. /\ session[s] \in SessionType /\ session[s].state = "live" /\ session[s].accepted
      /\ now \in 0..MaxTime /\ now \in Nat /\ SessionSound(s)
  BY SecondFactorAssumption DEF Keep, IInv, TypeOK, SessionsSound, SessionSound
<1>2. /\ t \in SessionType /\ t.state = "live" /\ t.signedAt = now
      /\ t.pending = session[s].pending /\ t.accepted = session[s].accepted
  BY <1>1 DEF SessionType
<1>3. session' = [session EXCEPT ![s] = t] /\ UNCHANGED <<user, now, cache, request>>
  BY DEF Keep, IInv, TypeOK
<1> HIDE DEF t
<1>4. /\ session' \in [Sessions -> SessionType] /\ \A r \in Sessions : GoesOn(r)
      /\ SessionsSound' /\ OwnProof'
  <2>1. t.signedAt <= now
    BY <1>1, <1>2
  <2>2. t.accepted /\ (t.pending => session[s].pending)
    BY <1>1, <1>2
  <2>3. user'.enabled = user.enabled /\ user'.validFrom = user.validFrom /\ now' = now
    BY <1>3
  <2>. QED  BY <1>1, <1>2, <1>3, <2>1, <2>2, <2>3, OneSession
<1>5. \A v \in Workers : At(v, "mint") =>
         session'[request[v].session] = session[request[v].session]
  <2>1. \A v \in Workers : At(v, "mint") =>
           request[v].session \in Sessions /\ session[request[v].session].state = "signing"
    BY DEF IInv, RequestsSound, SoundRequest, At, Idle
  <2>. QED  BY <1>1, <1>3, <2>1 DEF IInv, TypeOK
<1>6. SecretsGoOn
  BY <1>3 DEF SecretsGoOn
<1>7. RequestsSound'
  BY <1>3, <1>4, <1>5, <1>6, AllSound
<1>8. TypeOK' /\ FactorConfirmed'
  BY <1>3, <1>4 DEF IInv, TypeOK, FactorConfirmed
<1>. QED  BY <1>4, <1>7, <1>8 DEF IInv

LEMMA CacheExpiresStep == IInv /\ CacheExpires => IInv'
<1> SUFFICES ASSUME IInv, CacheExpires PROVE IInv'
  OBVIOUS
<1>1. UNCHANGED <<user, now, session, request>> /\ cache' = None
  BY DEF CacheExpires
<1>2. RequestsSound'
  BY <1>1, AllSound, QuietGoesOn
<1>. QED
  BY <1>1, <1>2 DEF IInv, TypeOK, OwnProof, FactorConfirmed, SessionsSound, SessionSound

LEMMA TickStep == IInv /\ Tick => IInv'
<1> SUFFICES ASSUME IInv, Tick PROVE IInv'
  OBVIOUS
<1>1. UNCHANGED <<user, session, cache, request>> /\ now' = now + 1 /\ now' \in 1..MaxTime
  BY SecondFactorAssumption DEF Tick, IInv, TypeOK
<1>2. RequestsSound'
  BY <1>1, AllSound, QuietGoesOn
<1>3. SessionsSound'
  <2>1. \A s \in Sessions : session[s].signedAt \in 0..MaxTime
    BY DEF IInv, TypeOK, SessionType
  <2>2. now \in Nat
    BY DEF IInv, TypeOK
  <2>. QED
    BY <1>1, <2>1, <2>2, SecondFactorAssumption DEF IInv, SessionsSound, SessionSound
<1>4. TypeOK'
  BY <1>1 DEF IInv, TypeOK
<1>. QED  BY <1>1, <1>2, <1>3, <1>4 DEF IInv, OwnProof, FactorConfirmed

-----------------------------------------------------------------------------
(* The routes                                                               *)

\* A step of a route that keeps the sessions, and of the row its stamp and whether the
\* factor is on.
LEMMA RowKeeps ==
    ASSUME IInv, NEW w \in Workers, ~Idle(w), UNCHANGED <<now, session, cache>>,
           user' \in UserType, SecretsGoOn, FactorConfirmed',
           user'.enabled => user.enabled /\ user'.validFrom = user.validFrom,
           Moves(w), request'[w] \in RequestType, SoundRequest(w)',
           request'[w].pc = "idle" \/ request'[w].session = request[w].session
    PROVE  IInv'
<1>1. \A s \in Sessions : GoesOn(s)
  BY DEF GoesOn
<1>2. OwnProof' /\ SessionsSound'
  BY DEF IInv, OwnProof, SessionsSound, SessionSound
<1>3. TypeOK'
  BY DEF Moves, IInv, TypeOK
<1>. QED  BY <1>1, <1>2, <1>3, OwnSessionOnly, StepKeeps

\* The row after a step, one field at a time.
LEMMA UserFields ==
    ASSUME TypeOK
    PROVE  /\ user.secret \in Secrets \cup {None} /\ user.enabled \in BOOLEAN
           /\ user.codes \in SUBSET Codes /\ user.validFrom \in 0..MaxTime
           /\ user.passkeys \in SUBSET Keys /\ user.confirmed \in BOOLEAN
BY DEF TypeOK, UserType

\* A route in flight, and what it holds.
LEMMA InFlight ==
    ASSUME IInv, NEW w \in Workers, InRoute(w)
    PROVE  /\ ~Idle(w) /\ request[w] \in RequestType /\ SoundRequest(w)
           /\ request[w].session \in Sessions
           /\ session[request[w].session] \in SessionType
           /\ session[request[w].session].state \in {"live", "over"}
           /\ SessionSound(request[w].session)
BY DEF InRoute, Idle, IInv, TypeOK, RequestsSound, SoundRequest, SessionsSound

LEMMA SetupStep ==
    ASSUME IInv, NEW w \in Workers, Setup(w)
    PROVE  IInv'
<1>1. InRoute(w) /\ ~Idle(w)
  BY DEF Setup, At, InRoute, Idle
<1>2. UNCHANGED <<user, now, session, cache>> /\ cache' \in {None} \cup 0..MaxTime
  BY DEF Setup, IInv, TypeOK
<1>3. CASE Finish(w)
  BY <1>1, <1>2, <1>3, FinishKeeps
<1>4. CASE Goto(w, "storeSecret")
  BY <1>1, <1>2, <1>4, GotoKeeps
<1>. QED  BY <1>3, <1>4 DEF Setup

LEMMA RegisterStep ==
    ASSUME IInv, NEW w \in Workers, Register(w)
    PROVE  IInv'
<1>1. InRoute(w) /\ ~Idle(w)
  BY DEF Register, At, InRoute, Idle
<1>2. UNCHANGED <<user, now, session, cache>> /\ cache' \in {None} \cup 0..MaxTime
  BY DEF Register, IInv, TypeOK
<1>3. CASE Finish(w)
  BY <1>1, <1>2, <1>3, FinishKeeps
<1>4. CASE Goto(w, "saveKey")
  BY <1>1, <1>2, <1>4, GotoKeeps
<1>. QED  BY <1>3, <1>4 DEF Register

LEMMA RemoveKeyStep ==
    ASSUME IInv, NEW w \in Workers, RemoveKey(w)
    PROVE  IInv'
<1>1. InRoute(w) /\ ~Idle(w)
  BY DEF RemoveKey, At, InRoute, Idle
<1>2. UNCHANGED <<user, now, session, cache>> /\ cache' \in {None} \cup 0..MaxTime
  BY DEF RemoveKey, IInv, TypeOK
<1>3. CASE Finish(w)
  BY <1>1, <1>2, <1>3, FinishKeeps
<1>4. CASE Goto(w, "dropKey")
  BY <1>1, <1>2, <1>4, GotoKeeps
<1>. QED  BY <1>3, <1>4 DEF RemoveKey

LEMMA CheckFactorStep ==
    ASSUME IInv, NEW w \in Workers, CheckFactor(w)
    PROVE  IInv'
<1>1. InRoute(w) /\ ~Idle(w)
  BY DEF CheckFactor, At, InRoute, Idle
<1>2. UNCHANGED <<user, now, session, cache>> /\ cache' \in {None} \cup 0..MaxTime
  BY DEF CheckFactor, IInv, TypeOK
<1>3. CASE Finish(w)
  BY <1>1, <1>2, <1>3, FinishKeeps
<1>4. CASE Goto(w, "useKey")
  BY <1>1, <1>2, <1>4, GotoKeeps
<1>. QED  BY <1>3, <1>4 DEF CheckFactor

LEMMA FindKeyStep ==
    ASSUME IInv, NEW w \in Workers, NEW k \in Keys, FindKey(w, k)
    PROVE  IInv'
<1> DEFINE q == [request[w] EXCEPT !.pc = "keyFactor", !.code = k]
<1>1. InRoute(w) /\ ~Idle(w) /\ request[w] \in RequestType /\ SoundRequest(w)
  BY InFlight DEF FindKey, At, InRoute
<1>2. UNCHANGED <<user, now, session, cache>> /\ cache' \in {None} \cup 0..MaxTime
  BY DEF FindKey, IInv, TypeOK
<1>3. CASE Finish(w)
  BY <1>1, <1>2, <1>3, FinishKeeps
<1>4. CASE request' = [request EXCEPT ![w].pc = "keyFactor", ![w].code = k]
  <2>1. "keyFactor" \in Pcs
    BY DEF Pcs
  <2>2. q \in RequestType
    BY <1>1, <2>1, Zenon DEF RequestType
  <2>3. q.pc = "keyFactor" /\ q.session = request[w].session
    BY <1>1 DEF RequestType
  <2> HIDE DEF q
  <2>4. request'[w] = q /\ Moves(w)
    BY <1>4 DEF q, Moves, IInv, TypeOK
  <2>5. SoundRequest(w)'
    BY <1>1, <1>2, <2>3, <2>4 DEF SoundRequest, At, Idle, InRoute
  <2>. QED  BY <1>1, <1>2, <2>2, <2>3, <2>4, <2>5, ReadingKeeps
<1>. QED  BY <1>3, <1>4 DEF FindKey

LEMMA VerifyBackupStep ==
    ASSUME IInv, NEW w \in Workers, NEW c \in user.codes, VerifyBackup(w, c)
    PROVE  IInv'
<1> DEFINE read == [request[w].read EXCEPT !.codes = user.codes \ {c}]
           q == [request[w] EXCEPT !.pc = "spend", !.read = read]
<1>1. InRoute(w) /\ ~Idle(w) /\ request[w] \in RequestType /\ SoundRequest(w)
  BY InFlight DEF VerifyBackup, At, InRoute
<1>2. user.codes \in SUBSET Codes /\ "spend" \in Pcs
  BY UserFields DEF IInv, Pcs
<1>3. UNCHANGED <<user, now, session, cache>> /\ cache' \in {None} \cup 0..MaxTime
  BY DEF VerifyBackup, IInv, TypeOK
<1>4. read \in ReadType
  BY <1>1, <1>2 DEF RequestType, ReadType
<1> HIDE DEF read
<1>5. q \in RequestType
  BY <1>1, <1>2, <1>4, Zenon DEF RequestType
<1>6. q.pc = "spend" /\ q.session = request[w].session
  BY <1>1 DEF RequestType
<1>7. request'[w] = q /\ Moves(w)
  BY <1>1 DEF read, VerifyBackup, Moves, IInv, TypeOK, RequestType
<1> HIDE DEF q
<1>8. SoundRequest(w)'
  BY <1>1, <1>3, <1>6, <1>7 DEF SoundRequest, At, Idle, InRoute
<1>. QED  BY <1>1, <1>3, <1>5, <1>6, <1>7, <1>8, ReadingKeeps

\* A secret that is stored is not one that is being confirmed.
LEMMA StoreSecretStep ==
    ASSUME IInv, NEW w \in Workers, NEW x \in Secrets, StoreSecret(w, x)
    PROVE  IInv'
<1>1. ~Idle(w) /\ Finish(w) /\ UNCHANGED <<now, session, cache>> /\ Fresh(x)
  BY DEF StoreSecret, At, Idle
<1>2. /\ Moves(w) /\ request'[w].pc = "idle" /\ request'[w] \in RequestType
      /\ SoundRequest(w)'
  BY <1>1, Finished, EndedSound, IdleType DEF IInv
<1>3. CASE user.enabled
  <2>1. user' = user
    BY <1>3 DEF StoreSecret
  <2>2. SecretsGoOn /\ FactorConfirmed' /\ user' \in UserType
    BY <2>1 DEF SecretsGoOn, IInv, FactorConfirmed, TypeOK
  <2>. QED  BY <1>1, <1>2, <2>1, <2>2, RowKeeps
<1>4. CASE ~user.enabled
  <2> DEFINE u == [user EXCEPT !.secret = x, !.confirmed = FALSE]
  <2>1. user' = u
    BY <1>4 DEF StoreSecret
  <2>2. user \in UserType
    BY DEF IInv, TypeOK
  <2>3. u \in UserType /\ u.secret = x /\ u.enabled = user.enabled
    BY <2>2 DEF UserType
  <2>4. SecretsGoOn
    BY <1>1, <2>1, <2>3 DEF SecretsGoOn, Fresh
  <2>5. ~user'.enabled
    BY <1>4, <2>1, <2>3
  <2>. QED  BY <1>1, <1>2, <2>1, <2>3, <2>4, <2>5, RowKeeps DEF FactorConfirmed
<1>. QED  BY <1>3, <1>4

LEMMA SaveKeyStep ==
    ASSUME IInv, NEW w \in Workers, NEW k \in Keys, SaveKey(w, k)
    PROVE  IInv'
<1> DEFINE u == [user EXCEPT !.passkeys = @ \cup {k}]
<1>1. ~Idle(w) /\ Finish(w) /\ UNCHANGED <<now, session, cache>> /\ user' = u
  BY DEF SaveKey, At, Idle
<1>2. /\ Moves(w) /\ request'[w].pc = "idle" /\ request'[w] \in RequestType
      /\ SoundRequest(w)'
  BY <1>1, Finished, EndedSound, IdleType DEF IInv
<1>3. user \in UserType
  BY DEF IInv, TypeOK
<1>4. /\ u \in UserType /\ u.secret = user.secret /\ u.enabled = user.enabled
      /\ u.validFrom = user.validFrom /\ u.confirmed = user.confirmed
  BY <1>3 DEF UserType
<1> HIDE DEF u
<1>5. SecretsGoOn /\ FactorConfirmed'
  BY <1>1, <1>4 DEF SecretsGoOn, IInv, FactorConfirmed
<1>. QED  BY <1>1, <1>2, <1>4, <1>5, RowKeeps

LEMMA DropKeyStep ==
    ASSUME IInv, NEW w \in Workers, NEW k \in Keys, DropKey(w, k)
    PROVE  IInv'
<1> DEFINE u == [user EXCEPT !.passkeys = @ \ {k}]
<1>1. ~Idle(w) /\ Finish(w) /\ UNCHANGED <<now, session, cache>> /\ user' = u
  BY DEF DropKey, At, Idle
<1>2. /\ Moves(w) /\ request'[w].pc = "idle" /\ request'[w] \in RequestType
      /\ SoundRequest(w)'
  BY <1>1, Finished, EndedSound, IdleType DEF IInv
<1>3. user \in UserType
  BY DEF IInv, TypeOK
<1>4. /\ u \in UserType /\ u.secret = user.secret /\ u.enabled = user.enabled
      /\ u.validFrom = user.validFrom /\ u.confirmed = user.confirmed
  BY <1>3 DEF UserType
<1> HIDE DEF u
<1>5. SecretsGoOn /\ FactorConfirmed'
  BY <1>1, <1>4 DEF SecretsGoOn, IInv, FactorConfirmed
<1>. QED  BY <1>1, <1>2, <1>4, <1>5, RowKeeps

\* The factor as a code was checked against it.
LEMMA FactorRead ==
    ASSUME TypeOK, NEW w \in Workers, NEW pc \in Pcs, ReadFactor(w, pc)
    PROVE  /\ Moves(w) /\ request'[w] \in RequestType /\ request'[w].pc = pc
           /\ request'[w].session = request[w].session
           /\ request'[w].read.secret = user.secret /\ request'[w].read.enabled = user.enabled
<1> DEFINE read == [request[w].read EXCEPT !.secret = user.secret, !.enabled = user.enabled]
           q == [request[w] EXCEPT !.pc = pc, !.read = read]
<1>1. request[w] \in RequestType /\ request[w].read \in ReadType
  BY DEF TypeOK, RequestType
<1>2. read \in ReadType /\ read.secret = user.secret /\ read.enabled = user.enabled
  BY <1>1, UserFields DEF ReadType
<1>3. request'[w] = q /\ Moves(w)
  BY <1>1 DEF ReadFactor, Moves, TypeOK, RequestType
<1> HIDE DEF read
<1>4. q \in RequestType
  BY <1>1, <1>2, Zenon DEF RequestType
<1>5. q.pc = pc /\ q.session = request[w].session /\ q.read = read
  BY <1>1 DEF RequestType
<1>. QED  BY <1>2, <1>3, <1>4, <1>5

LEMMA EnableStep ==
    ASSUME IInv, NEW w \in Workers, Enable(w)
    PROVE  IInv'
<1>1. InRoute(w) /\ ~Idle(w) /\ SoundRequest(w) /\ UNCHANGED <<now, session, cache>>
  BY InFlight DEF Enable, At, InRoute
<1>2. CASE user.secret = None \/ user.enabled
  <2>1. Finish(w) /\ user' = user
    BY <1>2 DEF Enable
  <2>. QED  BY <1>1, <2>1, FinishKeeps DEF IInv, TypeOK
<1>3. CASE ~(user.secret = None \/ user.enabled)
  <2> DEFINE u == [user EXCEPT !.confirmed = TRUE]
  <2>1. ReadFactor(w, "turnOn") /\ user' = u
    BY <1>3 DEF Enable
  <2>2. user \in UserType /\ "turnOn" \in Pcs
    BY DEF IInv, TypeOK, Pcs
  <2>3. /\ u \in UserType /\ u.secret = user.secret /\ u.enabled = user.enabled
        /\ u.validFrom = user.validFrom /\ u.confirmed
    BY <2>2 DEF UserType
  <2> HIDE DEF u
  <2>4. /\ Moves(w) /\ request'[w] \in RequestType /\ request'[w].pc = "turnOn"
        /\ request'[w].session = request[w].session
        /\ request'[w].read.secret = user.secret /\ request'[w].read.enabled = user.enabled
    BY <2>1, <2>2, FactorRead DEF IInv
  <2>5. SecretsGoOn /\ FactorConfirmed'
    BY <2>1, <2>3 DEF SecretsGoOn, IInv, FactorConfirmed
  <2>6. SoundRequest(w)'
    <3>1. /\ request'[w].session \in Sessions
          /\ session'[request'[w].session].state \in {"live", "over"}
      BY <1>1, <2>4, InFlight
    <3>2. request'[w].read.secret # None /\ ~request'[w].read.enabled /\ user'.confirmed
      BY <1>3, <2>1, <2>3, <2>4
    <3>. QED  BY <2>4, <3>1, <3>2 DEF SoundRequest, At, Idle, InRoute
  <2>. QED  BY <1>1, <2>1, <2>3, <2>4, <2>5, <2>6, RowKeeps
<1>. QED  BY <1>2, <1>3

\* A removal that finds the factor on goes on with a code that is right for it.
LEMMA DisableStep ==
    ASSUME IInv, NEW w \in Workers, NEW c, Disable(w, c)
    PROVE  IInv'
<1> DEFINE read == [request[w].read EXCEPT !.secret = user.secret, !.enabled = user.enabled]
           q == [request[w] EXCEPT !.pc = "turnOff", !.code = c, !.read = read]
<1>1. /\ InRoute(w) /\ ~Idle(w) /\ SoundRequest(w) /\ request[w] \in RequestType
      /\ UNCHANGED <<user, now, session, cache>>
  BY InFlight DEF Disable, At, InRoute
<1>2. "turnOff" \in Pcs /\ user \in UserType
  BY DEF Pcs, IInv, TypeOK
<1>3. request'[w] = q /\ Moves(w)
  BY <1>1 DEF Disable, Moves, IInv, TypeOK, RequestType
<1>4. /\ user.enabled => c \in {user.secret} \cup Codes
      /\ c \in Codes \cup Secrets \cup {None}
  BY <1>2 DEF Disable, RightCodes, IInv, FactorConfirmed, UserType
<1>5. read \in ReadType /\ read.secret = user.secret /\ read.enabled = user.enabled
  BY <1>1, <1>2 DEF RequestType, ReadType, UserType
<1> HIDE DEF read
<1>6. /\ q \in RequestType /\ q.pc = "turnOff" /\ q.session = request[w].session
      /\ q.code = c /\ q.read = read
  BY <1>1, <1>2, <1>4, <1>5 DEF RequestType
<1> HIDE DEF q
<1>7. SoundRequest(w)'
  BY <1>1, <1>3, <1>4, <1>5, <1>6 DEF Disable, SoundRequest, At, Idle, InRoute
<1>. QED  BY <1>1, <1>3, <1>6, <1>7, ReadingKeeps DEF IInv, TypeOK

\* Turned on as it was checked: every session so far was signed in no later than the
\* stamp, and the session that turned it on has answered.
LEMMA TurnOnStep ==
    ASSUME IInv, NEW w \in Workers, TurnOn(w)
    PROVE  IInv'
<1> DEFINE s == request[w].session
           old == request[w]
<1>1. /\ InRoute(w) /\ ~Idle(w) /\ old \in RequestType /\ SoundRequest(w)
      /\ s \in Sessions /\ session[s] \in SessionType
      /\ session[s].state \in {"live", "over"} /\ SessionSound(s)
      /\ old.pc = "turnOn" /\ UNCHANGED <<now, cache>>
  BY InFlight DEF TurnOn, At, InRoute
<1>2. CASE ~Unchanged(w)
  <2>1. Finish(w) /\ UNCHANGED <<user, session>>
    BY <1>2 DEF TurnOn
  <2>. QED  BY <1>1, <2>1, FinishKeeps DEF IInv, TypeOK
<1>3. CASE Unchanged(w)
  <2>1. PICK answered \in BOOLEAN : answered = (session[s].accepted \/ LiveSession(w))
    OBVIOUS
  <2> DEFINE u == [user EXCEPT !.enabled = TRUE, !.validFrom = now, !.codes = CodesOf(user.secret)]
             t == [session[s] EXCEPT !.accepted = answered]
             read == [NothingRead EXCEPT !.validFrom = now]
             q == [old EXCEPT !.pc = "stamped", !.read = read]
  <2>2. user' = u /\ session' = [session EXCEPT ![s] = t]
    BY <1>3, <2>1 DEF TurnOn, SessionOf, IInv, TypeOK
  <2>3. request'[w] = q /\ Moves(w)
    BY <1>1, <1>3 DEF TurnOn, Moves, IInv, TypeOK, RequestType
  <2>4. user.secret # None /\ ~user.enabled /\ user.confirmed
    BY <1>1, <1>3 DEF Unchanged, SoundRequest, At
  <2>5. now \in 0..MaxTime /\ now \in Nat /\ user \in UserType
    BY SecondFactorAssumption DEF IInv, TypeOK
  <2>6. CodesOf(user.secret) \in SUBSET Codes
    BY <2>4, UserFields DEF IInv, CodesOf, Codes
  <2>7. /\ u \in UserType /\ u.secret = user.secret /\ u.validFrom = now
        /\ u.confirmed = user.confirmed
    BY <2>5, <2>6 DEF UserType
  <2>8. /\ t \in SessionType /\ t.state = session[s].state /\ t.signedAt = session[s].signedAt
        /\ t.pending = session[s].pending /\ t.mfaProof = session[s].mfaProof
        /\ t.keepFor = session[s].keepFor /\ t.accepted = answered
    BY <1>1, <2>1 DEF SessionType
  <2>9. read \in ReadType /\ "stamped" \in Pcs
    <3>1. NothingRead \in ReadType
      BY SecondFactorAssumption DEF NothingRead, ReadType
    <3>. QED  BY <2>5, <3>1 DEF ReadType, Pcs
  <2> HIDE DEF u, t, read
  <2>10. q \in RequestType
    BY <1>1, <2>9, Zenon DEF RequestType
  <2>11. q.pc = "stamped" /\ q.session = s /\ q.signedAt = old.signedAt
    BY <1>1 DEF RequestType
  <2> HIDE DEF q
  <2>12. \A r \in Sessions : session'[r] = IF r = s THEN t ELSE session[r]
    BY <2>2 DEF IInv, TypeOK
  <2>13. \A r \in Sessions : GoesOn(r)
    <3>1. session[s].accepted => t.accepted
      BY <2>1, <2>8
    <3>2. t.pending => session[s].pending
      BY <2>8
    <3>3. session'[s] = t /\ t.state = session[s].state
      BY <1>1, <2>8, <2>12
    <3>4. GoesOn(s)
      BY <1>1, <3>1, <3>2, <3>3 DEF GoesOn
    <3>5. \A r \in Sessions \ {s} : GoesOn(r)
      BY <2>12 DEF GoesOn
    <3>. QED  BY <3>4, <3>5
  <2>14. SessionsSound'
    <3>1. t.signedAt <= now /\ (t.mfaProof \/ t.keepFor # 0 => t.accepted)
      BY <1>1, <2>1, <2>8 DEF SessionSound
    <3>. QED  BY <1>1, <2>12, <3>1 DEF IInv, SessionsSound, SessionSound
  <2>15. OwnProof'
    <3>1. \A r \in Sessions : session'[r].signedAt <= now /\ user'.validFrom = now
      BY <1>1, <2>2, <2>7, <2>14 DEF SessionsSound, SessionSound
    <3>. QED  BY <3>1 DEF OwnProof
  <2>16. FactorConfirmed' /\ SecretsGoOn
    BY <2>2, <2>4, <2>7 DEF FactorConfirmed, SecretsGoOn
  <2>17. SoundRequest(w)'
    <3>1. session'[s].state = "live" => session'[s].accepted
      BY <2>1, <2>8, <2>12, <1>1 DEF LiveSession, SessionOf
    <3>2. session'[s].state \in {"live", "over"}
      BY <1>1, <2>8, <2>12
    <3>. QED  BY <1>1, <2>3, <2>11, <3>1, <3>2 DEF SoundRequest, At, Idle, InRoute
  <2>18. TypeOK'
    BY <1>1, <2>2, <2>3, <2>7, <2>8, <2>10 DEF Moves, IInv, TypeOK
  <2>19. \A r \in Sessions \ {s} : session'[r] = session[r]
    BY <2>12
  <2>. QED
    BY <1>1, <2>3, <2>11, <2>13, <2>14, <2>15, <2>16, <2>17, <2>18, <2>19, OwnSessionOnly, StepKeeps
<1>. QED  BY <1>2, <1>3

LEMMA RememberStampStep ==
    ASSUME IInv, NEW w \in Workers, RememberStamp(w)
    PROVE  IInv'
<1> DEFINE q == [request[w] EXCEPT !.pc = "clearKeys", !.read = NothingRead]
<1>1. InRoute(w) /\ ~Idle(w) /\ request[w] \in RequestType /\ SoundRequest(w)
  BY InFlight DEF RememberStamp, At, InRoute
<1>2. NothingRead \in ReadType /\ "clearKeys" \in Pcs
  BY SecondFactorAssumption DEF NothingRead, ReadType, Pcs
<1>3. q \in RequestType
  BY <1>1, <1>2, Zenon DEF RequestType
<1>4. q.pc = "clearKeys" /\ q.session = request[w].session /\ q.signedAt = request[w].signedAt
  BY <1>1 DEF RequestType
<1>5. request'[w] = q /\ Moves(w)
  BY <1>1 DEF RememberStamp, Moves, IInv, TypeOK, RequestType
<1> HIDE DEF q
<1>6. cache' \in {None} \cup 0..MaxTime /\ UNCHANGED <<user, now, session>>
  BY <1>1 DEF RememberStamp, RequestType, ReadType
<1>7. SoundRequest(w)'
  BY <1>1, <1>4, <1>5, <1>6 DEF RememberStamp, SoundRequest, At, Idle, InRoute
<1>. QED  BY <1>1, <1>3, <1>4, <1>5, <1>6, <1>7, ReadingKeeps

\* A keep proof is made for a session that has answered.
LEMMA ClearPasskeysStep ==
    ASSUME IInv, NEW w \in Workers, ClearPasskeys(w)
    PROVE  IInv'
<1> DEFINE s == request[w].session
           keep == IF LiveSession(w) /\ request[w].signedAt # 0
                   THEN request[w].signedAt ELSE session[s].keepFor
           t == [session[s] EXCEPT !.keepFor = keep]
           u == [user EXCEPT !.passkeys = {}]
<1>1. /\ InRoute(w) /\ ~Idle(w) /\ request[w] \in RequestType /\ SoundRequest(w)
      /\ s \in Sessions /\ session[s] \in SessionType
      /\ session[s].state \in {"live", "over"} /\ SessionSound(s)
  BY InFlight DEF ClearPasskeys, At, InRoute
<1>2. /\ user' = u /\ session' = [session EXCEPT ![s] = t] /\ Finish(w)
      /\ UNCHANGED <<now, cache>>
  BY DEF ClearPasskeys, SessionOf, IInv, TypeOK
<1>3. keep \in 0..MaxTime /\ (keep # 0 => session[s].accepted)
  BY <1>1 DEF RequestType, SessionType, SessionSound, SoundRequest, ClearPasskeys, At,
              LiveSession, SessionOf
<1> HIDE DEF keep
<1>4. user \in UserType
  BY DEF IInv, TypeOK
<1>5. /\ u \in UserType /\ u.secret = user.secret /\ u.enabled = user.enabled
      /\ u.validFrom = user.validFrom /\ u.confirmed = user.confirmed
  BY <1>4 DEF UserType
<1>6. /\ t \in SessionType /\ t.state = session[s].state /\ t.signedAt = session[s].signedAt
      /\ t.pending = session[s].pending /\ t.mfaProof = session[s].mfaProof
      /\ t.keepFor = keep /\ t.accepted = session[s].accepted
  BY <1>1, <1>3 DEF SessionType
<1> HIDE DEF t, u
<1>7. t.signedAt <= now /\ (t.mfaProof \/ t.keepFor # 0 => t.accepted)
  BY <1>1, <1>3, <1>6 DEF SessionSound
<1>8. t.state = "live" /\ ~t.pending /\ user.enabled => t.accepted \/ t.signedAt <= user.validFrom
  BY <1>1, <1>6 DEF IInv, OwnProof
<1>9. /\ t.state = "live" => session[s].state = "live" /\ (session[s].accepted => t.accepted)
      /\ t.pending => session[s].pending
      /\ t.state \in {"live", "over"}
  BY <1>1, <1>6
<1>. QED  BY <1>1, <1>2, <1>5, <1>6, <1>7, <1>8, <1>9, OwnSessionKeeps

\* Turned off as it was checked: whatever was being confirmed is no longer held.
LEMMA TurnOffStep ==
    ASSUME IInv, NEW w \in Workers, TurnOff(w)
    PROVE  IInv'
<1>1. /\ InRoute(w) /\ ~Idle(w) /\ request[w] \in RequestType /\ SoundRequest(w)
      /\ UNCHANGED <<now, session, cache>>
  BY InFlight DEF TurnOff, At, InRoute
<1>2. CASE ~Unchanged(w)
  <2>1. Finish(w) /\ user' = user
    BY <1>2 DEF TurnOff
  <2>. QED  BY <1>1, <2>1, FinishKeeps DEF IInv, TypeOK
<1>3. CASE Unchanged(w)
  <2> DEFINE u == [user EXCEPT !.enabled = FALSE, !.secret = None, !.codes = {},
                               !.confirmed = FALSE]
             q == [request[w] EXCEPT !.pc = "clearKeys", !.read = NothingRead,
                                   !.code = None, !.signedAt = 0]
  <2>1. user' = u
    BY <1>3 DEF TurnOff
  <2>2. request'[w] = q /\ Moves(w)
    BY <1>1, <1>3 DEF TurnOff, Moves, IInv, TypeOK, RequestType
  <2>3. user \in UserType /\ NothingRead \in ReadType /\ "clearKeys" \in Pcs /\ 0 \in 0..MaxTime
    BY SecondFactorAssumption DEF IInv, TypeOK, NothingRead, ReadType, Pcs
  <2>4. u \in UserType /\ u.secret = None /\ u.enabled = FALSE
    BY <2>3 DEF UserType
  <2>5. q \in RequestType
    BY <1>1, <2>3, Zenon DEF RequestType
  <2>6. q.pc = "clearKeys" /\ q.session = request[w].session /\ q.signedAt = 0
    BY <1>1 DEF RequestType
  <2> HIDE DEF u, q
  <2>7. SecretsGoOn /\ FactorConfirmed'
    BY <2>1, <2>4 DEF SecretsGoOn, FactorConfirmed, IInv, RequestsSound, SoundRequest
  <2>8. SoundRequest(w)'
    <3>1. /\ request'[w].session \in Sessions
          /\ session'[request'[w].session].state \in {"live", "over"}
      BY <1>1, <2>2, <2>6, InFlight
    <3>. QED  BY <2>2, <2>6, <3>1 DEF SoundRequest, At, Idle, InRoute
  <2>. QED  BY <1>1, <2>1, <2>2, <2>4, <2>5, <2>6, <2>7, <2>8, RowKeeps
<1>. QED  BY <1>2, <1>3

\* A proof is given to the session that answered.
LEMMA ProofKeeps ==
    ASSUME IInv, NEW w \in Workers, InRoute(w), GiveProof(w), Finish(w), UNCHANGED <<now, cache>>,
           user' \in UserType, user'.enabled = user.enabled, user'.validFrom = user.validFrom,
           user'.secret = user.secret, user'.confirmed = user.confirmed
    PROVE  IInv'
<1> DEFINE s == request[w].session
<1>1. /\ ~Idle(w) /\ s \in Sessions /\ session[s] \in SessionType
      /\ session[s].state \in {"live", "over"} /\ SessionSound(s)
  BY InFlight
<1>2. PICK proof \in BOOLEAN : proof = (session[s].mfaProof \/ LiveSession(w))
  OBVIOUS
<1>3. PICK answered \in BOOLEAN : answered = (session[s].accepted \/ LiveSession(w))
  OBVIOUS
<1> DEFINE t == [session[s] EXCEPT !.mfaProof = proof, !.accepted = answered]
<1>4. session' = [session EXCEPT ![s] = t]
  BY <1>2, <1>3 DEF GiveProof, SessionOf, IInv, TypeOK
<1>5. /\ t \in SessionType /\ t.state = session[s].state /\ t.signedAt = session[s].signedAt
      /\ t.pending = session[s].pending /\ t.mfaProof = proof
      /\ t.keepFor = session[s].keepFor /\ t.accepted = answered
  BY <1>1, <1>2, <1>3 DEF SessionType
<1> HIDE DEF t
<1>6. t.signedAt <= now /\ (t.mfaProof \/ t.keepFor # 0 => t.accepted)
  BY <1>1, <1>2, <1>3, <1>5 DEF SessionSound
<1>7. t.state = "live" => t.accepted
  BY <1>3, <1>5 DEF LiveSession, SessionOf
<1>8. /\ t.state = "live" => session[s].state = "live" /\ (session[s].accepted => t.accepted)
      /\ t.pending => session[s].pending
      /\ t.state \in {"live", "over"}
  BY <1>1, <1>3, <1>5
<1>. QED  BY <1>1, <1>4, <1>5, <1>6, <1>7, <1>8, OwnSessionKeeps

LEMMA VerifyTotpStep ==
    ASSUME IInv, NEW w \in Workers, VerifyTotp(w)
    PROVE  IInv'
<1>1. InRoute(w) /\ ~Idle(w) /\ Finish(w) /\ UNCHANGED <<user, now, cache>>
  BY DEF VerifyTotp, At, InRoute, Idle
<1>2. CASE GiveProof(w)
  BY <1>1, <1>2, ProofKeeps DEF IInv, TypeOK
<1>3. CASE UNCHANGED session
  BY <1>1, <1>3, FinishKeeps DEF IInv, TypeOK
<1>. QED  BY <1>2, <1>3 DEF VerifyTotp

LEMMA UseKeyStep ==
    ASSUME IInv, NEW w \in Workers, UseKey(w)
    PROVE  IInv'
<1>1. InRoute(w) /\ ~Idle(w) /\ Finish(w) /\ UNCHANGED <<user, now, cache>>
  BY DEF UseKey, At, InRoute, Idle
<1>2. CASE GiveProof(w)
  BY <1>1, <1>2, ProofKeeps DEF IInv, TypeOK
<1>3. CASE UNCHANGED session
  BY <1>1, <1>3, FinishKeeps DEF IInv, TypeOK
<1>. QED  BY <1>2, <1>3 DEF UseKey

LEMMA SpendCodeStep ==
    ASSUME IInv, NEW w \in Workers, SpendCode(w)
    PROVE  IInv'
<1> DEFINE left == request[w].read.codes
           u == [user EXCEPT !.codes = left]
<1>1. InRoute(w) /\ GiveProof(w) /\ Finish(w) /\ UNCHANGED <<now, cache>> /\ user' = u
  BY DEF SpendCode, At, InRoute
<1>2. user \in UserType /\ left \in SUBSET Codes
  BY DEF IInv, TypeOK, RequestType, ReadType
<1> HIDE DEF left
<1>3. /\ u \in UserType /\ u.secret = user.secret /\ u.enabled = user.enabled
      /\ u.validFrom = user.validFrom /\ u.confirmed = user.confirmed
  BY <1>2 DEF UserType
<1> HIDE DEF u
<1>. QED  BY <1>1, <1>3, ProofKeeps

-----------------------------------------------------------------------------
(* The invariant, and what it gives                                         *)

LEMMA InitSound == Init => IInv
<1> SUFFICES ASSUME Init PROVE IInv
  OBVIOUS
<1>1. 0 \in 0..MaxTime /\ 1 \in 0..MaxTime /\ now \in 1..MaxTime
  BY SecondFactorAssumption DEF Init
<1>2. NoUser \in UserType /\ ~NoUser.enabled
  BY <1>1 DEF NoUser, UserType
<1>11. ASSUME NEW x \in Secrets
       PROVE  [NoUser EXCEPT !.secret = x] \in UserType
  BY <1>1 DEF NoUser, UserType
<1>3. ASSUME NEW x \in Secrets, NEW keys \in SUBSET Keys
      PROVE  /\ FactorOn(x, keys) \in UserType /\ FactorOn(x, keys).secret = x
             /\ FactorOn(x, keys).confirmed /\ x # None
  <2>1. CodesOf(x) \in SUBSET Codes
    BY DEF CodesOf, Codes
  <2>. QED  BY <1>1, <2>1, SecondFactorAssumption DEF FactorOn, UserType
<1>4. NoSession \in SessionType /\ NoSession.state = "none" /\ NoSession.signedAt = 0
  BY <1>1 DEF NoSession, SessionType
<1>5. TypeOK
  BY <1>1, <1>2, <1>3, <1>4, <1>11, IdleType DEF Init, TypeOK
<1>6. OwnProof
  BY <1>4 DEF Init, OwnProof
<1>7. FactorConfirmed
  <2>1. CASE ~user.enabled
    BY <2>1 DEF FactorConfirmed
  <2>2. CASE \E x \in Secrets, keys \in SUBSET Keys : user = FactorOn(x, keys)
    BY <1>3, <2>2 DEF FactorConfirmed
  <2>3. CASE user = NoUser
    BY <1>2, <2>1, <2>3
  <2>4. CASE \E x \in Secrets : user = [NoUser EXCEPT !.secret = x]
    <3>1. PICK x \in Secrets : user = [NoUser EXCEPT !.secret = x]
      BY <2>4
    <3>2. user.enabled = NoUser.enabled
      BY <3>1 DEF NoUser
    <3>. QED  BY <1>2, <2>1, <3>2
  <2>. QED  BY <2>2, <2>3, <2>4 DEF Init
<1>8. RequestsSound
  BY IdleType DEF Init, RequestsSound, SoundRequest, At, Idle, InRoute
<1>9. SessionsSound
  BY SecondFactorAssumption DEF Init, SessionsSound, SessionSound, NoSession
<1>. QED  BY <1>5, <1>6, <1>7, <1>8, <1>9 DEF IInv

LEMMA NextKeeps == IInv /\ [Next]_vars => IInv'
<1> SUFFICES ASSUME IInv, [Next]_vars PROVE IInv'
  OBVIOUS
<1>1. ASSUME NEW w \in Workers, SessionStep(w) PROVE IInv'
  BY <1>1, SignInStep, BeginStep, MintStep, BeginCachedStep, ReadEpochStep, RememberEpochStep,
     EpochUnreadableStep DEF SessionStep
<1>2. ASSUME NEW w \in Workers, RouteStep(w) PROVE IInv'
  BY <1>2, SetupStep, StoreSecretStep, EnableStep, TurnOnStep, RememberStampStep,
     ClearPasskeysStep, DisableStep, TurnOffStep, VerifyTotpStep, VerifyBackupStep,
     SpendCodeStep, RegisterStep, SaveKeyStep, RemoveKeyStep, DropKeyStep,
     FindKeyStep, CheckFactorStep,
     UseKeyStep DEF RouteStep
<1>3. CASE UNCHANGED vars
  BY <1>3, AllSound, QuietGoesOn
     DEF vars, IInv, TypeOK, OwnProof, FactorConfirmed, SessionsSound, SessionSound
<1>. QED  BY <1>1, <1>2, <1>3, LoseStep, KeepStep, CacheExpiresStep, TickStep DEF Next

\* What every reachable state satisfies: the types, both safety invariants, and what
\* each request and each session still holds.
THEOREM SecondFactorInvariant == Spec => []IInv
BY InitSound, NextKeeps, PTL DEF Spec

\* The type of every variable.
THEOREM TypeCorrect == Spec => []TypeOK
<1>1. IInv => TypeOK
  BY DEF IInv
<1>. QED  BY <1>1, SecondFactorInvariant, PTL

\* A session is released by its own second factor only (auth.ts, mfa-proof.ts).
THEOREM ReleasedByItsOwn == Spec => []OwnProof
<1>1. IInv => OwnProof
  BY DEF IInv
<1>. QED  BY <1>1, SecondFactorInvariant, PTL

\* The secret of a factor that is on is one an app has shown a code for
\* (totp/enable, under setups, removals and other enablements at once).
THEOREM NobodyLockedOut == Spec => []FactorConfirmed
<1>1. IInv => FactorConfirmed
  BY DEF IInv
<1>. QED  BY <1>1, SecondFactorInvariant, PTL

\* The factor goes off for a session that is not waiting for a code, by one that was
\* right while this very secret was on (totp/disable, second-factor-code.ts).
THEOREM GoesOffByItsOwnCode == Spec => OffByItsOwnCode
<1> DEFINE OwnCode(w) == /\ At(w, "turnOff") /\ ~session[SessionOf(w)].pending
                         /\ request[w].read.secret = user.secret
                         /\ request[w].code \in {user.secret} \cup Codes
           Fine == user.enabled /\ ~user'.enabled => \E w \in Workers : OwnCode(w)
<1>1. ASSUME IInv, [Next]_vars PROVE [Fine]_vars
  <2> SUFFICES ASSUME Next, user.enabled, ~user'.enabled PROVE \E w \in Workers : OwnCode(w)
    BY <1>1
  <2>1. user \in UserType
    BY <1>1 DEF IInv, TypeOK
  <2>2. ASSUME NEW w \in Workers, TurnOff(w) PROVE OwnCode(w)
    <3>1. Unchanged(w)
      BY <2>2 DEF TurnOff
    <3>2. SoundRequest(w)
      BY <1>1 DEF IInv, RequestsSound
    <3>. QED  BY <2>2, <3>1, <3>2 DEF TurnOff, Unchanged, SoundRequest, At, SessionOf
  <2>3. \A w \in Workers : ~SessionStep(w) /\ ~Lose(w)
    <3>1. \A w, s : SignIn(w, s) \/ Begin(w, s) => user' = user
      BY DEF SignIn, Begin
    <3>2. \A w : Mint(w) \/ ReadEpoch(w) \/ Lose(w) => user' = user
      BY DEF Mint, ReadEpoch, Lose
    <3>3. \A w, s, op : BeginCached(w, s, op) => user' = user
      BY DEF BeginCached
    <3>4. \A w, op : RememberEpoch(w, op) \/ EpochUnreadable(w, op) => user' = user
      BY DEF RememberEpoch, EpochUnreadable
    <3>5. user' # user
      OBVIOUS
    <3>. QED  BY <3>1, <3>2, <3>3, <3>4, <3>5 DEF SessionStep
  <2>4. ~ \E s \in Sessions : Keep(s)
    BY DEF Keep
  <2>5. ~CacheExpires /\ ~Tick
    BY DEF CacheExpires, Tick
  <2>6. PICK w \in Workers : RouteStep(w)
    BY <2>3, <2>4, <2>5 DEF Next
  <2>7. TurnOff(w)
    <3>1. ~Setup(w) /\ (\A c : ~Disable(w, c)) /\ ~VerifyTotp(w) /\ ~Register(w) /\ ~RemoveKey(w)
      BY DEF Setup, Disable, VerifyTotp, Register, RemoveKey
    <3>2. ~RememberStamp(w) /\ ~CheckFactor(w) /\ ~UseKey(w)
      BY DEF RememberStamp, CheckFactor, UseKey
    <3>3. ~ \E x \in Secrets : StoreSecret(w, x)
      BY <2>1 DEF StoreSecret, UserType
    <3>4. ~Enable(w)
      BY <2>1 DEF Enable, UserType
    <3>5. ~TurnOn(w)
      BY <2>1 DEF TurnOn, UserType
    <3>6. ~ClearPasskeys(w)
      BY <2>1 DEF ClearPasskeys, UserType
    <3>7. ~SpendCode(w)
      BY <2>1 DEF SpendCode, UserType
    <3>8. ~ \E c \in user.codes : VerifyBackup(w, c)
      <4>1. \A c : VerifyBackup(w, c) => user' = user
        BY DEF VerifyBackup
      <4>. QED  BY <4>1
    <3>9. ~ \E k \in Keys : SaveKey(w, k) \/ DropKey(w, k) \/ FindKey(w, k)
      BY <2>1 DEF SaveKey, DropKey, FindKey, UserType
    <3>. QED
      BY <2>6, <3>1, <3>2, <3>3, <3>4, <3>5, <3>6, <3>7, <3>8, <3>9 DEF RouteStep
  <2>. QED  BY <2>2, <2>7
<1>. QED  BY <1>1, SecondFactorInvariant, PTL DEF Spec, OffByItsOwnCode
=============================================================================
