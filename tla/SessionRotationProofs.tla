------------------------ MODULE SessionRotationProofs ------------------------
(***************************************************************************)
(* The safety of refresh-token rotation, for any number of sessions,       *)
(* requests, users and API clocks.                                         *)
(***************************************************************************)
EXTENDS SessionRotation, TLAPS

\* Every token presented was issued, and a successor's jti names its minter.
TokensOwned ==
  /\ \A r \in Request : pc[r] # "idle" => token[r] \in issued
  /\ \A t \in issued : /\ t.jti \in Session => t.jti = t.sid
                       /\ t.jti \in Request => pc[t.jti] = "ok"

\* Every token of a session states the user of its row, and its expiry in whole
\* seconds.
ClaimsMatchRow ==
  \A t \in issued : sessions[t.sid] # None =>
    /\ sessions[t.sid].user = t.sub
    /\ t.exp = WholeSecond(sessions[t.sid].expiresAt)

\* The row accepts an issued token of its own that is not spent, and every
\* other token of the session is spent.
OneCurrentToken ==
  /\ \A s \in Session : sessions[s] # None =>
       /\ sessions[s].hash \in issued
       /\ sessions[s].hash.sid = s
       /\ ~Spent(sessions[s].hash)
  /\ \A t \in issued : sessions[t.sid] # None => Spent(t) \/ sessions[t.sid].hash = t

\* What a suspended handler read is still a bound on what the row can be.
ReadsArePast ==
  \A r \in Request : pc[r] \in {"found", "rotate", "reseen", "revoke"} =>
    /\ seen[r] = None => pc[r] \in {"found", "reseen"} /\ sessions[token[r].sid] = None
    /\ seen[r] # None =>
         /\ seen[r].user = token[r].sub
         /\ token[r].exp = WholeSecond(seen[r].expiresAt)
         /\ sessions[token[r].sid] # None => sessions[token[r].sid].expiresAt = seen[r].expiresAt
         /\ seen[r].revoked => sessions[token[r].sid] = None \/ sessions[token[r].sid].revoked
         /\ seen[r].hash # token[r] => Spent(token[r])

\* What each suspension point knows about the token it was given.
HandlerKnows ==
  \A r \in Request :
    /\ pc[r] = "rotate" => /\ seen[r].hash = token[r]
                           /\ seen[r].expiresAt > now[r]
    /\ pc[r] = "reread" => \/ Spent(token[r])
                           \/ sessions[token[r].sid] = None
                           \/ sessions[token[r].sid].revoked
    /\ pc[r] = "reseen" => \/ Spent(token[r])
                           \/ seen[r] = None
                           \/ seen[r].revoked
    /\ pc[r] = "revoke" => /\ now[r] - seen[r].lastUsedAt > Grace
                           /\ tries[r] < 2
    /\ pc[r] \in {"idle", "find", "found", "rotate"} => tries[r] = 0

\* The sessions a logout covers exist or existed; until logout-all has run its
\* update they belong to the user it will revoke.
ScopeKnown ==
  \A r \in Request : \A s \in scope[r] :
    /\ \E t \in issued : t.sid = s
    /\ pc[r] = "revokeAll" => sessions[s] = None \/ sessions[s].user = token[r].sub

\* The inductive invariant.
IInv ==
  /\ TypeOK
  /\ TokensOwned
  /\ ClaimsMatchRow
  /\ OneCurrentToken
  /\ ReadsArePast
  /\ HandlerKnows
  /\ ScopeKnown
  /\ OneSuccessorPerToken
  /\ OnlySpentTokensRejected
  /\ UnauthorizedMeansDead
  /\ ReplayEvidence
  /\ LogoutFinal

-----------------------------------------------------------------------------
(* Facts about the helpers.                                                *)

\* A classification sends the handler to one of three places, and to the
\* revocation only when the grace window has passed.
LEMMA ClassifyCases ==
  ASSUME NEW x \in Int, NEW y \in Int
  PROVE  /\ AfterClassify(Classify(x, y)) \in {"conflict", "unavailable", "revoke"}
         /\ AfterClassify(Classify(x, y)) = "revoke" => y - x > Grace
BY TimeAssumption DEF AfterClassify, Classify

\* The claim of a token is less than a second before the deadline it states.
LEMMA WholeSeconds ==
  ASSUME NEW at \in Int
  PROVE  /\ WholeSecond(at) \in Int
         /\ WholeSecond(at) <= at
         /\ at <= WholeSecond(at) + Second - 1
<1>1. at % Second \in 0..Second - 1
  BY TimeAssumption
<1> QED  BY <1>1, TimeAssumption DEF WholeSecond

\* What is refused for its claim has less than a second left.
LEMMA LastSecond ==
  ASSUME NEW end \in Int, NEW at \in Int, ~(WholeSecond(end) > WholeSecond(at))
  PROVE  end <= at + Second - 1
BY WholeSeconds, TimeAssumption

\* Revoking a set of sessions only sets the flag of the rows that exist.
LEMMA RevokedRows ==
  ASSUME TypeOK, NEW S
  PROVE  /\ Revoked(S) \in [Session -> Row \cup {None}]
         /\ \A s \in Session :
              /\ (Revoked(S)[s] = None) <=> (sessions[s] = None)
              /\ sessions[s] # None =>
                   /\ Revoked(S)[s].user = sessions[s].user
                   /\ Revoked(S)[s].hash = sessions[s].hash
                   /\ Revoked(S)[s].expiresAt = sessions[s].expiresAt
                   /\ Revoked(S)[s].lastUsedAt = sessions[s].lastUsedAt
                   /\ Revoked(S)[s].revoked <=> (s \in S \/ sessions[s].revoked)
<1> DEFINE R == Revoked(S)
<1>1. \A s \in Session : R[s] = IF s \in S /\ sessions[s] # None
                                THEN [sessions[s] EXCEPT !.revoked = TRUE] ELSE sessions[s]
  BY DEF Revoked
<1>2. \A s \in Session : sessions[s] # None => sessions[s] \in Row
  BY DEF TypeOK
<1>3. ASSUME NEW s \in Session, sessions[s] # None
      PROVE  /\ R[s] \in Row
             /\ R[s].user = sessions[s].user
             /\ R[s].hash = sessions[s].hash
             /\ R[s].expiresAt = sessions[s].expiresAt
             /\ R[s].lastUsedAt = sessions[s].lastUsedAt
             /\ R[s].revoked <=> (s \in S \/ sessions[s].revoked)
  <2> HIDE DEF R
  <2>1. CASE s \in S
    BY <1>1, <1>2, <1>3, <2>1 DEF Row
  <2>2. CASE s \notin S
    BY <1>1, <1>2, <1>3, <2>2 DEF Row
  <2> QED  BY <2>1, <2>2
<1>4. ASSUME NEW s \in Session, sessions[s] = None
      PROVE  R[s] = None
  BY <1>1, <1>4
<1>5. R \in [Session -> Row \cup {None}]
  BY <1>3, <1>4 DEF Revoked
<1> QED
  BY <1>3, <1>4, <1>5, NoneAssumption

-----------------------------------------------------------------------------
(* Types.                                                                  *)

\* Every step keeps every variable in its type.
LEMMA TypePreserved ==
  ASSUME TypeOK, TokensOwned, ReadsArePast, HandlerKnows, [Next]_vars
  PROVE  TypeOK'
<1> USE DEF TypeOK
<1>1. ASSUME NEW s \in Session, NEW u \in User, NEW k \in Skews, CreateSession(s, u, k)
      PROVE  TypeOK'
  <2> DEFINE end == clock + k + Lifetime
  <2>1. end \in Int /\ WholeSecond(end) \in Int
    BY TimeAssumption, WholeSeconds
  <2> HIDE DEF end
  <2> QED  BY <1>1, <2>1, TimeAssumption DEF CreateSession, Token, Row, end
<1>2. ASSUME NEW r \in Request, NEW t \in issued, NEW k \in Skews, StartRefresh(r, t, k)
      PROVE  TypeOK'
  BY <1>2, TimeAssumption DEF StartRefresh, Pending, Answers
<1>3. ASSUME NEW r \in Request, NEW t \in issued, Logout(r, t)
      PROVE  TypeOK'
  BY <1>3, RevokedRows DEF Logout, Answers, Token
<1>4. ASSUME NEW r \in Request, NEW t \in issued, NEW k \in Skews, StartLogoutAll(r, t, k)
      PROVE  TypeOK'
  BY <1>4, TimeAssumption DEF StartLogoutAll, SessionsOf, Pending, Answers
<1>5. ASSUME NEW r \in Request, FindSession(r)
      PROVE  TypeOK'
  BY <1>5 DEF FindSession, TokensOwned, Pending, Token
<1>6. ASSUME NEW r \in Request, JudgeSession(r)
      PROVE  TypeOK'
  BY <1>6, ClassifyCases DEF JudgeSession, Clock, Dead, Pending, Answers, Row
<1>7. ASSUME NEW r \in Request, Rotate(r)
      PROVE  TypeOK'
  <2> DEFINE sid == token[r].sid
             next == Successor(r)
  <2>1. /\ token[r] \in Token
        /\ seen[r] \in Row
    BY <1>7 DEF Rotate, TokensOwned, ReadsArePast, Pending
  <2>2. next \in Token /\ sid \in Session
    <3>1. WholeSecond(seen[r].expiresAt) \in Int
      BY <2>1, WholeSeconds DEF Row
    <3> QED  BY <2>1, <3>1 DEF Token, Successor
  <2>3. CASE Rotatable(sessions[sid], seen[r], now[r])
    <3>1. sessions[sid] \in Row
      BY <2>2, <2>3 DEF Rotatable
    <3>2. [sessions[sid] EXCEPT !.hash = next, !.lastUsedAt = now[r]] \in Row
      BY <3>1, <2>2 DEF Row
    <3>3. sessions' = [sessions EXCEPT ![sid] =
                         [sessions[sid] EXCEPT !.hash = next, !.lastUsedAt = now[r]]]
      BY <1>7, <2>3 DEF Rotate
    <3>4. sessions' \in [Session -> Row \cup {None}]
      BY <3>2, <3>3
    <3> QED
      BY <1>7, <2>2, <2>3, <3>4 DEF Rotate, Answers
  <2>4. CASE ~Rotatable(sessions[sid], seen[r], now[r])
    BY <1>7, <2>4 DEF Rotate, Pending
  <2> QED  BY <2>3, <2>4
<1>8. ASSUME NEW r \in Request, RereadSession(r)
      PROVE  TypeOK'
  BY <1>8 DEF RereadSession, TokensOwned, Pending, Token
<1>9. ASSUME NEW r \in Request, JudgeReread(r)
      PROVE  TypeOK'
  BY <1>9, ClassifyCases DEF JudgeReread, Clock, Dead, Pending, Answers, Row
<1>10. ASSUME NEW r \in Request, RevokeReplay(r)
      PROVE  TypeOK'
  <2> DEFINE sid == token[r].sid
  <2>1. sid \in Session /\ tries[r] \in 0..1
    BY <1>10 DEF RevokeReplay, TokensOwned, HandlerKnows, Token
  <2>2. CASE Revocable(sessions[sid], seen[r], now[r])
    <3>1. sessions[sid] \in Row
      BY <2>1, <2>2 DEF Revocable, Rotatable
    <3>2. [sessions[sid] EXCEPT !.revoked = TRUE] \in Row
      BY <3>1 DEF Row
    <3>3. sessions' = [sessions EXCEPT ![sid] = [sessions[sid] EXCEPT !.revoked = TRUE]]
      BY <1>10, <2>2 DEF RevokeReplay
    <3> QED
      BY <1>10, <2>2, <3>2, <3>3 DEF RevokeReplay, Answers
  <2>3. CASE ~Revocable(sessions[sid], seen[r], now[r])
    BY <1>10, <2>1, <2>3 DEF RevokeReplay, Pending
  <2> QED  BY <2>2, <2>3
<1>11. ASSUME NEW r \in Request, RevokeAll(r)
      PROVE  TypeOK'
  BY <1>11, RevokedRows DEF RevokeAll, Answers
<1>12. ASSUME NEW s \in Session, Cleanup(s)
      PROVE  TypeOK'
  BY <1>12 DEF Cleanup
<1>13. CASE Tick
  BY <1>13 DEF Tick
<1>14. CASE UNCHANGED vars
  BY <1>14 DEF vars
<1> QED
  BY <1>1, <1>2, <1>3, <1>4, <1>5, <1>6, <1>7, <1>8, <1>9, <1>10, <1>11, <1>12,
     <1>13, <1>14 DEF Next, Handle

-----------------------------------------------------------------------------
(* What any step does to the rows and to a request that is not moving.     *)

Still(r) ==
  /\ pc'[r] = pc[r]
  /\ token'[r] = token[r]
  /\ seen'[r] = seen[r]
  /\ now'[r] = now[r]
  /\ tries'[r] = tries[r]
  /\ scope'[r] = scope[r]

Starts(r) ==
  \/ \E t \in issued, k \in Skews : StartRefresh(r, t, k)
  \/ \E t \in issued : Logout(r, t)
  \/ \E t \in issued, k \in Skews : StartLogoutAll(r, t, k)

\* In a step every request is still, starts, or runs its handler.
LEMMA WhoMoves ==
  ASSUME TypeOK, [Next]_vars, NEW r \in Request
  PROVE  Still(r) \/ Starts(r) \/ Handle(r)
<1> USE DEF TypeOK, Still
<1>1. ASSUME NEW s \in Session, NEW u \in User, NEW k \in Skews, CreateSession(s, u, k)
      PROVE  Still(r)
  BY <1>1 DEF CreateSession
<1>2. ASSUME NEW q \in Request, NEW t \in issued, NEW k \in Skews, StartRefresh(q, t, k)
      PROVE  Still(r) \/ Starts(r)
  BY <1>2 DEF StartRefresh, Starts
<1>3. ASSUME NEW q \in Request, NEW t \in issued, Logout(q, t)
      PROVE  Still(r) \/ Starts(r)
  BY <1>3 DEF Logout, Starts
<1>4. ASSUME NEW q \in Request, NEW t \in issued, NEW k \in Skews, StartLogoutAll(q, t, k)
      PROVE  Still(r) \/ Starts(r)
  BY <1>4 DEF StartLogoutAll, Starts
<1>5. ASSUME NEW q \in Request, Handle(q)
      PROVE  Still(r) \/ Handle(r)
  <2>1. CASE q = r
    BY <1>5, <2>1
  <2>2. CASE q # r
    BY <1>5, <2>2 DEF Handle, FindSession, JudgeSession, Rotate, RereadSession, JudgeReread,
                      RevokeReplay, RevokeAll
  <2> QED  BY <2>1, <2>2
<1>6. ASSUME NEW s \in Session, Cleanup(s)
      PROVE  Still(r)
  BY <1>6 DEF Cleanup
<1>7. CASE Tick
  BY <1>7 DEF Tick
<1>8. CASE UNCHANGED vars
  BY <1>8 DEF vars
<1> QED
  BY <1>1, <1>2, <1>3, <1>4, <1>5, <1>6, <1>7, <1>8 DEF Next

\* A request that has started keeps its token; one that was answered is still.
LEMMA AnsweredStill ==
  ASSUME TypeOK, [Next]_vars, NEW r \in Request
  PROVE  /\ pc[r] # "idle" => token'[r] = token[r]
         /\ pc[r] \in Answers => Still(r)
<1>1. Starts(r) => pc[r] = "idle"
  BY DEF Starts, StartRefresh, Logout, StartLogoutAll
<1>2. Handle(r) => pc[r] \in Pending /\ token'[r] = token[r]
  BY DEF Handle, FindSession, JudgeSession, Rotate, RereadSession, JudgeReread,
         RevokeReplay, RevokeAll, Pending, TypeOK
<1> QED
  BY <1>1, <1>2, WhoMoves DEF Still, Pending, Answers

\* Spending a token is the effect of a successful rotation and of nothing else.
Rotates(r) ==
  /\ Rotate(r)
  /\ Rotatable(sessions[token[r].sid], seen[r], now[r])

\* A request becomes answered with a successor only by winning the rotating update.
LEMMA OkMeansRotates ==
  ASSUME TypeOK, [Next]_vars, NEW r \in Request, pc'[r] = "ok", pc[r] # "ok"
  PROVE  Rotates(r)
<1>1. ~Still(r)
  BY DEF Still
<1>2. ~Starts(r)
  BY DEF Starts, StartRefresh, Logout, StartLogoutAll, TypeOK
<1>3. Handle(r)
  BY <1>1, <1>2, WhoMoves
<1> QED
  BY <1>3 DEF Handle, FindSession, JudgeSession, Rotate, RereadSession, JudgeReread,
              RevokeReplay, RevokeAll, Rotates, TypeOK, AfterClassify

SpentAfter(t) == \E r \in Request : pc'[r] = "ok" /\ token'[r] = t

\* A spent token stays spent; a token becomes spent by a rotation that presents it.
LEMMA SpentSteps ==
  ASSUME TypeOK, [Next]_vars, NEW t
  PROVE  /\ Spent(t) => SpentAfter(t)
         /\ SpentAfter(t) => Spent(t) \/ \E r \in Request : Rotates(r) /\ token[r] = t
<1>1. ASSUME NEW r \in Request, pc[r] = "ok"
      PROVE  pc'[r] = "ok" /\ token'[r] = token[r]
  BY <1>1, AnsweredStill DEF Answers, Still
<1>2. ASSUME NEW r \in Request, pc'[r] = "ok", pc[r] # "ok"
      PROVE  Rotates(r) /\ token'[r] = token[r]
  BY <1>2, OkMeansRotates DEF Rotates, Rotate
<1> QED
  BY <1>1, <1>2 DEF Spent, SpentAfter, Refreshed

\* A row in the table is a Row; None is not.
LEMMA RowTyped ==
  ASSUME TypeOK, NEW s \in Session
  PROVE  sessions[s] # None <=> sessions[s] \in Row
BY NoneAssumption DEF TypeOK

\* Rows are created once, keep user and expiry, and are frozen by revocation.
LEMMA RowSteps ==
  ASSUME IInv, [Next]_vars, NEW s \in Session
  PROVE  /\ issued \subseteq issued'
         /\ sessions[s] = None /\ (\E t \in issued : t.sid = s) => sessions'[s] = None
         /\ sessions[s] # None /\ sessions'[s] # None =>
              /\ sessions'[s].user = sessions[s].user
              /\ sessions'[s].expiresAt = sessions[s].expiresAt
              /\ sessions[s].revoked => sessions'[s] = sessions[s]
              /\ sessions'[s].hash = sessions[s].hash \/ \E r \in Request : Rotates(r) /\ token[r].sid = s
<1> USE DEF IInv, TypeOK
<1> DEFINE Kept ==
      sessions[s] # None /\ sessions'[s] # None =>
        /\ sessions'[s].user = sessions[s].user
        /\ sessions'[s].expiresAt = sessions[s].expiresAt
        /\ sessions[s].revoked => sessions'[s] = sessions[s]
        /\ sessions'[s].hash = sessions[s].hash \/ \E r \in Request : Rotates(r) /\ token[r].sid = s
    Goal == /\ issued \subseteq issued'
            /\ sessions[s] = None /\ (\E t \in issued : t.sid = s) => sessions'[s] = None
            /\ Kept
<1>1. ASSUME NEW q \in Session, NEW u \in User, NEW k \in Skews, CreateSession(q, u, k)
      PROVE  Goal
  BY <1>1 DEF CreateSession
<1>2. ASSUME NEW r \in Request, Rotate(r)
      PROVE  Goal
  <2> DEFINE sid == token[r].sid
             next == Successor(r)
  <2>1. CASE Rotates(r)
    <3>1. sid \in Session /\ sessions[sid] # None /\ ~sessions[sid].revoked
      BY <2>1 DEF Rotates, Rotate, Rotatable, TokensOwned, Token
    <3>2. sessions[sid] \in Row
      BY <3>1
    <3>3. sessions' = [sessions EXCEPT ![sid] =
                         [sessions[sid] EXCEPT !.hash = next, !.lastUsedAt = now[r]]]
      BY <2>1 DEF Rotates, Rotate
    <3>4. s = sid => sessions'[s].user = sessions[s].user /\ sessions'[s].expiresAt = sessions[s].expiresAt
      BY <3>1, <3>2, <3>3 DEF Row
    <3>5. s # sid => sessions'[s] = sessions[s]
      BY <3>1, <3>3
    <3>6. issued \subseteq issued'
      BY <2>1 DEF Rotates, Rotate
    <3>7. sessions[s] = None => s # sid
      BY <3>1
    <3> QED
      BY <2>1, <3>1, <3>4, <3>5, <3>6, <3>7
  <2>2. CASE ~Rotates(r)
    BY <1>2, <2>2 DEF Rotates, Rotate
  <2> QED  BY <2>1, <2>2
<1>3. ASSUME NEW r \in Request, RevokeReplay(r)
      PROVE  Goal
  <2> DEFINE sid == token[r].sid
  <2>1. CASE Revocable(sessions[sid], seen[r], now[r])
    <3>1. sid \in Session /\ sessions[sid] # None /\ ~sessions[sid].revoked
      BY <1>3, <2>1 DEF RevokeReplay, Revocable, Rotatable, TokensOwned, Token
    <3>2. sessions[sid] \in Row
      BY <3>1
    <3>3. /\ sessions' = [sessions EXCEPT ![sid] = [sessions[sid] EXCEPT !.revoked = TRUE]]
          /\ issued' = issued
      BY <1>3, <2>1 DEF RevokeReplay
    <3>4. s = sid => /\ sessions'[s].user = sessions[s].user
                     /\ sessions'[s].expiresAt = sessions[s].expiresAt
                     /\ sessions'[s].hash = sessions[s].hash
      BY <3>1, <3>2, <3>3 DEF Row
    <3>5. s # sid => sessions'[s] = sessions[s]
      BY <3>1, <3>3
    <3> QED
      BY <3>1, <3>3, <3>4, <3>5
  <2>2. CASE ~Revocable(sessions[sid], seen[r], now[r])
    BY <1>3, <2>2 DEF RevokeReplay
  <2> QED  BY <2>1, <2>2
<1>4. ASSUME NEW S, sessions' = Revoked(S), issued' = issued
      PROVE  Goal
  <2>1. (Revoked(S)[s] = None) <=> (sessions[s] = None)
    BY RevokedRows
  <2>2. sessions[s] # None /\ sessions[s].revoked => Revoked(S)[s] = sessions[s]
    BY RowTyped DEF Revoked, Row
  <2>3. sessions[s] # None => /\ Revoked(S)[s].user = sessions[s].user
                              /\ Revoked(S)[s].expiresAt = sessions[s].expiresAt
                              /\ Revoked(S)[s].hash = sessions[s].hash
    BY RevokedRows
  <2> QED  BY <1>4, <2>1, <2>2, <2>3
<1>5. ASSUME NEW q \in Session, Cleanup(q)
      PROVE  Goal
  BY <1>5 DEF Cleanup
<1>6. CASE UNCHANGED <<sessions, issued>>
  BY <1>6
<1>7. ASSUME NEW r \in Request, Handle(r)
      PROVE  Goal
  BY <1>2, <1>3, <1>4, <1>6, <1>7 DEF Handle, RevokeAll, FindSession, JudgeSession,
       RereadSession, JudgeReread
<1>8. ASSUME NEW r \in Request, NEW t \in issued, Logout(r, t)
      PROVE  Goal
  BY <1>4, <1>8 DEF Logout
<1> QED
  BY <1>1, <1>5, <1>6, <1>7, <1>8 DEF Next, vars, StartRefresh, StartLogoutAll, Tick

-----------------------------------------------------------------------------
(* Tokens and rows.                                                        *)

\* A successful rotation replaces the row's token, the one presented, by a new one.
LEMMA RotatesEffect ==
  ASSUME IInv, NEW r \in Request, Rotates(r)
  PROVE  LET sid == token[r].sid IN
         /\ sid \in Session
         /\ token[r] = sessions[sid].hash
         /\ token[r] \in issued
         /\ ~sessions[sid].revoked
         /\ sessions[sid] # None /\ sessions'[sid] # None
         /\ sessions'[sid].hash = Successor(r)
         /\ issued' = issued \cup {Successor(r)}
         /\ Successor(r) \notin issued
         /\ Successor(r).jti = r
         /\ Successor(r).sid = sid
         /\ Successor(r).sub = token[r].sub
         /\ Successor(r).exp = token[r].exp
         /\ pc[r] = "rotate"
         /\ pc' = [pc EXCEPT ![r] = "ok"]
         /\ token' = token
<1> USE DEF IInv
<1> DEFINE sid == token[r].sid
<1>1. /\ pc[r] = "rotate"
      /\ token[r] \in issued
      /\ token[r] \in Token
      /\ sid \in Session
  BY DEF Rotates, Rotate, TokensOwned, TypeOK, Token
<1>2. /\ sessions[sid] \in Row
      /\ sessions[sid].hash = seen[r].hash
      /\ ~sessions[sid].revoked
  BY <1>1 DEF Rotates, Rotatable, TypeOK
<1>3. /\ seen[r] # None
      /\ seen[r].hash = token[r]
      /\ token[r].exp = WholeSecond(seen[r].expiresAt)
  BY <1>1 DEF ReadsArePast, HandlerKnows
<1>4. /\ Successor(r).jti = r
      /\ Successor(r).sid = sid
      /\ Successor(r).sub = token[r].sub
      /\ Successor(r).exp = token[r].exp
      /\ Successor(r) \in Token
  BY <1>1, <1>3 DEF Successor, Token
<1>5. /\ sessions' = [sessions EXCEPT ![sid] =
                        [sessions[sid] EXCEPT !.hash = Successor(r), !.lastUsedAt = now[r]]]
      /\ issued' = issued \cup {Successor(r)}
      /\ pc' = [pc EXCEPT ![r] = "ok"]
      /\ token' = token
  BY DEF Rotates, Rotate, Successor
<1>6. sessions'[sid] \in Row /\ sessions'[sid].hash = Successor(r)
  BY <1>1, <1>2, <1>4, <1>5 DEF Row, TypeOK
<1>7. Successor(r) \notin issued
  BY <1>1, <1>4 DEF TokensOwned
<1> QED
  BY <1>1, <1>2, <1>3, <1>4, <1>5, <1>6, <1>7, NoneAssumption

\* A token comes into circulation with its session or by a rotation.
LEMMA NewToken ==
  ASSUME IInv, [Next]_vars, NEW t \in issued', t \notin issued
  PROVE  \/ /\ t.sid \in Session /\ t.jti = t.sid
            /\ sessions'[t.sid].hash = t
            /\ sessions'[t.sid].user = t.sub
            /\ t.exp = WholeSecond(sessions'[t.sid].expiresAt)
            /\ \A old \in issued : old.sid # t.sid
         \/ \E r \in Request : Rotates(r) /\ t = Successor(r)
<1> USE DEF IInv, TypeOK
<1>1. ASSUME NEW s \in Session, NEW u \in User, NEW k \in Skews, CreateSession(s, u, k)
      PROVE  /\ t.sid \in Session /\ t.jti = t.sid
             /\ sessions'[t.sid].hash = t
             /\ sessions'[t.sid].user = t.sub
             /\ t.exp = WholeSecond(sessions'[t.sid].expiresAt)
             /\ \A old \in issued : old.sid # t.sid
  BY <1>1 DEF CreateSession
<1>2. ASSUME NEW r \in Request, Handle(r)
      PROVE  Rotates(r) /\ t = Successor(r)
  BY <1>2 DEF Handle, FindSession, JudgeSession, Rotate, RereadSession, JudgeReread,
              RevokeReplay, RevokeAll, Rotates, Successor
<1> QED
  BY <1>1, <1>2 DEF Next, vars, StartRefresh, Logout, StartLogoutAll, Cleanup, Tick

\* Tokens stay owned: a new jti is the session's or that of the winning request.
LEMMA TokensOwnedPreserved ==
  ASSUME IInv, [Next]_vars
  PROVE  TokensOwned'
<1> USE DEF IInv
<1>1. ASSUME NEW r \in Request, pc'[r] # "idle"
      PROVE  token'[r] \in issued'
  <2>1. CASE pc[r] # "idle"
    <3>1. token[r] \in issued /\ token[r].sid \in Session
      BY <2>1 DEF TokensOwned, TypeOK, Token
    <3>2. token'[r] = token[r]
      BY <2>1, AnsweredStill
    <3> QED  BY <3>1, <3>2, RowSteps
  <2>2. CASE Starts(r)
    <3>1. \E t \in issued : token' = [token EXCEPT ![r] = t] /\ issued' = issued
      BY <2>2 DEF Starts, StartRefresh, Logout, StartLogoutAll
    <3> QED  BY <3>1 DEF TypeOK
  <2>3. CASE pc[r] = "idle" /\ ~Starts(r)
    BY <1>1, <2>3, WhoMoves DEF Still, Handle, FindSession, JudgeSession, Rotate, RereadSession,
                                JudgeReread, RevokeReplay, RevokeAll
  <2> QED  BY <2>1, <2>2, <2>3
<1>2. ASSUME NEW t \in issued'
      PROVE  /\ t.jti \in Session => t.jti = t.sid
             /\ t.jti \in Request => pc'[t.jti] = "ok"
  <2>1. CASE t \in issued
    BY <2>1, AnsweredStill DEF TokensOwned, Still, Answers
  <2>2. CASE t \notin issued
    BY <2>2, NewToken, RotatesEffect, IdsAssumption DEF TypeOK
  <2> QED  BY <2>1, <2>2
<1> QED
  BY <1>1, <1>2 DEF TokensOwned

\* The claims of every token go on matching the user and the expiry of its row.
LEMMA ClaimsMatchRowPreserved ==
  ASSUME IInv, [Next]_vars
  PROVE  ClaimsMatchRow'
<1> USE DEF IInv
<1> SUFFICES ASSUME NEW t \in issued', sessions'[t.sid] # None
             PROVE  /\ sessions'[t.sid].user = t.sub
                    /\ t.exp = WholeSecond(sessions'[t.sid].expiresAt)
  BY DEF ClaimsMatchRow
<1>1. CASE t \in issued
  <2>1. t.sid \in Session
    BY <1>1 DEF TypeOK, Token
  <2>2. sessions[t.sid] # None
    BY <1>1, <2>1, RowSteps
  <2> QED  BY <1>1, <2>1, <2>2, RowSteps DEF ClaimsMatchRow
<1>2. ASSUME NEW r \in Request, Rotates(r), t = Successor(r)
      PROVE  /\ sessions'[t.sid].user = t.sub
             /\ t.exp = WholeSecond(sessions'[t.sid].expiresAt)
  BY <1>2, RotatesEffect, RowSteps DEF ClaimsMatchRow
<1> QED
  BY <1>1, <1>2, NewToken

\* The row goes on accepting exactly one unspent token of its session.
LEMMA OneCurrentTokenPreserved ==
  ASSUME IInv, [Next]_vars
  PROVE  OneCurrentToken'
<1> USE DEF IInv
<1>1. ASSUME NEW t, SpentAfter(t)
      PROVE  /\ Spent(t) \/ \E r \in Request : Rotates(r) /\ token[r] = t
             /\ t \in issued
  <2>1. Spent(t) => t \in issued
    BY DEF Spent, Refreshed, TokensOwned
  <2>2. ASSUME NEW r \in Request, Rotates(r), token[r] = t
        PROVE  t \in issued
    BY <2>2, RotatesEffect
  <2> QED  BY <1>1, <2>1, <2>2, SpentSteps
<1>2. ASSUME NEW s \in Session, NEW r \in Request, Rotates(r), token[r].sid = s
      PROVE  /\ sessions'[s].hash = Successor(r)
             /\ sessions'[s].hash \in issued'
             /\ sessions'[s].hash.sid = s
             /\ ~SpentAfter(sessions'[s].hash)
             /\ sessions[s].hash = token[r]
             /\ SpentAfter(token[r])
  <2>1. SpentAfter(token[r])
    BY <1>2, RotatesEffect DEF SpentAfter, TypeOK
  <2> QED
    BY <1>1, <1>2, <2>1, RotatesEffect
<1>3. ASSUME NEW s \in Session, sessions'[s] # None, sessions[s] = None
      PROVE  /\ sessions'[s].hash \in issued' \ issued
             /\ sessions'[s].hash.sid = s
  <2>1. ASSUME NEW q \in Session, NEW u \in User, NEW k \in Skews, CreateSession(q, u, k)
        PROVE  /\ sessions'[s].hash \in issued' \ issued
               /\ sessions'[s].hash.sid = s
    BY <1>3, <2>1 DEF CreateSession, TypeOK
  <2>2. ASSUME NEW r \in Request, Rotate(r)
        PROVE  FALSE
    BY <1>3, <2>2, RotatesEffect DEF Rotate, Rotates, TypeOK
  <2>3. ASSUME NEW r \in Request, RevokeReplay(r)
        PROVE  FALSE
    BY <1>3, <2>3 DEF RevokeReplay, Revocable, Rotatable, TypeOK
  <2>4. ASSUME NEW S, sessions' = Revoked(S)
        PROVE  FALSE
    BY <1>3, <2>4, RevokedRows
  <2> QED
    BY <1>3, <2>1, <2>2, <2>3, <2>4 DEF Next, Handle, vars, StartRefresh, Logout, StartLogoutAll,
       FindSession, JudgeSession, RereadSession, JudgeReread, RevokeAll, Cleanup, Tick, TypeOK
<1>4. ASSUME NEW s \in Session, sessions'[s] # None
      PROVE  /\ sessions'[s].hash \in issued'
             /\ sessions'[s].hash.sid = s
             /\ ~SpentAfter(sessions'[s].hash)
  <2>1. CASE sessions[s] = None
    BY <1>1, <1>3, <1>4, <2>1
  <2>2. CASE \E r \in Request : Rotates(r) /\ token[r].sid = s
    BY <1>2, <2>2
  <2>3. CASE sessions[s] # None /\ ~\E r \in Request : Rotates(r) /\ token[r].sid = s
    <3>1. sessions'[s].hash = sessions[s].hash /\ issued \subseteq issued'
      BY <1>4, <2>3, RowSteps
    <3>2. /\ sessions[s].hash \in issued
          /\ sessions[s].hash.sid = s
          /\ ~Spent(sessions[s].hash)
      BY <2>3 DEF OneCurrentToken
    <3> QED  BY <1>1, <2>3, <3>1, <3>2
  <2> QED  BY <2>1, <2>2, <2>3
<1>5. ASSUME NEW t \in issued', sessions'[t.sid] # None
      PROVE  SpentAfter(t) \/ sessions'[t.sid].hash = t
  <2>1. CASE t \in issued
    <3>1. t.sid \in Session
      BY <2>1 DEF TypeOK, Token
    <3>2. sessions[t.sid] # None
      BY <1>5, <2>1, <3>1, RowSteps
    <3>3. CASE Spent(t)
      BY <3>3, SpentSteps
    <3>4. CASE sessions[t.sid].hash = t
      BY <1>2, <1>5, <3>1, <3>2, <3>4, RowSteps
    <3> QED  BY <2>1, <3>2, <3>3, <3>4 DEF OneCurrentToken
  <2>2. CASE t \notin issued
    BY <1>2, <2>2, NewToken, RotatesEffect
  <2> QED  BY <2>1, <2>2
<1> QED
  BY <1>4, <1>5 DEF OneCurrentToken, Spent, SpentAfter, Refreshed

-----------------------------------------------------------------------------
(* Handlers.                                                               *)

\* What a suspended handler has read stays a bound on what the row can become.
LEMMA ReadsArePastPreserved ==
  ASSUME IInv, [Next]_vars
  PROVE  ReadsArePast'
<1> USE DEF IInv
<1> DEFINE Past(r) ==
      pc'[r] \in {"found", "rotate", "reseen", "revoke"} =>
        /\ seen'[r] = None => pc'[r] \in {"found", "reseen"} /\ sessions'[token'[r].sid] = None
        /\ seen'[r] # None =>
             /\ seen'[r].user = token'[r].sub
             /\ token'[r].exp = WholeSecond(seen'[r].expiresAt)
             /\ sessions'[token'[r].sid] # None =>
                  sessions'[token'[r].sid].expiresAt = seen'[r].expiresAt
             /\ seen'[r].revoked => sessions'[token'[r].sid] = None \/ sessions'[token'[r].sid].revoked
             /\ seen'[r].hash # token'[r] => SpentAfter(token'[r])
<1>1. ASSUME NEW r \in Request, pc[r] # "idle"
      PROVE  /\ token'[r] = token[r]
             /\ token[r] \in issued
             /\ token[r].sid \in Session
             /\ Spent(token[r]) => SpentAfter(token[r])
             /\ sessions[token[r].sid] = None => sessions'[token[r].sid] = None
             /\ sessions[token[r].sid] # None /\ sessions[token[r].sid].revoked =>
                  sessions'[token[r].sid] = None \/ sessions'[token[r].sid].revoked
             /\ sessions[token[r].sid] # None /\ sessions'[token[r].sid] # None =>
                  sessions'[token[r].sid].expiresAt = sessions[token[r].sid].expiresAt
  <2>1. token[r] \in issued /\ token[r].sid \in Session
    BY <1>1 DEF TokensOwned, TypeOK, Token
  <2> QED  BY <1>1, <2>1, AnsweredStill, SpentSteps, RowSteps
<1>2. ASSUME NEW r \in Request, Still(r)
      PROVE  Past(r)
  BY <1>1, <1>2 DEF Still, ReadsArePast
<1>3. ASSUME NEW r \in Request, Starts(r)
      PROVE  Past(r)
  BY <1>3 DEF Starts, StartRefresh, Logout, StartLogoutAll, TypeOK
<1>4. ASSUME NEW r \in Request, FindSession(r) \/ RereadSession(r)
      PROVE  Past(r)
  <2>1. pc[r] # "idle"
    BY <1>4 DEF FindSession, RereadSession
  <2>2. seen'[r] = sessions[token[r].sid] /\ pc'[r] \in {"found", "reseen"} /\ sessions' = sessions
    BY <1>4 DEF FindSession, RereadSession, TypeOK
  <2> QED
    BY <1>1, <2>1, <2>2 DEF ClaimsMatchRow, OneCurrentToken
<1>5. ASSUME NEW r \in Request, JudgeSession(r) \/ JudgeReread(r)
      PROVE  Past(r)
  <2>1. pc[r] \in {"found", "reseen"} /\ seen'[r] = seen[r] /\ sessions' = sessions
    BY <1>5 DEF JudgeSession, JudgeReread
  <2>2. seen[r] = None => pc'[r] = "unauthorized"
    BY <1>5 DEF JudgeSession, JudgeReread, Dead, TypeOK
  <2> QED
    BY <1>1, <2>1, <2>2 DEF ReadsArePast
<1>6. ASSUME NEW r \in Request, Rotate(r) \/ RevokeReplay(r) \/ RevokeAll(r)
      PROVE  Past(r)
  BY <1>6 DEF Rotate, RevokeReplay, RevokeAll, TypeOK
<1>7. \A r \in Request : Past(r)
  BY <1>2, <1>3, <1>4, <1>5, <1>6, WhoMoves DEF Handle
<1> QED
  BY <1>7 DEF ReadsArePast, Spent, SpentAfter, Refreshed

\* What persists of a row a started request is about.
LEMMA RowOfRequest ==
  ASSUME IInv, [Next]_vars, NEW r \in Request, pc[r] # "idle"
  PROVE  /\ token'[r] = token[r]
         /\ token[r] \in issued
         /\ token[r].sid \in Session
         /\ Spent(token[r]) => SpentAfter(token[r])
         /\ sessions[token[r].sid] = None => sessions'[token[r].sid] = None
         /\ sessions[token[r].sid] # None /\ sessions[token[r].sid].revoked =>
              sessions'[token[r].sid] = None \/ sessions'[token[r].sid] = sessions[token[r].sid]
         /\ sessions[token[r].sid] # None => token[r].exp = WholeSecond(sessions[token[r].sid].expiresAt)
         /\ sessions[token[r].sid] # None /\ sessions'[token[r].sid] # None =>
              sessions'[token[r].sid].expiresAt = sessions[token[r].sid].expiresAt
         /\ sessions[token[r].sid] # None => sessions[token[r].sid].user = token[r].sub
         /\ sessions'[token[r].sid] # None => token[r].exp = WholeSecond(sessions'[token[r].sid].expiresAt)
<1>1. token[r] \in issued /\ token[r].sid \in Session
  BY DEF IInv, TokensOwned, TypeOK, Token
<1>2. token'[r] = token[r]
  BY AnsweredStill DEF IInv
<1>3. Spent(token[r]) => SpentAfter(token[r])
  BY SpentSteps DEF IInv
<1>4. sessions[token[r].sid] # None => /\ token[r].exp = WholeSecond(sessions[token[r].sid].expiresAt)
                                       /\ sessions[token[r].sid].user = token[r].sub
  BY <1>1 DEF IInv, ClaimsMatchRow
<1> QED
  BY <1>1, <1>2, <1>3, <1>4, RowSteps

\* Each suspension point of the handler keeps what it knows of its token.
LEMMA HandlerKnowsPreserved ==
  ASSUME IInv, [Next]_vars
  PROVE  HandlerKnows'
<1> DEFINE Knows(r) ==
      /\ pc'[r] = "rotate" => /\ seen'[r].hash = token'[r]
                              /\ seen'[r].expiresAt > now'[r]
      /\ pc'[r] = "reread" => \/ SpentAfter(token'[r])
                              \/ sessions'[token'[r].sid] = None
                              \/ sessions'[token'[r].sid].revoked
      /\ pc'[r] = "reseen" => \/ SpentAfter(token'[r])
                              \/ seen'[r] = None
                              \/ seen'[r].revoked
      /\ pc'[r] = "revoke" => /\ now'[r] - seen'[r].lastUsedAt > Grace
                              /\ tries'[r] < 2
      /\ pc'[r] \in {"idle", "find", "found", "rotate"} => tries'[r] = 0
<1>1. ASSUME NEW r \in Request, Still(r)
      PROVE  Knows(r)
  BY <1>1, RowOfRequest DEF Still, IInv, HandlerKnows
<1>2. ASSUME NEW r \in Request, Starts(r)
      PROVE  Knows(r)
  <2>1. /\ pc[r] = "idle" /\ tries' = tries
        /\ pc'[r] \in {"unauthorized", "find", "revokeAll", "loggedOut"}
    BY <1>2 DEF Starts, StartRefresh, Logout, StartLogoutAll, IInv, TypeOK
  <2> QED  BY <2>1 DEF IInv, HandlerKnows
<1>3. ASSUME NEW r \in Request, FindSession(r)
      PROVE  Knows(r)
  BY <1>3 DEF FindSession, IInv, TypeOK, HandlerKnows
<1>4. ASSUME NEW r \in Request, JudgeSession(r)
      PROVE  Knows(r)
  <2>1. /\ pc[r] = "found" /\ tries' = tries /\ seen' = seen /\ token' = token
        /\ tries[r] = 0
        /\ now'[r] = Clock(r)
        /\ Clock(r) \in Int
    BY <1>4 DEF JudgeSession, IInv, TypeOK, HandlerKnows, Clock
  <2>2. CASE Dead(seen[r], token[r], Clock(r))
    BY <1>4, <2>2 DEF JudgeSession, IInv, TypeOK
  <2>3. CASE ~Dead(seen[r], token[r], Clock(r))
    <3>1. seen[r] \in Row /\ seen[r].expiresAt > Clock(r)
      BY <2>1, <2>3 DEF Dead, IInv, TypeOK, Row
    <3>2. CASE seen[r].hash = token[r]
      BY <1>4, <2>1, <2>3, <3>1, <3>2 DEF JudgeSession, IInv, TypeOK
    <3>3. CASE seen[r].hash # token[r]
      <4>1. pc'[r] = AfterClassify(Classify(seen[r].lastUsedAt, Clock(r)))
        BY <1>4, <2>3, <3>3 DEF JudgeSession, IInv, TypeOK
      <4>2. seen[r].lastUsedAt \in Int
        BY <3>1 DEF Row
      <4> QED  BY <2>1, <4>1, <4>2, ClassifyCases
    <3> QED  BY <3>2, <3>3
  <2> QED  BY <2>2, <2>3
<1>5. ASSUME NEW r \in Request, Rotate(r)
      PROVE  Knows(r)
  <2>1. CASE Rotates(r)
    BY <1>5, <2>1 DEF Rotate, Rotates, IInv, TypeOK
  <2>2. CASE ~Rotates(r)
    <3>1. /\ pc[r] = "rotate" /\ pc'[r] = "reread" /\ sessions' = sessions
          /\ ~Rotatable(sessions[token[r].sid], seen[r], now[r])
      BY <1>5, <2>2 DEF Rotate, Rotates, IInv, TypeOK
    <3>2. /\ seen[r].hash = token[r]
          /\ seen[r].expiresAt > now[r]
          /\ seen[r].user = token[r].sub
          /\ sessions[token[r].sid] # None => sessions[token[r].sid].expiresAt = seen[r].expiresAt
      BY <3>1 DEF IInv, HandlerKnows, ReadsArePast
    <3>3. sessions[token[r].sid] # None /\ ~sessions[token[r].sid].revoked => Spent(token[r])
      BY <3>1, <3>2, RowOfRequest DEF Rotatable, IInv, OneCurrentToken
    <3> QED  BY <3>1, <3>3, RowOfRequest
  <2> QED  BY <2>1, <2>2
<1>6. ASSUME NEW r \in Request, RereadSession(r)
      PROVE  Knows(r)
  <2>1. /\ pc[r] = "reread" /\ pc'[r] = "reseen" /\ seen'[r] = sessions[token[r].sid]
    BY <1>6 DEF RereadSession, IInv, TypeOK
  <2> QED  BY <2>1, RowOfRequest DEF IInv, HandlerKnows
<1>7. ASSUME NEW r \in Request, JudgeReread(r)
      PROVE  Knows(r)
  <2>1. pc[r] = "reseen" /\ tries' = tries /\ seen' = seen /\ Clock(r) \in Int /\ tries[r] \in 0..2
    BY <1>7 DEF JudgeReread, Clock, IInv, TypeOK
  <2>2. CASE Dead(seen[r], token[r], now[r]) \/ tries[r] = 2
    BY <1>7, <2>2 DEF JudgeReread, IInv, TypeOK
  <2>3. CASE ~Dead(seen[r], token[r], now[r]) /\ tries[r] # 2
    <3>1. /\ pc'[r] = AfterClassify(Classify(seen[r].lastUsedAt, Clock(r)))
          /\ now'[r] = Clock(r)
      BY <1>7, <2>3 DEF JudgeReread, IInv, TypeOK
    <3>2. seen[r].lastUsedAt \in Int
      BY <2>3 DEF Dead, IInv, TypeOK, Row
    <3> QED  BY <2>1, <2>3, <3>1, <3>2, ClassifyCases
  <2> QED  BY <2>2, <2>3
<1>8. ASSUME NEW r \in Request, RevokeReplay(r)
      PROVE  Knows(r)
  <2>1. pc[r] = "revoke" /\ pc'[r] \in {"replay", "reread"}
    BY <1>8 DEF RevokeReplay, IInv, TypeOK
  <2> QED  BY <2>1, RowOfRequest DEF IInv, OnlySpentTokensRejected
<1>9. ASSUME NEW r \in Request, RevokeAll(r)
      PROVE  Knows(r)
  BY <1>9 DEF RevokeAll, IInv, TypeOK
<1>10. \A r \in Request : Knows(r)
  BY <1>1, <1>2, <1>3, <1>4, <1>5, <1>6, <1>7, <1>8, <1>9, WhoMoves DEF Handle, IInv
<1> QED
  BY <1>10 DEF HandlerKnows, Spent, SpentAfter, Refreshed

\* The sessions a logout covers stay known, and stay its user's until it revokes.
LEMMA ScopeKnownPreserved ==
  ASSUME IInv, [Next]_vars
  PROVE  ScopeKnown'
<1>1. ASSUME NEW r \in Request, NEW s \in scope'[r]
      PROVE  /\ \E t \in issued' : t.sid = s
             /\ pc'[r] = "revokeAll" => sessions'[s] = None \/ sessions'[s].user = token'[r].sub
  <2>1. CASE s \in scope[r] /\ Still(r)
    <3>1. s \in Session /\ \E t \in issued : t.sid = s
      BY <2>1 DEF IInv, TypeOK, ScopeKnown
    <3>2. pc[r] = "revokeAll" => sessions[s] = None \/ sessions[s].user = token[r].sub
      BY <2>1 DEF IInv, ScopeKnown
    <3> QED  BY <2>1, <3>1, <3>2, RowSteps DEF Still
  <2>2. ASSUME NEW t \in issued, Logout(r, t)
        PROVE  s = t.sid /\ issued' = issued /\ pc'[r] # "revokeAll"
    BY <2>2 DEF Logout, IInv, TypeOK
  <2>3. ASSUME NEW t \in issued, NEW k \in Skews, StartLogoutAll(r, t, k)
        PROVE  /\ s \in Session /\ sessions[s] # None /\ sessions[s].user = t.sub
               /\ issued' = issued /\ sessions' = sessions /\ token'[r] = t
    BY <2>3 DEF StartLogoutAll, SessionsOf, IInv, TypeOK
  <2>4. ASSUME NEW t \in issued, NEW k \in Skews, StartRefresh(r, t, k)
        PROVE  /\ s \in scope[r] /\ issued' = issued /\ pc'[r] # "revokeAll"
    BY <2>4 DEF StartRefresh, IInv, TypeOK
  <2>5. CASE Handle(r)
    <3>1. scope' = scope /\ pc'[r] # "revokeAll"
      BY <2>5 DEF Handle, FindSession, JudgeSession, Rotate, RereadSession, JudgeReread,
                  RevokeReplay, RevokeAll, AfterClassify, IInv, TypeOK
    <3>2. s \in Session
      BY <3>1 DEF IInv, TypeOK
    <3> QED  BY <3>1, RowSteps DEF IInv, ScopeKnown, TypeOK
  <2>6. CASE Still(r)
    BY <2>1, <2>6 DEF Still
  <2> QED
    BY <2>2, <2>3, <2>4, <2>5, <2>6, WhoMoves DEF Starts, IInv, ScopeKnown, OneCurrentToken, TypeOK
<1> QED
  BY <1>1 DEF ScopeKnown

-----------------------------------------------------------------------------
(* The properties.                                                         *)

\* Two requests never both win the rotation of the same token.
LEMMA OneSuccessorPreserved ==
  ASSUME IInv, [Next]_vars
  PROVE  OneSuccessorPerToken'
<1> SUFFICES ASSUME NEW q \in Request, NEW r \in Request, pc'[q] = "ok", pc'[r] = "ok",
                    token'[q] = token'[r]
             PROVE  q = r
  BY DEF OneSuccessorPerToken, Refreshed
<1>1. ASSUME NEW x \in Request, NEW y \in Request, Rotates(x), pc[y] = "ok", token[y] = token[x]
      PROVE  FALSE
  BY <1>1, RotatesEffect DEF IInv, OneCurrentToken, Spent, Refreshed
<1>2. ASSUME NEW x \in Request, NEW y \in Request, Rotates(x), Rotates(y)
      PROVE  x = y
  BY <1>2, RotatesEffect DEF IInv, TypeOK
<1>3. ASSUME NEW x \in Request, pc'[x] = "ok"
      PROVE  (pc[x] = "ok" \/ Rotates(x)) /\ token'[x] = token[x]
  BY <1>3, OkMeansRotates, RotatesEffect, AnsweredStill DEF IInv, Still, Answers
<1>4. CASE pc[q] = "ok" /\ pc[r] = "ok" /\ token[q] = token[r]
  BY <1>4 DEF IInv, OneSuccessorPerToken, Refreshed
<1> QED
  BY <1>1, <1>2, <1>3, <1>4

\* Only a token that was exchanged already reaches the reuse classification.
LEMMA OnlySpentPreserved ==
  ASSUME IInv, [Next]_vars
  PROVE  OnlySpentTokensRejected'
<1> SUFFICES ASSUME NEW r \in Request, pc'[r] \in {"revoke", "replay", "conflict", "unavailable"}
             PROVE  SpentAfter(token'[r])
  BY DEF OnlySpentTokensRejected, Spent, SpentAfter, Refreshed
<1>1. pc[r] # "idle" /\ Spent(token[r]) => SpentAfter(token'[r])
  BY RowOfRequest
<1>2. CASE Still(r)
  BY <1>1, <1>2 DEF Still, IInv, OnlySpentTokensRejected
<1>3. ~Starts(r)
  BY DEF Starts, StartRefresh, Logout, StartLogoutAll, IInv, TypeOK
<1>4. CASE JudgeSession(r)
  <2>1. pc[r] = "found" /\ seen[r] # None /\ seen[r].hash # token[r]
    BY <1>4 DEF JudgeSession, Dead, IInv, TypeOK
  <2> QED  BY <1>1, <2>1 DEF IInv, ReadsArePast
<1>5. CASE JudgeReread(r)
  <2>1. pc[r] = "reseen" /\ seen[r] # None /\ ~seen[r].revoked
    BY <1>5 DEF JudgeReread, Dead, IInv, TypeOK
  <2> QED  BY <1>1, <2>1 DEF IInv, HandlerKnows
<1>6. CASE RevokeReplay(r)
  BY <1>1, <1>6 DEF RevokeReplay, IInv, OnlySpentTokensRejected
<1> QED
  BY <1>2, <1>3, <1>4, <1>5, <1>6, WhoMoves DEF Handle, FindSession, Rotate, RereadSession,
     RevokeAll, IInv, TypeOK

\* A 401 is answered about a dead session, and dead it stays.
LEMMA UnauthorizedPreserved ==
  ASSUME IInv, [Next]_vars
  PROVE  UnauthorizedMeansDead'
<1> DEFINE sid(r) == token'[r].sid
           DeadNow(r) == \/ sessions'[sid(r)] = None
                         \/ sessions'[sid(r)].revoked
                         \/ sessions'[sid(r)].expiresAt <= now'[r] + Second - 1
<1> SUFFICES ASSUME NEW r \in Request, pc'[r] = "unauthorized"
             PROVE  DeadNow(r)
  <2>1. \A r \in Request : pc'[r] = "unauthorized" => DeadNow(r)
    OBVIOUS
  <2>2. now' \in [Request -> Int] /\ sessions' \in [Session -> Row \cup {None}]
        /\ (\A q \in Request : pc'[q] # "idle" => token'[q] \in Token)
    BY TypePreserved, TokensOwnedPreserved DEF IInv, TypeOK, TokensOwned
  <2>3. \A q \in Request : pc'[q] # "idle" => sid(q) \in Session
    BY <2>2 DEF Token
  <2>4. ASSUME NEW q \in Request, pc'[q] = "unauthorized"
        PROVE  ~Live(token[q].sid, now[q] + Second - 1)'
    <3>1. /\ sid(q) \in Session /\ now'[q] \in Int
          /\ sessions'[sid(q)] # None => sessions'[sid(q)].expiresAt \in Int
      BY <2>2, <2>3, <2>4 DEF Row
    <3> QED  BY <2>1, <2>4, <3>1, TimeAssumption DEF Live
  <2> QED  BY <2>4 DEF UnauthorizedMeansDead
<1>1. CASE Still(r)
  <2>1. pc[r] = "unauthorized" /\ now'[r] = now[r] /\ token'[r] = token[r]
    BY <1>1 DEF Still
  <2>2. token[r].sid \in Session /\ now[r] \in Int
    BY <2>1, RowOfRequest DEF IInv, TypeOK
  <2>3. ~Live(token[r].sid, now[r] + Second - 1)
    BY <2>1 DEF IInv, UnauthorizedMeansDead
  <2>4. \/ sessions[token[r].sid] = None
        \/ sessions[token[r].sid] # None /\ sessions[token[r].sid].revoked
        \/ sessions[token[r].sid] # None /\ sessions[token[r].sid].expiresAt <= now[r] + Second - 1
    BY <2>2, <2>3, TimeAssumption DEF Live, IInv, TypeOK, Row
  <2> QED  BY <2>1, <2>4, RowOfRequest
<1>2. CASE Starts(r)
  <2>1. ASSUME NEW t \in issued, NEW k \in Skews, StartRefresh(r, t, k)
        PROVE  DeadNow(r)
    <3>1. /\ token'[r] = t /\ sessions' = sessions /\ t.sid \in Session
          /\ now'[r] = clock + k /\ clock + k \in Int
          /\ ~(t.exp > WholeSecond(clock + k))
      <4>1. /\ token'[r] = t /\ sessions' = sessions /\ now'[r] = clock + k
            /\ t.exp <= WholeSecond(clock + k)
        BY <2>1 DEF StartRefresh, IInv, TypeOK
      <4>2. t \in Token /\ clock + k \in Int
        BY <2>1, TimeAssumption DEF IInv, TypeOK
      <4> QED  BY <4>1, <4>2, WholeSeconds DEF Token
    <3>2. CASE sessions[t.sid] # None
      <4>1. t.exp = WholeSecond(sessions[t.sid].expiresAt) /\ sessions[t.sid].expiresAt \in Int
        BY <3>1, <3>2 DEF IInv, TypeOK, ClaimsMatchRow, Row
      <4> QED  BY <3>1, <4>1, LastSecond
    <3> QED  BY <3>1, <3>2
  <2>2. ASSUME NEW t \in issued, NEW k \in Skews, StartLogoutAll(r, t, k)
        PROVE  DeadNow(r)
    <3>1. /\ token'[r] = t /\ sessions' = sessions /\ t.sid \in Session
          /\ now'[r] = clock + k /\ clock + k \in Int
          /\ Dead(sessions[t.sid], t, clock + k)
      BY <2>2, TimeAssumption DEF StartLogoutAll, IInv, TypeOK, Token
    <3>2. sessions[t.sid] # None => /\ sessions[t.sid].user = t.sub
                                    /\ sessions[t.sid].expiresAt \in Int
      BY <3>1 DEF IInv, TypeOK, ClaimsMatchRow, Row
    <3> QED  BY <3>1, <3>2, TimeAssumption DEF Dead
  <2>3. ASSUME NEW t \in issued, Logout(r, t)
        PROVE  FALSE
    BY <2>3 DEF Logout, IInv, TypeOK
  <2> QED  BY <1>2, <2>1, <2>2, <2>3 DEF Starts
<1>3. ASSUME pc[r] \in {"found", "reseen"}, sessions' = sessions, now'[r] \in Int,
             NEW at \in Int, at <= now'[r], Dead(seen[r], token[r], at)
      PROVE  DeadNow(r)
  <2>1. CASE seen[r] = None
    BY <1>3, <2>1, RowOfRequest DEF IInv, ReadsArePast
  <2>2. CASE seen[r] # None /\ seen[r].revoked
    BY <1>3, <2>2, RowOfRequest DEF IInv, ReadsArePast
  <2>3. CASE seen[r] # None /\ seen[r].expiresAt <= at
    <3>1. seen[r].expiresAt \in Int
      BY <2>3 DEF IInv, TypeOK, Row
    <3> QED  BY <1>3, <2>3, <3>1, RowOfRequest, TimeAssumption DEF IInv, ReadsArePast
  <2>4. seen[r] # None => seen[r].user = token[r].sub
    BY <1>3 DEF IInv, ReadsArePast
  <2> QED  BY <1>3, <2>1, <2>2, <2>3, <2>4 DEF Dead
<1>4. CASE JudgeSession(r)
  <2>1. /\ pc[r] = "found" /\ sessions' = sessions /\ now'[r] \in Int
        /\ \/ Dead(seen[r], token[r], now'[r])
           \/ ~Dead(seen[r], token[r], now'[r]) /\ ~Issuable(seen[r].expiresAt, now'[r])
    BY <1>4, TimeAssumption DEF JudgeSession, AfterClassify, Clock, IInv, TypeOK
  <2>2. CASE Dead(seen[r], token[r], now'[r])
    BY <1>3, <2>1, <2>2
  <2>3. CASE ~Dead(seen[r], token[r], now'[r]) /\ ~Issuable(seen[r].expiresAt, now'[r])
    <3>1. seen[r] # None /\ seen[r].expiresAt \in Int
      BY <2>3 DEF Dead, IInv, TypeOK, Row
    <3>2. seen[r].expiresAt <= now'[r] + Second - 1
      BY <2>1, <2>3, <3>1, LastSecond DEF Issuable
    <3> QED  BY <2>1, <3>1, <3>2, RowOfRequest DEF IInv, ReadsArePast
  <2> QED  BY <2>1, <2>2, <2>3
<1>5. CASE JudgeReread(r)
  <2>1. /\ pc[r] = "reseen" /\ sessions' = sessions /\ now' = now /\ now[r] \in Int
        /\ Dead(seen[r], token[r], now[r])
    BY <1>5 DEF JudgeReread, AfterClassify, IInv, TypeOK
  <2> QED  BY <1>3, <2>1
<1> QED
  BY <1>1, <1>2, <1>4, <1>5, WhoMoves DEF Handle, FindSession, Rotate, RereadSession,
     RevokeReplay, RevokeAll, IInv, TypeOK

\* A replay is judged on the rotation that the row still carries.
LEMMA ReplayEvidencePreserved ==
  ASSUME IInv, [Next]_vars
  PROVE  ReplayEvidence'
<1> SUFFICES ASSUME NEW r \in Request, pc'[r] = "replay", sessions'[token'[r].sid] # None
             PROVE  /\ sessions'[token'[r].sid].revoked
                    /\ now'[r] - sessions'[token'[r].sid].lastUsedAt > Grace
  BY DEF ReplayEvidence
<1>1. CASE Still(r)
  <2>1. /\ pc[r] = "replay" /\ now'[r] = now[r] /\ token'[r] = token[r]
        /\ sessions[token[r].sid] # None
    BY <1>1, RowOfRequest DEF Still
  <2>2. /\ sessions[token[r].sid].revoked
        /\ now[r] - sessions[token[r].sid].lastUsedAt > Grace
    BY <2>1 DEF IInv, ReplayEvidence
  <2> QED  BY <2>1, <2>2, RowOfRequest
<1>2. CASE RevokeReplay(r)
  <2> DEFINE sid == token[r].sid
  <2>1. /\ pc[r] = "revoke" /\ token' = token /\ now' = now
        /\ Revocable(sessions[sid], seen[r], now[r])
        /\ sessions' = [sessions EXCEPT ![sid] = [sessions[sid] EXCEPT !.revoked = TRUE]]
    BY <1>2 DEF RevokeReplay, IInv, TypeOK
  <2>2. /\ sid \in Session /\ sessions[sid] \in Row
        /\ sessions[sid].lastUsedAt = seen[r].lastUsedAt
    BY <2>1, RowOfRequest DEF Revocable, Rotatable, IInv, TypeOK
  <2>3. now[r] - seen[r].lastUsedAt > Grace
    BY <2>1 DEF IInv, HandlerKnows
  <2>4. sessions'[sid].revoked = TRUE /\ sessions'[sid].lastUsedAt = sessions[sid].lastUsedAt
    BY <2>1, <2>2 DEF Row, IInv, TypeOK
  <2> QED  BY <2>1, <2>2, <2>3, <2>4
<1>3. ~Starts(r)
  BY DEF Starts, StartRefresh, Logout, StartLogoutAll, IInv, TypeOK
<1> QED
  BY <1>1, <1>2, <1>3, WhoMoves DEF Handle, FindSession, JudgeSession, Rotate, RereadSession,
     JudgeReread, RevokeAll, AfterClassify, IInv, TypeOK

\* No step revives a session that an answered logout covers.
LEMMA LogoutFinalPreserved ==
  ASSUME IInv, [Next]_vars
  PROVE  LogoutFinal'
<1> SUFFICES ASSUME NEW r \in Request, pc'[r] = "loggedOut", NEW s \in scope'[r]
             PROVE  sessions'[s] = None \/ sessions'[s].revoked
  BY DEF LogoutFinal
<1>1. CASE Still(r)
  <2>1. /\ s \in Session /\ \E t \in issued : t.sid = s
        /\ sessions[s] = None \/ sessions[s].revoked
    BY <1>1 DEF Still, IInv, TypeOK, ScopeKnown, LogoutFinal
  <2> QED  BY <2>1, RowSteps
<1>2. ASSUME NEW t \in issued, Logout(r, t)
      PROVE  sessions'[s] = None \/ sessions'[s].revoked
  <2> DEFINE S == {q \in Session : q = t.sid /\ sessions[q] # None /\ sessions[q].user = t.sub}
  <2>1. s = t.sid /\ s \in Session /\ sessions' = Revoked(S)
    BY <1>2 DEF Logout, IInv, TypeOK, Token
  <2>2. sessions[s] # None => s \in S
    BY <2>1 DEF IInv, ClaimsMatchRow
  <2> QED  BY <2>1, <2>2, RevokedRows DEF IInv
<1>3. CASE RevokeAll(r)
  <2>1. /\ pc[r] = "revokeAll" /\ s \in scope[r] /\ s \in Session
        /\ sessions' = Revoked(SessionsOf(token[r].sub))
    BY <1>3 DEF RevokeAll, IInv, TypeOK
  <2>2. sessions[s] # None => s \in SessionsOf(token[r].sub)
    BY <2>1 DEF IInv, ScopeKnown, SessionsOf
  <2> QED  BY <2>1, <2>2, RevokedRows DEF IInv
<1> QED
  BY <1>1, <1>2, <1>3, WhoMoves DEF Handle, FindSession, JudgeSession, Rotate, RereadSession,
     JudgeReread, RevokeReplay, AfterClassify, Starts, StartRefresh, StartLogoutAll, IInv, TypeOK

\* The initial state satisfies the inductive invariant.
LEMMA InitIInv == Init => IInv
BY DEF Init, IInv, TypeOK, TokensOwned, ClaimsMatchRow, OneCurrentToken, ReadsArePast, HandlerKnows,
       ScopeKnown, OneSuccessorPerToken, OnlySpentTokensRejected, UnauthorizedMeansDead,
       ReplayEvidence, LogoutFinal, Spent, Refreshed, Pending, Answers

\* Every step preserves the inductive invariant.
LEMMA NextIInv == IInv /\ [Next]_vars => IInv'
BY TypePreserved, TokensOwnedPreserved, ClaimsMatchRowPreserved, OneCurrentTokenPreserved,
   ReadsArePastPreserved, HandlerKnowsPreserved, ScopeKnownPreserved, OneSuccessorPreserved,
   OnlySpentPreserved, UnauthorizedPreserved, ReplayEvidencePreserved, LogoutFinalPreserved
   DEF IInv

\* The invariant holds in every reachable state.
THEOREM Invariance == Spec => []IInv
BY InitIInv, NextIInv, PTL DEF Spec

\* Every variable keeps its type; in particular a refresh attempts the
\* conditional revocation at most twice (tries).
THEOREM TypeCorrect == Spec => []TypeOK
<1>1. IInv => TypeOK
  BY DEF IInv
<1> QED  BY <1>1, Invariance, PTL

\* Refresh tokens are one-time-use, however many requests race with one token.
THEOREM SingleUse == Spec => []OneSuccessorPerToken
<1>1. IInv => OneSuccessorPerToken
  BY DEF IInv
<1> QED  BY <1>1, Invariance, PTL

\* A conflict, a replay or an unclassifiable reuse is only ever answered to a
\* token that some other request has exchanged.
THEOREM OnlyReuseIsRejected == Spec => []OnlySpentTokensRejected
<1>1. IInv => OnlySpentTokensRejected
  BY DEF IInv
<1> QED  BY <1>1, Invariance, PTL

\* A stale observation cannot revoke a newer rotation.
THEOREM RevocationHasEvidence == Spec => []ReplayEvidence
<1>1. IInv => ReplayEvidence
  BY DEF IInv
<1> QED  BY <1>1, Invariance, PTL

\* The definitive 401 is never answered about a live session.
THEOREM UnauthorizedIsDefinitive == Spec => []UnauthorizedMeansDead
<1>1. IInv => UnauthorizedMeansDead
  BY DEF IInv
<1> QED  BY <1>1, Invariance, PTL

\* The token a live session accepts is in a client's hands and unspent.
THEOREM NoLockout == Spec => []CurrentTokenUsable
<1>1. IInv => CurrentTokenUsable
  BY DEF IInv, OneCurrentToken, CurrentTokenUsable
<1> QED  BY <1>1, Invariance, PTL

\* Logout and logout-all win every race with refresh.
THEOREM LogoutWins == Spec => []LogoutFinal
<1>1. IInv => LogoutFinal
  BY DEF IInv
<1> QED  BY <1>1, Invariance, PTL

\* No interleaving revives a revoked session or reuses an id.
THEOREM RevocationIsFinal == Spec => RevocationFinal
<1>1. IInv /\ [Next]_vars =>
        [\A s \in Session :
           /\ sessions[s] # None /\ sessions[s].revoked => sessions'[s] \in {sessions[s], None}
           /\ sessions[s] = None /\ (\E t \in issued : t.sid = s) => sessions'[s] = None]_vars
  BY RowSteps
<1> QED  BY <1>1, Invariance, PTL DEF Spec, RevocationFinal

-----------------------------------------------------------------------------
(* The absolute expiry.                                                    *)

\* No API clock is further behind the database's than rows are retained.
SkewWithinRetention == \A k \in Skews : 0 <= k + Retention

\* Only the cleanup removes a row.
LEMMA OnlyCleanupRemoves ==
  ASSUME IInv, [Next]_vars, NEW s \in Session, sessions[s] # None, sessions'[s] = None
  PROVE  Cleanup(s)
<1> USE DEF IInv, TypeOK
<1>1. ASSUME NEW q \in Session, NEW u \in User, NEW k \in Skews, CreateSession(q, u, k)
      PROVE  FALSE
  <2>1. sessions[q] = None /\ q # s
    BY <1>1 DEF CreateSession
  <2> QED  BY <1>1, <2>1 DEF CreateSession
<1>2. ASSUME NEW r \in Request, Rotate(r)
      PROVE  FALSE
  <2>1. CASE Rotates(r)
    <3>1. sessions'[token[r].sid] # None
      BY <2>1, RotatesEffect
    <3>2. s # token[r].sid => sessions'[s] = sessions[s]
      BY <2>1 DEF Rotates, Rotate
    <3> QED  BY <3>1, <3>2
  <2>2. CASE ~Rotates(r)
    BY <1>2, <2>2 DEF Rotates, Rotate
  <2> QED  BY <2>1, <2>2
<1>3. ASSUME NEW r \in Request, RevokeReplay(r)
      PROVE  FALSE
  <2> DEFINE sid == token[r].sid
  <2>1. CASE Revocable(sessions[sid], seen[r], now[r])
    <3>1. sid \in Session /\ sessions[sid] \in Row
      BY <1>3, <2>1 DEF RevokeReplay, Revocable, Rotatable, TokensOwned, Token
    <3>2. [sessions[sid] EXCEPT !.revoked = TRUE] \in Row
      BY <3>1 DEF Row
    <3>3. sessions' = [sessions EXCEPT ![sid] = [sessions[sid] EXCEPT !.revoked = TRUE]]
      BY <1>3, <2>1 DEF RevokeReplay
    <3> QED  BY <3>1, <3>2, <3>3, NoneAssumption
  <2>2. CASE ~Revocable(sessions[sid], seen[r], now[r])
    BY <1>3, <2>2 DEF RevokeReplay
  <2> QED  BY <2>1, <2>2
<1>4. ASSUME NEW S, sessions' = Revoked(S)
      PROVE  FALSE
  BY <1>4, RevokedRows
<1>5. ASSUME NEW q \in Session, Cleanup(q)
      PROVE  q = s
  BY <1>5 DEF Cleanup
<1>6. sessions' # sessions
  OBVIOUS
<1>7. ASSUME NEW r \in Request, Handle(r)
      PROVE  FALSE
  BY <1>2, <1>3, <1>4, <1>6, <1>7 DEF Handle, RevokeAll, FindSession, JudgeSession,
       RereadSession, JudgeReread
<1>8. ASSUME NEW r \in Request, NEW t \in issued, Logout(r, t)
      PROVE  FALSE
  BY <1>4, <1>8 DEF Logout
<1> QED
  BY <1>1, <1>5, <1>6, <1>7, <1>8 DEF Next, vars, StartRefresh, StartLogoutAll, Tick

\* A row goes when every API clock takes it for expired, and until then its
\* expiry stays what it was, however often the session is rotated.
THEOREM ExpiryIsAbsolute ==
  ASSUME SkewWithinRetention
  PROVE  Spec => ExpiryAbsolute
<1>1. ASSUME IInv, Next, NEW s \in Session, sessions[s] # None
      PROVE  IF sessions'[s] = None
             THEN \A k \in Skews : ~Live(s, clock + k)
             ELSE sessions'[s].expiresAt = sessions[s].expiresAt
  <2>1. CASE sessions'[s] # None
    BY <1>1, <2>1, RowSteps
  <2>2. CASE sessions'[s] = None
    <3>1. sessions[s].expiresAt <= clock - Retention
      BY <1>1, <2>2, OnlyCleanupRemoves DEF Cleanup
    <3>2. sessions[s].expiresAt \in Int /\ clock \in Int /\ Retention \in Int /\ Skews \subseteq Int
      BY <1>1, TimeAssumption DEF IInv, TypeOK, Row
    <3>3. ASSUME NEW k \in Skews
          PROVE  ~(sessions[s].expiresAt > clock + k)
      BY <3>1, <3>2 DEF SkewWithinRetention
    <3> QED  BY <2>2, <3>3 DEF Live
  <2> QED  BY <2>1, <2>2
<1>2. IInv /\ [Next]_vars =>
        [\A s \in Session : sessions[s] # None =>
           IF sessions'[s] = None
           THEN \A k \in Skews : ~Live(s, clock + k)
           ELSE sessions'[s].expiresAt = sessions[s].expiresAt]_vars
  BY <1>1
<1> QED  BY <1>2, Invariance, PTL DEF Spec, ExpiryAbsolute

-----------------------------------------------------------------------------
(* The implementation of the contract.                                     *)

\* A request that has not come yet presents no token.
IdleAsksNothing == \A r \in Request : pc[r] = "idle" => token[r] = None

LEMMA IdlePreserved ==
  ASSUME TypeOK, IdleAsksNothing, [Next]_vars
  PROVE  IdleAsksNothing'
<1> SUFFICES ASSUME NEW r \in Request, pc'[r] = "idle"
             PROVE  token'[r] = None
  BY DEF IdleAsksNothing
<1>1. ~Starts(r)
  BY DEF Starts, StartRefresh, Logout, StartLogoutAll, TypeOK
<1>2. ~Handle(r)
  BY DEF Handle, FindSession, JudgeSession, Rotate, RereadSession, JudgeReread, RevokeReplay,
         RevokeAll, AfterClassify, TypeOK
<1> QED  BY <1>1, <1>2, WhoMoves DEF Still, IdleAsksNothing

\* A request that was not answered waits, in the eyes of the contract.
LEMMA Awaited ==
  ASSUME IInv, NEW r \in Request, pc[r] \in Pending
  PROVE  /\ Contract!Waiting(r)
         /\ token[r] \in issued /\ token[r].sid \in Session
<1>1. pc[r] # "idle" /\ pc[r] \notin Answers
  BY DEF Pending, Answers
<1>2. token[r] \in issued /\ token[r] \in Token
  BY <1>1 DEF IInv, TypeOK, TokensOwned
<1>3. token[r] # None /\ token[r].sid \in Session
  BY <1>2, NoneAssumption DEF Token
<1> QED  BY <1>1, <1>2, <1>3 DEF Contract!Waiting, Answered

\* A request gets its answer.
LEMMA AnswerGiven ==
  ASSUME TypeOK, NEW r \in Request, NEW a \in Answers, pc' = [pc EXCEPT ![r] = a]
  PROVE  Contract!Answer(r, a)
BY DEF Contract!Answer, Answered, TypeOK

\* A request goes from one suspension to another.
LEMMA AnswerOpen ==
  ASSUME TypeOK, NEW r \in Request, NEW p, pc' = [pc EXCEPT ![r] = p], p \notin Answers,
         pc[r] \notin Answers
  PROVE  Answered' = Answered
BY DEF Answered, TypeOK

\* Without a rotation no token is spent.
LEMMA SpentStays ==
  ASSUME IInv, [Next]_vars, \A r \in Request : ~Rotates(r)
  PROVE  SpentTokens' = SpentTokens
<1>1. ASSUME NEW t
      PROVE  Spent(t) <=> SpentAfter(t)
  BY SpentSteps DEF IInv
<1>2. ASSUME NEW t, Spent(t)
      PROVE  t \in issued
  BY <1>2 DEF Spent, Refreshed, IInv, TokensOwned
<1>3. issued \subseteq issued'
  <2>1. CASE issued' = issued
    BY <2>1
  <2>2. CASE \E s \in Session, u \in User, k \in Skews : CreateSession(s, u, k)
    BY <2>2 DEF CreateSession
  <2>3. CASE \E r \in Request : Handle(r)
    BY <2>3 DEF Handle, FindSession, JudgeSession, Rotate, Rotates, RereadSession, JudgeReread,
                RevokeReplay, RevokeAll
  <2> QED
    BY <2>1, <2>2, <2>3 DEF Next, vars, StartRefresh, Logout, StartLogoutAll, Cleanup, Tick
<1> QED  BY <1>1, <1>2, <1>3 DEF SpentTokens, Spent, SpentAfter, Refreshed

\* Revoking some sessions closes those of them that are open.
LEMMA RevokedCloses ==
  ASSUME IInv, NEW S \in SUBSET Session, \A s \in S : sessions[s] # None,
         sessions' = Revoked(S), issued' = issued
  PROVE  Contract!Close(S) /\ \A s \in S : Statuses[s] # "unused"
<1>1. ASSUME NEW s \in Session
      PROVE  StatusOf(s)' = IF s \in S THEN "closed" ELSE StatusOf(s)
  BY <1>1, RevokedRows DEF StatusOf, IInv
<1>2. \A s \in S : StatusOf(s) # "unused"
  BY DEF StatusOf
<1> QED  BY <1>1, <1>2 DEF Contract!Close, Statuses

\* The actions one by one.
LEMMA CreateImplements ==
  ASSUME IInv, [Next]_vars, NEW s \in Session, NEW u \in User, NEW k \in Skews, CreateSession(s, u, k)
  PROVE  Contract!Next
<1> DEFINE t == [jti |-> s, sid |-> s, sub |-> u, exp |-> WholeSecond(clock + k + Lifetime)]
           end == clock + k + Lifetime
<1>1. /\ sessions[s] = None
      /\ \A old \in issued : old.sid # s
      /\ issued' = issued \cup {t}
      /\ UNCHANGED <<pc, token>>
      /\ t.sid = s
  BY DEF CreateSession
<1>2. \E row \in Row : ~row.revoked /\ sessions' = [sessions EXCEPT ![s] = row]
  <2>1. t \in Token /\ end \in Int
    BY TimeAssumption, WholeSeconds DEF Token, IInv, TypeOK
  <2>2. PICK at \in {clock, clock + k} :
          sessions' = [sessions EXCEPT ![s] = [user |-> u, hash |-> t, expiresAt |-> end,
                                               lastUsedAt |-> at, revoked |-> FALSE]]
    BY DEF CreateSession
  <2>3. at \in Int
    BY <2>1, TimeAssumption DEF IInv, TypeOK, Token
  <2> HIDE DEF t, end
  <2>4. [user |-> u, hash |-> t, expiresAt |-> end, lastUsedAt |-> at, revoked |-> FALSE] \in Row
    BY <2>1, <2>3 DEF Row
  <2> QED  BY <2>2, <2>4
<1>3. \A r \in Request : ~Rotates(r)
  BY <1>1 DEF Rotates, Rotate, IInv, TypeOK
<1> HIDE DEF t
<1>4. SpentTokens' = SpentTokens
  BY <1>3, SpentStays
<1>5. ASSUME NEW q \in Session
      PROVE  StatusOf(q)' = IF q = s THEN "open" ELSE StatusOf(q)
  BY <1>1, <1>2, NoneAssumption DEF StatusOf, IInv, TypeOK
<1>6. StatusOf(s) = "unused"
  BY <1>1 DEF StatusOf
<1>7. Statuses[t.sid] = "unused" /\ Statuses' = [Statuses EXCEPT ![t.sid] = "open"]
  BY <1>1, <1>5, <1>6 DEF Statuses
<1>8. Contract!Open(t)
  BY <1>1, <1>4, <1>7 DEF Contract!Open, Answered
<1> QED  BY <1>1, <1>8 DEF Contract!Next

\* What every step does that leaves the rows and the tokens alone.
RowsStay == UNCHANGED <<sessions, issued>>

LEMMA RowsStayHidden ==
  ASSUME IInv, [Next]_vars, RowsStay
  PROVE  UNCHANGED <<Statuses, SpentTokens>>
<1>1. ASSUME NEW r \in Request
      PROVE  ~Rotates(r)
  BY RotatesEffect DEF RowsStay
<1> QED  BY <1>1, SpentStays DEF RowsStay, Statuses, StatusOf

\* A request presents a token.
LEMMA PresentImplements ==
  ASSUME IInv, IdleAsksNothing, [Next]_vars, RowsStay, NEW r \in Request, NEW t \in issued, NEW p,
         pc[r] = "idle", token' = [token EXCEPT ![r] = t], pc' = [pc EXCEPT ![r] = p],
         p \in Pending \cup {"unauthorized"}
  PROVE  Contract!Next
<1>1. token[r] = None /\ Answered[r] = "none" /\ UNCHANGED <<Statuses, SpentTokens, issued>>
  BY RowsStayHidden DEF IdleAsksNothing, Answered, Answers, RowsStay
<1>2. CASE p = "unauthorized"
  <2>1. Contract!Answer(r, "unauthorized")
    BY <1>2, AnswerGiven DEF IInv, Answers
  <2>2. Contract!Refuse(r, t)
    BY <1>1, <2>1 DEF Contract!Refuse
  <2> QED  BY <2>2 DEF Contract!Next
<1>3. CASE p \in Pending
  <2>1. Answered' = Answered
    BY <1>3, AnswerOpen DEF IInv, Pending, Answers
  <2>2. Contract!Present(r, t)
    BY <1>1, <2>1 DEF Contract!Present
  <2> QED  BY <2>2 DEF Contract!Next
<1> QED  BY <1>2, <1>3

\* A suspended request looks at what it has read.
LEMMA JudgeImplements ==
  ASSUME IInv, [Next]_vars, RowsStay, NEW r \in Request, NEW p,
         pc[r] \in Pending, token' = token, pc' = [pc EXCEPT ![r] = p],
         p \in Pending \cup {"unauthorized", "conflict", "unavailable"},
         p \in {"conflict", "unavailable"} => Spent(token[r])
  PROVE  Contract!Next \/ UNCHANGED Contract!vars
<1>1. /\ token[r] \in issued /\ Contract!Waiting(r)
      /\ UNCHANGED <<Statuses, SpentTokens, issued>>
  BY Awaited, RowsStayHidden DEF RowsStay
<1>2. CASE p \in Pending
  <2>1. Answered' = Answered
    BY <1>2, AnswerOpen DEF IInv, Pending, Answers
  <2> QED  BY <1>1, <2>1 DEF Contract!vars
<1>3. CASE p = "unauthorized"
  <2>1. Contract!Answer(r, "unauthorized")
    BY <1>3, AnswerGiven DEF IInv, Answers
  <2>2. token' = [token EXCEPT ![r] = token[r]]
    BY DEF IInv, TypeOK
  <2>3. Contract!Refuse(r, token[r])
    BY <1>1, <2>1, <2>2 DEF Contract!Refuse, Contract!Waiting
  <2> QED  BY <1>1, <2>3 DEF Contract!Next
<1>4. CASE p \in {"conflict", "unavailable"}
  <2>1. Contract!Answer(r, p)
    BY <1>4, AnswerGiven DEF IInv, Answers
  <2>2. token[r] \in SpentTokens
    BY <1>1, <1>4 DEF SpentTokens
  <2>3. Contract!TurnAway(r, p)
    BY <1>1, <2>1, <2>2 DEF Contract!TurnAway
  <2> QED  BY <1>4, <2>3 DEF Contract!Next
<1> QED  BY <1>2, <1>3, <1>4

\* A won rotation is the contract's exchange.
LEMMA RotatesImplements ==
  ASSUME IInv, [Next]_vars, NEW r \in Request, Rotates(r)
  PROVE  Contract!Next
<1> DEFINE sid == token[r].sid
           next == Successor(r)
<1>1. /\ sid \in Session
      /\ token[r] = sessions[sid].hash
      /\ token[r] \in issued
      /\ ~sessions[sid].revoked
      /\ sessions[sid] # None /\ sessions'[sid] # None
      /\ issued' = issued \cup {next}
      /\ next \notin issued
      /\ next.sid = sid /\ next.sub = token[r].sub /\ next.exp = token[r].exp
      /\ pc[r] = "rotate"
      /\ pc' = [pc EXCEPT ![r] = "ok"]
      /\ token' = token
  BY RotatesEffect
<1> HIDE DEF next
<1>2. Contract!Waiting(r)
  BY <1>1, Awaited DEF Pending
<1>3. Contract!Answer(r, "ok")
  BY <1>1, AnswerGiven DEF IInv, Answers
<1>4. ~Spent(token[r]) /\ \A o \in issued : o.sid = sid => Spent(o) \/ o = token[r]
  BY <1>1 DEF IInv, OneCurrentToken
<1>5. SpentTokens' = SpentTokens \cup {token[r]}
  <2>1. ASSUME NEW t
        PROVE  SpentAfter(t) <=> Spent(t) \/ t = token[r]
    <3>1. SpentAfter(token[r])
      BY <1>1 DEF SpentAfter, IInv, TypeOK
    <3>2. ASSUME NEW q \in Request, Rotates(q)
          PROVE  q = r
      <4>1. pc[q] = "rotate" /\ pc' = [pc EXCEPT ![q] = "ok"]
        BY <3>2, RotatesEffect
      <4> QED  BY <1>1, <4>1 DEF IInv, TypeOK
    <3> QED  BY <3>1, <3>2, SpentSteps DEF IInv
  <2>2. ASSUME NEW t, Spent(t)
        PROVE  t \in issued
    BY <2>2 DEF Spent, Refreshed, IInv, TokensOwned
  <2> QED  BY <1>1, <2>1, <2>2 DEF SpentTokens, Spent, SpentAfter, Refreshed
<1>6. Statuses' = Statuses
  <2>1. sessions' = [sessions EXCEPT ![sid] =
                       [sessions[sid] EXCEPT !.hash = Successor(r), !.lastUsedAt = now[r]]]
    BY DEF Rotates, Rotate
  <2>2. sessions[sid] \in Row
    BY <1>1, RowTyped DEF IInv
  <2>3. ~sessions'[sid].revoked
    BY <1>1, <2>1, <2>2 DEF Row, IInv, TypeOK
  <2>4. ASSUME NEW s \in Session
        PROVE  StatusOf(s)' = StatusOf(s)
    <3>1. CASE s = sid
      BY <1>1, <2>3, <3>1 DEF StatusOf
    <3>2. CASE s # sid
      <4>1. sessions'[s] = sessions[s]
        BY <2>1, <3>2
      <4>2. \A t \in issued' : t.sid = s => t \in issued
        BY <1>1, <3>2
      <4> QED  BY <1>1, <4>1, <4>2 DEF StatusOf
    <3> QED  BY <3>1, <3>2
  <2> QED  BY <2>4 DEF Statuses
<1>7. Statuses[sid] = "open"
  BY <1>1 DEF Statuses, StatusOf
<1>8. Contract!Exchange(r, next)
  BY <1>1, <1>2, <1>3, <1>4, <1>5, <1>6, <1>7 DEF Contract!Exchange, SpentTokens
<1> QED  BY <1>1, <1>8 DEF Contract!Next

\* A won revocation is the contract's punishment.
LEMMA RevokeImplements ==
  ASSUME IInv, [Next]_vars, NEW r \in Request, RevokeReplay(r),
         Revocable(sessions[token[r].sid], seen[r], now[r])
  PROVE  Contract!Next
<1> DEFINE sid == token[r].sid
<1>1. /\ pc[r] = "revoke" /\ pc' = [pc EXCEPT ![r] = "replay"]
      /\ UNCHANGED <<token, issued>>
      /\ sessions' = [sessions EXCEPT ![sid] = [sessions[sid] EXCEPT !.revoked = TRUE]]
  BY DEF RevokeReplay
<1>2. Contract!Waiting(r) /\ token[r] \in issued /\ sid \in Session
  BY <1>1, Awaited DEF Pending
<1>3. sessions[sid] \in Row /\ sessions[sid] # None /\ ~sessions[sid].revoked
  BY <1>2, RowTyped DEF IInv, Revocable, Rotatable
<1>4. Contract!Close({sid})
  <2>1. [sessions[sid] EXCEPT !.revoked = TRUE] \in Row /\ [sessions[sid] EXCEPT !.revoked = TRUE].revoked
    BY <1>3 DEF Row
  <2>2. ASSUME NEW s \in Session
        PROVE  StatusOf(s)' = IF s \in {sid} THEN "closed" ELSE StatusOf(s)
    BY <1>1, <1>2, <2>1, NoneAssumption DEF StatusOf, IInv, TypeOK
  <2> QED  BY <2>2 DEF Contract!Close, Statuses
<1>5. token[r] \in SpentTokens
  BY <1>1, <1>2 DEF IInv, OnlySpentTokensRejected, SpentTokens
<1>6. \A q \in Request : ~Rotates(q)
  BY <1>1, RotatesEffect
<1>7. SpentTokens' = SpentTokens
  BY <1>6, SpentStays
<1>8. Contract!Answer(r, "replay")
  BY <1>1, AnswerGiven DEF IInv, Answers
<1>9. Statuses[sid] = "open"
  BY <1>2, <1>3 DEF Statuses, StatusOf
<1>10. Contract!Punish(r)
  BY <1>1, <1>2, <1>4, <1>5, <1>7, <1>8, <1>9 DEF Contract!Punish
<1> QED  BY <1>10 DEF Contract!Next

\* A logout closes the sessions that its update covers.
LEMMA LogoutImplements ==
  ASSUME IInv, [Next]_vars, NEW r \in Request, NEW t \in issued, NEW S \in SUBSET Session,
         \A s \in S : sessions[s] # None, sessions[t.sid] # None => t.sid \in S,
         sessions' = Revoked(S), issued' = issued,
         token[r] \in {None, t}, Answered[r] = "none",
         token' = [token EXCEPT ![r] = t], pc' = [pc EXCEPT ![r] = "loggedOut"]
  PROVE  Contract!Next
<1>1. t.sid \in Session
  BY DEF IInv, TypeOK, Token
<1>2. Contract!Close(S) /\ \A s \in S : Statuses[s] # "unused"
  BY RevokedCloses
<1>3. Statuses[t.sid] = "open" => t.sid \in S
  BY <1>1 DEF Statuses, StatusOf
<1>4. \A q \in Request : ~Rotates(q)
  BY RotatesEffect
<1>5. SpentTokens' = SpentTokens
  BY <1>4, SpentStays
<1>6. Contract!Answer(r, "loggedOut")
  BY AnswerGiven DEF IInv, Answers
<1>7. Contract!LogOut(r, t, S)
  BY <1>2, <1>3, <1>5, <1>6 DEF Contract!LogOut
<1> QED  BY <1>7 DEF Contract!Next

\* The removal of a row that is still open is the lapse of its session.
LEMMA CleanupImplements ==
  ASSUME IInv, [Next]_vars, NEW s \in Session, Cleanup(s)
  PROVE  Contract!Next \/ UNCHANGED Contract!vars
<1>1. /\ sessions[s] # None /\ sessions' = [sessions EXCEPT ![s] = None]
      /\ UNCHANGED <<issued, pc, token>>
  BY DEF Cleanup
<1>2. \E t \in issued : t.sid = s
  BY <1>1 DEF IInv, OneCurrentToken
<1>3. ASSUME NEW q \in Session
      PROVE  StatusOf(q)' = IF q = s THEN "closed" ELSE StatusOf(q)
  BY <1>1, <1>2 DEF StatusOf, IInv, TypeOK
<1>4. \A r \in Request : ~Rotates(r)
  BY <1>1 DEF Rotates, Rotate, IInv, TypeOK
<1>5. UNCHANGED <<issued, SpentTokens, token, Answered>>
  BY <1>1, <1>4, SpentStays DEF Answered
<1>6. StatusOf(s) \in {"open", "closed"}
  BY <1>1 DEF StatusOf
<1>7. CASE StatusOf(s) = "closed"
  <2>1. Statuses' = Statuses
    BY <1>3, <1>7 DEF Statuses
  <2> QED  BY <1>5, <2>1 DEF Contract!vars
<1>8. CASE StatusOf(s) = "open"
  <2>1. Contract!Close({s}) /\ Statuses[s] = "open"
    BY <1>3, <1>8 DEF Contract!Close, Statuses
  <2>2. Contract!Lapse(s)
    BY <1>5, <2>1 DEF Contract!Lapse
  <2> QED  BY <2>2 DEF Contract!Next
<1> QED  BY <1>6, <1>7, <1>8

\* A step of a suspended handler.
LEMMA HandleImplements ==
  ASSUME IInv, [Next]_vars, NEW r \in Request, Handle(r)
  PROVE  Contract!Next \/ UNCHANGED Contract!vars
<1>1. CASE FindSession(r) \/ RereadSession(r)
  BY <1>1, JudgeImplements DEF FindSession, RereadSession, RowsStay, Pending
<1>2. CASE JudgeSession(r)
  <2>1. PICK p : pc' = [pc EXCEPT ![r] = p] /\ p = (
          IF Dead(seen[r], token[r], Clock(r)) THEN "unauthorized"
          ELSE IF seen[r].hash = token[r]
          THEN IF Issuable(seen[r].expiresAt, Clock(r)) THEN "rotate" ELSE "unauthorized"
          ELSE AfterClassify(Classify(seen[r].lastUsedAt, Clock(r))))
    BY <1>2 DEF JudgeSession
  <2>2. p \in Pending \cup {"unauthorized", "conflict", "unavailable"}
    BY <2>1 DEF Pending, AfterClassify
  <2>3. pc[r] = "found" /\ UNCHANGED <<token, sessions, issued>>
    BY <1>2 DEF JudgeSession
  <2>4. p \in {"conflict", "unavailable"} => Spent(token[r])
    BY <2>1, <2>3 DEF Dead, IInv, ReadsArePast
  <2>5. RowsStay /\ pc[r] \in Pending /\ token' = token /\ pc' = [pc EXCEPT ![r] = p]
    BY <2>1, <2>3 DEF RowsStay, Pending
  <2> QED  BY <2>2, <2>4, <2>5, JudgeImplements
<1>3. CASE JudgeReread(r)
  <2>1. PICK p : pc' = [pc EXCEPT ![r] = p] /\ p = (
          IF Dead(seen[r], token[r], now[r]) THEN "unauthorized"
          ELSE IF tries[r] = 2 THEN "unavailable"
          ELSE AfterClassify(Classify(seen[r].lastUsedAt, Clock(r))))
    BY <1>3 DEF JudgeReread
  <2>2. p \in Pending \cup {"unauthorized", "conflict", "unavailable"}
    BY <2>1 DEF Pending, AfterClassify
  <2>3. pc[r] = "reseen" /\ UNCHANGED <<token, sessions, issued>>
    BY <1>3 DEF JudgeReread
  <2>4. p \in {"conflict", "unavailable"} => Spent(token[r])
    BY <2>1, <2>3 DEF Dead, IInv, HandlerKnows
  <2>5. RowsStay /\ pc[r] \in Pending /\ token' = token /\ pc' = [pc EXCEPT ![r] = p]
    BY <2>1, <2>3 DEF RowsStay, Pending
  <2> QED  BY <2>2, <2>4, <2>5, JudgeImplements
<1>4. CASE Rotate(r)
  <2>1. CASE ~Rotates(r)
    <3>1. pc[r] = "rotate" /\ pc' = [pc EXCEPT ![r] = "reread"] /\ UNCHANGED <<token, sessions, issued>>
      BY <1>4, <2>1 DEF Rotates, Rotate
    <3> QED  BY <3>1, JudgeImplements DEF RowsStay, Pending
  <2> QED  BY <2>1, RotatesImplements
<1>5. CASE RevokeReplay(r)
  <2>1. CASE ~Revocable(sessions[token[r].sid], seen[r], now[r])
    <3>1. pc[r] = "revoke" /\ pc' = [pc EXCEPT ![r] = "reread"] /\ UNCHANGED <<token, sessions, issued>>
      BY <1>5, <2>1 DEF RevokeReplay
    <3> QED  BY <3>1, JudgeImplements DEF RowsStay, Pending
  <2> QED  BY <1>5, <2>1, RevokeImplements
<1>6. CASE RevokeAll(r)
  <2> DEFINE S == SessionsOf(token[r].sub)
  <2>1. /\ pc[r] = "revokeAll" /\ pc' = [pc EXCEPT ![r] = "loggedOut"]
        /\ sessions' = Revoked(S) /\ UNCHANGED <<token, issued>>
    BY <1>6 DEF RevokeAll
  <2>2. token[r] \in issued /\ Answered[r] = "none" /\ token' = [token EXCEPT ![r] = token[r]]
    BY <2>1, Awaited DEF Contract!Waiting, Pending, IInv, TypeOK
  <2>3. S \in SUBSET Session /\ (\A s \in S : sessions[s] # None)
    BY DEF SessionsOf
  <2>4. sessions[token[r].sid] # None => token[r].sid \in S
    BY <2>1, <2>2, Awaited DEF SessionsOf, IInv, ClaimsMatchRow, Pending
  <2> HIDE DEF S
  <2> QED  BY <2>1, <2>2, <2>3, <2>4, LogoutImplements
<1> QED
  BY <1>1, <1>2, <1>3, <1>4, <1>5, <1>6 DEF Handle

\* Every step of the service is a step of the contract or invisible to it.
LEMMA StepImplements ==
  ASSUME IInv, IdleAsksNothing, [Next]_vars
  PROVE  [Contract!Next]_(Contract!vars)
<1>1. ASSUME NEW s \in Session, NEW u \in User, NEW k \in Skews, CreateSession(s, u, k)
      PROVE  Contract!Next
  BY <1>1, CreateImplements
<1>2. ASSUME NEW r \in Request, NEW t \in issued, NEW k \in Skews,
             StartRefresh(r, t, k) \/ StartLogoutAll(r, t, k)
      PROVE  Contract!Next
  BY <1>2, PresentImplements DEF StartRefresh, StartLogoutAll, RowsStay, Pending
<1>3. ASSUME NEW r \in Request, NEW t \in issued, Logout(r, t)
      PROVE  Contract!Next
  <2> DEFINE S == {s \in Session : s = t.sid /\ sessions[s] # None /\ sessions[s].user = t.sub}
  <2>1. /\ pc[r] = "idle" /\ pc' = [pc EXCEPT ![r] = "loggedOut"] /\ token' = [token EXCEPT ![r] = t]
        /\ sessions' = Revoked(S) /\ issued' = issued
    BY <1>3 DEF Logout
  <2>2. token[r] = None /\ Answered[r] = "none"
    BY <2>1 DEF IdleAsksNothing, Answered, Answers
  <2>3. t.sid \in Session
    BY DEF IInv, TypeOK, Token
  <2>4. sessions[t.sid] # None => t.sid \in S
    BY <2>3 DEF IInv, ClaimsMatchRow
  <2>5. S \in SUBSET Session /\ (\A s \in S : sessions[s] # None)
    OBVIOUS
  <2> HIDE DEF S
  <2> QED  BY <2>1, <2>2, <2>4, <2>5, LogoutImplements
<1>4. ASSUME NEW r \in Request, Handle(r)
      PROVE  Contract!Next \/ UNCHANGED Contract!vars
  BY <1>4, HandleImplements
<1>5. ASSUME NEW s \in Session, Cleanup(s)
      PROVE  Contract!Next \/ UNCHANGED Contract!vars
  BY <1>5, CleanupImplements
<1>6. CASE Tick \/ UNCHANGED vars
  BY <1>6 DEF Tick, vars, Contract!vars, Statuses, StatusOf, SpentTokens, Spent, Refreshed, Answered
<1> QED
  BY <1>1, <1>2, <1>3, <1>4, <1>5, <1>6 DEF Next

\* SessionService, with its suspended handlers, its clocks and its clean-up,
\* answers as if each request were one indivisible step.
THEOREM ImplementsTheContract == Spec => ImplementsContract
<1>1. Init => Contract!Init
  BY DEF Init, Contract!Init, Statuses, StatusOf, SpentTokens, Answered, Answers
<1>2. Init => IdleAsksNothing
  BY DEF Init, IdleAsksNothing
<1>3. IInv /\ IdleAsksNothing /\ [Next]_vars => IdleAsksNothing'
  BY IdlePreserved DEF IInv
<1>4. IInv /\ IdleAsksNothing /\ [Next]_vars => [Contract!Next]_(Contract!vars)
  BY StepImplements
<1> QED
  BY <1>1, <1>2, <1>3, <1>4, Invariance, PTL DEF Spec, ImplementsContract, Contract!Spec
=============================================================================
