----------------------------- MODULE SignInProofs -----------------------------
(***************************************************************************)
(* Proofs about SignIn, for any number of requests, challenges and         *)
(* sessions, any number of attempts and any times to live.                 *)
(***************************************************************************)
EXTENDS SignIn, TLAPS

LEMMA SignInLimits ==
    MaxAttempts \in Nat /\ SessionTTL \in Nat /\ IdleTTL \in Nat /\ MaxResets \in Nat
BY SignInConstants

-----------------------------------------------------------------------------
(* Types *)

\* What the helpers write is a row.
LEMMA NewRows == NoChallenge \in ChallengeType /\ NoSession \in SessionType /\ Idle \in RequestType
<1>1. NoChallenge \in ChallengeType
  BY SignInLimits DEF NoChallenge, ChallengeType
<1>2. NoSession \in SessionType
  BY SignInLimits DEF NoSession, SessionType
<1> QED
  BY <1>1, <1>2 DEF RequestType

LEMMA RevokeAllType == sessions \in [Sessions -> SessionType] => RevokeAll \in [Sessions -> SessionType]
BY DEF RevokeAll, SessionType

LEMMA InvalidateType ==
    challenges \in [Challenges -> ChallengeType] => InvalidateChallenges \in [Challenges -> ChallengeType]
BY DEF InvalidateChallenges, ChallengeType

LEMMA NewSessionType ==
    ASSUME NEW p \in 0..MaxResets, NEW l \in BOOLEAN
    PROVE  [NoSession EXCEPT !.state = "live", !.password = p, !.late = l] \in SessionType
<1>1. ASSUME NEW t \in SessionType
      PROVE  [t EXCEPT !.state = "live", !.password = p, !.late = l] \in SessionType
  BY DEF SessionType
<1> QED
  BY <1>1, NewRows

LEMMA NewChallengeType ==
    ASSUME NEW p \in 0..MaxResets, NEW l \in BOOLEAN
    PROVE  [NoChallenge EXCEPT !.state = "open", !.password = p, !.late = l] \in ChallengeType
<1>1. ASSUME NEW t \in ChallengeType
      PROVE  [t EXCEPT !.state = "open", !.password = p, !.late = l] \in ChallengeType
  BY DEF ChallengeType
<1> QED
  BY <1>1, NewRows

\* A new session, by a proof that is a login or a challenge.
LEMMA CreateSessionType ==
    ASSUME sessions \in [Sessions -> SessionType], NEW proof,
           proof.password \in 0..MaxResets, proof.late \in BOOLEAN, CreateSession(proof)
    PROVE  sessions' \in [Sessions -> SessionType]
<1>1. [NoSession EXCEPT !.state = "live", !.password = proof.password, !.late = proof.late] \in SessionType
  BY NewSessionType
<1> QED
  BY <1>1, Zenon DEF CreateSession

LEMMA OpenChallengeType ==
    ASSUME challenges \in [Challenges -> ChallengeType], NEW r \in Requests,
           requests[r].password \in 0..MaxResets, requests[r].late \in BOOLEAN, OpenChallenge(r)
    PROVE  challenges' \in [Challenges -> ChallengeType]
<1>1. [NoChallenge EXCEPT !.state = "open", !.password = requests[r].password,
                          !.late = requests[r].late] \in ChallengeType
  BY NewChallengeType
<1> QED
  BY <1>1, InvalidateType DEF OpenChallenge

\* A login under way.
LEMMA CheckingType ==
    ASSUME TypeOK, NEW r \in Requests, requests[r].at = "checking"
    PROVE  requests[r] \in [at: {"checking"}, password: 0..MaxResets, mfa: BOOLEAN, late: BOOLEAN]
<1>1. requests[r] \in RequestType
  BY DEF TypeOK
<1> QED
  BY <1>1 DEF RequestType, Idle

LEMMA TypeStep == TypeOK /\ [Next]_vars => TypeOK'
<1> SUFFICES ASSUME TypeOK, [Next]_vars PROVE TypeOK'
  OBVIOUS
<1> USE SignInLimits
<1> USE DEF userVars, historyVars
<1>1. ASSUME NEW r \in Requests, BeginLogin(r) PROVE TypeOK'
  <2>1. [at |-> "checking", password |-> password, mfa |-> mfa, late |-> FALSE] \in RequestType
    BY DEF TypeOK, RequestType
  <2> QED
    BY <1>1, <2>1 DEF BeginLogin, TypeOK
<1>2. ASSUME NEW r \in Requests, FinishLogin(r) PROVE TypeOK'
  <2>1. requests[r] \in [at: {"checking"}, password: 0..MaxResets, mfa: BOOLEAN, late: BOOLEAN]
    BY <1>2, CheckingType DEF FinishLogin
  <2>2. requests' \in [Requests -> RequestType]
    BY <1>2, NewRows DEF FinishLogin, TypeOK
  <2>3. challenges' \in [Challenges -> ChallengeType] /\ sessions' \in [Sessions -> SessionType]
    BY <1>2, <2>1, OpenChallengeType, CreateSessionType DEF FinishLogin, TypeOK
  <2> QED
    BY <1>2, <2>2, <2>3 DEF FinishLogin, TypeOK
<1>3. ASSUME NEW r \in Requests, LoginFails(r) \/ ResetFails(r) PROVE TypeOK'
  <2>1. requests' \in [Requests -> RequestType]
    BY <1>3, NewRows DEF LoginFails, ResetFails, TypeOK
  <2> QED
    BY <1>3, <2>1 DEF LoginFails, ResetFails, TypeOK
<1>4. ASSUME NEW r \in Requests, BeginReset(r) PROVE TypeOK'
  <2>1. [at |-> "resetting"] \in RequestType
    BY DEF RequestType
  <2> QED
    BY <1>4, <2>1 DEF BeginReset, TypeOK
<1>5. ASSUME NEW r \in Requests, FinishReset(r) PROVE TypeOK'
  <2>1. \A q \in Requests : requests[q].at = "checking" => [requests[q] EXCEPT !.late = TRUE] \in RequestType
    BY CheckingType DEF RequestType
  <2>2. requests' \in [Requests -> RequestType]
    BY <1>5, <2>1, NewRows DEF FinishReset, Overtaken, TypeOK
  <2>3. sessions' \in [Sessions -> SessionType] /\ challenges' \in [Challenges -> ChallengeType]
    BY <1>5, RevokeAllType, InvalidateType DEF FinishReset, TypeOK
  <2>4. password' \in 0..MaxResets
    BY <1>5 DEF FinishReset, TypeOK
  <2> QED
    BY <1>5, <2>2, <2>3, <2>4 DEF FinishReset, TypeOK
<1>6. ASSUME NEW c \in Challenges, Resend(c) \/ ChallengeExpires(c) \/ LockOut(c) PROVE TypeOK'
  <2>1. challenges[c] \in ChallengeType
    BY DEF TypeOK
  <2>2. /\ [challenges[c] EXCEPT !.expired = FALSE] \in ChallengeType
        /\ [challenges[c] EXCEPT !.expired = TRUE] \in ChallengeType
        /\ [challenges[c] EXCEPT !.state = "used"] \in ChallengeType
    BY <2>1 DEF ChallengeType
  <2>3. challenges' \in [Challenges -> ChallengeType]
    BY <1>6, <2>2 DEF Resend, ChallengeExpires, LockOut, TypeOK
  <2> QED
    BY <1>6, <2>3 DEF Resend, ChallengeExpires, LockOut, TypeOK
<1>7. ASSUME NEW c \in Challenges, WrongCode(c) PROVE TypeOK'
  <2>1. challenges[c] \in ChallengeType /\ challenges[c].attempts < MaxAttempts
    BY <1>7 DEF TypeOK, WrongCode
  <2>2. [challenges[c] EXCEPT !.attempts = @ + 1] \in ChallengeType
    BY <2>1 DEF ChallengeType
  <2>3. challenges' \in [Challenges -> ChallengeType]
    BY <1>7, <2>2, Zenon DEF WrongCode, TypeOK
  <2>4. failed' \in [Challenges -> Nat]
    BY <1>7 DEF WrongCode, TypeOK
  <2> QED
    BY <1>7, <2>3, <2>4 DEF WrongCode, TypeOK
<1>8. ASSUME NEW c \in Challenges, RightCode(c) PROVE TypeOK'
  <2>1. challenges[c] \in ChallengeType /\ challenges[c].attempts < MaxAttempts
    BY <1>8 DEF TypeOK, RightCode
  <2>2. [challenges[c] EXCEPT !.attempts = @ + 1, !.state = "used"] \in ChallengeType
    <3>1. ASSUME NEW t \in ChallengeType, NEW a \in 0..MaxAttempts
          PROVE  [t EXCEPT !.attempts = a, !.state = "used"] \in ChallengeType
      BY DEF ChallengeType
    <3>2. challenges[c].attempts + 1 \in 0..MaxAttempts
      BY <2>1 DEF ChallengeType
    <3> QED
      BY <2>1, <3>1, <3>2
  <2>3. challenges' \in [Challenges -> ChallengeType] /\ signIns' \in [Challenges -> Nat]
    BY <1>8, <2>2 DEF RightCode, TypeOK
  <2>4. challenges[c].password \in 0..MaxResets /\ challenges[c].late \in BOOLEAN
    BY <2>1 DEF ChallengeType
  <2>5. sessions' \in [Sessions -> SessionType]
    BY <1>8, <2>4, CreateSessionType DEF RightCode, TypeOK
  <2> QED
    BY <1>8, <2>3, <2>5 DEF RightCode, TypeOK
<1>9. ASSUME NEW s \in Sessions, Use(s) \/ Logout(s) PROVE TypeOK'
  <2>1. sessions[s] \in SessionType
    BY DEF TypeOK
  <2>2. [sessions[s] EXCEPT !.idle = 0] \in SessionType /\ [sessions[s] EXCEPT !.state = "revoked"] \in SessionType
    BY <2>1 DEF SessionType
  <2>3. sessions' \in [Sessions -> SessionType]
    BY <1>9, <2>2 DEF Use, Logout, TypeOK
  <2> QED
    BY <1>9, <2>3 DEF Use, Logout, TypeOK
<1>10. CASE Day
  <2>1. \A s \in Sessions : Older(s) \in SessionType
    <3> SUFFICES ASSUME NEW s \in Sessions PROVE Older(s) \in SessionType
      OBVIOUS
    <3>1. sessions[s] \in SessionType
      BY DEF TypeOK
    <3>2. CASE sessions[s].state = "none"
      BY <3>1, <3>2, Zenon DEF Older
    <3>3. CASE sessions[s].state # "none"
      <4>1. ASSUME NEW t \in SessionType, NEW a \in 0..SessionTTL + 2, NEW i \in 0..IdleTTL + 1
            PROVE  [t EXCEPT !.age = a, !.idle = i] \in SessionType
        BY DEF SessionType
      <4> DEFINE a == IF sessions[s].age > SessionTTL + 1 THEN sessions[s].age ELSE sessions[s].age + 1
                 i == IF sessions[s].idle > IdleTTL THEN sessions[s].idle ELSE sessions[s].idle + 1
      <4>2. a \in 0..SessionTTL + 2 /\ i \in 0..IdleTTL + 1
        BY <3>1 DEF SessionType
      <4>3. Older(s) = [sessions[s] EXCEPT !.age = a, !.idle = i]
        BY <3>3, Zenon DEF Older
      <4> HIDE DEF a, i
      <4> QED
        BY <3>1, <4>1, <4>2, <4>3, Zenon
    <3> QED
      BY <3>2, <3>3
  <2> QED
    BY <1>10, <2>1 DEF Day, TypeOK
<1>11. CASE Sweep
  BY <1>11, NewRows DEF Sweep, TypeOK
<1>12. CASE SetMfa \/ RequestReset \/ TokenExpires \/ Enable
  BY <1>12 DEF SetMfa, RequestReset, TokenExpires, Enable, TypeOK
<1>13. CASE Disable
  BY <1>13, RevokeAllType DEF Disable, TypeOK
<1>14. CASE Delete
  <2>1. \A c \in Challenges : [challenges[c] EXCEPT !.state = "used"] \in ChallengeType
    BY DEF TypeOK, ChallengeType
  <2> QED
    BY <1>14, <2>1, NewRows DEF Delete, TypeOK
<1>15. CASE UNCHANGED vars
  BY <1>15 DEF vars, TypeOK
<1> QED
  BY <1>1, <1>2, <1>3, <1>4, <1>5, <1>6, <1>7, <1>8, <1>9, <1>10, <1>11, <1>12, <1>13, <1>14, <1>15
  DEF Next, Request, Challenge

\* Every row keeps its type, and no challenge counts more attempts than it has.
THEOREM SignInTypeCorrect == Spec => []TypeOK
<1>1. ASSUME Init PROVE TypeOK
  <2>1. requests \in [Requests -> RequestType] /\ challenges \in [Challenges -> ChallengeType]
    BY <1>1, NewRows DEF Init
  <2>2. sessions \in [Sessions -> SessionType]
    BY <1>1, NewRows DEF Init
  <2>3. failed \in [Challenges -> Nat] /\ signIns \in [Challenges -> Nat] /\ password \in 0..MaxResets
    BY <1>1, SignInLimits DEF Init
  <2> QED
    BY <1>1, <2>1, <2>2, <2>3, Zenon DEF Init, TypeOK
<1> QED
  BY <1>1, TypeStep, PTL DEF Spec

-----------------------------------------------------------------------------
(* Sessions end *)

\* What a step may do to a session.
LEMMA CreatedSession ==
    ASSUME sessions \in [Sessions -> SessionType], NEW proof, CreateSession(proof),
           NEW s \in Sessions
    PROVE  \/ sessions'[s] = sessions[s]
           \/ /\ sessions'[s].age = 0
              /\ sessions'[s].password = proof.password
              /\ sessions'[s].late = proof.late
<1>1. PICK n \in Sessions : sessions' = [sessions EXCEPT ![n] =
        [NoSession EXCEPT !.state = "live", !.password = proof.password, !.late = proof.late]]
  BY DEF CreateSession
<1>2. CASE s = n
  BY <1>1, <1>2 DEF NoSession
<1>3. CASE s # n
  BY <1>1, <1>3
<1> QED
  BY <1>2, <1>3

\* A day makes a session at most a day older and changes nothing else.
LEMMA OlderRow ==
    ASSUME NEW s \in Sessions, sessions[s] \in SessionType
    PROVE  /\ Older(s).age \in Nat /\ Older(s).age <= sessions[s].age + 1
           /\ Older(s).state = sessions[s].state
           /\ Older(s).password = sessions[s].password
           /\ Older(s).late = sessions[s].late
<1> DEFINE a == IF sessions[s].age > SessionTTL + 1 THEN sessions[s].age ELSE sessions[s].age + 1
           i == IF sessions[s].idle > IdleTTL THEN sessions[s].idle ELSE sessions[s].idle + 1
<1>1. sessions[s].age \in Nat
  BY SignInLimits DEF SessionType
<1>2. CASE sessions[s].state = "none"
  <2>1. Older(s) = sessions[s]
    BY <1>2, Zenon DEF Older
  <2> QED
    BY <1>1, <2>1
<1>3. CASE sessions[s].state # "none"
  <2>1. Older(s) = [sessions[s] EXCEPT !.age = a, !.idle = i]
    BY <1>3, Zenon DEF Older
  <2>2. a \in Nat /\ a <= sessions[s].age + 1
    BY <1>1
  <2> HIDE DEF a, i
  <2>3. ASSUME NEW t \in SessionType
        PROVE  LET n == [t EXCEPT !.age = a, !.idle = i]
               IN  n.age = a /\ n.state = t.state /\ n.password = t.password /\ n.late = t.late
    BY DEF SessionType
  <2> QED
    BY <2>1, <2>2, <2>3
<1> QED
  BY <1>2, <1>3

\* Whatever the sweep has left is at most as old as a session may be, and before
\* it has run at most a day older.
AgeInvariant ==
    \A s \in Sessions :
        /\ sessions[s].age <= SessionTTL + 1
        /\ swept = TRUE => sessions[s].age <= SessionTTL

LEMMA AgeStep == TypeOK /\ AgeInvariant /\ [Next]_vars => AgeInvariant'
<1> SUFFICES ASSUME TypeOK, AgeInvariant, [Next]_vars, NEW s \in Sessions
             PROVE  /\ sessions'[s].age <= SessionTTL + 1
                    /\ swept' = TRUE => sessions'[s].age <= SessionTTL
  BY DEF AgeInvariant
<1> USE SignInLimits
<1> USE DEF userVars, historyVars
<1>t. sessions[s] \in SessionType /\ sessions \in [Sessions -> SessionType] /\ sessions[s].age \in Nat
  BY DEF TypeOK, SessionType
<1>a. sessions[s].age <= SessionTTL + 1 /\ (swept = TRUE => sessions[s].age <= SessionTTL)
  BY DEF AgeInvariant
<1>s. ASSUME swept' = swept, sessions'[s].age = sessions[s].age \/ sessions'[s].age = 0
      PROVE  /\ sessions'[s].age <= SessionTTL + 1
             /\ swept' = TRUE => sessions'[s].age <= SessionTTL
  BY <1>a, <1>s
<1>1. ASSUME NEW r \in Requests, Request(r) PROVE swept' = swept /\ (sessions'[s].age = sessions[s].age \/ sessions'[s].age = 0)
  <2>1. CASE FinishLogin(r)
    BY <2>1, <1>t, CreatedSession DEF FinishLogin
  <2>2. CASE FinishReset(r)
    BY <2>2, <1>t DEF FinishReset, RevokeAll, SessionType
  <2>3. CASE BeginLogin(r) \/ LoginFails(r) \/ BeginReset(r) \/ ResetFails(r)
    BY <2>3 DEF BeginLogin, LoginFails, BeginReset, ResetFails
  <2> QED
    BY <1>1, <2>1, <2>2, <2>3 DEF Request
<1>2. ASSUME NEW c \in Challenges, Challenge(c) PROVE swept' = swept /\ (sessions'[s].age = sessions[s].age \/ sessions'[s].age = 0)
  <2>1. CASE RightCode(c)
    BY <2>1, <1>t, CreatedSession DEF RightCode
  <2>2. CASE Resend(c) \/ ChallengeExpires(c) \/ LockOut(c) \/ WrongCode(c)
    BY <2>2 DEF Resend, ChallengeExpires, LockOut, WrongCode
  <2> QED
    BY <1>2, <2>1, <2>2 DEF Challenge
<1>3. ASSUME NEW z \in Sessions, Use(z) \/ Logout(z) PROVE swept' = swept /\ (sessions'[s].age = sessions[s].age \/ sessions'[s].age = 0)
  BY <1>3, <1>t DEF Use, Logout, SessionType
<1>4. CASE Day
  <2>1. swept = TRUE /\ swept' = FALSE
    BY <1>4 DEF Day, TypeOK
  <2>2. sessions'[s] = Older(s)
    BY <1>4, Zenon DEF Day
  <2>3. sessions'[s].age \in Nat /\ sessions'[s].age <= sessions[s].age + 1
    BY <2>2, <1>t, OlderRow
  <2> QED
    BY <2>1, <2>3, <1>a, <1>t
<1>5. CASE Sweep
  BY <1>5, <1>t DEF Sweep, Swept, NoSession
<1>6. CASE SetMfa \/ RequestReset \/ TokenExpires \/ Enable \/ UNCHANGED vars
  BY <1>6, <1>s DEF SetMfa, RequestReset, TokenExpires, Enable, vars
<1>7. CASE Disable
  <2>1. swept' = swept /\ sessions'[s].age = sessions[s].age
    BY <1>7, <1>t DEF Disable, RevokeAll, SessionType
  <2> QED
    BY <2>1, <1>s
<1>8. CASE Delete
  <2>1. swept' = swept /\ sessions'[s].age = 0
    BY <1>8 DEF Delete, NoSession
  <2> QED
    BY <2>1, <1>s
<1> QED
  BY <1>1, <1>2, <1>3, <1>4, <1>5, <1>6, <1>7, <1>8, <1>s DEF Next

\* However it is used, a session is refused a day after its expiry at the latest.
THEOREM SessionsAreFinite == Spec => []SessionsEnd
<1>1. Init => AgeInvariant
  BY SignInLimits DEF Init, AgeInvariant, NoSession
<1>2. AgeInvariant => SessionsEnd
  BY DEF AgeInvariant, SessionsEnd
<1> QED
  BY <1>1, <1>2, AgeStep, SignInTypeCorrect, PTL DEF Spec

-----------------------------------------------------------------------------
(* Challenges hold *)

\* The wrong codes are among the attempts counted, a challenge is used up by the
\* session it opens, and opening one uses up the others.
ChallengeInvariant ==
    /\ \A c \in Challenges :
          /\ failed[c] <= challenges[c].attempts
          /\ challenges[c].state = "none" => failed[c] = 0
          /\ signIns[c] <= 1
          /\ challenges[c].state # "used" => signIns[c] = 0
    /\ \A b, c \in Challenges : Open(b) /\ Open(c) => b = c

\* A step that closes challenges at most.
LEMMA NothingOpened ==
    ASSUME ChallengeInvariant, UNCHANGED historyVars,
           \A c \in Challenges : /\ challenges'[c].attempts = challenges[c].attempts
                                 /\ \/ challenges'[c].state = challenges[c].state
                                    \/ challenges[c].state # "none" /\ challenges'[c].state = "used"
    PROVE  ChallengeInvariant'
BY DEF ChallengeInvariant, Open, historyVars

LEMMA OpenedChallenge ==
    ASSUME challenges \in [Challenges -> ChallengeType], ChallengeInvariant, UNCHANGED historyVars,
           NEW r \in Requests, OpenChallenge(r)
    PROVE  ChallengeInvariant'
<1>1. PICK n \in Challenges :
        /\ challenges[n].state = "none"
        /\ challenges' = [InvalidateChallenges EXCEPT ![n] =
             [NoChallenge EXCEPT !.state = "open", !.password = requests[r].password,
                                 !.late = requests[r].late]]
  BY DEF OpenChallenge
<1>2. challenges'[n].state = "open" /\ challenges'[n].attempts = 0
  BY <1>1 DEF NoChallenge, InvalidateChallenges
<1>3. ASSUME NEW c \in Challenges, c # n
      PROVE  /\ challenges'[c].attempts = challenges[c].attempts
             /\ challenges'[c].state = IF challenges[c].state = "open" THEN "used" ELSE challenges[c].state
  BY <1>1, <1>3 DEF InvalidateChallenges, ChallengeType
<1> QED
  BY <1>1, <1>2, <1>3 DEF ChallengeInvariant, Open, historyVars

LEMMA ChallengeStep == TypeOK /\ ChallengeInvariant /\ [Next]_vars => ChallengeInvariant'
<1> SUFFICES ASSUME TypeOK, ChallengeInvariant, [Next]_vars PROVE ChallengeInvariant'
  OBVIOUS
<1>t. /\ challenges \in [Challenges -> ChallengeType]
      /\ failed \in [Challenges -> Nat] /\ signIns \in [Challenges -> Nat]
      /\ \A c \in Challenges : challenges[c].attempts \in Nat
  BY SignInLimits DEF TypeOK, ChallengeType
<1>1. ASSUME NEW r \in Requests, FinishLogin(r) PROVE ChallengeInvariant'
  BY <1>1, <1>t, OpenedChallenge, NothingOpened DEF FinishLogin
<1>2. ASSUME NEW r \in Requests, FinishReset(r) PROVE ChallengeInvariant'
  <2>1. \A c \in Challenges : /\ challenges'[c].attempts = challenges[c].attempts
                              /\ \/ challenges'[c].state = challenges[c].state
                                 \/ challenges[c].state # "none" /\ challenges'[c].state = "used"
    BY <1>2, <1>t DEF FinishReset, InvalidateChallenges, ChallengeType
  <2> QED
    BY <1>2, <2>1, NothingOpened DEF FinishReset
<1>3. ASSUME NEW c \in Challenges, Resend(c) \/ ChallengeExpires(c) \/ LockOut(c) PROVE ChallengeInvariant'
  <2>1. \A b \in Challenges : /\ challenges'[b].attempts = challenges[b].attempts
                              /\ \/ challenges'[b].state = challenges[b].state
                                 \/ challenges[b].state # "none" /\ challenges'[b].state = "used"
    BY <1>3, <1>t DEF Resend, ChallengeExpires, LockOut, Usable, ChallengeType
  <2> QED
    BY <1>3, <2>1, NothingOpened DEF Resend, ChallengeExpires, LockOut
<1>4. ASSUME NEW c \in Challenges, WrongCode(c) PROVE ChallengeInvariant'
  <2>1. /\ challenges'[c].attempts = challenges[c].attempts + 1 /\ failed'[c] = failed[c] + 1
        /\ challenges[c].state = "open"
    BY <1>4, <1>t DEF WrongCode, Usable, ChallengeType
  <2>2. \A b \in Challenges : challenges'[b].state = challenges[b].state
    BY <1>4, <1>t DEF WrongCode, ChallengeType
  <2>3. \A b \in Challenges \ {c} : challenges'[b] = challenges[b] /\ failed'[b] = failed[b]
    BY <1>4, <1>t DEF WrongCode
  <2>4. signIns' = signIns
    BY <1>4 DEF WrongCode
  <2> QED
    BY <2>1, <2>2, <2>3, <2>4, <1>t DEF ChallengeInvariant, Open
<1>5. ASSUME NEW c \in Challenges, RightCode(c) PROVE ChallengeInvariant'
  <2>1. ASSUME NEW t \in ChallengeType, NEW a
        PROVE  [t EXCEPT !.attempts = a, !.state = "used"].attempts = a
                 /\ [t EXCEPT !.attempts = a, !.state = "used"].state = "used"
    BY DEF ChallengeType
  <2>2. /\ challenges'[c].attempts = challenges[c].attempts + 1 /\ challenges'[c].state = "used"
        /\ signIns'[c] = signIns[c] + 1 /\ challenges[c].state = "open"
    BY <1>5, <1>t, <2>1 DEF RightCode, Usable
  <2>3. \A b \in Challenges \ {c} : challenges'[b] = challenges[b] /\ signIns'[b] = signIns[b]
    BY <1>5, <1>t DEF RightCode
  <2>4. failed' = failed
    BY <1>5 DEF RightCode
  <2> QED
    BY <2>2, <2>3, <2>4, <1>t DEF ChallengeInvariant, Open
<1>6. CASE Delete
  <2>1. \A c \in Challenges : /\ challenges'[c].attempts = challenges[c].attempts
                              /\ \/ challenges'[c].state = challenges[c].state
                                 \/ challenges[c].state # "none" /\ challenges'[c].state = "used"
    BY <1>6, <1>t DEF Delete, ChallengeType
  <2> QED
    BY <1>6, <2>1, NothingOpened DEF Delete
<1>7. ASSUME NEW r \in Requests, BeginLogin(r) \/ LoginFails(r) \/ BeginReset(r) \/ ResetFails(r)
      PROVE  ChallengeInvariant'
  BY <1>7, NothingOpened DEF BeginLogin, LoginFails, BeginReset, ResetFails
<1>8. ASSUME NEW s \in Sessions, Use(s) \/ Logout(s) PROVE ChallengeInvariant'
  BY <1>8, NothingOpened DEF Use, Logout
<1>9. CASE Day \/ Sweep \/ SetMfa \/ RequestReset \/ TokenExpires \/ Disable \/ Enable \/ UNCHANGED vars
  BY <1>9, NothingOpened DEF Day, Sweep, SetMfa, RequestReset, TokenExpires, Disable, Enable, vars, historyVars
<1> QED
  BY <1>1, <1>2, <1>3, <1>4, <1>5, <1>6, <1>7, <1>8, <1>9 DEF Next, Request, Challenge

\* However codes are guessed and sent again: no challenge compares more than its
\* attempts or opens two sessions, and one at most is open.
THEOREM ChallengesAreBounded == Spec => []ChallengesHold
<1>1. Init => ChallengeInvariant
  BY DEF Init, ChallengeInvariant, Open, NoChallenge
<1>2. TypeOK /\ ChallengeInvariant => ChallengesHold
  BY SignInLimits DEF TypeOK, ChallengeType, ChallengeInvariant, ChallengesHold, Open
<1> QED
  BY <1>1, <1>2, ChallengeStep, SignInTypeCorrect, PTL DEF Spec

-----------------------------------------------------------------------------
(* A reset signs out *)

\* A reset marks the logins that have read the row before; what they still open
\* keeps the mark.
OldProofs ==
    /\ \A r \in Requests :
          requests[r].at = "checking" /\ requests[r].password # password => requests[r].late = TRUE
    /\ \A c \in Challenges :
          Open(c) /\ challenges[c].password # password => challenges[c].late = TRUE
    /\ \A s \in Sessions :
          sessions[s].state = "live" /\ sessions[s].password # password => sessions[s].late = TRUE

LEMMA OpenedChallengeRow ==
    ASSUME challenges \in [Challenges -> ChallengeType], NEW r \in Requests, OpenChallenge(r),
           NEW c \in Challenges, challenges'[c].state = "open"
    PROVE  challenges'[c].password = requests[r].password /\ challenges'[c].late = requests[r].late
<1>1. PICK n \in Challenges :
        challenges' = [InvalidateChallenges EXCEPT ![n] =
             [NoChallenge EXCEPT !.state = "open", !.password = requests[r].password,
                                 !.late = requests[r].late]]
  BY DEF OpenChallenge
<1>2. CASE c = n
  BY <1>1, <1>2 DEF NoChallenge, InvalidateChallenges
<1>3. CASE c # n
  BY <1>1, <1>3 DEF InvalidateChallenges, ChallengeType
<1> QED
  BY <1>2, <1>3

\* A step that resets no password: no login is marked anew, and the rows that are
\* open or live were so before.
LEMMA NothingProved ==
    ASSUME OldProofs, password' = password, requests' = requests,
           \A c \in Challenges : challenges'[c].state = "open" =>
               /\ Open(c)
               /\ challenges'[c].password = challenges[c].password
               /\ challenges'[c].late = challenges[c].late,
           \A s \in Sessions : sessions'[s].state = "live" =>
               /\ sessions[s].state = "live"
               /\ sessions'[s].password = sessions[s].password
               /\ sessions'[s].late = sessions[s].late
    PROVE  OldProofs'
BY DEF OldProofs, Open

LEMMA ProofStep == TypeOK /\ OldProofs /\ [Next]_vars => OldProofs'
<1> SUFFICES ASSUME TypeOK, OldProofs, [Next]_vars PROVE OldProofs'
  OBVIOUS
<1> USE DEF userVars, historyVars
<1>t. /\ challenges \in [Challenges -> ChallengeType] /\ sessions \in [Sessions -> SessionType]
      /\ requests \in [Requests -> RequestType]
  BY DEF TypeOK
<1>1. ASSUME NEW r \in Requests, BeginLogin(r) PROVE OldProofs'
  <2>1. requests'[r].at = "checking" => requests'[r].password = password
    BY <1>1, <1>t DEF BeginLogin
  <2>2. \A q \in Requests \ {r} : requests'[q] = requests[q]
    BY <1>1, <1>t DEF BeginLogin
  <2> QED
    BY <1>1, <2>1, <2>2 DEF BeginLogin, OldProofs, Open
<1>2. ASSUME NEW r \in Requests, FinishLogin(r) PROVE OldProofs'
  <2>1. \A q \in Requests : requests'[q].at = "checking" => requests'[q] = requests[q]
    BY <1>2, <1>t DEF FinishLogin, Idle
  <2>2. requests[r].password # password => requests[r].late = TRUE
    BY <1>2 DEF FinishLogin, OldProofs
  <2>3. password' = password
    BY <1>2 DEF FinishLogin
  <2>4. CASE OpenChallenge(r) /\ sessions' = sessions
    BY <2>1, <2>2, <2>3, <2>4, <1>t, OpenedChallengeRow DEF OldProofs, Open
  <2>5. CASE CreateSession(requests[r]) /\ challenges' = challenges
    <3>1. ASSUME NEW s \in Sessions
          PROVE  \/ sessions'[s] = sessions[s]
                 \/ sessions'[s].password = requests[r].password /\ sessions'[s].late = requests[r].late
      BY <2>5, <1>t, CreatedSession
    <3> QED
      BY <2>1, <2>2, <2>3, <2>5, <3>1 DEF OldProofs, Open
  <2> QED
    BY <1>2, <2>4, <2>5 DEF FinishLogin
<1>3. ASSUME NEW r \in Requests, LoginFails(r) \/ BeginReset(r) \/ ResetFails(r) PROVE OldProofs'
  <2>1. \A q \in Requests : requests'[q].at = "checking" => requests'[q] = requests[q]
    BY <1>3, <1>t DEF LoginFails, BeginReset, ResetFails, Idle
  <2> QED
    BY <1>3, <2>1 DEF LoginFails, BeginReset, ResetFails, OldProofs, Open
<1>4. ASSUME NEW r \in Requests, FinishReset(r) PROVE OldProofs'
  <2>1. \A q \in Requests : requests'[q].at = "checking" => requests'[q].late = TRUE
    <3>1. \A q \in Requests : requests[q].at = "checking" => [requests[q] EXCEPT !.late = TRUE].late = TRUE
      BY CheckingType
    <3> QED
      BY <1>4, <3>1 DEF FinishReset, Overtaken, Idle
  <2>2. \A c \in Challenges : challenges'[c].state # "open"
    BY <1>4, <1>t DEF FinishReset, InvalidateChallenges, ChallengeType
  <2>3. \A s \in Sessions : sessions'[s].state # "live"
    BY <1>4, <1>t DEF FinishReset, RevokeAll, SessionType
  <2> QED
    BY <2>1, <2>2, <2>3 DEF OldProofs, Open
<1>5. ASSUME NEW c \in Challenges, Challenge(c) PROVE OldProofs'
  <2>1. \A b \in Challenges : challenges'[b].state = "open" =>
               /\ Open(b)
               /\ challenges'[b].password = challenges[b].password
               /\ challenges'[b].late = challenges[b].late
    <3>1. ASSUME NEW t \in ChallengeType, NEW a
          PROVE  [t EXCEPT !.attempts = a, !.state = "used"].state = "used"
      BY DEF ChallengeType
    <3>2. ASSUME RightCode(c), NEW b \in Challenges, challenges'[b].state = "open"
          PROVE  challenges'[b] = challenges[b]
      BY <3>1, <3>2, <1>t DEF RightCode
    <3>3. CASE RightCode(c)
      BY <3>2, <3>3 DEF Open
    <3>4. CASE Resend(c) \/ ChallengeExpires(c) \/ LockOut(c) \/ WrongCode(c)
      BY <3>4, <1>t DEF Resend, ChallengeExpires, LockOut, WrongCode, ChallengeType, Open
    <3> QED
      BY <1>5, <3>3, <3>4 DEF Challenge
  <2>2. password' = password /\ requests' = requests
    BY <1>5 DEF Challenge, Resend, ChallengeExpires, LockOut, WrongCode, RightCode
  <2>3. CASE sessions' = sessions
    BY <2>1, <2>2, <2>3, NothingProved
  <2>4. CASE RightCode(c)
    <3>1. ASSUME NEW s \in Sessions
          PROVE  \/ sessions'[s] = sessions[s]
                 \/ sessions'[s].password = challenges[c].password /\ sessions'[s].late = challenges[c].late
      BY <2>4, <1>t, CreatedSession DEF RightCode
    <3>2. challenges[c].password # password => challenges[c].late = TRUE
      BY <2>4 DEF RightCode, Usable, OldProofs, Open
    <3> QED
      BY <2>1, <2>2, <3>1, <3>2 DEF OldProofs, Open
  <2> QED
    BY <1>5, <2>3, <2>4 DEF Challenge, Resend, ChallengeExpires, LockOut, WrongCode
<1>6. ASSUME NEW s \in Sessions, Use(s) \/ Logout(s) PROVE OldProofs'
  <2>1. \A z \in Sessions : sessions'[z].state = "live" =>
               /\ sessions[z].state = "live"
               /\ sessions'[z].password = sessions[z].password
               /\ sessions'[z].late = sessions[z].late
    BY <1>6, <1>t DEF Use, Logout, SessionType
  <2> QED
    BY <1>6, <2>1, NothingProved DEF Use, Logout, Open
<1>7. CASE Day
  <2>1. \A z \in Sessions : sessions'[z] = Older(z)
    BY <1>7, Zenon DEF Day
  <2>2. \A z \in Sessions : sessions'[z].state = "live" =>
               /\ sessions[z].state = "live"
               /\ sessions'[z].password = sessions[z].password
               /\ sessions'[z].late = sessions[z].late
    BY <2>1, <1>t, OlderRow
  <2> QED
    BY <1>7, <2>2, NothingProved DEF Day, Open
<1>8. CASE Sweep
  <2>1. \A z \in Sessions : sessions'[z].state = "live" => sessions'[z] = sessions[z]
    BY <1>8, <1>t DEF Sweep, NoSession
  <2> QED
    BY <1>8, <2>1, NothingProved DEF Sweep, Open
<1>9. CASE Disable
  <2>1. \A z \in Sessions : sessions'[z].state # "live"
    BY <1>9, <1>t DEF Disable, RevokeAll, SessionType
  <2> QED
    BY <1>9, <2>1, NothingProved DEF Disable, Open
<1>10. CASE Delete
  <2>1. \A z \in Sessions : sessions'[z].state # "live"
    BY <1>10 DEF Delete, NoSession
  <2>2. \A c \in Challenges : challenges'[c].state # "open"
    BY <1>10, <1>t DEF Delete, ChallengeType
  <2> QED
    BY <1>10, <2>1, <2>2, NothingProved DEF Delete
<1>11. CASE SetMfa \/ RequestReset \/ TokenExpires \/ Enable \/ UNCHANGED vars
  BY <1>11, NothingProved DEF SetMfa, RequestReset, TokenExpires, Enable, vars, Open
<1> QED
  BY <1>1, <1>2, <1>3, <1>4, <1>5, <1>6, <1>7, <1>8, <1>9, <1>10, <1>11 DEF Next, Request

\* After a reset nothing but a login that was already under way can be signed in
\* by the old password.
THEOREM ResetEndsTheRest == Spec => []ResetSignsOut
<1>1. Init => OldProofs
  BY DEF Init, OldProofs, Open, NoChallenge, NoSession, Idle
<1>2. OldProofs => ResetSignsOut
  BY DEF OldProofs, ResetSignsOut
<1> QED
  BY <1>1, <1>2, ProofStep, SignInTypeCorrect, PTL DEF Spec
=============================================================================
