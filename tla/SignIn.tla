-------------------------------- MODULE SignIn --------------------------------
(***************************************************************************)
(* How one user comes to have a session and how it ends (server/auth and    *)
(* the handlers under app/api/auth): passwords, login challenges, sessions, *)
(* password resets, an admin who disables the account, and the daily sweep. *)
(* Checking or hashing a password takes an await, after which the request   *)
(* goes on with the user row it read before.                                *)
(*                                                                         *)
(* Sessions age in days.  What expires within minutes (a challenge, a reset *)
(* token) may expire at any moment.                                         *)
(***************************************************************************)
EXTENDS Integers, FiniteSets

CONSTANTS
    Requests,    \* login and reset requests at a time
    Challenges,  \* rows of mfa_challenges
    Sessions,    \* rows of sessions
    MaxAttempts, \* MFA_MAX_ATTEMPTS
    SessionTTL,  \* SESSION_TTL_MS, in days
    IdleTTL,     \* SESSION_IDLE_TTL_MS, in days
    MaxResets    \* bound: how often the password is reset

ASSUME SignInConstants ==
    /\ IsFiniteSet(Requests) /\ IsFiniteSet(Challenges) /\ IsFiniteSet(Sessions)
    /\ MaxAttempts \in Nat
    /\ SessionTTL \in Nat /\ IdleTTL \in Nat
    /\ MaxResets \in Nat

VARIABLES
    status,     \* users.status, or "gone"
    password,   \* which password the user row holds
    mfa,        \* is a second factor enabled?
    token,      \* the last password_reset token
    requests,   \* the requests suspended at an await
    challenges, \* the rows of mfa_challenges
    sessions,   \* the rows of sessions
    swept,      \* did the sweep run today?
    failed,     \* history: wrong codes compared for every challenge
    signIns     \* history: sessions every challenge has opened

userVars == <<status, password, mfa, token>>
historyVars == <<failed, signIns>>
vars == <<userVars, requests, challenges, sessions, swept, historyVars>>

Idle == [at |-> "idle"]

\* A login keeps the row it read; late is history: did a reset end meanwhile?
RequestType ==
    {Idle, [at |-> "resetting"]}
      \cup [at: {"checking"}, password: 0..MaxResets, mfa: BOOLEAN, late: BOOLEAN]

\* password and late are history: the password that was proved.
ChallengeType ==
    [state: {"none", "open", "used"}, attempts: 0..MaxAttempts, expired: BOOLEAN,
     password: 0..MaxResets, late: BOOLEAN]

NoChallenge == [state |-> "none", attempts |-> 0, expired |-> FALSE, password |-> 0,
                late |-> FALSE]

SessionType ==
    [state: {"none", "live", "revoked"}, age: 0..SessionTTL + 2, idle: 0..IdleTTL + 1,
     password: 0..MaxResets, late: BOOLEAN]

NoSession == [state |-> "none", age |-> 0, idle |-> 0, password |-> 0, late |-> FALSE]

Init ==
    /\ status = "active" /\ password = 0 /\ mfa \in BOOLEAN
    /\ token = "none"
    /\ requests = [r \in Requests |-> Idle]
    /\ challenges = [c \in Challenges |-> NoChallenge]
    /\ sessions = [s \in Sessions |-> NoSession]
    /\ swept = FALSE
    /\ failed = [c \in Challenges |-> 0] /\ signIns = [c \in Challenges |-> 0]

-----------------------------------------------------------------------------
(* Helpers *)

\* createSession: a row that is not there yet.
CreateSession(proof) ==
    \E s \in Sessions :
        /\ sessions[s].state = "none"
        /\ sessions' = [sessions EXCEPT ![s] =
             [NoSession EXCEPT !.state = "live", !.password = proof.password,
                               !.late = proof.late]]

\* revokeAllUserSessions
RevokeAll ==
    [s \in Sessions |-> IF sessions[s].state = "live"
                        THEN [sessions[s] EXCEPT !.state = "revoked"] ELSE sessions[s]]

\* invalidateMfaChallenges
InvalidateChallenges ==
    [c \in Challenges |-> IF challenges[c].state = "open"
                          THEN [challenges[c] EXCEPT !.state = "used"] ELSE challenges[c]]

\* getSessionUser: expires_at is not among the columns it reads.
Accepted(s) ==
    /\ sessions[s].state = "live"
    /\ sessions[s].idle <= IdleTTL
    /\ status = "active"

\* findChallenge, and the check of the account that follows it.
Usable(c) ==
    /\ challenges[c].state = "open"
    /\ ~challenges[c].expired
    /\ status = "active"

-----------------------------------------------------------------------------
(* Logging in *)

\* The row is read; only a login with its password is followed further.
BeginLogin(r) ==
    /\ requests[r] = Idle
    /\ status = "active"
    /\ requests' = [requests EXCEPT ![r] =
         [at |-> "checking", password |-> password, mfa |-> mfa, late |-> FALSE]]
    /\ UNCHANGED <<userVars, challenges, sessions, swept, historyVars>>

\* createLoginChallenge uses up the older ones.
OpenChallenge(r) ==
    \E c \in Challenges :
        /\ challenges[c].state = "none"
        /\ challenges' = [InvalidateChallenges EXCEPT ![c] =
             [NoChallenge EXCEPT !.state = "open", !.password = requests[r].password,
                                 !.late = requests[r].late]]

\* The row read before the await decides whether a second factor is asked for.
\* Nothing can be inserted for an account that is gone.
FinishLogin(r) ==
    /\ requests[r].at = "checking"
    /\ status # "gone"
    /\ \/ requests[r].mfa /\ OpenChallenge(r) /\ UNCHANGED sessions
       \/ ~requests[r].mfa /\ CreateSession(requests[r]) /\ UNCHANGED challenges
    /\ requests' = [requests EXCEPT ![r] = Idle]
    /\ UNCHANGED <<userVars, swept, historyVars>>

\* The password is wrong, or the insertion fails.
LoginFails(r) ==
    /\ requests[r].at = "checking"
    /\ requests' = [requests EXCEPT ![r] = Idle]
    /\ UNCHANGED <<userVars, challenges, sessions, swept, historyVars>>

\* Mutant: a new code brings new attempts.
ResendRenews(c) ==
    /\ Usable(c)
    /\ challenges' = [challenges EXCEPT ![c].attempts = 0]
    /\ UNCHANGED <<userVars, requests, sessions, swept, historyVars>>

\* Another code is sent: the challenge gets ten more minutes and keeps its count.
Resend(c) ==
    /\ Usable(c)
    /\ challenges' = [challenges EXCEPT ![c].expired = FALSE]
    /\ UNCHANGED <<userVars, requests, sessions, swept, historyVars>>

ChallengeExpires(c) ==
    /\ challenges[c].state = "open"
    /\ challenges' = [challenges EXCEPT ![c].expired = TRUE]
    /\ UNCHANGED <<userVars, requests, sessions, swept, historyVars>>

\* verifyChallenge with a code that is not compared any more.
LockOut(c) ==
    /\ Usable(c)
    /\ challenges[c].attempts >= MaxAttempts
    /\ challenges' = [challenges EXCEPT ![c].state = "used"]
    /\ UNCHANGED <<userVars, requests, sessions, swept, historyVars>>

WrongCode(c) ==
    /\ Usable(c)
    /\ challenges[c].attempts < MaxAttempts
    /\ challenges' = [challenges EXCEPT ![c].attempts = @ + 1]
    /\ failed' = [failed EXCEPT ![c] = @ + 1]
    /\ UNCHANGED <<userVars, requests, sessions, swept, signIns>>

\* The right code, by mail, from the authenticator or from the recovery codes; it
\* consumes the challenge.
RightCode(c) ==
    /\ Usable(c)
    /\ challenges[c].attempts < MaxAttempts
    /\ challenges' = [challenges EXCEPT ![c].attempts = @ + 1, ![c].state = "used"]
    /\ CreateSession(challenges[c])
    /\ signIns' = [signIns EXCEPT ![c] = @ + 1]
    /\ UNCHANGED <<userVars, requests, swept, failed>>

-----------------------------------------------------------------------------
(* Sessions *)

\* Any request with the session: currentUser touches it.
Use(s) ==
    /\ Accepted(s)
    /\ sessions' = [sessions EXCEPT ![s].idle = 0]
    /\ UNCHANGED <<userVars, requests, challenges, swept, historyVars>>

Logout(s) ==
    /\ Accepted(s)
    /\ sessions' = [sessions EXCEPT ![s].state = "revoked"]
    /\ UNCHANGED <<userVars, requests, challenges, swept, historyVars>>

\* A day passes; the hourly maintenance has swept since the last one.
Older(s) ==
    IF sessions[s].state = "none" THEN sessions[s]
    ELSE [sessions[s] EXCEPT !.age = IF @ > SessionTTL + 1 THEN @ ELSE @ + 1,
                             !.idle = IF @ > IdleTTL THEN @ ELSE @ + 1]

Day ==
    /\ swept
    /\ swept' = FALSE
    /\ sessions' = [s \in Sessions |-> Older(s)]
    /\ UNCHANGED <<userVars, requests, challenges, historyVars>>

\* Mutant: only revoked sessions are removed.
SweptRevoked(s) == sessions[s].state = "revoked"

\* sweepExpiredAuthData: past expires_at, which covers the sessions revoked thirty
\* days ago.
Swept(s) == sessions[s].age > SessionTTL

\* Expired and used challenges go as well, which nobody would find any more.
Sweep ==
    /\ ~swept
    /\ swept' = TRUE
    /\ sessions' = [s \in Sessions |-> IF Swept(s) THEN NoSession ELSE sessions[s]]
    /\ UNCHANGED <<userVars, requests, challenges, historyVars>>

-----------------------------------------------------------------------------
(* The account *)

\* The MFA handler: the password is checked first, the write is one statement.
SetMfa ==
    /\ \E s \in Sessions : Accepted(s)
    /\ mfa' = ~mfa
    /\ UNCHANGED <<status, password, token, requests, challenges, sessions, swept, historyVars>>

RequestReset ==
    /\ status # "gone"
    /\ token' = "open"
    /\ UNCHANGED <<status, password, mfa, requests, challenges, sessions, swept,
                   historyVars>>

TokenExpires ==
    /\ token = "open"
    /\ token' = "used"
    /\ UNCHANGED <<status, password, mfa, requests, challenges, sessions, swept,
                   historyVars>>

\* resetPassword consumes the token and awaits the hash of the new password.
BeginReset(r) ==
    /\ requests[r] = Idle
    /\ token = "open" /\ status # "gone"
    /\ token' = "used"
    /\ requests' = [requests EXCEPT ![r] = [at |-> "resetting"]]
    /\ UNCHANGED <<status, password, mfa, challenges, sessions, swept, historyVars>>

\* Logins under way have read the old row.
Overtaken(r) ==
    [q \in Requests |->
        IF q = r THEN Idle
        ELSE IF requests[q].at = "checking" THEN [requests[q] EXCEPT !.late = TRUE]
        ELSE requests[q]]

\* Mutant: challenges opened with the old password stay usable.
FinishResetKeepsChallenges(r) ==
    /\ requests[r].at = "resetting"
    /\ status # "gone"
    /\ password < MaxResets
    /\ password' = password + 1
    /\ token' = IF token = "open" THEN "used" ELSE token
    /\ sessions' = RevokeAll
    /\ requests' = Overtaken(r)
    /\ UNCHANGED <<status, mfa, challenges, swept, historyVars>>

\* The password is written; tokens, sessions and challenges end.
FinishReset(r) ==
    /\ requests[r].at = "resetting"
    /\ status # "gone"
    /\ password < MaxResets
    /\ password' = password + 1
    /\ token' = IF token = "open" THEN "used" ELSE token
    /\ sessions' = RevokeAll
    /\ challenges' = InvalidateChallenges
    /\ requests' = Overtaken(r)
    /\ UNCHANGED <<status, mfa, swept, historyVars>>

\* The process dies during the hashing, or the account is gone.
ResetFails(r) ==
    /\ requests[r].at = "resetting"
    /\ requests' = [requests EXCEPT ![r] = Idle]
    /\ UNCHANGED <<userVars, challenges, sessions, swept, historyVars>>

\* An admin's PATCH revokes the sessions after it has disabled the account.
Disable ==
    /\ status = "active"
    /\ status' = "disabled"
    /\ sessions' = RevokeAll
    /\ UNCHANGED <<password, mfa, token, requests, challenges, swept, historyVars>>

Enable ==
    /\ status = "disabled"
    /\ status' = "active"
    /\ UNCHANGED <<password, mfa, token, requests, challenges, sessions, swept,
                   historyVars>>

\* The deletion of the account takes all of its rows along.
Delete ==
    /\ status # "gone"
    /\ status' = "gone"
    /\ token' = "none"
    /\ sessions' = [s \in Sessions |-> NoSession]
    /\ challenges' = [c \in Challenges |->
         IF challenges[c].state = "none" THEN challenges[c]
         ELSE [challenges[c] EXCEPT !.state = "used"]]
    /\ UNCHANGED <<password, mfa, requests, swept, historyVars>>

-----------------------------------------------------------------------------
Request(r) ==
    BeginLogin(r) \/ FinishLogin(r) \/ LoginFails(r)
      \/ BeginReset(r) \/ FinishReset(r) \/ ResetFails(r)

Challenge(c) ==
    Resend(c) \/ ChallengeExpires(c) \/ LockOut(c) \/ WrongCode(c) \/ RightCode(c)

Next ==
    \/ \E r \in Requests : Request(r)
    \/ \E c \in Challenges : Challenge(c)
    \/ \E s \in Sessions : Use(s) \/ Logout(s)
    \/ Day \/ Sweep
    \/ SetMfa \/ RequestReset \/ TokenExpires
    \/ Disable \/ Enable \/ Delete

Spec == Init /\ [][Next]_vars

-----------------------------------------------------------------------------
(* Properties *)

TypeOK ==
    /\ status \in {"active", "disabled", "gone"}
    /\ password \in 0..MaxResets
    /\ mfa \in BOOLEAN
    /\ token \in {"none", "open", "used"}
    /\ requests \in [Requests -> RequestType]
    /\ challenges \in [Challenges -> ChallengeType]
    /\ sessions \in [Sessions -> SessionType]
    /\ swept \in BOOLEAN
    /\ failed \in [Challenges -> Nat]
    /\ signIns \in [Challenges -> Nat]

Open(c) == challenges[c].state = "open"

\* README.md:320: a challenge locks out "after 5 failed attempts", however often
\* a code is sent again; it opens one session, and only the last login's
\* challenge is open.
ChallengesHold ==
    /\ \A c \in Challenges : failed[c] <= MaxAttempts
    /\ \A c \in Challenges : signIns[c] <= (IF Open(c) THEN 0 ELSE 1)
    /\ \A b, c \in Challenges : Open(b) /\ Open(c) => b = c

\* Once a password has been reset, only a login that had read the account before
\* the reset ended can still open a session by the old password; every other
\* session and every challenge that rests on it is over.
ResetSignsOut ==
    /\ \A s \in Sessions :
          sessions[s].state = "live" /\ sessions[s].password # password => sessions[s].late
    /\ \A c \in Challenges :
          Open(c) /\ challenges[c].password # password => challenges[c].late

\* A session in constant use ends, a day after its expiry at the latest: it is
\* the sweep that ends it, as getSessionUser looks at the idle time only.
SessionsEnd == \A s \in Sessions : Accepted(s) => sessions[s].age <= SessionTTL + 1
=============================================================================
