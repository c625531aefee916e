---------------------------- MODULE AuthSessions ----------------------------
(***************************************************************************)
(* Logins with their lockout, sessions (one access and one refresh token   *)
(* per user), logout, password recovery and change.  Every request is a    *)
(* process that reads and writes the user's rows in statements of its own; *)
(* of its control flow this module keeps the order of the statements that  *)
(* write and what each of them took from an earlier read.                  *)
(***************************************************************************)
EXTENDS Integers, FiniteSets

CONSTANTS Users, Requests, Passwords,
          MAX_FAILED_ATTEMPTS,
          MaxPairs,        \* bound on the token pairs issued
          MaxRecoveries,   \* bound on the recovery mails sent
          MaxResets,       \* bound on the passwords set by recovery
          NoUser, NoPassword

ASSUME AttemptsAssumption == MAX_FAILED_ATTEMPTS \in Nat \ {0}
ASSUME RequestsAssumption == IsFiniteSet(Requests)
ASSUME BoundsAssumption ==
    MaxPairs \in Nat /\ MaxRecoveries \in Nat /\ MaxResets \in Nat
ASSUME NothingAssumption == NoUser \notin Users /\ NoPassword \notin Passwords

VARIABLES
    account,    \* the columns of USERS that count here
    access,     \* ACCESS_TOKENS: at most one row per user
    refresh,    \* REFRESH_TOKENS: likewise
    recovery,   \* PASSWORD_RESET_TOKENS: likewise
    req,        \* what each request is doing
    pairs,      \* token pairs issued so far: names the fresh ones
    mails,      \* recovery tokens issued so far
    setBy,      \* for the record: passwords of a user set by recovery so far, and
    revoked,    \* the last of them whose request has revoked the sessions;
    guesses     \* failures counted of a user since a right password, a new one or the
                \* end of the lockout window, whichever came last

vars == <<account, access, refresh, recovery, req, pairs, mails, setBy, revoked, guesses>>

\* recent: last_failed_attempt_at is less than the lockout window ago.
\* legacy: the hash was made with an older algorithm.
Account == [password : Passwords, legacy : BOOLEAN, attempts : Nat, recent : BOOLEAN]

\* pair is 0 when there is no row; live, that it has not expired.  For the record:
\* opened is the value of setBy when the login behind the session read the password,
\* issued its value when the token was written.
Token == [pair : Nat, live : BOOLEAN, opened : Nat, issued : Nat]
NoToken == [pair |-> 0, live |-> FALSE, opened |-> 0, issued |-> 0]

RecoveryToken == [id : Nat, usable : BOOLEAN]

Steps == {"idle", "clearExpired", "countFailure", "rehash", "clearAttempts", "rotate",
          "setPassword", "markUsed", "deleteAccess", "deleteRefresh"}
Ops == {"none", "login", "refresh", "logout", "reset", "change"}

\* matched, legacy: what password_verify and password_needs_rehash said of the hash
\* that was read.
Request == [op : Ops, step : Steps, user : Users \cup {NoUser},
            given : Passwords \cup {NoPassword}, matched : BOOLEAN, legacy : BOOLEAN,
            opened : Nat, token : Nat]

Idle == [op |-> "none", step |-> "idle", user |-> NoUser, given |-> NoPassword,
         matched |-> FALSE, legacy |-> FALSE, opened |-> 0, token |-> 0]

Init ==
    /\ account \in [Users -> [password : Passwords, legacy : BOOLEAN,
                              attempts : {0}, recent : {FALSE}]]
    /\ access = [u \in Users |-> NoToken]
    /\ refresh = [u \in Users |-> NoToken]
    /\ recovery = [u \in Users |-> [id |-> 0, usable |-> FALSE]]
    /\ req = [r \in Requests |-> Idle]
    /\ pairs = 0
    /\ mails = 0
    /\ setBy = [u \in Users |-> 0]
    /\ revoked = [u \in Users |-> 0]
    /\ guesses = [u \in Users |-> 0]

-----------------------------------------------------------------------------
tokens == <<access, refresh, pairs>>
record == <<setBy, revoked, guesses>>

user(r) == req[r].user
At(r, step) == req[r].step = step
Start(r, rec) == At(r, "idle") /\ req' = [req EXCEPT ![r] = rec]
Goto(r, step) == req' = [req EXCEPT ![r].step = step]
End(r) == req' = [req EXCEPT ![r] = Idle]

Locked(u) == account[u].attempts >= MAX_FAILED_ATTEMPTS
lockoutExpired(u) == ~account[u].recent

\* What a login does once the row it read is not, or no longer, locked.
AfterVerification(rec) ==
    IF ~rec.matched THEN "countFailure"
    ELSE IF rec.legacy THEN "rehash" ELSE "clearAttempts"

-----------------------------------------------------------------------------
(* POST /auth/login.  A user that is not found, inactive or locked ends the  *)
(* request before it writes anything.                                        *)

LoginRead(r, u, password) ==
    [Idle EXCEPT !.op = "login", !.user = u, !.given = password,
                 !.matched = (account[u].password = password),
                 !.legacy = account[u].legacy, !.opened = setBy[u]]

\* Variant: the lock is not looked at.
login_NoLock(r, u, password) ==
    LET rec == LoginRead(r, u, password)
    IN  /\ Start(r, [rec EXCEPT !.step = AfterVerification(rec)])
        /\ UNCHANGED <<account, tokens, recovery, mails, record>>

\* findByEmail, the test of the lock and password_verify on the hash it returned.
login(r, u, password) ==
    LET rec == LoginRead(r, u, password)
    IN  /\ Locked(u) => lockoutExpired(u)
        /\ Start(r, [rec EXCEPT !.step = IF Locked(u) THEN "clearExpired"
                                         ELSE AfterVerification(rec)])
        /\ UNCHANGED <<account, tokens, recovery, mails, record>>

\* resetFailedAttempts, before the verification of a lock that is over.
ClearExpiredLock(r) ==
    /\ At(r, "clearExpired")
    /\ account' = [account EXCEPT ![user(r)].attempts = 0]
    /\ Goto(r, AfterVerification(req[r]))
    /\ UNCHANGED <<tokens, recovery, mails, record>>

\* Variant: the time of the failure is not written.
incrementFailedAttempts_NoTime(r) ==
    /\ At(r, "countFailure")
    /\ account' = [account EXCEPT ![user(r)].attempts = @ + 1]
    /\ guesses' = [guesses EXCEPT ![user(r)] = @ + 1]
    /\ End(r)
    /\ UNCHANGED <<tokens, recovery, mails, setBy, revoked>>

\* The counter and the time of the failure, in one UPDATE.
incrementFailedAttempts(r) ==
    /\ At(r, "countFailure")
    /\ account' = [account EXCEPT ![user(r)].attempts = @ + 1, ![user(r)].recent = TRUE]
    /\ guesses' = [guesses EXCEPT ![user(r)] = @ + 1]
    /\ End(r)
    /\ UNCHANGED <<tokens, recovery, mails, setBy, revoked>>

\* Writes the hash of the password that was given, whatever the row holds by now.
updatePasswordHashById(r) ==
    /\ At(r, "rehash")
    /\ account' = [account EXCEPT ![user(r)].password = req[r].given, ![user(r)].legacy = FALSE]
    /\ Goto(r, "clearAttempts")
    /\ UNCHANGED <<tokens, recovery, mails, record>>

resetFailedAttempts(r) ==
    /\ At(r, "clearAttempts")
    /\ account' = [account EXCEPT ![user(r)].attempts = 0]
    /\ guesses' = [guesses EXCEPT ![user(r)] = 0]
    /\ Goto(r, "rotate")
    /\ UNCHANGED <<tokens, recovery, mails, setBy, revoked>>

-----------------------------------------------------------------------------
(* Sessions *)

\* Variant: the user of the token is not taken over.
refreshTokens_NoUser(r, u) ==
    /\ refresh[u].live
    /\ Start(r, [Idle EXCEPT !.op = "refresh", !.step = "rotate",
                             !.opened = refresh[u].opened])
    /\ UNCHANGED <<account, tokens, recovery, mails, record>>

\* POST /auth/refresh: findValidRefreshToken.
refreshTokens(r, u) ==
    /\ refresh[u].live
    /\ Start(r, [Idle EXCEPT !.op = "refresh", !.step = "rotate", !.user = u,
                             !.opened = refresh[u].opened])
    /\ UNCHANGED <<account, tokens, recovery, mails, record>>

NewToken(r) == [pair |-> pairs + 1, live |-> TRUE, opened |-> req[r].opened,
                issued |-> setBy[user(r)]]

\* Variant: the access token is committed by itself, the refresh token may fail.
rotateTokensAtomic_TwoCommits(r) ==
    /\ At(r, "rotate") /\ pairs < MaxPairs
    /\ pairs' = pairs + 1
    /\ access' = [access EXCEPT ![user(r)] = NewToken(r)]
    /\ refresh' \in {refresh, [refresh EXCEPT ![user(r)] = NewToken(r)]}
    /\ End(r)
    /\ UNCHANGED <<account, recovery, mails, record>>

\* The two MERGEs commit together.  They do not look at the row they replace.
rotateTokensAtomic(r) ==
    /\ At(r, "rotate") /\ pairs < MaxPairs
    /\ pairs' = pairs + 1
    /\ access' = [access EXCEPT ![user(r)] = NewToken(r)]
    /\ refresh' = [refresh EXCEPT ![user(r)] = NewToken(r)]
    /\ End(r)
    /\ UNCHANGED <<account, recovery, mails, record>>

\* POST /auth/logout: requireAuth, or the row of an access token that has expired.
logout(r, u) ==
    /\ access[u].pair # 0
    /\ Start(r, [Idle EXCEPT !.op = "logout", !.step = "deleteAccess", !.user = u])
    /\ UNCHANGED <<account, tokens, recovery, mails, record>>

\* Variant: only the refresh token is deleted.
DeleteAccessToken_Skipped(r) ==
    /\ At(r, "deleteAccess")
    /\ Goto(r, "deleteRefresh")
    /\ UNCHANGED <<account, tokens, recovery, mails, record>>

\* deleteUserTokens is two statements.
DeleteAccessToken(r) ==
    /\ At(r, "deleteAccess")
    /\ access' = [access EXCEPT ![user(r)] = NoToken]
    /\ Goto(r, "deleteRefresh")
    /\ UNCHANGED <<account, refresh, pairs, recovery, mails, record>>

DeleteRefreshToken(r) ==
    /\ At(r, "deleteRefresh")
    /\ refresh' = [refresh EXCEPT ![user(r)] = NoToken]
    /\ revoked' = [revoked EXCEPT ![user(r)] =
                     IF req[r].op = "reset" /\ req[r].opened > @ THEN req[r].opened ELSE @]
    /\ End(r)
    /\ UNCHANGED <<account, access, pairs, recovery, mails, setBy, guesses>>

-----------------------------------------------------------------------------
(* Password recovery and change *)

\* POST /password-recovery: createToken deletes the user's token and inserts a fresh
\* one in a transaction.
requestRecovery(u) ==
    /\ mails < MaxRecoveries
    /\ mails' = mails + 1
    /\ recovery' = [recovery EXCEPT ![u] = [id |-> mails + 1, usable |-> TRUE]]
    /\ UNCHANGED <<account, tokens, req, record>>

\* findValidToken of the token received by mail.
resetPassword(r, u, new) ==
    /\ recovery[u].usable
    /\ Start(r, [Idle EXCEPT !.op = "reset", !.step = "setPassword", !.user = u,
                             !.given = new, !.token = recovery[u].id])
    /\ UNCHANGED <<account, tokens, recovery, mails, record>>

\* PUT of a user's own password: requireAuth, findById and password_verify.
changePassword(r, u, current, new) ==
    /\ access[u].live
    /\ account[u].password = current
    /\ Start(r, [Idle EXCEPT !.op = "change", !.step = "setPassword", !.user = u, !.given = new])
    /\ UNCHANGED <<account, tokens, recovery, mails, record>>

updatePasswordById(r) ==
    LET u == user(r)
    IN  /\ At(r, "setPassword")
        /\ account' = [account EXCEPT ![u].password = req[r].given, ![u].legacy = FALSE,
                                      ![u].attempts = 0]
        /\ guesses' = [guesses EXCEPT ![u] = 0]
        /\ IF req[r].op = "change"
             THEN End(r) /\ UNCHANGED setBy
             ELSE /\ setBy[u] < MaxResets
                  /\ setBy' = [setBy EXCEPT ![u] = @ + 1]
                  /\ req' = [req EXCEPT ![r].step = "markUsed", ![r].opened = setBy[u] + 1]
        /\ UNCHANGED <<tokens, recovery, mails, revoked>>

\* By the id that was read: a token issued since then is left alone.
markTokenAsUsed(r) ==
    /\ At(r, "markUsed")
    /\ recovery' = [recovery EXCEPT ![user(r)].usable = @ /\ recovery[user(r)].id # req[r].token]
    /\ Goto(r, "deleteAccess")
    /\ UNCHANGED <<account, tokens, mails, record>>

-----------------------------------------------------------------------------
\* A statement fails, or the process ends, between two statements.
StatementFails(r) ==
    /\ ~At(r, "idle")
    /\ End(r)
    /\ UNCHANGED <<account, tokens, recovery, mails, record>>

\* The lockout window is over.
LockoutWindowEnds(u) ==
    /\ account[u].recent
    /\ account' = [account EXCEPT ![u].recent = FALSE]
    /\ guesses' = [guesses EXCEPT ![u] = 0]
    /\ UNCHANGED <<tokens, recovery, req, mails, setBy, revoked>>

AccessExpires(u) ==
    /\ access[u].live
    /\ access' = [access EXCEPT ![u].live = FALSE]
    /\ UNCHANGED <<account, refresh, pairs, recovery, req, mails, record>>

\* A refresh token outlives the access token issued with it.
RefreshExpires(u) ==
    /\ refresh[u].live
    /\ access[u].live => access[u].pair # refresh[u].pair
    /\ refresh' = [refresh EXCEPT ![u].live = FALSE]
    /\ UNCHANGED <<account, access, pairs, recovery, req, mails, record>>

RecoveryExpires(u) ==
    /\ recovery[u].usable
    /\ recovery' = [recovery EXCEPT ![u].usable = FALSE]
    /\ UNCHANGED <<account, tokens, req, mails, record>>

TimePasses ==
    \E u \in Users :
        LockoutWindowEnds(u) \/ AccessExpires(u) \/ RefreshExpires(u) \/ RecoveryExpires(u)

RequestBegins(r) ==
    \E u \in Users :
        \/ \E p \in Passwords : login(r, u, p) \/ resetPassword(r, u, p)
        \/ refreshTokens(r, u)
        \/ logout(r, u)
        \/ \E p, q \in Passwords : changePassword(r, u, p, q)

RequestGoesOn(r) ==
    \/ ClearExpiredLock(r)
    \/ incrementFailedAttempts(r)
    \/ updatePasswordHashById(r)
    \/ resetFailedAttempts(r)
    \/ rotateTokensAtomic(r)
    \/ DeleteAccessToken(r)
    \/ DeleteRefreshToken(r)
    \/ updatePasswordById(r)
    \/ markTokenAsUsed(r)
    \/ StatementFails(r)

Next ==
    \/ \E r \in Requests : RequestBegins(r) \/ RequestGoesOn(r)
    \/ \E u \in Users : requestRecovery(u)
    \/ TimePasses

Spec == Init /\ [][Next]_vars

-----------------------------------------------------------------------------
(* Properties *)

\* The rows and the requests have the columns and the fields the code gives them.
TypeOK ==
    /\ account \in [Users -> Account]
    /\ access \in [Users -> Token] /\ refresh \in [Users -> Token]
    /\ recovery \in [Users -> RecoveryToken]
    /\ req \in [Requests -> Request]
    /\ \A r \in Requests : ~At(r, "idle") => user(r) \in Users
    /\ pairs \in Nat /\ mails \in Nat
    /\ setBy \in [Users -> Nat] /\ revoked \in [Users -> Nat]
    /\ guesses \in [Users -> Nat]

\* Logins that overlap may carry the counter of failures beyond the threshold, but by
\* no more than one failure each.
AttemptsBounded ==
    \A u \in Users : account[u].attempts < MAX_FAILED_ATTEMPTS + Cardinality(Requests)

\* The access and the refresh token of a user always come from the same rotation,
\* whatever logins, refreshes and logouts overlap: no session is half one and half
\* another.
TokensPaired ==
    \A u \in Users :
        access[u].pair # 0 /\ refresh[u].pair # 0 => access[u].pair = refresh[u].pair

\* Once a recovery has run to its end, no token is left that was written before its
\* password was set, although the two deletions are not one transaction and other
\* requests may write tokens between them.
OlderTokensRevoked ==
    \A u \in Users :
        /\ access[u].pair # 0 => access[u].issued >= revoked[u]
        /\ refresh[u].pair # 0 => refresh[u].issued >= revoked[u]

\* A lock that was over is reset by a statement that may come late and wipe newer
\* failures, and logins that read the account open may fail after it is locked again.
\* Still each request that overlaps gives one more round at most: until the lockout
\* window has run out since the last failure, no more wrong passwords are tried on an
\* account than a round holds, times the requests.
GuessesBounded ==
    LET round == MAX_FAILED_ATTEMPTS + Cardinality(Requests) - 1
    IN  \A u \in Users : guesses[u] <= Cardinality(Requests) * round

\* The threshold is not exceeded by concurrent increments, as the concurrency tests
\* of the project have it.
FailedAttemptsWithinThreshold ==
    \A u \in Users : account[u].attempts <= MAX_FAILED_ATTEMPTS

\* "On success all active sessions for the user are revoked": no session that was
\* opened with an earlier password is active after a recovery.
ResetRevokesSessions ==
    \A u \in Users :
        /\ access[u].live => access[u].opened >= revoked[u]
        /\ refresh[u].live => refresh[u].opened >= revoked[u]
=============================================================================
