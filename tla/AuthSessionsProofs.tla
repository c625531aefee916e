------------------------- MODULE AuthSessionsProofs -------------------------
(***************************************************************************)
(* Sessions and the lockout for any number of users, requests and          *)
(* passwords and any threshold.  The inductive invariant says what a reset *)
(* that is under way may rely on, how old the tokens of a user can be, and *)
(* how many failures are still to be counted.                              *)
(***************************************************************************)
EXTENDS AuthSessions, FiniteSetTheorems, TLAPS

USE DEF user, At

Resetting == {"markUsed", "deleteAccess", "deleteRefresh"}

\* A reset past its first commit carries the number of the password it has set; past
\* the first deletion, only tokens written since then are left.
Swept(r) ==
    LET u == req[r].user
    IN  req[r].op = "reset" /\ req[r].step \in Resetting =>
          /\ req[r].opened <= setBy[u]
          /\ req[r].step = "deleteRefresh" /\ access[u].pair # 0 =>
                access[u].issued >= req[r].opened

\* The logins that are about to count a failure.
Failing(u) == {r \in Requests : req[r].user = u /\ req[r].step = "countFailure"}

\* Those failures included, the counter is within its bound.
FailuresBounded ==
    \A u \in Users : account[u].attempts + Cardinality(Failing(u))
                       <= MAX_FAILED_ATTEMPTS - 1 + Cardinality(Requests)

\* The logins that are about to reset a lock that was over when they read it.
Wiping(u) == {r \in Requests : req[r].user = u /\ req[r].step = "clearExpired"}

\* What the counter can reach before logins find the account locked.
Round == MAX_FAILED_ATTEMPTS - 1 + Cardinality(Requests)

\* While failures are recent no login finds the lock over, so those about to reset it
\* only become fewer, and each of them takes one round of the counter with it.
GuessesCounted ==
    \A u \in Users : guesses[u] > 0 =>
        /\ account[u].recent
        /\ guesses[u] + Round * Cardinality(Wiping(u))
              <= account[u].attempts + Round * (Cardinality(Requests) - 1)

\* The steps from which a request may come to write the password it was given.
Holding == {"clearExpired", "rehash", "setPassword"}

Typed(request) ==
    /\ request \in [Requests -> Request]
    /\ \A r \in Requests :
         /\ request[r].step # "idle" => request[r].user \in Users
         /\ request[r].step \in Holding => request[r].given \in Passwords

Sessions ==
    /\ TokensPaired
    /\ OlderTokensRevoked
    /\ \A u \in Users : revoked[u] <= setBy[u]
    /\ \A r \in Requests : Swept(r)

IInv ==
    /\ TypeOK /\ Typed(req)
    /\ Sessions
    /\ FailuresBounded
    /\ GuessesCounted

-----------------------------------------------------------------------------
(* The requests stay well formed. *)

LEMMA StartTyped ==
    ASSUME Typed(req), NEW r \in Requests, NEW rec \in Request, rec.user \in Users,
           rec.step \in Holding => rec.given \in Passwords,
           Start(r, rec)
    PROVE  Typed(req')
BY DEF Start, Typed

LEMMA GotoTyped ==
    ASSUME Typed(req), NEW r \in Requests, ~At(r, "idle"), NEW s \in Steps, Goto(r, s),
           s \in Holding => req[r].given \in Passwords
    PROVE  Typed(req')
<1>1. PICK rec : rec = [req[r] EXCEPT !.step = s] /\ req' = [req EXCEPT ![r] = rec]
  BY DEF Goto
<1>2. rec \in Request /\ rec.user \in Users
  BY <1>1 DEF Typed, Request
<1>3. rec.step = s /\ rec.given = req[r].given
  BY <1>1 DEF Typed, Request
<1>4. QED  BY <1>1, <1>2, <1>3 DEF Typed

LEMMA IdleTyped == Idle \in Request /\ Idle.step = "idle"
BY DEF Idle, Request, Ops, Steps

LEMMA EndTyped ==
    ASSUME Typed(req), NEW r \in Requests, End(r)
    PROVE  Typed(req')
<1>1. Idle.step \notin Holding
  BY DEF Idle, Holding
<1>2. QED  BY <1>1, IdleTyped DEF End, Typed

LEMMA VerificationStep ==
    ASSUME NEW rec PROVE AfterVerification(rec) \in {"countFailure", "rehash", "clearAttempts"}
BY DEF AfterVerification

\* The record a login starts with.
LEMMA LoginTyped ==
    ASSUME TypeOK, NEW r \in Requests, NEW u \in Users, NEW p \in Passwords,
           NEW s \in Steps
    PROVE  /\ [LoginRead(r, u, p) EXCEPT !.step = s] \in Request
           /\ [LoginRead(r, u, p) EXCEPT !.step = s].user = u
           /\ [LoginRead(r, u, p) EXCEPT !.step = s].op = "login"
           /\ [LoginRead(r, u, p) EXCEPT !.step = s].step = s
           /\ [LoginRead(r, u, p) EXCEPT !.step = s].given = p
<1>1. PICK m \in BOOLEAN : m <=> (account[u].password = p)
  OBVIOUS
<1>3. m = (account[u].password = p)
  BY <1>1
<1>4. PICK rec : rec = [LoginRead(r, u, p) EXCEPT !.step = s]
  OBVIOUS
<1>5. rec = [op |-> "login", step |-> s, user |-> u, given |-> p, matched |-> m,
             legacy |-> account[u].legacy, opened |-> setBy[u], token |-> 0]
  BY <1>3, <1>4 DEF LoginRead, Idle
<1>6. account[u].legacy \in BOOLEAN /\ setBy[u] \in Nat
  BY DEF TypeOK, Account
<1>7. rec \in Request /\ rec.user = u /\ rec.op = "login" /\ rec.step = s /\ rec.given = p
  BY <1>5, <1>6 DEF Request, Ops
<1>8. QED  BY <1>4, <1>7

-----------------------------------------------------------------------------
(* The rows stay well formed. *)

LEMMA InitTypeOK == Init => TypeOK /\ Typed(req)
<1> SUFFICES ASSUME Init PROVE TypeOK /\ Typed(req)  OBVIOUS
<1>0. ASSUME NEW x \in [password : Passwords, legacy : BOOLEAN, attempts : {0},
                        recent : {FALSE}]
      PROVE  x \in Account
  <2>1. x = [password |-> x.password, legacy |-> x.legacy, attempts |-> x.attempts,
             recent |-> x.recent]
    OBVIOUS
  <2>2. /\ x.password \in Passwords /\ x.legacy \in BOOLEAN
        /\ x.attempts \in Nat
    OBVIOUS
  <2>3. x.recent \in {FALSE}
    OBVIOUS
  <2>4. x.recent \in BOOLEAN
    BY <2>3, Zenon
  <2>5. QED  BY <2>1, <2>2, <2>4 DEF Account
<1>1. account \in [Users -> Account]
  <2> DEFINE Fresh == [password : Passwords, legacy : BOOLEAN, attempts : {0}, recent : {FALSE}]
  <2>1. account \in [Users -> Fresh]
    BY DEF Init
  <2>2. Fresh \subseteq Account
    BY <1>0
  <2> HIDE DEF Fresh
  <2>3. QED  BY <2>1, <2>2
<1>2. NoToken \in Token /\ [id |-> 0, usable |-> FALSE] \in RecoveryToken
  BY DEF NoToken, Token, RecoveryToken
<1>3. /\ req \in [Requests -> Request]
      /\ \A r \in Requests : At(r, "idle")
  BY IdleTyped DEF Init
<1>4. /\ access \in [Users -> Token] /\ refresh \in [Users -> Token]
      /\ recovery \in [Users -> RecoveryToken]
  BY <1>2 DEF Init
<1>5. Typed(req)
  BY <1>3 DEF Typed, Holding
<1>6. QED  BY <1>1, <1>3, <1>4, <1>5 DEF Init, TypeOK

LEMMA BeginTypeOK ==
    ASSUME TypeOK, Typed(req), NEW r \in Requests, RequestBegins(r)
    PROVE  /\ TypeOK' /\ Typed(req')
           /\ UNCHANGED <<account, tokens, recovery, mails, record>>
           /\ \E rec \in Request : /\ Start(r, rec)
                                   /\ rec.step \notin Resetting \/ rec.op # "reset"
                                   /\ rec.step = "countFailure" =>
                                        ~Locked(rec.user) /\ rec.user \in Users
                                   /\ rec.step = "clearExpired" =>
                                        ~account[rec.user].recent
<1>1. PICK u \in Users :
        \/ \E p \in Passwords : login(r, u, p) \/ resetPassword(r, u, p)
        \/ refreshTokens(r, u)
        \/ logout(r, u)
        \/ \E p, q \in Passwords : changePassword(r, u, p, q)
  BY DEF RequestBegins
<1> DEFINE Fits(rec) == /\ rec \in Request /\ rec.user = u /\ Start(r, rec)
                        /\ rec.step \notin Resetting \/ rec.op # "reset"
                        /\ rec.step = "countFailure" => ~Locked(u)
                        /\ rec.step = "clearExpired" => ~account[u].recent
                        /\ rec.step \in Holding => rec.given \in Passwords
<1>2. UNCHANGED <<account, tokens, recovery, mails, record>>
  BY <1>1 DEF login, resetPassword, refreshTokens, logout, changePassword
<1>3. refresh[u].opened \in Nat /\ recovery[u].id \in Nat
  BY DEF TypeOK, Token, RecoveryToken
<1>4. \E rec : Fits(rec)
  <2>1. ASSUME NEW p \in Passwords, login(r, u, p) PROVE \E rec : Fits(rec)
    <3> DEFINE s == IF Locked(u) THEN "clearExpired" ELSE AfterVerification(LoginRead(r, u, p))
    <3>1. s \in Steps /\ s \notin Resetting
      BY VerificationStep DEF Steps, Resetting
    <3>2. /\ s = "countFailure" => ~Locked(u)
          /\ s = "clearExpired" => ~account[u].recent
      BY <2>1, VerificationStep DEF login, lockoutExpired
    <3>3. Start(r, [LoginRead(r, u, p) EXCEPT !.step = s])
      BY <2>1 DEF login
    <3> HIDE DEF s
    <3>4. PICK rec : rec = [LoginRead(r, u, p) EXCEPT !.step = s]
      OBVIOUS
    <3>5. rec \in Request /\ rec.user = u /\ rec.op = "login" /\ rec.step = s /\ rec.given = p
      BY <3>1, <3>4, LoginTyped
    <3>6. QED  BY <3>1, <3>2, <3>3, <3>4, <3>5
  <2>2. ASSUME NEW p \in Passwords, resetPassword(r, u, p) PROVE \E rec : Fits(rec)
    <3>1. PICK rec : /\ rec = [Idle EXCEPT !.op = "reset", !.step = "setPassword", !.user = u,
                                           !.given = p, !.token = recovery[u].id]
                     /\ Start(r, rec)
      BY <2>2 DEF resetPassword
    <3>2. rec = [op |-> "reset", step |-> "setPassword", user |-> u, given |-> p,
                 matched |-> FALSE, legacy |-> FALSE, opened |-> 0,
                 token |-> recovery[u].id]
      BY <3>1 DEF Idle
    <3>3. rec \in Request
      BY <1>3, <3>2 DEF Request, Ops, Steps
    <3>4. rec.user = u /\ rec.step \notin {"countFailure", "clearExpired"}
          /\ (rec.step \notin Resetting \/ rec.op # "reset")
      BY <3>2 DEF Resetting
    <3>5. rec.step \in Holding => rec.given \in Passwords
      BY <3>2 DEF Holding
    <3>6. QED  BY <3>1, <3>3, <3>4, <3>5
  <2>3. ASSUME refreshTokens(r, u) PROVE \E rec : Fits(rec)
    <3>1. PICK rec : /\ rec = [Idle EXCEPT !.op = "refresh", !.step = "rotate", !.user = u,
                                           !.opened = refresh[u].opened]
                     /\ Start(r, rec)
      BY <2>3 DEF refreshTokens
    <3>2. rec = [op |-> "refresh", step |-> "rotate", user |-> u, given |-> NoPassword,
                 matched |-> FALSE, legacy |-> FALSE,
                 opened |-> refresh[u].opened, token |-> 0]
      BY <3>1 DEF Idle
    <3>3. rec \in Request
      BY <1>3, <3>2 DEF Request, Ops, Steps
    <3>4. rec.user = u /\ rec.step \notin {"countFailure", "clearExpired"}
          /\ (rec.step \notin Resetting \/ rec.op # "reset")
      BY <3>2 DEF Resetting
    <3>5. rec.step \in Holding => rec.given \in Passwords
      BY <3>2 DEF Holding
    <3>6. QED  BY <3>1, <3>3, <3>4, <3>5
  <2>4. ASSUME logout(r, u) PROVE \E rec : Fits(rec)
    <3>1. PICK rec : /\ rec = [Idle EXCEPT !.op = "logout", !.step = "deleteAccess", !.user = u]
                     /\ Start(r, rec)
      BY <2>4 DEF logout
    <3>2. rec = [op |-> "logout", step |-> "deleteAccess", user |-> u, given |-> NoPassword,
                 matched |-> FALSE, legacy |-> FALSE, opened |-> 0, token |-> 0]
      BY <3>1 DEF Idle
    <3>3. rec \in Request
      BY <3>2 DEF Request, Ops, Steps
    <3>4. rec.user = u /\ rec.step \notin {"countFailure", "clearExpired"}
          /\ (rec.step \notin Resetting \/ rec.op # "reset")
      BY <3>2 DEF Resetting
    <3>5. rec.step \in Holding => rec.given \in Passwords
      BY <3>2 DEF Holding
    <3>6. QED  BY <3>1, <3>3, <3>4, <3>5
  <2>5. ASSUME NEW p \in Passwords, NEW q \in Passwords, changePassword(r, u, p, q)
        PROVE  \E rec : Fits(rec)
    <3>1. PICK rec : /\ rec = [Idle EXCEPT !.op = "change", !.step = "setPassword",
                                           !.user = u, !.given = q]
                     /\ Start(r, rec)
      BY <2>5 DEF changePassword
    <3>2. rec = [op |-> "change", step |-> "setPassword", user |-> u, given |-> q,
                 matched |-> FALSE, legacy |-> FALSE, opened |-> 0, token |-> 0]
      BY <3>1 DEF Idle
    <3>3. rec \in Request
      BY <3>2 DEF Request, Ops, Steps
    <3>4. rec.user = u /\ rec.step \notin {"countFailure", "clearExpired"}
          /\ (rec.step \notin Resetting \/ rec.op # "reset")
      BY <3>2 DEF Resetting
    <3>5. rec.step \in Holding => rec.given \in Passwords
      BY <3>2 DEF Holding
    <3>6. QED  BY <3>1, <3>3, <3>4, <3>5
  <2>6. QED  BY <1>1, <2>1, <2>2, <2>3, <2>4, <2>5
<1>5. Typed(req')
  BY <1>4, StartTyped
<1>6. TypeOK'
  BY <1>2, <1>5 DEF TypeOK, Typed, tokens, record
<1>7. QED  BY <1>2, <1>4, <1>5, <1>6

LEMMA GoOnTypeOK ==
    ASSUME TypeOK, Typed(req), NEW r \in Requests, RequestGoesOn(r)
    PROVE  TypeOK' /\ Typed(req') /\ ~At(r, "idle") /\ user(r) \in Users
<1> DEFINE u == user(r)
<1>1. ~At(r, "idle") /\ u \in Users
  BY DEF RequestGoesOn, ClearExpiredLock, incrementFailedAttempts, updatePasswordHashById,
     resetFailedAttempts, rotateTokensAtomic, DeleteAccessToken, DeleteRefreshToken,
     updatePasswordById, markTokenAsUsed, StatementFails, TypeOK
<1>2. /\ account \in [Users -> Account] /\ account[u] \in Account
      /\ access \in [Users -> Token] /\ refresh \in [Users -> Token]
      /\ recovery \in [Users -> RecoveryToken] /\ recovery[u] \in RecoveryToken
      /\ req \in [Requests -> Request] /\ req[r] \in Request
      /\ pairs \in Nat /\ mails \in Nat
      /\ setBy \in [Users -> Nat] /\ revoked \in [Users -> Nat]
  BY <1>1 DEF TypeOK
<1>3. NoToken \in Token
  BY DEF NoToken, Token
<1>4. /\ {"countFailure", "rehash", "clearAttempts", "rotate", "deleteAccess",
          "deleteRefresh", "markUsed"} \subseteq Steps
      /\ {"countFailure", "clearAttempts", "rotate", "deleteAccess", "deleteRefresh",
          "markUsed"} \cap Holding = {}
  BY DEF Steps, Holding
<1>5. CASE ClearExpiredLock(r)
  <2>1. [account[u] EXCEPT !.attempts = 0] \in Account
    BY <1>2 DEF Account
  <2>2. account' \in [Users -> Account]
    BY <1>2, <1>5, <2>1 DEF ClearExpiredLock
  <2>3. Typed(req')
    <3>1. req[r].given \in Passwords
      BY <1>5 DEF ClearExpiredLock, Typed, Holding
    <3>2. QED  BY <1>1, <1>4, <1>5, <3>1, GotoTyped, VerificationStep DEF ClearExpiredLock
  <2>4. QED  BY <1>1, <1>2, <1>5, <2>2, <2>3 DEF ClearExpiredLock, TypeOK, Typed, tokens, record
<1>6. CASE incrementFailedAttempts(r)
  <2>0. account[u].attempts + 1 \in Nat
    BY <1>2 DEF Account
  <2>1. [account[u] EXCEPT !.attempts = account[u].attempts + 1, !.recent = TRUE] \in Account
    BY <1>2, <2>0 DEF Account
  <2>2. account' \in [Users -> Account]
    BY <1>2, <1>6, <2>1 DEF incrementFailedAttempts
  <2>3. Typed(req')
    BY <1>6, EndTyped DEF incrementFailedAttempts
  <2>4. QED  BY <1>1, <1>2, <1>6, <2>2, <2>3 DEF incrementFailedAttempts, TypeOK, Typed, tokens, record
<1>7. CASE updatePasswordHashById(r)
  <2>0. req[r].given \in Passwords
    BY <1>7 DEF updatePasswordHashById, Typed, Holding
  <2>1. [account[u] EXCEPT !.password = req[r].given, !.legacy = FALSE] \in Account
    BY <1>2, <2>0 DEF Account
  <2>2. account' \in [Users -> Account]
    BY <1>2, <1>7, <2>1 DEF updatePasswordHashById
  <2>3. Typed(req')
    BY <1>1, <1>4, <1>7, GotoTyped DEF updatePasswordHashById
  <2>4. QED  BY <1>1, <1>2, <1>7, <2>2, <2>3 DEF updatePasswordHashById, TypeOK, Typed, tokens, record
<1>8. CASE resetFailedAttempts(r)
  <2>1. [account[u] EXCEPT !.attempts = 0] \in Account
    BY <1>2 DEF Account
  <2>2. account' \in [Users -> Account]
    BY <1>2, <1>8, <2>1 DEF resetFailedAttempts
  <2>3. Typed(req')
    BY <1>1, <1>4, <1>8, GotoTyped DEF resetFailedAttempts
  <2>4. QED  BY <1>1, <1>2, <1>8, <2>2, <2>3 DEF resetFailedAttempts, TypeOK, Typed, tokens, record
<1>9. CASE rotateTokensAtomic(r)
  <2>1. NewToken(r) \in Token
    BY <1>1, <1>2 DEF NewToken, Token, Request
  <2>2. access' \in [Users -> Token] /\ refresh' \in [Users -> Token]
    BY <1>2, <1>9, <2>1 DEF rotateTokensAtomic
  <2>3. Typed(req')
    BY <1>9, EndTyped DEF rotateTokensAtomic
  <2>4. QED  BY <1>1, <1>2, <1>9, <2>2, <2>3 DEF rotateTokensAtomic, TypeOK, Typed, record
<1>10. CASE DeleteAccessToken(r)
  <2>1. Typed(req')
    BY <1>1, <1>4, <1>10, GotoTyped DEF DeleteAccessToken
  <2>2. QED  BY <1>1, <1>2, <1>3, <1>10, <2>1 DEF DeleteAccessToken, TypeOK, Typed, record
<1>11. CASE DeleteRefreshToken(r)
  <2>1. Typed(req')
    BY <1>11, EndTyped DEF DeleteRefreshToken
  <2>2. revoked' \in [Users -> Nat]
    BY <1>2, <1>11 DEF DeleteRefreshToken, Request
  <2>3. QED  BY <1>1, <1>2, <1>3, <1>11, <2>1, <2>2 DEF DeleteRefreshToken, TypeOK, Typed
<1>12. CASE updatePasswordById(r)
  <2>0. req[r].given \in Passwords
    BY <1>12 DEF updatePasswordById, Typed, Holding
  <2>1. [account[u] EXCEPT !.password = req[r].given, !.legacy = FALSE, !.attempts = 0] \in Account
    BY <1>2, <2>0 DEF Account
  <2>2. account' \in [Users -> Account]
    BY <1>2, <1>12, <2>1 DEF updatePasswordById
  <2>3. Typed(req')
    <3>1. CASE req[r].op = "change"
      BY <1>12, <3>1, EndTyped DEF updatePasswordById
    <3>2. CASE req[r].op # "change"
      <4>1. PICK rec : /\ rec = [req[r] EXCEPT !.step = "markUsed", !.opened = setBy[u] + 1]
                       /\ req' = [req EXCEPT ![r] = rec]
        BY <1>12, <3>2 DEF updatePasswordById
      <4>2. setBy[u] + 1 \in Nat /\ req[r] \in Request /\ "markUsed" \in Steps
        BY <1>1, <1>2, <1>4
      <4>3. rec \in Request /\ rec.user = req[r].user /\ rec.step = "markUsed"
        BY <4>1, <4>2 DEF Request
      <4>4. QED  BY <1>1, <1>4, <4>1, <4>3 DEF Typed
    <3>3. QED  BY <3>1, <3>2
  <2>4. setBy' \in [Users -> Nat]
    BY <1>2, <1>12 DEF updatePasswordById
  <2>5. QED  BY <1>1, <1>2, <1>12, <2>2, <2>3, <2>4 DEF updatePasswordById, TypeOK, Typed, tokens
<1>13. CASE markTokenAsUsed(r)
  <2>1. PICK usable \in BOOLEAN : usable <=> (recovery[u].usable /\ recovery[u].id # req[r].token)
    OBVIOUS
  <2>2. usable = (recovery[u].usable /\ recovery[u].id # req[r].token)
    BY <1>2, <2>1 DEF RecoveryToken
  <2>3. [recovery[u] EXCEPT !.usable = usable] \in RecoveryToken
    BY <1>2 DEF RecoveryToken
  <2>4. recovery' \in [Users -> RecoveryToken]
    BY <1>2, <1>13, <2>2, <2>3 DEF markTokenAsUsed
  <2>5. Typed(req')
    BY <1>1, <1>4, <1>13, GotoTyped DEF markTokenAsUsed
  <2>6. QED  BY <1>1, <1>2, <1>13, <2>4, <2>5 DEF markTokenAsUsed, TypeOK, Typed, tokens, record
<1>14. CASE StatementFails(r)
  BY <1>1, <1>2, <1>14, EndTyped DEF StatementFails, TypeOK, Typed, tokens, record
<1>15. QED  BY <1>1, <1>5, <1>6, <1>7, <1>8, <1>9, <1>10, <1>11, <1>12, <1>13, <1>14
        DEF RequestGoesOn

LEMMA MailTypeOK ==
    ASSUME TypeOK, NEW u \in Users, requestRecovery(u)
    PROVE  TypeOK'
<1>1. [id |-> mails + 1, usable |-> TRUE] \in RecoveryToken
  BY DEF TypeOK, RecoveryToken
<1>2. QED  BY <1>1 DEF TypeOK, requestRecovery, tokens, record

LEMMA TimeTypeOK ==
    ASSUME TypeOK, TimePasses
    PROVE  TypeOK'
<1>1. PICK u \in Users :
        LockoutWindowEnds(u) \/ AccessExpires(u) \/ RefreshExpires(u) \/ RecoveryExpires(u)
  BY DEF TimePasses
<1>2. account[u] \in Account /\ access[u] \in Token /\ refresh[u] \in Token
      /\ recovery[u] \in RecoveryToken
  BY DEF TypeOK
<1>3. /\ [account[u] EXCEPT !.recent = FALSE] \in Account
      /\ [access[u] EXCEPT !.live = FALSE] \in Token
      /\ [refresh[u] EXCEPT !.live = FALSE] \in Token
      /\ [recovery[u] EXCEPT !.usable = FALSE] \in RecoveryToken
  BY <1>2 DEF Account, Token, RecoveryToken
<1>4. CASE LockoutWindowEnds(u)
  BY <1>3, <1>4 DEF LockoutWindowEnds, TypeOK, tokens, record
<1>5. CASE AccessExpires(u)
  BY <1>3, <1>5 DEF AccessExpires, TypeOK, record
<1>6. CASE RefreshExpires(u)
  BY <1>3, <1>6 DEF RefreshExpires, TypeOK, record
<1>7. CASE RecoveryExpires(u)
  BY <1>3, <1>7 DEF RecoveryExpires, TypeOK, tokens, record
<1>8. QED  BY <1>1, <1>4, <1>5, <1>6, <1>7

-----------------------------------------------------------------------------
(* The tokens of a user come from one rotation and are as old as they may be. *)

\* What a step leaves alone of the sessions stays right.
LEMMA SessionsKept ==
    ASSUME Sessions, NEW r \in Requests, UNCHANGED <<access, refresh, setBy, revoked>>,
           \A p \in Requests \ {r} : req'[p] = req[p], Swept(r)'
    PROVE  Sessions'
<1>1. ASSUME NEW p \in Requests PROVE Swept(p)'
  BY DEF Sessions, Swept
<1>2. QED  BY <1>1 DEF Sessions, TokensPaired, OlderTokensRevoked

LEMMA BeginSessions ==
    ASSUME TypeOK, Sessions, NEW r \in Requests, NEW rec \in Request, Start(r, rec),
           rec.step \notin Resetting \/ rec.op # "reset",
           UNCHANGED <<account, tokens, recovery, mails, record>>
    PROVE  Sessions'
<1>1. req'[r] = rec /\ \A p \in Requests \ {r} : req'[p] = req[p]
  BY DEF TypeOK, Start
<1>2. Swept(r)'
  BY <1>1 DEF Swept
<1>3. QED  BY <1>1, <1>2, SessionsKept DEF tokens, record

LEMMA GoOnSessions ==
    ASSUME TypeOK, Typed(req), Sessions, NEW r \in Requests, RequestGoesOn(r)
    PROVE  Sessions'
<1> DEFINE u == user(r)
<1>1. u \in Users /\ ~At(r, "idle")
  BY GoOnTypeOK
<1>2. /\ access[u] \in Token /\ refresh[u] \in Token /\ req[r] \in Request
      /\ \A v \in Users : setBy[v] \in Nat /\ revoked[v] \in Nat
      /\ \A p \in Requests : req[p].opened \in Nat
  BY <1>1 DEF TypeOK, Request
<1>3. \A p \in Requests \ {r} : req'[p] = req[p]
  BY DEF RequestGoesOn, ClearExpiredLock, incrementFailedAttempts, updatePasswordHashById,
     resetFailedAttempts, rotateTokensAtomic, DeleteAccessToken, DeleteRefreshToken,
     updatePasswordById, markTokenAsUsed, StatementFails, Goto, End, TypeOK
<1>4. \A s : Goto(r, s) => req'[r].step = s /\ req'[r].op = req[r].op
                          /\ req'[r].opened = req[r].opened /\ req'[r].user = req[r].user
  BY <1>2 DEF Goto, TypeOK, Request
<1>5. End(r) => req'[r].step = "idle"
  BY IdleTyped DEF End, TypeOK
<1>6. CASE ClearExpiredLock(r)
  <2>1. Swept(r)'
    BY <1>4, <1>6, VerificationStep DEF ClearExpiredLock, Swept, Resetting
  <2>2. QED  BY <1>3, <1>6, <2>1, SessionsKept DEF ClearExpiredLock, tokens, record
<1>7. CASE incrementFailedAttempts(r)
  <2>1. Swept(r)'
    BY <1>5, <1>7 DEF incrementFailedAttempts, Swept, Resetting
  <2>2. QED  BY <1>3, <1>7, <2>1, SessionsKept DEF incrementFailedAttempts, tokens, record
<1>8. CASE updatePasswordHashById(r)
  <2>1. Swept(r)'
    BY <1>4, <1>8 DEF updatePasswordHashById, Swept, Resetting
  <2>2. QED  BY <1>3, <1>8, <2>1, SessionsKept DEF updatePasswordHashById, tokens, record
<1>9. CASE resetFailedAttempts(r)
  <2>1. Swept(r)'
    BY <1>4, <1>9 DEF resetFailedAttempts, Swept, Resetting
  <2>2. QED  BY <1>3, <1>9, <2>1, SessionsKept DEF resetFailedAttempts, tokens, record
<1>10. CASE StatementFails(r)
  <2>1. Swept(r)'
    BY <1>5, <1>10 DEF StatementFails, Swept, Resetting
  <2>2. QED  BY <1>3, <1>10, <2>1, SessionsKept DEF StatementFails, tokens, record
<1>11. CASE markTokenAsUsed(r)
  <2>1. Swept(r)'
    BY <1>4, <1>11 DEF markTokenAsUsed, Swept, Resetting, Sessions, record
  <2>2. QED  BY <1>3, <1>11, <2>1, SessionsKept DEF markTokenAsUsed, tokens, record
<1>12. CASE rotateTokensAtomic(r)
  <2>1. /\ access' = [access EXCEPT ![u] = NewToken(r)]
        /\ refresh' = [refresh EXCEPT ![u] = NewToken(r)]
        /\ UNCHANGED <<setBy, revoked>> /\ End(r)
    BY <1>12 DEF rotateTokensAtomic, record
  <2>2. NewToken(r).pair = pairs + 1 /\ NewToken(r).issued = setBy[u]
    BY DEF NewToken
  <2>3. /\ access'[u] = NewToken(r) /\ refresh'[u] = NewToken(r)
        /\ \A v \in Users \ {u} : access'[v] = access[v] /\ refresh'[v] = refresh[v]
    BY <1>1, <2>1 DEF TypeOK
  <2>4. TokensPaired' /\ OlderTokensRevoked'
    BY <1>2, <2>1, <2>2, <2>3 DEF Sessions, TokensPaired, OlderTokensRevoked
  <2>5. ASSUME NEW p \in Requests PROVE Swept(p)'
    <3>1. CASE p = r
      BY <1>5, <2>1, <3>1 DEF Swept, Resetting
    <3>2. CASE p # r
      <4>1. Swept(p) /\ req'[p] = req[p] /\ (req[p].step # "idle" => req[p].user \in Users)
        BY <1>3, <3>2 DEF Sessions, Typed
      <4>2. QED  BY <1>2, <2>1, <2>2, <2>3, <4>1 DEF Swept, Resetting
    <3>3. QED  BY <3>1, <3>2
  <2>6. QED  BY <2>1, <2>4, <2>5 DEF Sessions
<1>13. CASE DeleteAccessToken(r)
  <2>1. /\ access' = [access EXCEPT ![u] = NoToken]
        /\ UNCHANGED <<refresh, setBy, revoked>> /\ Goto(r, "deleteRefresh")
    BY <1>13 DEF DeleteAccessToken, record
  <2>2. /\ access'[u].pair = 0
        /\ \A v \in Users \ {u} : access'[v] = access[v]
    BY <1>1, <2>1 DEF TypeOK, NoToken
  <2>3. TokensPaired' /\ OlderTokensRevoked'
    BY <1>2, <2>1, <2>2 DEF Sessions, TokensPaired, OlderTokensRevoked
  <2>4. ASSUME NEW p \in Requests PROVE Swept(p)'
    <3>1. CASE p = r
      BY <1>1, <1>4, <1>13, <2>1, <2>2, <3>1 DEF DeleteAccessToken, Swept, Resetting, Sessions
    <3>2. CASE p # r
      <4>1. Swept(p) /\ req'[p] = req[p] /\ (req[p].step # "idle" => req[p].user \in Users)
        BY <1>3, <3>2 DEF Sessions, Typed
      <4>2. QED  BY <2>1, <2>2, <4>1 DEF Swept, Resetting
    <3>3. QED  BY <3>1, <3>2
  <2>5. QED  BY <2>1, <2>3, <2>4 DEF Sessions
<1>14. CASE DeleteRefreshToken(r)
  <2>1. /\ refresh' = [refresh EXCEPT ![u] = NoToken]
        /\ UNCHANGED <<access, setBy>> /\ End(r)
    BY <1>14 DEF DeleteRefreshToken
  <2>2. /\ refresh'[u].pair = 0
        /\ \A v \in Users \ {u} : refresh'[v] = refresh[v] /\ revoked'[v] = revoked[v]
        /\ \/ revoked'[u] = revoked[u]
           \/ req[r].op = "reset" /\ revoked'[u] = req[r].opened
    BY <1>1, <1>14, <2>1 DEF DeleteRefreshToken, TypeOK, NoToken
  <2>3. revoked'[u] <= setBy[u] /\ (access[u].pair # 0 => access[u].issued >= revoked'[u])
    BY <1>1, <1>2, <1>14, <2>2 DEF DeleteRefreshToken, Sessions, Swept, Resetting,
       OlderTokensRevoked
  <2>4. TokensPaired' /\ OlderTokensRevoked'
    BY <2>1, <2>2, <2>3 DEF Sessions, TokensPaired, OlderTokensRevoked
  <2>5. ASSUME NEW p \in Requests PROVE Swept(p)'
    BY <1>3, <1>5, <2>1 DEF Sessions, Swept, Resetting
  <2>6. \A v \in Users : revoked'[v] <= setBy'[v]
    BY <2>1, <2>2, <2>3 DEF Sessions
  <2>7. QED  BY <2>4, <2>5, <2>6 DEF Sessions
<1>15. CASE updatePasswordById(r)
  <2>1. UNCHANGED <<access, refresh, revoked>>
    BY <1>15 DEF updatePasswordById, tokens
  <2>2. CASE req[r].op = "change"
    <3>1. UNCHANGED setBy /\ End(r)
      BY <1>15, <2>2 DEF updatePasswordById
    <3>2. Swept(r)'
      BY <1>5, <3>1 DEF Swept, Resetting
    <3>3. QED  BY <1>3, <2>1, <3>1, <3>2, SessionsKept
  <2>3. CASE req[r].op # "change"
    <3>1. /\ setBy' = [setBy EXCEPT ![u] = @ + 1]
          /\ req' = [req EXCEPT ![r].step = "markUsed", ![r].opened = setBy[u] + 1]
      BY <1>15, <2>3 DEF updatePasswordById
    <3>2. setBy'[u] = setBy[u] + 1 /\ \A v \in Users \ {u} : setBy'[v] = setBy[v]
      BY <1>1, <3>1 DEF TypeOK
    <3>3. req'[r].step = "markUsed" /\ req'[r].opened = setBy[u] + 1 /\ req'[r].user = u
      <4>1. PICK rec : /\ rec = [req[r] EXCEPT !.step = "markUsed", !.opened = setBy[u] + 1]
                       /\ req' = [req EXCEPT ![r] = rec]
        BY <3>1
      <4>2. rec.step = "markUsed" /\ rec.opened = setBy[u] + 1 /\ rec.user = u
        BY <1>2, <4>1 DEF Request
      <4>3. QED  BY <4>1, <4>2 DEF TypeOK
    <3>4. ASSUME NEW p \in Requests PROVE Swept(p)'
      <4>1. CASE p = r
        BY <1>1, <1>2, <3>2, <3>3, <4>1 DEF Swept
      <4>2. CASE p # r
        <5>1. Swept(p) /\ req'[p] = req[p] /\ (req[p].step # "idle" => req[p].user \in Users)
          BY <1>3, <4>2 DEF Sessions, Typed
        <5>2. QED  BY <1>2, <2>1, <3>2, <5>1 DEF Swept, Resetting
      <4>3. QED  BY <4>1, <4>2
    <3>5. \A v \in Users : revoked'[v] <= setBy'[v]
      BY <1>2, <2>1, <3>2 DEF Sessions
    <3>6. QED  BY <2>1, <3>4, <3>5 DEF Sessions, TokensPaired, OlderTokensRevoked
  <2>4. QED  BY <2>2, <2>3
<1>16. QED  BY <1>6, <1>7, <1>8, <1>9, <1>10, <1>11, <1>12, <1>13, <1>14, <1>15
        DEF RequestGoesOn

LEMMA TimeSessions ==
    ASSUME TypeOK, Sessions, TimePasses
    PROVE  Sessions'
<1>1. PICK u \in Users :
        LockoutWindowEnds(u) \/ AccessExpires(u) \/ RefreshExpires(u) \/ RecoveryExpires(u)
  BY DEF TimePasses
<1>2. \A v \in Users : access[v] \in Token /\ refresh[v] \in Token
  BY DEF TypeOK
<1>3. \A v \in Users : /\ access'[v].pair = access[v].pair /\ refresh'[v].pair = refresh[v].pair
                       /\ access'[v].issued = access[v].issued
                       /\ refresh'[v].issued = refresh[v].issued
  <2>1. CASE LockoutWindowEnds(u)
    BY <2>1 DEF LockoutWindowEnds, tokens
  <2>2. CASE AccessExpires(u)
    BY <1>2, <2>2 DEF AccessExpires, TypeOK, Token
  <2>3. CASE RefreshExpires(u)
    BY <1>2, <2>3 DEF RefreshExpires, TypeOK, Token
  <2>4. CASE RecoveryExpires(u)
    BY <2>4 DEF RecoveryExpires, tokens
  <2>5. QED  BY <1>1, <2>1, <2>2, <2>3, <2>4
<1>4. UNCHANGED <<req, setBy, revoked>>
  BY <1>1 DEF LockoutWindowEnds, AccessExpires, RefreshExpires, RecoveryExpires, record
<1>5. ASSUME NEW p \in Requests PROVE Swept(p)'
  <2>1. CASE req[p].step \in Resetting /\ req[p].op = "reset" /\ req[p].user \in Users
    BY <1>3, <1>4, <2>1 DEF Sessions, Swept
  <2>2. CASE ~(req[p].step \in Resetting /\ req[p].op = "reset")
    BY <1>4, <2>2 DEF Swept
  <2>3. QED  BY <2>1, <2>2 DEF Resetting, TypeOK
<1>6. QED  BY <1>3, <1>4, <1>5 DEF Sessions, TokensPaired, OlderTokensRevoked

-----------------------------------------------------------------------------
(* The failures counted and still to be counted of a user. *)

\* A step either leaves the counter below the threshold, or adds neither a failure nor
\* a login that is about to count one, or counts the failure of one such login.
FailureStep(u) ==
    \/ account'[u].attempts <= MAX_FAILED_ATTEMPTS - 1
    \/ account'[u].attempts <= account[u].attempts /\ Failing(u)' \subseteq Failing(u)
    \/ /\ account'[u].attempts = account[u].attempts + 1
       /\ \E r \in Failing(u) : Failing(u)' \subseteq Failing(u) \ {r}

LEMMA FailuresKept ==
    ASSUME TypeOK, TypeOK', FailuresBounded, \A u \in Users : FailureStep(u)
    PROVE  FailuresBounded'
<1> SUFFICES ASSUME NEW u \in Users
             PROVE  account'[u].attempts + Cardinality(Failing(u)')
                      <= MAX_FAILED_ATTEMPTS - 1 + Cardinality(Requests)
  BY DEF FailuresBounded
<1>1. account[u].attempts \in Nat /\ account'[u].attempts \in Nat /\ MAX_FAILED_ATTEMPTS \in Nat
  BY AttemptsAssumption DEF TypeOK, Account
<1>2. Failing(u) \subseteq Requests /\ Failing(u)' \subseteq Requests
  BY DEF Failing
<1>3. /\ IsFiniteSet(Failing(u)) /\ IsFiniteSet(Failing(u)')
      /\ Cardinality(Failing(u)') <= Cardinality(Requests)
  BY <1>2, RequestsAssumption, FS_Subset
<1>4. /\ Cardinality(Requests) \in Nat /\ Cardinality(Failing(u)) \in Nat
      /\ Cardinality(Failing(u)') \in Nat
  BY <1>3, RequestsAssumption, FS_CardinalityType
<1>5. account[u].attempts + Cardinality(Failing(u))
        <= MAX_FAILED_ATTEMPTS - 1 + Cardinality(Requests)
  BY DEF FailuresBounded
<1>6. CASE account'[u].attempts <= MAX_FAILED_ATTEMPTS - 1
  BY <1>1, <1>3, <1>4, <1>6
<1>7. CASE account'[u].attempts <= account[u].attempts /\ Failing(u)' \subseteq Failing(u)
  <2>1. Cardinality(Failing(u)') <= Cardinality(Failing(u))
    BY <1>3, <1>7, FS_Subset
  <2>2. QED  BY <1>1, <1>4, <1>5, <1>7, <2>1
<1>8. CASE /\ account'[u].attempts = account[u].attempts + 1
           /\ \E r \in Failing(u) : Failing(u)' \subseteq Failing(u) \ {r}
  <2>1. PICK r \in Failing(u) : Failing(u)' \subseteq Failing(u) \ {r}
    BY <1>8
  <2>2. /\ IsFiniteSet(Failing(u) \ {r})
        /\ Cardinality(Failing(u) \ {r}) = Cardinality(Failing(u)) - 1
    BY <1>3, FS_RemoveElement
  <2>3. Cardinality(Failing(u)') <= Cardinality(Failing(u) \ {r})
    BY <2>1, <2>2, FS_Subset
  <2>4. QED  BY <1>1, <1>4, <1>5, <1>8, <2>2, <2>3
<1>9. QED  BY <1>6, <1>7, <1>8 DEF FailureStep

\* A request that is not about to count a failure after the step adds no failure.
LEMMA NoNewFailure ==
    ASSUME NEW r \in Requests, \A p \in Requests \ {r} : req'[p] = req[p],
           req'[r].step # "countFailure", NEW u \in Users
    PROVE  Failing(u)' \subseteq Failing(u) \ {r}
BY DEF Failing

LEMMA BeginFailures ==
    ASSUME TypeOK, TypeOK', FailuresBounded, NEW r \in Requests, NEW rec \in Request,
           Start(r, rec), rec.step = "countFailure" => ~Locked(rec.user) /\ rec.user \in Users,
           UNCHANGED account
    PROVE  FailuresBounded'
<1>1. req'[r] = rec /\ \A p \in Requests \ {r} : req'[p] = req[p]
  BY DEF TypeOK, Start
<1>2. \A u \in Users : account[u].attempts \in Nat
  BY DEF TypeOK, Account
<1>3. ASSUME NEW u \in Users PROVE FailureStep(u)
  <2>1. CASE rec.step = "countFailure" /\ rec.user = u
    BY <1>2, <2>1, AttemptsAssumption DEF FailureStep, Locked
  <2>2. CASE ~(rec.step = "countFailure" /\ rec.user = u)
    <3>1. Failing(u)' \subseteq Failing(u)
      BY <1>1, <2>2 DEF Failing
    <3>2. QED  BY <1>2, <3>1 DEF FailureStep
  <2>3. QED  BY <2>1, <2>2
<1>4. QED  BY <1>3, FailuresKept

LEMMA GoOnFailures ==
    ASSUME TypeOK, TypeOK', Typed(req), FailuresBounded, NEW r \in Requests, RequestGoesOn(r)
    PROVE  FailuresBounded'
<1> DEFINE v == user(r)
<1>1. v \in Users /\ ~At(r, "idle")
  BY GoOnTypeOK
<1>2. \A u \in Users : account[u] \in Account /\ account[u].attempts \in Nat
  BY DEF TypeOK, Account
<1>3. \A p \in Requests \ {r} : req'[p] = req[p]
  BY DEF RequestGoesOn, ClearExpiredLock, incrementFailedAttempts, updatePasswordHashById,
     resetFailedAttempts, rotateTokensAtomic, DeleteAccessToken, DeleteRefreshToken,
     updatePasswordById, markTokenAsUsed, StatementFails, Goto, End, TypeOK
<1>4. ASSUME \A u \in Users : account'[u].attempts <= account[u].attempts,
             req'[r].step # "countFailure"
      PROVE  FailuresBounded'
  BY <1>3, <1>4, NoNewFailure, FailuresKept DEF FailureStep
<1>5. ASSUME NEW s \in Steps, Goto(r, s) PROVE req'[r].step = s /\ req'[r].user = v
  BY <1>5 DEF Goto, TypeOK, Request
<1>6. End(r) => req'[r].step # "countFailure"
  BY IdleTyped DEF End, TypeOK
<1>7. {"clearAttempts", "rotate", "deleteAccess", "deleteRefresh", "markUsed"} \subseteq Steps
  BY DEF Steps
<1>8. ASSUME UNCHANGED account PROVE \A u \in Users : account'[u].attempts <= account[u].attempts
  BY <1>2, <1>8
<1>9. CASE ClearExpiredLock(r)
  <2>1. PICK row \in Account : row.attempts = 0 /\ account' = [account EXCEPT ![v] = row]
    <3>1. [account[v] EXCEPT !.attempts = 0] \in Account
      BY <1>1, <1>2 DEF Account
    <3>2. QED  BY <1>1, <1>2, <1>9, <3>1 DEF ClearExpiredLock, Account
  <2>2. account'[v].attempts = 0 /\ \A u \in Users \ {v} : account'[u] = account[u]
    BY <1>1, <2>1 DEF TypeOK
  <2>3. req'[r].user = v
    <3>1. AfterVerification(req[r]) \in Steps
      BY VerificationStep DEF Steps
    <3>2. QED  BY <1>5, <1>9, <3>1 DEF ClearExpiredLock
  <2>4. \A u \in Users \ {v} : Failing(u)' \subseteq Failing(u)
    BY <1>3, <2>3 DEF Failing
  <2>5. \A u \in Users : FailureStep(u)
    BY <1>2, <2>2, <2>4, AttemptsAssumption DEF FailureStep
  <2>6. QED  BY <2>5, FailuresKept
<1>10. CASE incrementFailedAttempts(r)
  <2>1. PICK row : /\ row = [account[v] EXCEPT !.attempts = account[v].attempts + 1,
                                               !.recent = TRUE]
                   /\ account' = [account EXCEPT ![v] = row]
    BY <1>1, <1>10 DEF incrementFailedAttempts
  <2>2. row.attempts = account[v].attempts + 1
    BY <1>1, <1>2, <2>1 DEF Account
  <2>3. /\ account'[v].attempts = account[v].attempts + 1
        /\ \A u \in Users \ {v} : account'[u] = account[u]
    BY <1>1, <2>1, <2>2 DEF TypeOK
  <2>4. req'[r].step # "countFailure" /\ r \in Failing(v)
    BY <1>6, <1>10 DEF incrementFailedAttempts, Failing
  <2>5. \A u \in Users : Failing(u)' \subseteq Failing(u) \ {r}
    BY <1>3, <2>4, NoNewFailure
  <2>6. \A u \in Users : FailureStep(u)
    BY <1>2, <2>3, <2>4, <2>5 DEF FailureStep
  <2>7. QED  BY <2>6, FailuresKept
<1>11. CASE updatePasswordHashById(r)
  <2>1. PICK row : /\ row = [account[v] EXCEPT !.password = req[r].given, !.legacy = FALSE]
                   /\ account' = [account EXCEPT ![v] = row]
    BY <1>1, <1>11 DEF updatePasswordHashById
  <2>2. row.attempts = account[v].attempts
    BY <1>1, <1>2, <2>1 DEF Account
  <2>3. \A u \in Users : account'[u].attempts <= account[u].attempts
    BY <1>1, <1>2, <2>1, <2>2 DEF TypeOK
  <2>4. QED  BY <1>4, <1>5, <1>7, <1>11, <2>3 DEF updatePasswordHashById
<1>12. CASE resetFailedAttempts(r)
  <2>1. PICK row : row = [account[v] EXCEPT !.attempts = 0] /\ account' = [account EXCEPT ![v] = row]
    BY <1>1, <1>12 DEF resetFailedAttempts
  <2>2. row.attempts = 0
    BY <1>1, <1>2, <2>1 DEF Account
  <2>3. \A u \in Users : account'[u].attempts <= account[u].attempts
    BY <1>1, <1>2, <2>1, <2>2 DEF TypeOK
  <2>4. QED  BY <1>4, <1>5, <1>7, <1>12, <2>3 DEF resetFailedAttempts
<1>13. CASE updatePasswordById(r)
  <2>1. PICK row : /\ row = [account[v] EXCEPT !.password = req[r].given, !.legacy = FALSE,
                                               !.attempts = 0]
                   /\ account' = [account EXCEPT ![v] = row]
    BY <1>1, <1>13 DEF updatePasswordById
  <2>2. row.attempts = 0
    BY <1>1, <1>2, <2>1 DEF Account
  <2>3. \A u \in Users : account'[u].attempts <= account[u].attempts
    BY <1>1, <1>2, <2>1, <2>2 DEF TypeOK
  <2>4. req'[r].step # "countFailure"
    <3>1. CASE End(r)
      BY <1>6, <3>1
    <3>2. CASE req' = [req EXCEPT ![r].step = "markUsed", ![r].opened = setBy[v] + 1]
      BY <3>2 DEF TypeOK, Request
    <3>3. QED  BY <1>13, <3>1, <3>2 DEF updatePasswordById
  <2>5. QED  BY <1>4, <2>3, <2>4
<1>14. CASE rotateTokensAtomic(r)
  BY <1>4, <1>6, <1>8, <1>14 DEF rotateTokensAtomic
<1>15. CASE DeleteAccessToken(r)
  BY <1>4, <1>5, <1>7, <1>8, <1>15 DEF DeleteAccessToken
<1>16. CASE DeleteRefreshToken(r)
  BY <1>4, <1>6, <1>8, <1>16 DEF DeleteRefreshToken
<1>17. CASE markTokenAsUsed(r)
  BY <1>4, <1>5, <1>7, <1>8, <1>17 DEF markTokenAsUsed
<1>18. CASE StatementFails(r)
  BY <1>4, <1>6, <1>8, <1>18 DEF StatementFails
<1>19. QED  BY <1>9, <1>10, <1>11, <1>12, <1>13, <1>14, <1>15, <1>16, <1>17, <1>18
        DEF RequestGoesOn

LEMMA TimeFailures ==
    ASSUME TypeOK, TypeOK', FailuresBounded, TimePasses
    PROVE  FailuresBounded'
<1>1. PICK u \in Users :
        LockoutWindowEnds(u) \/ AccessExpires(u) \/ RefreshExpires(u) \/ RecoveryExpires(u)
  BY DEF TimePasses
<1>2. \A w \in Users : account[w] \in Account /\ account[w].attempts \in Nat
  BY DEF TypeOK, Account
<1>3. UNCHANGED req
  BY <1>1 DEF LockoutWindowEnds, AccessExpires, RefreshExpires, RecoveryExpires
<1>4. \A w \in Users : account'[w].attempts = account[w].attempts
  BY <1>1, <1>2 DEF LockoutWindowEnds, AccessExpires, RefreshExpires, RecoveryExpires,
     TypeOK, Account
<1>5. \A w \in Users : FailureStep(w)
  BY <1>2, <1>3, <1>4 DEF FailureStep, Failing
<1>6. QED  BY <1>5, FailuresKept

-----------------------------------------------------------------------------
(* The failures counted since the lockout window last ended. *)

\* A step starts the count again; or leaves it, the counter and the resets to come; or
\* counts one failure; or is one of those resets.
GuessStep(u) ==
    \/ guesses'[u] = 0
    \/ /\ guesses'[u] = guesses[u] /\ account'[u].recent = account[u].recent
       /\ account'[u].attempts = account[u].attempts
       /\ guesses[u] > 0 => Wiping(u)' \subseteq Wiping(u)
    \/ /\ guesses'[u] = guesses[u] + 1 /\ account'[u].recent
       /\ account'[u].attempts = account[u].attempts + 1
       /\ Wiping(u)' \subseteq Wiping(u)
       /\ \E r \in Requests : r \notin Wiping(u)
    \/ /\ guesses'[u] = guesses[u] /\ account'[u].recent = account[u].recent
       /\ account'[u].attempts = 0
       /\ \E r \in Wiping(u) : Wiping(u)' \subseteq Wiping(u) \ {r}

LEMMA TimesMonotone ==
    ASSUME NEW k \in Nat, NEW a \in Nat, NEW b \in Int, a <= b
    PROVE  k * a <= k * b /\ k * a \in Nat /\ k * b \in Int /\ k * (b - 1) = k * b - k
<1>1. PICK d \in Nat : b = a + d
  <2>1. b - a \in Nat /\ b = a + (b - a)
    OBVIOUS
  <2>2. QED  BY <2>1
<1>2. k * b = k * a + k * d
  BY <1>1
<1>3. k * a \in Nat /\ k * d \in Nat
  OBVIOUS
<1>4. k * (b - 1) = k * b - k
  OBVIOUS
<1>5. QED  BY <1>2, <1>3, <1>4

LEMMA RoundType == Round \in Nat /\ Cardinality(Requests) \in Nat
BY AttemptsAssumption, RequestsAssumption, FS_CardinalityType DEF Round

LEMMA WipingFinite ==
    ASSUME NEW u \in Users
    PROVE  /\ IsFiniteSet(Wiping(u)) /\ Cardinality(Wiping(u)) \in Nat
           /\ Cardinality(Wiping(u)) <= Cardinality(Requests)
           /\ \A r \in Requests : r \notin Wiping(u) =>
                Cardinality(Wiping(u)) <= Cardinality(Requests) - 1
<1>1. Wiping(u) \subseteq Requests
  BY DEF Wiping
<1>2. /\ IsFiniteSet(Wiping(u)) /\ Cardinality(Wiping(u)) \in Nat
      /\ Cardinality(Wiping(u)) <= Cardinality(Requests)
  BY <1>1, RequestsAssumption, FS_Subset, FS_CardinalityType
<1>3. ASSUME NEW r \in Requests, r \notin Wiping(u)
      PROVE  Cardinality(Wiping(u)) <= Cardinality(Requests) - 1
  <2>1. /\ IsFiniteSet(Requests \ {r})
        /\ Cardinality(Requests \ {r}) = Cardinality(Requests) - 1
    BY RequestsAssumption, FS_RemoveElement
  <2>2. Wiping(u) \subseteq Requests \ {r}
    BY <1>1, <1>3
  <2>3. QED  BY <2>1, <2>2, FS_Subset
<1>4. QED  BY <1>2, <1>3

\* The arithmetic of one step: w resets to come of n requests, g failures counted and
\* a the counter, with rounds of k.
LEMMA RoundsCount ==
    ASSUME NEW k \in Nat, NEW n \in Nat, NEW w \in Nat, NEW v \in Nat,
           NEW g \in Nat, NEW a \in Nat
    PROVE  /\ v <= w /\ g + k * w <= a + k * (n - 1) => g + k * v <= a + k * (n - 1)
           /\ v <= n - 1 /\ g <= a => g + k * v <= a + k * (n - 1)
           /\ v <= w - 1 /\ a <= k /\ g + k * w <= a + k * (n - 1) =>
                g + k * v <= k * (n - 1)
<1>1. k * (n - 1) \in Int /\ k * w \in Nat /\ k * v \in Nat
  OBVIOUS
<1>2. v <= w => k * v <= k * w
  BY TimesMonotone
<1>3. v <= n - 1 => k * v <= k * (n - 1)
  <2>1. n - 1 \in Int
    OBVIOUS
  <2>2. QED  BY <2>1, TimesMonotone
<1>4. v <= w - 1 => k * v <= k * w - k
  <2>1. SUFFICES ASSUME v <= w - 1 PROVE k * v <= k * w - k
    OBVIOUS
  <2>2. w - 1 \in Int /\ v <= w /\ w \in Int
    BY <2>1
  <2>3. k * v <= k * (w - 1)
    BY <2>1, <2>2, TimesMonotone
  <2>4. k * (w - 1) = k * w - k
    BY <2>2, TimesMonotone
  <2>5. QED  BY <2>3, <2>4
<1> DEFINE kw == k * w  kv == k * v  kn == k * (n - 1)
<1>5. kw \in Nat /\ kv \in Nat /\ kn \in Int
  BY <1>1
<1>6. /\ v <= w => kv <= kw
      /\ v <= n - 1 => kv <= kn
      /\ v <= w - 1 => kv <= kw - k
  BY <1>2, <1>3, <1>4
<1> HIDE DEF kw, kv, kn
<1>7. /\ v <= w /\ g + kw <= a + kn => g + kv <= a + kn
      /\ v <= n - 1 /\ g <= a => g + kv <= a + kn
      /\ v <= w - 1 /\ a <= k /\ g + kw <= a + kn => g + kv <= kn
  BY <1>5, <1>6
<1>8. QED  BY <1>7 DEF kw, kv, kn

LEMMA AttemptsWithinRound ==
    ASSUME TypeOK, FailuresBounded, NEW u \in Users
    PROVE  account[u].attempts <= Round /\ account[u].attempts \in Nat
<1>1. Failing(u) \subseteq Requests
  BY DEF Failing
<1>2. Cardinality(Failing(u)) \in Nat
  BY <1>1, RequestsAssumption, FS_Subset, FS_CardinalityType
<1>3. account[u].attempts \in Nat
  BY DEF TypeOK, Account
<1>4. account[u].attempts + Cardinality(Failing(u)) <= Round
  BY DEF FailuresBounded, Round
<1>5. QED  BY <1>2, <1>3, <1>4, RoundType

LEMMA GuessesKept ==
    ASSUME TypeOK, TypeOK', FailuresBounded, GuessesCounted, \A u \in Users : GuessStep(u)
    PROVE  GuessesCounted'
<1> SUFFICES ASSUME NEW u \in Users, guesses'[u] > 0
             PROVE  /\ account'[u].recent
                    /\ guesses'[u] + Round * Cardinality(Wiping(u)')
                         <= account'[u].attempts + Round * (Cardinality(Requests) - 1)
  BY DEF GuessesCounted, Round
<1> DEFINE n == Cardinality(Requests)
           w == Cardinality(Wiping(u))
           v == Cardinality(Wiping(u)')
<1>1. /\ guesses[u] \in Nat /\ guesses'[u] \in Nat
      /\ account[u].attempts \in Nat /\ account'[u].attempts \in Nat
      /\ account[u].attempts <= Round
  BY AttemptsWithinRound DEF TypeOK, Account
<1>2. IsFiniteSet(Wiping(u)) /\ w \in Nat /\ n \in Nat /\ Round \in Nat
  BY WipingFinite, RoundType
<1>3. Wiping(u)' \subseteq Requests
  BY DEF Wiping
<1>4. v \in Nat
  BY <1>3, RequestsAssumption, FS_Subset, FS_CardinalityType
<1>5. guesses[u] > 0 => account[u].recent
                        /\ guesses[u] + Round * w <= account[u].attempts + Round * (n - 1)
  BY DEF GuessesCounted
<1>6. Wiping(u)' \subseteq Wiping(u) => v <= w
  BY <1>2, FS_Subset
<1> HIDE DEF n, w, v
<1>7. CASE /\ guesses'[u] = guesses[u] /\ account'[u].recent = account[u].recent
           /\ account'[u].attempts = account[u].attempts
           /\ guesses[u] > 0 => Wiping(u)' \subseteq Wiping(u)
  <2>1. guesses[u] + Round * v <= account[u].attempts + Round * (n - 1)
    BY <1>1, <1>2, <1>4, <1>5, <1>6, <1>7, RoundsCount
  <2>2. QED  BY <1>1, <1>5, <1>7, <2>1 DEF n, v
<1>8. CASE /\ guesses'[u] = guesses[u] + 1 /\ account'[u].recent
           /\ account'[u].attempts = account[u].attempts + 1
           /\ Wiping(u)' \subseteq Wiping(u)
           /\ \E r \in Requests : r \notin Wiping(u)
  <2>1. w <= n - 1
    BY <1>8, WipingFinite DEF w, n
  <2>2. v <= w /\ v <= n - 1
    BY <1>2, <1>4, <1>6, <1>8, <2>1
  <2>3. guesses'[u] + Round * v <= account'[u].attempts + Round * (n - 1)
    <3>1. CASE guesses[u] = 0
      <4>1. guesses'[u] <= account'[u].attempts
        BY <1>1, <1>8, <3>1
      <4>2. QED  BY <1>1, <1>2, <1>4, <2>2, <4>1, RoundsCount
    <3>2. CASE guesses[u] > 0
      <4>1. guesses[u] + Round * v <= account[u].attempts + Round * (n - 1)
        BY <1>1, <1>2, <1>4, <1>5, <2>2, <3>2, RoundsCount
      <4>2. Round * v \in Nat /\ Round * (n - 1) \in Int
        BY <1>2, <1>4
      <4>3. QED  BY <1>1, <1>8, <4>1, <4>2
    <3>3. QED  BY <1>1, <3>1, <3>2
  <2>4. QED  BY <1>8, <2>3 DEF n, v
<1>9. CASE /\ guesses'[u] = guesses[u] /\ account'[u].recent = account[u].recent
           /\ account'[u].attempts = 0
           /\ \E r \in Wiping(u) : Wiping(u)' \subseteq Wiping(u) \ {r}
  <2>1. PICK r \in Wiping(u) : Wiping(u)' \subseteq Wiping(u) \ {r}
    BY <1>9
  <2>2. /\ IsFiniteSet(Wiping(u) \ {r})
        /\ Cardinality(Wiping(u) \ {r}) = Cardinality(Wiping(u)) - 1
    BY <1>2, FS_RemoveElement
  <2>3. v <= w - 1
    BY <2>1, <2>2, FS_Subset DEF v, w
  <2>4. guesses[u] > 0
    BY <1>9
  <2>5. guesses[u] + Round * v <= Round * (n - 1)
    BY <1>1, <1>2, <1>4, <1>5, <2>3, <2>4, RoundsCount
  <2>6. Round * (n - 1) \in Int
    BY <1>2
  <2>7. QED  BY <1>5, <1>9, <2>4, <2>5, <2>6 DEF n, v
<1>10. GuessStep(u) /\ guesses'[u] # 0
  BY <1>1
<1>11. QED  BY <1>7, <1>8, <1>9, <1>10 DEF GuessStep

LEMMA BeginGuesses ==
    ASSUME TypeOK, TypeOK', FailuresBounded, GuessesCounted, NEW r \in Requests,
           NEW rec \in Request, Start(r, rec),
           rec.step = "clearExpired" => ~account[rec.user].recent,
           UNCHANGED account, UNCHANGED guesses
    PROVE  GuessesCounted'
<1>1. req'[r] = rec /\ \A p \in Requests \ {r} : req'[p] = req[p]
  BY DEF TypeOK, Start
<1>2. ASSUME NEW u \in Users PROVE GuessStep(u)
  <2>1. ASSUME guesses[u] > 0 PROVE Wiping(u)' \subseteq Wiping(u)
    <3>1. account[u].recent
      BY <2>1 DEF GuessesCounted
    <3>2. QED  BY <1>1, <3>1 DEF Wiping
  <2>2. QED  BY <2>1 DEF GuessStep
<1>3. QED  BY <1>2, GuessesKept

LEMMA GoOnGuesses ==
    ASSUME TypeOK, TypeOK', Typed(req), FailuresBounded, GuessesCounted,
           NEW r \in Requests, RequestGoesOn(r)
    PROVE  GuessesCounted'
<1>1. PICK v \in Users : v = user(r) /\ ~At(r, "idle")
  BY GoOnTypeOK
<1>2. \A u \in Users : account[u] \in Account
  BY DEF TypeOK
<1>3. \A p \in Requests \ {r} : req'[p] = req[p]
  BY DEF RequestGoesOn, ClearExpiredLock, incrementFailedAttempts, updatePasswordHashById,
     resetFailedAttempts, rotateTokensAtomic, DeleteAccessToken, DeleteRefreshToken,
     updatePasswordById, markTokenAsUsed, StatementFails, Goto, End, TypeOK
<1>4. ASSUME NEW s \in Steps, Goto(r, s) PROVE req'[r].step = s /\ req'[r].user = v
  BY <1>1, <1>4 DEF Goto, TypeOK, Request
<1>5. End(r) => req'[r].step # "clearExpired"
  BY IdleTyped DEF End, TypeOK
<1>6. {"clearAttempts", "rotate", "deleteAccess", "deleteRefresh", "markUsed"} \subseteq Steps
  BY DEF Steps
\* No request comes to reset an expired lock in the middle of its way.
<1>7. req'[r].step # "clearExpired"
  <2>1. ASSUME NEW s \in Steps, Goto(r, s), s # "clearExpired"
        PROVE  req'[r].step # "clearExpired"
    BY <1>4, <2>1
  <2>2. CASE ClearExpiredLock(r)
    <3>1. /\ AfterVerification(req[r]) \in Steps
          /\ AfterVerification(req[r]) # "clearExpired"
      BY VerificationStep DEF Steps
    <3>2. QED  BY <2>1, <2>2, <3>1 DEF ClearExpiredLock
  <2>3. CASE updatePasswordById(r)
    <3>1. CASE End(r)
      BY <1>5, <3>1
    <3>2. CASE req' = [req EXCEPT ![r].step = "markUsed", ![r].opened = setBy[v] + 1]
      BY <3>2 DEF TypeOK, Request
    <3>3. QED  BY <2>3, <1>1, <3>1, <3>2 DEF updatePasswordById
  <2>4. CASE ~ClearExpiredLock(r) /\ ~updatePasswordById(r)
    BY <1>5, <1>6, <2>1, <2>4 DEF RequestGoesOn, incrementFailedAttempts,
       updatePasswordHashById, resetFailedAttempts, rotateTokensAtomic, DeleteAccessToken,
       DeleteRefreshToken, markTokenAsUsed, StatementFails
  <2>5. QED  BY <2>2, <2>3, <2>4
<1>8. \A u \in Users : Wiping(u)' \subseteq Wiping(u) \ {r}
  BY <1>3, <1>7 DEF Wiping
<1>9. ASSUME NEW u \in Users,
             guesses'[u] = guesses[u], account'[u].attempts = account[u].attempts,
             account'[u].recent = account[u].recent
      PROVE  GuessStep(u)
  BY <1>8, <1>9 DEF GuessStep
<1>10. ASSUME UNCHANGED <<account, guesses>> PROVE GuessesCounted'
  BY <1>9, <1>10, GuessesKept
<1>11. CASE ClearExpiredLock(r)
  <2>1. PICK row : /\ row = [account[v] EXCEPT !.attempts = 0]
                   /\ account' = [account EXCEPT ![v] = row]
    BY <1>1, <1>11 DEF ClearExpiredLock
  <2>2. row.attempts = 0 /\ row.recent = account[v].recent
    BY <1>1, <1>2, <2>1 DEF Account
  <2>3. /\ account'[v] = row /\ \A u \in Users \ {v} : account'[u] = account[u]
        /\ guesses' = guesses /\ r \in Wiping(v)
    BY <1>1, <1>11, <2>1 DEF ClearExpiredLock, TypeOK, record, Wiping
  <2>4. GuessStep(v)
    <3>1. \E q \in Wiping(v) : Wiping(v)' \subseteq Wiping(v) \ {q}
      BY <1>1, <1>8, <2>3
    <3>2. /\ guesses'[v] = guesses[v] /\ account'[v].recent = account[v].recent
          /\ account'[v].attempts = 0
      BY <2>2, <2>3
    <3>3. QED  BY <3>1, <3>2 DEF GuessStep
  <2>5. QED  BY <1>9, <2>3, <2>4, GuessesKept
<1>12. CASE incrementFailedAttempts(r)
  <2>1. PICK row : /\ row = [account[v] EXCEPT !.attempts = account[v].attempts + 1,
                                               !.recent = TRUE]
                   /\ account' = [account EXCEPT ![v] = row]
    BY <1>1, <1>12 DEF incrementFailedAttempts
  <2>2. row.attempts = account[v].attempts + 1 /\ row.recent
    BY <1>1, <1>2, <2>1 DEF Account
  <2>3. /\ account'[v] = row /\ \A u \in Users \ {v} : account'[u] = account[u]
        /\ guesses'[v] = guesses[v] + 1 /\ \A u \in Users \ {v} : guesses'[u] = guesses[u]
        /\ r \notin Wiping(v)
    <3>1. account'[v] = row /\ \A u \in Users \ {v} : account'[u] = account[u]
      BY <1>1, <2>1 DEF TypeOK
    <3>2. guesses' = [guesses EXCEPT ![v] = guesses[v] + 1] /\ req[r].step = "countFailure"
      BY <1>1, <1>12 DEF incrementFailedAttempts
    <3>3. guesses'[v] = guesses[v] + 1 /\ \A u \in Users \ {v} : guesses'[u] = guesses[u]
      BY <1>1, <3>2 DEF TypeOK
    <3>4. QED  BY <3>1, <3>2, <3>3 DEF Wiping
  <2>4. GuessStep(v)
    <3>1. \E q \in Requests : q \notin Wiping(v)
      BY <2>3
    <3>2. Wiping(v)' \subseteq Wiping(v)
      BY <1>1, <1>8
    <3>3. account'[v].attempts = account[v].attempts + 1 /\ account'[v].recent
      BY <2>2, <2>3
    <3>4. QED  BY <2>3, <3>1, <3>2, <3>3 DEF GuessStep
  <2>5. QED  BY <1>9, <2>3, <2>4, GuessesKept
<1>13. CASE updatePasswordHashById(r)
  <2>1. PICK row : /\ row = [account[v] EXCEPT !.password = req[r].given, !.legacy = FALSE]
                   /\ account' = [account EXCEPT ![v] = row]
    BY <1>1, <1>13 DEF updatePasswordHashById
  <2>2. row.attempts = account[v].attempts /\ row.recent = account[v].recent
    BY <1>1, <1>2, <2>1 DEF Account
  <2>3. /\ account'[v] = row /\ \A u \in Users \ {v} : account'[u] = account[u]
        /\ guesses' = guesses
    BY <1>1, <1>13, <2>1 DEF updatePasswordHashById, TypeOK, record
  <2>4. QED  BY <1>9, <2>2, <2>3, GuessesKept
<1>14. CASE resetFailedAttempts(r) \/ updatePasswordById(r)
  <2>1. /\ guesses' = [guesses EXCEPT ![v] = 0]
        /\ \A u \in Users \ {v} : account'[u] = account[u]
    BY <1>1, <1>14 DEF resetFailedAttempts, updatePasswordById, TypeOK
  <2>2. guesses'[v] = 0 /\ \A u \in Users \ {v} : guesses'[u] = guesses[u]
    BY <1>1, <2>1 DEF TypeOK
  <2>3. GuessStep(v)
    BY <2>2 DEF GuessStep
  <2>4. QED  BY <1>9, <2>1, <2>2, <2>3, GuessesKept
<1>15. CASE \/ rotateTokensAtomic(r) \/ DeleteAccessToken(r) \/ DeleteRefreshToken(r)
            \/ markTokenAsUsed(r) \/ StatementFails(r)
  BY <1>10, <1>15 DEF rotateTokensAtomic, DeleteAccessToken, DeleteRefreshToken,
     markTokenAsUsed, StatementFails, record
<1>16. QED  BY <1>11, <1>12, <1>13, <1>14, <1>15 DEF RequestGoesOn

LEMMA TimeGuesses ==
    ASSUME TypeOK, TypeOK', FailuresBounded, GuessesCounted, TimePasses
    PROVE  GuessesCounted'
<1>1. PICK v \in Users :
        LockoutWindowEnds(v) \/ AccessExpires(v) \/ RefreshExpires(v) \/ RecoveryExpires(v)
  BY DEF TimePasses
<1>2. UNCHANGED req
  BY <1>1 DEF LockoutWindowEnds, AccessExpires, RefreshExpires, RecoveryExpires
<1>3. CASE LockoutWindowEnds(v)
  <2>1. \A u \in Users \ {v} : account'[u] = account[u] /\ guesses'[u] = guesses[u]
    BY <1>3 DEF LockoutWindowEnds, TypeOK
  <2>2. guesses'[v] = 0
    BY <1>3 DEF LockoutWindowEnds, TypeOK
  <2>3. \A u \in Users : GuessStep(u)
    BY <1>2, <2>1, <2>2 DEF GuessStep, Wiping
  <2>4. QED  BY <2>3, GuessesKept
<1>4. CASE ~LockoutWindowEnds(v)
  BY <1>1, <1>2, <1>4 DEF AccessExpires, RefreshExpires, RecoveryExpires, record,
     GuessesCounted, Wiping, Round
<1>5. QED  BY <1>3, <1>4

-----------------------------------------------------------------------------
LEMMA InitIInv == Init => IInv
<1> SUFFICES ASSUME Init PROVE IInv  OBVIOUS
<1>1. TypeOK /\ Typed(req)
  BY InitTypeOK
<1>2. \A u \in Users : /\ access[u].pair = 0 /\ refresh[u].pair = 0
                       /\ revoked[u] = 0 /\ setBy[u] = 0
  BY DEF Init, NoToken
<1>3. \A r \in Requests : Swept(r)
  BY DEF Init, Idle, Swept
<1>4. Sessions
  BY <1>2, <1>3 DEF Sessions, TokensPaired, OlderTokensRevoked
<1>5. FailuresBounded
  <2> SUFFICES ASSUME NEW u \in Users
               PROVE  account[u].attempts + Cardinality(Failing(u))
                        <= MAX_FAILED_ATTEMPTS - 1 + Cardinality(Requests)
    BY DEF FailuresBounded
  <2>1. account[u].attempts = 0
    BY DEF Init
  <2>2. Failing(u) = {}
    BY IdleTyped DEF Init, Failing
  <2>3. Cardinality(Failing(u)) = 0 /\ Cardinality(Requests) \in Nat
    BY <2>2, RequestsAssumption, FS_EmptySet, FS_CardinalityType
  <2>4. QED  BY <2>1, <2>3, AttemptsAssumption
<1>6. GuessesCounted
  BY DEF Init, GuessesCounted
<1>7. QED  BY <1>1, <1>4, <1>5, <1>6 DEF IInv

LEMMA NextIInv == IInv /\ [Next]_vars => IInv'
<1> SUFFICES ASSUME IInv, [Next]_vars PROVE IInv'  OBVIOUS
<1>0. TypeOK /\ Typed(req) /\ Sessions /\ FailuresBounded /\ GuessesCounted
  BY DEF IInv
<1>1. ASSUME NEW r \in Requests, RequestBegins(r) PROVE IInv'
  <2>1. TypeOK' /\ Typed(req')
    BY <1>0, <1>1, BeginTypeOK
  <2>2. PICK rec \in Request :
          /\ Start(r, rec) /\ (rec.step \notin Resetting \/ rec.op # "reset")
          /\ rec.step = "countFailure" => ~Locked(rec.user) /\ rec.user \in Users
          /\ rec.step = "clearExpired" => ~account[rec.user].recent
    BY <1>0, <1>1, BeginTypeOK
  <2>3. UNCHANGED <<account, tokens, recovery, mails, record>>
    BY <1>0, <1>1, BeginTypeOK
  <2>4. Sessions'
    BY <1>0, <2>2, <2>3, BeginSessions
  <2>5. FailuresBounded'
    BY <1>0, <2>1, <2>2, <2>3, BeginFailures
  <2>6. GuessesCounted'
    BY <1>0, <2>1, <2>2, <2>3, BeginGuesses DEF record
  <2>7. QED  BY <2>1, <2>4, <2>5, <2>6 DEF IInv, Typed
<1>2. ASSUME NEW r \in Requests, RequestGoesOn(r) PROVE IInv'
  <2>1. TypeOK' /\ Typed(req')
    BY <1>0, <1>2, GoOnTypeOK
  <2>2. Sessions'
    BY <1>0, <1>2, GoOnSessions
  <2>3. FailuresBounded'
    BY <1>0, <1>2, <2>1, GoOnFailures
  <2>4. GuessesCounted'
    BY <1>0, <1>2, <2>1, GoOnGuesses
  <2>5. QED  BY <2>1, <2>2, <2>3, <2>4 DEF IInv, Typed
<1>3. ASSUME NEW u \in Users, requestRecovery(u) PROVE IInv'
  <2>1. TypeOK'
    BY <1>0, <1>3, MailTypeOK
  <2>2. UNCHANGED <<account, access, refresh, req, setBy, revoked, guesses>>
    BY <1>3 DEF requestRecovery, tokens, record
  <2>3. Sessions'
    BY <1>0, <2>2 DEF Sessions, Swept, TokensPaired, OlderTokensRevoked
  <2>4. FailuresBounded'
    BY <1>0, <2>2 DEF FailuresBounded, Failing
  <2>5. GuessesCounted'
    BY <1>0, <2>2 DEF GuessesCounted, Wiping, Round
  <2>6. QED  BY <1>0, <2>1, <2>2, <2>3, <2>4, <2>5 DEF IInv, Typed
<1>4. ASSUME TimePasses PROVE IInv'
  <2>1. TypeOK' /\ Sessions'
    BY <1>0, <1>4, TimeTypeOK, TimeSessions
  <2>2. UNCHANGED req
    BY <1>4 DEF TimePasses, LockoutWindowEnds, AccessExpires, RefreshExpires, RecoveryExpires
  <2>3. FailuresBounded'
    BY <1>0, <1>4, <2>1, TimeFailures
  <2>4. GuessesCounted'
    BY <1>0, <1>4, <2>1, TimeGuesses
  <2>5. QED  BY <1>0, <2>1, <2>2, <2>3, <2>4 DEF IInv, Typed
<1>5. ASSUME UNCHANGED vars PROVE IInv'
  <2>1. TypeOK' /\ Typed(req)'
    BY <1>0, <1>5 DEF TypeOK, Typed, vars
  <2>2. Sessions'
    BY <1>0, <1>5 DEF Sessions, Swept, TokensPaired, OlderTokensRevoked, vars
  <2>3. FailuresBounded'
    BY <1>0, <1>5 DEF FailuresBounded, Failing, vars
  <2>4. GuessesCounted'
    BY <1>0, <1>5 DEF GuessesCounted, Wiping, Round, vars
  <2>5. QED  BY <2>1, <2>2, <2>3, <2>4 DEF IInv
<1>6. QED  BY <1>1, <1>2, <1>3, <1>4, <1>5 DEF Next

LEMMA Invariance == Spec => []IInv
<1>1. QED  BY InitIInv, NextIInv, PTL DEF Spec

\* USERS, the token tables and the requests keep their columns and fields; that a
\* request rewrites a hash only with a password it was given is what it takes.
THEOREM SessionsTypeCorrect == Spec => []TypeOK
<1>1. IInv => TypeOK
  BY DEF IInv
<1>2. QED  BY <1>1, Invariance, PTL

\* The two tokens of a user come from one rotation (rotateTokensAtomic), whatever
\* logins, refreshes, logouts and resets overlap.
THEOREM TokensArePaired == Spec => []TokensPaired
<1>1. IInv => TokensPaired
  BY DEF IInv, Sessions
<1>2. QED  BY <1>1, Invariance, PTL

\* Once a reset has run to its end, no token written before its password was set is
\* left (resetPassword, deleteUserTokens).
THEOREM ResetRevokesOlderTokens == Spec => []OlderTokensRevoked
<1>1. IInv => OlderTokensRevoked
  BY DEF IInv, Sessions
<1>2. QED  BY <1>1, Invariance, PTL

\* However many logins overlap, the counter of failures passes the threshold by at most
\* one failure for each (incrementFailedAttempts without the lock in its WHERE).
THEOREM FailedAttemptsBounded == Spec => []AttemptsBounded
<1>1. ASSUME TypeOK, FailuresBounded, NEW u \in Users
      PROVE  account[u].attempts < MAX_FAILED_ATTEMPTS + Cardinality(Requests)
  <2>1. Failing(u) \subseteq Requests
    BY DEF Failing
  <2>2. Cardinality(Failing(u)) \in Nat /\ Cardinality(Requests) \in Nat
    BY <2>1, RequestsAssumption, FS_Subset, FS_CardinalityType
  <2>3. account[u].attempts \in Nat
    BY <1>1 DEF TypeOK, Account
  <2>4. account[u].attempts + Cardinality(Failing(u))
          <= MAX_FAILED_ATTEMPTS - 1 + Cardinality(Requests)
    BY <1>1 DEF FailuresBounded
  <2>5. QED  BY <2>2, <2>3, <2>4, AttemptsAssumption
<1>2. IInv => AttemptsBounded
  BY <1>1 DEF IInv, AttemptsBounded
<1>3. QED  BY <1>2, Invariance, PTL


\* However late the resets of expired locks come, an account takes no more failures until
\* its lockout window has run out than a round for each request (login,
\* incrementFailedAttempts, resetFailedAttempts).
THEOREM GuessesAreBounded == Spec => []GuessesBounded
<1>1. ASSUME TypeOK, FailuresBounded, GuessesCounted, NEW u \in Users
      PROVE  guesses[u] <= Cardinality(Requests) *
                             (MAX_FAILED_ATTEMPTS + Cardinality(Requests) - 1)
  <2> DEFINE n == Cardinality(Requests)
             w == Cardinality(Wiping(u))
  <2>1. guesses[u] \in Nat /\ n \in Nat /\ w \in Nat /\ Round \in Nat
    BY <1>1, WipingFinite, RoundType DEF TypeOK
  <2>2. account[u].attempts \in Nat /\ account[u].attempts <= Round
    BY <1>1, AttemptsWithinRound
  <2>3. Round = MAX_FAILED_ATTEMPTS + n - 1
    BY <2>1, AttemptsAssumption DEF Round
  <2>4. guesses[u] > 0 => guesses[u] + Round * w <= account[u].attempts + Round * (n - 1)
    BY <1>1 DEF GuessesCounted
  <2> HIDE DEF n, w
  <2>5. /\ Round * w \in Nat /\ n * Round \in Nat
        /\ Round * (n - 1) = n * Round - Round
    BY <2>1
  <2>6. guesses[u] <= n * Round
    BY <2>1, <2>2, <2>4, <2>5
  <2>7. QED  BY <2>3, <2>6 DEF n
<1>2. IInv => GuessesBounded
  BY <1>1 DEF IInv, GuessesBounded
<1>3. QED  BY <1>2, Invariance, PTL
=============================================================================
