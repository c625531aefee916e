--------------------------- MODULE ClientSession ---------------------------
(***************************************************************************)
(* The session of one browser tab: the tokens in sessionStorage, the user  *)
(* of AuthProvider, and the interceptor of apiClient that refreshes the    *)
(* tokens on a 401 while other requests queue behind it.                   *)
(*                                                                         *)
(* The server is reduced to what the tab can tell of it: which pair of     *)
(* tokens it honours and whether the access token still lives.             *)
(***************************************************************************)
EXTENDS Integers, FiniteSets

CONSTANTS
    MaxCalls,    \* bound: requests the user makes
    MaxExpiries, \* bound: times the access token expires
    MaxReloads   \* bound: times the page is loaded again, or another browser logs in

ASSUME SessionAssumption == MaxCalls \in Nat /\ MaxExpiries \in Nat /\ MaxReloads \in Nat

VARIABLES
    sServer,     \* the pair honoured (0 none), whether its access token lives, pairs
                 \* issued, whether the password is temporary
    sStored,     \* sessionStorage: the pair, and whether a user id is there
    sUser,       \* AuthProvider's user: "none", "temp" (temporary password) or "full"
    sInit,       \* initializeAuth: loading, and the refresh token it captured
    sRefreshing, \* isRefreshing
    sCalls,      \* requests in flight or queued
    sLeaving,    \* window.location was assigned
    sCount,      \* calls, expiries and reloads so far
    sExcused     \* for the record: a login, logout or reset overlapped a refresh, or
                 \* an answer was lost

sessionVars == <<sServer, sStored, sUser, sInit, sRefreshing, sCalls, sLeaving, sCount, sExcused>>

Nobody == [pair |-> 0, user |-> FALSE]
Count == [calls : Nat, expiries : Nat, reloads : Nat]

\* pair: the pair the request presents, in its header or (refreshes) its body.
\* "refresh" is sent by the interceptor, "renew" and "me", "me2" by initializeAuth.
Kinds == {"me", "me2", "renew", "refresh", "login", "logout", "data", "password", "reset"}
Call(n, kind, pair) ==
    [n |-> n, kind |-> kind, pair |-> pair, retry |-> FALSE, step |-> "sent",
     got |-> 0, orphan |-> FALSE]

\* Requests that rotate or revoke the tokens.
Refreshes == {"refresh", "renew"}
Turns == {"login", "logout", "reset"}
Outstanding(kinds) == \E c \in sCalls : c.kind \in kinds

\* For the record: two of them are on their way at once, or one of the user's
\* before initializeAuth has ended.
Recorded ==
    LET turning == {c \in sCalls' : c.kind \in Refreshes \cup Turns /\ c.step /= "waiting"}
    IN  sExcused' = \/ sExcused
                    \/ \E c, d \in turning : c /= d
                    \/ sInit'.loading /\ \E c \in turning : c.kind \in Turns

\* cleanAuthStorage forgets the user and leaves sessionStorage.
cleanAuthStorage_UserOnly == UNCHANGED sStored /\ sUser' = "none"

cleanAuthStorage == sStored' = Nobody /\ sUser' = "none"

\* The test for a refresh token is negated.
Refreshable_Inverted == sStored.pair = 0

Refreshable == sStored.pair /= 0

(***************************************************************************)
(* initializeAuth, on every load of the page.                              *)
(***************************************************************************)
initializeAuth(stored, orphans) ==
    IF stored.pair = 0 \/ ~stored.user
    THEN /\ sStored' = Nobody
         /\ sInit' = [loading |-> FALSE, captured |-> 0]
         /\ sCalls' = orphans
    ELSE /\ sStored' = stored
         /\ sInit' = [loading |-> TRUE, captured |-> stored.pair]
         /\ sCalls' = orphans \cup {Call(0, "me", stored.pair)}

SessionInit ==
    /\ \E tokens \in {0, 1}, temp \in BOOLEAN :
         /\ tokens = 1 => ~temp
         /\ sServer = [pair |-> tokens, live |-> TRUE, issued |-> 1, temp |-> temp]
         /\ sStored = [pair |-> tokens, user |-> tokens = 1]
         /\ sInit = [loading |-> tokens = 1, captured |-> tokens]
         /\ sCalls = IF tokens = 1 THEN {Call(0, "me", 1)} ELSE {}
    /\ sUser = "none"
    /\ sRefreshing = FALSE
    /\ sLeaving = FALSE
    /\ sCount = [calls |-> 0, expiries |-> 0, reloads |-> 0]
    /\ sExcused = FALSE

(***************************************************************************)
(* The routes and the requests of the pages behind them.                   *)
(***************************************************************************)
PrivateRoute == ~sInit.loading /\ sUser /= "none"

Reachable(kind) ==
    \/ kind \in {"data"} /\ PrivateRoute /\ sUser /= "temp"
    \/ kind \in {"password", "logout"} /\ PrivateRoute
    \/ kind = "login" /\ sUser = "none"
    \/ kind = "reset"

\* The buttons of the forms wait for isSubmitting; those of the menu do not.
Free(kind) == kind \in {"data", "logout"} \/ ~Outstanding({kind})

Sent(kind) ==
    /\ Reachable(kind) /\ Free(kind) /\ sCount.calls < MaxCalls
    /\ sCalls' = sCalls \cup {Call(sCount.calls + 1, kind, sStored.pair)}
    /\ sCount' = [sCount EXCEPT !.calls = @ + 1]
    /\ UNCHANGED <<sServer, sStored, sUser, sInit, sRefreshing, sLeaving>>
    /\ Recorded

LoginPage_handleSubmit == Sent("login")
Sidebar_handleLogout == Sent("logout")
ChangePasswordPage_handleSubmit == Sent("password")
ResetPasswordPage_handleSubmit == Sent("reset")
PageRequest == Sent("data")

(***************************************************************************)
(* The server.                                                             *)
(***************************************************************************)
Issued == [sServer EXCEPT !.pair = sServer.issued + 1, !.issued = @ + 1, !.live = TRUE]

\* The requests of a page that is gone reach the server too; nobody hears the answer.
Answer(c, step, got) ==
    sCalls' = (sCalls \ {c}) \cup
                (IF c.orphan THEN {} ELSE {[c EXCEPT !.step = step, !.got = got]})

ServeAuthorized(c) ==
    /\ c.kind \in {"me", "me2", "data", "password"}
    /\ IF c.pair /= 0 /\ c.pair = sServer.pair /\ sServer.live
       THEN /\ Answer(c, "ok", 0)
            /\ sServer' = [sServer EXCEPT !.temp = @ /\ c.kind /= "password"]
       ELSE Answer(c, "401", 0) /\ UNCHANGED sServer

ServeRefresh(c) ==
    /\ c.kind \in Refreshes
    /\ IF c.pair = sServer.pair
       THEN Answer(c, "ok", sServer.issued + 1) /\ sServer' = Issued
       ELSE Answer(c, "401", 0) /\ UNCHANGED sServer

ServeLogin(c, right) ==
    /\ c.kind = "login"
    /\ IF right
       THEN Answer(c, "ok", sServer.issued + 1) /\ sServer' = Issued
       ELSE Answer(c, "401", 0) /\ UNCHANGED sServer

\* An unknown access token is no error: nothing is revoked and the answer is 200.
ServeLogout(c) ==
    /\ c.kind = "logout"
    /\ Answer(c, "ok", 0)
    /\ sServer' = IF c.pair = sServer.pair THEN [sServer EXCEPT !.pair = 0] ELSE sServer

ServeReset(c) ==
    /\ c.kind = "reset"
    /\ Answer(c, "ok", 0)
    /\ sServer' = [sServer EXCEPT !.pair = 0, !.temp = FALSE]

Serve(c) ==
    /\ c.step = "sent"
    /\ \/ ServeAuthorized(c) \/ ServeRefresh(c) \/ ServeLogout(c) \/ ServeReset(c)
       \/ \E right \in BOOLEAN : ServeLogin(c, right)
    /\ UNCHANGED <<sStored, sUser, sInit, sRefreshing, sLeaving, sCount, sExcused>>

\* An access token outlives the requests that are sent again right after its issue.
AccessExpires ==
    /\ sServer.live /\ sCount.expiries < MaxExpiries
    /\ \A c \in sCalls : ~c.retry /\ c.kind \notin Refreshes \cup {"me2"}
    /\ sServer' = [sServer EXCEPT !.live = FALSE]
    /\ sCount' = [sCount EXCEPT !.expiries = @ + 1]
    /\ UNCHANGED <<sStored, sUser, sInit, sRefreshing, sCalls, sLeaving, sExcused>>

\* The user logs in with another browser: this tab's pair is replaced.
LoginElsewhere ==
    /\ sServer.pair /= 0 /\ sCount.reloads < MaxReloads
    /\ sServer' = Issued
    /\ sCount' = [sCount EXCEPT !.reloads = @ + 1]
    /\ UNCHANGED <<sStored, sUser, sInit, sRefreshing, sCalls, sLeaving, sExcused>>

(***************************************************************************)
(* What the callers do when their requests end.                            *)
(***************************************************************************)
\* The requests of ended are rejected, calls are those that remain.  getMe's
\* failure is followed by a refresh with the captured token, that of the second
\* getMe and that of a logout by cleanAuthStorage.
Reject(ended, calls, stored) ==
    LET kinds == {c.kind : c \in ended}
        clean == kinds \cap {"me2", "renew", "logout"} /= {}
    IN  /\ sCalls' = calls \cup IF "me" \in kinds THEN {Call(0, "renew", sInit.captured)} ELSE {}
        /\ sStored' = IF clean THEN Nobody ELSE stored
        /\ sUser' = IF clean THEN "none" ELSE sUser
        /\ sInit' = [sInit EXCEPT !.loading = @ /\ kinds \cap {"me2", "renew"} = {}]

Account == IF sServer.temp THEN "temp" ELSE "full"

OkAnswered(c) ==
    LET rest == sCalls \ {c} IN
    /\ c.step = "ok" /\ c.kind \notin Refreshes
    /\ \/ /\ c.kind \in {"me", "me2"}
          /\ sUser' = Account
          /\ sInit' = [sInit EXCEPT !.loading = FALSE]
          /\ sCalls' = rest /\ UNCHANGED sStored
       \/ /\ c.kind = "login"
          /\ sStored' = [pair |-> c.got, user |-> TRUE]
          /\ sUser' = Account
          /\ sCalls' = rest /\ UNCHANGED sInit
       \/ /\ c.kind = "logout"
          /\ cleanAuthStorage
          /\ sCalls' = rest /\ UNCHANGED sInit
       \/ /\ c.kind = "password"
          /\ sCalls' = rest \cup {Call(c.n, "logout", sStored.pair)}
          /\ UNCHANGED <<sStored, sUser, sInit>>
       \/ /\ c.kind = "reset"
          /\ sStored' = Nobody
          /\ sCalls' = rest /\ UNCHANGED <<sUser, sInit>>
       \/ /\ c.kind = "data"
          /\ sCalls' = rest /\ UNCHANGED <<sStored, sUser, sInit>>
    /\ UNCHANGED <<sServer, sRefreshing, sLeaving, sCount>>

(***************************************************************************)
(* The interceptor.                                                        *)
(***************************************************************************)
\* A 401: queue behind a refresh that runs, give up without a refresh token,
\* else refresh; a request is sent again once.
Unauthorized(c) ==
    LET rest == sCalls \ {c} IN
    /\ c.step = "401" /\ c.kind \notin Refreshes
    /\ \/ c.retry /\ Reject({c}, rest, sStored) /\ UNCHANGED <<sRefreshing, sLeaving>>
       \/ /\ ~c.retry /\ sRefreshing
          /\ sCalls' = rest \cup {[c EXCEPT !.step = "queued"]}
          /\ UNCHANGED <<sStored, sUser, sInit, sRefreshing, sLeaving>>
       \/ /\ ~c.retry /\ ~sRefreshing /\ ~Refreshable
          /\ Reject({c}, rest, Nobody)
          /\ sLeaving' = TRUE
          /\ UNCHANGED sRefreshing
       \/ /\ ~c.retry /\ ~sRefreshing /\ Refreshable
          /\ sCalls' = rest \cup {[c EXCEPT !.step = "waiting", !.retry = TRUE],
                                  Call(c.n, "refresh", sStored.pair)}
          /\ sRefreshing' = TRUE
          /\ UNCHANGED <<sStored, sUser, sInit, sLeaving>>
    /\ UNCHANGED <<sServer, sCount>>

Held == {c \in sCalls : c.step \in {"queued", "waiting"}}

\* processQueue, then the request itself again, with the tokens just stored.
Refreshed(r) ==
    /\ r.kind = "refresh" /\ r.step = "ok"
    /\ sStored' = [sStored EXCEPT !.pair = r.got]
    /\ sCalls' = (sCalls \ (Held \cup {r})) \cup
                   {[c EXCEPT !.step = "sent", !.pair = r.got] : c \in Held}
    /\ sRefreshing' = FALSE
    /\ UNCHANGED <<sServer, sUser, sInit, sLeaving, sCount>>

\* A refresh that fails rejects its own request and leaves the queue.
RefreshFails_LeavesQueue(r) ==
    LET own == {c \in Held : c.step = "waiting"} IN
    /\ r.kind = "refresh" /\ r.step = "401"
    /\ Reject(own, sCalls \ (own \cup {r}), Nobody)
    /\ sRefreshing' = FALSE
    /\ sLeaving' = TRUE
    /\ UNCHANGED <<sServer, sCount>>

RefreshFails(r) ==
    /\ r.kind = "refresh" /\ r.step = "401"
    /\ Reject(Held, sCalls \ (Held \cup {r}), Nobody)
    /\ sRefreshing' = FALSE
    /\ sLeaving' = TRUE
    /\ UNCHANGED <<sServer, sCount>>

\* initializeAuth's own refresh: getMe again, or everything is cleaned.
Renewed(r) ==
    /\ r.kind = "renew"
    /\ \/ /\ r.step = "ok" /\ sStored.user
          /\ sStored' = [sStored EXCEPT !.pair = r.got]
          /\ sCalls' = (sCalls \ {r}) \cup {Call(0, "me2", r.got)}
          /\ UNCHANGED <<sUser, sInit>>
       \/ /\ r.step = "401" \/ (r.step = "ok" /\ ~sStored.user)
          /\ Reject({r}, sCalls \ {r}, sStored)
    /\ UNCHANGED <<sServer, sRefreshing, sLeaving, sCount>>

\* The network, or the server, fails one request, before or after it was served;
\* bound: once.
Lost(c) ==
    /\ c.step \in {"sent", "ok", "401"} /\ ~sExcused
    /\ IF c.kind = "refresh"
       THEN /\ Reject(Held, sCalls \ (Held \cup {c}), Nobody)
            /\ sRefreshing' = FALSE
            /\ sLeaving' = TRUE
       ELSE Reject({c}, sCalls \ {c}, sStored) /\ UNCHANGED <<sRefreshing, sLeaving>>
    /\ sExcused' = TRUE
    /\ UNCHANGED <<sServer, sCount>>

Answered(c) ==
    /\ ~c.orphan
    /\ \/ /\ OkAnswered(c) \/ Unauthorized(c) \/ Refreshed(c) \/ RefreshFails(c) \/ Renewed(c)
          /\ Recorded
       \/ Lost(c)

\* The page is loaded again: by the interceptor's window.location, or by the user.
Load(byUser) ==
    /\ IF byUser THEN sCount.reloads < MaxReloads ELSE sLeaving
    /\ sCount' = IF byUser THEN [sCount EXCEPT !.reloads = @ + 1] ELSE sCount
    /\ initializeAuth(sStored, {[c EXCEPT !.orphan = TRUE] :
                                  c \in {d \in sCalls : /\ d.step = "sent"
                                                      /\ d.kind \in Refreshes \cup Turns}})
    /\ sUser' = "none"
    /\ sRefreshing' = FALSE
    /\ sLeaving' = FALSE
    /\ sExcused' = ((sExcused /\ sStored.pair /= 0) \/ Outstanding(Refreshes \cup Turns))
    /\ UNCHANGED sServer

SessionUser ==
    \/ LoginPage_handleSubmit \/ Sidebar_handleLogout \/ ChangePasswordPage_handleSubmit
    \/ ResetPasswordPage_handleSubmit \/ PageRequest
    \/ Load(TRUE)

SessionAnswers == \E c \in sCalls : Serve(c) \/ Answered(c)

SessionNext ==
    \/ SessionUser \/ SessionAnswers \/ Load(FALSE)
    \/ AccessExpires \/ LoginElsewhere

SessionSpec == /\ SessionInit
               /\ [][SessionNext]_sessionVars
               /\ WF_sessionVars(SessionAnswers) /\ WF_sessionVars(Load(FALSE))

-----------------------------------------------------------------------------
Steps == {"sent", "ok", "401", "queued", "waiting"}
Calls == [n : Nat, kind : Kinds, pair : Nat, retry : BOOLEAN, step : Steps, got : Nat,
          orphan : BOOLEAN]

SessionTypeOK ==
    /\ sServer \in [pair : Nat, live : BOOLEAN, issued : Nat, temp : BOOLEAN]
    /\ sStored \in [pair : Nat, user : BOOLEAN]
    /\ sUser \in {"none", "temp", "full"}
    /\ sInit \in [loading : BOOLEAN, captured : Nat]
    /\ sRefreshing \in BOOLEAN /\ sLeaving \in BOOLEAN
    /\ sCalls \subseteq Calls
    /\ sCount \in Count

\* The interceptor's refreshes in flight.
Refreshing == {r \in sCalls : r.kind = "refresh" /\ ~r.orphan}

\* A request held back always has a refresh in flight that will release it, and
\* there is never a second one.
HeldForARefresh ==
    /\ Held /= {} => Refreshing /= {}
    /\ \A r, q \in Refreshing : r = q

\* With nothing in flight and nobody logged in, no tokens are left behind, unless a
\* login, a logout or a reset overlapped a refresh or initializeAuth, or an answer
\* was lost.
LoggedOutLeavesNothing ==
    sCalls = {} /\ ~sLeaving /\ ~sExcused /\ sUser = "none" => sStored = Nobody

\* The tab throws away tokens the server still honours only in those cases.
LiveSessionIsKept ==
    [][sStored.pair /= 0 /\ sStored'.pair = 0 /\ sStored.pair = sServer.pair
         => sExcused']_sessionVars

=============================================================================
