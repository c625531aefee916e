------------------------ MODULE ClientSessionProofs ------------------------
(***************************************************************************)
(* The session of a tab, for any number of requests, expiries and reloads. *)
(*                                                                         *)
(* SessionInv: the interceptor of apiClient never leaves a request queued  *)
(* with nothing to release it, and never refreshes twice at once.          *)
(* Inductive is QueueInv: isRefreshing says whether a refresh of the tab   *)
(* is in flight, there is one at most, only then are requests held, and    *)
(* neither refreshes nor requests of an earlier page are among them.       *)
(*                                                                         *)
(* OrderInv, on top of it: as long as no login, logout or reset overlaps a *)
(* rotation, the tab's tokens and the server's agree in whatever is in     *)
(* flight, so that nothing is left behind and nothing valid is cleared.    *)
(***************************************************************************)
EXTENDS ClientSession, TLAPS

QueueInv ==
    /\ \A c \in sCalls : c.orphan => c.step = "sent"
    /\ \A c \in Held : c.kind /= "refresh"
    /\ sRefreshing <=> Refreshing /= {}
    /\ Held /= {} => sRefreshing
    /\ \A r, q \in Refreshing : r = q

SessionInv == SessionTypeOK /\ QueueInv

\* A new request is of its type, and not held.
LEMMA CallTyped ==
    ASSUME NEW n \in Nat, NEW kind \in Kinds, NEW pair \in Nat
    PROVE  /\ Call(n, kind, pair) \in Calls
           /\ Call(n, kind, pair).kind = kind
           /\ Call(n, kind, pair).step = "sent"
           /\ Call(n, kind, pair).orphan = FALSE
  BY DEF Call, Calls, Steps

\* The queue depends on the requests and on isRefreshing only.
LEMMA QueueUnchanged ==
    ASSUME QueueInv, UNCHANGED <<sCalls, sRefreshing>>
    PROVE  QueueInv'
  BY DEF QueueInv, Held, Refreshing

\* Taking away requests that are no refresh of the tab, and adding one that is
\* neither held nor a refresh, keeps the queue.
LEMMA QueueShrinks ==
    ASSUME QueueInv, sRefreshing' = sRefreshing, NEW new,
           sCalls' \subseteq sCalls \cup new,
           \A r \in Refreshing : r \in sCalls',
           \A c \in new : c.step = "sent" /\ c.kind /= "refresh"
    PROVE  QueueInv'
  <1>1. Refreshing' = Refreshing
    BY DEF Refreshing
  <1>2. Held' \subseteq Held
    BY DEF Held
  <1> QED
    BY <1>1, <1>2 DEF QueueInv

\* What Reject leaves: some of the requests, with a renewal perhaps.
LEMMA RejectTyped ==
    ASSUME SessionTypeOK, NEW ended, NEW calls \in SUBSET Calls,
           NEW stored \in [pair : Nat, user : BOOLEAN],
           Reject(ended, calls, stored)
    PROVE  /\ sCalls' \subseteq Calls
           /\ sStored' \in [pair : Nat, user : BOOLEAN]
           /\ sUser' \in {"none", "temp", "full"}
           /\ sInit' \in [loading : BOOLEAN, captured : Nat]
           /\ \E new : /\ sCalls' = calls \cup new
                       /\ \A c \in new : c.step = "sent" /\ c.kind /= "refresh"
                                            /\ c.orphan = FALSE
  <1> DEFINE renewal == Call(0, "renew", sInit.captured)
             new == sCalls' \ calls
  <1>1. sInit.captured \in Nat
    BY DEF SessionTypeOK
  <1>2. /\ renewal \in Calls /\ renewal.kind = "renew" /\ renewal.step = "sent"
        /\ renewal.orphan = FALSE
    BY <1>1 DEF Call, Calls, Steps, Kinds
  <1>3. sCalls' = calls \/ sCalls' = calls \cup {renewal}
    BY DEF Reject
  <1>4. sCalls' \subseteq Calls
    BY <1>2, <1>3
  <1>5. sStored' \in [pair : Nat, user : BOOLEAN]
    BY DEF Reject, Nobody
  <1>6. sUser' \in {"none", "temp", "full"}
    BY DEF Reject, SessionTypeOK
  <1>7. sInit' \in [loading : BOOLEAN, captured : Nat]
    BY DEF Reject, SessionTypeOK
  <1>8. sCalls' = calls \cup new
    BY <1>3
  <1>9. \A c \in new : c.step = "sent" /\ c.kind /= "refresh" /\ c.orphan = FALSE
    BY <1>2, <1>3
  <1> QED
    BY <1>4, <1>5, <1>6, <1>7, <1>8, <1>9

-----------------------------------------------------------------------------
\* The initial states.
LEMMA SessionInvInit == SessionInit => SessionInv
  <1> SUFFICES ASSUME SessionInit PROVE SessionInv
    OBVIOUS
  <1>1. PICK tokens \in {0, 1}, temp \in BOOLEAN :
           /\ sServer = [pair |-> tokens, live |-> TRUE, issued |-> 1, temp |-> temp]
           /\ sStored = [pair |-> tokens, user |-> tokens = 1]
           /\ sInit = [loading |-> tokens = 1, captured |-> tokens]
           /\ sCalls = IF tokens = 1 THEN {Call(0, "me", 1)} ELSE {}
    BY DEF SessionInit
  <1>2. /\ Call(0, "me", 1) \in Calls /\ Call(0, "me", 1).kind = "me"
        /\ Call(0, "me", 1).step = "sent"
    BY DEF Call, Calls, Steps, Kinds
  <1>3. SessionTypeOK
    <2>1. sCalls \subseteq Calls
      BY <1>1, <1>2
    <2>2. /\ sServer \in [pair : Nat, live : BOOLEAN, issued : Nat, temp : BOOLEAN]
          /\ sStored \in [pair : Nat, user : BOOLEAN]
          /\ sInit \in [loading : BOOLEAN, captured : Nat]
      BY <1>1
    <2> QED
      BY <2>1, <2>2 DEF SessionInit, SessionTypeOK, Count
  <1>4. Held = {} /\ Refreshing = {} /\ sRefreshing = FALSE
    BY <1>1, <1>2 DEF Held, Refreshing, SessionInit
  <1>5. \A c \in sCalls : c.step = "sent"
    BY <1>1, <1>2
  <1> QED
    BY <1>3, <1>4, <1>5 DEF SessionInv, QueueInv

\* A request of the user joins those in flight.
LEMMA SentPreserves ==
    ASSUME SessionInv, NEW kind \in Turns \cup {"data", "password"}, Sent(kind)
    PROVE  SessionInv'
  <1> DEFINE new == Call(sCount.calls + 1, kind, sStored.pair)
  <1>1. sCount.calls + 1 \in Nat /\ sStored.pair \in Nat /\ kind \in Kinds /\ kind /= "refresh"
    BY DEF SessionInv, SessionTypeOK, Count, Kinds, Turns
  <1>2. new \in Calls /\ new.kind = kind /\ new.step = "sent"
    BY <1>1, CallTyped
  <1>3. sCalls' = sCalls \cup {new}
    BY DEF Sent
  <1>4. SessionTypeOK'
    BY <1>2, <1>3 DEF Sent, SessionInv, SessionTypeOK, Count
  <1>5. QueueInv'
    <2>1. \A r \in Refreshing : r \in sCalls'
      BY <1>3 DEF Refreshing
    <2>2. sRefreshing' = sRefreshing
      BY DEF Sent
    <2> DEFINE added == {new}
    <2>3. \A c \in added : c.step = "sent" /\ c.kind /= "refresh"
      BY <1>1, <1>2
    <2>4. sCalls' \subseteq sCalls \cup added
      BY <1>3
    <2> HIDE DEF added
    <2> QED
      BY <2>1, <2>2, <2>3, <2>4, QueueShrinks DEF SessionInv
  <1> QED
    BY <1>4, <1>5 DEF SessionInv

\* A request that is served keeps its place: answered, it is a refresh if it was.
LEMMA ServePreserves ==
    ASSUME SessionInv, NEW c \in sCalls, Serve(c)
    PROVE  SessionInv'
  <1>1. c \in Calls /\ c.step = "sent"
    BY DEF Serve, SessionInv, SessionTypeOK
  <1>2. sServer.issued + 1 \in Nat /\ sServer \in [pair : Nat, live : BOOLEAN, issued : Nat, temp : BOOLEAN]
    BY DEF SessionInv, SessionTypeOK
  <1>3. Issued \in [pair : Nat, live : BOOLEAN, issued : Nat, temp : BOOLEAN]
    BY <1>2 DEF Issued
  <1>4. sServer' \in [pair : Nat, live : BOOLEAN, issued : Nat, temp : BOOLEAN]
    <2>1. ServeAuthorized(c) => sServer' \in [pair : Nat, live : BOOLEAN, issued : Nat, temp : BOOLEAN]
      BY <1>2 DEF ServeAuthorized
    <2>2. ServeRefresh(c) \/ (\E right \in BOOLEAN : ServeLogin(c, right))
             => sServer' \in [pair : Nat, live : BOOLEAN, issued : Nat, temp : BOOLEAN]
      BY <1>2, <1>3 DEF ServeRefresh, ServeLogin
    <2>3. ServeLogout(c) \/ ServeReset(c)
             => sServer' \in [pair : Nat, live : BOOLEAN, issued : Nat, temp : BOOLEAN]
      <3>1. /\ [sServer EXCEPT !.pair = 0] \in [pair : Nat, live : BOOLEAN, issued : Nat, temp : BOOLEAN]
            /\ [sServer EXCEPT !.pair = 0, !.temp = FALSE]
                  \in [pair : Nat, live : BOOLEAN, issued : Nat, temp : BOOLEAN]
        BY <1>2
      <3> QED
        BY <1>2, <3>1 DEF ServeLogout, ServeReset
    <2> QED
      BY <2>1, <2>2, <2>3 DEF Serve
  <1>5. PICK step \in {"ok", "401"}, got \in Nat : Answer(c, step, got)
    BY <1>2 DEF Serve, ServeAuthorized, ServeRefresh, ServeLogin, ServeLogout, ServeReset
  <1> DEFINE answered == [c EXCEPT !.step = step, !.got = got]
  <1>6. /\ answered \in Calls /\ answered.kind = c.kind /\ answered.step = step
        /\ answered.orphan = c.orphan
    BY <1>1 DEF Calls, Steps
  <1>7. sCalls' = (sCalls \ {c}) \cup (IF c.orphan THEN {} ELSE {answered})
    BY <1>5 DEF Answer
  <1> HIDE DEF answered
  <1>8. UNCHANGED <<sStored, sUser, sInit, sRefreshing, sLeaving, sCount>>
    BY DEF Serve
  <1>9. SessionTypeOK'
    BY <1>4, <1>6, <1>7, <1>8 DEF SessionInv, SessionTypeOK
  <1>10. QueueInv'
    <2>1. \A d \in sCalls' : d.orphan => d.step = "sent"
      BY <1>6, <1>7 DEF SessionInv, QueueInv
    <2>2. Held' \subseteq Held
      BY <1>6, <1>7 DEF Held
    <2>3. CASE c \in Refreshing
      <3>1. Refreshing = {c} /\ c.orphan = FALSE
        BY <1>1, <2>3 DEF SessionInv, QueueInv, Refreshing, Calls
      <3>2. Refreshing' = {answered}
        BY <1>6, <1>7, <3>1 DEF Refreshing
      <3> QED
        BY <1>8, <2>1, <2>2, <3>1, <3>2 DEF SessionInv, QueueInv
    <2>4. CASE c \notin Refreshing
      <3>1. Refreshing' = Refreshing
        BY <1>6, <1>7, <2>4 DEF Refreshing
      <3> QED
        BY <1>8, <2>1, <2>2, <3>1 DEF SessionInv, QueueInv
    <2> QED
      BY <2>3, <2>4
  <1> QED
    BY <1>9, <1>10 DEF SessionInv

\* A request that is granted ends; a change of password goes on to a logout.
LEMMA OkAnsweredPreserves ==
    ASSUME SessionInv, NEW c \in sCalls, OkAnswered(c)
    PROVE  SessionInv'
  <1> DEFINE out == Call(c.n, "logout", sStored.pair)
             added == sCalls' \ sCalls
  <1>1. c \in Calls /\ sStored.pair \in Nat /\ c.n \in Nat /\ c.got \in Nat
    BY DEF SessionInv, SessionTypeOK, Calls
  <1>2. out \in Calls /\ out.kind = "logout" /\ out.step = "sent" /\ out.orphan = FALSE
    BY <1>1 DEF Call, Calls, Kinds, Steps
  <1> HIDE DEF out
  <1>3. sCalls' = sCalls \ {c} \/ sCalls' = (sCalls \ {c}) \cup {out}
    BY DEF OkAnswered, out
  <1>4. UNCHANGED <<sServer, sRefreshing, sLeaving, sCount>> /\ c.kind \notin Refreshes
    BY DEF OkAnswered
  <1>5. SessionTypeOK'
    <2>1. sStored' \in [pair : Nat, user : BOOLEAN]
      <3>1. /\ [pair |-> c.got, user |-> TRUE] \in [pair : Nat, user : BOOLEAN]
            /\ Nobody \in [pair : Nat, user : BOOLEAN]
            /\ sStored \in [pair : Nat, user : BOOLEAN]
        BY <1>1 DEF SessionInv, SessionTypeOK, Nobody
      <3>2. sStored' \in {sStored, Nobody, [pair |-> c.got, user |-> TRUE]}
        BY DEF OkAnswered, cleanAuthStorage
      <3> QED
        BY <3>1, <3>2
    <2>2. sUser' \in {"none", "temp", "full"}
      BY DEF OkAnswered, cleanAuthStorage, SessionInv, SessionTypeOK, Account
    <2>3. sInit' \in [loading : BOOLEAN, captured : Nat]
      BY DEF OkAnswered, SessionInv, SessionTypeOK
    <2> QED
      BY <1>2, <1>3, <1>4, <2>1, <2>2, <2>3 DEF SessionInv, SessionTypeOK
  <1>6. QueueInv'
    <2>1. sCalls' \subseteq sCalls \cup added /\ \A d \in added : d.step = "sent" /\ d.kind /= "refresh"
      BY <1>2, <1>3
    <2>2. \A r \in Refreshing : r \in sCalls'
      BY <1>3, <1>4 DEF Refreshing, Refreshes
    <2> HIDE DEF added
    <2> QED
      BY <1>4, <2>1, <2>2, QueueShrinks DEF SessionInv
  <1> QED
    BY <1>5, <1>6 DEF SessionInv

\* A rejected request that is no refresh leaves the queue as it is.
LEMMA RejectOne ==
    ASSUME SessionInv, NEW c \in sCalls, c.kind /= "refresh",
           NEW stored \in [pair : Nat, user : BOOLEAN],
           Reject({c}, sCalls \ {c}, stored),
           UNCHANGED <<sServer, sRefreshing, sCount>>, sLeaving' \in BOOLEAN
    PROVE  SessionInv'
  <1>1. SessionTypeOK /\ sCalls \ {c} \in SUBSET Calls
    BY DEF SessionInv, SessionTypeOK
  <1>2. /\ sCalls' \subseteq Calls
        /\ sStored' \in [pair : Nat, user : BOOLEAN]
        /\ sUser' \in {"none", "temp", "full"}
        /\ sInit' \in [loading : BOOLEAN, captured : Nat]
        /\ \E new : /\ sCalls' = (sCalls \ {c}) \cup new
                    /\ \A d \in new : d.step = "sent" /\ d.kind /= "refresh"
                                         /\ d.orphan = FALSE
    BY <1>1, RejectTyped
  <1>3. SessionTypeOK'
    BY <1>2 DEF SessionInv, SessionTypeOK
  <1>4. PICK new : /\ sCalls' = (sCalls \ {c}) \cup new
                   /\ \A d \in new : d.step = "sent" /\ d.kind /= "refresh"
    BY <1>2
  <1>5. sCalls' \subseteq sCalls \cup new /\ \A r \in Refreshing : r \in sCalls'
    BY <1>4 DEF Refreshing
  <1> QED
    BY <1>3, <1>4, <1>5, QueueShrinks DEF SessionInv

\* A refresh that fails, or is lost, takes with it all that were held.
LEMMA RejectHeld ==
    ASSUME SessionInv, NEW r \in sCalls, r.kind = "refresh", ~r.orphan,
           Reject(Held, sCalls \ (Held \cup {r}), Nobody),
           UNCHANGED <<sServer, sCount>>, sRefreshing' = FALSE, sLeaving' \in BOOLEAN
    PROVE  SessionInv'
  <1>1. SessionTypeOK /\ sCalls \ (Held \cup {r}) \in SUBSET Calls
    BY DEF SessionInv, SessionTypeOK
  <1>2. Nobody \in [pair : Nat, user : BOOLEAN]
    BY DEF Nobody
  <1>3. /\ sCalls' \subseteq Calls
        /\ sStored' \in [pair : Nat, user : BOOLEAN]
        /\ sUser' \in {"none", "temp", "full"}
        /\ sInit' \in [loading : BOOLEAN, captured : Nat]
        /\ \E new : /\ sCalls' = (sCalls \ (Held \cup {r})) \cup new
                    /\ \A d \in new : d.step = "sent" /\ d.kind /= "refresh"
                                         /\ d.orphan = FALSE
    BY <1>1, <1>2, RejectTyped
  <1>4. SessionTypeOK'
    BY <1>3 DEF SessionInv, SessionTypeOK
  <1>5. PICK new : /\ sCalls' = (sCalls \ (Held \cup {r})) \cup new
                   /\ \A d \in new : d.step = "sent" /\ d.kind /= "refresh" /\ d.orphan = FALSE
    BY <1>3
  <1>6. Refreshing = {r}
    BY DEF SessionInv, QueueInv, Refreshing
  <1>7. Refreshing' = {}
    BY <1>5, <1>6 DEF Refreshing
  <1>8. Held' = {}
    BY <1>5 DEF Held
  <1>9. \A d \in sCalls' : d.orphan => d.step = "sent"
    BY <1>5 DEF SessionInv, QueueInv
  <1>10. QueueInv'
    BY <1>7, <1>8, <1>9 DEF QueueInv
  <1> QED
    BY <1>4, <1>10 DEF SessionInv

\* A 401: the request gives up, joins the queue, or starts the only refresh.
LEMMA UnauthorizedPreserves ==
    ASSUME SessionInv, NEW c \in sCalls, ~c.orphan, Unauthorized(c)
    PROVE  SessionInv'
  <1> DEFINE rest == sCalls \ {c}
             queued == [c EXCEPT !.step = "queued"]
             waiting == [c EXCEPT !.step = "waiting", !.retry = TRUE]
             refresh == Call(c.n, "refresh", sStored.pair)
  <1>1. /\ c \in Calls /\ sStored.pair \in Nat /\ c.n \in Nat /\ c.orphan = FALSE
        /\ sStored \in [pair : Nat, user : BOOLEAN] /\ Nobody \in [pair : Nat, user : BOOLEAN]
        /\ sLeaving \in BOOLEAN
    BY DEF SessionInv, SessionTypeOK, Calls, Nobody
  <1>2. c.kind \notin Refreshes /\ c.kind /= "refresh" /\ UNCHANGED <<sServer, sCount>>
    BY DEF Unauthorized, Refreshes
  <1>3. /\ queued \in Calls /\ queued.kind = c.kind /\ queued.step = "queued"
        /\ queued.orphan = FALSE
    BY <1>1 DEF Calls, Steps
  <1>4. /\ waiting \in Calls /\ waiting.kind = c.kind /\ waiting.step = "waiting"
        /\ waiting.orphan = FALSE
    BY <1>1 DEF Calls, Steps
  <1>5. /\ refresh \in Calls /\ refresh.kind = "refresh" /\ refresh.step = "sent"
        /\ refresh.orphan = FALSE
    BY <1>1 DEF Call, Calls, Kinds, Steps
  <1>6. CASE Reject({c}, rest, sStored) /\ UNCHANGED <<sRefreshing, sLeaving>>
    BY <1>1, <1>2, <1>6, RejectOne
  <1>7. CASE Reject({c}, rest, Nobody) /\ sLeaving' = TRUE /\ UNCHANGED sRefreshing
    BY <1>1, <1>2, <1>7, RejectOne
  <1>8. CASE /\ sRefreshing
             /\ sCalls' = rest \cup {queued}
             /\ UNCHANGED <<sStored, sUser, sInit, sRefreshing, sLeaving>>
    <2> HIDE DEF queued
    <2>1. SessionTypeOK'
      BY <1>2, <1>3, <1>8 DEF SessionInv, SessionTypeOK
    <2>2. Refreshing' = Refreshing
      BY <1>2, <1>3, <1>8 DEF Refreshing
    <2>3. Held' \subseteq Held \cup {queued}
      BY <1>8 DEF Held
    <2>4. \A d \in sCalls' : d.orphan => d.step = "sent"
      BY <1>3, <1>8 DEF SessionInv, QueueInv
    <2>5. QueueInv'
      BY <1>2, <1>3, <1>8, <2>2, <2>3, <2>4 DEF SessionInv, QueueInv
    <2> QED
      BY <2>1, <2>5 DEF SessionInv
  <1>9. CASE /\ ~sRefreshing /\ sRefreshing' = TRUE
             /\ sCalls' = rest \cup {waiting, refresh}
             /\ UNCHANGED <<sStored, sUser, sInit, sLeaving>>
    <2> HIDE DEF waiting, refresh
    <2>1. SessionTypeOK'
      BY <1>2, <1>4, <1>5, <1>9 DEF SessionInv, SessionTypeOK
    <2>2. Refreshing = {}
      BY <1>9 DEF SessionInv, QueueInv
    <2>3. Refreshing' = {refresh}
      BY <1>2, <1>4, <1>5, <1>9, <2>2 DEF Refreshing
    <2>4. Held' \subseteq Held \cup {waiting}
      BY <1>5, <1>9 DEF Held
    <2>5. \A d \in sCalls' : d.orphan => d.step = "sent"
      BY <1>4, <1>5, <1>9 DEF SessionInv, QueueInv
    <2>6. QueueInv'
      BY <1>2, <1>4, <1>9, <2>3, <2>4, <2>5 DEF SessionInv, QueueInv
    <2> QED
      BY <2>1, <2>6 DEF SessionInv
  <1> HIDE DEF rest, queued, waiting, refresh
  <1> QED
    BY <1>6, <1>7, <1>8, <1>9 DEF Unauthorized, rest, queued, waiting, refresh

\* The refresh releases all that were held.
LEMMA RefreshedPreserves ==
    ASSUME SessionInv, NEW r \in sCalls, ~r.orphan, Refreshed(r)
    PROVE  SessionInv'
  <1> DEFINE again(c) == [c EXCEPT !.step = "sent", !.pair = r.got]
  <1>1. r \in Calls /\ r.got \in Nat /\ r.kind = "refresh" /\ sStored \in [pair : Nat, user : BOOLEAN]
    BY DEF SessionInv, SessionTypeOK, Calls, Refreshed
  <1>2. \A c \in Held : /\ again(c) \in Calls /\ again(c).kind /= "refresh"
                        /\ again(c).step = "sent" /\ again(c).orphan = FALSE
    <2> SUFFICES ASSUME NEW c \in Held
                 PROVE  /\ again(c) \in Calls /\ again(c).kind /= "refresh"
                        /\ again(c).step = "sent" /\ again(c).orphan = FALSE
      OBVIOUS
    <2>1. c \in Calls /\ c.kind /= "refresh" /\ c.orphan = FALSE
      BY DEF SessionInv, SessionTypeOK, QueueInv, Held, Calls
    <2> QED
      BY <1>1, <2>1 DEF Calls, Steps
  <1>3. /\ sCalls' = (sCalls \ (Held \cup {r})) \cup {again(c) : c \in Held}
        /\ sRefreshing' = FALSE /\ sStored' = [sStored EXCEPT !.pair = r.got]
        /\ UNCHANGED <<sServer, sUser, sInit, sLeaving, sCount>>
    BY DEF Refreshed
  <1> HIDE DEF again
  <1>4. SessionTypeOK'
    BY <1>1, <1>2, <1>3 DEF SessionInv, SessionTypeOK
  <1>5. Refreshing = {r}
    BY <1>1 DEF SessionInv, QueueInv, Refreshing
  <1>6. Refreshing' = {}
    BY <1>2, <1>3, <1>5 DEF Refreshing
  <1>7. Held' = {}
    BY <1>2, <1>3 DEF Held
  <1>8. \A d \in sCalls' : d.orphan => d.step = "sent"
    BY <1>2, <1>3 DEF SessionInv, QueueInv
  <1>9. QueueInv'
    BY <1>3, <1>6, <1>7, <1>8 DEF QueueInv
  <1> QED
    BY <1>4, <1>9 DEF SessionInv

\* initializeAuth's own refresh does not touch the queue.
LEMMA RenewedPreserves ==
    ASSUME SessionInv, NEW r \in sCalls, ~r.orphan, Renewed(r)
    PROVE  SessionInv'
  <1> DEFINE again == Call(0, "me2", r.got)
             added == {again}
  <1>1. /\ r \in Calls /\ r.got \in Nat /\ r.kind = "renew" /\ r.kind /= "refresh"
        /\ sStored \in [pair : Nat, user : BOOLEAN] /\ sLeaving \in BOOLEAN
        /\ UNCHANGED <<sServer, sRefreshing, sLeaving, sCount>>
    BY DEF SessionInv, SessionTypeOK, Calls, Renewed
  <1>2. again \in Calls /\ again.kind = "me2" /\ again.step = "sent"
    BY <1>1 DEF Call, Calls, Kinds, Steps
  <1>3. CASE Reject({r}, sCalls \ {r}, sStored)
    BY <1>1, <1>3, RejectOne
  <1>4. CASE /\ sStored' = [sStored EXCEPT !.pair = r.got]
             /\ sCalls' = (sCalls \ {r}) \cup added
             /\ UNCHANGED <<sUser, sInit>>
    <2> HIDE DEF again
    <2>1. SessionTypeOK'
      BY <1>1, <1>2, <1>4 DEF SessionInv, SessionTypeOK
    <2>2. sCalls' \subseteq sCalls \cup added /\ \A q \in Refreshing : q \in sCalls'
      BY <1>1, <1>4 DEF Refreshing
    <2>3. \A d \in added : d.step = "sent" /\ d.kind /= "refresh"
      BY <1>2
    <2> HIDE DEF added
    <2> QED
      BY <1>1, <2>1, <2>2, <2>3, QueueShrinks DEF SessionInv
  <1> QED
    BY <1>3, <1>4 DEF Renewed

\* A new load of the page starts with an empty queue.
LEMMA LoadPreserves ==
    ASSUME SessionInv, NEW byUser \in BOOLEAN, Load(byUser)
    PROVE  SessionInv'
  <1> DEFINE left == {d \in sCalls : d.step = "sent" /\ d.kind \in Refreshes \cup Turns}
             orphan(c) == [c EXCEPT !.orphan = TRUE]
             orphans == {orphan(c) : c \in left}
             me == Call(0, "me", sStored.pair)
  <1>1. \A c \in orphans : c \in Calls /\ c.step = "sent" /\ c.orphan = TRUE
    BY DEF SessionInv, SessionTypeOK, Calls
  <1>2. /\ sStored \in [pair : Nat, user : BOOLEAN] /\ sStored.pair \in Nat
        /\ Nobody \in [pair : Nat, user : BOOLEAN]
    BY DEF SessionInv, SessionTypeOK, Nobody
  <1>3. me \in Calls /\ me.kind = "me" /\ me.step = "sent"
    BY <1>2 DEF Call, Calls, Kinds, Steps
  <1>4. initializeAuth(sStored, orphans) /\ sRefreshing' = FALSE /\ sLeaving' = FALSE
           /\ sUser' = "none" /\ sServer' = sServer
    BY DEF Load
  <1> HIDE DEF orphans, me
  <1>5. sCalls' = orphans \/ sCalls' = orphans \cup {me}
    BY <1>4 DEF initializeAuth, me
  <1>6. SessionTypeOK'
    <2>1. sStored' \in [pair : Nat, user : BOOLEAN]
      BY <1>2, <1>4 DEF initializeAuth
    <2>2. sInit' \in [loading : BOOLEAN, captured : Nat]
      <3>1. sInit' = [loading |-> FALSE, captured |-> 0]
              \/ sInit' = [loading |-> TRUE, captured |-> sStored.pair]
        BY <1>4 DEF initializeAuth
      <3>2. /\ [loading |-> FALSE, captured |-> 0] \in [loading : BOOLEAN, captured : Nat]
            /\ [loading |-> TRUE, captured |-> sStored.pair] \in [loading : BOOLEAN, captured : Nat]
        BY <1>2
      <3> QED
        BY <3>1, <3>2
    <2>3. sCount' \in Count
      BY DEF Load, SessionInv, SessionTypeOK, Count
    <2>4. sCalls' \subseteq Calls
      BY <1>1, <1>3, <1>5
    <2> QED
      BY <1>4, <2>1, <2>2, <2>3, <2>4 DEF SessionInv, SessionTypeOK
  <1>7. Held' = {} /\ Refreshing' = {}
    BY <1>1, <1>3, <1>5 DEF Held, Refreshing
  <1>8. \A c \in sCalls' : c.step = "sent"
    BY <1>1, <1>3, <1>5
  <1>9. QueueInv'
    BY <1>4, <1>7, <1>8 DEF QueueInv
  <1> QED
    BY <1>6, <1>9 DEF SessionInv

-----------------------------------------------------------------------------
\* Every step keeps the invariant.
LEMMA SessionInvStep == SessionInv /\ [SessionNext]_sessionVars => SessionInv'
  <1> SUFFICES ASSUME SessionInv, [SessionNext]_sessionVars PROVE SessionInv'
    OBVIOUS
  <1>1. CASE LoginPage_handleSubmit
    BY <1>1, SentPreserves DEF LoginPage_handleSubmit, Turns
  <1>2. CASE Sidebar_handleLogout
    BY <1>2, SentPreserves DEF Sidebar_handleLogout, Turns
  <1>3. CASE ChangePasswordPage_handleSubmit
    BY <1>3, SentPreserves DEF ChangePasswordPage_handleSubmit
  <1>4. CASE ResetPasswordPage_handleSubmit
    BY <1>4, SentPreserves DEF ResetPasswordPage_handleSubmit, Turns
  <1>5. CASE PageRequest
    BY <1>5, SentPreserves DEF PageRequest
  <1>6. CASE \E byUser \in BOOLEAN : Load(byUser)
    BY <1>6, LoadPreserves
  <1>7. ASSUME NEW c \in sCalls, Serve(c)
        PROVE  SessionInv'
    BY <1>7, ServePreserves
  <1>8. ASSUME NEW c \in sCalls, Answered(c)
        PROVE  SessionInv'
    <2>1. ~c.orphan
      BY <1>8 DEF Answered
    <2>2. CASE OkAnswered(c)
      BY <2>2, OkAnsweredPreserves
    <2>3. CASE Unauthorized(c)
      BY <2>1, <2>3, UnauthorizedPreserves
    <2>4. CASE Refreshed(c)
      BY <2>1, <2>4, RefreshedPreserves
    <2>5. CASE RefreshFails(c)
      BY <2>1, <2>5, RejectHeld DEF RefreshFails
    <2>6. CASE Renewed(c)
      BY <2>1, <2>6, RenewedPreserves
    <2>7. CASE Lost(c)
      <3>1. CASE c.kind = "refresh"
        BY <2>1, <2>7, <3>1, RejectHeld DEF Lost
      <3>2. CASE c.kind /= "refresh"
        <4>1. sStored \in [pair : Nat, user : BOOLEAN] /\ sLeaving \in BOOLEAN
          BY DEF SessionInv, SessionTypeOK
        <4> QED
          BY <2>7, <3>2, <4>1, RejectOne DEF Lost
      <3> QED
        BY <3>1, <3>2
    <2> QED
      BY <1>8, <2>2, <2>3, <2>4, <2>5, <2>6, <2>7 DEF Answered
  <1>9. CASE AccessExpires \/ LoginElsewhere
    <2>1. QueueInv'
      BY <1>9, QueueUnchanged DEF SessionInv, AccessExpires, LoginElsewhere
    <2>2. SessionTypeOK'
      <3>1. sServer' \in [pair : Nat, live : BOOLEAN, issued : Nat, temp : BOOLEAN]
        <4>1. sServer \in [pair : Nat, live : BOOLEAN, issued : Nat, temp : BOOLEAN]
          BY DEF SessionInv, SessionTypeOK
        <4>2. sServer.issued + 1 \in Nat
          BY <4>1
        <4>3. /\ [sServer EXCEPT !.live = FALSE]
                    \in [pair : Nat, live : BOOLEAN, issued : Nat, temp : BOOLEAN]
              /\ Issued \in [pair : Nat, live : BOOLEAN, issued : Nat, temp : BOOLEAN]
          BY <4>1, <4>2 DEF Issued
        <4> QED
          BY <1>9, <4>3 DEF AccessExpires, LoginElsewhere
      <3>2. sCount' \in Count
        BY <1>9 DEF SessionInv, SessionTypeOK, AccessExpires, LoginElsewhere, Count
      <3> QED
        BY <1>9, <3>1, <3>2 DEF SessionInv, SessionTypeOK, AccessExpires, LoginElsewhere
    <2> QED
      BY <2>1, <2>2 DEF SessionInv
  <1>10. CASE UNCHANGED sessionVars
    <2>1. QueueInv'
      BY <1>10, QueueUnchanged DEF SessionInv, sessionVars
    <2>2. SessionTypeOK'
      BY <1>10 DEF SessionInv, SessionTypeOK, sessionVars
    <2> QED
      BY <2>1, <2>2 DEF SessionInv
  <1> QED
    BY <1>1, <1>2, <1>3, <1>4, <1>5, <1>6, <1>7, <1>8, <1>9, <1>10
       DEF SessionNext, SessionUser, SessionAnswers

-----------------------------------------------------------------------------
(***************************************************************************)
(* What the tab keeps and what the server honours.  Inductive is           *)
(* OrderInv: while the rotations and revocations of the tab come one at a  *)
(* time, each is made with the tokens stored, and whatever clears them     *)
(* finds the tab Apart from the server.                                    *)
(***************************************************************************)
Turning == Refreshes \cup Turns
Starting == {"me", "me2", "renew"}   \* the requests of initializeAuth

\* Every pair known to the tab was issued.
TokensAreIssued ==
    /\ sServer.pair <= sServer.issued /\ sStored.pair <= sServer.issued
    /\ \A c \in sCalls : c.got <= sServer.issued

\* The tab holds no tokens, or others than the server honours.
Apart == sStored.pair = 0 \/ sStored.pair /= sServer.pair

\* The access token of a pair lives if the pair is the one honoured.
Lives(pair) == pair = sServer.pair /\ pair /= 0 => sServer.live

\* One rotation or revocation at a time, none of an earlier page and none held back.
OneTurns ==
    /\ \A c \in sCalls : ~c.orphan
    /\ \A c, d \in sCalls : c.kind \in Turning /\ d.kind \in Turning => c = d
    /\ \A c \in sCalls : /\ c.kind \in Turning => c.step \in {"sent", "ok", "401"}
                         /\ c.kind \in {"logout", "reset"} => c.step /= "401"

\* initializeAuth waits for one request, alone but for the refresh that holds it back.
StartsAlone ==
    /\ sInit.loading => \A c \in sCalls : c.kind \in Starting \cup {"refresh"}
    /\ sInit.loading <=> \E c \in sCalls : c.kind \in Starting
    /\ \A c, d \in sCalls : c.kind \in Starting /\ d.kind \in Starting => c = d
    /\ \A r, c \in sCalls : r.kind = "refresh" /\ c.kind \in Starting => c \in Held

\* Tokens and user id are stored and cleared together, and nobody is logged in over
\* what another left.
StoredTogether ==
    /\ sStored.user <=> sStored.pair /= 0
    /\ sUser = "none" => sStored = Nobody \/ sInit.loading
    /\ \A c \in sCalls : /\ c.kind = "login" => sStored = Nobody
                         /\ c.kind = "refresh" => sStored.pair /= 0

\* Requests sent present the tokens stored, and a refusal of them, or a revocation,
\* leaves the tab apart from the server.
Presented ==
    \A c \in sCalls :
        /\ c.kind \in {"refresh", "logout"} /\ c.step = "sent" => c.pair = sStored.pair
        /\ c.kind \in {"refresh", "renew"} /\ c.step = "ok" => c.got /= 0 /\ Lives(c.got)
        /\ c.kind = "login" /\ c.step = "ok" => c.got /= 0
        /\ c.kind = "renew" => Apart
        /\ c.kind = "refresh" /\ c.step = "401" => Apart
        /\ c.kind \in {"logout", "reset"} /\ c.step = "ok" => Apart
        /\ c.kind = "me2" \/ (c.kind = "me" /\ c.retry) =>
             /\ c.step = "sent" => c.pair = sStored.pair /\ Lives(c.pair)
             /\ c.step = "401" => Apart

Orderly == OneTurns /\ StartsAlone /\ StoredTogether /\ Presented

OrderInv == SessionInv /\ TokensAreIssued /\ (~sExcused => Orderly)

\* What the record says while it excuses nothing.
LEMMA RecordedOnce ==
    ASSUME Recorded, ~sExcused'
    PROVE  /\ ~sExcused
           /\ \A c, d \in sCalls' :
                c.kind \in Turning /\ c.step /= "waiting" /\ d.kind \in Turning
                  /\ d.step /= "waiting" => c = d
           /\ sInit'.loading =>
                \A c \in sCalls' : c.kind \in Turns => c.step = "waiting"
  <1> DEFINE turning == {c \in sCalls' : c.kind \in Refreshes \cup Turns /\ c.step /= "waiting"}
  <1>1. ~(\/ sExcused
          \/ \E c, d \in turning : c /= d
          \/ sInit'.loading /\ \E c \in turning : c.kind \in Turns)
    BY Zenon DEF Recorded
  <1>2. \A c \in sCalls' : c.kind \in Turning /\ c.step /= "waiting" => c \in turning
    BY DEF Turning
  <1>3. Turns \subseteq Turning
    BY DEF Turning
  <1> HIDE DEF turning
  <1> QED
    BY <1>1, <1>2, <1>3

\* The server keeps its pair, revokes it or issues another.
ServerTurns ==
    /\ sServer'.issued \in Nat /\ sServer'.issued >= sServer.issued
    /\ sServer'.pair <= sServer'.issued
    /\ \/ sServer'.pair = sServer.pair /\ sServer'.live = sServer.live
       \/ sServer'.pair = 0
       \/ sServer'.pair = sServer.issued + 1 /\ sServer'.live = TRUE

\* The server never comes back to a pair that the tab holds.
LEMMA StaysApart ==
    ASSUME OrderInv, ServerTurns, sStored' = sStored
    PROVE  /\ Apart => Apart'
           /\ \A pair \in Nat : pair <= sServer.issued /\ Lives(pair) => Lives(pair)'
           /\ sStored'.pair <= sServer'.issued
           /\ \A c \in sCalls : c.got \in Nat /\ c.got <= sServer'.issued
  <1>1. /\ sStored.pair \in Nat /\ sServer.pair \in Nat /\ sServer.issued \in Nat
        /\ sStored.pair <= sServer.issued /\ sServer.pair <= sServer.issued
    BY DEF OrderInv, SessionInv, SessionTypeOK, TokensAreIssued
  <1>2. \A c \in sCalls : c.got \in Nat /\ c.got <= sServer.issued
    BY DEF OrderInv, SessionInv, SessionTypeOK, Calls, TokensAreIssued
  <1>3. Apart => Apart'
    BY <1>1 DEF ServerTurns, Apart
  <1>4. \A pair \in Nat : pair <= sServer.issued /\ Lives(pair) => Lives(pair)'
    BY <1>1 DEF ServerTurns, Lives
  <1> QED
    BY <1>1, <1>2, <1>3, <1>4 DEF ServerTurns

\* A new pair is one the tab does not know yet.
LEMMA IssuedTurns ==
    ASSUME SessionInv, sServer' = Issued
    PROVE  /\ ServerTurns /\ sServer'.pair = sServer.issued + 1 /\ sServer'.live
           /\ sServer'.issued = sServer.issued + 1
  <1>1. sServer \in [pair : Nat, live : BOOLEAN, issued : Nat, temp : BOOLEAN]
    BY DEF SessionInv, SessionTypeOK
  <1>2. Issued.pair = sServer.issued + 1 /\ Issued.live = TRUE /\ Issued.issued = sServer.issued + 1
    BY <1>1 DEF Issued
  <1> QED
    BY <1>1, <1>2 DEF ServerTurns

\* A request of the user is sent with the tokens stored.
LEMMA SentOrders ==
    ASSUME OrderInv, SessionInv', NEW kind \in Turns \cup {"data", "password"}, Sent(kind)
    PROVE  OrderInv'
  <1> DEFINE new == Call(sCount.calls + 1, kind, sStored.pair)
  <1>1. /\ new.kind = kind /\ new.step = "sent" /\ new.orphan = FALSE /\ new.got = 0
        /\ new.pair = sStored.pair
    BY DEF Call
  <1>2. /\ sCalls' = sCalls \cup {new} /\ Recorded /\ Reachable(kind)
        /\ UNCHANGED <<sServer, sStored, sUser, sInit, sRefreshing>>
    BY DEF Sent
  <1> HIDE DEF new
  <1>3. TokensAreIssued'
    BY <1>1, <1>2 DEF OrderInv, SessionInv, SessionTypeOK, TokensAreIssued
  <1>4. ASSUME ~sExcused' PROVE Orderly'
    <2>1. /\ ~sExcused /\ Orderly
          /\ \A c, d \in sCalls' :
                c.kind \in Turning /\ c.step /= "waiting" /\ d.kind \in Turning
                  /\ d.step /= "waiting" => c = d
          /\ sInit'.loading => \A c \in sCalls' : c.kind \in Turns => c.step = "waiting"
      BY <1>2, <1>4, RecordedOnce DEF OrderInv
    <2>2. ~sInit.loading
      BY <1>1, <1>2, <2>1 DEF Reachable, PrivateRoute
    <2>3. kind \notin Starting /\ kind \notin Refreshes /\ kind \in {"login", "logout", "reset", "data", "password"}
      BY DEF Starting, Refreshes, Turns
    <2>4. OneTurns'
      <3>1. \A c \in sCalls' : /\ ~c.orphan
                               /\ c.kind \in Turning => c.step \in {"sent", "ok", "401"}
                               /\ c.kind \in {"logout", "reset"} => c.step /= "401"
        BY <1>1, <1>2, <2>1 DEF Orderly, OneTurns
      <3> QED
        BY <2>1, <3>1 DEF OneTurns
    <2>5. StartsAlone'
      BY <1>1, <1>2, <2>1, <2>2, <2>3 DEF Orderly, StartsAlone, Refreshes
    <2>6. StoredTogether'
      <3>1. kind = "login" => sStored = Nobody
        BY <1>2, <2>1, <2>2 DEF Reachable, PrivateRoute, Orderly, StoredTogether
      <3> QED
        BY <1>1, <1>2, <2>1, <2>3, <3>1 DEF Orderly, StoredTogether, Refreshes
    <2>7. Presented'
      <3>1. Apart' <=> Apart
        BY <1>2 DEF Apart
      <3>2. \A pair : Lives(pair)' <=> Lives(pair)
        BY <1>2 DEF Lives
      <3> QED
        BY <1>1, <1>2, <2>1, <2>3, <3>1, <3>2 DEF Orderly, Presented, Refreshes, Starting
    <2> QED
      BY <2>4, <2>5, <2>6, <2>7 DEF Orderly
  <1> QED
    BY <1>3, <1>4 DEF OrderInv

\* A step of the server that no request of the tab waits for.
LEMMA ServerMovesOrders ==
    ASSUME OrderInv, SessionInv', AccessExpires \/ LoginElsewhere
    PROVE  OrderInv'
  <1>1. UNCHANGED <<sStored, sUser, sInit, sRefreshing, sCalls, sExcused>>
    BY DEF AccessExpires, LoginElsewhere
  <1>2. TokensAreIssued'
    <2>1. CASE AccessExpires
      BY <1>1, <2>1 DEF AccessExpires, OrderInv, SessionInv, SessionTypeOK, TokensAreIssued
    <2>2. CASE LoginElsewhere
      BY <1>1, <2>2, IssuedTurns, StaysApart DEF LoginElsewhere, OrderInv, TokensAreIssued,
         ServerTurns
    <2> QED
      BY <2>1, <2>2
  <1>3. ASSUME ~sExcused' PROVE Orderly'
    <2>1. Orderly
      BY <1>1, <1>3 DEF OrderInv
    <2>2. OneTurns' /\ StartsAlone' /\ StoredTogether'
      BY <1>1, <2>1 DEF Orderly, OneTurns, StartsAlone, StoredTogether, Held
    <2>3. Presented'
      <3>1. CASE AccessExpires
        <4>1. /\ \A c \in sCalls : ~c.retry /\ c.kind \notin Refreshes \cup {"me2"}
              /\ sServer'.pair = sServer.pair
          BY <3>1 DEF AccessExpires, OrderInv, SessionInv, SessionTypeOK
        <4>2. Apart' <=> Apart
          BY <1>1, <4>1 DEF Apart
        <4> QED
          BY <1>1, <2>1, <4>1, <4>2 DEF Orderly, Presented, Refreshes
      <3>2. CASE LoginElsewhere
        <4>1. /\ Apart => Apart'
              /\ \A pair \in Nat : pair <= sServer.issued /\ Lives(pair) => Lives(pair)'
              /\ \A c \in sCalls : c.got \in Nat /\ c.got <= sServer.issued
          BY <1>1, <3>2, IssuedTurns, StaysApart DEF LoginElsewhere, OrderInv, TokensAreIssued
        <4>2. sStored.pair \in Nat /\ sStored.pair <= sServer.issued
          BY DEF OrderInv, SessionInv, SessionTypeOK, TokensAreIssued
        <4> QED
          BY <1>1, <2>1, <4>1, <4>2 DEF Orderly, Presented
      <3> QED
        BY <3>1, <3>2
    <2> QED
      BY <2>2, <2>3 DEF Orderly
  <1> QED
    BY <1>2, <1>3 DEF OrderInv

\* c becomes d, which has been answered.
Becomes(c, d, step, got) ==
    /\ sCalls' = (sCalls \ {c}) \cup (IF c.orphan THEN {} ELSE {d})
    /\ d.kind = c.kind /\ d.pair = c.pair /\ d.retry = c.retry /\ d.orphan = c.orphan
    /\ d.step = step /\ d.got = got

\* The answer to a request keeps all of it but step and got.
LEMMA AnswerBecomes ==
    ASSUME SessionInv, NEW c \in sCalls, NEW step, NEW got, Answer(c, step, got)
    PROVE  \E d : Becomes(c, d, step, got)
  <1> DEFINE stepped == [c EXCEPT !.step = step]
             d == [stepped EXCEPT !.got = got]
  <1>1. c \in [n : Nat, kind : Kinds, pair : Nat, retry : BOOLEAN, step : Steps, got : Nat,
               orphan : BOOLEAN]
    BY DEF SessionInv, SessionTypeOK, Calls
  <1>2. /\ stepped.kind = c.kind /\ stepped.pair = c.pair /\ stepped.retry = c.retry
        /\ stepped.orphan = c.orphan /\ stepped.step = step
        /\ stepped = [n |-> c.n, kind |-> c.kind, pair |-> c.pair, retry |-> c.retry,
                      step |-> step, got |-> c.got, orphan |-> c.orphan]
    BY <1>1
  <1>3. sCalls' = (sCalls \ {c}) \cup (IF c.orphan THEN {} ELSE {d})
    BY DEF Answer
  <1> HIDE DEF stepped
  <1>4. /\ d.kind = c.kind /\ d.pair = c.pair /\ d.retry = c.retry
        /\ d.orphan = c.orphan /\ d.step = step /\ d.got = got
    BY <1>2
  <1> HIDE DEF d
  <1> QED
    BY <1>3, <1>4 DEF Becomes

\* What an answer says is so when it is given.
TellsTheTruth(c, d) ==
    /\ c.kind \in {"logout", "reset"} => d.step = "ok" /\ Apart'
    /\ c.kind \in {"refresh", "renew"} /\ d.step = "ok" => d.got /= 0 /\ Lives(d.got)'
    /\ c.kind = "login" /\ d.step = "ok" => d.got /= 0
    /\ c.kind = "refresh" /\ d.step = "401" => Apart'
    /\ c.kind = "me2" \/ (c.kind = "me" /\ c.retry) => (d.step = "401" => Apart')

\* An answer that tells the truth keeps the order.
LEMMA BecomesOrders ==
    ASSUME OrderInv, SessionInv', ServerTurns, NEW c \in sCalls, c.step = "sent",
           NEW d, NEW step \in {"ok", "401"}, NEW got, Becomes(c, d, step, got),
           got <= sServer'.issued, ~sExcused => TellsTheTruth(c, d),
           UNCHANGED <<sStored, sUser, sInit, sRefreshing, sExcused>>
    PROVE  OrderInv'
  <1>1. /\ Apart => Apart'
        /\ \A pair \in Nat : pair <= sServer.issued /\ Lives(pair) => Lives(pair)'
        /\ sStored'.pair <= sServer'.issued
        /\ \A e \in sCalls : e.got \in Nat /\ e.got <= sServer'.issued
    BY StaysApart
  <1>2. TokensAreIssued'
    BY <1>1 DEF Becomes, TokensAreIssued, ServerTurns
  <1>3. ASSUME ~sExcused' PROVE Orderly'
    <2>1. Orderly /\ TellsTheTruth(c, d) /\ c.orphan = FALSE
      BY <1>3 DEF OrderInv, Orderly, OneTurns, SessionInv, SessionTypeOK, Calls
    <2>2. sCalls' = (sCalls \ {c}) \cup {d} /\ d.step \in {"ok", "401"}
      BY <2>1 DEF Becomes
    <2>3. OneTurns'
      BY <2>1, <2>2 DEF Becomes, Orderly, OneTurns, TellsTheTruth
    <2>4. StartsAlone'
      <3>1. \A e \in sCalls' : e.kind = d.kind /\ e /= d => e \in sCalls /\ e.kind = c.kind
        BY <2>2 DEF Becomes
      <3>2. \A r, e \in sCalls' : r.kind = "refresh" /\ e.kind \in Starting => e \in Held'
        <4> SUFFICES ASSUME NEW r \in sCalls', NEW e \in sCalls', r.kind = "refresh",
                            e.kind \in Starting
                     PROVE  e \in Held'
          OBVIOUS
        <4>1. \E q \in sCalls : q.kind = "refresh"
          BY <2>2 DEF Becomes
        <4>2. c.kind \notin Starting
          BY <2>1, <4>1 DEF Orderly, StartsAlone, Held
        <4>3. e \in sCalls
          BY <2>2, <4>2 DEF Becomes
        <4> QED
          BY <2>1, <4>1, <4>3 DEF Orderly, StartsAlone, Held
      <3> QED
        BY <2>1, <2>2, <3>2 DEF Becomes, Orderly, StartsAlone
    <2>5. StoredTogether'
      BY <2>1, <2>2 DEF Becomes, Orderly, StoredTogether
    <2>6. Presented'
      <3>1. sStored.pair \in Nat /\ sStored.pair <= sServer.issued
        BY DEF OrderInv, SessionInv, SessionTypeOK, TokensAreIssued
      <3>2. \A e \in sCalls : e.got <= sServer.issued
        BY DEF OrderInv, TokensAreIssued
      <3>3. ASSUME NEW e \in sCalls
            PROVE  /\ e.kind \in {"refresh", "logout"} /\ e.step = "sent" => e.pair = sStored'.pair
                   /\ e.kind \in {"refresh", "renew"} /\ e.step = "ok" => e.got /= 0 /\ Lives(e.got)'
                   /\ e.kind = "login" /\ e.step = "ok" => e.got /= 0
                   /\ e.kind = "renew" => Apart'
                   /\ e.kind = "refresh" /\ e.step = "401" => Apart'
                   /\ e.kind \in {"logout", "reset"} /\ e.step = "ok" => Apart'
                   /\ e.kind = "me2" \/ (e.kind = "me" /\ e.retry) =>
                        /\ e.step = "sent" => e.pair = sStored'.pair /\ Lives(e.pair)'
                        /\ e.step = "401" => Apart'
        BY <1>1, <2>1, <3>1, <3>2 DEF Orderly, Presented
      <3>4. /\ d.kind \in {"refresh", "renew"} /\ d.step = "ok" => d.got /= 0 /\ Lives(d.got)'
            /\ d.kind = "login" /\ d.step = "ok" => d.got /= 0
            /\ d.kind = "renew" => Apart'
            /\ d.kind = "refresh" /\ d.step = "401" => Apart'
            /\ d.kind \in {"logout", "reset"} /\ d.step = "ok" => Apart'
            /\ d.kind = "me2" \/ (d.kind = "me" /\ d.retry) => (d.step = "401" => Apart')
        BY <2>1, <3>3 DEF Becomes, TellsTheTruth
      <3> QED
        BY <2>2, <3>3, <3>4 DEF Presented
    <2> QED
      BY <2>3, <2>4, <2>5, <2>6 DEF Orderly
  <1> QED
    BY <1>2, <1>3 DEF OrderInv

\* Every answer of the server says what became of the tokens it was asked with.
LEMMA ServeOrders ==
    ASSUME OrderInv, SessionInv', NEW c \in sCalls, Serve(c)
    PROVE  OrderInv'
  <1>1. /\ c.step = "sent" /\ UNCHANGED <<sStored, sUser, sInit, sRefreshing, sExcused>>
        /\ SessionInv /\ c.pair \in Nat
    BY DEF Serve, OrderInv, SessionInv, SessionTypeOK, Calls
  <1>2. /\ sServer \in [pair : Nat, live : BOOLEAN, issued : Nat, temp : BOOLEAN]
        /\ sServer.pair <= sServer.issued /\ sStored.pair \in Nat
        /\ sStored.pair <= sServer.issued
    BY DEF OrderInv, SessionInv, SessionTypeOK, TokensAreIssued
  <1>3. ~sExcused => Presented
    BY DEF OrderInv, Orderly
  <1>4. CASE ServeAuthorized(c)
    <2>1. sServer'.pair = sServer.pair /\ sServer'.live = sServer.live /\ sServer'.issued = sServer.issued
      BY <1>2, <1>4 DEF ServeAuthorized
    <2>2. ServerTurns
      BY <1>2, <2>1 DEF ServerTurns
    <2>3. PICK step \in {"ok", "401"} :
            /\ Answer(c, step, 0)
            /\ step = "401" => ~(c.pair /= 0 /\ c.pair = sServer.pair /\ sServer.live)
      BY <1>4 DEF ServeAuthorized
    <2>4. PICK d : Becomes(c, d, step, 0)
      BY <1>1, <2>3, AnswerBecomes
    <2>5. c.kind \in {"me", "me2", "data", "password"}
      BY <1>4 DEF ServeAuthorized
    <2>6. ~sExcused => TellsTheTruth(c, d)
      <3> SUFFICES ASSUME ~sExcused, step = "401", c.kind = "me2" \/ (c.kind = "me" /\ c.retry)
                   PROVE  Apart'
        BY <2>4, <2>5 DEF TellsTheTruth, Becomes
      <3>1. c.pair = sStored.pair /\ Lives(c.pair)
        BY <1>1, <1>3 DEF Presented
      <3> QED
        BY <1>1, <2>1, <2>3, <3>1 DEF Apart, Lives
    <2> QED
      <3>1. 0 <= sServer'.issued
        BY <1>2, <2>1
      <3> QED
        BY <1>1, <2>2, <2>4, <2>6, <3>1, BecomesOrders
  <1>5. CASE ServeRefresh(c)
    <2>1. CASE c.pair = sServer.pair
      <3>1. Answer(c, "ok", sServer.issued + 1) /\ sServer' = Issued
        BY <1>5, <2>1 DEF ServeRefresh
      <3>2. /\ ServerTurns /\ sServer'.pair = sServer.issued + 1 /\ sServer'.live
            /\ sServer'.issued = sServer.issued + 1
        BY <1>1, <3>1, IssuedTurns
      <3>3. PICK d : Becomes(c, d, "ok", sServer.issued + 1)
        BY <1>1, <3>1, AnswerBecomes
      <3>4. TellsTheTruth(c, d)
        BY <1>2, <1>5, <3>2, <3>3 DEF ServeRefresh, Refreshes, TellsTheTruth, Becomes, Lives
      <3> QED
        <4>1. sServer.issued + 1 <= sServer'.issued
          BY <1>2, <3>2
        <4> QED
          BY <1>1, <3>2, <3>3, <3>4, <4>1, BecomesOrders
    <2>2. CASE c.pair /= sServer.pair
      <3>1. Answer(c, "401", 0) /\ sServer' = sServer
        BY <1>5, <2>2 DEF ServeRefresh
      <3>2. ServerTurns
        BY <1>2, <3>1 DEF ServerTurns
      <3>3. PICK d : Becomes(c, d, "401", 0)
        BY <1>1, <3>1, AnswerBecomes
      <3>4. ~sExcused => TellsTheTruth(c, d)
        BY <1>1, <1>3, <1>5, <2>2, <3>1, <3>3
           DEF ServeRefresh, Refreshes, TellsTheTruth, Becomes, Presented, Apart
      <3> QED
        <4>1. 0 <= sServer'.issued
          BY <1>2, <3>1
        <4> QED
          BY <1>1, <3>2, <3>3, <3>4, <4>1, BecomesOrders
    <2> QED
      BY <2>1, <2>2
  <1>6. ASSUME NEW right \in BOOLEAN, ServeLogin(c, right)
        PROVE  OrderInv'
    <2>1. CASE right
      <3>1. Answer(c, "ok", sServer.issued + 1) /\ sServer' = Issued
        BY <1>6, <2>1 DEF ServeLogin
      <3>2. ServerTurns /\ sServer'.issued = sServer.issued + 1
        BY <1>1, <3>1, IssuedTurns
      <3>3. PICK d : Becomes(c, d, "ok", sServer.issued + 1)
        BY <1>1, <3>1, AnswerBecomes
      <3>4. TellsTheTruth(c, d)
        BY <1>2, <1>6, <3>3 DEF ServeLogin, TellsTheTruth, Becomes
      <3> QED
        BY <1>1, <1>2, <3>2, <3>3, <3>4, BecomesOrders
    <2>2. CASE ~right
      <3>1. Answer(c, "401", 0) /\ sServer' = sServer
        BY <1>6, <2>2 DEF ServeLogin
      <3>2. ServerTurns
        BY <1>2, <3>1 DEF ServerTurns
      <3>3. PICK d : Becomes(c, d, "401", 0)
        BY <1>1, <3>1, AnswerBecomes
      <3>4. TellsTheTruth(c, d)
        BY <1>6, <3>3 DEF ServeLogin, TellsTheTruth, Becomes
      <3> QED
        BY <1>1, <1>2, <3>1, <3>2, <3>3, <3>4, BecomesOrders
    <2> QED
      BY <2>1, <2>2
  <1>7. CASE ServeLogout(c) \/ ServeReset(c)
    <2>1. Answer(c, "ok", 0) /\ c.kind \in {"logout", "reset"}
      BY <1>7 DEF ServeLogout, ServeReset
    <2>2. /\ sServer'.issued = sServer.issued
          /\ \/ sServer'.pair = 0
             \/ c.kind = "logout" /\ c.pair /= sServer.pair /\ sServer' = sServer
      <3> DEFINE revoked == [sServer EXCEPT !.pair = 0]
      <3>1. revoked.pair = 0 /\ revoked.issued = sServer.issued
        BY <1>2
      <3>2. [revoked EXCEPT !.temp = FALSE].pair = 0
              /\ [revoked EXCEPT !.temp = FALSE].issued = sServer.issued
        BY <1>2
      <3> QED
        BY <1>7, <3>1, <3>2 DEF ServeLogout, ServeReset
    <2>3. ServerTurns
      BY <1>2, <2>2 DEF ServerTurns
    <2>4. PICK d : Becomes(c, d, "ok", 0)
      BY <1>1, <2>1, AnswerBecomes
    <2>5. ~sExcused => TellsTheTruth(c, d)
      BY <1>1, <1>3, <2>1, <2>2, <2>4 DEF TellsTheTruth, Becomes, Presented, Apart
    <2> QED
      <3>1. 0 <= sServer'.issued
        BY <1>2, <2>2
      <3> QED
        BY <1>1, <2>3, <2>4, <2>5, <3>1, BecomesOrders
  <1> QED
    BY <1>4, <1>5, <1>6, <1>7 DEF Serve

\* Without a step of the server, the tab's pairs are those it had, or none.
LEMMA TokensKept ==
    ASSUME TokensAreIssued, SessionInv, sServer' = sServer,
           sStored'.pair \in {0, sStored.pair} \/ \E d \in sCalls : sStored'.pair = d.got,
           \A c \in sCalls' : c.got = 0 \/ \E d \in sCalls : c.got = d.got
    PROVE  TokensAreIssued'
  <1>1. sServer.issued \in Nat
    BY DEF SessionInv, SessionTypeOK
  <1> QED
    BY <1>1 DEF TokensAreIssued

\* With nothing of initializeAuth and no rotation on its way, tokens and user need
\* only go together.
LEMMA QuietOrders ==
    ASSUME \A c \in sCalls' : c.kind \in {"data", "password"} /\ ~c.orphan,
           ~sInit'.loading, sStored'.user <=> sStored'.pair /= 0,
           sUser' = "none" => sStored' = Nobody
    PROVE  Orderly'
  <1>1. OneTurns'
    BY DEF OneTurns, Turning, Refreshes, Turns
  <1>2. StartsAlone'
    BY DEF StartsAlone, Starting
  <1>3. StoredTogether'
    BY DEF StoredTogether
  <1>4. Presented'
    BY DEF Presented
  <1> QED
    BY <1>1, <1>2, <1>3, <1>4 DEF Orderly

\* initializeAuth's request, alone.
LEMMA SoleOrders ==
    ASSUME NEW new, sCalls' = {new}, new.kind \in Starting, new.step = "sent",
           ~new.orphan, ~new.retry, sInit'.loading, sStored'.user <=> sStored'.pair /= 0,
           new.kind = "renew" => Apart',
           new.kind = "me2" => new.pair = sStored'.pair /\ Lives(new.pair)'
    PROVE  Orderly'
  <1>1. OneTurns'
    BY DEF OneTurns, Starting
  <1>2. StartsAlone'
    BY DEF StartsAlone, Starting
  <1>3. StoredTogether'
    BY DEF StoredTogether, Starting
  <1>4. Presented'
    BY DEF Presented, Starting
  <1> QED
    BY <1>1, <1>2, <1>3, <1>4 DEF Orderly

\* Requests of the pages come and go.
LEMMA ShrinksOrders ==
    ASSUME Orderly, UNCHANGED <<sServer, sStored, sUser>>,
           sInit'.loading <=> sInit.loading,
           \A c \in sCalls' : c \in sCalls \/ (/\ c.kind \in {"data", "password"}
                                               /\ ~c.orphan /\ ~sInit.loading),
           \A c \in sCalls : c.kind \in Starting => c \in sCalls'
    PROVE  Orderly'
  <1>1. OneTurns'
    BY DEF Orderly, OneTurns, Turning, Refreshes, Turns
  <1>2. StartsAlone'
    BY DEF Orderly, StartsAlone, Starting, Held
  <1>3. StoredTogether'
    BY DEF Orderly, StoredTogether
  <1>4. Presented'
    <2>1. (Apart' <=> Apart) /\ \A pair : Lives(pair)' <=> Lives(pair)
      BY DEF Apart, Lives
    <2> QED
      BY <2>1 DEF Orderly, Presented
  <1> QED
    BY <1>1, <1>2, <1>3, <1>4 DEF Orderly

\* A request of initializeAuth that no refresh holds back is the only one.
LEMMA StartsAloneSays ==
    ASSUME Orderly, NEW c \in sCalls, c.kind \in Starting, c \notin Held
    PROVE  sCalls = {c} /\ sInit.loading
  BY DEF Orderly, StartsAlone

\* Beside a login, a logout or a reset there are only requests of the pages.
LEMMA TurnsAlone ==
    ASSUME Orderly, SessionInv, NEW c \in sCalls, c.kind \in Turns
    PROVE  /\ ~sInit.loading
           /\ \A d \in sCalls \ {c} : d.kind \in {"data", "password"} /\ ~d.orphan
  <1>1. c.kind \notin Starting \cup {"refresh"}
    BY DEF Turns, Starting
  <1>2. ~sInit.loading /\ \A d \in sCalls : d.kind \notin Starting
    BY <1>1 DEF Orderly, StartsAlone
  <1>3. \A d \in sCalls \ {c} : d.kind \notin Turning /\ ~d.orphan
    BY DEF Orderly, OneTurns, Turning
  <1>4. \A d \in sCalls : d.kind \in Kinds
    BY DEF SessionInv, SessionTypeOK, Calls
  <1> QED
    BY <1>2, <1>3, <1>4 DEF Kinds, Starting, Turning, Refreshes, Turns

\* The pages send requests only after initializeAuth has ended.
LEMMA PagesOnly ==
    ASSUME Orderly, SessionInv, NEW c \in sCalls, c.kind \in {"data", "password"}
    PROVE  ~sInit.loading /\ \A d \in sCalls : d.kind \notin Starting
  BY DEF Orderly, StartsAlone, Starting

\* What the pages and AuthProvider do with a 200.
LEMMA OkAnsweredOrders ==
    ASSUME OrderInv, SessionInv', NEW c \in sCalls, ~c.orphan, OkAnswered(c), Recorded
    PROVE  OrderInv'
  <1> DEFINE rest == sCalls \ {c}
             new == Call(c.n, "logout", sStored.pair)
  <1>1. /\ c.step = "ok" /\ c.kind \notin Refreshes /\ sServer' = sServer
        /\ SessionInv /\ TokensAreIssued /\ c.kind \in Kinds
    BY DEF OkAnswered, OrderInv, SessionInv, SessionTypeOK, Calls
  <1>2. /\ new.kind = "logout" /\ new.pair = sStored.pair /\ new.step = "sent"
        /\ new.got = 0 /\ new.orphan = FALSE
    BY DEF Call
  <1>3. \/ /\ c.kind \in {"me", "me2"} /\ sUser' = Account /\ sInit'.loading = FALSE
           /\ sCalls' = rest /\ sStored' = sStored
        \/ /\ c.kind = "login" /\ sStored' = [pair |-> c.got, user |-> TRUE]
           /\ sUser' = Account /\ sCalls' = rest /\ sInit' = sInit
        \/ /\ c.kind = "logout" /\ sStored' = Nobody /\ sUser' = "none"
           /\ sCalls' = rest /\ sInit' = sInit
        \/ /\ c.kind = "password" /\ sCalls' = rest \cup {new}
           /\ UNCHANGED <<sStored, sUser, sInit>>
        \/ /\ c.kind = "reset" /\ sStored' = Nobody
           /\ sCalls' = rest /\ UNCHANGED <<sUser, sInit>>
        \/ /\ c.kind = "data" /\ sCalls' = rest /\ UNCHANGED <<sStored, sUser, sInit>>
    <2>1. sInit \in [loading : BOOLEAN, captured : Nat]
      BY DEF OrderInv, SessionInv, SessionTypeOK
    <2>2. [sInit EXCEPT !.loading = FALSE].loading = FALSE
      BY <2>1
    <2> HIDE DEF new
    <2> QED
      BY <2>2 DEF OkAnswered, cleanAuthStorage, new
  <1>4. Account /= "none"
    BY DEF Account
  <1> HIDE DEF new
  <1>5. TokensAreIssued'
    <2>1. sStored'.pair \in {0, sStored.pair} \/ \E d \in sCalls : sStored'.pair = d.got
      BY <1>3 DEF Nobody
    <2>2. \A d \in sCalls' : d \in sCalls \/ d = new
      BY <1>3
    <2>3. \A d \in sCalls' : d.got = 0 \/ \E e \in sCalls : d.got = e.got
      BY <1>2, <2>2
    <2> QED
      BY <1>1, <2>1, <2>3, TokensKept
  <1>6. ASSUME ~sExcused' PROVE Orderly'
    <2>1. /\ ~sExcused /\ Orderly
          /\ \A a, b \in sCalls' :
                a.kind \in Turning /\ a.step /= "waiting" /\ b.kind \in Turning
                  /\ b.step /= "waiting" => a = b
      BY <1>6, RecordedOnce DEF OrderInv
    <2>2. sStored.user <=> sStored.pair /= 0
      BY <2>1 DEF Orderly, StoredTogether
    <2>3. CASE c.kind \in {"me", "me2"}
      <3>1. sCalls = {c}
        BY <1>1, <2>1, <2>3, StartsAloneSays DEF Starting, Held
      <3>2. sCalls' = {} /\ ~sInit'.loading /\ sStored' = sStored /\ sUser' /= "none"
        BY <1>3, <1>4, <2>3, <3>1
      <3> QED
        BY <2>2, <3>2, QuietOrders
    <2>4. CASE c.kind \in Turns
      <3>1. ~sInit.loading /\ \A d \in rest : d.kind \in {"data", "password"} /\ ~d.orphan
        BY <1>1, <2>1, <2>4, TurnsAlone
      <3>2. sCalls' = rest /\ sInit' = sInit
        BY <1>3, <2>4 DEF Turns
      <3>3. (sStored'.user <=> sStored'.pair /= 0) /\ (sUser' = "none" => sStored' = Nobody)
        <4>1. c.kind = "login" => c.got /= 0
          BY <1>1, <2>1 DEF Orderly, Presented
        <4> QED
          BY <1>3, <1>4, <2>4, <4>1 DEF Turns, Nobody
      <3> QED
        BY <3>1, <3>2, <3>3, QuietOrders
    <2>5. CASE c.kind = "data"
      <3>1. \A d \in sCalls : d.kind \notin Starting
        BY <1>1, <2>1, <2>5, PagesOnly
      <3> QED
        BY <1>1, <1>3, <2>1, <2>5, <3>1, ShrinksOrders
    <2>6. CASE c.kind = "password"
      <3>1. /\ ~sInit.loading /\ \A d \in sCalls : d.kind \notin Starting
        BY <1>1, <2>1, <2>6, PagesOnly
      <3>2. sCalls' = rest \cup {new} /\ UNCHANGED <<sStored, sUser, sInit>>
        BY <1>3, <2>6
      <3>3. \A d \in sCalls' : d = new \/ (d.kind \in {"data", "password"} /\ ~d.orphan)
        <4> SUFFICES ASSUME NEW d \in rest, d /= new
                     PROVE  d.kind \in {"data", "password"} /\ ~d.orphan
          BY <3>2
        <4>1. new.kind \in Turning /\ new.step /= "waiting"
          BY <1>2 DEF Turning, Turns
        <4>2. d.kind \in Turning => d.step /= "waiting"
          BY <2>1 DEF Orderly, OneTurns
        <4>3. d.kind \notin Turning /\ ~d.orphan
          BY <2>1, <3>2, <4>1, <4>2 DEF Orderly, OneTurns
        <4>4. d.kind \in Kinds
          BY <1>1 DEF SessionInv, SessionTypeOK, Calls
        <4> QED
          BY <3>1, <4>3, <4>4 DEF Kinds, Starting, Turning, Refreshes, Turns
      <3>4. OneTurns'
        BY <1>2, <3>3 DEF OneTurns, Turning, Refreshes, Turns
      <3>5. StartsAlone'
        BY <1>2, <3>1, <3>2, <3>3 DEF StartsAlone, Starting
      <3>6. StoredTogether'
        BY <1>2, <2>1, <3>1, <3>2, <3>3 DEF Orderly, StoredTogether
      <3>7. Presented'
        BY <1>2, <3>2, <3>3 DEF Presented
      <3> QED
        BY <3>4, <3>5, <3>6, <3>7 DEF Orderly
    <2> QED
      BY <1>1, <2>3, <2>4, <2>5, <2>6 DEF Kinds, Refreshes, Turns
  <1> QED
    BY <1>5, <1>6 DEF OrderInv

\* What Reject does depends on the kinds of the requests that end.
LEMMA RejectSays ==
    ASSUME SessionTypeOK, NEW ended, NEW calls, NEW stored, Reject(ended, calls, stored),
           NEW new, new = Call(0, "renew", sInit.captured)
    PROVE  /\ sCalls' = calls \cup {new} \/ sCalls' = calls
           /\ (\E c \in ended : c.kind = "me") => sCalls' = calls \cup {new}
           /\ (\A c \in ended : c.kind /= "me") => sCalls' = calls
           /\ (\E c \in ended : c.kind \in {"me2", "renew", "logout"}) =>
                sStored' = Nobody /\ sUser' = "none"
           /\ (\A c \in ended : c.kind \notin {"me2", "renew", "logout"}) =>
                sStored' = stored /\ sUser' = sUser
           /\ (\E c \in ended : c.kind \in {"me2", "renew"}) => ~sInit'.loading
           /\ (\A c \in ended : c.kind \notin {"me2", "renew"}) =>
                (sInit'.loading <=> sInit.loading)
           /\ sStored' \in {stored, Nobody}
  <1> DEFINE kinds == {c.kind : c \in ended}
             clean == kinds \cap {"me2", "renew", "logout"} /= {}
             stays == sInit.loading /\ kinds \cap {"me2", "renew"} = {}
  <1>1. /\ sCalls' = calls \cup IF "me" \in kinds THEN {new} ELSE {}
        /\ sStored' = IF clean THEN Nobody ELSE stored
        /\ sUser' = IF clean THEN "none" ELSE sUser
        /\ sInit' = [sInit EXCEPT !.loading = stays]
    BY DEF Reject
  <1>2. sInit \in [loading : BOOLEAN, captured : Nat] /\ stays \in BOOLEAN
    BY DEF SessionTypeOK
  <1>3. sInit'.loading <=> stays
    <2> HIDE DEF stays
    <2> QED
      BY <1>1, <1>2
  <1>4. \A kind : kind \in kinds <=> \E c \in ended : c.kind = kind
    OBVIOUS
  <1> HIDE DEF kinds
  <1>5. clean <=> \E c \in ended : c.kind \in {"me2", "renew", "logout"}
    BY <1>4
  <1>6. stays <=> sInit.loading /\ \A c \in ended : c.kind \notin {"me2", "renew"}
    BY <1>4
  <1> HIDE DEF clean, stays
  <1>7. "me" \in kinds <=> \E c \in ended : c.kind = "me"
    BY <1>4
  <1> QED
    BY <1>1, <1>3, <1>5, <1>6, <1>7

\* Whatever is rejected, the pairs are those of before, or none.
LEMMA RejectIssued ==
    ASSUME TokensAreIssued, SessionInv, sServer' = sServer, NEW ended,
           NEW calls \in SUBSET sCalls, NEW stored \in {sStored, Nobody},
           Reject(ended, calls, stored)
    PROVE  TokensAreIssued'
  <1> DEFINE new == Call(0, "renew", sInit.captured)
  <1>1. new.got = 0
    BY DEF Call
  <1>2. sCalls' \subseteq calls \cup {new} /\ sStored' \in {stored, Nobody}
    <2>1. SessionTypeOK /\ new = Call(0, "renew", sInit.captured)
      BY DEF SessionInv
    <2> HIDE DEF new
    <2> QED
      BY <2>1, RejectSays
  <1> HIDE DEF new
  <1>3. sStored'.pair \in {0, sStored.pair}
    BY <1>2 DEF Nobody
  <1>4. \A d \in sCalls' : d.got = 0 \/ \E e \in sCalls : d.got = e.got
    BY <1>1, <1>2
  <1> QED
    BY <1>3, <1>4, TokensKept

\* A refused request that gives up.
LEMMA RejectOneOrders ==
    ASSUME OrderInv, Orderly, NEW c \in sCalls, c.step = "401", c.kind \notin Refreshes,
           NEW stored \in {sStored, Nobody}, Reject({c}, sCalls \ {c}, stored),
           stored = sStored \/ sStored.pair = 0,
           c.kind = "me" => Apart, sServer' = sServer
    PROVE  Orderly'
  <1> DEFINE new == Call(0, "renew", sInit.captured)
  <1>1. /\ new.kind = "renew" /\ new.step = "sent" /\ new.retry = FALSE
        /\ new.orphan = FALSE
    BY DEF Call
  <1>2. /\ c.kind = "me" => sCalls' = (sCalls \ {c}) \cup {new}
        /\ c.kind /= "me" => sCalls' = sCalls \ {c}
        /\ c.kind \in {"me2", "logout"} => sStored' = Nobody /\ sUser' = "none"
        /\ c.kind \notin {"me2", "renew", "logout"} => sStored' = stored /\ sUser' = sUser
        /\ c.kind = "me2" => ~sInit'.loading
        /\ c.kind \notin {"me2", "renew"} => (sInit'.loading <=> sInit.loading)
    <2>1. SessionTypeOK /\ new = Call(0, "renew", sInit.captured)
      BY DEF OrderInv, SessionInv
    <2> HIDE DEF new
    <2> QED
      BY <2>1, RejectSays
  <1> HIDE DEF new
  <1>3. /\ c.kind \in Kinds /\ c.kind \notin {"refresh", "renew", "logout", "reset"}
        /\ c \notin Held
    <2>1. c.kind \in Kinds
      BY DEF OrderInv, SessionInv, SessionTypeOK, Calls
    <2> QED
      BY <2>1 DEF Orderly, OneTurns, Turning, Refreshes, Turns, Held
  <1>4. stored = sStored
    <2>1. sStored.pair = 0 => sStored = Nobody
      BY DEF OrderInv, SessionInv, SessionTypeOK, Orderly, StoredTogether, Nobody
    <2> QED
      BY <2>1
  <1>5. sStored.user <=> sStored.pair /= 0
    BY DEF Orderly, StoredTogether
  <1>6. CASE c.kind = "me"
    <2>1. sCalls = {c} /\ sInit.loading
      BY <1>3, <1>6, StartsAloneSays DEF Starting
    <2>2. sCalls' = {new} /\ sInit'.loading /\ sStored' = sStored
      BY <1>2, <1>4, <1>6, <2>1
    <2>3. Apart'
      BY <1>6, <2>2 DEF Apart
    <2>4. new.kind \in Starting /\ new.kind /= "me2" /\ ~new.orphan /\ ~new.retry
      BY <1>1 DEF Starting
    <2> QED
      BY <1>1, <1>5, <2>2, <2>3, <2>4, SoleOrders
  <1>7. CASE c.kind = "me2"
    <2>1. sCalls = {c}
      BY <1>3, <1>7, StartsAloneSays DEF Starting
    <2>2. sCalls' = {} /\ ~sInit'.loading /\ sStored' = Nobody
      BY <1>2, <1>7, <2>1
    <2>3. sStored'.user <=> sStored'.pair /= 0
      BY <2>2 DEF Nobody
    <2> QED
      BY <2>2, <2>3, QuietOrders
  <1>8. CASE c.kind \in {"login", "data", "password"}
    <2>1. /\ sCalls' = sCalls \ {c} /\ UNCHANGED <<sServer, sStored, sUser>>
          /\ sInit'.loading <=> sInit.loading
      BY <1>2, <1>4, <1>8
    <2>2. \A d \in sCalls : d.kind \in Starting => d \in sCalls'
      BY <1>8, <2>1 DEF Starting
    <2> QED
      BY <2>1, <2>2, ShrinksOrders
  <1> QED
    BY <1>3, <1>6, <1>7, <1>8 DEF Kinds

\* A 401: only a request of the pages or of initializeAuth starts a refresh, and with
\* the tokens stored.
LEMMA UnauthorizedOrders ==
    ASSUME OrderInv, SessionInv', NEW c \in sCalls, ~c.orphan, Unauthorized(c), Recorded
    PROVE  OrderInv'
  <1> DEFINE rest == sCalls \ {c}
             queued == [c EXCEPT !.step = "queued"]
             retried == [c EXCEPT !.retry = TRUE]
             again == [c EXCEPT !.step = "waiting", !.retry = TRUE]
             new == Call(c.n, "refresh", sStored.pair)
  <1>1. /\ c.step = "401" /\ c.kind \notin Refreshes /\ sServer' = sServer
        /\ SessionInv /\ TokensAreIssued /\ c.kind \in Kinds
        /\ c \in [n : Nat, kind : Kinds, pair : Nat, retry : BOOLEAN, step : Steps, got : Nat,
                  orphan : BOOLEAN]
    BY DEF Unauthorized, OrderInv, SessionInv, SessionTypeOK, Calls
  <1>2. /\ queued.kind = c.kind /\ queued.step = "queued" /\ queued.orphan = c.orphan
        /\ queued.got = c.got
        /\ again.kind = c.kind /\ again.step = "waiting" /\ again.orphan = c.orphan
        /\ again.got = c.got
    BY <1>1
  <1>3. /\ new.kind = "refresh" /\ new.step = "sent" /\ new.orphan = FALSE /\ new.got = 0
        /\ new.pair = sStored.pair
    BY DEF Call
  <1>4. \/ c.retry /\ Reject({c}, rest, sStored)
        \/ /\ ~c.retry /\ sRefreshing /\ sCalls' = rest \cup {queued}
           /\ UNCHANGED <<sStored, sUser, sInit>>
        \/ ~c.retry /\ ~Refreshable /\ Reject({c}, rest, Nobody)
        \/ /\ ~c.retry /\ ~sRefreshing /\ Refreshable /\ sCalls' = rest \cup {again, new}
           /\ UNCHANGED <<sStored, sUser, sInit>>
    BY Zenon DEF Unauthorized
  <1> HIDE DEF queued, again, new
  <1>5. TokensAreIssued'
    <2>1. CASE Reject({c}, rest, sStored) \/ Reject({c}, rest, Nobody)
      <3>1. rest \in SUBSET sCalls /\ sStored \in {sStored, Nobody} /\ Nobody \in {sStored, Nobody}
        OBVIOUS
      <3> HIDE DEF rest
      <3> QED
        BY <1>1, <2>1, <3>1, RejectIssued
    <2>2. CASE sCalls' \subseteq rest \cup {queued, again, new} /\ sStored' = sStored
      <3>1. \A d \in sCalls' : d.got = 0 \/ \E e \in sCalls : d.got = e.got
        BY <1>2, <1>3, <2>2
      <3> QED
        BY <1>1, <2>2, <3>1, TokensKept
    <2> QED
      BY <1>4, <2>1, <2>2
  <1>6. ASSUME ~sExcused' PROVE Orderly'
    <2>1. /\ ~sExcused /\ Orderly
          /\ \A a, b \in sCalls' :
                a.kind \in Turning /\ a.step /= "waiting" /\ b.kind \in Turning
                  /\ b.step /= "waiting" => a = b
      BY <1>6, RecordedOnce DEF OrderInv
    <2>2. c.kind \in {"me", "me2", "login", "data", "password"} /\ c \notin Held
      BY <1>1, <2>1 DEF Kinds, Refreshes, Held, Orderly, OneTurns, Turning, Turns
    <2>3. CASE c.retry /\ Reject({c}, rest, sStored)
      <3>1. c.kind = "me" => Apart
        BY <1>1, <2>1, <2>3 DEF Orderly, Presented
      <3> QED
        BY <1>1, <2>1, <2>3, <3>1, RejectOneOrders
    <2>4. CASE sRefreshing /\ sCalls' = rest \cup {queued} /\ UNCHANGED <<sStored, sUser, sInit>>
      <3>1. PICK r \in sCalls : r.kind = "refresh"
        BY <2>4 DEF OrderInv, SessionInv, QueueInv, Refreshing
      <3>2. c.kind \in {"data", "password"}
        <4>1. c.kind \notin Starting
          BY <2>1, <2>2, <3>1 DEF Orderly, StartsAlone
        <4>2. c.kind \notin Turning
          BY <1>1, <2>1, <3>1 DEF Orderly, OneTurns, Turning, Refreshes
        <4> QED
          BY <2>2, <4>1, <4>2 DEF Starting, Turning, Turns
      <3>3. ~sInit.loading /\ \A d \in sCalls : d.kind \notin Starting
        BY <1>1, <2>1, <3>2, PagesOnly
      <3>4. \A d \in sCalls' : d \in sCalls \/ (/\ d.kind \in {"data", "password"}
                                               /\ ~d.orphan /\ ~sInit.loading)
        BY <1>2, <2>4, <3>2, <3>3
      <3>5. \A d \in sCalls : d.kind \in Starting => d \in sCalls'
        BY <3>3
      <3> QED
        BY <1>1, <2>1, <2>4, <3>4, <3>5, ShrinksOrders
    <2>5. CASE ~Refreshable /\ Reject({c}, rest, Nobody)
      <3>1. sStored.pair = 0
        BY <2>5 DEF Refreshable
      <3>2. Apart
        BY <3>1 DEF Apart
      <3> QED
        BY <1>1, <2>1, <2>5, <3>1, <3>2, RejectOneOrders
    <2>6. CASE /\ ~c.retry /\ ~sRefreshing /\ Refreshable /\ sCalls' = rest \cup {again, new}
               /\ UNCHANGED <<sStored, sUser, sInit>>
      <3>1. sStored.pair /= 0 /\ c.kind /= "login"
        BY <2>1, <2>6 DEF Refreshable, Orderly, StoredTogether, Nobody
      <3>2. CASE c.kind \in {"me", "me2"}
        <4>1. sCalls = {c} /\ sInit.loading
          BY <2>1, <2>2, <3>2, StartsAloneSays DEF Starting
        <4>2. sCalls' = {again, new} /\ sInit'.loading /\ sStored' = sStored /\ sUser' = sUser
          BY <2>6, <4>1
        <4>3. again \in Held'
          BY <1>2, <4>2 DEF Held
        <4>4. again.kind \in {"me", "me2"} /\ ~again.orphan
          BY <1>2, <3>2, <2>1 DEF Orderly, OneTurns
        <4>5. OneTurns'
          BY <1>3, <4>2, <4>4 DEF OneTurns, Turning, Refreshes, Turns
        <4>6. StartsAlone'
          BY <1>3, <4>2, <4>3, <4>4 DEF StartsAlone, Starting
        <4>7. StoredTogether'
          BY <1>3, <2>1, <3>1, <4>2, <4>4 DEF Orderly, StoredTogether
        <4>8. Presented'
          BY <1>2, <1>3, <4>2, <4>4 DEF Presented
        <4> QED
          BY <4>5, <4>6, <4>7, <4>8 DEF Orderly
      <3>3. CASE c.kind \in {"data", "password"}
        <4>1. ~sInit.loading /\ \A d \in sCalls : d.kind \notin Starting
          BY <1>1, <2>1, <3>3, PagesOnly
        <4>2. \A d \in sCalls' : d = new \/ (d.kind \in {"data", "password"} /\ ~d.orphan)
          <5> SUFFICES ASSUME NEW d \in rest, d /= new
                       PROVE  d.kind \in {"data", "password"} /\ ~d.orphan
            BY <1>2, <2>1, <2>6, <3>3 DEF Orderly, OneTurns
          <5>1. new.kind \in Turning /\ new.step /= "waiting"
            BY <1>3 DEF Turning, Refreshes
          <5>2. d.kind \in Turning => d.step /= "waiting"
            BY <2>1 DEF Orderly, OneTurns
          <5>3. d.kind \notin Turning /\ ~d.orphan
            BY <2>1, <2>6, <5>1, <5>2 DEF Orderly, OneTurns
          <5>4. d.kind \in Kinds
            BY <1>1 DEF SessionInv, SessionTypeOK, Calls
          <5> QED
            BY <4>1, <5>3, <5>4 DEF Kinds, Starting, Turning, Refreshes, Turns
        <4>3. OneTurns'
          BY <1>3, <4>2 DEF OneTurns, Turning, Refreshes, Turns
        <4>4. StartsAlone'
          BY <1>3, <2>6, <4>1, <4>2 DEF StartsAlone, Starting
        <4>5. StoredTogether'
          BY <1>3, <2>1, <2>6, <3>1, <4>1, <4>2 DEF Orderly, StoredTogether
        <4>6. Presented'
          BY <1>3, <2>6, <4>2 DEF Presented
        <4> QED
          BY <4>3, <4>4, <4>5, <4>6 DEF Orderly
      <3> QED
        BY <2>2, <3>1, <3>2, <3>3
    <2> QED
      BY <1>4, <2>3, <2>4, <2>5, <2>6
  <1> QED
    BY <1>5, <1>6 DEF OrderInv

\* Beside a refresh there are the requests of the pages, or the one of initializeAuth
\* that it holds back.
LEMMA BesideRefresh ==
    ASSUME Orderly, SessionInv, NEW r \in sCalls, r.kind = "refresh"
    PROVE  /\ \A d \in sCalls \ {r} : d.kind \in {"me", "me2", "data", "password"} /\ ~d.orphan
           /\ \A d \in sCalls : d.kind \in Starting => d \in Held
           /\ r \notin Held
           /\ \A d \in sCalls \ (Held \cup {r}) : d.kind \in {"data", "password"} /\ ~d.orphan
  <1>1. \A d \in sCalls \ {r} : d.kind \notin Turning /\ ~d.orphan
    BY DEF Orderly, OneTurns, Turning, Refreshes
  <1>2. \A d \in sCalls : d.kind \in Kinds
    BY DEF SessionInv, SessionTypeOK, Calls
  <1>3. \A d \in sCalls \ {r} : d.kind \in {"me", "me2", "data", "password"} /\ ~d.orphan
    BY <1>1, <1>2 DEF Kinds, Turning, Refreshes, Turns
  <1>4. \A d \in sCalls : d.kind \in Starting => d \in Held
    BY DEF Orderly, StartsAlone
  <1>5. r \notin Held
    BY DEF SessionInv, QueueInv
  <1> QED
    BY <1>3, <1>4, <1>5 DEF Starting

\* What was held is sent again with the tokens just stored, which live.
LEMMA RefreshedOrders ==
    ASSUME OrderInv, SessionInv', NEW r \in sCalls, ~r.orphan, Refreshed(r), Recorded
    PROVE  OrderInv'
  <1> DEFINE again(c) == [c EXCEPT !.step = "sent", !.pair = r.got]
             others == sCalls \ (Held \cup {r})
  <1>1. /\ r.kind = "refresh" /\ r.step = "ok" /\ sServer' = sServer /\ sInit' = sInit
        /\ sUser' = sUser /\ SessionInv /\ TokensAreIssued
        /\ sStored \in [pair : Nat, user : BOOLEAN]
    BY DEF Refreshed, OrderInv, SessionInv, SessionTypeOK
  <1>2. sStored'.pair = r.got /\ sStored'.user = sStored.user
    BY <1>1 DEF Refreshed
  <1>3. sCalls' = others \cup {again(c) : c \in Held}
    BY DEF Refreshed
  <1>4. \A c \in Held : /\ again(c).kind = c.kind /\ again(c).step = "sent"
                        /\ again(c).pair = r.got /\ again(c).got = c.got
                        /\ again(c).orphan = c.orphan
    <2> SUFFICES ASSUME NEW c \in Held
                 PROVE  /\ again(c).kind = c.kind /\ again(c).step = "sent"
                        /\ again(c).pair = r.got /\ again(c).got = c.got
                        /\ again(c).orphan = c.orphan
      OBVIOUS
    <2>1. c \in [n : Nat, kind : Kinds, pair : Nat, retry : BOOLEAN, step : Steps, got : Nat,
                 orphan : BOOLEAN]
      BY <1>1 DEF SessionInv, SessionTypeOK, Held, Calls
    <2> QED
      BY <2>1
  <1> HIDE DEF again
  <1>5. \A d \in sCalls' : d \in others \/ \E c \in Held : d = again(c)
    BY <1>3
  <1>6. TokensAreIssued'
    <2>1. \A d \in sCalls' : d.got = 0 \/ \E e \in sCalls : d.got = e.got
      BY <1>4, <1>5 DEF Held
    <2> QED
      BY <1>1, <1>2, <2>1, TokensKept
  <1>7. ASSUME ~sExcused' PROVE Orderly'
    <2>1. ~sExcused /\ Orderly
      BY <1>7, RecordedOnce DEF OrderInv
    <2>2. /\ \A d \in sCalls \ {r} : d.kind \in {"me", "me2", "data", "password"} /\ ~d.orphan
          /\ \A d \in sCalls : d.kind \in Starting => d \in Held
          /\ r \notin Held
          /\ \A d \in others : d.kind \in {"data", "password"} /\ ~d.orphan
      BY <1>1, <2>1, BesideRefresh
    <2>3. \A d \in sCalls' : \/ d.kind \in {"data", "password"} /\ ~d.orphan
                             \/ \E c \in Held : /\ d = again(c) /\ ~d.orphan
                                                /\ c.kind \in {"me", "me2"}
      <3>1. \A c \in Held : c \in sCalls \ {r}
        BY <2>2 DEF Held
      <3> QED
        BY <1>4, <1>5, <2>2, <3>1
    <2>4. /\ r.got /= 0 /\ Lives(r.got) /\ sStored.pair /= 0 /\ sStored.user = TRUE
          /\ sUser = "none" => sInit.loading
      BY <1>1, <2>1 DEF Orderly, Presented, StoredTogether, Nobody
    <2>5. OneTurns'
      BY <1>4, <2>3 DEF OneTurns, Turning, Refreshes, Turns
    <2>6. StartsAlone'
      <3>1. \A d \in sCalls' : d.kind \in Starting => \E c \in Held : d = again(c) /\ c.kind \in Starting
        BY <1>4, <2>3 DEF Starting
      <3>2. \A c \in Held : c \in sCalls
        BY DEF Held
      <3>3. sInit.loading <=> \E c \in sCalls : c.kind \in Starting
        BY <2>1 DEF Orderly, StartsAlone
      <3>4. sInit'.loading <=> \E d \in sCalls' : d.kind \in Starting
        <4>1. \A c \in Held : again(c) \in sCalls' /\ again(c).kind = c.kind
          BY <1>3, <1>4
        <4> QED
          BY <1>1, <2>2, <3>1, <3>2, <3>3, <4>1
      <3>5. \A d, e \in sCalls' : d.kind \in Starting /\ e.kind \in Starting => d = e
        BY <2>1, <3>1, <3>2 DEF Orderly, StartsAlone
      <3>6. sInit'.loading => \A d \in sCalls' : d.kind \in Starting \cup {"refresh"}
        <4> SUFFICES ASSUME sInit.loading, NEW d \in sCalls'
                     PROVE  d.kind \in Starting
          BY <1>1
        <4>1. \A c \in sCalls : c.kind \in Starting \cup {"refresh"}
          BY <2>1 DEF Orderly, StartsAlone
        <4>2. d.kind \notin {"data", "password"}
          <5>1. \A c \in sCalls : c.kind \notin {"data", "password"}
            BY <4>1 DEF Starting
          <5> QED
            BY <1>4, <1>5, <3>2, <5>1
        <4> QED
          BY <1>4, <2>3, <4>2 DEF Starting
      <3>7. \A d \in sCalls' : d.kind /= "refresh"
        BY <1>4, <2>3
      <3> QED
        BY <3>4, <3>5, <3>6, <3>7 DEF StartsAlone
    <2>7. StoredTogether'
      <3>1. \A d \in sCalls' : d.kind \notin {"login", "refresh"}
        BY <1>4, <2>3
      <3> QED
        BY <1>1, <1>2, <2>4, <3>1 DEF StoredTogether
    <2>8. Presented'
      <3>1. Lives(r.got)'
        BY <1>1, <2>4 DEF Lives
      <3>2. \A d \in sCalls' : \/ d.kind \in {"data", "password"}
                               \/ /\ d.kind \in {"me", "me2"} /\ d.step = "sent"
                                  /\ d.pair = r.got
        BY <1>4, <2>3
      <3> QED
        BY <1>2, <3>1, <3>2 DEF Presented
    <2> QED
      BY <2>5, <2>6, <2>7, <2>8 DEF Orderly
  <1> QED
    BY <1>6, <1>7 DEF OrderInv

\* A refresh fails only when the tab is already apart from the server.
LEMMA RefreshFailsOrders ==
    ASSUME OrderInv, SessionInv', NEW r \in sCalls, ~r.orphan, RefreshFails(r), Recorded
    PROVE  OrderInv'
  <1> DEFINE others == sCalls \ (Held \cup {r})
             new == Call(0, "renew", sInit.captured)
  <1>1. /\ r.kind = "refresh" /\ r.step = "401" /\ sServer' = sServer
        /\ SessionInv /\ SessionTypeOK /\ TokensAreIssued /\ Reject(Held, others, Nobody)
    BY DEF RefreshFails, OrderInv, SessionInv
  <1>2. /\ new.kind = "renew" /\ new.step = "sent" /\ new.retry = FALSE
        /\ new.orphan = FALSE /\ new = Call(0, "renew", sInit.captured)
    BY DEF Call
  <1>3. others \in SUBSET sCalls /\ Nobody \in {sStored, Nobody}
    OBVIOUS
  <1>4. Nobody.pair = 0 /\ Nobody.user = FALSE
    BY DEF Nobody
  <1> HIDE DEF new, others
  <1>5. TokensAreIssued'
    BY <1>1, <1>3, RejectIssued
  <1>6. ASSUME ~sExcused' PROVE Orderly'
    <2>1. ~sExcused /\ Orderly
      BY <1>6, RecordedOnce DEF OrderInv
    <2>2. /\ \A d \in sCalls \ {r} : d.kind \in {"me", "me2", "data", "password"} /\ ~d.orphan
          /\ \A d \in sCalls : d.kind \in Starting => d \in Held
          /\ r \notin Held
          /\ \A d \in others : d.kind \in {"data", "password"} /\ ~d.orphan
      BY <1>1, <2>1, BesideRefresh DEF others
    <2>3. \A d \in Held : d \in sCalls /\ d.kind \in {"me", "me2", "data", "password"}
      BY <2>2 DEF Held
    <2>4. /\ (\E c \in Held : c.kind = "me") => sCalls' = others \cup {new}
          /\ (\A c \in Held : c.kind /= "me") => sCalls' = others
          /\ (\E c \in Held : c.kind = "me2") => ~sInit'.loading /\ sUser' = "none"
          /\ (\A c \in Held : c.kind /= "me2") => (sInit'.loading <=> sInit.loading)
          /\ sStored' = Nobody
      BY <1>1, <1>2, <2>3, RejectSays
    <2>5. /\ sInit.loading => \A d \in sCalls : d.kind \in Starting \cup {"refresh"}
          /\ sInit.loading <=> \E d \in sCalls : d.kind \in Starting
          /\ \A d, e \in sCalls : d.kind \in Starting /\ e.kind \in Starting => d = e
      BY <2>1 DEF Orderly, StartsAlone
    <2>6. CASE \E c \in Held : c.kind = "me"
      <3>1. PICK c \in Held : c.kind = "me"
        BY <2>6
      <3>2. c \in sCalls /\ c.kind \in Starting
        BY <2>3, <3>1 DEF Starting
      <3>3. sInit.loading /\ \A d \in Held : d.kind /= "me2"
        BY <2>3, <2>5, <3>1, <3>2 DEF Starting
      <3>4. others = {}
        <4>1. \A d \in others : d \in sCalls
          BY <1>3
        <4> QED
          BY <2>2, <2>5, <3>3, <4>1 DEF Starting
      <3>5. sCalls' = {new} /\ sInit'.loading
        BY <2>4, <2>6, <3>3, <3>4
      <3>6. Apart' /\ new.kind \in Starting /\ new.kind /= "me2" /\ ~new.orphan /\ ~new.retry
        BY <1>2, <1>4, <2>4 DEF Apart, Starting
      <3> QED
        BY <1>2, <1>4, <2>4, <3>5, <3>6, SoleOrders
    <2>7. CASE \A c \in Held : c.kind /= "me"
      <3>1. sCalls' = others
        BY <2>4, <2>7
      <3>2. ~sInit'.loading
        <4>1. CASE \E c \in Held : c.kind = "me2"
          BY <2>4, <4>1
        <4>2. CASE \A c \in Held : c.kind /= "me2"
          <5>1. \A d \in sCalls : d.kind \notin Starting
            BY <2>2, <2>3, <2>7, <4>2 DEF Starting
          <5> QED
            BY <2>4, <2>5, <4>2, <5>1
        <4> QED
          BY <4>1, <4>2
      <3> QED
        BY <1>4, <2>2, <2>4, <3>1, <3>2, QuietOrders
    <2> QED
      BY <2>6, <2>7
  <1> QED
    BY <1>5, <1>6 DEF OrderInv

\* initializeAuth's own refresh is always alone.
LEMMA RenewedOrders ==
    ASSUME OrderInv, SessionInv', NEW r \in sCalls, ~r.orphan, Renewed(r), Recorded
    PROVE  OrderInv'
  <1> DEFINE rest == sCalls \ {r}
             again == Call(0, "me2", r.got)
             new == Call(0, "renew", sInit.captured)
             kept == /\ r.step = "ok" /\ sStored.user
                     /\ sStored'.pair = r.got /\ sStored'.user = sStored.user
                     /\ sCalls' = rest \cup {again}
                     /\ UNCHANGED <<sUser, sInit>>
  <1>1. /\ r.kind = "renew" /\ sServer' = sServer /\ SessionInv /\ SessionTypeOK
        /\ TokensAreIssued /\ sStored \in [pair : Nat, user : BOOLEAN]
        /\ rest \in SUBSET sCalls
    BY DEF Renewed, OrderInv, SessionInv, SessionTypeOK
  <1>2. /\ again.kind = "me2" /\ again.step = "sent" /\ again.retry = FALSE
        /\ again.orphan = FALSE /\ again.got = 0 /\ again.pair = r.got
        /\ new = Call(0, "renew", sInit.captured)
    BY DEF Call
  <1>3. kept \/ (r.step \in {"ok", "401"} /\ Reject({r}, rest, sStored))
    <2> HIDE DEF again
    <2>1. CASE r.step = "ok" /\ sStored.user /\ sStored' = [sStored EXCEPT !.pair = r.got]
                 /\ sCalls' = rest \cup {again} /\ UNCHANGED <<sUser, sInit>>
      BY <1>1, <2>1
    <2> HIDE DEF kept
    <2> QED
      BY <2>1 DEF Renewed, again
  <1> HIDE DEF again, new
  <1>4. TokensAreIssued'
    <2>1. CASE kept
      <3>1. \A d \in sCalls' : d.got = 0 \/ \E e \in sCalls : d.got = e.got
        BY <1>2, <2>1
      <3> QED
        BY <1>1, <2>1, <3>1, TokensKept
    <2>2. CASE Reject({r}, rest, sStored)
      <3>1. sStored \in {sStored, Nobody}
        OBVIOUS
      <3> HIDE DEF rest
      <3> QED
        BY <1>1, <2>2, <3>1, RejectIssued
    <2> QED
      BY <1>3, <2>1, <2>2
  <1>5. ASSUME ~sExcused' PROVE Orderly'
    <2>1. ~sExcused /\ Orderly
      BY <1>5, RecordedOnce DEF OrderInv
    <2>2. sCalls = {r} /\ sInit.loading
      <3>1. r \notin Held
        BY <1>1, <2>1 DEF Orderly, OneTurns, Turning, Refreshes, Held
      <3> QED
        BY <1>1, <2>1, <3>1, StartsAloneSays DEF Starting
    <2>3. CASE kept
      <3>1. /\ r.got /= 0 /\ Lives(r.got) /\ (sStored.user <=> sStored.pair /= 0)
        BY <1>1, <2>1, <2>3 DEF Orderly, Presented, StoredTogether
      <3>2. sCalls' = {again} /\ sInit'.loading /\ (sStored'.user <=> sStored'.pair /= 0)
        BY <2>2, <2>3, <3>1
      <3>3. again.pair = sStored'.pair /\ Lives(again.pair)'
        BY <1>1, <1>2, <2>3, <3>1 DEF Lives
      <3>4. again.kind \in Starting /\ again.kind /= "renew" /\ ~again.orphan /\ ~again.retry
        BY <1>2 DEF Starting
      <3> QED
        BY <1>2, <3>2, <3>3, <3>4, SoleOrders
    <2>4. CASE Reject({r}, rest, sStored)
      <3>1. sCalls' = {} /\ ~sInit'.loading /\ sStored' = Nobody
        <4>1. rest = {}
          BY <2>2
        <4> HIDE DEF rest
        <4> QED
          BY <1>1, <1>2, <2>4, <4>1, RejectSays
      <3> QED
        BY <3>1, QuietOrders DEF Nobody
    <2> QED
      BY <1>3, <2>3, <2>4
  <1> QED
    BY <1>4, <1>5 DEF OrderInv

\* A lost answer is excused; the pairs are still issued ones.
LEMMA LostOrders ==
    ASSUME OrderInv, SessionInv', NEW c \in sCalls, Lost(c)
    PROVE  OrderInv'
  <1> DEFINE others == sCalls \ (Held \cup {c})
             rest == sCalls \ {c}
  <1>1. /\ sExcused' = TRUE /\ sServer' = sServer /\ SessionInv /\ TokensAreIssued
        /\ Reject(Held, others, Nobody) \/ Reject({c}, rest, sStored)
    BY DEF Lost, OrderInv
  <1>2. /\ others \in SUBSET sCalls /\ rest \in SUBSET sCalls
        /\ sStored \in {sStored, Nobody} /\ Nobody \in {sStored, Nobody}
    OBVIOUS
  <1> HIDE DEF others, rest
  <1>3. TokensAreIssued'
    BY <1>1, <1>2, RejectIssued
  <1> QED
    BY <1>1, <1>3 DEF OrderInv

\* A new load starts over with the tokens stored, alone if nothing was turning.
LEMMA LoadOrders ==
    ASSUME OrderInv, SessionInv', NEW byUser \in BOOLEAN, Load(byUser)
    PROVE  OrderInv'
  <1> DEFINE left == {d \in sCalls : d.step = "sent" /\ d.kind \in Refreshes \cup Turns}
             orphan(c) == [c EXCEPT !.orphan = TRUE]
             orphans == {orphan(c) : c \in left}
             new == Call(0, "me", sStored.pair)
  <1>1. /\ sServer' = sServer /\ sUser' = "none" /\ initializeAuth(sStored, orphans)
        /\ sExcused' = ((sExcused /\ sStored.pair /= 0) \/ Outstanding(Refreshes \cup Turns))
        /\ SessionInv /\ TokensAreIssued
    BY DEF Load, OrderInv
  <1>2. /\ new.kind = "me" /\ new.step = "sent" /\ new.retry = FALSE
        /\ new.orphan = FALSE /\ new.got = 0
    BY DEF Call
  <1>3. \A d \in orphans : \E c \in sCalls : d.got = c.got
    BY <1>1 DEF SessionInv, SessionTypeOK, Calls
  <1>4. ~Outstanding(Refreshes \cup Turns) => orphans = {}
    BY DEF Outstanding
  <1> HIDE DEF orphans
  <1>5. \/ /\ sStored.pair = 0 \/ ~sStored.user
           /\ sStored' = Nobody /\ ~sInit'.loading /\ sCalls' = orphans
        \/ /\ sStored.pair /= 0 /\ sStored.user
           /\ sStored' = sStored /\ sInit'.loading /\ sCalls' = orphans \cup {new}
    BY <1>1 DEF initializeAuth
  <1> HIDE DEF new
  <1>6. TokensAreIssued'
    <2>1. \A d \in sCalls' : d.got = 0 \/ \E e \in sCalls : d.got = e.got
      BY <1>2, <1>3, <1>5
    <2>2. sStored'.pair \in {0, sStored.pair}
      BY <1>5 DEF Nobody
    <2> QED
      BY <1>1, <2>1, <2>2, TokensKept
  <1>7. ASSUME ~sExcused' PROVE Orderly'
    <2>1. orphans = {}
      BY <1>1, <1>4, <1>7
    <2>2. CASE sStored' = Nobody /\ ~sInit'.loading /\ sCalls' = orphans
      BY <2>1, <2>2, QuietOrders DEF Nobody
    <2>3. CASE /\ sStored.pair /= 0 /\ sStored.user
               /\ sStored' = sStored /\ sInit'.loading /\ sCalls' = orphans \cup {new}
      <3>1. sCalls' = {new} /\ (sStored'.user <=> sStored'.pair /= 0)
        BY <2>1, <2>3
      <3>2. /\ new.kind \in Starting /\ new.kind /= "renew" /\ new.kind /= "me2"
            /\ ~new.orphan /\ ~new.retry
        BY <1>2 DEF Starting
      <3> QED
        BY <1>2, <2>3, <3>1, <3>2, SoleOrders
    <2> QED
      BY <1>5, <2>2, <2>3
  <1> QED
    BY <1>6, <1>7 DEF OrderInv

\* The first load of the page.
LEMMA OrderInvInit == SessionInit => OrderInv
  <1> SUFFICES ASSUME SessionInit PROVE OrderInv
    OBVIOUS
  <1> DEFINE new == Call(0, "me", 1)
  <1>1. PICK tokens \in {0, 1}, temp \in BOOLEAN :
           /\ sServer = [pair |-> tokens, live |-> TRUE, issued |-> 1, temp |-> temp]
           /\ sStored = [pair |-> tokens, user |-> tokens = 1]
           /\ sInit = [loading |-> tokens = 1, captured |-> tokens]
           /\ sCalls = IF tokens = 1 THEN {Call(0, "me", 1)} ELSE {}
    BY DEF SessionInit
  <1>2. /\ new.kind = "me" /\ new.step = "sent" /\ new.retry = FALSE
        /\ new.orphan = FALSE /\ new.got = 0
    BY DEF Call
  <1> HIDE DEF new
  <1>3. /\ sStored.pair = tokens /\ (sStored.user <=> tokens = 1)
        /\ (sInit.loading <=> tokens = 1) /\ sServer.pair = tokens /\ sServer.issued = 1
        /\ tokens = 0 => sStored = Nobody
        /\ sCalls = IF tokens = 1 THEN {new} ELSE {}
    <2>1. CASE tokens = 1
      <3>1. tokens /= 0 /\ (tokens = 1) = TRUE
        BY <2>1
      <3> QED
        BY <1>1, <2>1, <3>1 DEF new
    <2>2. CASE tokens = 0
      <3>1. tokens /= 1 /\ (tokens = 1) = FALSE
        BY <2>2
      <3> QED
        BY <1>1, <2>2, <3>1 DEF Nobody
    <2> QED
      BY <2>1, <2>2
  <1>4. TokensAreIssued
    BY <1>2, <1>3 DEF TokensAreIssued
  <1>5. OneTurns
    BY <1>2, <1>3 DEF OneTurns, Turning, Refreshes, Turns
  <1>6. StartsAlone
    BY <1>2, <1>3 DEF StartsAlone, Starting
  <1>7. StoredTogether
    BY <1>2, <1>3 DEF StoredTogether
  <1>8. Presented
    BY <1>2, <1>3 DEF Presented
  <1> QED
    BY <1>4, <1>5, <1>6, <1>7, <1>8, SessionInvInit DEF OrderInv, Orderly

\* Every step keeps the order.
LEMMA OrderInvStep == OrderInv /\ [SessionNext]_sessionVars => OrderInv'
  <1> SUFFICES ASSUME OrderInv, [SessionNext]_sessionVars PROVE OrderInv'
    OBVIOUS
  <1>1. SessionInv'
    BY SessionInvStep DEF OrderInv
  <1>2. CASE \E kind \in Turns \cup {"data", "password"} : Sent(kind)
    BY <1>1, <1>2, SentOrders
  <1>3. CASE LoginPage_handleSubmit \/ Sidebar_handleLogout \/ ChangePasswordPage_handleSubmit
               \/ ResetPasswordPage_handleSubmit \/ PageRequest
    BY <1>2, <1>3 DEF LoginPage_handleSubmit, Sidebar_handleLogout, PageRequest,
       ChangePasswordPage_handleSubmit, ResetPasswordPage_handleSubmit, Turns
  <1>4. CASE \E byUser \in BOOLEAN : Load(byUser)
    BY <1>1, <1>4, LoadOrders
  <1>5. ASSUME NEW c \in sCalls, Serve(c)
        PROVE  OrderInv'
    BY <1>1, <1>5, ServeOrders
  <1>6. ASSUME NEW c \in sCalls, Answered(c)
        PROVE  OrderInv'
    <2>1. ~c.orphan
      BY <1>6 DEF Answered
    <2>2. CASE OkAnswered(c) /\ Recorded
      BY <1>1, <2>1, <2>2, OkAnsweredOrders
    <2>3. CASE Unauthorized(c) /\ Recorded
      BY <1>1, <2>1, <2>3, UnauthorizedOrders
    <2>4. CASE Refreshed(c) /\ Recorded
      BY <1>1, <2>1, <2>4, RefreshedOrders
    <2>5. CASE RefreshFails(c) /\ Recorded
      BY <1>1, <2>1, <2>5, RefreshFailsOrders
    <2>6. CASE Renewed(c) /\ Recorded
      BY <1>1, <2>1, <2>6, RenewedOrders
    <2>7. CASE Lost(c)
      BY <1>1, <2>7, LostOrders
    <2> QED
      BY <1>6, <2>2, <2>3, <2>4, <2>5, <2>6, <2>7 DEF Answered
  <1>7. CASE AccessExpires \/ LoginElsewhere
    BY <1>1, <1>7, ServerMovesOrders
  <1>8. CASE UNCHANGED sessionVars
    <2>1. TokensAreIssued'
      BY <1>8 DEF sessionVars, OrderInv, TokensAreIssued
    <2>2. ASSUME ~sExcused' PROVE Orderly'
      <3>1. /\ Orderly /\ UNCHANGED <<sServer, sStored, sUser>>
            /\ sInit'.loading <=> sInit.loading
            /\ \A c \in sCalls' : c \in sCalls
            /\ \A c \in sCalls : c.kind \in Starting => c \in sCalls'
        BY <1>8, <2>2 DEF sessionVars, OrderInv
      <3> QED
        BY <3>1, ShrinksOrders
    <2> QED
      BY <1>1, <2>1, <2>2 DEF OrderInv
  <1> QED
    BY <1>3, <1>4, <1>5, <1>6, <1>7, <1>8 DEF SessionNext, SessionUser, SessionAnswers

\* A step that clears tokens the server honours is excused.
LEMMA ClearingIsExcused ==
    ASSUME OrderInv, [SessionNext]_sessionVars, ~Apart, sStored'.pair = 0
    PROVE  sExcused'
  <1>1. sStored.pair /= 0 /\ sStored' /= sStored
    BY DEF Apart
  <1>2. SessionInv /\ (~sExcused => Orderly)
    BY DEF OrderInv
  <1>3. ASSUME NEW byUser \in BOOLEAN, Load(byUser)
        PROVE  sExcused'
    <2>1. CASE sExcused
      BY <1>1, <1>3, <2>1 DEF Load
    <2>2. CASE ~sExcused
      <3>1. sStored.user
        BY <1>1, <1>2, <2>2 DEF Orderly, StoredTogether
      <3>2. \E orphans : initializeAuth(sStored, orphans)
        BY <1>3 DEF Load
      <3> QED
        BY <1>1, <3>1, <3>2 DEF initializeAuth
    <2> QED
      BY <2>1, <2>2
  <1>4. ASSUME NEW c \in sCalls, Answered(c), ~sExcused'
        PROVE  FALSE
    <2>1. /\ ~c.orphan /\ Recorded
          /\ OkAnswered(c) \/ Unauthorized(c) \/ Refreshed(c) \/ RefreshFails(c) \/ Renewed(c)
      BY <1>4 DEF Answered, Lost
    <2>2. ~sExcused /\ Orderly
      BY <1>2, <1>4, <2>1, RecordedOnce
    <2>3. CASE OkAnswered(c)
      <3>1. \/ sStored' = sStored
            \/ c.kind = "login" /\ c.step = "ok" /\ sStored'.pair = c.got
            \/ c.kind \in {"logout", "reset"} /\ c.step = "ok"
        BY <2>3 DEF OkAnswered
      <3> QED
        BY <1>1, <2>2, <3>1 DEF Orderly, Presented
    <2>4. CASE Unauthorized(c)
      <3>1. /\ c.step = "401" /\ c.kind \notin Refreshes
            /\ \/ sStored' = sStored
               \/ sStored.pair = 0
               \/ Reject({c}, sCalls \ {c}, sStored)
        BY <1>1, <2>4 DEF Unauthorized, Refreshable
      <3>2. CASE Reject({c}, sCalls \ {c}, sStored)
        <4>1. c.kind \in {"me2", "renew", "logout"}
          BY <1>1, <1>2, <3>2, RejectSays DEF SessionInv
        <4>2. c.kind = "me2"
          BY <2>2, <3>1, <4>1 DEF Orderly, OneTurns, Turning, Refreshes, Turns
        <4> QED
          BY <2>2, <3>1, <4>2 DEF Orderly, Presented
      <3> QED
        BY <1>1, <3>1, <3>2
    <2>5. CASE Refreshed(c)
      <3>1. c.kind = "refresh" /\ c.step = "ok" /\ sStored' = [sStored EXCEPT !.pair = c.got]
        BY <2>5 DEF Refreshed
      <3>2. sStored'.pair = c.got
        BY <1>2, <3>1 DEF SessionInv, SessionTypeOK
      <3> QED
        BY <2>2, <3>1, <3>2 DEF Orderly, Presented
    <2>6. CASE RefreshFails(c)
      BY <2>2, <2>6 DEF RefreshFails, Orderly, Presented
    <2>7. CASE Renewed(c)
      BY <2>2, <2>7 DEF Renewed, Orderly, Presented
    <2> QED
      BY <2>1, <2>3, <2>4, <2>5, <2>6, <2>7
  <1>5. ASSUME NEW c \in sCalls, Serve(c)
        PROVE  FALSE
    BY <1>1, <1>5 DEF Serve
  <1>6. CASE LoginPage_handleSubmit \/ Sidebar_handleLogout \/ ChangePasswordPage_handleSubmit
               \/ ResetPasswordPage_handleSubmit \/ PageRequest
    BY <1>1, <1>6 DEF LoginPage_handleSubmit, Sidebar_handleLogout, PageRequest,
       ChangePasswordPage_handleSubmit, ResetPasswordPage_handleSubmit, Sent
  <1>7. CASE AccessExpires \/ LoginElsewhere \/ UNCHANGED sessionVars
    BY <1>1, <1>7 DEF AccessExpires, LoginElsewhere, sessionVars
  <1> QED
    BY <1>3, <1>4, <1>5, <1>6, <1>7 DEF SessionNext, SessionUser, SessionAnswers

\* The tab's state is always of its type, and isRefreshing always tells whether the
\* one refresh of apiClient's interceptor is on its way.
THEOREM SessionIsSound == SessionSpec => []SessionInv
  <1> QED
    BY SessionInvInit, SessionInvStep, PTL DEF SessionSpec

\* A request held back by the interceptor always has the refresh that releases it,
\* and only one, whatever expires, fails or is loaded again.
THEOREM HeldIsReleasable == SessionSpec => []HeldForARefresh
  <1>1. SessionInv => HeldForARefresh
    BY DEF SessionInv, QueueInv, HeldForARefresh
  <1> QED
    BY <1>1, SessionIsSound, PTL

\* The rotations and revocations of a tab that come one at a time are made with the
\* tokens stored, and leave the tab with the pair the server honours or without any.
THEOREM SessionIsOrderly == SessionSpec => []OrderInv
  <1> QED
    BY OrderInvInit, OrderInvStep, PTL DEF SessionSpec

\* A tab at rest with nobody logged in keeps no tokens in sessionStorage, unless a
\* login, a logout or a reset overlapped a refresh, or an answer was lost.
THEOREM NothingIsLeft == SessionSpec => []LoggedOutLeavesNothing
  <1>1. OrderInv => LoggedOutLeavesNothing
    BY DEF OrderInv, Orderly, StoredTogether, StartsAlone, LoggedOutLeavesNothing
  <1> QED
    BY <1>1, SessionIsOrderly, PTL

\* apiClient and AuthProvider never throw away tokens that the server still honours,
\* unless a login, a logout or a reset overlapped a refresh, or an answer was lost.
THEOREM SessionsAreKept == SessionSpec => LiveSessionIsKept
  <1>1. OrderInv /\ [SessionNext]_sessionVars =>
          [sStored.pair /= 0 /\ sStored'.pair = 0 /\ sStored.pair = sServer.pair
             => sExcused']_sessionVars
    BY ClearingIsExcused DEF Apart
  <1> QED
    BY <1>1, SessionIsOrderly, PTL DEF SessionSpec, LiveSessionIsKept

=============================================================================
