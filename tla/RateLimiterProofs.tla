------------------------- MODULE RateLimiterProofs -------------------------
(***************************************************************************)
(* The rate limiter for any number of buckets and requests, any limit and  *)
(* any window.  The inductive invariant says what a request knows of the   *)
(* row while it holds the lock, and how the count in the row relates to    *)
(* the requests that went through.                                         *)
(***************************************************************************)
EXTENDS RateLimiter, TLAPS

USE DEF Exists, key

\* What a request may rely on between its statements.
Sound(r) ==
    /\ req[r].step # "idle" =>
          /\ key(r) \in Keys
          /\ req[r].since <= clock
          /\ req[r].outcome = "none"
    /\ req[r].step \in {"write", "commit"} => lock[key(r)] = r
    /\ req[r].step = "write" =>
          /\ Exists(key(r))
          /\ req[r].seen = bucket[key(r)]
          /\ req[r].expired => bucket[key(r)].window_start + WindowSeconds <= clock
    /\ req[r].step = "commit" =>
          /\ NewWindow(r) => req[r].new.hits = 1
          /\ ~NewWindow(r) =>
                /\ req[r].new.hits = bucket[key(r)].hits + 1
                /\ req[r].new.window_start = bucket[key(r)].window_start
          /\ NewWindow(r) =>
                /\ req[r].new.window_start <= clock
                /\ Exists(key(r)) =>
                      bucket[key(r)].window_start + WindowSeconds <= req[r].new.window_start

\* The count of a row and the requests that its window let through.
Counted(k) ==
    /\ admitted[k] <= MaxAttempts
    /\ Exists(k) /\ bucket[k].hits <= MaxAttempts => admitted[k] + unsure[k] = bucket[k].hits
    /\ Exists(k) /\ bucket[k].hits > MaxAttempts => admitted[k] + unsure[k] >= MaxAttempts

IInv ==
    /\ TypeOK
    /\ \A r \in Requests : Sound(r)
    /\ \A k \in Keys : Counted(k)

-----------------------------------------------------------------------------
\* A request keeps what it knows while another one works: rows that it has locked
\* stay as they are and time only goes on.
LEMMA OthersKeep ==
    ASSUME TypeOK, NEW p \in Requests, Sound(p),
           req'[p] = req[p], clock' \in Nat, clock <= clock',
           \A k \in Keys : lock[k] = p => lock'[k] = p /\ bucket'[k] = bucket[k]
    PROVE  Sound(p)'
<1>1. req[p].step = "idle" \/ key(p) \in Keys
  BY DEF Sound
<1>2. CASE req[p].step = "idle"
  BY <1>2 DEF Sound
<1>3. CASE key(p) \in Keys
  <2>1. /\ req[p].since \in Nat /\ clock \in Nat /\ bucket[key(p)].window_start \in Nat
        /\ req[p].new.window_start \in Nat
    BY <1>3 DEF TypeOK, Request, Row
  <2>2. CASE req[p].step \in {"write", "commit"}
    <3>1. lock'[key(p)] = p /\ bucket'[key(p)] = bucket[key(p)]
      BY <1>3, <2>2 DEF Sound
    <3>2. QED  BY <1>3, <2>1, <2>2, <3>1, LimitAssumption DEF Sound, NewWindow
  <2>3. CASE req[p].step \notin {"write", "commit"}
    BY <1>3, <2>1, <2>3 DEF Sound
  <2>4. QED  BY <2>2, <2>3
<1>4. QED  BY <1>1, <1>2, <1>3

LEMMA InitIInv == Init => IInv
<1> SUFFICES ASSUME Init PROVE IInv  OBVIOUS
<1>1. TypeOK
  BY DEF Init, TypeOK, Row, NoRow, Request, Idle, Steps, Outcomes
<1>2. \A r \in Requests : Sound(r)
  BY DEF Init, Sound, Idle
<1>3. ASSUME NEW k \in Keys PROVE Counted(k)
  <2>1. bucket[k].hits = 0 /\ admitted[k] = 0
    BY DEF Init, NoRow
  <2>2. QED  BY <2>1, LimitAssumption DEF Counted
<1>4. QED  BY <1>1, <1>2, <1>3 DEF IInv

-----------------------------------------------------------------------------
LEMMA EnforcePreserves ==
    ASSUME IInv, NEW r \in Requests, NEW k \in Keys, enforce(r, k)
    PROVE  IInv'
<1>0. TypeOK /\ clock \in Nat  BY DEF IInv, TypeOK
<1>a. PICK rec : /\ rec = [Idle("none") EXCEPT !.step = "select", !.key = k, !.since = clock]
                 /\ req' = [req EXCEPT ![r] = rec]
  BY DEF enforce
<1>b. /\ rec = [step |-> "select", key |-> k, since |-> clock, seen |-> NoRow,
                expired |-> FALSE, new |-> NoRow, outcome |-> "none"]
      /\ NoRow \in Row
  BY <1>a DEF Idle, NoRow, Row
<1>c. rec \in Request
  BY <1>0, <1>b DEF Request, Steps, Outcomes
<1>d. req'[r] = rec
  BY <1>0, <1>a DEF TypeOK
<1>e. UNCHANGED <<bucket, lock, clock, admitted, unsure>> /\ calls' = calls + 1
  BY DEF enforce
<1>1. TypeOK'
  BY <1>0, <1>a, <1>c, <1>e DEF TypeOK
<1>2. ASSUME NEW p \in Requests PROVE Sound(p)'
  <2>1. CASE p = r
    BY <1>0, <1>b, <1>d, <1>e, <2>1 DEF Sound
  <2>2. CASE p # r
    BY <1>0, <2>2, OthersKeep DEF enforce, IInv, TypeOK
  <2>3. QED  BY <2>1, <2>2
<1>3. ASSUME NEW j \in Keys PROVE Counted(j)'
  BY DEF IInv, Counted, enforce
<1>4. QED  BY <1>1, <1>2, <1>3 DEF IInv

LEMMA LockRowSound ==
    ASSUME IInv, NEW r \in Requests, key(r) \in Keys, LockRow(r),
           req[r].step # "idle",
           UNCHANGED <<bucket, clock, calls, admitted, unsure>>
    PROVE  IInv'
<1>0. TypeOK /\ clock \in Nat /\ bucket[key(r)] \in Row  BY DEF IInv, TypeOK
<1>s. PICK late \in BOOLEAN :
         late <=> (bucket[key(r)].window_start + WindowSeconds <= req[r].since)
  OBVIOUS
<1>e. late = (bucket[key(r)].window_start + WindowSeconds <= req[r].since)
  BY <1>s
<1>a. PICK rec : /\ rec = [req[r] EXCEPT !.step = "write", !.seen = bucket[key(r)],
                                         !.expired = late]
                 /\ req' = [req EXCEPT ![r] = rec]
  BY <1>e DEF LockRow
<1>b. rec \in Request
  BY <1>0, <1>a DEF TypeOK, Request, Steps
<1>c. req'[r] = rec
  BY <1>0, <1>a DEF TypeOK
<1>1. TypeOK'
  BY <1>0, <1>a, <1>b DEF TypeOK, LockRow
<1>2. ASSUME NEW p \in Requests PROVE Sound(p)'
  <2>1. CASE p = r
    <3>1. Sound(r)  BY DEF IInv
    <3>2. /\ req'[r].step = "write" /\ req'[r].key = key(r) /\ req'[r].seen = bucket[key(r)]
          /\ req'[r].since = req[r].since /\ req'[r].outcome = req[r].outcome
          /\ req'[r].expired <=> late
      BY <1>0, <1>a, <1>c DEF TypeOK, Request
    <3>3. lock'[key(r)] = r
      BY <1>0 DEF LockRow, TypeOK
    <3>4. req[r].since \in Nat /\ bucket[key(r)].window_start \in Nat
      BY <1>0 DEF TypeOK, Request, Row
    <3>5. QED
      BY <1>0, <1>s, <2>1, <3>1, <3>2, <3>3, <3>4, LimitAssumption DEF Sound, LockRow
  <2>2. CASE p # r
    <3>1. \A j \in Keys : lock[j] = p => lock'[j] = p
      BY <1>0, <2>2, NamesAssumption DEF LockRow, Free, TypeOK
    <3>2. req'[p] = req[p]
      BY <1>0, <2>2 DEF LockRow, TypeOK
    <3>3. QED  BY <1>0, <3>1, <3>2, OthersKeep DEF IInv
  <2>3. QED  BY <2>1, <2>2
<1>3. ASSUME NEW j \in Keys PROVE Counted(j)'
  BY DEF IInv, Counted
<1>4. QED  BY <1>1, <1>2, <1>3 DEF IInv

LEMMA SelectPreserves ==
    ASSUME IInv, NEW r \in Requests, SelectForUpdate(r)
    PROVE  IInv'
<1>0. TypeOK /\ clock \in Nat /\ Sound(r) /\ key(r) \in Keys
  BY DEF IInv, TypeOK, Sound, SelectForUpdate
<1>1. CASE LockRow(r)
  BY <1>0, <1>1, LockRowSound DEF SelectForUpdate
<1>2. CASE ~Exists(key(r)) /\ Goto(r, "insert") /\ UNCHANGED lock
  <2>1. TypeOK'
    BY <1>0, <1>2 DEF TypeOK, SelectForUpdate, Goto, Request, Steps
  <2>2. ASSUME NEW p \in Requests PROVE Sound(p)'
    <3>1. CASE p = r
      BY <1>0, <1>2, <3>1 DEF SelectForUpdate, Goto, Sound, TypeOK, Request
    <3>2. CASE p # r
      BY <1>0, <1>2, <3>2, OthersKeep DEF SelectForUpdate, Goto, IInv, TypeOK
    <3>3. QED  BY <3>1, <3>2
  <2>3. ASSUME NEW j \in Keys PROVE Counted(j)'
    BY DEF IInv, Counted, SelectForUpdate
  <2>4. QED  BY <2>1, <2>2, <2>3 DEF IInv
<1>3. QED  BY <1>1, <1>2 DEF SelectForUpdate

LEMMA InsertPreserves ==
    ASSUME IInv, NEW r \in Requests, insertBucket(r)
    PROVE  IInv'
<1>0. TypeOK /\ clock \in Nat /\ Sound(r) /\ key(r) \in Keys
  BY DEF IInv, TypeOK, Sound, insertBucket
<1>1. CASE /\ ~Exists(key(r)) /\ Free(key(r))
           /\ lock' = [lock EXCEPT ![key(r)] = r]
           /\ req' = [req EXCEPT ![r].step = "commit",
                                 ![r].new = [hits |-> 1, window_start |-> clock]]
  <2>a. PICK rec : /\ rec = [req[r] EXCEPT !.step = "commit",
                                           !.new = [hits |-> 1, window_start |-> clock]]
                   /\ req' = [req EXCEPT ![r] = rec]
    BY <1>1
  <2>b. rec \in Request
    BY <1>0, <2>a DEF TypeOK, Request, Steps, Row
  <2>1. TypeOK'
    BY <1>0, <1>1, <2>a, <2>b DEF TypeOK, insertBucket
  <2>2. ASSUME NEW p \in Requests PROVE Sound(p)'
    <3>1. CASE p = r
      <4>1. /\ req'[r].step = "commit" /\ req'[r].key = key(r) /\ req'[r].new.hits = 1
            /\ req'[r].since = req[r].since /\ req'[r].outcome = req[r].outcome
            /\ lock'[key(r)] = r /\ req'[r].new.window_start = clock /\ clock <= clock
        BY <1>0, <1>1 DEF TypeOK, Request
      <4>2. NewWindow(r)' /\ ~Exists(key(r))'
        BY <1>1, <4>1 DEF NewWindow, insertBucket
      <4>3. QED  BY <1>0, <3>1, <4>1, <4>2 DEF Sound, insertBucket
    <3>2. CASE p # r
      <4>1. \A j \in Keys : lock[j] = p => lock'[j] = p
        BY <1>0, <1>1, <3>2, NamesAssumption DEF Free, TypeOK
      <4>2. req'[p] = req[p]
        BY <1>0, <1>1, <3>2 DEF TypeOK
      <4>3. QED  BY <1>0, <4>1, <4>2, OthersKeep DEF IInv, insertBucket
    <3>3. QED  BY <3>1, <3>2
  <2>3. ASSUME NEW j \in Keys PROVE Counted(j)'
    BY DEF IInv, Counted, insertBucket
  <2>4. QED  BY <2>1, <2>2, <2>3 DEF IInv
<1>2. CASE /\ req' = [req EXCEPT ![r].step = "reselect", ![r].since = clock]
           /\ UNCHANGED lock
  <2>a. PICK rec : /\ rec = [req[r] EXCEPT !.step = "reselect", !.since = clock]
                   /\ req' = [req EXCEPT ![r] = rec]
    BY <1>2
  <2>b. rec \in Request
    BY <1>0, <2>a DEF TypeOK, Request, Steps
  <2>1. TypeOK'
    BY <1>0, <1>2, <2>a, <2>b DEF TypeOK, insertBucket
  <2>2. ASSUME NEW p \in Requests PROVE Sound(p)'
    <3>1. CASE p = r
      BY <1>0, <1>2, <3>1 DEF insertBucket, Sound, TypeOK, Request
    <3>2. CASE p # r
      BY <1>0, <1>2, <3>2, OthersKeep DEF insertBucket, IInv, TypeOK
    <3>3. QED  BY <3>1, <3>2
  <2>3. ASSUME NEW j \in Keys PROVE Counted(j)'
    BY DEF IInv, Counted, insertBucket
  <2>4. QED  BY <2>1, <2>2, <2>3 DEF IInv
<1>3. QED  BY <1>1, <1>2 DEF insertBucket

LEMMA WritePreserves ==
    ASSUME IInv, NEW r \in Requests, writeBucket(r)
    PROVE  IInv'
<1>0. /\ TypeOK /\ clock \in Nat /\ Sound(r) /\ key(r) \in Keys
      /\ req[r].seen = bucket[key(r)] /\ bucket[key(r)] \in Row /\ Exists(key(r))
      /\ lock[key(r)] = r /\ req[r] \in Request
  BY DEF IInv, TypeOK, Sound, writeBucket
<1>a. PICK new : /\ new = IF req[r].expired THEN [hits |-> 1, window_start |-> clock]
                                    ELSE [bucket[key(r)] EXCEPT !.hits = @ + 1]
                 /\ req' = [req EXCEPT ![r].step = "commit", ![r].new = new]
  BY <1>0 DEF writeBucket
<1>b. new \in Row
  BY <1>0, <1>a DEF Row
<1>1. /\ new \in Row
      /\ new = IF req[r].expired THEN [hits |-> 1, window_start |-> clock]
                                    ELSE [bucket[key(r)] EXCEPT !.hits = @ + 1]
      /\ req' = [req EXCEPT ![r].step = "commit", ![r].new = new]
  BY <1>a, <1>b
<1>c. PICK rec : /\ rec = [req[r] EXCEPT !.step = "commit", !.new = new]
                 /\ req' = [req EXCEPT ![r] = rec]
  BY <1>a
<1>d. rec \in Request
  BY <1>0, <1>b, <1>c DEF Request, Steps
<1>e. UNCHANGED <<bucket, lock, clock, calls, admitted, unsure>>
  BY DEF writeBucket
<1>2. TypeOK'
  BY <1>0, <1>c, <1>d, <1>e DEF TypeOK
<1>3. ASSUME NEW p \in Requests PROVE Sound(p)'
  <2>1. CASE p = r
    <3>1. /\ req'[r].step = "commit" /\ req'[r].key = key(r) /\ req'[r].new = new
          /\ req'[r].since = req[r].since /\ req'[r].outcome = req[r].outcome
          /\ req'[r].expired = req[r].expired
      BY <1>0, <1>1 DEF TypeOK, Request
    <3>2. /\ req[r].expired => new.hits = 1
          /\ ~req[r].expired => /\ new.hits = bucket[key(r)].hits + 1
                                /\ new.window_start = bucket[key(r)].window_start
      BY <1>0, <1>1 DEF Row
    <3>3. NewWindow(r) => /\ new.window_start <= clock
                          /\ bucket[key(r)].window_start + WindowSeconds <= new.window_start
      <4>1. NewWindow(r) => req[r].expired
        BY <1>0 DEF NewWindow
      <4>2. req[r].expired => bucket[key(r)].window_start + WindowSeconds <= clock
        BY <1>0 DEF Sound, writeBucket
      <4>3. req[r].expired => new.window_start = clock
        BY <1>1
      <4>4. QED  BY <1>0, <4>1, <4>2, <4>3
    <3>4. NewWindow(r)' <=> NewWindow(r)
      BY <1>0, <1>e, <3>1 DEF NewWindow
    <3>5. ~NewWindow(r) => /\ new.hits = bucket[key(r)].hits + 1
                           /\ new.window_start = bucket[key(r)].window_start
      BY <1>0, <3>2 DEF NewWindow
    <3>6. NewWindow(r) => new.hits = 1
      BY <1>0, <3>2 DEF NewWindow
    <3>7. /\ key(r)' = key(r) /\ lock' = lock /\ bucket' = bucket /\ clock' = clock
          /\ req[r].since <= clock /\ req[r].outcome = "none"
      BY <1>0, <1>e, <3>1 DEF Sound, writeBucket
    <3>8. QED  BY <1>0, <2>1, <3>1, <3>3, <3>4, <3>5, <3>6, <3>7 DEF Sound
  <2>2. CASE p # r
    BY <1>0, <1>1, <2>2, OthersKeep DEF writeBucket, IInv, TypeOK
  <2>3. QED  BY <2>1, <2>2
<1>4. ASSUME NEW j \in Keys PROVE Counted(j)'
  BY DEF IInv, Counted, writeBucket
<1>5. QED  BY <1>2, <1>3, <1>4 DEF IInv

LEMMA CommitPreserves ==
    ASSUME IInv, NEW r \in Requests, Commit(r)
    PROVE  IInv'
<1>0. /\ TypeOK /\ clock \in Nat /\ Sound(r) /\ key(r) \in Keys
      /\ bucket[key(r)] \in Row /\ req[r] \in Request
      /\ lock[key(r)] = r /\ Counted(key(r))
  BY DEF IInv, TypeOK, Sound, Commit
<1>1. /\ req[r].new \in Row /\ req[r].new.hits \in Nat \ {0} /\ req[r].new.hits > 0
      /\ bucket[key(r)].hits \in Nat
      /\ NewWindow(r) => req[r].new.hits = 1
      /\ ~NewWindow(r) => Exists(key(r)) /\ req[r].new.hits = bucket[key(r)].hits + 1
  BY <1>0 DEF Request, Row, Sound, Commit, NewWindow
<1>2. /\ SoFar(r, admitted) \in Nat /\ SoFar(r, unsure) \in Nat
      /\ NewWindow(r) => SoFar(r, admitted) = 0 /\ SoFar(r, unsure) = 0
      /\ ~NewWindow(r) => /\ SoFar(r, admitted) = admitted[key(r)]
                          /\ SoFar(r, unsure) = unsure[key(r)]
  BY <1>0 DEF SoFar, TypeOK
<1>3. PICK how \in {"allowed", "refused", "failed_open"}, a \in Nat, u \in Nat :
         /\ req' = [req EXCEPT ![r] = Idle(how)]
         /\ admitted' = [admitted EXCEPT ![key(r)] = a]
         /\ unsure' = [unsure EXCEPT ![key(r)] = u]
         /\ \/ /\ how \in {"allowed", "refused"}
               /\ a = SoFar(r, admitted) + (IF req[r].new.hits <= MaxAttempts THEN 1 ELSE 0)
               /\ u = SoFar(r, unsure)
            \/ /\ how = "failed_open"
               /\ a = SoFar(r, admitted)
               /\ u = SoFar(r, unsure) + 1
  BY <1>1, <1>2, LimitAssumption DEF Commit
<1>4. Idle(how) \in Request
  BY DEF Idle, Request, Steps, Outcomes, NoRow, Row
<1>5. lock' \in [Keys -> Requests \cup {Nobody}]
  BY <1>0 DEF Commit, Release, TypeOK
<1>6. bucket' = [bucket EXCEPT ![key(r)] = req[r].new]
  BY DEF Commit
<1>7. TypeOK'
  BY <1>0, <1>1, <1>3, <1>4, <1>5, <1>6 DEF TypeOK, Commit
<1>8. ASSUME NEW p \in Requests PROVE Sound(p)'
  <2>1. CASE p = r
    BY <1>0, <1>3, <2>1 DEF Sound, TypeOK, Idle
  <2>2. CASE p # r
    <3>1. \A j \in Keys : lock[j] = p => lock'[j] = p /\ bucket'[j] = bucket[j]
      BY <1>0, <1>6, <2>2 DEF Commit, Release, TypeOK
    <3>2. req'[p] = req[p] /\ clock' = clock
      BY <1>0, <1>3, <2>2 DEF TypeOK, Commit
    <3>3. QED  BY <1>0, <3>1, <3>2, OthersKeep DEF IInv
  <2>3. QED  BY <2>1, <2>2
<1>9. ASSUME NEW j \in Keys PROVE Counted(j)'
  <2>1. CASE j = key(r)
    <3>1. admitted'[j] = a /\ unsure'[j] = u /\ bucket'[j] = req[r].new
      BY <1>0, <1>3, <1>6, <2>1 DEF TypeOK
    <3>2. admitted[j] \in Nat /\ unsure[j] \in Nat
      BY <1>0 DEF TypeOK
    <3>3. CASE NewWindow(r)
      BY <1>1, <1>2, <1>3, <3>1, <3>3, LimitAssumption DEF Counted
    <3>4. CASE ~NewWindow(r)
      BY <1>0, <1>1, <1>2, <1>3, <2>1, <3>1, <3>2, <3>4, LimitAssumption DEF Counted
    <3>5. QED  BY <3>3, <3>4
  <2>2. CASE j # key(r)
    BY <1>0, <1>3, <1>6, <2>2 DEF IInv, Counted, TypeOK
  <2>3. QED  BY <2>1, <2>2
<1>10. QED  BY <1>7, <1>8, <1>9 DEF IInv

LEMMA GiveUpPreserves ==
    ASSUME IInv, NEW r \in Requests, GiveUp(r)
    PROVE  IInv'
<1>0. TypeOK /\ clock \in Nat  BY DEF IInv, TypeOK
<1>1. Idle("failed_open") \in Request
  BY DEF Idle, Request, Steps, Outcomes, NoRow, Row
<1>2. lock' \in [Keys -> Requests \cup {Nobody}]
  BY <1>0 DEF GiveUp, Release, TypeOK
<1>3. TypeOK'
  BY <1>0, <1>1, <1>2 DEF TypeOK, GiveUp
<1>4. ASSUME NEW p \in Requests PROVE Sound(p)'
  <2>1. CASE p = r
    BY <1>0, <2>1 DEF GiveUp, Sound, TypeOK, Idle
  <2>2. CASE p # r
    <3>1. \A j \in Keys : lock[j] = p => lock'[j] = p
      BY <1>0, <2>2 DEF GiveUp, Release, TypeOK
    <3>2. QED  BY <1>0, <2>2, <3>1, OthersKeep DEF GiveUp, IInv, TypeOK
  <2>3. QED  BY <2>1, <2>2
<1>5. ASSUME NEW j \in Keys PROVE Counted(j)'
  BY DEF IInv, Counted, GiveUp
<1>6. QED  BY <1>3, <1>4, <1>5 DEF IInv

LEMMA TickPreserves == IInv /\ Tick => IInv'
<1> SUFFICES ASSUME IInv, Tick PROVE IInv'  OBVIOUS
<1>1. TypeOK /\ clock' \in Nat /\ clock <= clock'
  BY DEF IInv, TypeOK, Tick
<1>2. TypeOK'
  BY <1>1 DEF TypeOK, Tick
<1>3. ASSUME NEW p \in Requests PROVE Sound(p)'
  BY <1>1, OthersKeep DEF IInv, Tick
<1>4. ASSUME NEW j \in Keys PROVE Counted(j)'
  BY DEF IInv, Counted, Tick
<1>5. QED  BY <1>2, <1>3, <1>4 DEF IInv

-----------------------------------------------------------------------------
LEMMA NextIInv == IInv /\ [Next]_vars => IInv'
<1> SUFFICES ASSUME IInv, [Next]_vars PROVE IInv'  OBVIOUS
<1>1. CASE UNCHANGED vars
  BY <1>1 DEF vars, IInv, TypeOK, Sound, Counted, NewWindow
<1>2. ASSUME NEW r \in Requests, NEW k \in Keys, enforce(r, k) PROVE IInv'
  BY <1>2, EnforcePreserves
<1>3. ASSUME NEW r \in Requests, Proceed(r) PROVE IInv'
  <2>1. CASE SelectForUpdate(r)  BY <2>1, SelectPreserves
  <2>2. CASE insertBucket(r)  BY <2>2, InsertPreserves
  <2>3. CASE SelectAgain(r)
    <3>1. key(r) \in Keys
      BY <2>3 DEF SelectAgain, IInv, Sound
    <3>2. QED  BY <2>3, <3>1, LockRowSound DEF SelectAgain
  <2>4. CASE RowStillMissing(r)  BY <2>4, GiveUpPreserves DEF RowStillMissing
  <2>5. CASE writeBucket(r)  BY <2>5, WritePreserves
  <2>6. CASE Commit(r)  BY <2>6, CommitPreserves
  <2>7. QED  BY <1>3, <2>1, <2>2, <2>3, <2>4, <2>5, <2>6 DEF Proceed
<1>4. ASSUME NEW r \in Requests, StatementFails(r) PROVE IInv'
  BY <1>4, GiveUpPreserves DEF StatementFails
<1>5. CASE Tick
  BY <1>5, TickPreserves
<1>6. QED  BY <1>1, <1>2, <1>3, <1>4, <1>5 DEF Next

LEMMA InvariantHolds == Spec => []IInv
  BY InitIInv, NextIInv, PTL DEF Spec

\* The rows, the locks and the requests keep their fields, for any number of buckets
\* and of requests.
THEOREM LimiterTypeCorrect == Spec => []TypeOK
<1>1. IInv => TypeOK  BY DEF IInv
<1>2. QED  BY <1>1, InvariantHolds, PTL

\* Whatever the limit and however many requests race, the current window of a bucket
\* lets no more of them through than the limit, failures of the store aside.
THEOREM LimitHolds == Spec => []AdmittedWithinLimit
<1>1. IInv => AdmittedWithinLimit  BY DEF IInv, Counted, AdmittedWithinLimit
<1>2. QED  BY <1>1, InvariantHolds, PTL

\* Nobody is refused before the limit has been used up in the same window.
THEOREM RefusalsAreEarned == Spec => RefusedOnlyWhenSpent
<1>1. ASSUME IInv, [Next]_vars, NEW r \in Requests,
             req[r].step = "commit", req'[r].outcome = "refused"
      PROVE  ~NewWindow(r) /\ admitted[key(r)] + unsure[key(r)] >= MaxAttempts
  <2>0. /\ TypeOK /\ Sound(r) /\ req[r].outcome = "none" /\ key(r) \in Keys
        /\ Counted(key(r))
    BY <1>1 DEF IInv, Sound
  <2>1. Commit(r)
    <3>1. req'[r] # req[r]
      BY <1>1, <2>0
    <3>2. PICK p \in Requests : (\E k \in Keys : enforce(p, k)) \/ Proceed(p) \/ StatementFails(p)
      BY <1>1, <3>1 DEF Next, vars, Tick
    <3>3. p = r
      BY <2>0, <3>1, <3>2 DEF TypeOK, enforce, Proceed, SelectForUpdate, insertBucket,
            SelectAgain, RowStillMissing, writeBucket, Commit, StatementFails, GiveUp,
            LockRow, Goto
    <3>4. ~(\E k \in Keys : enforce(r, k)) /\ ~SelectForUpdate(r) /\ ~insertBucket(r)
          /\ ~SelectAgain(r) /\ ~RowStillMissing(r) /\ ~writeBucket(r)
      BY <1>1 DEF enforce, SelectForUpdate, insertBucket, SelectAgain, RowStillMissing,
            writeBucket
    <3>5. ~GiveUp(r)
      BY <1>1, <2>0 DEF GiveUp, TypeOK, Idle
    <3>6. QED  BY <3>2, <3>3, <3>4, <3>5 DEF Proceed, StatementFails
  <2>2. ~(req[r].new.hits <= MaxAttempts)
    BY <1>1, <2>0, <2>1 DEF Commit, TypeOK, Idle
  <2>3. /\ req[r].new.hits \in Nat /\ bucket[key(r)].hits \in Nat
        /\ admitted[key(r)] \in Nat /\ unsure[key(r)] \in Nat
    BY <2>0 DEF TypeOK, Request, Row
  <2>4. ~NewWindow(r) /\ req[r].new.hits = bucket[key(r)].hits + 1
    BY <1>1, <2>0, <2>2, LimitAssumption DEF Sound
  <2>5. QED
    BY <2>0, <2>2, <2>3, <2>4, LimitAssumption DEF Counted, NewWindow
<1>2. IInv /\ [Next]_vars =>
        [\A r \in Requests :
            req[r].step = "commit" /\ req'[r].outcome = "refused" =>
                /\ ~NewWindow(r)
                /\ admitted[key(r)] + unsure[key(r)] >= MaxAttempts]_vars
  BY <1>1
<1>3. QED  BY <1>2, InvariantHolds, PTL DEF Spec, RefusedOnlyWhenSpent

\* No request closes a window before its time, however stale the clock it has read.
THEOREM WindowsRunTheirTime == Spec => ResetOnlyAfterWindow
<1>1. ASSUME IInv, [Next]_vars, NEW k \in Keys,
             Exists(k), bucket'[k].window_start # bucket[k].window_start
      PROVE  bucket[k].window_start + WindowSeconds <= clock
  <2>1. PICK r \in Requests : Commit(r)
    BY <1>1 DEF Next, vars, Tick, enforce, Proceed, SelectForUpdate, insertBucket,
          SelectAgain, RowStillMissing, writeBucket, StatementFails, GiveUp
  <2>2. TypeOK /\ Sound(r) /\ key(r) \in Keys
    BY <1>1, <2>1 DEF IInv, Sound, Commit
  <2>3. key(r) = k /\ bucket'[k] = req[r].new
    BY <1>1, <2>1, <2>2 DEF Commit, TypeOK
  <2>4. NewWindow(r) /\ req[r].new.window_start <= clock
        /\ bucket[k].window_start + WindowSeconds <= req[r].new.window_start
    BY <1>1, <2>1, <2>2, <2>3 DEF Sound, Commit
  <2>5. /\ bucket[k].window_start + WindowSeconds \in Nat /\ clock \in Nat
        /\ req[r].new.window_start \in Nat
    BY <2>2, LimitAssumption DEF TypeOK, Row, Request
  <2>6. QED  BY <2>4, <2>5
<1>2. IInv /\ [Next]_vars =>
        [\A k \in Keys :
            Exists(k) /\ bucket'[k].window_start # bucket[k].window_start =>
                bucket[k].window_start + WindowSeconds <= clock]_vars
  BY <1>1
<1>3. QED  BY <1>2, InvariantHolds, PTL DEF Spec, ResetOnlyAfterWindow

-----------------------------------------------------------------------------
(***************************************************************************)
(* The transactions implement attempts that are counted one at a time: the *)
(* commit is the attempt, every other statement is invisible.              *)
(***************************************************************************)
LEMMA CommitCounts ==
    ASSUME IInv, NEW r \in Requests, Commit(r)
    PROVE  \E k \in Keys : FixedWindows!Open(k) \/ FixedWindows!Count(k)
<1> DEFINE k == key(r)
           new == req[r].new
<1>1. /\ TypeOK /\ Sound(r) /\ k \in Keys /\ clock \in Nat
      /\ bucket[k] \in Row /\ new \in Row /\ bucket \in [Keys -> Row]
  BY DEF IInv, TypeOK, Sound, Commit, Request
<1>2. /\ bucket' = [bucket EXCEPT ![k] = new] /\ UNCHANGED clock
      /\ \/ /\ admitted' = [admitted EXCEPT ![k] = SoFar(r, admitted)
                               + (IF new.hits <= MaxAttempts THEN 1 ELSE 0)]
            /\ unsure' = [unsure EXCEPT ![k] = SoFar(r, unsure)]
         \/ /\ admitted' = [admitted EXCEPT ![k] = SoFar(r, admitted)]
            /\ unsure' = [unsure EXCEPT ![k] = SoFar(r, unsure) + 1]
  BY DEF Commit
<1>3. new = [hits |-> new.hits, window_start |-> new.window_start]
  BY <1>1 DEF Row
<1>4. CASE NewWindow(r)
  <2>1. /\ new.hits = 1 /\ SoFar(r, admitted) = 0 /\ SoFar(r, unsure) = 0
        /\ new.window_start <= clock /\ new.window_start \in Nat
        /\ Exists(k) => bucket[k].window_start + WindowSeconds <= new.window_start
    BY <1>1, <1>4 DEF Sound, Commit, SoFar, Row
  <2>2. new.window_start \in 0 .. clock
    BY <1>1, <2>1
  <2>3. bucket[k].hits = 0 \/ bucket[k].window_start + WindowSeconds <= new.window_start
    BY <1>1, <2>1 DEF Row
  <2>4. bucket' = [bucket EXCEPT ![k] = [hits |-> 1, window_start |-> new.window_start]]
    BY <1>2, <1>3, <2>1
  <2>5. FixedWindows!Answer(k, 1, 0, 0)
    BY <1>2, <2>1 DEF FixedWindows!Answer
  <2>6. FixedWindows!Open(k)
    BY <1>2, <2>2, <2>3, <2>4, <2>5 DEF FixedWindows!Open, FixedWindows!Empty
  <2>7. QED  BY <1>1, <2>6
<1>5. CASE ~NewWindow(r)
  <2>1. /\ new.hits = bucket[k].hits + 1 /\ new.window_start = bucket[k].window_start
        /\ SoFar(r, admitted) = admitted[k] /\ SoFar(r, unsure) = unsure[k]
        /\ Exists(k)
    BY <1>1, <1>5 DEF Sound, Commit, SoFar, NewWindow
  <2>2. bucket' = [bucket EXCEPT ![k].hits = @ + 1]
    <3>1. new = [bucket[k] EXCEPT !.hits = @ + 1]
      BY <1>1, <1>3, <2>1 DEF Row
    <3>2. QED  BY <1>2, <3>1
  <2>3. FixedWindows!Answer(k, bucket[k].hits + 1, admitted[k], unsure[k])
    BY <1>2, <2>1 DEF FixedWindows!Answer
  <2>4. bucket[k].hits # 0
    BY <1>1, <2>1 DEF Row
  <2>5. FixedWindows!Count(k)
    BY <1>2, <2>2, <2>3, <2>4 DEF FixedWindows!Count, FixedWindows!Empty
  <2>6. QED  BY <1>1, <2>5
<1>6. QED  BY <1>4, <1>5

LEMMA StepCounts == IInv /\ [Next]_vars => [FixedWindows!Next]_(FixedWindows!vars)
<1> SUFFICES ASSUME IInv, [Next]_vars PROVE [FixedWindows!Next]_(FixedWindows!vars)
  OBVIOUS
<1>1. CASE UNCHANGED <<bucket, clock, admitted, unsure>>
  BY <1>1 DEF FixedWindows!vars
<1>2. ASSUME NEW r \in Requests, Commit(r) PROVE FixedWindows!Next
  BY <1>2, CommitCounts DEF FixedWindows!Next
<1>3. CASE Tick
  BY <1>3 DEF Tick, FixedWindows!Next, FixedWindows!Tick
<1>4. ASSUME NEW r \in Requests, Proceed(r), ~Commit(r)
      PROVE  UNCHANGED <<bucket, clock, admitted, unsure>>
  BY <1>4 DEF Proceed, SelectForUpdate, insertBucket, SelectAgain, RowStillMissing,
        writeBucket, GiveUp
<1>5. ASSUME NEW r \in Requests, StatementFails(r) \/ \E k \in Keys : enforce(r, k)
      PROVE  UNCHANGED <<bucket, clock, admitted, unsure>>
  BY <1>5 DEF StatementFails, GiveUp, enforce
<1>6. QED  BY <1>1, <1>2, <1>3, <1>4, <1>5 DEF Next, vars

\* However the transactions of racing requests interleave and whatever fails, they count
\* attempts as if one at a time: row lock, primary key and commit make them indivisible.
THEOREM LimiterCountsOneAtATime == Spec => CountsOneAtATime
<1>1. Init => FixedWindows!Init
  BY DEF Init, NoRow, FixedWindows!Init
<1>2. QED
  BY <1>1, StepCounts, InvariantHolds, PTL DEF Spec, CountsOneAtATime, FixedWindows!Spec
=============================================================================
