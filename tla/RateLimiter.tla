---------------------------- MODULE RateLimiter ----------------------------
(***************************************************************************)
(* The fixed-window request counters behind login and password recovery.   *)
(* A request runs one transaction on the row of its bucket: a locking      *)
(* read, then an update, or an insert when there is no row yet, which may  *)
(* lose to the insert of another request.  A failure of the store lets the *)
(* request through.                                                        *)
(***************************************************************************)
EXTENDS Naturals

CONSTANTS Keys,          \* buckets: hashes of action and caller
          Requests,      \* processes
          MaxAttempts,   \* attempts allowed in a window
          WindowSeconds,
          MaxClock,      \* bound on time
          MaxCalls,      \* bound on the calls of enforce
          NoKey, Nobody

ASSUME LimitAssumption == MaxAttempts \in Nat \ {0} /\ WindowSeconds \in Nat \ {0}
ASSUME BoundAssumption == MaxClock \in Nat /\ MaxCalls \in Nat
ASSUME NamesAssumption == NoKey \notin Keys /\ Nobody \notin Requests

VARIABLES
    bucket,    \* committed RATE_LIMITS rows; hits = 0 where there is none
    lock,      \* the request whose open transaction holds the row, or inserted it
    clock,     \* CURRENT_TIMESTAMP
    req,       \* what each request is doing
    calls,     \* calls of enforce so far
    admitted,  \* for the record: requests a bucket's current window let through,
    unsure     \* and those whose commit was carried out but reported as failed

vars == <<bucket, lock, clock, req, calls, admitted, unsure>>

Row == [hits : Nat, window_start : Nat]
NoRow == [hits |-> 0, window_start |-> 0]
Exists(k) == bucket[k].hits > 0

Steps == {"idle", "select", "insert", "reselect", "write", "commit"}
Outcomes == {"none", "allowed", "refused", "failed_open"}

\* since is the time at which the locking read was issued: the database evaluates
\* CURRENT_TIMESTAMP then, which may be long before it is given the lock.
Request == [step : Steps, key : Keys \cup {NoKey}, since : Nat,
            seen : Row, expired : BOOLEAN, new : Row, outcome : Outcomes]

Idle(outcome) == [step |-> "idle", key |-> NoKey, since |-> 0, seen |-> NoRow,
                  expired |-> FALSE, new |-> NoRow, outcome |-> outcome]

Init ==
    /\ bucket = [k \in Keys |-> NoRow]
    /\ lock = [k \in Keys |-> Nobody]
    /\ clock = 0
    /\ req = [r \in Requests |-> Idle("none")]
    /\ calls = 0
    /\ admitted = [k \in Keys |-> 0]
    /\ unsure = [k \in Keys |-> 0]

-----------------------------------------------------------------------------
key(r) == req[r].key
Free(k) == lock[k] = Nobody
Holds(r) == key(r) \in Keys /\ lock[key(r)] = r

Goto(r, step) == req' = [req EXCEPT ![r].step = step]
Release(r) == lock' = [k \in Keys |-> IF lock[k] = r THEN Nobody ELSE lock[k]]

\* A controller asks for one attempt before it does anything else.
enforce(r, k) ==
    /\ req[r].step = "idle" /\ calls < MaxCalls
    /\ req' = [req EXCEPT ![r] = [Idle("none") EXCEPT !.step = "select", !.key = k,
                                                      !.since = clock]]
    /\ calls' = calls + 1
    /\ UNCHANGED <<bucket, lock, clock, admitted, unsure>>

\* Variant: the read without FOR UPDATE.
LockRow_Unlocked(r) ==
    LET row == bucket[key(r)]
    IN  /\ Exists(key(r))
        /\ req' = [req EXCEPT ![r].step = "write", ![r].seen = row,
                       ![r].expired = row.window_start + WindowSeconds <= req[r].since]
        /\ UNCHANGED lock

\* SELECT ... FOR UPDATE of a row that exists: waits for the lock, then returns
\* the row as last committed.
LockRow(r) ==
    LET row == bucket[key(r)]
    IN  /\ Exists(key(r)) /\ Free(key(r))
        /\ lock' = [lock EXCEPT ![key(r)] = r]
        /\ req' = [req EXCEPT ![r].step = "write", ![r].seen = row,
                       ![r].expired = row.window_start + WindowSeconds <= req[r].since]

\* A row that another transaction has not committed yet is not there to be locked.
SelectForUpdate(r) ==
    /\ req[r].step = "select"
    /\ \/ LockRow(r)
       \/ /\ ~Exists(key(r))
          /\ Goto(r, "insert")
          /\ UNCHANGED lock
    /\ UNCHANGED <<bucket, clock, calls, admitted, unsure>>

\* Variant: hits left to the default of its column.
insertBucket_DefaultHits(r) ==
    /\ req[r].step = "insert"
    /\ \/ /\ ~Exists(key(r)) /\ Free(key(r))
          /\ lock' = [lock EXCEPT ![key(r)] = r]
          /\ req' = [req EXCEPT ![r].step = "commit",
                                ![r].new = [hits |-> 0, window_start |-> clock]]
       \/ /\ req' = [req EXCEPT ![r].step = "reselect", ![r].since = clock]
          /\ UNCHANGED lock
    /\ UNCHANGED <<bucket, clock, calls, admitted, unsure>>

\* The primary key makes the insert wait for another one that is not committed and
\* fail when there is a row; the statement may fail for other reasons too.
insertBucket(r) ==
    /\ req[r].step = "insert"
    /\ \/ /\ ~Exists(key(r)) /\ Free(key(r))
          /\ lock' = [lock EXCEPT ![key(r)] = r]
          /\ req' = [req EXCEPT ![r].step = "commit",
                                ![r].new = [hits |-> 1, window_start |-> clock]]
       \/ /\ req' = [req EXCEPT ![r].step = "reselect", ![r].since = clock]
          /\ UNCHANGED lock
    /\ UNCHANGED <<bucket, clock, calls, admitted, unsure>>

\* The same read again; without a row it gives up (Fail).
SelectAgain(r) ==
    /\ req[r].step = "reselect"
    /\ LockRow(r)
    /\ UNCHANGED <<bucket, clock, calls, admitted, unsure>>

\* Variants: the count goes on in a new window; every hit starts a new window.
writeBucket_KeepsCount(r) ==
    /\ req[r].step = "write"
    /\ req' = [req EXCEPT ![r].step = "commit",
                  ![r].new = [hits |-> req[r].seen.hits + 1,
                              window_start |-> IF req[r].expired THEN clock
                                               ELSE req[r].seen.window_start]]
    /\ UNCHANGED <<bucket, lock, clock, calls, admitted, unsure>>

writeBucket_AlwaysRolls(r) ==
    /\ req[r].step = "write"
    /\ req' = [req EXCEPT ![r].step = "commit",
                  ![r].new = [hits |-> IF req[r].expired THEN 1 ELSE req[r].seen.hits + 1,
                              window_start |-> clock]]
    /\ UNCHANGED <<bucket, lock, clock, calls, admitted, unsure>>

writeBucket(r) ==
    LET seen == req[r].seen
    IN  /\ req[r].step = "write"
        /\ req' = [req EXCEPT ![r].step = "commit",
                      ![r].new = IF req[r].expired
                                   THEN [hits |-> 1, window_start |-> clock]
                                   ELSE [seen EXCEPT !.hits = @ + 1]]
        /\ UNCHANGED <<bucket, lock, clock, calls, admitted, unsure>>

NewWindow(r) == ~Exists(key(r)) \/ req[r].expired
SoFar(r, count) == IF NewWindow(r) THEN 0 ELSE count[key(r)]

\* COMMIT stores the row and frees it; the request then compares the count with the
\* limit.  A commit that is carried out but whose answer is lost counts as a failure.
Commit(r) ==
    LET k == key(r)
        allowed == req[r].new.hits <= MaxAttempts
    IN  /\ req[r].step = "commit"
        /\ bucket' = [bucket EXCEPT ![k] = req[r].new]
        /\ Release(r)
        /\ \/ /\ req' = [req EXCEPT ![r] = Idle(IF allowed THEN "allowed" ELSE "refused")]
              /\ admitted' = [admitted EXCEPT ![k] =
                                 SoFar(r, admitted) + (IF allowed THEN 1 ELSE 0)]
              /\ unsure' = [unsure EXCEPT ![k] = SoFar(r, unsure)]
           \/ /\ req' = [req EXCEPT ![r] = Idle("failed_open")]
              /\ admitted' = [admitted EXCEPT ![k] = SoFar(r, admitted)]
              /\ unsure' = [unsure EXCEPT ![k] = SoFar(r, unsure) + 1]
        /\ UNCHANGED <<clock, calls>>

\* Variant: no rollback, the transaction stays open.
GiveUp_NoRollback(r) ==
    /\ req' = [req EXCEPT ![r] = Idle("failed_open")]
    /\ UNCHANGED <<bucket, lock, clock, calls, admitted, unsure>>

\* rollBack, and the request goes on unlimited.
GiveUp(r) ==
    /\ Release(r)
    /\ req' = [req EXCEPT ![r] = Idle("failed_open")]
    /\ UNCHANGED <<bucket, clock, calls, admitted, unsure>>

StatementFails(r) == req[r].step # "idle" /\ GiveUp(r)

\* The insert failed and yet there is no row: its exception is thrown on.
RowStillMissing(r) == req[r].step = "reselect" /\ ~Exists(key(r)) /\ GiveUp(r)

Tick ==
    /\ clock < MaxClock
    /\ clock' = clock + 1
    /\ UNCHANGED <<bucket, lock, req, calls, admitted, unsure>>

\* What a request does next when no statement of it fails.
Proceed(r) ==
    \/ SelectForUpdate(r)
    \/ insertBucket(r)
    \/ SelectAgain(r)
    \/ RowStillMissing(r)
    \/ writeBucket(r)
    \/ Commit(r)

Next ==
    \/ \E r \in Requests, k \in Keys : enforce(r, k)
    \/ \E r \in Requests : Proceed(r) \/ StatementFails(r)
    \/ Tick

\* A process that is not waiting for a lock goes on, and the database hands a lock to
\* those who wait in the order they came.
Fairness == \A r \in Requests : SF_vars(Proceed(r))

Spec == Init /\ [][Next]_vars /\ Fairness

-----------------------------------------------------------------------------
(* Properties *)

\* The rows, the locks and the requests have the fields the code gives them, and a
\* row that is there has counted a hit.
TypeOK ==
    /\ bucket \in [Keys -> Row]
    /\ \A k \in Keys : Exists(k) \/ bucket[k] = NoRow
    /\ lock \in [Keys -> Requests \cup {Nobody}]
    /\ clock \in Nat
    /\ req \in [Requests -> Request]
    /\ calls \in Nat
    /\ admitted \in [Keys -> Nat]
    /\ unsure \in [Keys -> Nat]

\* However many requests race for a bucket, its current window lets no more of them
\* through than the limit; failures of the store aside.
AdmittedWithinLimit == \A k \in Keys : admitted[k] <= MaxAttempts

\* A request is refused only when as many as the limit went through before it in the
\* same window, those whose commit was reported as failed included.
RefusedOnlyWhenSpent ==
    [][\A r \in Requests :
          req[r].step = "commit" /\ req'[r].outcome = "refused" =>
              /\ ~NewWindow(r)
              /\ admitted[key(r)] + unsure[key(r)] >= MaxAttempts]_vars

\* A window is closed only when it has lasted as long as it should, however long the
\* request that closes it has waited.
ResetOnlyAfterWindow ==
    [][\A k \in Keys :
          Exists(k) /\ bucket'[k].window_start # bucket[k].window_start =>
              bucket[k].window_start + WindowSeconds <= clock]_vars

FixedWindows == INSTANCE FixedWindow WITH window <- bucket, now <- clock

\* The transactions of racing requests amount to attempts that are counted one at a time:
\* no count is lost or doubled, a window opens only when the one before has run its time,
\* counted to the start of the new one, and who is let through follows from the count.
CountsOneAtATime == FixedWindows!Spec

\* Every request is answered in the end: no lock is left behind, whatever fails.
EveryRequestAnswered ==
    \A r \in Requests : req[r].step # "idle" ~> req[r].step = "idle"
=============================================================================
