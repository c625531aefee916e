---------------------------- MODULE FixedWindow ----------------------------
(***************************************************************************)
(* What the rate limiter promises, with no requests, no transactions and   *)
(* no locks: an attempt is counted in one indivisible step, in the window  *)
(* of its bucket or in a new one once that has run its time, and is let    *)
(* through when the count is within the limit.  The caller may be told     *)
(* that the attempt could not be counted although it was.                  *)
(***************************************************************************)
EXTENDS Naturals

CONSTANTS Keys, MaxAttempts, WindowSeconds

VARIABLES window,    \* window[k]: attempts counted and when the first one was
          now,
          admitted,  \* attempts the window let through, and
          unsure     \* those it counted whose callers were told of a failure

vars == <<window, now, admitted, unsure>>

Init ==
    /\ window = [k \in Keys |-> [hits |-> 0, window_start |-> 0]]
    /\ now = 0
    /\ admitted = [k \in Keys |-> 0]
    /\ unsure = [k \in Keys |-> 0]

Empty(k) == window[k].hits = 0

\* The attempt is number hit of a window that has so far let a through and lost u.
Answer(k, hit, a, u) ==
    \/ /\ admitted' = [admitted EXCEPT ![k] = a + (IF hit <= MaxAttempts THEN 1 ELSE 0)]
       /\ unsure' = [unsure EXCEPT ![k] = u]
    \/ /\ admitted' = [admitted EXCEPT ![k] = a]
       /\ unsure' = [unsure EXCEPT ![k] = u + 1]

\* An attempt of some time ago may open the window that it found due.
Open(k) == \E start \in 0 .. now :
    /\ Empty(k) \/ window[k].window_start + WindowSeconds <= start
    /\ window' = [window EXCEPT ![k] = [hits |-> 1, window_start |-> start]]
    /\ Answer(k, 1, 0, 0)
    /\ UNCHANGED now

Count(k) ==
    /\ ~Empty(k)
    /\ window' = [window EXCEPT ![k].hits = @ + 1]
    /\ Answer(k, window[k].hits + 1, admitted[k], unsure[k])
    /\ UNCHANGED now

Tick == now' = now + 1 /\ UNCHANGED <<window, admitted, unsure>>

Next == (\E k \in Keys : Open(k) \/ Count(k)) \/ Tick

Spec == Init /\ [][Next]_vars
=============================================================================
