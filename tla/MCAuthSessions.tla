--------------------------- MODULE MCAuthSessions ---------------------------
(***************************************************************************)
(* One user with a threshold of two failures, two passwords, and two       *)
(* requests at a time.  Users share no row.                                *)
(***************************************************************************)
EXTENDS AuthSessions, TLC

Interchangeable == Permutations(Requests) \cup Permutations(Passwords)
=============================================================================
