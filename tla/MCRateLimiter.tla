--------------------------- MODULE MCRateLimiter ---------------------------
(***************************************************************************)
(* Three requests on one bucket: enough for two of them to race for the    *)
(* row while a third one inserts it or waits.  Buckets share nothing.      *)
(***************************************************************************)
EXTENDS RateLimiter
=============================================================================
