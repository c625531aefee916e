--------------------------- MODULE MCClientPages ---------------------------
\* ClientPages with three declarations, a log read in three pages, and one
\* declaration, registered function and expiry at a time.
EXTENDS ClientPages

=============================================================================
