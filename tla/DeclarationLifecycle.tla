------------------------ MODULE DeclarationLifecycle ------------------------
(***************************************************************************)
(* What the declarations component promises, with no requests, no reads    *)
(* and no locks: a declaration is registered by its owner as Incomplete,   *)
(* then each change of status is one step along the lifecycle, made by     *)
(* somebody entitled to it, and a user never has two Incomplete ones.      *)
(***************************************************************************)
CONSTANTS Users, Admins, Declarations, NoUser

VARIABLES owner,    \* owner[d]: who registered d, NoUser before that
          status    \* status[d]: its current status, "None" before that

vars == <<owner, status>>

\* The lifecycle the migration's header draws.
Successors(s) ==
    CASE s = "Incomplete" -> {"Completed", "Abandoned"}
      [] s = "Completed"  -> {"Revision"}
      [] s = "Revision"   -> {"Approved", "Rejected", "Abandoned"}
      [] s = "Approved"   -> {"Rejected"}
      [] OTHER            -> {}

Entitled(u, d, s) ==
    \/ u \in Admins
    \/ u = owner[d] /\ s \in {"Completed", "Abandoned"}

\* Each user starts with one Incomplete declaration at most.
Init ==
    /\ owner \in [Declarations -> Users \cup {NoUser}]
    /\ \A d, e \in Declarations : owner[d] = owner[e] /\ d # e => owner[d] = NoUser
    /\ status = [d \in Declarations |->
                    IF owner[d] = NoUser THEN "None" ELSE "Incomplete"]

Register(u, d) ==
    /\ owner[d] = NoUser
    /\ \A e \in Declarations : owner[e] = u => status[e] # "Incomplete"
    /\ owner' = [owner EXCEPT ![d] = u]
    /\ status' = [status EXCEPT ![d] = "Incomplete"]

Advance(u, d, s) ==
    /\ owner[d] # NoUser
    /\ s \in Successors(status[d])
    /\ Entitled(u, d, s)
    /\ status' = [status EXCEPT ![d] = s]
    /\ UNCHANGED owner

Next ==
    \E u \in Users, d \in Declarations :
        \/ Register(u, d)
        \/ \E s \in Successors(status[d]) : Advance(u, d, s)

Spec == Init /\ [][Next]_vars
=============================================================================
