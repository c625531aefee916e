------------------------- MODULE StatusTransitions -------------------------
(***************************************************************************)
(* The two transition tables of a declaration's status: the one the        *)
(* service consults before it writes and the one the stored function       *)
(* consults again under the row lock.                                      *)
(***************************************************************************)

\* CreateDeclarationStatusDTO::ALLOWED_STATUSES: the values a request may name.
Statuses ==
    {"Incomplete", "Completed", "Revision", "Approved", "Rejected", "Abandoned"}

\* The service's table, as the set of its (from, to) pairs.
STATUS_TRANSITIONS ==
    { <<"Incomplete", "Completed">>, <<"Incomplete", "Abandoned">>,
      <<"Completed", "Revision">>,
      <<"Revision", "Approved">>, <<"Revision", "Rejected">>,
      <<"Revision", "Abandoned">>,
      <<"Approved", "Rejected">> }

isValidTransition(current, new) == <<current, new>> \in STATUS_TRANSITIONS

\* Variant: a pair of the service's table missing from the function's.
transition_ok_ApprovedFinal(current, new) ==
    \/ current = "Incomplete" /\ new \in {"Completed", "Abandoned"}
    \/ current = "Revision" /\ new \in {"Approved", "Rejected", "Abandoned"}
    \/ current = "Completed" /\ new = "Revision"

\* v_transition_ok of FN_CHANGE_DECLARATION_STATUS, disjunct by disjunct.
transition_ok(current, new) ==
    \/ current = "Incomplete" /\ new \in {"Completed", "Abandoned"}
    \/ current = "Revision" /\ new \in {"Approved", "Rejected", "Abandoned"}
    \/ current = "Approved" /\ new = "Rejected"
    \/ current = "Completed" /\ new = "Revision"

\* The statuses only an administrator may set.
AdminStatuses == {"Revision", "Approved", "Rejected"}
=============================================================================
