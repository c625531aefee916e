----------------------------- MODULE EntryTable -----------------------------
(***************************************************************************)
(* What a service of entries promises of its table, with no statements, no *)
(* reads and no other service: a request is admitted for a declaration     *)
(* while that is open and then does one thing to the table, or none.  An   *)
(* entry is inserted once, is changed and deleted only by requests for the *)
(* declaration it was inserted for, and never comes back.  A declaration   *)
(* closes for good; those admitted before that may still write, and nobody *)
(* else does.                                                              *)
(***************************************************************************)
CONSTANTS Declarations, Requests, Ids,
          Rows,     \* the rows of the table, each with its life and declaration
          Gone,     \* the row of an entry that was deleted
          Nothing   \* what a request is admitted for when it is not

VARIABLES stage,    \* of each declaration: "none", "open", "closed"
          admitted, \* the declaration each request was admitted for
          table

vars == <<stage, admitted, table>>

Init ==
    /\ stage \in [Declarations -> {"none", "open"}]
    /\ admitted = [e \in Requests |-> Nothing]
    /\ table \in [Ids -> Rows]
    /\ \A i \in Ids : table[i].life = "absent"

Move(d, from, to) ==
    /\ stage[d] = from
    /\ stage' = [stage EXCEPT ![d] = to]
    /\ UNCHANGED <<admitted, table>>

Admit(e, d) ==
    /\ admitted[e] = Nothing
    /\ stage[d] = "open"
    /\ admitted' = [admitted EXCEPT ![e] = d]
    /\ UNCHANGED <<stage, table>>

Insert(e, i, row) ==
    /\ table[i].life = "absent"
    /\ row.life = "present" /\ row.decl = admitted[e]
    /\ table' = [table EXCEPT ![i] = row]

Update(e, i, row) ==
    /\ table[i].life = "present" /\ table[i].decl = admitted[e]
    /\ row.life = "present" /\ row.decl = admitted[e]
    /\ table' = [table EXCEPT ![i] = row]

Delete(e, i) ==
    /\ table[i].life = "present" /\ table[i].decl = admitted[e]
    /\ table' = [table EXCEPT ![i] = Gone]

\* e leaves, with nothing done or with one thing.
Leave(e) ==
    /\ admitted[e] # Nothing
    /\ admitted' = [admitted EXCEPT ![e] = Nothing]
    /\ UNCHANGED stage
    /\ \/ UNCHANGED table
       \/ \E i \in Ids :
             \/ \E row \in Rows : Insert(e, i, row) \/ Update(e, i, row)
             \/ Delete(e, i)

Next ==
    \/ \E d \in Declarations : Move(d, "none", "open") \/ Move(d, "open", "closed")
    \/ \E e \in Requests : Leave(e) \/ \E d \in Declarations : Admit(e, d)

Spec == Init /\ [][Next]_vars
=============================================================================
