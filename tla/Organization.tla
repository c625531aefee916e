---------------------------- MODULE Organization ----------------------------
(***************************************************************************)
(* What the organization promises, with no requests, statements, locks or  *)
(* views: its tables change by one whole operation at a time.  A row is    *)
(* put under parents that exist and never removed; it is moved while it    *)
(* is not deleted, deleted with rows of the tables below it, and brought   *)
(* back alone.  What one operation does is not undone by another that was  *)
(* under way at the same time.                                             *)
(***************************************************************************)
CONSTANTS Areas, Departments, Sections, Units, Plazas

VARIABLE rows     \* the rows of the five tables, by identifier

Ids == Areas \cup Departments \cup Sections \cup Units \cup Plazas

\* The parents row x may have among the rows there are: an area, the entity a plaza
\* hangs from, the department and the section, or one of them, of a unit.
Homes(x) ==
    CASE x \in Areas -> {{}}
      [] x \in Departments \cup Sections -> {{a} : a \in Areas \cap DOMAIN rows}
      [] x \in Units -> {P \in SUBSET ((Departments \cup Sections) \cap DOMAIN rows) :
                           /\ P # {}
                           /\ \A e, n \in P \cap Departments : e = n
                           /\ \A e, n \in P \cap Sections : e = n}
      [] x \in Plazas -> {{e} : e \in DOMAIN rows \ Plazas}

\* The tables a deletion of x may take rows from, besides x: a plaza goes with an area
\* or a section, and holds back a department or a unit.
Takes(x) ==
    CASE x \in Areas -> Ids \ Areas
      [] x \in Departments -> Units
      [] x \in Sections -> Units \cup Plazas
      [] x \in Units \cup Plazas -> {}

Init ==
    /\ DOMAIN rows \subseteq Ids
    /\ \A x \in DOMAIN rows : rows[x].deleted \in BOOLEAN /\ rows[x].parents \in Homes(x)

Insert(x, P) ==
    /\ x \notin DOMAIN rows
    /\ rows' = [y \in DOMAIN rows \cup {x} |->
                   IF y = x THEN [parents |-> P, deleted |-> FALSE] ELSE rows[y]]

\* Only a section is moved whether deleted or not.
Move(x, P) ==
    /\ x \in Sections \/ ~rows[x].deleted
    /\ rows' = [rows EXCEPT ![x].parents = P]

Restore(x) ==
    /\ x \notin Sections \cup Plazas
    /\ rows' = [rows EXCEPT ![x].deleted = FALSE]

Delete(x, S) ==
    rows' = [y \in DOMAIN rows |->
                IF y \in {x} \cup S THEN [rows[y] EXCEPT !.deleted = TRUE] ELSE rows[y]]

Next ==
    \/ \E x \in Ids : \E P \in Homes(x) : Insert(x, P)
    \/ \E x \in DOMAIN rows :
          \/ \E P \in Homes(x) : Move(x, P)
          \/ Restore(x)
          \/ \E S \in SUBSET (Takes(x) \cap DOMAIN rows) : Delete(x, S)

Spec == Init /\ [][Next]_rows
=============================================================================
