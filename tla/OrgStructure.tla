---------------------------- MODULE OrgStructure ----------------------------
(***************************************************************************)
(* The organization: areas hold departments and sections, these hold       *)
(* units, and a plaza (job position) hangs from exactly one of any of      *)
(* them.  Deletion is soft and cascades.  Every write is an Oracle         *)
(* transaction: each statement reads the committed rows and its own        *)
(* writes, waits for the row locks of others and is undone with its        *)
(* transaction.  The service looks at the rows before the transaction.     *)
(*                                                                         *)
(* A transaction's last statement and its commit are one step: the lock    *)
(* held between the two only makes others wait.                            *)
(***************************************************************************)
EXTENDS Naturals, FiniteSets

CONSTANTS Areas, Departments, Sections, Units, Plazas, \* identifiers
          Requests,                                    \* processes
          MaxTouched, \* bound on what touched tells apart
          NoOp

ASSUME BoundAssumption == MaxTouched \in Nat
ASSUME RequestsAssumption == IsFiniteSet(Requests)
ASSUME IdsAreDistinct ==
    /\ Areas \cap Departments = {}
    /\ Sections \cap (Areas \cup Departments) = {}
    /\ Units \cap (Areas \cup Departments \cup Sections) = {}
    /\ Plazas \cap (Areas \cup Departments \cup Sections \cup Units) = {}

VARIABLES
    rows,     \* committed rows of the five tables, by identifier
    op,       \* what each request was asked to do, once its service let it
    done,     \* how many statements its transaction has run
    pending,  \* rows the transaction has written; they are locked
    touched   \* for the record: rows others committed since a deletion began

vars == <<rows, op, done, pending, touched>>

Ids == Areas \cup Departments \cup Sections \cup Units \cup Plazas
Row == [parents : SUBSET Ids, deleted : BOOLEAN]
Op == [kind : {"create", "update", "delete", "restore"}, on : Ids, parents : SUBSET Ids]

Init ==
    /\ rows = <<>>
    /\ op = [r \in Requests |-> NoOp]
    /\ done = [r \in Requests |-> 0]
    /\ pending = [r \in Requests |-> <<>>]
    /\ touched = [r \in Requests |-> {}]

-----------------------------------------------------------------------------
Active(view, x) == x \in DOMAIN view /\ ~view[x].deleted
Deleted(view, x) == x \in DOMAIN view /\ view[x].deleted

\* Two entities a unit could only have in the same parent column.
OneTable(e, n) == {e, n} \subseteq Sections \/ {e, n} \subseteq Departments

\* The parent columns a row of each table may be given: an area for departments and
\* sections, a section, a department or both for units, one entity for plazas.
ParentsOf(x) ==
    CASE x \in Areas -> {{}}
      [] x \in Departments \cup Sections -> {{a} : a \in Areas}
      [] x \in Units -> {P \in SUBSET (Sections \cup Departments) :
                           P # {} /\ \A e, n \in P : OneTable(e, n) => e = n}
      [] x \in Plazas -> {{e} : e \in Ids \ Plazas}

\* A constraint that forbids a second parent but not the lack of one.
CHECK_JOB_POSITION_PARENT_AtMostOne(write) ==
    \A p \in Plazas \cap DOMAIN write : Cardinality(write[p].parents) <= 1

\* CHECK_JOB_POSITION_PARENT, as the repositories rely on it.
CHECK_JOB_POSITION_PARENT(write) ==
    \A p \in Plazas \cap DOMAIN write : \E e \in Ids : write[p].parents = {e}

In(view, table, parents) == {x \in table \cap DOMAIN view : view[x].parents \cap parents # {}}

MarkDeleted(view, S) ==
    [x \in {y \in S : Active(view, y)} |-> [view[x] EXCEPT !.deleted = TRUE]]
Clear(view, S, parents) == [x \in S |-> [view[x] EXCEPT !.parents = @ \ parents]]

\* The cascade forgets the plazas of the units.
SP_DELETE_AREA_CASCADE_Shallow(view, a, i) ==
    LET branches == In(view, Departments \cup Sections, {a})
    IN  MarkDeleted(view, << In(view, Plazas, {a} \cup branches), In(view, Units, branches),
                             branches \cap Departments, branches \cap Sections, {a} >>[i])

SP_DELETE_AREA_CASCADE(view, a, i) ==
    LET branches == In(view, Departments \cup Sections, {a})
        units == In(view, Units, branches)
    IN  MarkDeleted(view, CASE i = 1 -> In(view, Plazas, {a} \cup branches \cup units)
                            [] i = 2 -> units
                            [] i = 3 -> branches \cap Departments
                            [] i = 4 -> branches \cap Sections
                            [] i = 5 -> {a})

deleteDepartment(view, d, i) ==
    LET units == In(view, Units, {d})
    IN  CASE i = 1 -> Clear(view, In(view, Plazas, units), units)
          [] i = 2 -> Clear(view, In(view, Plazas, {d}), {d})
          [] i = 3 -> MarkDeleted(view, units)
          [] i = 4 -> MarkDeleted(view, {d})

\* The plazas of the units are looked up once the units are already marked.
deleteSection(view, s, i) ==
    LET units == In(view, Units, {s})
    IN  MarkDeleted(view,
            CASE i = 1 -> units
              [] i = 2 -> In(view, Plazas, {s} \cup {u \in units : Active(view, u)})
              [] i = 3 -> {s})

deleteUnit(view, u, i) ==
    IF i = 1 THEN Clear(view, In(view, Plazas, {u}), {u}) ELSE MarkDeleted(view, {u})

deleteJobPosition(view, p) == MarkDeleted(view, {p})

\* An INSERT under a fresh identifier.
create(x, parents) == [y \in {x} |-> [parents |-> parents, deleted |-> FALSE]]

\* The update forgets AND is_deleted = 0.
update_Unguarded(view, x, parents) ==
    [y \in {x} |-> [view[y] EXCEPT !.parents = parents]]

\* The update of a plaza sets its new parent and leaves the old one.
update_KeepsParent(view, x, parents) ==
    [y \in {z \in {x} : Active(view, z)} |-> [view[y] EXCEPT !.parents = parents \cup @]]

\* The UPDATE of a unit sets the columns it is given and leaves the other; that of a
\* plaza clears the other three.  Only sections are updated whether deleted or not.
update(view, x, parents) ==
    LET kept == IF x \in Units
                  THEN {e \in view[x].parents : \A n \in parents : ~OneTable(e, n)}
                  ELSE {}
    IN  [y \in {z \in {x} : x \in Sections \/ Active(view, z)} |->
           [view[y] EXCEPT !.parents = parents \cup kept]]

restore(view, x) ==
    [y \in {z \in {x} : Deleted(view, z)} |-> [view[y] EXCEPT !.deleted = FALSE]]

Statements(o) ==
    IF o.kind # "delete" THEN 1
    ELSE CASE o.on \in Areas -> 5
           [] o.on \in Departments -> 4
           [] o.on \in Sections -> 3
           [] o.on \in Units -> 2
           [] o.on \in Plazas -> 1

\* The rows statement i of an operation writes, and what it writes.
Effect(o, view, i) ==
    CASE o.kind = "create" -> create(o.on, o.parents)
      [] o.kind = "update" -> update(view, o.on, o.parents)
      [] o.kind = "restore" -> restore(view, o.on)
      [] o.kind = "delete" ->
           CASE o.on \in Areas -> SP_DELETE_AREA_CASCADE(view, o.on, i)
             [] o.on \in Departments -> deleteDepartment(view, o.on, i)
             [] o.on \in Sections -> deleteSection(view, o.on, i)
             [] o.on \in Units -> deleteUnit(view, o.on, i)
             [] o.on \in Plazas -> deleteJobPosition(view, o.on)

-----------------------------------------------------------------------------
\* The services' checks.  Names are not modelled: a name in use only refuses.
Ask(r, kind, x, parents) ==
    /\ op' = [op EXCEPT ![r] = [kind |-> kind, on |-> x, parents |-> parents]]
    /\ UNCHANGED <<rows, done, pending, touched>>

\* Foreign keys want the parents to exist; only departments are created under, or
\* moved to, an area that has to be active.
ParentsFound(x, parents) ==
    /\ parents \subseteq DOMAIN rows
    /\ x \in Departments => \A a \in parents : Active(rows, a)

AskCreate(r) == op[r] = NoOp /\ \E x \in Ids \ DOMAIN rows : \E parents \in ParentsOf(x) :
    /\ \A q \in Requests : op[q] # NoOp => ~(op[q].kind = "create" /\ op[q].on = x)
    /\ ParentsFound(x, parents)
    /\ Ask(r, "create", x, parents)

AskUpdate(r) == op[r] = NoOp /\ \E x \in DOMAIN rows : \E parents \in ParentsOf(x) :
    /\ Active(rows, x) \/ x \in Sections
    /\ ParentsFound(x, parents)
    /\ Ask(r, "update", x, parents)

AskDelete(r) == op[r] = NoOp /\ \E x \in DOMAIN rows :
    /\ Active(rows, x) \/ x \in Sections
    /\ Ask(r, "delete", x, {})

\* Plazas have no restore.  That of a section reads a row without its is_deleted, takes
\* it for active and always refuses.
AskRestore(r) == op[r] = NoOp /\ \E x \in Areas \cup Departments \cup Units :
    /\ Deleted(rows, x)
    /\ Ask(r, "restore", x, {})

-----------------------------------------------------------------------------
\* The rows of f, and those of g where f has none.
Over(f, g) == [x \in DOMAIN f \cup DOMAIN g |-> IF x \in DOMAIN f THEN f[x] ELSE g[x]]

View(r) == Over(pending[r], rows)
Next1(r) == done[r] + 1
Write(r) == Effect(op[r], View(r), Next1(r))
WaitsFor(r, q) ==
    /\ r # q
    /\ op[r] # NoOp
    /\ pending[q] # <<>>
    /\ DOMAIN Write(r) \cap DOMAIN pending[q] # {}

Finish(r) ==
    /\ op' = [op EXCEPT ![r] = NoOp]
    /\ done' = [done EXCEPT ![r] = 0]
    /\ pending' = [pending EXCEPT ![r] = <<>>]

\* rollBack() and the exception; the rows are as they were.
RollBack(r) ==
    /\ Finish(r)
    /\ touched' = [touched EXCEPT ![r] = {}]
    /\ UNCHANGED rows

Execute(r) ==
    /\ op[r] # NoOp
    /\ Next1(r) < Statements(op[r])
    /\ \A q \in Requests : ~WaitsFor(r, q)
    /\ CHECK_JOB_POSITION_PARENT(Write(r))
    /\ pending' = [pending EXCEPT ![r] = Over(Write(r), @)]
    /\ done' = [done EXCEPT ![r] = @ + 1]
    /\ UNCHANGED <<rows, op, touched>>

\* More than MaxTouched rows are remembered as any row at all.
Remember(S) == IF Cardinality(S) <= MaxTouched THEN S ELSE Ids

Commit(r) ==
    /\ op[r] # NoOp
    /\ Next1(r) = Statements(op[r])
    /\ \A q \in Requests : ~WaitsFor(r, q)
    /\ CHECK_JOB_POSITION_PARENT(Write(r))
    /\ rows' = Over(Write(r), View(r))
    /\ touched' = [q \in Requests |->
         IF q = r \/ done[q] = 0 THEN {}
         ELSE Remember(touched[q] \cup DOMAIN Write(r) \cup DOMAIN pending[r])]
    /\ Finish(r)

ConstraintViolated(r) ==
    /\ op[r] # NoOp
    /\ \A q \in Requests : ~WaitsFor(r, q)
    /\ ~CHECK_JOB_POSITION_PARENT(Write(r))
    /\ RollBack(r)

\* Those that r waits for, directly or through others.
Awaited(r) ==
    {q \in Requests : \A S \in SUBSET Requests :
        (\A p \in {r} \cup S, t \in Requests : WaitsFor(p, t) => t \in S) => q \in S}

\* Nobody breaks the cycle.
DeadlockDetected_Never(r) == FALSE /\ RollBack(r)

\* Oracle breaks a cycle of waiting transactions by failing the statement of one.
DeadlockDetected(r) ==
    /\ \E q \in Requests : WaitsFor(r, q)
    /\ r \in Awaited(r)
    /\ RollBack(r)

\* The session or the database goes away.
StatementFails(r) == op[r] # NoOp /\ RollBack(r)

Run(r) == Execute(r) \/ Commit(r) \/ ConstraintViolated(r) \/ DeadlockDetected(r)

Next == \E r \in Requests :
    AskCreate(r) \/ AskUpdate(r) \/ AskDelete(r) \/ AskRestore(r)
    \/ Run(r) \/ StatementFails(r)

Spec == Init /\ [][Next]_vars

-----------------------------------------------------------------------------
(* Properties *)

\* The rows, the requests and what their transactions have written keep their fields,
\* and a committed row has the parents its table allows.
TypeOK ==
    /\ DOMAIN rows \subseteq Ids
    /\ \A x \in DOMAIN rows : rows[x] \in Row /\ rows[x].parents \in ParentsOf(x)
    /\ op \in [Requests -> Op \cup {NoOp}]
    /\ done \in [Requests -> 0 .. 4]
    /\ \A r \in Requests :
         /\ DOMAIN pending[r] \subseteq Ids
         /\ \A x \in DOMAIN pending[r] : pending[r][x] \in Row
    /\ touched \in [Requests -> SUBSET Ids]

\* The entities above x, x included.
Above(x) ==
    LET parents(S) == UNION {rows[y].parents : y \in S \cap DOMAIN rows}
        first == parents({x})
        second == parents(first)
    IN  {x} \cup first \cup second \cup parents(second)
Below(e) == {x \in DOMAIN rows : e \in Above(x)}

BecomesDeleted(e) == Active(rows, e) /\ Deleted(rows', e)
\* The rows of a deletion's subtree that nobody has touched, or moved with what is
\* above them, since it began.
Settled(r, e) == {x \in Below(e) : Above(x) \cap touched[r] = {}}
DeletedBy(r, e) == op[r] # NoOp /\ op[r].kind = "delete" /\ op[r].on = e /\ Commit(r)

\* A deletion of an area takes its whole subtree, one of a department or a section
\* its units, at once and with it; a row that escapes has been created, restored or
\* moved by somebody else while the deletion was running (SP_DELETE_AREA_CASCADE and
\* the delete of the repositories).
DeletionCascades ==
    [][\A e \in Areas \cup Departments \cup Sections :
         BecomesDeleted(e) => \A r \in Requests : DeletedBy(r, e)
           => \A x \in Settled(r, e) : x \in Units \/ e \in Areas => Deleted(rows', x)]_vars

\* A soft-deleted area, department, unit or plaza keeps its parents, whatever the
\* service had read before the row was deleted; it changes only by being restored,
\* and a plaza not at all.
DeletedRowsFrozen ==
    [][\A x \in DOMAIN rows \ Sections : Deleted(rows, x) =>
         /\ rows'[x].parents = rows[x].parents
         /\ x \in Plazas => Deleted(rows', x)]_vars

\* However the statements of concurrent requests interleave, the committed tables change
\* by one whole operation at a time, and none undoes what another has committed
\* meanwhile (the transactions of the repositories).
Organized == INSTANCE Organization
OrganizationSpec == Organized!Spec

\* Only deletions run into CHECK_JOB_POSITION_PARENT: what creates a plaza or moves it
\* sets one parent column and clears the others.
OnlyDeletionsRefused ==
    [][\A r \in Requests :
         op[r] # NoOp /\ op[r].kind # "delete" => ~ConstraintViolated(r)]_vars

\* The statement of r waits for nobody, or is the one that Oracle fails.
MayRun(r) ==
    op[r] # NoOp /\ ((\A q \in Requests : ~WaitsFor(r, q)) \/ r \in Awaited(r))

\* However the transactions wait for each other, one of them may run.
SomebodyMayRun == (\E r \in Requests : op[r] # NoOp) => \E r \in Requests : MayRun(r)

\* Of the transactions under way one can always go on, also when two cascades wait
\* for each other's rows: the area's locks plazas before units, the section's units
\* before plazas.
NobodyStuck == SomebodyMayRun /\ \A r \in Requests : MayRun(r) => ENABLED Run(r)

\* docs/soft-delete-design.md:18: "Plazas are never left floating: when an organization
\* entity is deleted", its plazas are taken out of it or deleted too.  Here of the plazas
\* that were settled under an entity when its deletion committed.
NoFloatingPlaza ==
    [][\A e \in Ids \ Plazas :
         BecomesDeleted(e) => \A r \in Requests : DeletedBy(r, e)
           => \A p \in Settled(r, e) \cap Plazas : ~Active(rows', p)]_vars

\* docs/soft-delete-design.md:169 and :171: a unit or a department lets go of its plazas
\* ("UNIT_ID = NULL", "DEPARTMENT_ID = NULL", "Survives") and is then deleted.  So the
\* deletion of one does not fail on the parents of a plaza.
DeletionsReanchor ==
    [][\A r \in Requests :
         op[r] # NoOp /\ op[r].kind = "delete" /\ op[r].on \in Departments \cup Units
           => ~ConstraintViolated(r)]_vars
=============================================================================
