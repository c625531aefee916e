------------------------- MODULE OrgStructureProofs -------------------------
(***************************************************************************)
(* Proofs about the organization, for any number of entities, plazas and   *)
(* concurrent requests.                                                    *)
(*                                                                         *)
(* A commit writes rows that earlier statements have put together.  What   *)
(* makes them safe to write is that only deletions have several            *)
(* statements, that what these have written so far is the committed row    *)
(* with its flag set (a plaza without a parent does not pass the CHECK),   *)
(* and that row locks keep that row as it was.                             *)
(***************************************************************************)
EXTENDS OrgStructure, FiniteSetTheorems, TLAPS

RowsInv ==
    /\ DOMAIN rows \subseteq Ids
    /\ \A x \in DOMAIN rows : rows[x] \in Row /\ rows[x].parents \in ParentsOf(x)

\* What the services have let through.
Let(o) ==
    /\ o \in Op
    /\ o.kind \in {"create", "update"} => o.parents \in ParentsOf(o.on)
    /\ o.kind = "create" => o.on \notin DOMAIN rows
    /\ o.kind # "create" => o.on \in DOMAIN rows
    /\ o.kind = "restore" => o.on \notin Plazas

\* What the transaction of r has written and locked.
Marked(r) ==
    \A x \in DOMAIN pending[r] :
        /\ op[r] # NoOp /\ op[r].kind = "delete"
        /\ Active(rows, x)
        /\ pending[r][x] \in Row
        /\ pending[r][x].deleted /\ pending[r][x].parents = rows[x].parents

RequestsInv ==
    /\ op \in [Requests -> Op \cup {NoOp}]
    /\ done \in [Requests -> 0 .. 4]
    /\ touched \in [Requests -> SUBSET Ids]
    /\ pending = [r \in Requests |-> pending[r]]
    /\ \A r \in Requests : (op[r] # NoOp => Let(op[r])) /\ Marked(r)

\* No two requests hold a lock or an identifier to be created in common.
Apart ==
    \A r, q \in Requests : r # q =>
        /\ DOMAIN pending[r] \cap DOMAIN pending[q] = {}
        /\ op[r] # NoOp /\ op[q] # NoOp /\ op[r].kind = "create" /\ op[q].kind = "create"
             => op[r].on # op[q].on

IInv == RowsInv /\ RequestsInv /\ Apart

-----------------------------------------------------------------------------
LEMMA EmptyDomain == DOMAIN <<>> = {}
  OBVIOUS

LEMMA OverFacts ==
    ASSUME NEW f, NEW g
    PROVE  /\ DOMAIN Over(f, g) = DOMAIN f \cup DOMAIN g
           /\ \A x \in DOMAIN f : Over(f, g)[x] = f[x]
           /\ \A x \in DOMAIN g : x \notin DOMAIN f => Over(f, g)[x] = g[x]
  BY DEF Over

\* Parents are identifiers, and a plaza has one.
LEMMA ParentsAreIds ==
    ASSUME NEW x \in Ids, NEW P \in ParentsOf(x)
    PROVE  P \in SUBSET Ids /\ (x \in Plazas => \E e \in Ids : P = {e})
  BY IdsAreDistinct DEF ParentsOf, Ids

\* The UPDATE of a row leaves it with parents its table allows.
LEMMA UpdatedParents ==
    ASSUME NEW x \in Units, NEW old \in ParentsOf(x), NEW new \in ParentsOf(x)
    PROVE  new \cup {e \in old : \A n \in new : ~OneTable(e, n)} \in ParentsOf(x)
  <1>1. ParentsOf(x) = {P \in SUBSET (Sections \cup Departments) :
                          P # {} /\ \A e, n \in P : OneTable(e, n) => e = n}
    BY IdsAreDistinct DEF ParentsOf
  <1> QED
    BY <1>1 DEF OneTable

\* The rows a request sees are the committed ones, but for those it has marked.
LEMMA ViewFacts ==
    ASSUME IInv, NEW r \in Requests
    PROVE  /\ DOMAIN View(r) = DOMAIN rows
           /\ \A x \in DOMAIN rows :
                 /\ View(r)[x] \in Row /\ View(r)[x].parents = rows[x].parents
                 /\ x \notin DOMAIN pending[r] => View(r)[x] = rows[x]
                 /\ Active(View(r), x) => x \notin DOMAIN pending[r] /\ Active(rows, x)
  <1>1. \A x \in DOMAIN pending[r] :
           /\ x \in DOMAIN rows /\ pending[r][x] \in Row
           /\ pending[r][x].deleted /\ pending[r][x].parents = rows[x].parents
    BY DEF IInv, RequestsInv, Marked, Active
  <1> DEFINE view == View(r)
  <1>4. /\ DOMAIN view = DOMAIN pending[r] \cup DOMAIN rows
        /\ \A x \in DOMAIN pending[r] : view[x] = pending[r][x]
        /\ \A x \in DOMAIN rows : x \notin DOMAIN pending[r] => view[x] = rows[x]
    BY OverFacts, Zenon DEF View
  <1> HIDE DEF view
  <1>2. DOMAIN view = DOMAIN rows
    BY <1>1, <1>4
  <1>3. ASSUME NEW x \in DOMAIN rows
        PROVE  /\ view[x] \in Row /\ view[x].parents = rows[x].parents
               /\ x \notin DOMAIN pending[r] => view[x] = rows[x]
               /\ Active(view, x) => x \notin DOMAIN pending[r] /\ Active(rows, x)
    <2>1. CASE x \in DOMAIN pending[r]
      <3>1. view[x] = pending[r][x]
        BY <2>1, <1>4
      <3> QED
        BY <1>1, <2>1, <3>1 DEF Active
    <2>2. CASE x \notin DOMAIN pending[r]
      <3>1. view[x] = rows[x]
        BY <2>2, <1>4
      <3> QED
        BY <2>2, <3>1 DEF Active, IInv, RowsInv
    <2> QED
      BY <2>1, <2>2
  <1> QED
    BY <1>2, <1>3 DEF view

-----------------------------------------------------------------------------
\* A write that marks rows and changes nothing else of them.
Marks(write, view) ==
    \A x \in DOMAIN write :
        /\ Active(view, x) /\ write[x] \in Row
        /\ write[x].deleted /\ write[x].parents = view[x].parents

LEMMA MarkDeletedMarks ==
    ASSUME NEW view, NEW S, \A x \in DOMAIN view : view[x] \in Row
    PROVE  Marks(MarkDeleted(view, S), view)
  <1> SUFFICES ASSUME NEW x \in DOMAIN MarkDeleted(view, S)
               PROVE  /\ Active(view, x) /\ MarkDeleted(view, S)[x] \in Row
                      /\ MarkDeleted(view, S)[x].deleted
                      /\ MarkDeleted(view, S)[x].parents = view[x].parents
    BY DEF Marks
  <1>1. Active(view, x) /\ MarkDeleted(view, S)[x] = [view[x] EXCEPT !.deleted = TRUE]
    BY DEF MarkDeleted
  <1>2. view[x] \in Row
    BY <1>1 DEF Active
  <1> QED
    BY <1>1, <1>2 DEF Row

\* Plazas have one parent: the CHECK lets a statement that clears it do nothing only.
LEMMA ClearRefused ==
    ASSUME NEW view, NEW P, DOMAIN view \subseteq Ids,
           \A x \in DOMAIN view : view[x] \in Row /\ view[x].parents \in ParentsOf(x),
           CHECK_JOB_POSITION_PARENT(Clear(view, In(view, Plazas, P), P))
    PROVE  DOMAIN Clear(view, In(view, Plazas, P), P) = {}
  <1> DEFINE write == Clear(view, In(view, Plazas, P), P)
  <1> SUFFICES ASSUME NEW p \in DOMAIN write PROVE FALSE
    OBVIOUS
  <1>1. /\ p \in Plazas /\ p \in DOMAIN view /\ view[p].parents \cap P # {}
        /\ write[p] = [view[p] EXCEPT !.parents = view[p].parents \ P]
    BY DEF Clear, In
  <1>2. write[p].parents = view[p].parents \ P
    BY <1>1 DEF Row
  <1>3. PICK e \in Ids : write[p].parents = {e}
    BY <1>1 DEF CHECK_JOB_POSITION_PARENT
  <1>4. PICK n \in Ids : view[p].parents = {n}
    BY <1>1, ParentsAreIds
  <1> HIDE DEF write
  <1> QED
    BY <1>1, <1>2, <1>3, <1>4

\* So a statement of a deletion marks rows and changes nothing else of them.
LEMMA DeletionMarks ==
    ASSUME IInv, NEW r \in Requests, op[r] # NoOp, op[r].kind = "delete",
           Next1(r) <= Statements(op[r]), CHECK_JOB_POSITION_PARENT(Write(r))
    PROVE  Marks(Write(r), View(r))
  <1> DEFINE view == View(r)
             x == op[r].on
             i == Next1(r)
  <1>1. /\ DOMAIN view \subseteq Ids
        /\ \A y \in DOMAIN view : view[y] \in Row /\ view[y].parents \in ParentsOf(y)
    BY ViewFacts DEF IInv, RowsInv
  <1>2. x \in Ids /\ i \in Nat \ {0}
    BY DEF IInv, RequestsInv, Let, Op, Next1
  <1>3. /\ CHECK_JOB_POSITION_PARENT(Effect(op[r], view, i))
        /\ Write(r) = Effect(op[r], view, i)
    BY DEF Write
  <1>4. i <= Statements(op[r])
    OBVIOUS
  <1> HIDE DEF view, i
  <1>5. \A S : Marks(MarkDeleted(view, S), view)
    BY <1>1, MarkDeletedMarks
  <1>6. \A P : CHECK_JOB_POSITION_PARENT(Clear(view, In(view, Plazas, P), P))
                 => Marks(Clear(view, In(view, Plazas, P), P), view)
    BY <1>1, ClearRefused DEF Marks
  <1>7. CASE x \in Areas
    <2>1. Effect(op[r], view, i) = SP_DELETE_AREA_CASCADE(view, x, i)
      BY <1>7, IdsAreDistinct DEF Effect
    <2> QED
      BY <1>3, <1>5, <2>1 DEF SP_DELETE_AREA_CASCADE, view
  <1>8. CASE x \in Departments
    <2>1. Effect(op[r], view, i) = deleteDepartment(view, x, i) /\ i \in 1 .. 4
      BY <1>2, <1>4, <1>8, IdsAreDistinct DEF Effect, Statements
    <2>2. Marks(deleteDepartment(view, x, i), view)
      <3>1. CASE i = 1
        BY <1>3, <1>6, <2>1, <3>1 DEF deleteDepartment
      <3>2. CASE i = 2
        BY <1>3, <1>6, <2>1, <3>2 DEF deleteDepartment
      <3>3. CASE i = 3
        BY <1>5, <3>3 DEF deleteDepartment
      <3>4. CASE i = 4
        BY <1>5, <3>4 DEF deleteDepartment
      <3> QED
        BY <2>1, <3>1, <3>2, <3>3, <3>4
    <2> QED
      BY <1>3, <2>1, <2>2 DEF view
  <1>9. CASE x \in Sections
    <2>1. Effect(op[r], view, i) = deleteSection(view, x, i)
      BY <1>9, IdsAreDistinct DEF Effect
    <2> QED
      BY <1>3, <1>5, <2>1 DEF deleteSection, view
  <1>10. CASE x \in Units
    <2>1. Effect(op[r], view, i) = deleteUnit(view, x, i)
      BY <1>10, IdsAreDistinct DEF Effect
    <2>2. Marks(deleteUnit(view, x, i), view)
      <3>1. CASE i = 1
        BY <1>3, <1>6, <2>1, <3>1 DEF deleteUnit
      <3>2. CASE i # 1
        BY <1>5, <3>2 DEF deleteUnit
      <3> QED
        BY <3>1, <3>2
    <2> QED
      BY <1>3, <2>1, <2>2 DEF view
  <1>11. CASE x \in Plazas
    <2>1. Effect(op[r], view, i) = deleteJobPosition(view, x)
      BY <1>11, IdsAreDistinct DEF Effect
    <2> QED
      BY <1>3, <1>5, <2>1 DEF deleteJobPosition, view
  <1> QED
    BY <1>2, <1>7, <1>8, <1>9, <1>10, <1>11 DEF Ids

\* Requests other than deletions run one statement and hold no lock before it.
LEMMA OneStatement ==
    ASSUME IInv, NEW r \in Requests, op[r] # NoOp, op[r].kind # "delete"
    PROVE  DOMAIN pending[r] = {} /\ Statements(op[r]) = 1
  BY DEF IInv, RequestsInv, Marked, Statements

\* What a statement writes: rows nobody has marked in its transaction, with parents
\* their tables allow; a deleted row keeps its parents, a deleted plaza is not written.
LEMMA WriteFacts ==
    ASSUME IInv, NEW r \in Requests, op[r] # NoOp,
           op[r].kind = "delete" => /\ Next1(r) <= Statements(op[r])
                                    /\ CHECK_JOB_POSITION_PARENT(Write(r)),
           NEW x \in DOMAIN Write(r)
    PROVE  /\ x \in Ids /\ x \notin DOMAIN pending[r]
           /\ x \in DOMAIN rows \/ (op[r].kind = "create" /\ x = op[r].on)
           /\ Write(r)[x] \in Row /\ Write(r)[x].parents \in ParentsOf(x)
           /\ x \notin Sections /\ Deleted(rows, x) =>
                 Write(r)[x].parents = rows[x].parents /\ x \notin Plazas
  <1> DEFINE o == op[r]
             view == View(r)
             write == Write(r)
  <1>1. Let(o) /\ o \in Op /\ RowsInv
    BY DEF IInv, RequestsInv, Let
  <1>2. /\ DOMAIN view = DOMAIN rows
        /\ \A y \in DOMAIN rows : view[y] \in Row /\ view[y].parents = rows[y].parents
        /\ \A y \in DOMAIN rows : Active(view, y) => y \notin DOMAIN pending[r] /\ Active(rows, y)
    BY ViewFacts
  <1>3. o.kind # "delete" => DOMAIN pending[r] = {}
    BY OneStatement
  <1>4. o.kind = "delete" => Marks(write, view)
    BY DeletionMarks
  <1>5. write = Effect(o, view, Next1(r)) /\ x \in DOMAIN write
    BY DEF Write
  <1> HIDE DEF o, view, write
  <1> SUFFICES /\ x \in Ids /\ x \notin DOMAIN pending[r]
               /\ x \in DOMAIN rows \/ (o.kind = "create" /\ x = o.on)
               /\ write[x] \in Row /\ write[x].parents \in ParentsOf(x)
               /\ x \notin Sections /\ Deleted(rows, x) =>
                     write[x].parents = rows[x].parents /\ x \notin Plazas
    BY DEF o, write
  <1>6. CASE o.kind = "delete"
    BY <1>1, <1>2, <1>4, <1>5, <1>6 DEF Marks, Active, Deleted, RowsInv
  <1>7. CASE o.kind = "create"
    <2>1. write = create(o.on, o.parents)
      BY <1>5, <1>7 DEF Effect
    <2>2. x = o.on /\ write[x] = [parents |-> o.parents, deleted |-> FALSE]
      BY <1>5, <2>1 DEF create
    <2>3. o.on \in Ids /\ o.on \notin DOMAIN rows /\ o.parents \in ParentsOf(o.on)
      BY <1>1, <1>7 DEF Let, Op
    <2>4. o.parents \in SUBSET Ids
      BY <2>3, ParentsAreIds
    <2> QED
      BY <1>3, <1>7, <2>2, <2>3, <2>4 DEF Row, Deleted
  <1>8. CASE o.kind = "update"
    <2> DEFINE kept == IF x \in Units
                         THEN {e \in view[x].parents : \A n \in o.parents : ~OneTable(e, n)}
                         ELSE {}
    <2>1. write = update(view, o.on, o.parents)
      BY <1>5, <1>8 DEF Effect
    <2>2. /\ x = o.on
          /\ x \in Sections \/ Active(view, x)
          /\ write[x] = [view[x] EXCEPT !.parents = o.parents \cup kept]
      BY <1>5, <2>1 DEF update
    <2>3. /\ x \in Ids /\ x \in DOMAIN rows /\ o.parents \in ParentsOf(x)
          /\ view[x] \in Row /\ view[x].parents \in ParentsOf(x)
      BY <1>1, <1>2, <1>8, <2>2 DEF Let, Op, RowsInv
    <2>4. o.parents \cup kept \in ParentsOf(x)
      BY <2>3, UpdatedParents
    <2> HIDE DEF kept
    <2>5. o.parents \cup kept \in SUBSET Ids
      BY <2>3, <2>4, ParentsAreIds
    <2>6. write[x] \in Row /\ write[x].parents = o.parents \cup kept
      BY <2>2, <2>3, <2>5 DEF Row
    <2> QED
      BY <1>2, <1>3, <1>8, <2>2, <2>3, <2>4, <2>6 DEF Active, Deleted
  <1>9. CASE o.kind = "restore"
    <2>1. write = restore(view, o.on)
      BY <1>5, <1>9 DEF Effect
    <2>2. x = o.on /\ write[x] = [view[x] EXCEPT !.deleted = FALSE]
      BY <1>5, <2>1 DEF restore
    <2>3. x \in Ids /\ x \in DOMAIN rows /\ x \notin Plazas /\ view[x] \in Row
      BY <1>1, <1>2, <1>9, <2>2 DEF Let, Op
    <2>4. write[x] \in Row /\ write[x].parents = view[x].parents
      BY <2>2, <2>3 DEF Row
    <2> QED
      BY <1>1, <1>2, <1>3, <1>9, <2>3, <2>4 DEF RowsInv
  <1> QED
    BY <1>1, <1>6, <1>7, <1>8, <1>9 DEF Op

-----------------------------------------------------------------------------
\* A statement that waits for nobody writes no row another request has locked.
LEMMA NoLockTaken ==
    ASSUME NEW r \in Requests, op[r] # NoOp, \A q \in Requests : ~WaitsFor(r, q),
           NEW q \in Requests, q # r
    PROVE  DOMAIN Write(r) \cap DOMAIN pending[q] = {}
  <1>1. CASE pending[q] = <<>>
    BY <1>1, EmptyDomain
  <1>2. CASE pending[q] # <<>>
    BY <1>2 DEF WaitsFor
  <1> QED
    BY <1>1, <1>2

\* What a commit does to the rows.
LEMMA CommitRows ==
    ASSUME IInv, NEW r \in Requests, Commit(r)
    PROVE  /\ DOMAIN rows' = DOMAIN rows \cup DOMAIN Write(r)
           /\ \A x \in DOMAIN rows' :
                 x \in Ids /\ rows'[x] \in Row /\ rows'[x].parents \in ParentsOf(x)
           /\ \A x \in DOMAIN rows : x \notin DOMAIN Write(r) \cup DOMAIN pending[r]
                 => rows'[x] = rows[x]
           /\ \A x \in DOMAIN rows \ Sections : Deleted(rows, x) =>
                 rows'[x].parents = rows[x].parents /\ (x \in Plazas => rows'[x].deleted)
  <1> DEFINE write == Write(r)
             view == View(r)
  <1>1. /\ op[r] # NoOp /\ Next1(r) <= Statements(op[r])
        /\ CHECK_JOB_POSITION_PARENT(write) /\ rows' = Over(write, view)
    <2>1. Next1(r) \in Nat
      BY DEF Next1, IInv, RequestsInv
    <2> QED
      BY <2>1 DEF Commit
  <1>2. \A x \in DOMAIN write :
           /\ x \in Ids /\ x \notin DOMAIN pending[r]
           /\ write[x] \in Row /\ write[x].parents \in ParentsOf(x)
           /\ x \notin Sections /\ Deleted(rows, x) =>
                 write[x].parents = rows[x].parents /\ x \notin Plazas
    BY <1>1, WriteFacts
  <1>3. /\ DOMAIN view = DOMAIN rows
        /\ \A x \in DOMAIN rows :
              /\ view[x] \in Row /\ view[x].parents = rows[x].parents
              /\ x \notin DOMAIN pending[r] => view[x] = rows[x]
    BY ViewFacts
  <1> HIDE DEF write, view
  <1>4. /\ DOMAIN rows' = DOMAIN write \cup DOMAIN rows
        /\ \A x \in DOMAIN write : rows'[x] = write[x]
        /\ \A x \in DOMAIN rows : x \notin DOMAIN write => rows'[x] = view[x]
    BY <1>1, <1>3, SMT DEF Over
  <1>5. RowsInv
    BY DEF IInv
  <1>6. ASSUME NEW x \in DOMAIN rows'
        PROVE  x \in Ids /\ rows'[x] \in Row /\ rows'[x].parents \in ParentsOf(x)
    <2>1. CASE x \in DOMAIN write
      BY <1>2, <1>4, <2>1
    <2>2. CASE x \notin DOMAIN write
      BY <1>3, <1>4, <1>5, <2>2 DEF RowsInv
    <2> QED
      BY <2>1, <2>2
  <1>7. \A x \in DOMAIN pending[r] : ~Deleted(rows, x)
    BY DEF IInv, RequestsInv, Marked, Active, Deleted
  <1>8. ASSUME NEW x \in DOMAIN rows \ Sections, Deleted(rows, x)
        PROVE  rows'[x].parents = rows[x].parents /\ (x \in Plazas => rows'[x].deleted)
    BY <1>2, <1>3, <1>4, <1>7, <1>8 DEF Deleted
  <1> QED
    BY <1>3, <1>4, <1>6, <1>8 DEF write

LEMMA CommitKeeps == ASSUME IInv, NEW r \in Requests, Commit(r) PROVE IInv'
  <1>1. RowsInv'
    BY CommitRows DEF RowsInv
  <1>2. /\ op' = [op EXCEPT ![r] = NoOp] /\ done' = [done EXCEPT ![r] = 0]
        /\ pending' = [pending EXCEPT ![r] = <<>>]
        /\ op[r] # NoOp /\ \A q \in Requests : ~WaitsFor(r, q)
    BY DEF Commit, Finish
  <1>3. /\ op' \in [Requests -> Op \cup {NoOp}] /\ done' \in [Requests -> 0 .. 4]
        /\ pending' = [q \in Requests |-> pending'[q]]
        /\ op'[r] = NoOp /\ DOMAIN pending'[r] = {}
        /\ \A q \in Requests \ {r} : op'[q] = op[q] /\ pending'[q] = pending[q]
    <2>1. op' \in [Requests -> Op \cup {NoOp}] /\ done' \in [Requests -> 0 .. 4]
      BY <1>2 DEF IInv, RequestsInv
    <2>2. op'[r] = NoOp /\ pending'[r] = <<>> /\ pending' = [q \in Requests |-> pending'[q]]
      BY <1>2 DEF IInv, RequestsInv
    <2>3. \A q \in Requests \ {r} : op'[q] = op[q] /\ pending'[q] = pending[q]
      BY <1>2 DEF IInv, RequestsInv
    <2> QED
      BY <2>1, <2>2, <2>3, EmptyDomain
  <1>4. touched' \in [Requests -> SUBSET Ids]
    <2>1. DOMAIN Write(r) \subseteq Ids /\ DOMAIN pending[r] \subseteq Ids
      BY CommitRows, <1>1 DEF RowsInv, IInv, RequestsInv, Marked, Active
    <2>2. \A q \in Requests : touched[q] \in SUBSET Ids
      BY DEF IInv, RequestsInv
    <2> QED
      BY <2>1, <2>2 DEF Commit, Remember
  <1>5. /\ DOMAIN rows' = DOMAIN rows \cup DOMAIN Write(r)
        /\ \A x \in DOMAIN Write(r) :
              x \in DOMAIN rows \/ (op[r].kind = "create" /\ x = op[r].on)
    <2>1. Next1(r) <= Statements(op[r])
      <3>1. Next1(r) \in Nat
        BY DEF Next1, IInv, RequestsInv
      <3> QED
        BY <3>1 DEF Commit
    <2> QED
      BY <2>1, CommitRows, WriteFacts DEF Commit
  <1>6. ASSUME NEW q \in Requests, q # r
        PROVE  (op[q] # NoOp => Let(op[q])') /\ Marked(q)'
    <2>1. ASSUME op[q] # NoOp PROVE Let(op[q])'
      <3>1. Let(op[q])
        BY <2>1 DEF IInv, RequestsInv
      <3>2. op[q].kind = "create" => op[q].on \notin DOMAIN rows'
        BY <1>2, <1>5, <1>6, <2>1, <3>1 DEF IInv, Apart, Let
      <3>3. op[q].kind # "create" => op[q].on \in DOMAIN rows'
        BY <1>5, <3>1 DEF Let
      <3> QED
        BY <1>3, <1>6, <3>1, <3>2, <3>3 DEF Let
    <2>2. ASSUME NEW x \in DOMAIN pending[q] PROVE x \in DOMAIN rows /\ rows'[x] = rows[x]
      <3>1. x \notin DOMAIN Write(r)
        BY <1>2, <1>6, NoLockTaken
      <3>2. x \notin DOMAIN pending[r]
        BY <1>6 DEF IInv, Apart
      <3>3. x \in DOMAIN rows
        BY DEF IInv, RequestsInv, Marked, Active
      <3> QED
        BY <3>1, <3>2, <3>3, CommitRows
    <2>3. Marked(q)'
      BY <1>3, <1>5, <1>6, <2>2 DEF IInv, RequestsInv, Marked, Active
    <2> QED
      BY <2>1, <2>3
  <1>7. RequestsInv'
    <2>1. ASSUME NEW q \in Requests PROVE ((op[q] # NoOp => Let(op[q])) /\ Marked(q))'
      <3>1. CASE q = r
        BY <1>3, <3>1 DEF Marked
      <3>2. CASE q # r
        BY <1>3, <1>6, <3>2
      <3> QED
        BY <3>1, <3>2
    <2> QED
      BY <1>3, <1>4, <2>1 DEF RequestsInv
  <1>8. Apart'
    BY <1>3 DEF IInv, Apart
  <1> QED
    BY <1>1, <1>7, <1>8 DEF IInv

\* A statement that is not the last marks more rows.
LEMMA ExecuteKeeps == ASSUME IInv, NEW r \in Requests, Execute(r) PROVE IInv'
  <1> DEFINE write == Write(r)
             next == Over(write, pending[r])
  <1>1. /\ op[r] # NoOp /\ Next1(r) < Statements(op[r])
        /\ \A q \in Requests : ~WaitsFor(r, q)
        /\ CHECK_JOB_POSITION_PARENT(write)
        /\ pending' = [pending EXCEPT ![r] = next] /\ done' = [done EXCEPT ![r] = done[r] + 1]
        /\ UNCHANGED <<rows, op, touched>>
    BY DEF Execute
  <1>2. op[r] \in Op /\ done[r] \in 0 .. 4 /\ Next1(r) = done[r] + 1
    BY <1>1 DEF IInv, RequestsInv, Next1
  <1>3. op[r].kind = "delete"
    BY <1>1, <1>2, OneStatement
  <1>4. done[r] + 1 \in 0 .. 4 /\ Next1(r) <= Statements(op[r])
    <2>1. op[r].on \in Ids
      BY <1>2 DEF Op
    <2>2. Statements(op[r]) \in 1 .. 5
      BY <1>3, <2>1, IdsAreDistinct DEF Statements, Ids
    <2> QED
      BY <1>1, <1>2, <2>2
  <1>5. Marks(write, View(r))
    BY <1>1, <1>3, <1>4, DeletionMarks
  <1>6. \A x \in DOMAIN write :
           /\ Active(rows, x) /\ write[x] \in Row
           /\ write[x].deleted /\ write[x].parents = rows[x].parents
    BY <1>5, ViewFacts DEF Marks, Active
  <1>7. \A q \in Requests : q # r => DOMAIN write \cap DOMAIN pending[q] = {}
    BY <1>1, NoLockTaken
  <1> HIDE DEF write
  <1>8. /\ DOMAIN next = DOMAIN write \cup DOMAIN pending[r]
        /\ \A x \in DOMAIN write : next[x] = write[x]
        /\ \A x \in DOMAIN pending[r] : x \notin DOMAIN write => next[x] = pending[r][x]
    BY OverFacts
  <1> HIDE DEF next
  <1>9. /\ pending' = [q \in Requests |-> pending'[q]]
        /\ pending'[r] = next /\ \A q \in Requests \ {r} : pending'[q] = pending[q]
    BY <1>1 DEF IInv, RequestsInv
  <1>10. ASSUME NEW q \in Requests PROVE Marked(q)'
    <2>1. Marked(q)
      BY DEF IInv, RequestsInv
    <2>2. CASE q = r
      BY <1>1, <1>3, <1>6, <1>8, <1>9, <2>1, <2>2 DEF Marked
    <2>3. CASE q # r
      BY <1>1, <1>9, <2>1, <2>3 DEF Marked
    <2> QED
      BY <2>2, <2>3
  <1>11. done' \in [Requests -> 0 .. 4]
    BY <1>1, <1>4 DEF IInv, RequestsInv
  <1>12. RequestsInv'
    BY <1>1, <1>9, <1>10, <1>11 DEF IInv, RequestsInv, Let
  <1>13. Apart'
    BY <1>1, <1>7, <1>8, <1>9 DEF IInv, Apart
  <1> QED
    BY <1>1, <1>12, <1>13 DEF IInv, RowsInv

\* A transaction undone leaves nothing behind.
LEMMA RollBackKeeps == ASSUME IInv, NEW r \in Requests, RollBack(r) PROVE IInv'
  <1>1. /\ op' = [op EXCEPT ![r] = NoOp] /\ done' = [done EXCEPT ![r] = 0]
        /\ pending' = [pending EXCEPT ![r] = <<>>]
        /\ touched' = [touched EXCEPT ![r] = {}] /\ rows' = rows
    BY DEF RollBack, Finish
  <1>2. /\ op' \in [Requests -> Op \cup {NoOp}] /\ done' \in [Requests -> 0 .. 4]
        /\ touched' \in [Requests -> SUBSET Ids]
        /\ pending' = [q \in Requests |-> pending'[q]]
        /\ op'[r] = NoOp /\ DOMAIN pending'[r] = {}
        /\ \A q \in Requests \ {r} : op'[q] = op[q] /\ pending'[q] = pending[q]
    BY <1>1, EmptyDomain DEF IInv, RequestsInv
  <1>3. ASSUME NEW q \in Requests PROVE ((op[q] # NoOp => Let(op[q])) /\ Marked(q))'
    <2>1. CASE q = r
      BY <1>2, <2>1 DEF Marked
    <2>2. CASE q # r
      BY <1>1, <1>2, <2>2 DEF IInv, RequestsInv, Let, Marked
    <2> QED
      BY <2>1, <2>2
  <1>4. RequestsInv'
    BY <1>2, <1>3 DEF RequestsInv
  <1>5. Apart'
    BY <1>2 DEF IInv, Apart
  <1> QED
    BY <1>1, <1>4, <1>5 DEF IInv, RowsInv

\* What a service lets through is as Let says.
LEMMA AskKeeps ==
    ASSUME IInv, NEW r \in Requests, op[r] = NoOp, NEW kind, NEW x, NEW parents,
           Ask(r, kind, x, parents), Let([kind |-> kind, on |-> x, parents |-> parents]),
           kind = "create" => \A q \in Requests : op[q] # NoOp =>
                                 ~(op[q].kind = "create" /\ op[q].on = x)
    PROVE  IInv'
  <1> DEFINE o == [kind |-> kind, on |-> x, parents |-> parents]
  <1>1. /\ o.kind = kind /\ o.on = x /\ Let(o)
        /\ op[r] = NoOp /\ op' = [op EXCEPT ![r] = o]
        /\ UNCHANGED <<rows, done, pending, touched>>
    BY DEF Ask
  <1> HIDE DEF o
  <1>2. /\ op' \in [Requests -> Op \cup {NoOp}] /\ op'[r] = o
        /\ \A q \in Requests \ {r} : op'[q] = op[q]
    BY <1>1 DEF IInv, RequestsInv, Let
  <1>3. DOMAIN pending[r] = {}
    BY <1>1 DEF IInv, RequestsInv, Marked
  <1>4. ASSUME NEW q \in Requests PROVE ((op[q] # NoOp => Let(op[q])) /\ Marked(q))'
    <2>1. CASE q = r
      BY <1>1, <1>2, <1>3, <2>1 DEF Let, Marked
    <2>2. CASE q # r
      BY <1>1, <1>2, <2>2 DEF IInv, RequestsInv, Let, Marked
    <2> QED
      BY <2>1, <2>2
  <1>5. RequestsInv'
    BY <1>1, <1>2, <1>4 DEF IInv, RequestsInv
  <1>6. Apart'
    BY <1>1, <1>2 DEF IInv, Apart
  <1> QED
    BY <1>1, <1>5, <1>6 DEF IInv, RowsInv

LEMMA AsksKeep ==
    ASSUME IInv, NEW r \in Requests,
           AskCreate(r) \/ AskUpdate(r) \/ AskDelete(r) \/ AskRestore(r)
    PROVE  IInv'
  <1>1. CASE AskCreate(r)
    <2>1. PICK x \in Ids \ DOMAIN rows : \E parents \in ParentsOf(x) :
             /\ op[r] = NoOp
             /\ \A q \in Requests : op[q] # NoOp => ~(op[q].kind = "create" /\ op[q].on = x)
             /\ Ask(r, "create", x, parents)
      BY <1>1 DEF AskCreate
    <2>2. ASSUME NEW parents \in ParentsOf(x)
          PROVE  Let([kind |-> "create", on |-> x, parents |-> parents])
      BY ParentsAreIds DEF Let, Op
    <2> QED
      BY <2>1, <2>2, AskKeeps
  <1>2. CASE AskUpdate(r)
    <2>1. PICK x \in DOMAIN rows : \E parents \in ParentsOf(x) :
             op[r] = NoOp /\ Ask(r, "update", x, parents)
      BY <1>2 DEF AskUpdate
    <2>2. x \in Ids
      BY DEF IInv, RowsInv
    <2>3. ASSUME NEW parents \in ParentsOf(x)
          PROVE  Let([kind |-> "update", on |-> x, parents |-> parents])
      BY <2>2, ParentsAreIds DEF Let, Op
    <2> QED
      BY <2>1, <2>3, AskKeeps
  <1>3. CASE AskDelete(r)
    <2>1. PICK x \in DOMAIN rows : op[r] = NoOp /\ Ask(r, "delete", x, {})
      BY <1>3 DEF AskDelete
    <2>2. Let([kind |-> "delete", on |-> x, parents |-> {}])
      BY DEF Let, Op, IInv, RowsInv
    <2> QED
      BY <2>1, <2>2, AskKeeps
  <1>4. CASE AskRestore(r)
    <2>1. PICK x \in Areas \cup Departments \cup Units :
             op[r] = NoOp /\ Deleted(rows, x) /\ Ask(r, "restore", x, {})
      BY <1>4 DEF AskRestore
    <2>2. Let([kind |-> "restore", on |-> x, parents |-> {}])
      BY <2>1, IdsAreDistinct DEF Let, Op, Ids, Deleted
    <2> QED
      BY <2>1, <2>2, AskKeeps
  <1> QED
    BY <1>1, <1>2, <1>3, <1>4

LEMMA InitIInv == Init => IInv
  BY EmptyDomain DEF Init, IInv, RowsInv, RequestsInv, Apart, Marked

LEMMA NextIInv == IInv /\ [Next]_vars => IInv'
  <1> SUFFICES ASSUME IInv, [Next]_vars PROVE IInv'
    OBVIOUS
  <1>1. CASE UNCHANGED vars
    BY <1>1 DEF vars, IInv, RowsInv, RequestsInv, Apart, Let, Marked, Active
  <1>2. ASSUME NEW r \in Requests,
               \/ AskCreate(r) \/ AskUpdate(r) \/ AskDelete(r) \/ AskRestore(r)
               \/ Run(r) \/ StatementFails(r)
        PROVE  IInv'
    BY <1>2, AsksKeep, ExecuteKeeps, CommitKeeps, RollBackKeeps
       DEF Run, ConstraintViolated, DeadlockDetected, StatementFails
  <1> QED
    BY <1>1, <1>2 DEF Next

LEMMA InvariantHolds == Spec => []IInv
  BY InitIInv, NextIInv, PTL DEF Spec

-----------------------------------------------------------------------------
\* The committed rows have the parents their tables allow, whatever the updates and
\* cascades of many requests have done to them, and the requests keep their fields.
THEOREM OrganizationTypeCorrect == Spec => []TypeOK
  <1>1. IInv => TypeOK
    <2> SUFFICES ASSUME IInv PROVE TypeOK
      OBVIOUS
    <2>1. ASSUME NEW r \in Requests
          PROVE  /\ DOMAIN pending[r] \subseteq Ids
                 /\ \A x \in DOMAIN pending[r] : pending[r][x] \in Row
      BY DEF IInv, RowsInv, RequestsInv, Marked, Active
    <2> QED
      BY <2>1 DEF IInv, RowsInv, RequestsInv, TypeOK
  <1> QED
    BY <1>1, InvariantHolds, PTL

\* A soft-deleted row other than a section keeps its parents, and a plaza stays
\* deleted: the updates ask again for is_deleted = 0, and what a cascade has in hand
\* was active and is locked.
THEOREM DeletedRowsStayFrozen == Spec => DeletedRowsFrozen
  <1> DEFINE A == \A x \in DOMAIN rows \ Sections : Deleted(rows, x) =>
                     /\ rows'[x].parents = rows[x].parents
                     /\ x \in Plazas => Deleted(rows', x)
  <1>1. IInv /\ [Next]_vars => A
    <2> SUFFICES ASSUME IInv, [Next]_vars PROVE A
      OBVIOUS
    <2>1. CASE rows' = rows
      BY <2>1
    <2>2. ASSUME NEW r \in Requests, Commit(r) PROVE A
      BY <2>2, CommitRows DEF Deleted
    <2>3. rows' = rows \/ \E r \in Requests : Commit(r)
      BY DEF Next, vars, Run, Execute, ConstraintViolated, DeadlockDetected, StatementFails,
         RollBack, AskCreate, AskUpdate, AskDelete, AskRestore, Ask
    <2> QED
      BY <2>1, <2>2, <2>3
  <1>2. IInv /\ [Next]_vars => [A]_vars
    BY <1>1
  <1> QED
    BY <1>2, InvariantHolds, PTL DEF Spec, DeletedRowsFrozen

\* What creates a plaza, moves it or restores something satisfies the CHECK: only a
\* deletion that clears the parent of a plaza is refused by it.
THEOREM OnlyDeletionsAreRefused == Spec => OnlyDeletionsRefused
  <1> DEFINE A == \A r \in Requests :
                     op[r] # NoOp /\ op[r].kind # "delete" => ~ConstraintViolated(r)
  <1>1. IInv => A
    <2> SUFFICES ASSUME IInv, NEW r \in Requests, op[r] # NoOp, op[r].kind # "delete"
                 PROVE  CHECK_JOB_POSITION_PARENT(Write(r))
      BY DEF ConstraintViolated
    <2>1. \A p \in DOMAIN Write(r) : p \in Ids /\ Write(r)[p].parents \in ParentsOf(p)
      BY WriteFacts
    <2> QED
      BY <2>1, ParentsAreIds DEF CHECK_JOB_POSITION_PARENT
  <1>2. IInv => [A]_vars
    BY <1>1
  <1> QED
    BY <1>2, InvariantHolds, PTL DEF OnlyDeletionsRefused

-----------------------------------------------------------------------------
(***************************************************************************)
(* The cascades.  Each statement of a deletion takes what is settled below *)
(* the deleted row as the tables stand then; what it has taken stays below *)
(* that row, locked and marked, until the commit, or somebody touches it.  *)
(***************************************************************************)
Up(x, y) == x \in DOMAIN rows /\ y \in rows[x].parents

\* The rows below e that the first i statements of its deletion are there for.
Handled(x, e, i) ==
    \/ e \in Areas /\ \/ x \in Plazas /\ i >= 1
                      \/ x \in Units /\ i >= 2
                      \/ x \in Departments /\ i >= 3
                      \/ x \in Sections /\ i >= 4
    \/ e \in Departments /\ x \in Units /\ i >= 3
    \/ e \in Sections /\ x \in Units /\ i >= 1

Taken(r) ==
    \A x \in Settled(r, op[r].on) : Handled(x, op[r].on, done[r]) => Deleted(View(r), x)

\* A statement that clears plazas has found none: those of a department's units are
\* cleared first, then its own.
Bare(r) ==
    \A p \in Settled(r, op[r].on) \cap Plazas :
        /\ op[r].on \in Departments =>
              (done[r] >= 1 => rows[p].parents = {op[r].on}) /\ done[r] < 2
        /\ op[r].on \in Units => done[r] = 0

CascadeInv ==
    \A r \in Requests :
        /\ op[r] = NoOp => done[r] = 0
        /\ op[r] # NoOp /\ op[r].kind = "delete" => Taken(r) /\ Bare(r)

\* Above follows the parents three times.
LEMMA AboveIsUp ==
    ASSUME NEW x, NEW e
    PROVE  e \in Above(x) <=> \/ e = x \/ Up(x, e)
                              \/ \E y : Up(x, y) /\ Up(y, e)
                              \/ \E y, z : Up(x, y) /\ Up(y, z) /\ Up(z, e)
  <1> DEFINE parents(S) == UNION {rows[y].parents : y \in S \cap DOMAIN rows}
  <1>1. \A S, y : y \in parents(S) <=> \E z \in S : Up(z, y)
    BY DEF Up
  <1>2. Above(x) = {x} \cup parents({x}) \cup parents(parents({x}))
                     \cup parents(parents(parents({x})))
    BY DEF Above
  <1> HIDE DEF parents
  <1>3. \A y : y \in parents({x}) <=> Up(x, y)
    BY <1>1
  <1>4. \A y : y \in parents(parents({x})) <=> \E z : Up(x, z) /\ Up(z, y)
    BY <1>1, <1>3
  <1>5. \A y : y \in parents(parents(parents({x})))
                 <=> \E v, z : Up(x, v) /\ Up(v, z) /\ Up(z, y)
    BY <1>1, <1>4
  <1> QED
    BY <1>2, <1>3, <1>4, <1>5

LEMMA AboveIsUpNext ==
    ASSUME NEW x, NEW e
    PROVE  e \in Above(x)' <=> \/ e = x \/ Up(x, e)'
                               \/ \E y : Up(x, y)' /\ Up(y, e)'
                               \/ \E y, z : Up(x, y)' /\ Up(y, z)' /\ Up(z, e)'
  <1> DEFINE parents(S) == UNION {rows'[y].parents : y \in S \cap DOMAIN rows'}
  <1>1. \A S, y : y \in parents(S) <=> \E z \in S : Up(z, y)'
    BY DEF Up
  <1>2. Above(x)' = {x} \cup parents({x}) \cup parents(parents({x}))
                      \cup parents(parents(parents({x})))
    BY DEF Above
  <1> HIDE DEF parents
  <1>3. \A y : y \in parents({x}) <=> Up(x, y)'
    BY <1>1
  <1>4. \A y : y \in parents(parents({x})) <=> \E z : Up(x, z)' /\ Up(z, y)'
    BY <1>1, <1>3
  <1>5. \A y : y \in parents(parents(parents({x})))
                 <=> \E v, z : Up(x, v)' /\ Up(v, z)' /\ Up(z, y)'
    BY <1>1, <1>4
  <1> QED
    BY <1>2, <1>3, <1>4, <1>5

\* The table of a row says which tables its parents are of.
LEMMA UpTables ==
    ASSUME RowsInv, NEW x, NEW y, Up(x, y)
    PROVE  /\ x \in Departments \cup Sections \cup Units \cup Plazas
           /\ x \in Departments \cup Sections => y \in Areas
           /\ x \in Units => y \in Departments \cup Sections
           /\ x \in Plazas => y \in Ids \ Plazas /\ rows[x].parents = {y}
  <1>1. x \in Ids /\ rows[x].parents \in ParentsOf(x) /\ y \in rows[x].parents
    BY DEF RowsInv, Up
  <1>2. CASE x \in Areas
    BY <1>1, <1>2, IdsAreDistinct DEF ParentsOf
  <1>3. CASE x \in Departments \cup Sections
    BY <1>1, <1>3, IdsAreDistinct DEF ParentsOf
  <1>4. CASE x \in Units
    BY <1>1, <1>4, IdsAreDistinct DEF ParentsOf
  <1>5. CASE x \in Plazas
    BY <1>1, <1>5, IdsAreDistinct DEF ParentsOf, Ids
  <1> QED
    BY <1>1, <1>2, <1>3, <1>4, <1>5, IdsAreDistinct DEF Ids

\* How a row can be below another of each table.
LEMMA SubtreeOfArea ==
    ASSUME RowsInv, NEW e \in Areas, NEW x \in Below(e)
    PROVE  /\ x \in Areas => x = e
           /\ x \in Departments \cup Sections => Up(x, e)
           /\ x \in Units => \E b \in Departments \cup Sections : Up(x, b) /\ Up(b, e)
           /\ x \in Plazas =>
                 \/ Up(x, e)
                 \/ \E b \in Departments \cup Sections : Up(x, b) /\ Up(b, e)
                 \/ \E u \in Units, b \in Departments \cup Sections :
                       Up(x, u) /\ Up(u, b) /\ Up(b, e)
  <1>1. \/ e = x \/ Up(x, e)
        \/ \E y : Up(x, y) /\ Up(y, e)
        \/ \E y, z : Up(x, y) /\ Up(y, z) /\ Up(z, e)
    BY AboveIsUp DEF Below
  <1>2. \A y, z : Up(y, z) =>
           /\ y \in Departments \cup Sections \cup Units \cup Plazas
           /\ y \in Departments \cup Sections => z \in Areas
           /\ y \in Units => z \in Departments \cup Sections
           /\ y \in Plazas => z \in Ids \ Plazas
    BY UpTables
  <1>3. \A y : /\ y \in Areas => y \notin Departments \cup Sections \cup Units \cup Plazas
               /\ y \in Departments \cup Sections => y \notin Units \cup Plazas
               /\ y \in Units => y \notin Plazas
    BY IdsAreDistinct
  <1> QED
    BY <1>1, <1>2, <1>3

LEMMA SubtreeOfBranch ==
    ASSUME RowsInv, NEW e \in Departments \cup Sections, NEW x \in Below(e)
    PROVE  /\ x \in Units => Up(x, e)
           /\ x \in Plazas => Up(x, e) \/ \E u \in Units : Up(x, u) /\ Up(u, e)
  <1>1. \/ e = x \/ Up(x, e)
        \/ \E y : Up(x, y) /\ Up(y, e)
        \/ \E y, z : Up(x, y) /\ Up(y, z) /\ Up(z, e)
    BY AboveIsUp DEF Below
  <1>2. \A y, z : Up(y, z) =>
           /\ y \in Departments \cup Sections \cup Units \cup Plazas
           /\ y \in Departments \cup Sections => z \in Areas
           /\ y \in Units => z \in Departments \cup Sections
           /\ y \in Plazas => z \in Ids \ Plazas
    BY UpTables
  <1>3. \A y : /\ y \in Areas => y \notin Departments \cup Sections \cup Units \cup Plazas
               /\ y \in Departments \cup Sections => y \notin Units \cup Plazas
               /\ y \in Units => y \notin Plazas
    BY IdsAreDistinct
  <1> QED
    BY <1>1, <1>2, <1>3

LEMMA SubtreeOfUnit ==
    ASSUME RowsInv, NEW e \in Units, NEW x \in Below(e)
    PROVE  x \in Plazas => Up(x, e)
  <1>1. \/ e = x \/ Up(x, e)
        \/ \E y : Up(x, y) /\ Up(y, e)
        \/ \E y, z : Up(x, y) /\ Up(y, z) /\ Up(z, e)
    BY AboveIsUp DEF Below
  <1>2. \A y, z : Up(y, z) =>
           /\ y \in Departments \cup Sections \cup Units \cup Plazas
           /\ y \in Departments \cup Sections => z \in Areas
           /\ y \in Units => z \in Departments \cup Sections
           /\ y \in Plazas => z \in Ids \ Plazas
    BY UpTables
  <1>3. \A y : /\ y \in Areas => y \notin Departments \cup Sections \cup Units \cup Plazas
               /\ y \in Departments \cup Sections => y \notin Units \cup Plazas
               /\ y \in Units => y \notin Plazas
    BY IdsAreDistinct
  <1> QED
    BY <1>1, <1>2, <1>3

-----------------------------------------------------------------------------
\* The first statement of a deletion has not been run while nothing is asked for.
LEMMA NothingHandled == \A x, e : ~Handled(x, e, 0)
  BY DEF Handled

\* A request sees the rows below others where the committed ones are.
LEMMA InView ==
    ASSUME IInv, NEW r \in Requests, NEW T, NEW P, NEW x
    PROVE  x \in In(View(r), T, P) <=> x \in T /\ \E y \in P : Up(x, y)
  BY ViewFacts DEF In, Up

\* The statement whose turn it is takes the rows it is there for.
LEMMA StatementTakes ==
    ASSUME IInv, NEW r \in Requests, op[r] # NoOp, op[r].kind = "delete",
           Next1(r) <= Statements(op[r]), CHECK_JOB_POSITION_PARENT(Write(r)),
           NEW x \in Below(op[r].on), Handled(x, op[r].on, Next1(r)),
           Handled(x, op[r].on, done[r]) => Deleted(View(r), x)
    PROVE  Deleted(Over(Write(r), View(r)), x)
  <1> DEFINE view == View(r)
             write == Write(r)
             e == op[r].on
             i == Next1(r)
  <1>1. Marks(write, view)
    BY DeletionMarks
  <1>2. x \in DOMAIN view /\ view[x] \in Row
    BY ViewFacts DEF Below
  <1>3. /\ RowsInv /\ done[r] \in 0 .. 4 /\ i = done[r] + 1 /\ i \in 1 .. 5
        /\ e \in Ids /\ write = Effect(op[r], view, i)
    BY DEF IInv, RequestsInv, Let, Op, Next1, Write
  <1>4. \A S : x \in S /\ Active(view, x) => x \in DOMAIN MarkDeleted(view, S)
    BY DEF MarkDeleted
  <1>5. \A T, P : x \in In(view, T, P) <=> x \in T /\ \E y \in P : Up(x, y)
    BY InView
  <1>6. \A T, P, b : b \in In(view, T, P) <=> b \in T /\ \E y \in P : Up(b, y)
    BY InView
  <1>7. ASSUME Active(view, x) PROVE x \in DOMAIN write
    <2>1. ~Handled(x, e, done[r])
      BY <1>7 DEF Active, Deleted
    <2>2. CASE e \in Areas
      <3> DEFINE branches == In(view, Departments \cup Sections, {e})
                 units == In(view, Units, branches)
      <3>1. write = SP_DELETE_AREA_CASCADE(view, e, i)
        BY <1>3, <2>2, IdsAreDistinct DEF Effect
      <3>2. \/ i = 1 /\ x \in Plazas
            \/ i = 2 /\ x \in Units
            \/ i = 3 /\ x \in Departments
            \/ i = 4 /\ x \in Sections
        <4>1. Handled(x, e, i) /\ i = done[r] + 1 /\ done[r] \in 0 .. 4
          BY <1>3
        <4>2. e \notin Departments \cup Sections
          BY <2>2, IdsAreDistinct
        <4> QED
          BY <2>1, <2>2, <4>1, <4>2 DEF Handled
      <3>3. \A b : b \in branches <=> b \in Departments \cup Sections /\ Up(b, e)
        BY <1>6
      <3> HIDE DEF branches
      <3>4. \A u : u \in units <=> u \in Units /\ \E b \in branches : Up(u, b)
        BY <1>6
      <3> HIDE DEF units
      <3>5. CASE i = 1 /\ x \in Plazas
        <4>1. write = MarkDeleted(view, In(view, Plazas, {e} \cup branches \cup units))
          BY <3>1, <3>5 DEF SP_DELETE_AREA_CASCADE, branches, units
        <4>2. \E y \in {e} \cup branches \cup units : Up(x, y)
          BY <1>3, <2>2, <3>3, <3>4, <3>5, SubtreeOfArea
        <4> QED
          BY <1>4, <1>5, <1>7, <3>5, <4>1, <4>2
      <3>6. CASE i = 2 /\ x \in Units
        <4>1. write = MarkDeleted(view, units)
          BY <3>1, <3>6 DEF SP_DELETE_AREA_CASCADE, branches, units
        <4> QED
          BY <1>3, <1>4, <1>7, <2>2, <3>3, <3>4, <3>6, <4>1, SubtreeOfArea
      <3>7. CASE i = 3 /\ x \in Departments
        <4>1. write = MarkDeleted(view, branches \cap Departments)
          BY <3>1, <3>7 DEF SP_DELETE_AREA_CASCADE, branches
        <4> QED
          BY <1>3, <1>4, <1>7, <2>2, <3>3, <3>7, <4>1, SubtreeOfArea
      <3>8. CASE i = 4 /\ x \in Sections
        <4>1. write = MarkDeleted(view, branches \cap Sections)
          BY <3>1, <3>8 DEF SP_DELETE_AREA_CASCADE, branches
        <4> QED
          BY <1>3, <1>4, <1>7, <2>2, <3>3, <3>8, <4>1, SubtreeOfArea
      <3> QED
        BY <3>2, <3>5, <3>6, <3>7, <3>8
    <2>3. CASE e \in Departments
      <3>1. write = deleteDepartment(view, e, i) /\ i \in 1 .. 4
        BY <1>3, <2>3, IdsAreDistinct DEF Effect, Statements
      <3>2. i = 3 /\ x \in Units
        BY <1>3, <2>1, <2>3, IdsAreDistinct DEF Handled
      <3>3. write = MarkDeleted(view, In(view, Units, {e}))
        BY <3>1, <3>2 DEF deleteDepartment
      <3>4. Up(x, e)
        BY <1>3, <2>3, <3>2, SubtreeOfBranch
      <3> QED
        BY <1>4, <1>5, <1>7, <3>2, <3>3, <3>4
    <2>4. CASE e \in Sections
      <3>1. write = deleteSection(view, e, i)
        BY <1>3, <2>4, IdsAreDistinct DEF Effect
      <3>2. i = 1 /\ x \in Units
        BY <1>3, <2>1, <2>4, IdsAreDistinct DEF Handled
      <3>3. write = MarkDeleted(view, In(view, Units, {e}))
        BY <3>1, <3>2 DEF deleteSection
      <3>4. Up(x, e)
        BY <1>3, <2>4, <3>2, SubtreeOfBranch
      <3> QED
        BY <1>4, <1>5, <1>7, <3>2, <3>3, <3>4
    <2> QED
      BY <2>2, <2>3, <2>4 DEF Handled
  <1> HIDE DEF view, write
  <1>8. /\ DOMAIN Over(write, view) = DOMAIN write \cup DOMAIN view
        /\ \A y \in DOMAIN write : Over(write, view)[y] = write[y]
        /\ \A y \in DOMAIN view : y \notin DOMAIN write => Over(write, view)[y] = view[y]
    BY OverFacts, Zenon
  <1>9. x \in DOMAIN write => write[x].deleted
    BY <1>1 DEF Marks
  <1> QED
    BY <1>2, <1>7, <1>8, <1>9 DEF Active, Deleted, view, write

\* Before a statement that clears plazas goes on, there are none for it to clear.
LEMMA StatementFindsNone ==
    ASSUME IInv, NEW r \in Requests, op[r] # NoOp, op[r].kind = "delete",
           Next1(r) <= Statements(op[r]), CHECK_JOB_POSITION_PARENT(Write(r)),
           Bare(r), NEW p \in Settled(r, op[r].on) \cap Plazas
    PROVE  /\ op[r].on \in Departments => rows[p].parents = {op[r].on} /\ done[r] + 1 < 2
           /\ op[r].on \notin Units
  <1> DEFINE view == View(r)
             e == op[r].on
             i == Next1(r)
  <1>1. /\ DOMAIN view \subseteq Ids
        /\ \A y \in DOMAIN view : view[y] \in Row /\ view[y].parents \in ParentsOf(y)
    BY ViewFacts DEF IInv, RowsInv
  <1>2. /\ RowsInv /\ done[r] \in 0 .. 4 /\ i = done[r] + 1
        /\ CHECK_JOB_POSITION_PARENT(Effect(op[r], view, i))
    BY DEF IInv, RequestsInv, Next1, Write
  <1>3. p \in Below(e) /\ p \in Plazas
    BY DEF Settled
  <1>4. \A T, P, b : b \in In(view, T, P) <=> b \in T /\ \E y \in P : Up(b, y)
    BY InView
  <1>5. ASSUME NEW P, CHECK_JOB_POSITION_PARENT(Clear(view, In(view, Plazas, P), P))
        PROVE  ~\E y \in P : Up(p, y)
    <2>1. DOMAIN Clear(view, In(view, Plazas, P), P) = {}
      BY <1>1, <1>5, ClearRefused
    <2>2. In(view, Plazas, P) = {}
      BY <2>1 DEF Clear
    <2> QED
      BY <1>3, <1>4, <2>2
  <1> HIDE DEF view
  <1>6. CASE e \in Departments
    <2>1. Effect(op[r], view, i) = deleteDepartment(view, e, i)
      BY <1>6, IdsAreDistinct DEF Effect
    <2>2. done[r] < 2 /\ (done[r] >= 1 => rows[p].parents = {e})
      BY <1>6 DEF Bare
    <2>3. CASE done[r] = 0
      <3> DEFINE units == In(view, Units, {e})
      <3>1. CHECK_JOB_POSITION_PARENT(Clear(view, In(view, Plazas, units), units))
        BY <1>2, <2>1, <2>3 DEF deleteDepartment
      <3>2. ~\E y \in units : Up(p, y)
        BY <1>5, <3>1
      <3>3. \A u : u \in Units /\ Up(u, e) => u \in units
        BY <1>4
      <3>4. Up(p, e)
        BY <1>2, <1>3, <1>6, <3>2, <3>3, SubtreeOfBranch
      <3> QED
        BY <1>2, <1>3, <1>6, <2>3, <3>4, UpTables, IdsAreDistinct
    <2>4. CASE done[r] = 1
      <3>1. CHECK_JOB_POSITION_PARENT(Clear(view, In(view, Plazas, {e}), {e}))
        BY <1>2, <2>1, <2>4 DEF deleteDepartment
      <3>2. ~Up(p, e)
        BY <1>5, <3>1
      <3> QED
        BY <1>3, <2>2, <2>4, <3>2 DEF Up, Below
    <2> QED
      BY <1>2, <1>6, <2>2, <2>3, <2>4, IdsAreDistinct
  <1>7. CASE e \in Units
    <2>1. Effect(op[r], view, i) = deleteUnit(view, e, i)
      BY <1>7, IdsAreDistinct DEF Effect
    <2>2. i = 1
      BY <1>2, <1>7 DEF Bare
    <2>3. CHECK_JOB_POSITION_PARENT(Clear(view, In(view, Plazas, {e}), {e}))
      BY <1>2, <2>1, <2>2 DEF deleteUnit
    <2>4. ~Up(p, e)
      BY <1>5, <2>3
    <2> QED
      BY <1>2, <1>3, <1>7, <2>4, SubtreeOfUnit
  <1> QED
    BY <1>6, <1>7

\* A row settled after the commit of another was so before it, and its chain has not
\* been written.
LEMMA SettledBefore ==
    ASSUME IInv, NEW q \in Requests, Commit(q), NEW r \in Requests, r # q, done[r] # 0,
           NEW e, NEW x \in Settled(r, e)'
    PROVE  /\ x \in Settled(r, e)
           /\ x \in DOMAIN rows /\ x \notin DOMAIN Write(q) \cup DOMAIN pending[q]
           /\ rows'[x] = rows[x]
  <1> DEFINE written == DOMAIN Write(q) \cup DOMAIN pending[q]
             S == touched[r] \cup DOMAIN Write(q) \cup DOMAIN pending[q]
  <1>1. /\ DOMAIN rows' = DOMAIN rows \cup DOMAIN Write(q)
        /\ DOMAIN rows' \subseteq Ids
        /\ \A y \in DOMAIN rows : y \notin written => rows'[y] = rows[y]
    BY CommitRows
  <1>2. /\ written \subseteq Ids /\ touched[r] \subseteq Ids
    <2>1. DOMAIN pending[q] \subseteq Ids
      BY DEF IInv, RowsInv, RequestsInv, Marked, Active
    <2> QED
      BY <1>1, <2>1 DEF IInv, RequestsInv
  <1>3. touched'[r] = Remember(S)
    BY DEF Commit
  <1>4. S \subseteq touched'[r]
    BY <1>2, <1>3 DEF Remember
  <1>5. \A y \in Above(x)' : y \notin written /\ y \notin touched[r]
    BY <1>4 DEF Settled
  <1>6. x \in DOMAIN rows' /\ e \in Above(x)'
    BY DEF Settled, Below
  <1> HIDE DEF written, S
  <1>7. \A y \in Above(x)' : \A z : Up(y, z)' <=> Up(y, z)
    BY <1>1, <1>5 DEF Up, written
  <1>8. x \in Above(x)' /\ \A y : Up(x, y)' => y \in Above(x)'
    BY AboveIsUpNext
  <1>9. \A y, z : Up(x, y)' /\ Up(y, z)' => z \in Above(x)'
    BY AboveIsUpNext
  <1>10. \A y : Up(x, y) <=> Up(x, y)'
    BY <1>7, <1>8
  <1>11. \A y, z : Up(x, y) /\ Up(y, z) <=> Up(x, y)' /\ Up(y, z)'
    BY <1>7, <1>8, <1>10
  <1>12. \A y, z, v : Up(x, y) /\ Up(y, z) /\ Up(z, v) <=> Up(x, y)' /\ Up(y, z)' /\ Up(z, v)'
    BY <1>7, <1>9, <1>11
  <1>13. \A y : y \in Above(x) <=> y \in Above(x)'
    <2> TAKE y
    <2>1. y \in Above(x) <=> \/ y = x \/ Up(x, y)
                             \/ \E v : Up(x, v) /\ Up(v, y)
                             \/ \E v, z : Up(x, v) /\ Up(v, z) /\ Up(z, y)
      BY AboveIsUp
    <2>2. y \in Above(x)' <=> \/ y = x \/ Up(x, y)'
                              \/ \E v : Up(x, v)' /\ Up(v, y)'
                              \/ \E v, z : Up(x, v)' /\ Up(v, z)' /\ Up(z, y)'
      BY AboveIsUpNext
    <2> QED
      BY <1>10, <1>11, <1>12, <2>1, <2>2
  <1>14. x \in DOMAIN rows /\ x \notin written /\ rows'[x] = rows[x]
    BY <1>1, <1>5, <1>6, <1>8 DEF written
  <1>15. x \in Settled(r, e)
    BY <1>5, <1>6, <1>13, <1>14 DEF Settled, Below
  <1> QED
    BY <1>14, <1>15 DEF written

LEMMA ExecuteCascades ==
    ASSUME IInv, CascadeInv, NEW r \in Requests, Execute(r)
    PROVE  CascadeInv'
  <1>1. /\ op[r] # NoOp /\ Next1(r) < Statements(op[r])
        /\ CHECK_JOB_POSITION_PARENT(Write(r))
        /\ pending' = [pending EXCEPT ![r] = Over(Write(r), pending[r])]
        /\ done' = [done EXCEPT ![r] = done[r] + 1]
        /\ UNCHANGED <<rows, op, touched>>
    BY DEF Execute
  <1>2. op[r] \in Op /\ done[r] \in 0 .. 4 /\ Next1(r) = done[r] + 1
    BY <1>1 DEF IInv, RequestsInv, Next1
  <1>3. op[r].kind = "delete" /\ Taken(r) /\ Bare(r)
    BY <1>1, <1>2, OneStatement DEF CascadeInv
  <1>4. Next1(r) <= Statements(op[r])
    <2>1. Statements(op[r]) \in 1 .. 5
      BY <1>2, <1>3, IdsAreDistinct DEF Statements, Ids, Op
    <2> QED
      BY <1>1, <1>2, <2>1
  <1>5. /\ done'[r] = done[r] + 1 /\ pending'[r] = Over(Write(r), pending[r])
        /\ \A q \in Requests \ {r} : done'[q] = done[q] /\ pending'[q] = pending[q]
    BY <1>1, <1>2 DEF IInv, RequestsInv
  <1>6. \A q, e : Settled(q, e)' = Settled(q, e)
    BY <1>1 DEF Settled, Below, Above
  <1>7. View(r)' = Over(Write(r), View(r))
    <2> DEFINE w == Write(r)
    <2> HIDE DEF w
    <2>1. Over(Over(w, pending[r]), rows) = Over(w, Over(pending[r], rows))
      BY DEF Over
    <2> QED
      BY <1>1, <1>5, <2>1 DEF View, w
  <1>8. Taken(r)'
    <2> SUFFICES ASSUME NEW x \in Settled(r, op[r].on)', Handled(x, op[r].on, Next1(r))
                 PROVE  Deleted(View(r)', x)
      BY <1>1, <1>2, <1>5 DEF Taken
    <2>1. x \in Settled(r, op[r].on)
      BY <1>1 DEF Settled, Below, Above
    <2>2. x \in Below(op[r].on) /\ (Handled(x, op[r].on, done[r]) => Deleted(View(r), x))
      BY <1>3, <2>1 DEF Settled, Taken
    <2> QED
      BY <1>1, <1>3, <1>4, <1>7, <2>2, StatementTakes
  <1>9. Bare(r)'
    <2> SUFFICES ASSUME NEW p \in Settled(r, op[r].on)' \cap Plazas
                 PROVE  /\ op[r].on \in Departments =>
                              rows[p].parents = {op[r].on} /\ done[r] + 1 < 2
                        /\ op[r].on \notin Units
      BY <1>1, <1>5 DEF Bare
    <2>1. p \in Settled(r, op[r].on) \cap Plazas
      BY <1>1 DEF Settled, Below, Above
    <2> QED
      BY <1>1, <1>3, <1>4, <2>1, StatementFindsNone
  <1>10. ASSUME NEW q \in Requests, q # r
         PROVE  /\ op'[q] = NoOp => done'[q] = 0
                /\ op'[q] # NoOp /\ op'[q].kind = "delete" => Taken(q)' /\ Bare(q)'
    <2>1. View(q)' = View(q)
      BY <1>1, <1>5, <1>10 DEF View
    <2> QED
      BY <1>1, <1>5, <1>6, <1>10, <2>1 DEF CascadeInv, Taken, Bare
  <1> QED
    BY <1>1, <1>8, <1>9, <1>10 DEF CascadeInv

LEMMA CommitCascades ==
    ASSUME IInv, CascadeInv, NEW q \in Requests, Commit(q)
    PROVE  CascadeInv'
  <1>1. /\ op' = [op EXCEPT ![q] = NoOp] /\ done' = [done EXCEPT ![q] = 0]
        /\ pending' = [pending EXCEPT ![q] = <<>>]
    BY DEF Commit, Finish
  <1>2. /\ op'[q] = NoOp /\ done'[q] = 0
        /\ \A r \in Requests \ {q} : /\ op'[r] = op[r] /\ done'[r] = done[r]
                                     /\ pending'[r] = pending[r]
    BY <1>1 DEF IInv, RequestsInv
  <1>3. ASSUME NEW r \in Requests, r # q, op[r] # NoOp, op[r].kind = "delete"
        PROVE  Taken(r)' /\ Bare(r)'
    <2>1. Taken(r) /\ Bare(r) /\ done[r] \in 0 .. 4
      BY <1>3 DEF CascadeInv, IInv, RequestsInv
    <2>2. CASE done[r] = 0
      BY <1>2, <1>3, <2>2, NothingHandled DEF Taken, Bare
    <2>3. CASE done[r] # 0
      <3>1. \A x \in Settled(r, op[r].on)' :
               /\ x \in Settled(r, op[r].on)
               /\ x \in DOMAIN rows /\ rows'[x] = rows[x]
        <4>1. PICK e : e = op[r].on
          OBVIOUS
        <4>2. Settled(r, op[r].on)' = Settled(r, e)'
          BY <1>2, <1>3, <4>1 DEF Settled, Below, Above
        <4> QED
          BY <1>3, <2>3, <4>1, <4>2, SettledBefore
      <3>2. ASSUME NEW x \in Settled(r, op[r].on)', Handled(x, op[r].on, done[r])
            PROVE  Deleted(View(r)', x)
        <4>1. Deleted(View(r), x)
          BY <2>1, <3>1, <3>2 DEF Taken
        <4>2. x \in DOMAIN rows /\ x \in DOMAIN rows' /\ rows'[x] = rows[x]
          BY <3>1, CommitRows
        <4>3. View(r)' = Over(pending[r], rows')
          BY <1>2, <1>3 DEF View
        <4> QED
          BY <4>1, <4>2, <4>3 DEF Deleted, View, Over
      <3>3. Taken(r)'
        BY <1>2, <1>3, <3>2 DEF Taken
      <3>4. Bare(r)'
        BY <1>2, <1>3, <2>1, <3>1 DEF Bare
      <3> QED
        BY <3>3, <3>4
    <2> QED
      BY <2>2, <2>3
  <1> QED
    BY <1>2, <1>3 DEF CascadeInv

LEMMA RollBackCascades ==
    ASSUME IInv, CascadeInv, NEW r \in Requests, RollBack(r)
    PROVE  CascadeInv'
  <1>1. /\ op' = [op EXCEPT ![r] = NoOp] /\ done' = [done EXCEPT ![r] = 0]
        /\ pending' = [pending EXCEPT ![r] = <<>>]
        /\ touched' = [touched EXCEPT ![r] = {}] /\ rows' = rows
    BY DEF RollBack, Finish
  <1>2. /\ op'[r] = NoOp /\ done'[r] = 0
        /\ \A q \in Requests \ {r} : /\ op'[q] = op[q] /\ done'[q] = done[q]
                                     /\ pending'[q] = pending[q] /\ touched'[q] = touched[q]
    BY <1>1 DEF IInv, RequestsInv
  <1>3. ASSUME NEW q \in Requests, q # r
        PROVE  View(q)' = View(q) /\ \A e : Settled(q, e)' = Settled(q, e)
    BY <1>1, <1>2, <1>3 DEF View, Settled, Below, Above
  <1> QED
    BY <1>1, <1>2, <1>3 DEF CascadeInv, Taken, Bare

\* A request that begins has not run a statement.
LEMMA AsksCascade ==
    ASSUME IInv, CascadeInv, NEW r \in Requests,
           AskCreate(r) \/ AskUpdate(r) \/ AskDelete(r) \/ AskRestore(r)
    PROVE  CascadeInv'
  <1>1. PICK o : /\ op[r] = NoOp /\ op' = [op EXCEPT ![r] = o]
                 /\ UNCHANGED <<rows, done, pending, touched>>
    BY DEF AskCreate, AskUpdate, AskDelete, AskRestore, Ask
  <1>2. done'[r] = 0 /\ \A q \in Requests \ {r} : op'[q] = op[q]
    BY <1>1 DEF IInv, RequestsInv, CascadeInv
  <1>3. Taken(r)' /\ Bare(r)'
    BY <1>2, NothingHandled DEF Taken, Bare
  <1>4. \A q \in Requests : View(q)' = View(q) /\ \A e : Settled(q, e)' = Settled(q, e)
    BY <1>1 DEF View, Settled, Below, Above
  <1>5. ASSUME NEW q \in Requests, q # r
        PROVE  /\ op'[q] = NoOp => done'[q] = 0
               /\ op'[q] # NoOp /\ op'[q].kind = "delete" => Taken(q)' /\ Bare(q)'
    BY <1>1, <1>2, <1>4, <1>5 DEF CascadeInv, Taken, Bare
  <1> QED
    BY <1>2, <1>3, <1>5 DEF CascadeInv

LEMMA CascadeInvHolds == Spec => [](IInv /\ CascadeInv)
  <1>1. Init => CascadeInv
    BY DEF Init, CascadeInv
  <1>2. IInv /\ CascadeInv /\ [Next]_vars => CascadeInv'
    <2> SUFFICES ASSUME IInv, CascadeInv, [Next]_vars PROVE CascadeInv'
      OBVIOUS
    <2>1. CASE UNCHANGED vars
      BY <2>1 DEF vars, CascadeInv, Taken, Bare, View, Settled, Below, Above
    <2>2. ASSUME NEW r \in Requests,
                 \/ AskCreate(r) \/ AskUpdate(r) \/ AskDelete(r) \/ AskRestore(r)
                 \/ Run(r) \/ StatementFails(r)
          PROVE  CascadeInv'
      BY <2>2, AsksCascade, ExecuteCascades, CommitCascades, RollBackCascades
         DEF Run, ConstraintViolated, DeadlockDetected, StatementFails
    <2> QED
      BY <2>1, <2>2 DEF Next
  <1> QED
    BY <1>1, <1>2, InvariantHolds, PTL DEF Spec

\* When the last statement of a deletion runs, those before it have taken the rest.
LEMMA LastStatement ==
    ASSUME IInv, CascadeInv, NEW r \in Requests, NEW e, DeletedBy(r, e)
    PROVE  /\ \A x \in Settled(r, e) : Handled(x, e, Next1(r)) => Deleted(rows', x)
           /\ e \in Departments \cup Units => Settled(r, e) \cap Plazas = {}
           /\ e \in Areas => Next1(r) = 5
           /\ e \in Departments => Next1(r) = 4
           /\ e \in Sections => Next1(r) = 3
  <1>1. /\ op[r] # NoOp /\ op[r].kind = "delete" /\ op[r].on = e /\ Commit(r)
        /\ Next1(r) = Statements(op[r]) /\ CHECK_JOB_POSITION_PARENT(Write(r))
        /\ rows' = Over(Write(r), View(r)) /\ Taken(r) /\ Bare(r)
    BY DEF DeletedBy, Commit, CascadeInv
  <1>2. done[r] \in 0 .. 4 /\ Next1(r) = done[r] + 1 /\ Next1(r) <= Statements(op[r])
    BY <1>1 DEF IInv, RequestsInv, Next1
  <1>3. ASSUME NEW x \in Settled(r, e), Handled(x, e, Next1(r)) PROVE Deleted(rows', x)
    <2>1. x \in Below(op[r].on) /\ (Handled(x, op[r].on, done[r]) => Deleted(View(r), x))
      BY <1>1 DEF Settled, Taken
    <2> QED
      BY <1>1, <1>2, <1>3, <2>1, StatementTakes
  <1>4. /\ e \in Areas => Next1(r) = 5
        /\ e \in Departments => Next1(r) = 4
        /\ e \in Sections => Next1(r) = 3
        /\ e \in Units => Next1(r) = 2
    BY <1>1, IdsAreDistinct DEF Statements
  <1>5. ASSUME NEW p \in Settled(r, e) \cap Plazas PROVE e \notin Departments \cup Units
    <2>1. /\ op[r].on \in Departments => done[r] + 1 < 2
          /\ op[r].on \notin Units
      BY <1>1, <1>2, StatementFindsNone
    <2> QED
      BY <1>1, <1>2, <1>4, <2>1
  <1> QED
    BY <1>3, <1>4, <1>5

\* A deletion of an area, with five statements that other transactions may come
\* between, leaves no row of its subtree active, and one of a department or a section
\* no unit, but for rows somebody touched meanwhile or what is above them.
THEOREM DeletionsCascade == Spec => DeletionCascades
  <1> DEFINE A == \A e \in Areas \cup Departments \cup Sections :
                     BecomesDeleted(e) => \A r \in Requests : DeletedBy(r, e)
                       => \A x \in Settled(r, e) :
                             x \in Units \/ e \in Areas => Deleted(rows', x)
  <1>1. IInv /\ CascadeInv => A
    <2> SUFFICES ASSUME IInv, CascadeInv,
                        NEW e \in Areas \cup Departments \cup Sections, Deleted(rows', e),
                        NEW r \in Requests, DeletedBy(r, e),
                        NEW x \in Settled(r, e), x \in Units \/ e \in Areas
                 PROVE  Deleted(rows', x)
      BY DEF BecomesDeleted
    <2>1. RowsInv /\ x \in Ids /\ x \in Below(e)
      BY DEF IInv, RowsInv, Settled, Below
    <2>2. Handled(x, e, Next1(r)) => Deleted(rows', x)
      BY LastStatement
    <2>3. CASE e \in Areas
      <3>1. Next1(r) = 5
        BY <2>3, LastStatement
      <3>2. CASE x \in Areas
        BY <2>1, <2>3, <3>2, SubtreeOfArea
      <3>3. CASE x \notin Areas
        BY <2>1, <2>2, <2>3, <3>1, <3>3 DEF Handled, Ids
      <3> QED
        BY <3>2, <3>3
    <2>4. CASE e \notin Areas
      BY <2>2, <2>4, LastStatement DEF Handled
    <2> QED
      BY <2>3, <2>4
  <1>2. IInv /\ CascadeInv => [A]_vars
    BY <1>1
  <1> QED
    BY <1>2, CascadeInvHolds, PTL DEF DeletionCascades

\* No deletion of a department or a unit from which a settled plaza hangs, deleted
\* plazas included, ever commits (deleteDepartment, deleteUnit).
PlazaHoldsItsParent ==
    [][\A e \in Departments \cup Units :
         BecomesDeleted(e) => \A r \in Requests :
           DeletedBy(r, e) => Settled(r, e) \cap Plazas = {}]_vars

\* What the deletions do instead of moving plazas to the parent above: the statement
\* that would take the plaza out violates the CHECK, and the deletion is undone.
THEOREM PlazasHoldTheirParents == Spec => PlazaHoldsItsParent
  <1> DEFINE A == \A e \in Departments \cup Units :
                     BecomesDeleted(e) => \A r \in Requests :
                       DeletedBy(r, e) => Settled(r, e) \cap Plazas = {}
  <1>1. IInv /\ CascadeInv => [A]_vars
    BY LastStatement
  <1> QED
    BY <1>1, CascadeInvHolds, PTL DEF PlazaHoldsItsParent

-----------------------------------------------------------------------------
(***************************************************************************)
(* Waiting.  A transaction that waits but is not part of a cycle waits for *)
(* one that has fewer to wait for.                                         *)
(***************************************************************************)
LEMMA LeastNumber ==
    ASSUME NEW T \in SUBSET Nat, T # {}
    PROVE  \E t \in T : \A u \in T : t <= u
  <1>1. PICK t \in T : \A u \in T : <<u, t>> \notin OpToRel(<, Nat)
    BY NatLessThanWellFounded, WFMin, Zenon
  <1>2. \A u \in T : ~(u < t)
    BY <1>1, Zenon DEF OpToRel
  <1> QED
    BY <1>2

\* Waiting is for the lock of a transaction under way, whose own waits are among those
\* of the first.
LEMMA WaitingPassesOn ==
    ASSUME IInv, NEW r \in Requests, NEW q \in Requests, WaitsFor(r, q)
    PROVE  op[q] # NoOp /\ q \in Awaited(r) /\ Awaited(q) \subseteq Awaited(r)
  <1>1. op[q] # NoOp
    <2>1. PICK x : x \in DOMAIN pending[q]
      BY DEF WaitsFor
    <2> QED
      BY <2>1 DEF IInv, RequestsInv, Marked
  <1>2. ASSUME NEW S \in SUBSET Requests,
               \A p \in {r} \cup S, t \in Requests : WaitsFor(p, t) => t \in S
        PROVE  q \in S
    BY <1>2
  <1>3. q \in Awaited(r)
    BY <1>2 DEF Awaited
  <1>4. ASSUME NEW s \in Awaited(q), NEW S \in SUBSET Requests,
               \A p \in {r} \cup S, t \in Requests : WaitsFor(p, t) => t \in S
        PROVE  s \in S
    <2>1. \A p \in {q} \cup S, t \in Requests : WaitsFor(p, t) => t \in S
      BY <1>2, <1>4
    <2> QED
      BY <1>4, <2>1 DEF Awaited
  <1>5. Awaited(q) \subseteq Awaited(r)
    BY <1>4 DEF Awaited
  <1> QED
    BY <1>1, <1>3, <1>5

\* Whatever cascades wait for each other's rows, in any number, some transaction waits for
\* nobody or is in a cycle, where the database fails its statement: the locks of the five
\* tables, taken in different orders, never stop all of them for good.
THEOREM TransactionsGoOn == Spec => []SomebodyMayRun
  <1>1. ASSUME IInv
        PROVE  SomebodyMayRun
    <2> DEFINE busy == {r \in Requests : op[r] # NoOp}
               size(r) == Cardinality(Awaited(r))
               sizes == {size(r) : r \in busy}
    <2> SUFFICES ASSUME busy # {}, \A r \in busy : ~MayRun(r)
                 PROVE  FALSE
      BY DEF SomebodyMayRun, MayRun
    <2>1. \A r : IsFiniteSet(Awaited(r)) /\ size(r) \in Nat
      BY RequestsAssumption, FS_Subset, FS_CardinalityType DEF Awaited
    <2>2. PICK r \in busy : \A q \in busy : size(r) <= size(q)
      <3>1. sizes \in SUBSET Nat /\ sizes # {}
        BY <2>1
      <3>2. PICK least \in sizes : \A u \in sizes : least <= u
        <4> HIDE DEF sizes
        <4> QED
          BY <3>1, LeastNumber
      <3> QED
        BY <3>2
    <2>3. r \in Requests /\ \A q \in busy : q \notin Awaited(q)
      BY DEF MayRun
    <2>4. PICK q \in Requests : WaitsFor(r, q)
      BY <2>2 DEF MayRun
    <2>5. q \in busy /\ q \in Awaited(r) /\ Awaited(q) \subseteq Awaited(r)
      BY <1>1, <2>3, <2>4, WaitingPassesOn
    <2>6. q \notin Awaited(q)
      BY <2>3, <2>5
    <2>7. size(q) <= size(r) /\ size(q) # size(r)
      BY <2>1, <2>5, <2>6, FS_Subset
    <2>8. size(r) <= size(q) /\ size(r) \in Nat /\ size(q) \in Nat
      BY <2>1, <2>2, <2>5
    <2> QED
      BY <2>7, <2>8
  <1> QED
    BY <1>1, InvariantHolds, PTL

-----------------------------------------------------------------------------
(***************************************************************************)
(* The refinement of Organization.  A commit is Insert, Move or Restore of *)
(* the one row its only statement writes, or Delete of the rows that the   *)
(* statements of a deletion have marked, each where Takes allows it.  That *)
(* what is written hangs from rows that exist needs Referenced: what a     *)
(* service found is still there at the commit, since rows are not removed. *)
(***************************************************************************)
Referenced ==
    /\ rows = [x \in DOMAIN rows |-> rows[x]]
    /\ \A x \in DOMAIN rows : rows[x].parents \subseteq DOMAIN rows
    /\ \A r \in Requests : op[r] # NoOp =>
          /\ op[r].parents \subseteq DOMAIN rows
          /\ op[r].kind = "restore" => op[r].on \notin Sections
          /\ DOMAIN pending[r] \subseteq {op[r].on} \cup Organized!Takes(op[r].on)

\* A row is its parents and its flag.
LEMMA MarkedRow ==
    ASSUME NEW a \in Row, NEW b \in Row, a.deleted, a.parents = b.parents
    PROVE  a = [b EXCEPT !.deleted = TRUE]
  BY DEF Row

\* The parents that the columns of a table may hold are its homes, where they exist.
LEMMA HomesOf ==
    ASSUME RowsInv, NEW x \in Ids, NEW P \in ParentsOf(x), P \subseteq DOMAIN rows
    PROVE  P \in Organized!Homes(x)
  <1>1. CASE x \in Areas
    BY <1>1, IdsAreDistinct DEF ParentsOf, Organized!Homes
  <1>2. CASE x \in Departments \cup Sections
    <2>1. Organized!Homes(x) = {{a} : a \in Areas \cap DOMAIN rows} /\ ParentsOf(x) = {{a} : a \in Areas}
      BY <1>2, IdsAreDistinct DEF ParentsOf, Organized!Homes
    <2> QED
      BY <2>1
  <1>3. CASE x \in Units
    <2>1. /\ ParentsOf(x) = {Q \in SUBSET (Sections \cup Departments) :
                              Q # {} /\ \A e, n \in Q : OneTable(e, n) => e = n}
          /\ Organized!Homes(x) = {Q \in SUBSET ((Departments \cup Sections) \cap DOMAIN rows) :
                                     /\ Q # {}
                                     /\ \A e, n \in Q \cap Departments : e = n
                                     /\ \A e, n \in Q \cap Sections : e = n}
      BY <1>3, IdsAreDistinct DEF ParentsOf, Organized!Homes
    <2> QED
      BY <2>1 DEF OneTable
  <1>4. CASE x \in Plazas
    <2>1. Organized!Homes(x) = {{e} : e \in DOMAIN rows \ Plazas} /\ ParentsOf(x) = {{e} : e \in Ids \ Plazas}
      BY <1>4, IdsAreDistinct DEF ParentsOf, Organized!Homes
    <2> QED
      BY <2>1
  <1> QED
    BY <1>1, <1>2, <1>3, <1>4 DEF Ids

\* A statement of a deletion writes the deleted row, or rows of the tables it may take
\* from, and the last one sees to the row itself.
LEMMA DeletionReaches ==
    ASSUME IInv, NEW r \in Requests, op[r] # NoOp, op[r].kind = "delete",
           Next1(r) <= Statements(op[r]), CHECK_JOB_POSITION_PARENT(Write(r))
    PROVE  /\ DOMAIN Write(r) \subseteq {op[r].on} \cup Organized!Takes(op[r].on)
           /\ Next1(r) = Statements(op[r]) /\ Active(View(r), op[r].on) =>
                 op[r].on \in DOMAIN Write(r)
  <1> DEFINE view == View(r)
             x == op[r].on
             i == Next1(r)
  <1>1. /\ DOMAIN view \subseteq Ids
        /\ \A y \in DOMAIN view : view[y] \in Row /\ view[y].parents \in ParentsOf(y)
    BY ViewFacts DEF IInv, RowsInv
  <1>2. x \in Ids /\ i \in Nat \ {0}
    BY DEF IInv, RequestsInv, Let, Op, Next1
  <1>3. /\ CHECK_JOB_POSITION_PARENT(Effect(op[r], view, i))
        /\ Write(r) = Effect(op[r], view, i)
    BY DEF Write
  <1>4. i <= Statements(op[r])
    OBVIOUS
  <1> HIDE DEF view, i
  <1>5. \A S : DOMAIN MarkDeleted(view, S) \subseteq S
    BY DEF MarkDeleted
  <1>6. \A S, P : DOMAIN MarkDeleted(view, In(view, S, P)) \subseteq S
    BY DEF MarkDeleted, In
  <1>7. Active(view, x) => x \in DOMAIN MarkDeleted(view, {x})
    BY DEF MarkDeleted
  <1>8. \A P : CHECK_JOB_POSITION_PARENT(Clear(view, In(view, Plazas, P), P))
                 => DOMAIN Clear(view, In(view, Plazas, P), P) = {}
    BY <1>1, ClearRefused
  <1> SUFFICES /\ DOMAIN Effect(op[r], view, i) \subseteq {x} \cup Organized!Takes(x)
               /\ i = Statements(op[r]) /\ Active(view, x) => x \in DOMAIN Effect(op[r], view, i)
    BY <1>3 DEF view, i
  <1>9. CASE x \in Areas
    <2>1. /\ Effect(op[r], view, i) = SP_DELETE_AREA_CASCADE(view, x, i)
          /\ Statements(op[r]) = 5 /\ i \in 1 .. 5
          /\ Organized!Takes(x) = Ids \ Areas
      BY <1>2, <1>4, <1>9, IdsAreDistinct DEF Effect, Statements, Organized!Takes, Organized!Ids, Ids
    <2>2. Plazas \cup Units \cup Departments \cup Sections \subseteq Organized!Takes(x)
      BY <2>1, IdsAreDistinct DEF Ids
    <2>3. /\ i = 1 => DOMAIN SP_DELETE_AREA_CASCADE(view, x, i) \subseteq Plazas
          /\ i = 2 => DOMAIN SP_DELETE_AREA_CASCADE(view, x, i) \subseteq Units
          /\ i = 3 => DOMAIN SP_DELETE_AREA_CASCADE(view, x, i) \subseteq Departments
          /\ i = 4 => DOMAIN SP_DELETE_AREA_CASCADE(view, x, i) \subseteq Sections
          /\ i = 5 => SP_DELETE_AREA_CASCADE(view, x, i) = MarkDeleted(view, {x})
      BY <1>5, <1>6 DEF SP_DELETE_AREA_CASCADE
    <2>4. CASE i = 5
      BY <1>5, <1>7, <2>1, <2>3, <2>4
    <2>5. CASE i \in 1 .. 4
      <3>1. DOMAIN SP_DELETE_AREA_CASCADE(view, x, i) \subseteq Organized!Takes(x)
        BY <2>2, <2>3, <2>5
      <3> QED
        BY <2>1, <2>5, <3>1
    <2> QED
      BY <2>1, <2>4, <2>5
  <1>10. CASE x \in Departments
    <2>1. /\ Effect(op[r], view, i) = deleteDepartment(view, x, i)
          /\ Statements(op[r]) = 4 /\ i \in 1 .. 4
          /\ Organized!Takes(x) = Units
      BY <1>2, <1>4, <1>10, IdsAreDistinct DEF Effect, Statements, Organized!Takes
    <2>2. /\ i = 1 => DOMAIN deleteDepartment(view, x, i) = {}
          /\ i = 2 => DOMAIN deleteDepartment(view, x, i) = {}
      <3>1. CASE i = 1
        BY <1>3, <1>8, <2>1, <3>1 DEF deleteDepartment
      <3>2. CASE i = 2
        BY <1>3, <1>8, <2>1, <3>2 DEF deleteDepartment
      <3> QED
        BY <3>1, <3>2
    <2>3. /\ i = 3 => DOMAIN deleteDepartment(view, x, i) \subseteq Units
          /\ i = 4 => deleteDepartment(view, x, i) = MarkDeleted(view, {x})
      BY <1>6 DEF deleteDepartment
    <2> QED
      BY <1>5, <1>7, <2>1, <2>2, <2>3
  <1>11. CASE x \in Sections
    <2>1. /\ Effect(op[r], view, i) = deleteSection(view, x, i)
          /\ Statements(op[r]) = 3 /\ i \in 1 .. 3
          /\ Organized!Takes(x) = Units \cup Plazas
      BY <1>2, <1>4, <1>11, IdsAreDistinct DEF Effect, Statements, Organized!Takes
    <2>2. /\ i = 1 => DOMAIN deleteSection(view, x, i) \subseteq Units
          /\ i = 2 => DOMAIN deleteSection(view, x, i) \subseteq Plazas
          /\ i = 3 => deleteSection(view, x, i) = MarkDeleted(view, {x})
      BY <1>6 DEF deleteSection
    <2> QED
      BY <1>5, <1>7, <2>1, <2>2
  <1>12. CASE x \in Units
    <2>1. /\ Effect(op[r], view, i) = deleteUnit(view, x, i)
          /\ Statements(op[r]) = 2 /\ i \in 1 .. 2
      BY <1>2, <1>4, <1>12, IdsAreDistinct DEF Effect, Statements
    <2>2. /\ i = 1 => DOMAIN deleteUnit(view, x, i) = {}
          /\ i = 2 => deleteUnit(view, x, i) = MarkDeleted(view, {x})
      BY <1>3, <1>8, <2>1 DEF deleteUnit
    <2> QED
      BY <1>5, <1>7, <2>1, <2>2
  <1>13. CASE x \in Plazas
    <2>1. Effect(op[r], view, i) = MarkDeleted(view, {x})
      BY <1>13, IdsAreDistinct DEF Effect, deleteJobPosition
    <2> QED
      BY <1>5, <1>7, <2>1
  <1> QED
    BY <1>2, <1>9, <1>10, <1>11, <1>12, <1>13 DEF Ids

-----------------------------------------------------------------------------
\* What a commit makes of the rows, as one function.
LEMMA CommitIs ==
    ASSUME IInv, NEW r \in Requests, Commit(r)
    PROVE  /\ op[r] # NoOp /\ Next1(r) = Statements(op[r]) /\ Next1(r) <= Statements(op[r])
           /\ CHECK_JOB_POSITION_PARENT(Write(r))
           /\ rows' = [y \in DOMAIN Write(r) \cup DOMAIN rows |->
                          IF y \in DOMAIN Write(r) THEN Write(r)[y] ELSE View(r)[y]]
  <1>1. Next1(r) \in Nat /\ DOMAIN View(r) = DOMAIN rows
    BY ViewFacts DEF Next1, IInv, RequestsInv
  <1> QED
    BY <1>1 DEF Commit, Over

\* A deletion marks its row and rows of the tables below it, and nothing else.
LEMMA DeletesWhole ==
    ASSUME IInv, Referenced, NEW r \in Requests, Commit(r), op[r].kind = "delete"
    PROVE  /\ op[r].on \in DOMAIN rows
           /\ \E S \in SUBSET (Organized!Takes(op[r].on) \cap DOMAIN rows) :
                 Organized!Delete(op[r].on, S)
  <1> DEFINE x == op[r].on
             write == Write(r)
             view == View(r)
             marked == DOMAIN pending[r]
             S == (DOMAIN write \cup marked) \ {x}
  <1>1. /\ op[r] # NoOp /\ Next1(r) = Statements(op[r])
        /\ rows' = [y \in DOMAIN write \cup DOMAIN rows |->
                       IF y \in DOMAIN write THEN write[y] ELSE view[y]]
        /\ Marks(write, view)
        /\ DOMAIN write \subseteq {x} \cup Organized!Takes(x)
        /\ Active(view, x) => x \in DOMAIN write
    BY CommitIs, DeletionMarks, DeletionReaches
  <1>2. /\ DOMAIN view = DOMAIN rows
        /\ \A y \in DOMAIN rows : view[y] \in Row /\ view[y].parents = rows[y].parents
        /\ \A y \in DOMAIN rows \ marked : view[y] = rows[y]
    BY ViewFacts
  <1>3. /\ marked \subseteq {x} \cup Organized!Takes(x)
        /\ marked \subseteq DOMAIN rows
        /\ \A y \in marked : view[y].deleted
    <2>1. \A y \in marked : view[y] = pending[r][y]
      BY OverFacts DEF View
    <2> QED
      BY <1>1, <2>1 DEF Referenced, IInv, RequestsInv, Marked, Active
  <1>4. x \in DOMAIN rows /\ \A y \in DOMAIN rows : rows[y] \in Row
    BY <1>1 DEF IInv, RequestsInv, Let, RowsInv
  <1> HIDE DEF x, write, view, marked
  <1>5. DOMAIN write \subseteq DOMAIN rows
    BY <1>1, <1>2 DEF Marks, Active
  <1>6. S \subseteq Organized!Takes(x) \cap DOMAIN rows
    BY <1>1, <1>3, <1>5
  <1>7. ASSUME NEW y \in DOMAIN rows
        PROVE  rows'[y] = IF y \in {x} \cup S THEN [rows[y] EXCEPT !.deleted = TRUE] ELSE rows[y]
    <2>1. CASE y \in DOMAIN write
      <3>1. rows'[y] = write[y] /\ write[y] \in Row /\ write[y].deleted
              /\ write[y].parents = rows[y].parents
        BY <1>1, <1>2, <2>1 DEF Marks
      <3>2. rows'[y] = [rows[y] EXCEPT !.deleted = TRUE]
        BY <1>4, <3>1, MarkedRow
      <3> QED
        BY <2>1, <3>2
    <2>2. CASE y \notin DOMAIN write /\ y \in {x} \cup marked
      <3>1. rows'[y] = view[y] /\ view[y] \in Row /\ view[y].parents = rows[y].parents
        BY <1>1, <1>2, <2>2
      <3>2. view[y].deleted
        BY <1>1, <1>2, <1>3, <1>4, <2>2 DEF Active
      <3>3. rows'[y] = [rows[y] EXCEPT !.deleted = TRUE]
        BY <1>4, <3>1, <3>2, MarkedRow
      <3> QED
        BY <2>2, <3>3
    <2>3. CASE y \notin DOMAIN write \cup {x} \cup marked
      BY <1>1, <1>2, <2>3
    <2> QED
      BY <2>1, <2>2, <2>3
  <1>8. rows' = [y \in DOMAIN rows |->
                    IF y \in {x} \cup S THEN [rows[y] EXCEPT !.deleted = TRUE] ELSE rows[y]]
    <2>1. DOMAIN rows' = DOMAIN rows /\ rows' = [y \in DOMAIN rows' |-> rows'[y]]
      BY <1>1, <1>5
    <2> HIDE DEF S
    <2> QED
      BY <1>7, <2>1
  <1> HIDE DEF S
  <1>9. Organized!Delete(x, S)
    BY <1>8 DEF Organized!Delete
  <1> QED
    BY <1>4, <1>6, <1>9 DEF x

\* The other operations are one statement of one row, which nobody else has locked.
LEMMA WritesOne ==
    ASSUME IInv, Referenced, NEW r \in Requests, Commit(r), op[r].kind # "delete"
    PROVE  \/ rows' = rows
           \/ \E x \in Ids : \E P \in Organized!Homes(x) : Organized!Insert(x, P)
           \/ \E x \in DOMAIN rows : \/ \E P \in Organized!Homes(x) : Organized!Move(x, P)
                                     \/ Organized!Restore(x)
  <1> DEFINE o == op[r]
             x == o.on
             write == Write(r)
             view == View(r)
  <1>1. /\ o # NoOp /\ write = Effect(o, view, Next1(r))
        /\ rows' = [y \in DOMAIN write \cup DOMAIN rows |->
                       IF y \in DOMAIN write THEN write[y] ELSE view[y]]
    BY CommitIs DEF Write
  <1>2. Let(o) /\ o \in Op /\ RowsInv
    BY <1>1 DEF IInv, RequestsInv, Let
  <1>3. DOMAIN view = DOMAIN rows /\ \A y \in DOMAIN rows : view[y] = rows[y]
    BY <1>1, OneStatement, ViewFacts
  <1>4. /\ rows = [y \in DOMAIN rows |-> rows[y]]
        /\ \A y \in DOMAIN rows : rows[y].parents \subseteq DOMAIN rows
        /\ o.parents \subseteq DOMAIN rows
        /\ o.kind = "restore" => x \notin Sections
    BY <1>1 DEF Referenced
  <1>5. \A y \in DOMAIN write :
           write[y].parents \in ParentsOf(y) /\ y \in Ids
    BY <1>1, WriteFacts
  <1> HIDE DEF o, write, view
  <1>6. DOMAIN write = {} => rows' = rows
    BY <1>1, <1>3, <1>4
  <1>7. CASE o.kind = "create"
    <2>1. write = [y \in {x} |-> [parents |-> o.parents, deleted |-> FALSE]]
      BY <1>1, <1>7 DEF Effect, create
    <2>2. x \in Ids /\ x \notin DOMAIN rows /\ o.parents \in Organized!Homes(x)
      BY <1>2, <1>4, <1>7, HomesOf DEF Let, Op
    <2>3. rows' = [y \in DOMAIN rows \cup {x} |->
                     IF y = x THEN [parents |-> o.parents, deleted |-> FALSE] ELSE rows[y]]
      BY <1>1, <1>3, <2>1, <2>2
    <2>4. Organized!Insert(x, o.parents)
      BY <2>2, <2>3 DEF Organized!Insert
    <2> QED
      BY <2>2, <2>4
  <1>8. CASE o.kind = "update" /\ DOMAIN write # {}
    <2> DEFINE P == write[x].parents
    <2>1. write = update(view, x, o.parents)
      BY <1>1, <1>8 DEF Effect
    <2>2. /\ DOMAIN write = {x} /\ (x \in Sections \/ Active(view, x))
          /\ write[x] = [view[x] EXCEPT !.parents = P]
          /\ x \in DOMAIN rows
          /\ P \subseteq o.parents \cup view[x].parents
      <3> DEFINE kept == IF x \in Units
                           THEN {e \in view[x].parents : \A n \in o.parents : ~OneTable(e, n)}
                           ELSE {}
      <3>1. /\ DOMAIN write = {x} /\ (x \in Sections \/ Active(view, x))
            /\ write[x] = [view[x] EXCEPT !.parents = o.parents \cup kept]
        BY <1>8, <2>1 DEF update
      <3>2. x \in DOMAIN rows /\ view[x] \in Row
        BY <1>2, <1>3, <1>8 DEF Let, RowsInv
      <3>3. kept \subseteq view[x].parents
        OBVIOUS
      <3> HIDE DEF kept
      <3>4. P = o.parents \cup kept
        BY <3>1, <3>2 DEF Row
      <3> QED
        BY <3>1, <3>2, <3>3, <3>4
    <2>3. x \in Sections \/ ~rows[x].deleted
      BY <1>3, <2>2 DEF Active
    <2>4. P \in ParentsOf(x) /\ x \in Ids /\ P \subseteq DOMAIN rows
      BY <1>3, <1>4, <1>5, <2>2
    <2>5. P \in Organized!Homes(x)
      BY <1>2, <2>4, HomesOf
    <2> HIDE DEF P
    <2>6. rows' = [rows EXCEPT ![x].parents = P]
      BY <1>1, <1>3, <1>4, <2>2
    <2>7. Organized!Move(x, P)
      BY <2>3, <2>6 DEF Organized!Move
    <2> QED
      BY <2>2, <2>5, <2>7
  <1>9. CASE o.kind = "restore" /\ DOMAIN write # {}
    <2>1. write = restore(view, x)
      BY <1>1, <1>9 DEF Effect
    <2>2. DOMAIN write = {x} /\ write[x] = [view[x] EXCEPT !.deleted = FALSE]
      BY <1>9, <2>1 DEF restore
    <2>3. x \in DOMAIN rows /\ x \notin Sections \cup Plazas
      BY <1>2, <1>4, <1>9 DEF Let
    <2>4. rows' = [rows EXCEPT ![x].deleted = FALSE]
      <3>1. write[x] = [rows[x] EXCEPT !.deleted = FALSE]
        BY <1>3, <2>2, <2>3
      <3>2. rows' = [y \in DOMAIN rows |->
                        IF y = x THEN [rows[x] EXCEPT !.deleted = FALSE] ELSE rows[y]]
        BY <1>1, <1>3, <2>2, <2>3, <3>1
      <3> QED
        BY <1>4, <2>3, <3>2
    <2> QED
      BY <2>3, <2>4 DEF Organized!Restore
  <1> QED
    BY <1>2, <1>6, <1>7, <1>8, <1>9 DEF Op, o

LEMMA HomesExist ==
    ASSUME NEW x \in Ids, NEW P \in Organized!Homes(x)
    PROVE  P \subseteq DOMAIN rows
  <1>1. CASE x \in Areas
    BY <1>1 DEF Organized!Homes
  <1>2. CASE x \in Departments \cup Sections
    BY <1>2, IdsAreDistinct DEF Organized!Homes
  <1>3. CASE x \in Units
    <2>1. Organized!Homes(x) \subseteq SUBSET DOMAIN rows
      BY <1>3, IdsAreDistinct DEF Organized!Homes
    <2> QED
      BY <2>1
  <1>4. CASE x \in Plazas
    BY <1>4, IdsAreDistinct DEF Organized!Homes
  <1> QED
    BY <1>1, <1>2, <1>3, <1>4 DEF Ids

\* Rows are not removed, and hang from rows.
LEMMA StepsKeepReferences ==
    ASSUME RowsInv, Referenced, rows' = rows \/ Organized!Next
    PROVE  /\ rows' = [x \in DOMAIN rows' |-> rows'[x]]
           /\ DOMAIN rows \subseteq DOMAIN rows'
           /\ \A x \in DOMAIN rows' : rows'[x].parents \subseteq DOMAIN rows'
  <1> DEFINE Kept == /\ rows' = [x \in DOMAIN rows' |-> rows'[x]]
                     /\ DOMAIN rows \subseteq DOMAIN rows'
                     /\ \A x \in DOMAIN rows' : rows'[x].parents \subseteq DOMAIN rows'
  <1>1. /\ \A x \in DOMAIN rows : x \in Ids /\ rows[x] \in Row
        /\ \A x \in DOMAIN rows : rows[x].parents \subseteq DOMAIN rows
        /\ rows = [x \in DOMAIN rows |-> rows[x]]
    BY DEF RowsInv, Referenced
  <1>2. ASSUME NEW x \in Ids, NEW P \in Organized!Homes(x), Organized!Insert(x, P) PROVE Kept
    <2>1. P \subseteq DOMAIN rows
      BY HomesExist
    <2> QED
      BY <1>1, <1>2, <2>1 DEF Organized!Insert
  <1>3. ASSUME NEW x \in DOMAIN rows, NEW P \in Organized!Homes(x), Organized!Move(x, P) PROVE Kept
    <2>1. P \subseteq DOMAIN rows
      BY <1>1, HomesExist
    <2>2. rows' = [rows EXCEPT ![x].parents = P]
      BY <1>3 DEF Organized!Move
    <2>3. DOMAIN rows' = DOMAIN rows /\ \A y \in DOMAIN rows \ {x} : rows'[y] = rows[y]
      BY <1>1, <2>2
    <2>4. rows'[x].parents = P
      BY <1>1, <2>2 DEF Row
    <2> QED
      BY <1>1, <2>1, <2>2, <2>3, <2>4
  <1>4. ASSUME NEW x \in DOMAIN rows, Organized!Restore(x) PROVE Kept
    <2>1. rows' = [rows EXCEPT ![x].deleted = FALSE]
      BY <1>4 DEF Organized!Restore
    <2>2. DOMAIN rows' = DOMAIN rows /\ \A y \in DOMAIN rows \ {x} : rows'[y] = rows[y]
      BY <1>1, <2>1
    <2>3. rows'[x].parents = rows[x].parents
      BY <1>1, <2>1 DEF Row
    <2> QED
      BY <1>1, <2>1, <2>2, <2>3
  <1>5. ASSUME NEW x \in DOMAIN rows, NEW S, Organized!Delete(x, S) PROVE Kept
    <2>1. rows' = [y \in DOMAIN rows |->
                      IF y \in {x} \cup S THEN [rows[y] EXCEPT !.deleted = TRUE] ELSE rows[y]]
      BY <1>5 DEF Organized!Delete
    <2>2. \A y \in DOMAIN rows : [rows[y] EXCEPT !.deleted = TRUE].parents = rows[y].parents
      BY <1>1 DEF Row
    <2> QED
      BY <1>1, <2>1, <2>2
  <1>6. ASSUME Organized!Next PROVE Kept
    <2>1. Organized!Ids = Ids
      BY DEF Organized!Ids, Ids
    <2> HIDE DEF Kept
    <2>2. CASE \E x \in Ids : \E P \in Organized!Homes(x) : Organized!Insert(x, P)
      BY <1>2, <2>2
    <2>3. CASE \E x \in DOMAIN rows : \E P \in Organized!Homes(x) : Organized!Move(x, P)
      BY <1>3, <2>3
    <2>4. CASE \E x \in DOMAIN rows : Organized!Restore(x)
      BY <1>4, <2>4
    <2>5. CASE \E x \in DOMAIN rows : \E S : Organized!Delete(x, S)
      BY <1>5, <2>5
    <2> QED
      BY <1>6, <2>1, <2>2, <2>3, <2>4, <2>5, Zenon DEF Organized!Next
  <1> QED
    BY <1>1, <1>6

LEMMA CommitIsAStep ==
    ASSUME IInv, Referenced, NEW r \in Requests, Commit(r)
    PROVE  rows' = rows \/ Organized!Next
  <1>1. Organized!Ids = Ids
    BY DEF Organized!Ids, Ids
  <1>2. CASE op[r].kind = "delete"
    BY <1>2, DeletesWhole DEF Organized!Next
  <1>3. CASE op[r].kind # "delete"
    BY <1>1, <1>3, WritesOne DEF Organized!Next
  <1> QED
    BY <1>2, <1>3

LEMMA OnlyCommitsWrite ==
    ASSUME [Next]_vars PROVE rows' = rows \/ \E r \in Requests : Commit(r)
  BY DEF Next, vars, Run, Execute, ConstraintViolated, DeadlockDetected, StatementFails,
         RollBack, AskCreate, AskUpdate, AskDelete, AskRestore, Ask

LEMMA StepIsOrganized == IInv /\ Referenced /\ [Next]_vars => rows' = rows \/ Organized!Next
  BY OnlyCommitsWrite, CommitIsAStep

\* What a request may hold, given the rows there are.
Grounded(r) ==
    op[r] # NoOp =>
      /\ op[r].parents \subseteq DOMAIN rows
      /\ op[r].kind = "restore" => op[r].on \notin Sections
      /\ DOMAIN pending[r] \subseteq {op[r].on} \cup Organized!Takes(op[r].on)

LEMMA AskIsGrounded ==
    ASSUME IInv, Referenced, NEW r \in Requests, op[r] = NoOp,
           NEW kind, NEW x, NEW parents \in SUBSET DOMAIN rows, Ask(r, kind, x, parents),
           kind = "restore" => x \notin Sections
    PROVE  \A q \in Requests : Grounded(q)'
  <1> DEFINE o == [kind |-> kind, on |-> x, parents |-> parents]
  <1>1. /\ op' = [op EXCEPT ![r] = o] /\ UNCHANGED <<rows, pending>>
        /\ o.kind = kind /\ o.on = x /\ o.parents = parents
    BY DEF Ask
  <1> HIDE DEF o
  <1>2. op'[r] = o /\ \A q \in Requests \ {r} : op'[q] = op[q]
    BY <1>1 DEF IInv, RequestsInv
  <1>3. DOMAIN pending[r] = {}
    BY DEF IInv, RequestsInv, Marked
  <1>4. Grounded(r)'
    BY <1>1, <1>2, <1>3 DEF Grounded
  <1>5. \A q \in Requests \ {r} : Grounded(q)'
    BY <1>1, <1>2 DEF Referenced, Grounded
  <1> QED
    BY <1>4, <1>5

LEMMA AsksAreGrounded ==
    ASSUME IInv, Referenced, NEW r \in Requests,
           AskCreate(r) \/ AskUpdate(r) \/ AskDelete(r) \/ AskRestore(r)
    PROVE  \A q \in Requests : Grounded(q)'
  <1>1. CASE AskCreate(r)
    BY <1>1, AskIsGrounded DEF AskCreate, ParentsFound
  <1>2. CASE AskUpdate(r)
    BY <1>2, AskIsGrounded DEF AskUpdate, ParentsFound
  <1>3. CASE AskDelete(r)
    BY <1>3, AskIsGrounded DEF AskDelete
  <1>4. CASE AskRestore(r)
    BY <1>4, AskIsGrounded, IdsAreDistinct DEF AskRestore
  <1> QED
    BY <1>1, <1>2, <1>3, <1>4

LEMMA ExecuteIsGrounded ==
    ASSUME IInv, Referenced, NEW r \in Requests, Execute(r)
    PROVE  \A q \in Requests : Grounded(q)'
  <1>1. /\ op[r] # NoOp /\ Next1(r) < Statements(op[r])
        /\ CHECK_JOB_POSITION_PARENT(Write(r))
        /\ pending' = [pending EXCEPT ![r] = Over(Write(r), pending[r])]
        /\ UNCHANGED <<rows, op>>
    BY DEF Execute
  <1>2. Next1(r) <= Statements(op[r]) /\ op[r].kind = "delete"
    <2>1. op[r].kind # "delete" => Statements(op[r]) = 1
      BY <1>1, OneStatement
    <2>2. Next1(r) \in Nat \ {0} /\ op[r].on \in Ids
      BY <1>1 DEF Next1, IInv, RequestsInv, Op
    <2>3. op[r].kind = "delete" => Statements(op[r]) \in 1 .. 5
      BY <2>2, IdsAreDistinct DEF Statements, Ids
    <2> QED
      BY <1>1, <2>1, <2>2, <2>3
  <1>3. DOMAIN Write(r) \subseteq {op[r].on} \cup Organized!Takes(op[r].on)
    BY <1>1, <1>2, DeletionReaches
  <1>4. DOMAIN pending'[r] = DOMAIN Write(r) \cup DOMAIN pending[r]
    BY <1>1, OverFacts DEF IInv, RequestsInv
  <1>5. \A q \in Requests \ {r} : pending'[q] = pending[q]
    BY <1>1 DEF IInv, RequestsInv
  <1>6. Grounded(r)'
    BY <1>1, <1>3, <1>4 DEF Referenced, Grounded
  <1>7. \A q \in Requests \ {r} : Grounded(q)'
    BY <1>1, <1>5 DEF Referenced, Grounded
  <1> QED
    BY <1>6, <1>7

\* A request that ends holds nothing; the others hold what they held.
LEMMA FinishIsGrounded ==
    ASSUME IInv, Referenced, NEW r \in Requests, Finish(r), DOMAIN rows \subseteq DOMAIN rows'
    PROVE  \A q \in Requests : Grounded(q)'
  <1>1. op'[r] = NoOp /\ \A q \in Requests \ {r} : op'[q] = op[q] /\ pending'[q] = pending[q]
    BY DEF Finish, IInv, RequestsInv
  <1> QED
    BY <1>1 DEF Referenced, Grounded

LEMMA NextReferenced == IInv /\ Referenced /\ [Next]_vars => Referenced'
  <1> SUFFICES ASSUME IInv, Referenced, [Next]_vars PROVE Referenced'
    OBVIOUS
  <1>1. /\ rows' = [x \in DOMAIN rows' |-> rows'[x]]
        /\ DOMAIN rows \subseteq DOMAIN rows'
        /\ \A x \in DOMAIN rows' : rows'[x].parents \subseteq DOMAIN rows'
    BY StepIsOrganized, StepsKeepReferences DEF IInv
  <1>2. \A q \in Requests : Grounded(q)'
    <2>1. CASE UNCHANGED vars
      BY <2>1 DEF vars, Referenced, Grounded
    <2>2. ASSUME NEW r \in Requests,
                 \/ AskCreate(r) \/ AskUpdate(r) \/ AskDelete(r) \/ AskRestore(r)
                 \/ Run(r) \/ StatementFails(r)
          PROVE  \A q \in Requests : Grounded(q)'
      <3>1. CASE Commit(r) \/ RollBack(r)
        BY <1>1, <3>1, FinishIsGrounded DEF Commit, RollBack
      <3> QED
        BY <2>2, <3>1, AsksAreGrounded, ExecuteIsGrounded
           DEF Run, ConstraintViolated, DeadlockDetected, StatementFails
    <2> QED
      BY <2>1, <2>2 DEF Next
  <1> QED
    BY <1>1, <1>2 DEF Referenced, Grounded

LEMMA InitReferenced == Init => Referenced /\ Organized!Init
  <1> SUFFICES ASSUME Init PROVE Referenced /\ Organized!Init
    OBVIOUS
  <1>1. rows = <<>> /\ DOMAIN rows = {} /\ \A r \in Requests : op[r] = NoOp
    BY EmptyDomain DEF Init
  <1>2. rows = [x \in DOMAIN rows |-> rows[x]]
    BY <1>1
  <1> QED
    BY <1>1, <1>2 DEF Referenced, Organized!Init

\* Each commit, whatever ran between its statements, does to the tables what one whole
\* operation does, and the rest of the steps do nothing to them: an organization that
\* changes by whole operations is what the transactions of the repositories implement.
THEOREM TransactionsAreWhole == Spec => OrganizationSpec
  <1>1. Spec => [](IInv /\ Referenced)
    <2>1. Init => IInv /\ Referenced
      BY InitIInv, InitReferenced
    <2>2. IInv /\ Referenced /\ [Next]_vars => (IInv /\ Referenced)'
      BY NextIInv, NextReferenced
    <2> QED
      BY <2>1, <2>2, PTL DEF Spec
  <1>2. IInv /\ Referenced /\ [Next]_vars => [Organized!Next]_rows
    BY StepIsOrganized
  <1>3. Init => Organized!Init
    BY InitReferenced
  <1> QED
    BY <1>1, <1>2, <1>3, PTL DEF Spec, OrganizationSpec, Organized!Spec

=============================================================================
