------------------------- MODULE CatalogPagesProofs -------------------------
(***************************************************************************)
(* The rows on an administration page are the server's once it settles,    *)
(* for any number of rows and requests.                                    *)
(*                                                                         *)
(* Inductive is CatalogInv: as long as nothing is excused, one request at  *)
(* most can still change the table, it is for the page and the filter      *)
(* shown, and what it brings, or what the table holds when there is none,  *)
(* is current or about to be reloaded because a write was applied.  For    *)
(* the page that steps back, the pages that its buttons and itself name    *)
(* are no more than the rows left and the deletions to be answered.        *)
(***************************************************************************)
EXTENDS CatalogPages, FiniteSetTheorems, TLAPS

Lists == [page : Int, search : Terms, timer : BOOLEAN, applied : Terms, loading : BOOLEAN,
          lookups : BOOLEAN, rows : SUBSET (Rows \X Nat), total : Nat]
DialogStates == [form : {"closed", "create", "edit", "view"}, row : Rows \cup {NoRow},
                 delete : Rows \cup {NoRow}, role : Rows \cup {NoRow},
                 pending : Rows \cup {NoRow}]
LoadRequests == [n : Int, page : Int, term : Terms, served : BOOLEAN,
                 rows : SUBSET (Rows \X Nat), total : Nat, active : BOOLEAN,
                 after : {"none", "close", "done"}]
NoText == ""
Results == {"ok", "refused", "in use"}
WriteRequests == [n : Nat, kind : {"create", "edit", "delete", "role", "confirm"},
                  row : Rows \cup {NoRow}, page : Int, term : Terms, count : {0, 1},
                  result : {"none"} \cup Results]

CatalogTypeOK ==
    /\ cPage \in Pages
    /\ cDb \in [Rows -> Nat]
    /\ cList \in Lists
    /\ cDialog \in DialogStates
    /\ cLoads \subseteq LoadRequests
    /\ cWrites \subseteq WriteRequests
    /\ cSent \in Nat
    /\ cSubmitting \in BOOLEAN /\ cExcused \in BOOLEAN

\* A page shows one row.
Single(rows) == \A x, y \in rows : x = y

\* Requests are told apart by their numbers; only an unguarded page writes.
WritesTold ==
    /\ IsFiniteSet(cWrites)
    /\ \A v, w \in cWrites : v.n = w.n => v = w
    /\ \A w \in cWrites : w.n < cSent /\ (w.kind /= "create" => w.row \in Rows)
    /\ cPage.guarded => cWrites = {}

DialogTold == cDialog.form = "edit" => cDialog.row \in Rows

\* All list requests of an unguarded page count.
LoadsTold == \A l \in cLoads : (l.active \/ cPage.guarded) /\ Single(l.rows)

ListTold == Single(cList.rows) /\ (cList.lookups => cPage.lookups)

Bookkeeping == WritesTold /\ DialogTold /\ LoadsTold /\ ListTold

Shown == Slice(cDb, cList.page, cList.applied)
Oks == {w \in cWrites : w.result = "ok"}
Applying == Oks /= {}
Active == {l \in cLoads : l.active}

\* One request at most will change the table, and what it brings is current.
Fresh ==
    /\ \A l, m \in Active : l = m
    /\ \A l \in Active : /\ l.page = cList.page /\ l.term = cList.applied
                         /\ l.served => Applying \/ l.rows = Shown
    /\ Active = {} => Applying \/ cList.rows = Shown

Deleting == {w \in Oks : w.kind = "delete"}
Left == Total(cDb, cList.applied) + Cardinality(Deleting)

\* No page is named beyond the rows there are, or were before deletions that have
\* yet to be answered.
Within ==
    /\ cList.page > 1 => cList.page <= Left
    /\ cLoads = {} => cList.total <= Left
    /\ \A l \in cLoads : l.served => l.total <= Left

StepsBack == cPage.afterDelete = "step back"

CatalogInv ==
    /\ CatalogTypeOK /\ Bookkeeping
    /\ ~cExcused /\ ~cList.lookups => Fresh
    /\ ~cExcused /\ StepsBack => Within

-----------------------------------------------------------------------------
(***************************************************************************)
(* The pages' decisions, and the server's pages.                           *)
(***************************************************************************)
\* What the eleven pages have in common.
LEMMA PagesDecide ==
    ASSUME NEW page \in Pages
    PROVE  /\ page.guarded \in BOOLEAN /\ page.lookups \in BOOLEAN
           /\ page.reloadFirst \in BOOLEAN /\ page.deleteMarks \in BOOLEAN
           /\ page.guarded => page.calls = {} /\ page.afterDelete /= "step back"
           /\ page.afterDelete = "step back" =>
                page.afterCreate = "first" /\ ~page.reloadFirst /\ ~page.lookups
           /\ page.afterCreate \in {"same", "first"}
           /\ page.afterCreate = "first" => ~page.lookups
           /\ page.afterDelete \in {"reload", "await", "step back"}
           /\ page.calls \subseteq {"create", "edit", "delete", "role", "confirm"}
  <1> DEFINE Decides(p) ==
         /\ p.guarded \in BOOLEAN /\ p.lookups \in BOOLEAN
         /\ p.reloadFirst \in BOOLEAN /\ p.deleteMarks \in BOOLEAN
         /\ p.guarded => p.calls = {} /\ p.afterDelete /= "step back"
         /\ p.afterDelete = "step back" =>
              p.afterCreate = "first" /\ ~p.reloadFirst /\ ~p.lookups
         /\ p.afterCreate \in {"same", "first"}
         /\ p.afterCreate = "first" => ~p.lookups
         /\ p.afterDelete \in {"reload", "await", "step back"}
         /\ p.calls \subseteq {"create", "edit", "delete", "role", "confirm"}
  <1>1. Decides(AreasPage)
    BY DEF AreasPage, Page, areaService
  <1>2. Decides(UnitsPage)
    BY DEF UnitsPage, Page, unitService
  <1>3. Decides(SectionsPage)
    BY DEF SectionsPage, Page, sectionService
  <1>4. Decides(DepartmentsPage)
    BY DEF DepartmentsPage, Page, departmentService
  <1>5. Decides(JobPage)
    BY DEF JobPage, Page, jobService
  <1>6. Decides(JobClassPage)
    BY DEF JobClassPage, Page, jobClassService
  <1>7. Decides(LicenseTypesPage)
    BY DEF LicenseTypesPage, Page, licenseTypeService
  <1>8. Decides(FunctionsPage)
    BY DEF FunctionsPage, Page, officialFunctionService
  <1>9. Decides(CustomFunctionsPage)
    BY DEF CustomFunctionsPage, Page, customFunctionService
  <1>10. Decides(JobPositionsPage)
    BY DEF JobPositionsPage, Page, jobPositionService
  <1>11. Decides(UsersPage)
    BY DEF UsersPage, Page, userService
  <1>12. Decides(page)
    <2> HIDE DEF Decides
    <2> QED
      BY <1>1, <1>2, <1>3, <1>4, <1>5, <1>6, <1>7, <1>8, <1>9, <1>10, <1>11 DEF Pages
  <1> QED
    BY <1>12

LEMMA MatchingFinite ==
    ASSUME NEW db, NEW term
    PROVE  /\ Matching(db, term) \subseteq Rows
           /\ IsFiniteSet(Matching(db, term))
           /\ Total(db, term) \in Nat
           /\ \A T \in SUBSET Matching(db, term) : IsFiniteSet(T) /\ Cardinality(T) \in Nat
  <1>1. Matching(db, term) \subseteq Rows
    BY DEF Matching
  <1>2. IsFiniteSet(Rows)
    BY CatalogAssumption, FS_Interval DEF Rows
  <1>3. IsFiniteSet(Matching(db, term))
    BY <1>1, <1>2, FS_Subset
  <1>4. \A T \in SUBSET Matching(db, term) : IsFiniteSet(T) /\ Cardinality(T) \in Nat
    BY <1>3, FS_Subset, FS_CardinalityType
  <1> QED
    BY <1>1, <1>3, <1>4, FS_CardinalityType DEF Total

\* A non-empty set of numbers has a least one.
LEMMA LeastElement ==
    ASSUME NEW T \in SUBSET Nat, T /= {}
    PROVE  \E t \in T : \A u \in T : t <= u
  <1>1. \E t \in T : \A u \in T : ~(u < t)
    <2>1. PICK t \in T : \A u \in T : <<u, t>> \notin OpToRel(<, Nat)
      BY NatLessThanWellFounded, WFMin, Zenon
    <2>2. \A u \in T : ~(u < t)
      BY <2>1, Zenon DEF OpToRel
    <2> QED
      BY <2>2
  <1> QED
    BY <1>1

\* A bounded one has a greatest one.
LEMMA GreatestElement ==
    ASSUME NEW n \in Nat, NEW T \in SUBSET (1..n), T /= {}
    PROVE  \E t \in T : \A u \in T : u <= t
  <1> DEFINE bounds == {b \in Nat : \A u \in T : u <= b}
  <1>1. n \in bounds /\ bounds \in SUBSET Nat
    OBVIOUS
  <1>2. PICK b \in bounds : \A c \in bounds : b <= c
    BY <1>1, LeastElement
  <1>3. CASE b \in T
    BY <1>2, <1>3
  <1>4. CASE b \notin T
    <2>1. PICK t \in T : TRUE
      OBVIOUS
    <2>2. \A u \in T : u <= b - 1
      BY <1>2, <1>4
    <2>3. b - 1 \in bounds
      BY <1>2, <2>1, <2>2
    <2> QED
      BY <1>2, <2>3
  <1> QED
    BY <1>3, <1>4

\* The rows of M up to q.
UpTo(M, q) == {o \in M : o <= q}

\* Another row, another place.
LEMMA UpToGrows ==
    ASSUME NEW M \in SUBSET Nat, IsFiniteSet(M), NEW q \in M, NEW r \in M, q < r
    PROVE  Cardinality(UpTo(M, q)) < Cardinality(UpTo(M, r))
  <1>1. IsFiniteSet(UpTo(M, r)) /\ Cardinality(UpTo(M, r)) \in Nat
    BY FS_Subset, FS_CardinalityType DEF UpTo
  <1>2. UpTo(M, q) \subseteq UpTo(M, r) /\ r \in UpTo(M, r) /\ r \notin UpTo(M, q)
    <2>1. \A o \in M : o <= q => o <= r
      <3>1. \A o \in M : o \in Nat
        OBVIOUS
      <3> QED
        BY <3>1
    <2>2. r <= r /\ ~(r <= q)
      <3>1. q \in Nat /\ r \in Nat
        OBVIOUS
      <3> QED
        BY <3>1
    <2> QED
      BY <2>1, <2>2 DEF UpTo
  <1>3. /\ Cardinality(UpTo(M, q)) <= Cardinality(UpTo(M, r))
        /\ Cardinality(UpTo(M, q)) /= Cardinality(UpTo(M, r))
        /\ IsFiniteSet(UpTo(M, q))
    BY <1>1, <1>2, FS_Subset
  <1>4. Cardinality(UpTo(M, q)) \in Nat
    BY <1>3, FS_CardinalityType
  <1> QED
    BY <1>1, <1>3, <1>4

\* Every place up to the number of rows is taken.
LEMMA PlacesAreTaken ==
    ASSUME NEW n \in Nat, NEW M \in SUBSET (1..n), IsFiniteSet(M),
           NEW p \in Nat, 1 <= p, p <= Cardinality(M)
    PROVE  \E q \in M : Cardinality(UpTo(M, q)) = p
  <1>1. Cardinality(M) \in Nat /\ M /= {}
    BY FS_CardinalityType, FS_EmptySet
  <1>2. \A q : IsFiniteSet(UpTo(M, q)) /\ Cardinality(UpTo(M, q)) \in Nat
    BY FS_Subset, FS_CardinalityType DEF UpTo
  <1> DEFINE far == {q \in M : Cardinality(UpTo(M, q)) >= p}
  <1>3. far /= {}
    <2>1. PICK top \in M : \A o \in M : o <= top
      BY <1>1, GreatestElement
    <2>2. UpTo(M, top) = M
      BY <2>1 DEF UpTo
    <2> QED
      BY <2>1, <2>2
  <1>4. PICK q \in far : \A r \in far : q <= r
    <2>1. far \in SUBSET Nat
      <3>1. far \subseteq M /\ M \subseteq Nat
        OBVIOUS
      <3> QED
        BY <3>1
    <2> HIDE DEF far
    <2> QED
      BY <1>3, <2>1, LeastElement
  <1>5. SUFFICES ASSUME Cardinality(UpTo(M, q)) > p
                 PROVE  FALSE
    BY <1>2, <1>4
  <1> DEFINE below == UpTo(M, q) \ {q}
  <1>6. IsFiniteSet(below) /\ Cardinality(below) = Cardinality(UpTo(M, q)) - 1
    <2>1. q \in UpTo(M, q)
      BY <1>4 DEF UpTo
    <2> QED
      BY <1>2, <2>1, FS_RemoveElement
  <1>7. below /= {}
    BY <1>2, <1>5, <1>6, FS_EmptySet
  <1>8. PICK r \in below : \A o \in below : o <= r
    <2>1. below \in SUBSET (1..n)
      BY DEF UpTo
    <2> HIDE DEF below
    <2> QED
      BY <1>7, <2>1, GreatestElement
  <1>9. r \in M /\ r < q /\ UpTo(M, r) = below
    <2>1. \A o \in M : o \in below <=> o < q
      BY <1>4 DEF UpTo
    <2>2. r \in M /\ r < q
      BY <1>8, <2>1 DEF UpTo
    <2>3. \A o \in M : o <= r <=> o \in below
      BY <1>4, <1>8, <2>1, <2>2
    <2> HIDE DEF below
    <2>4. UpTo(M, r) \subseteq below
      BY <2>3 DEF UpTo
    <2>5. below \subseteq UpTo(M, r)
      BY <2>3 DEF UpTo, below
    <2> QED
      BY <2>2, <2>4, <2>5
  <1>10. r \in far
    BY <1>2, <1>5, <1>6, <1>9
  <1> QED
    BY <1>4, <1>9, <1>10

\* A page of the server's is one of its rows at most, and one as long as there are
\* rows for it.
LEMMA SliceOfRows ==
    ASSUME NEW db \in [Rows -> Nat], NEW page \in Int, NEW term
    PROVE  /\ Slice(db, page, term) \in SUBSET (Rows \X Nat)
           /\ Single(Slice(db, page, term))
           /\ 1 < page /\ page <= Total(db, term) => Slice(db, page, term) /= {}
  <1> DEFINE M == Matching(db, term)
             p == IF page < 1 THEN 1 ELSE page
             shown == {q \in M : Cardinality(UpTo(M, q)) = p}
  <1>1. Slice(db, page, term) = {<<r, db[r]>> : r \in shown}
    BY DEF Slice, UpTo
  <1>2. /\ M \subseteq Rows /\ IsFiniteSet(M) /\ M \in SUBSET Nat /\ M \in SUBSET (1..MaxRows)
        /\ MaxRows \in Nat
    BY MatchingFinite, CatalogAssumption DEF Rows
  <1>3. \A q, r \in shown : q = r
    <2> HIDE DEF M, p
    <2> SUFFICES ASSUME NEW q \in shown, NEW r \in shown, q < r
                 PROVE  FALSE
      BY <1>2
    <2>1. q \in M /\ r \in M /\ Cardinality(UpTo(M, q)) = Cardinality(UpTo(M, r))
      OBVIOUS
    <2>2. Cardinality(UpTo(M, q)) < Cardinality(UpTo(M, r))
      BY <1>2, <2>1, UpToGrows
    <2>3. Cardinality(UpTo(M, q)) \in Nat
      BY <1>2, FS_Subset, FS_CardinalityType DEF UpTo
    <2> QED
      BY <2>1, <2>2, <2>3
  <1>4. ASSUME 1 < page, page <= Total(db, term)
        PROVE  shown /= {}
    <2>1. page \in Nat /\ 1 <= page /\ page <= Cardinality(M) /\ p = page
      BY <1>4 DEF Total
    <2> HIDE DEF M, p
    <2>2. \E q \in M : Cardinality(UpTo(M, q)) = page
      BY <1>2, <2>1, PlacesAreTaken
    <2> QED
      BY <2>1, <2>2
  <1> HIDE DEF shown
  <1>5. shown \subseteq Rows
    BY <1>2 DEF shown
  <1>6. Slice(db, page, term) \in SUBSET (Rows \X Nat)
    <2>1. \A r \in shown : <<r, db[r]>> \in Rows \X Nat
      BY <1>5
    <2> QED
      BY <1>1, <2>1
  <1>7. Single(Slice(db, page, term))
    BY <1>1, <1>3 DEF Single
  <1> QED
    BY <1>1, <1>4, <1>6, <1>7

\* A write that is applied takes one row away at most, and only a deletion does.
LEMMA AppliedRows ==
    ASSUME CatalogTypeOK, NEW w \in WriteRequests, w.kind /= "create" => w.row \in Rows,
           NEW db \in Applied(w)
    PROVE  /\ db \in [Rows -> Nat]
           /\ \A term : Total(db, term) >= Total(cDb, term) - (IF w.kind = "delete" THEN 1 ELSE 0)
  <1>1. cDb \in [Rows -> Nat]
    BY DEF CatalogTypeOK
  <1>2. \A term : /\ IsFiniteSet(Matching(cDb, term)) /\ IsFiniteSet(Matching(db, term))
                  /\ Total(cDb, term) \in Nat /\ Total(db, term) \in Nat
    BY MatchingFinite
  <1>3. CASE w.kind = "create"
    <2>1. PICK r \in Rows : cDb[r] = 0 /\ db = [cDb EXCEPT ![r] = 1]
      BY <1>3 DEF Applied
    <2>2. db \in [Rows -> Nat] /\ \A q \in Rows : cDb[q] > 0 => db[q] > 0
      BY <1>1, <2>1
    <2>3. \A term : Matching(cDb, term) \subseteq Matching(db, term)
      BY <2>2 DEF Matching
    <2>4. \A term : Total(cDb, term) <= Total(db, term)
      BY <1>2, <2>3, FS_Subset DEF Total
    <2> QED
      BY <1>2, <1>3, <2>2, <2>4
  <1>4. CASE w.kind = "delete"
    <2>1. w.row \in Rows /\ db = [cDb EXCEPT ![w.row] = 0]
      BY <1>4 DEF Applied
    <2>2. db \in [Rows -> Nat] /\ \A q \in Rows : q /= w.row => db[q] = cDb[q]
      BY <1>1, <2>1
    <2>3. \A term : Matching(cDb, term) \ {w.row} \subseteq Matching(db, term)
      BY <2>2 DEF Matching
    <2>4. ASSUME NEW term
          PROVE  Total(db, term) >= Total(cDb, term) - 1
      <3> DEFINE kept == Matching(cDb, term) \ {w.row}
      <3>1. /\ IsFiniteSet(kept)
            /\ Cardinality(kept) \in {Total(cDb, term), Total(cDb, term) - 1}
        BY <1>2, FS_RemoveElement DEF Total
      <3>2. Cardinality(kept) <= Total(db, term)
        BY <1>2, <2>3, FS_Subset DEF Total
      <3> HIDE DEF kept
      <3> QED
        BY <1>2, <3>1, <3>2
    <2> QED
      BY <1>4, <2>2, <2>4
  <1>5. CASE w.kind \notin {"create", "delete"}
    <2>1. w.row \in Rows /\ cDb[w.row] /= 0 /\ db = [cDb EXCEPT ![w.row] = @ + 1]
      BY <1>5 DEF Applied
    <2>2. db \in [Rows -> Nat] /\ \A q \in Rows : cDb[q] > 0 <=> db[q] > 0
      BY <1>1, <2>1
    <2>3. \A term : Matching(cDb, term) = Matching(db, term)
      BY <2>2 DEF Matching
    <2>4. \A term : Total(db, term) = Total(cDb, term)
      BY <2>3 DEF Total
    <2> QED
      BY <1>2, <1>5, <2>2, <2>4
  <1> QED
    BY <1>3, <1>4, <1>5

-----------------------------------------------------------------------------
(***************************************************************************)
(* The steps, by what they do to the table.                                *)
(***************************************************************************)
SameTable(list, other) ==
    /\ list.page = other.page /\ list.applied = other.applied /\ list.rows = other.rows
    /\ list.total = other.total /\ list.lookups = other.lookups

\* A list request for page and term is sent.
LoadSent(list, page, term, late) ==
    /\ cList' \in Lists /\ SameTable(cList', list)
    /\ cLoads' \subseteq LoadRequests /\ cLoads' /= {} /\ cPage' = cPage /\ LoadsTold'
    /\ cSent' = cSent + 1 /\ cExcused' \in BOOLEAN
    /\ ~cExcused' =>
         /\ ~late /\ (~cExcused \/ page <= 1)
         /\ \E new : Active' = {new} /\ new.page = page /\ new.term = term /\ ~new.served
         /\ ~cPage.guarded => cLoads = {} /\ \A l \in cLoads' : ~l.served

LEMMA LoadSays ==
    ASSUME CatalogTypeOK, LoadsTold, NEW list \in Lists, NEW page \in Int, NEW term \in Terms,
           NEW after \in {"none", "close", "done"}, NEW late \in BOOLEAN,
           Load(list, page, term, after, late), cPage' = cPage
    PROVE  LoadSent(list, page, term, late)
  <1> DEFINE new == NewLoad(page, term, after)
             off(l) == [l EXCEPT !.active = FALSE]
             old == IF cPage.guarded THEN {off(l) : l \in cLoads} ELSE cLoads
             shows == list.loading \/ ~cPage.guarded
  <1>1. /\ cLoads \subseteq LoadRequests /\ cSent \in Nat /\ cExcused \in BOOLEAN
        /\ cPage.guarded \in BOOLEAN
    BY PagesDecide DEF CatalogTypeOK
  <1>2. /\ new \in LoadRequests /\ new.page = page /\ new.term = term /\ new.served = FALSE
        /\ new.active = TRUE /\ new.rows = {}
    BY <1>1 DEF NewLoad, LoadRequests
  <1>3. \A l \in cLoads : /\ off(l) \in LoadRequests /\ off(l).active = FALSE
                          /\ off(l).rows = l.rows
    <2> SUFFICES ASSUME NEW l \in cLoads
                 PROVE  /\ off(l) \in LoadRequests /\ off(l).active = FALSE
                        /\ off(l).rows = l.rows
      OBVIOUS
    <2>1. l \in LoadRequests
      BY <1>1
    <2> QED
      BY <2>1 DEF LoadRequests
  <1>4. cLoads' = old \cup {new} /\ cList' = [list EXCEPT !.loading = shows]
    BY DEF Load
  <1>5. cSent' = cSent + 1
    BY DEF Load
  <1>6. cExcused' = \/ cLoads /= {} /\ ~cPage.guarded
                    \/ cExcused /\ page > 1
                    \/ late
    BY DEF Load
  <1>7. cList' \in Lists /\ SameTable(cList', list)
    <2>1. shows \in BOOLEAN
      BY <1>1 DEF Lists
    <2> HIDE DEF shows
    <2> QED
      BY <1>4, <2>1 DEF Lists, SameTable
  <1> HIDE DEF new, off
  <1>8. \A l \in old : /\ l \in LoadRequests /\ (l.active => ~cPage.guarded /\ l \in cLoads)
                       /\ l.active \/ cPage.guarded
                       /\ Single(l.rows)
    BY <1>1, <1>3 DEF LoadsTold
  <1>9. cLoads' \subseteq LoadRequests /\ cLoads' /= {}
    BY <1>2, <1>4, <1>8
  <1>10. LoadsTold'
    <2>1. Single(new.rows)
      BY <1>2 DEF Single
    <2>2. \A l \in cLoads' : (l.active \/ cPage.guarded) /\ Single(l.rows)
      BY <1>2, <1>4, <1>8, <2>1
    <2> QED
      BY <2>2 DEF LoadsTold, Single
  <1>11. ASSUME ~cExcused'
         PROVE  /\ ~late /\ (~cExcused \/ page <= 1)
                /\ Active' = {new}
                /\ ~cPage.guarded => cLoads = {} /\ \A l \in cLoads' : ~l.served
    <2>1. /\ ~late /\ (~cExcused \/ page <= 1) /\ (~cPage.guarded => cLoads = {})
      BY <1>6, <1>11
    <2>2. \A l \in old : ~l.active
      BY <1>8, <2>1
    <2>3. Active' = {new}
      <3> HIDE DEF old
      <3> QED
        BY <1>2, <1>4, <2>2 DEF Active
    <2>4. ~cPage.guarded => \A l \in cLoads' : l = new
      BY <1>4, <2>1
    <2> QED
      BY <1>2, <2>1, <2>3, <2>4
  <1> QED
    BY <1>1, <1>2, <1>5, <1>6, <1>7, <1>9, <1>10, <1>11 DEF LoadSent

\* The rest of the state is as it may be after a step.
OthersTold ==
    /\ cPage' = cPage /\ cDb' = cDb /\ cSubmitting' \in BOOLEAN
    /\ cDialog' \in DialogStates /\ DialogTold'
    /\ cWrites' \subseteq WriteRequests

LEMMA WritesShrink ==
    ASSUME CatalogTypeOK, WritesTold, cPage' = cPage, cWrites' \subseteq cWrites,
           cSent' \in Nat, cSent' >= cSent
    PROVE  WritesTold' /\ cWrites' \subseteq WriteRequests
  <1>1. IsFiniteSet(cWrites')
    BY FS_Subset DEF WritesTold
  <1>2. \A w \in cWrites' : w.n < cSent'
    <2>1. \A w \in cWrites : w \in WriteRequests /\ w.n < cSent
      BY DEF CatalogTypeOK, WritesTold
    <2>2. \A w \in WriteRequests : w.n \in Nat
      BY DEF WriteRequests
    <2>3. cSent \in Nat
      BY DEF CatalogTypeOK
    <2> QED
      BY <2>1, <2>2, <2>3
  <1>3. \A v, w \in cWrites' : v.n = w.n => v = w
    BY DEF WritesTold
  <1>4. \A w \in cWrites' : w.kind /= "create" => w.row \in Rows
    BY DEF WritesTold
  <1>5. cPage'.guarded => cWrites' = {}
    BY DEF WritesTold
  <1>6. cWrites' \subseteq WriteRequests
    BY DEF CatalogTypeOK
  <1> QED
    BY <1>1, <1>2, <1>3, <1>4, <1>5, <1>6 DEF WritesTold

\* A request for what the table then shows makes a fresh start.
LEMMA LoadKeeps ==
    ASSUME CatalogInv, NEW list \in Lists, NEW page \in Int, NEW term \in Terms,
           NEW late \in BOOLEAN, LoadSent(list, page, term, late),
           OthersTold, cWrites' \subseteq cWrites,
           list.rows = cList.rows, list.lookups => cList.lookups,
           late \/ (page = list.page /\ term = list.applied),
           StepsBack /\ ~cExcused' /\ list.page > 1 =>
             list.page <= Total(cDb, list.applied) + Cardinality(Deleting')
    PROVE  CatalogInv'
  <1>1. CatalogTypeOK'
    BY DEF LoadSent, OthersTold, CatalogInv, CatalogTypeOK
  <1>2. Bookkeeping'
    <2>1. cSent' \in Nat /\ cSent' >= cSent
      BY DEF LoadSent, CatalogInv, CatalogTypeOK
    <2>2. WritesTold'
      BY <2>1, WritesShrink DEF OthersTold, CatalogInv, Bookkeeping
    <2>3. ListTold'
      BY DEF LoadSent, SameTable, OthersTold, CatalogInv, Bookkeeping, ListTold, Single
    <2> QED
      BY <2>2, <2>3 DEF LoadSent, OthersTold, Bookkeeping
  <1>3. ASSUME ~cExcused'
        PROVE  Fresh'
    <2>1. PICK new : Active' = {new} /\ new.page = page /\ new.term = term /\ ~new.served
      BY <1>3 DEF LoadSent
    <2>2. new.page = cList'.page /\ new.term = cList'.applied
      BY <1>3, <2>1 DEF LoadSent, SameTable
    <2> QED
      BY <2>1, <2>2 DEF Fresh
  <1>4. ASSUME ~cExcused', StepsBack'
        PROVE  Within'
    <2>1. StepsBack /\ ~cPage.guarded
      BY <1>4, PagesDecide DEF StepsBack, OthersTold, CatalogInv, CatalogTypeOK
    <2>2. /\ cLoads' /= {} /\ \A l \in cLoads' : ~l.served
          /\ cList'.page = list.page
          /\ Left' = Total(cDb, list.applied) + Cardinality(Deleting')
      BY <1>4, <2>1 DEF LoadSent, SameTable, Left, OthersTold
    <2> QED
      BY <1>4, <2>1, <2>2 DEF Within
  <1> QED
    BY <1>1, <1>2, <1>3, <1>4 DEF CatalogInv

\* A step that leaves the table and its requests.
LEMMA StillKeeps ==
    ASSUME CatalogInv, OthersTold, cLoads' = cLoads, cSent' \in Nat, WritesTold',
           cList' \in Lists, cList'.rows = cList.rows, cList'.total = cList.total,
           cList'.lookups = cList.lookups,
           cList.lookups \/ (cList'.page = cList.page /\ cList'.applied = cList.applied),
           cExcused' \in BOOLEAN, ~cExcused' => ~cExcused /\ Oks' = Oks
    PROVE  CatalogInv'
  <1>1. CatalogTypeOK'
    BY DEF OthersTold, CatalogInv, CatalogTypeOK
  <1>2. Bookkeeping'
    <2>1. LoadsTold'
      BY DEF OthersTold, CatalogInv, Bookkeeping, LoadsTold, Single
    <2>2. ListTold'
      BY DEF OthersTold, CatalogInv, Bookkeeping, ListTold, Single
    <2> QED
      BY <2>1, <2>2 DEF OthersTold, Bookkeeping
  <1>3. ASSUME ~cExcused', ~cList'.lookups
        PROVE  Fresh'
    <2>1. Fresh /\ Oks' = Oks
      BY <1>3 DEF CatalogInv
    <2>2. Shown' = Shown /\ Active' = Active
      BY <1>3 DEF OthersTold, Shown, Active
    <2> QED
      BY <1>3, <2>1, <2>2 DEF Fresh, Applying
  <1>4. ASSUME ~cExcused', StepsBack'
        PROVE  Within'
    <2>1. StepsBack /\ ~cPage.lookups
      BY <1>4, PagesDecide DEF StepsBack, OthersTold, CatalogInv, CatalogTypeOK
    <2>2. ~cList.lookups
      BY <2>1 DEF CatalogInv, Bookkeeping, ListTold
    <2>3. Deleting' = Deleting
      BY <1>4 DEF Deleting
    <2>4. Left' = Left /\ Within
      BY <1>4, <2>1, <2>2, <2>3 DEF Left, OthersTold, CatalogInv
    <2> QED
      BY <2>2, <2>4 DEF Within
  <1> QED
    BY <1>1, <1>2, <1>3, <1>4 DEF CatalogInv

\* The effect on page and filter sends a request if they change.
LEMMA ShowSays ==
    ASSUME CatalogTypeOK, NEW list \in Lists, NEW late \in BOOLEAN, Show(list, late)
    PROVE  \/ Load(list, list.page, list.applied, "none", late)
           \/ /\ cList' = list /\ cExcused' = (cExcused \/ late) /\ cExcused' \in BOOLEAN
              /\ UNCHANGED <<cLoads, cSent>>
              /\ list.lookups \/ (list.page = cList.page /\ list.applied = cList.applied)
  <1>1. <<list.page, list.applied>> = <<cList.page, cList.applied>> =>
          list.page = cList.page /\ list.applied = cList.applied
    OBVIOUS
  <1>2. CASE <<list.page, list.applied>> = <<cList.page, cList.applied>> \/ list.lookups
    BY <1>1, <1>2 DEF Show, CatalogTypeOK
  <1>3. CASE ~(<<list.page, list.applied>> = <<cList.page, cList.applied>> \/ list.lookups)
    BY <1>3, Zenon DEF Show
  <1> QED
    BY <1>2, <1>3

LEMMA ShowKeeps ==
    ASSUME CatalogInv, NEW list \in Lists, NEW late \in BOOLEAN, Show(list, late),
           OthersTold, cWrites' \subseteq cWrites,
           list.rows = cList.rows, list.lookups = cList.lookups, list.total = cList.total,
           \* either the page goes elsewhere, or nothing was applied
           late \/ Oks' = Oks \/ (list.page /= cList.page /\ ~list.lookups),
           StepsBack /\ ~cExcused' /\ list.page > 1 =>
             list.page <= Total(cDb, list.applied) + Cardinality(Deleting')
    PROVE  CatalogInv'
  <1>1. CatalogTypeOK /\ LoadsTold /\ WritesTold /\ cPage' = cPage /\ cSent \in Nat
        /\ list.page \in Int /\ list.applied \in Terms
    BY DEF CatalogInv, Bookkeeping, CatalogTypeOK, OthersTold, Lists
  <1>2. CASE Load(list, list.page, list.applied, "none", late)
    <2>1. LoadSent(list, list.page, list.applied, late)
      BY <1>1, <1>2, LoadSays
    <2> QED
      BY <1>1, <2>1, LoadKeeps
  <1>3. CASE /\ cList' = list /\ cExcused' = (cExcused \/ late) /\ cExcused' \in BOOLEAN
             /\ UNCHANGED <<cLoads, cSent>>
             /\ list.lookups \/ (list.page = cList.page /\ list.applied = cList.applied)
    <2>1. WritesTold'
      BY <1>1, <1>3, WritesShrink
    <2>2. cSent' \in Nat
      BY <1>1, <1>3
    <2>3. ~cExcused' => ~cExcused /\ Oks' = Oks
      BY <1>3
    <2>4. /\ cList' \in Lists /\ cList'.rows = cList.rows /\ cList'.total = cList.total
          /\ cList'.lookups = cList.lookups
          /\ cList.lookups \/ (cList'.page = cList.page /\ cList'.applied = cList.applied)
          /\ cLoads' = cLoads /\ cExcused' \in BOOLEAN
      BY <1>3
    <2> QED
      BY <2>1, <2>2, <2>3, <2>4, StillKeeps
  <1> QED
    BY <1>2, <1>3, ShowSays, <1>1

LEMMA LeftTyped ==
    ASSUME CatalogTypeOK, WritesTold
    PROVE  /\ IsFiniteSet(Deleting) /\ Cardinality(Deleting) \in Nat
           /\ Total(cDb, cList.applied) \in Nat /\ Left \in Nat
  <1>1. Deleting \subseteq cWrites
    BY DEF Deleting, Oks
  <1>2. IsFiniteSet(Deleting) /\ Cardinality(Deleting) \in Nat
    BY <1>1, FS_Subset, FS_CardinalityType DEF WritesTold
  <1>3. Total(cDb, cList.applied) \in Nat
    BY MatchingFinite
  <1> QED
    BY <1>2, <1>3 DEF Left

\* The search box, its timer, the page buttons and the choices of the form.
LEMMA ControlsKeep ==
    ASSUME CatalogInv,
           \/ \E term \in Terms : Type(term)
           \/ Debounce
           \/ \E page \in 1..MaxRows : ChoosePage(page)
           \/ LookupsAnswered
    PROVE  CatalogInv'
  <1>1. /\ CatalogTypeOK /\ LoadsTold /\ WritesTold /\ DialogTold /\ cSent \in Nat
        /\ cList \in Lists /\ cExcused \in BOOLEAN
    BY DEF CatalogInv, Bookkeeping, CatalogTypeOK
  <1>2. ASSUME UNCHANGED <<cPage, cDialog, cSubmitting, cWrites, cDb>>
        PROVE  OthersTold /\ cWrites' \subseteq cWrites /\ Oks' = Oks
    BY <1>1, <1>2 DEF OthersTold, DialogTold, CatalogTypeOK, Oks
  <1>3. ASSUME NEW term \in Terms, Type(term)
        PROVE  CatalogInv'
    <2> DEFINE list == [cList EXCEPT !.search = term, !.timer = TRUE]
    <2>1. list \in Lists /\ SameTable(list, cList)
      BY <1>1 DEF Lists, SameTable
    <2>2. /\ cList' = list
          /\ UNCHANGED <<cPage, cDialog, cSubmitting, cLoads, cWrites, cDb, cSent, cExcused>>
      BY <1>3 DEF Type
    <2> HIDE DEF list
    <2>3. WritesTold'
      BY <1>1, <2>2, WritesShrink
    <2> QED
      BY <1>1, <1>2, <2>1, <2>2, <2>3, StillKeeps DEF SameTable
  <1>4. CASE Debounce
    <2> DEFINE untimed == [cList EXCEPT !.timer = FALSE]
               turned == [untimed EXCEPT !.page = 1]
               first == [turned EXCEPT !.applied = cList.search]
    <2>1. untimed \in Lists /\ SameTable(untimed, cList)
      BY <1>1 DEF Lists, SameTable
    <2>2. /\ first \in Lists /\ first.page = 1 /\ first.rows = cList.rows
          /\ first.lookups = cList.lookups /\ first.total = cList.total
      <3>1. untimed \in Lists /\ cList.search \in Terms
        BY <1>1, <2>1 DEF Lists
      <3> HIDE DEF untimed
      <3>2. /\ turned \in Lists /\ turned.page = 1 /\ turned.rows = untimed.rows
            /\ turned.lookups = untimed.lookups /\ turned.total = untimed.total
        BY <3>1 DEF Lists
      <3> HIDE DEF turned
      <3>3. /\ first \in Lists /\ first.page = turned.page /\ first.rows = turned.rows
            /\ first.lookups = turned.lookups /\ first.total = turned.total
        BY <3>1, <3>2 DEF Lists
      <3> QED
        BY <2>1, <3>2, <3>3 DEF SameTable
    <2>3. /\ Show(first, FALSE) \/ Show(untimed, FALSE)
          /\ UNCHANGED <<cPage, cDialog, cSubmitting, cWrites, cDb>>
      BY <1>4, Zenon DEF Debounce
    <2> HIDE DEF first, turned, untimed
    <2>4. CASE Show(first, FALSE)
      <3>1. OthersTold /\ cWrites' \subseteq cWrites /\ Oks' = Oks /\ FALSE \in BOOLEAN
        BY <1>2, <2>3
      <3>2. ~(first.page > 1)
        BY <2>2
      <3> QED
        BY <2>2, <2>4, <3>1, <3>2, ShowKeeps
    <2>5. CASE Show(untimed, FALSE)
      <3>1. /\ cList' = untimed /\ UNCHANGED <<cLoads, cSent>>
            /\ cExcused' = (cExcused \/ FALSE)
        <4>1. <<untimed.page, untimed.applied>> = <<cList.page, cList.applied>>
          BY <2>1 DEF SameTable
        <4> QED
          BY <2>5, <4>1, Zenon DEF Show
      <3>2. WritesTold'
        BY <1>1, <1>2, <2>3, <3>1, WritesShrink
      <3> QED
        BY <1>1, <1>2, <2>1, <2>3, <3>1, <3>2, StillKeeps DEF SameTable
    <2> QED
      BY <2>3, <2>4, <2>5
  <1>5. ASSUME NEW page \in 1..MaxRows, ChoosePage(page)
        PROVE  CatalogInv'
    <2> DEFINE list == [cList EXCEPT !.page = page]
    <2>1. /\ list \in Lists /\ list.page = page /\ list.rows = cList.rows
          /\ list.lookups = cList.lookups /\ list.total = cList.total
          /\ list.applied = cList.applied
      BY <1>1, CatalogAssumption DEF Lists
    <2>2. /\ Show(list, FALSE) /\ page \in 1..cList.total
          /\ UNCHANGED <<cPage, cDialog, cSubmitting, cWrites, cDb>>
      BY <1>5, Zenon DEF ChoosePage
    <2> HIDE DEF list
    <2>3. ASSUME StepsBack, ~cExcused', list.page > 1
          PROVE  list.page <= Total(cDb, list.applied) + Cardinality(Deleting')
      <3>1. Deleting' = Deleting
        BY <1>2, <2>2 DEF Deleting
      <3>2. ~cPage.guarded /\ ~cList.lookups
        BY <1>1, <2>3, PagesDecide DEF StepsBack, CatalogInv, CatalogTypeOK, Bookkeeping, ListTold
      <3>3. ~cExcused /\ (cLoads = {} \/ list.page = cList.page)
        <4>1. CASE Load(list, list.page, list.applied, "none", FALSE)
          BY <2>3, <3>2, <4>1 DEF Load
        <4>2. CASE cExcused' = (cExcused \/ FALSE) /\ (list.lookups \/ list.page = cList.page)
          BY <2>1, <2>3, <3>2, <4>2
        <4> QED
          BY <1>1, <2>1, <2>2, <4>1, <4>2, ShowSays
      <3>4. Within
        BY <2>3, <3>3 DEF CatalogInv
      <3>5. list.page <= Left
        <4>1. CASE cLoads = {}
          <5>1. page <= cList.total /\ cList.total <= Left
            BY <2>2, <3>4, <4>1 DEF Within
          <5>2. page \in Nat /\ cList.total \in Nat /\ Left \in Int
            BY <1>1, CatalogAssumption, LeftTyped DEF Lists
          <5> QED
            BY <2>1, <5>1, <5>2
        <4>2. CASE list.page = cList.page
          BY <2>3, <3>4, <4>2 DEF Within
        <4> QED
          BY <3>3, <4>1, <4>2
      <3> QED
        BY <2>1, <3>1, <3>5 DEF Left
    <2> QED
      BY <1>1, <1>2, <2>1, <2>2, <2>3, ShowKeeps
  <1>6. CASE LookupsAnswered
    <2> DEFINE list == [cList EXCEPT !.lookups = FALSE]
    <2>1. /\ list \in Lists /\ list.page = cList.page /\ list.rows = cList.rows
          /\ list.lookups = FALSE /\ list.applied = cList.applied
          /\ cList.page \in Int /\ cList.applied \in Terms
      BY <1>1 DEF Lists
    <2>2. /\ Load(list, cList.page, cList.applied, "none", FALSE) /\ cList.lookups
          /\ UNCHANGED <<cPage, cDialog, cSubmitting, cWrites, cDb>>
      BY <1>6 DEF LookupsAnswered
    <2> HIDE DEF list
    <2>3. LoadSent(list, cList.page, cList.applied, FALSE)
      BY <1>1, <2>1, <2>2, LoadSays
    <2>4. ~StepsBack
      BY <1>1, <2>2, PagesDecide DEF StepsBack, CatalogInv, CatalogTypeOK, Bookkeeping, ListTold
    <2> QED
      BY <1>2, <2>1, <2>2, <2>3, <2>4, LoadKeeps
  <1> QED
    BY <1>3, <1>4, <1>5, <1>6

\* Closing a dialog, or the form to ask for a confirmation.
LEMMA ClosingTold ==
    ASSUME cDialog \in DialogStates, DialogTold
    PROVE  /\ ClosedForm \in DialogStates /\ ClosedForm.form = "closed"
           /\ \A row \in Rows \cup {NoRow} : [ClosedForm EXCEPT !.pending = row] \in DialogStates
           /\ \/ cDialog' \in {ClosedForm, cDialog, [cDialog EXCEPT !.delete = NoRow],
                               [cDialog EXCEPT !.role = NoRow],
                               [cDialog EXCEPT !.pending = NoRow]}
              \/ \E row \in Rows \cup {NoRow} : cDialog' = [ClosedForm EXCEPT !.pending = row]
              => cDialog' \in DialogStates /\ DialogTold'
  <1> DEFINE unnamed == [cDialog EXCEPT !.form = "closed"]
             closed == [unnamed EXCEPT !.row = NoRow]
  <1>1. unnamed \in DialogStates /\ unnamed.form = "closed"
    BY DEF DialogStates
  <1>2. closed \in DialogStates /\ closed.form = "closed" /\ ClosedForm = closed
    <2>1. ClosedForm = closed
      BY Zenon DEF ClosedForm
    <2> HIDE DEF unnamed
    <2>2. closed \in DialogStates /\ closed.form = "closed"
      BY <1>1 DEF DialogStates
    <2> QED
      BY <2>1, <2>2
  <1> HIDE DEF closed
  <1>3. ASSUME NEW row \in Rows \cup {NoRow}
        PROVE  /\ [closed EXCEPT !.pending = row] \in DialogStates
               /\ [closed EXCEPT !.pending = row].form = "closed"
    BY <1>2 DEF DialogStates
  <1>4. /\ [cDialog EXCEPT !.delete = NoRow] \in DialogStates
        /\ [cDialog EXCEPT !.role = NoRow] \in DialogStates
        /\ [cDialog EXCEPT !.pending = NoRow] \in DialogStates
    BY DEF DialogStates
  <1>5. /\ [cDialog EXCEPT !.delete = NoRow].form = cDialog.form
        /\ [cDialog EXCEPT !.delete = NoRow].row = cDialog.row
        /\ [cDialog EXCEPT !.role = NoRow].form = cDialog.form
        /\ [cDialog EXCEPT !.role = NoRow].row = cDialog.row
        /\ [cDialog EXCEPT !.pending = NoRow].form = cDialog.form
        /\ [cDialog EXCEPT !.pending = NoRow].row = cDialog.row
    BY DEF DialogStates
  <1>6. ASSUME cDialog' \in {ClosedForm, cDialog, [cDialog EXCEPT !.delete = NoRow],
                             [cDialog EXCEPT !.role = NoRow],
                             [cDialog EXCEPT !.pending = NoRow]}
        PROVE  cDialog' \in DialogStates /\ DialogTold'
    <2>1. cDialog' \in DialogStates
      BY <1>2, <1>4, <1>6
    <2>2. cDialog'.form = "closed" \/ (cDialog'.form = cDialog.form /\ cDialog'.row = cDialog.row)
      BY <1>2, <1>5, <1>6
    <2> QED
      BY <2>1, <2>2 DEF DialogTold
  <1>7. ASSUME NEW row \in Rows \cup {NoRow}, cDialog' = [ClosedForm EXCEPT !.pending = row]
        PROVE  cDialog' \in DialogStates /\ DialogTold'
    BY <1>2, <1>3, <1>7 DEF DialogTold
  <1> QED
    BY <1>2, <1>3, <1>6, <1>7

\* A dialog opens on a row the table shows.
LEMMA DialogsKeep ==
    ASSUME CatalogInv, Dialogs
    PROVE  CatalogInv'
  <1>1. /\ CatalogTypeOK /\ WritesTold /\ DialogTold /\ cSent \in Nat
        /\ cList \in Lists /\ cExcused \in BOOLEAN /\ cDialog \in DialogStates
    BY DEF CatalogInv, Bookkeeping, CatalogTypeOK
  <1>2. \A row : Listed(row) => row \in Rows
    <2>1. \A r \in cList.rows : r[1] \in Rows
      <3>1. cList.rows \subseteq Rows \X Nat
        BY <1>1 DEF Lists
      <3> QED
        BY <3>1
    <2> QED
      BY <2>1 DEF Listed
  <1>3. cDialog' \in DialogStates /\ DialogTold'
    <2>1. ASSUME NEW row \in Rows \cup {NoRow}, NEW mode \in {"create", "edit", "view"},
                 OpenForm(mode, row)
          PROVE  cDialog' \in DialogStates /\ DialogTold'
      <3> DEFINE named == [cDialog EXCEPT !.form = mode]
                 opened == [named EXCEPT !.row = row]
      <3>1. cDialog' = opened /\ (mode = "edit" => row \in Rows)
        BY <1>2, <2>1 DEF OpenForm
      <3>2. named \in DialogStates /\ named.form = mode
        BY <1>1 DEF DialogStates
      <3> HIDE DEF named
      <3>3. opened \in DialogStates /\ opened.form = mode /\ opened.row = row
        BY <3>2 DEF DialogStates
      <3> HIDE DEF opened
      <3> QED
        BY <3>1, <3>3 DEF DialogTold
    <2>2. ASSUME NEW row \in Rows, OpenDelete(row)
          PROVE  cDialog' \in DialogStates /\ DialogTold'
      BY <1>1, <2>2 DEF OpenDelete, DialogStates, DialogTold
    <2>3. ASSUME NEW row \in Rows, OpenRole(row)
          PROVE  cDialog' \in DialogStates /\ DialogTold'
      BY <1>1, <2>3 DEF OpenRole, DialogStates, DialogTold
    <2>4. CASE CloseDialog
      BY <1>1, <2>4, ClosingTold DEF CloseDialog
    <2> QED
      BY <2>1, <2>2, <2>3, <2>4 DEF Dialogs
  <1>4. UNCHANGED <<cPage, cList, cSubmitting, cLoads, cWrites, cDb, cSent, cExcused>>
    BY DEF Dialogs
  <1>5. OthersTold /\ Oks' = Oks
    BY <1>1, <1>3, <1>4 DEF OthersTold, CatalogTypeOK, Oks
  <1>6. WritesTold'
    BY <1>1, <1>4, WritesShrink
  <1> QED
    BY <1>1, <1>4, <1>5, <1>6, StillKeeps

\* A write is told apart by its number; it remembers whether the page had a row.
LEMMA WriteKeeps ==
    ASSUME CatalogInv, NEW kind \in {"create", "edit", "delete", "role", "confirm"},
           NEW row \in Rows \cup {NoRow}, kind /= "create" => row \in Rows,
           Write(kind, row)
    PROVE  CatalogInv'
  <1> DEFINE new == [n |-> cSent, kind |-> kind, row |-> row, page |-> cList.page,
                     term |-> cList.applied, count |-> Cardinality(cList.rows),
                     result |-> "none"]
  <1>1. /\ CatalogTypeOK /\ WritesTold /\ DialogTold /\ ListTold /\ cSent \in Nat
        /\ cList \in Lists /\ cExcused \in BOOLEAN /\ cDialog \in DialogStates
        /\ cSubmitting \in BOOLEAN /\ cPage \in Pages /\ cWrites \subseteq WriteRequests
    BY DEF CatalogInv, Bookkeeping, CatalogTypeOK
  <1>2. Cardinality(cList.rows) \in {0, 1}
    <2>1. CASE cList.rows = {}
      BY <2>1, FS_EmptySet
    <2>2. ASSUME NEW x \in cList.rows
          PROVE  Cardinality(cList.rows) \in {0, 1}
      <3>1. cList.rows = {x}
        BY <1>1, <2>2 DEF ListTold, Single
      <3> QED
        BY <3>1, FS_Singleton
    <2> QED
      BY <2>1, <2>2
  <1>3. /\ new \in WriteRequests /\ new.n = cSent /\ new.kind = kind /\ new.row = row
        /\ new.result = "none"
    <2>1. cList.page \in Int /\ cList.applied \in Terms
      BY <1>1 DEF Lists
    <2> QED
      BY <1>1, <1>2, <2>1 DEF WriteRequests
  <1>4. /\ kind \in cPage.calls /\ cSent' = cSent + 1 /\ cWrites' = cWrites \cup {new}
        /\ cSubmitting' = (cSubmitting \/ kind /= "delete" \/ cPage.deleteMarks)
        /\ UNCHANGED <<cPage, cList, cDialog, cLoads, cDb, cExcused>>
    BY DEF Write
  <1> HIDE DEF new
  <1>5. ~cPage.guarded
    BY <1>1, <1>4, PagesDecide
  <1>6. \A w \in cWrites : w \in WriteRequests /\ w.n \in Nat /\ w.n < cSent
    BY <1>1 DEF WritesTold, WriteRequests
  <1>7. WritesTold'
    <2>1. IsFiniteSet(cWrites')
      BY <1>1, <1>4, FS_AddElement DEF WritesTold
    <2>2. \A v, w \in cWrites' : v.n = w.n => v = w
      BY <1>1, <1>3, <1>4, <1>6 DEF WritesTold
    <2>3. \A w \in cWrites' : w.n < cSent'
      BY <1>1, <1>3, <1>4, <1>6
    <2>4. \A w \in cWrites' : w.kind /= "create" => w.row \in Rows
      BY <1>1, <1>3, <1>4 DEF WritesTold
    <2> QED
      BY <1>4, <1>5, <2>1, <2>2, <2>3, <2>4 DEF WritesTold
  <1>8. Oks' = Oks
    BY <1>3, <1>4 DEF Oks
  <1>9. OthersTold
    <2>1. cSubmitting' \in BOOLEAN
      BY <1>4
    <2> QED
      BY <1>1, <1>3, <1>4, <2>1 DEF OthersTold, DialogTold
  <1> QED
    BY <1>1, <1>4, <1>7, <1>8, <1>9, StillKeeps

LEMMA WritesKeep ==
    ASSUME CatalogInv,
           handleConfirm \/ handleDelete \/ handleChangeRole \/ confirmPendingUpdate
    PROVE  CatalogInv'
  <1>1. DialogTold /\ cDialog \in DialogStates
    BY DEF CatalogInv, Bookkeeping, CatalogTypeOK
  <1>2. /\ cDialog.row \in Rows \cup {NoRow} /\ cDialog.delete \in Rows \cup {NoRow}
        /\ cDialog.role \in Rows \cup {NoRow} /\ cDialog.pending \in Rows \cup {NoRow}
    BY <1>1 DEF DialogStates
  <1>3. CASE handleConfirm
    <2>1. cDialog.form \in {"create", "edit"} /\ Write(cDialog.form, cDialog.row)
      BY <1>3 DEF handleConfirm
    <2>2. cDialog.form /= "create" => cDialog.row \in Rows
      BY <1>1, <2>1 DEF DialogTold
    <2> QED
      BY <1>2, <2>1, <2>2, WriteKeeps
  <1>4. CASE handleDelete
    BY <1>2, <1>4, WriteKeeps DEF handleDelete
  <1>5. CASE handleChangeRole
    BY <1>2, <1>5, WriteKeeps DEF handleChangeRole
  <1>6. CASE confirmPendingUpdate
    BY <1>2, <1>6, WriteKeeps DEF confirmPendingUpdate
  <1> QED
    BY <1>3, <1>4, <1>5, <1>6

\* A list request is served with what the server holds.
LEMMA ServeLoadKeeps ==
    ASSUME CatalogInv, NEW l \in cLoads, ServeLoad(l)
    PROVE  CatalogInv'
  <1> DEFINE now == Slice(cDb, l.page, l.term)
             many == Total(cDb, l.term)
             marked == [l EXCEPT !.served = TRUE]
             filled == [marked EXCEPT !.rows = now]
             new == [filled EXCEPT !.total = many]
  <1>1. /\ CatalogTypeOK /\ Bookkeeping /\ WritesTold /\ LoadsTold /\ cSent \in Nat
        /\ cDb \in [Rows -> Nat] /\ l \in LoadRequests /\ cLoads \subseteq LoadRequests
        /\ cPage \in Pages
    BY DEF CatalogInv, Bookkeeping, CatalogTypeOK
  <1>2. l.page \in Int
    BY <1>1 DEF LoadRequests
  <1>3. now \in SUBSET (Rows \X Nat) /\ Single(now) /\ many \in Nat
    BY <1>1, <1>2, SliceOfRows, MatchingFinite
  <1>4. /\ ~l.served /\ cLoads' = (cLoads \ {l}) \cup {new}
        /\ UNCHANGED <<cPage, cList, cDialog, cSubmitting, cWrites, cDb, cSent, cExcused>>
    BY Zenon DEF ServeLoad
  <1>5. /\ new \in LoadRequests /\ new.served = TRUE /\ new.rows = now /\ new.total = many
        /\ new.page = l.page /\ new.term = l.term /\ new.active = l.active
    <2> HIDE DEF now, many
    <2>1. /\ marked \in LoadRequests /\ marked.served = TRUE /\ marked.page = l.page
          /\ marked.term = l.term /\ marked.active = l.active
      BY <1>1 DEF LoadRequests
    <2> HIDE DEF marked
    <2>2. /\ filled \in LoadRequests /\ filled.served = TRUE /\ filled.page = l.page
          /\ filled.term = l.term /\ filled.active = l.active /\ filled.rows = now
      BY <1>3, <2>1 DEF LoadRequests
    <2> HIDE DEF filled
    <2> QED
      BY <1>3, <2>2 DEF LoadRequests
  <1> HIDE DEF new
  <1>6. CatalogTypeOK'
    BY <1>1, <1>4, <1>5 DEF CatalogTypeOK
  <1>7. Bookkeeping'
    <2>1. WritesTold'
      BY <1>1, <1>4, WritesShrink
    <2>2. LoadsTold'
      <3>1. \A k \in cLoads' : (k.active \/ cPage.guarded) /\ Single(k.rows)
        BY <1>1, <1>3, <1>4, <1>5 DEF LoadsTold
      <3> QED
        BY <1>4, <3>1 DEF LoadsTold, Single
    <2>3. ListTold' /\ DialogTold'
      BY <1>1, <1>4 DEF Bookkeeping, ListTold, DialogTold, Single
    <2> QED
      BY <2>1, <2>2, <2>3 DEF Bookkeeping
  <1>8. ASSUME ~cExcused', ~cList'.lookups
        PROVE  Fresh'
    <2>1. Fresh
      BY <1>4, <1>8 DEF CatalogInv
    <2>2. Shown' = Shown /\ Applying' = Applying /\ cList' = cList
      BY <1>4 DEF Shown, Applying, Oks
    <2>3. CASE l.active
      <3>1. Active = {l} /\ l.page = cList.page /\ l.term = cList.applied
        BY <2>1, <2>3 DEF Fresh, Active
      <3>2. Active' = {new}
        BY <1>4, <1>5, <2>3, <3>1 DEF Active
      <3>3. new.rows = Shown
        BY <1>5, <3>1 DEF Shown
      <3> QED
        BY <1>5, <2>2, <3>1, <3>2, <3>3 DEF Fresh
    <2>4. CASE ~l.active
      <3>1. Active' = Active
        BY <1>4, <1>5, <2>4 DEF Active
      <3> QED
        BY <2>1, <2>2, <3>1 DEF Fresh
    <2> QED
      BY <2>3, <2>4
  <1>9. ASSUME ~cExcused', StepsBack'
        PROVE  Within'
    <2>1. Within /\ StepsBack /\ ~cPage.guarded /\ ~cList.lookups
      BY <1>1, <1>4, <1>9, PagesDecide DEF StepsBack, CatalogInv, Bookkeeping, ListTold
    <2>2. l.term = cList.applied
      <3>1. l \in Active /\ Fresh
        BY <1>1, <1>4, <1>9, <2>1 DEF LoadsTold, Active, CatalogInv
      <3> QED
        BY <3>1 DEF Fresh
    <2>3. Left' = Left /\ cList' = cList /\ cLoads' /= {}
      BY <1>4 DEF Left, Deleting, Oks
    <2>4. new.total <= Left
      BY <1>1, <1>3, <1>5, <2>2, LeftTyped DEF Left
    <2>5. \A k \in cLoads' : k.served => k.total <= Left
      BY <1>4, <2>1, <2>4 DEF Within
    <2> QED
      BY <2>1, <2>3, <2>5 DEF Within
  <1> QED
    BY <1>6, <1>7, <1>8, <1>9 DEF CatalogInv

\* An answer fills the table with what was served.
LEMMA LoadAnsweredKeeps ==
    ASSUME CatalogInv, NEW l \in cLoads, NEW failed \in BOOLEAN, LoadAnswered(l, failed)
    PROVE  CatalogInv'
  <1>1. /\ CatalogTypeOK /\ Bookkeeping /\ WritesTold /\ LoadsTold /\ ListTold /\ DialogTold
        /\ cSent \in Nat /\ cList \in Lists /\ cDialog \in DialogStates
        /\ l \in LoadRequests /\ cLoads \subseteq LoadRequests
        /\ cPage \in Pages /\ cExcused \in BOOLEAN /\ cSubmitting \in BOOLEAN
    BY DEF CatalogInv, Bookkeeping, CatalogTypeOK
  <1>2. /\ l.served \/ failed
        /\ cLoads' = cLoads \ {l} /\ UNCHANGED <<cPage, cWrites, cDb, cSent>>
        /\ cExcused' = (cExcused \/ (failed /\ l.active))
        /\ cSubmitting' = (cSubmitting /\ l.after = "none")
        /\ cDialog' \in {ClosedForm, cDialog}
    BY DEF LoadAnswered
  <1>3. /\ cList' \in Lists /\ cList'.page = cList.page /\ cList'.applied = cList.applied
        /\ cList'.lookups = cList.lookups
        /\ \/ cList'.rows = cList.rows /\ cList'.total = cList.total /\ (~l.active \/ failed)
           \/ cList'.rows = l.rows /\ cList'.total = l.total /\ l.active /\ ~failed
    <2> DEFINE seen == [cList EXCEPT !.loading = FALSE]
               rowed == [seen EXCEPT !.rows = l.rows]
               filled == [rowed EXCEPT !.total = l.total]
    <2>1. cList' = IF ~l.active THEN cList ELSE IF failed THEN seen ELSE filled
      BY Zenon DEF LoadAnswered
    <2>2. seen \in Lists /\ SameTable(seen, cList)
      BY <1>1 DEF Lists, SameTable
    <2> HIDE DEF seen
    <2>3. /\ rowed \in Lists /\ rowed.page = seen.page /\ rowed.applied = seen.applied
          /\ rowed.lookups = seen.lookups /\ rowed.rows = l.rows
      BY <1>1, <2>2 DEF Lists, LoadRequests
    <2> HIDE DEF rowed
    <2>4. /\ filled \in Lists /\ filled.page = rowed.page /\ filled.applied = rowed.applied
          /\ filled.lookups = rowed.lookups /\ filled.rows = rowed.rows
          /\ filled.total = l.total
      BY <1>1, <2>3 DEF Lists, LoadRequests
    <2> HIDE DEF filled
    <2>5. CASE ~l.active
      BY <1>1, <2>1, <2>5
    <2>6. CASE l.active /\ failed
      BY <2>1, <2>2, <2>6 DEF SameTable
    <2>7. CASE l.active /\ ~failed
      BY <2>1, <2>2, <2>3, <2>4, <2>7 DEF SameTable
    <2> QED
      BY <2>5, <2>6, <2>7
  <1>4. cDialog' \in DialogStates /\ DialogTold'
    BY <1>1, <1>2, ClosingTold
  <1>5. CatalogTypeOK'
    BY <1>1, <1>2, <1>3, <1>4 DEF CatalogTypeOK
  <1>6. Bookkeeping'
    <2>1. WritesTold'
      BY <1>1, <1>2, WritesShrink
    <2>2. LoadsTold'
      BY <1>1, <1>2 DEF LoadsTold, Single
    <2>3. ListTold'
      BY <1>1, <1>2, <1>3 DEF LoadsTold, ListTold, Single
    <2> QED
      BY <1>4, <2>1, <2>2, <2>3 DEF Bookkeeping
  <1>7. Oks' = Oks
    BY <1>2 DEF Oks
  <1>8. ASSUME ~cExcused', ~cList'.lookups
        PROVE  Fresh'
    <2>1. Fresh /\ ~(failed /\ l.active)
      BY <1>1, <1>2, <1>3, <1>8 DEF CatalogInv
    <2>2. Shown' = Shown /\ Applying' = Applying
      BY <1>2, <1>3, <1>7 DEF Shown, Applying
    <2>3. CASE l.active
      <3>1. Active = {l} /\ (Applying \/ l.rows = Shown)
        BY <1>2, <2>1, <2>3 DEF Fresh, Active
      <3>2. Active' = {}
        BY <1>2, <3>1 DEF Active
      <3>3. cList'.rows = l.rows
        BY <1>3, <2>1, <2>3
      <3> QED
        BY <2>2, <3>1, <3>2, <3>3 DEF Fresh
    <2>4. CASE ~l.active
      <3>1. Active' = Active
        BY <1>2, <2>4 DEF Active
      <3>2. cList'.rows = cList.rows
        BY <1>3, <2>4
      <3> QED
        BY <1>3, <2>1, <2>2, <3>1, <3>2 DEF Fresh
    <2> QED
      BY <2>3, <2>4
  <1>9. ASSUME ~cExcused', StepsBack'
        PROVE  Within'
    <2>1. Within /\ StepsBack /\ ~cPage.guarded
      BY <1>1, <1>2, <1>9, PagesDecide DEF StepsBack, CatalogInv
    <2>2. l.served /\ cList'.total = l.total
      BY <1>1, <1>2, <1>3, <1>9, <2>1 DEF LoadsTold
    <2>3. Left' = Left
      BY <1>2, <1>3, <1>7 DEF Left, Deleting
    <2> QED
      BY <1>2, <1>3, <2>1, <2>2, <2>3 DEF Within
  <1> QED
    BY <1>5, <1>6, <1>8, <1>9 DEF CatalogInv

\* Whatever the server does with a write, the number of a write stays its own.
LEMMA ServeWriteKeeps ==
    ASSUME CatalogInv, NEW w \in cWrites, NEW result \in Results,
           ServeWrite(w, result)
    PROVE  CatalogInv'
  <1> DEFINE new == [w EXCEPT !.result = result]
  <1>1. /\ CatalogTypeOK /\ Bookkeeping /\ WritesTold /\ LoadsTold /\ ListTold /\ DialogTold
        /\ cSent \in Nat /\ w \in WriteRequests /\ cWrites \subseteq WriteRequests
        /\ cPage \in Pages /\ cDb \in [Rows -> Nat]
        /\ (w.kind /= "create" => w.row \in Rows)
    BY DEF CatalogInv, Bookkeeping, CatalogTypeOK, WritesTold
  <1>2. /\ w.result = "none" /\ cWrites' = (cWrites \ {w}) \cup {new}
        /\ UNCHANGED <<cPage, cList, cDialog, cSubmitting, cLoads, cSent, cExcused>>
        /\ (result = "ok" /\ cDb' \in Applied(w)) \/ (result /= "ok" /\ cDb' = cDb)
    BY Zenon DEF ServeWrite
  <1>3. /\ new \in WriteRequests /\ new.n = w.n /\ new.kind = w.kind /\ new.row = w.row
        /\ new.result = result
    BY <1>1 DEF WriteRequests
  <1> HIDE DEF new
  <1>4. /\ cDb' \in [Rows -> Nat]
        /\ \A term : Total(cDb', term) >=
                       Total(cDb, term) - (IF w.kind = "delete" /\ result = "ok" THEN 1 ELSE 0)
    <2>1. CASE result = "ok" /\ cDb' \in Applied(w)
      <3>1. /\ cDb' \in [Rows -> Nat]
            /\ \A term : Total(cDb', term) >=
                           Total(cDb, term) - (IF w.kind = "delete" THEN 1 ELSE 0)
        BY <1>1, <2>1, AppliedRows
      <3> QED
        BY <2>1, <3>1
    <2>2. CASE result /= "ok" /\ cDb' = cDb
      <3>1. \A term : Total(cDb, term) \in Nat
        BY MatchingFinite
      <3> QED
        BY <1>1, <2>2, <3>1
    <2> QED
      BY <1>2, <2>1, <2>2
  <1>5. CatalogTypeOK'
    BY <1>1, <1>2, <1>3, <1>4 DEF CatalogTypeOK
  <1>6. \A v \in cWrites' : v = new \/ (v \in cWrites /\ v.n /= new.n)
    BY <1>1, <1>2, <1>3 DEF WritesTold
  <1>7. WritesTold'
    <2>1. IsFiniteSet(cWrites')
      <3>1. IsFiniteSet(cWrites \ {w})
        BY <1>1, FS_RemoveElement DEF WritesTold
      <3> QED
        BY <1>2, <3>1, FS_AddElement
    <2>2. \A v, u \in cWrites' : v.n = u.n => v = u
      BY <1>1, <1>6 DEF WritesTold
    <2>3. \A v \in cWrites' : v.n < cSent' /\ (v.kind /= "create" => v.row \in Rows)
      BY <1>1, <1>2, <1>3, <1>6 DEF WritesTold
    <2>4. ~cPage'.guarded
      BY <1>1, <1>2 DEF WritesTold
    <2> QED
      BY <2>1, <2>2, <2>3, <2>4 DEF WritesTold
  <1>8. Bookkeeping'
    BY <1>1, <1>2, <1>7 DEF Bookkeeping, LoadsTold, ListTold, DialogTold, Single
  <1>9. Oks' = IF result = "ok" THEN Oks \cup {new} ELSE Oks
    BY <1>2, <1>3 DEF Oks
  <1>10. ASSUME ~cExcused', ~cList'.lookups
         PROVE  Fresh'
    <2>1. Fresh /\ Active' = Active /\ cList' = cList
      BY <1>2, <1>10 DEF CatalogInv, Active
    <2>2. CASE result = "ok"
      BY <1>9, <2>1, <2>2 DEF Fresh, Applying
    <2>3. CASE result /= "ok"
      <3>1. Shown' = Shown /\ Applying' = Applying
        BY <1>2, <1>9, <2>3 DEF Shown, Applying
      <3> QED
        BY <2>1, <3>1 DEF Fresh
    <2> QED
      BY <2>2, <2>3
  <1>11. ASSUME ~cExcused', StepsBack'
         PROVE  Within'
    <2>1. Within /\ cList' = cList /\ cLoads' = cLoads
      BY <1>2, <1>11 DEF StepsBack, CatalogInv
    <2>2. Left' >= Left
      <3>1. /\ Left = Total(cDb, cList.applied) + Cardinality(Deleting)
            /\ Left' = Total(cDb', cList.applied) + Cardinality(Deleting')
            /\ Total(cDb, cList.applied) \in Nat /\ Total(cDb', cList.applied) \in Nat
            /\ IsFiniteSet(Deleting) /\ Cardinality(Deleting) \in Nat
        BY <1>1, <1>2, LeftTyped, MatchingFinite DEF Left
      <3>2. CASE w.kind = "delete" /\ result = "ok"
        <4>1. Deleting' = Deleting \cup {new}
          BY <1>3, <1>9, <3>2 DEF Deleting
        <4>2. new \notin Deleting
          BY <1>1, <1>2, <1>3, <3>2 DEF Deleting, Oks, WritesTold
        <4>3. Cardinality(Deleting') = Cardinality(Deleting) + 1
          BY <3>1, <4>1, <4>2, FS_AddElement
        <4>4. Total(cDb', cList.applied) >= Total(cDb, cList.applied) - 1
          BY <1>4, <3>2
        <4> QED
          BY <3>1, <4>3, <4>4
      <3>3. CASE ~(w.kind = "delete" /\ result = "ok")
        <4>1. Deleting' = Deleting
          BY <1>3, <1>9, <3>3 DEF Deleting
        <4>2. Total(cDb', cList.applied) >= Total(cDb, cList.applied) - 0
          BY <1>4, <3>3
        <4> QED
          BY <3>1, <4>1, <4>2
      <3> QED
        BY <3>2, <3>3
    <2>3. Left \in Nat /\ Left' \in Nat
      <3>1. IsFiniteSet(Deleting') /\ Cardinality(Deleting') \in Nat
        <4>1. Deleting' \subseteq cWrites' /\ IsFiniteSet(cWrites')
          BY <1>7 DEF Deleting, Oks, WritesTold
        <4> QED
          BY <4>1, FS_Subset, FS_CardinalityType
      <3>2. Total(cDb', cList'.applied) \in Nat
        BY MatchingFinite
      <3> QED
        BY <1>1, <3>1, <3>2, LeftTyped DEF Left
    <2>4. cList.page \in Int /\ cList.total \in Nat /\ \A l \in cLoads : l.total \in Nat
      BY <1>1 DEF CatalogTypeOK, Lists, LoadRequests
    <2>5. cList.page > 1 => cList.page <= Left'
      BY <2>1, <2>2, <2>3, <2>4 DEF Within
    <2>6. cLoads = {} => cList.total <= Left'
      BY <2>1, <2>2, <2>3, <2>4 DEF Within
    <2>7. \A l \in cLoads : l.served => l.total <= Left'
      BY <2>1, <2>2, <2>3, <2>4 DEF Within
    <2> QED
      BY <2>1, <2>5, <2>6, <2>7 DEF Within
  <1> QED
    BY <1>5, <1>8, <1>10, <1>11 DEF CatalogInv

\* The reload after a write that was applied brings the table up to date, unless the
\* page has moved.  After a deletion it is only sent for a page that keeps its rows.
LEMMA ReloadKeeps ==
    ASSUME CatalogInv, NEW w \in cWrites, cWrites' = cWrites \ {w}, OthersTold,
           NEW after \in {"none", "close", "done"}, NEW late \in BOOLEAN, Moved(w) => late,
           w.kind = "delete" /\ StepsBack /\ ~late => w.page <= 1,
           Load(cList, w.page, w.term, after, late)
    PROVE  CatalogInv'
  <1>1. /\ CatalogTypeOK /\ LoadsTold /\ WritesTold /\ ListTold /\ cPage \in Pages
        /\ cPage' = cPage /\ cList \in Lists /\ w \in WriteRequests
    BY DEF CatalogInv, Bookkeeping, CatalogTypeOK, OthersTold
  <1>2. w.page \in Int /\ w.term \in Terms
    BY <1>1 DEF WriteRequests
  <1>3. LoadSent(cList, w.page, w.term, late)
    BY <1>1, <1>2, LoadSays
  <1>4. late \/ (w.page = cList.page /\ w.term = cList.applied)
    BY Zenon DEF Moved
  <1>5. ASSUME StepsBack, ~cExcused', cList.page > 1
        PROVE  cList.page <= Total(cDb, cList.applied) + Cardinality(Deleting')
    <2>1. ~late /\ w.page = cList.page
      BY <1>3, <1>4, <1>5 DEF LoadSent
    <2>2. ~cExcused
      BY <1>2, <1>3, <1>5, <2>1 DEF LoadSent
    <2>3. w.kind /= "delete"
      BY <1>2, <1>5, <2>1
    <2>4. Deleting' = Deleting
      BY <2>3 DEF Deleting, Oks
    <2>5. Within
      BY <1>5, <2>2 DEF CatalogInv
    <2> QED
      BY <1>5, <2>4, <2>5 DEF Within, Left
  <1>6. cWrites' \subseteq cWrites
    OBVIOUS
  <1> QED
    BY <1>1, <1>2, <1>3, <1>4, <1>5, <1>6, LoadKeeps

\* A form is saved: the list is reloaded, or the first page shown.
LEMMA FormSavedKeeps ==
    ASSUME CatalogInv, NEW w \in cWrites, cWrites' = cWrites \ {w},
           UNCHANGED <<cPage, cDb>>, w.kind \in {"create", "edit"}, FormSaved(w)
    PROVE  CatalogInv'
  <1>1. /\ CatalogTypeOK /\ LoadsTold /\ WritesTold /\ ListTold /\ DialogTold
        /\ cPage \in Pages /\ cList \in Lists /\ cDialog \in DialogStates
        /\ w \in WriteRequests /\ cWrites \subseteq WriteRequests /\ cSubmitting \in BOOLEAN
    BY DEF CatalogInv, Bookkeeping, CatalogTypeOK
  <1>2. /\ \/ Reload(w, "close") \/ Reload(w, "none") \/ Reload(w, "done")
           \/ /\ cPage.afterCreate /= "same" /\ w.page /= 1
              /\ Show([cList EXCEPT !.page = 1], Moved(w)) /\ cSubmitting' = FALSE
        /\ cDialog' \in {ClosedForm, cDialog}
    BY Zenon DEF FormSaved
  <1>3. cSubmitting' \in BOOLEAN
    <2>1. ASSUME NEW after, Reload(w, after)
          PROVE  cSubmitting' \in BOOLEAN
      <3>1. CASE after /= "none"
        BY <1>1, <2>1, <3>1 DEF Reload
      <3>2. CASE after = "none"
        BY <2>1, <3>2 DEF Reload
      <3> QED
        BY <3>1, <3>2
    <2> QED
      BY <1>2, <2>1
  <1>4. OthersTold
    BY <1>1, <1>2, <1>3, ClosingTold DEF OthersTold
  <1>5. ASSUME NEW after \in {"none", "close", "done"}, Reload(w, after)
        PROVE  CatalogInv'
    <2>1. Load(cList, w.page, w.term, after, Moved(w)) /\ Moved(w) \in BOOLEAN
      BY <1>5 DEF Reload, Moved
    <2>2. w.kind /= "delete"
      OBVIOUS
    <2> QED
      BY <1>4, <2>1, <2>2, ReloadKeeps
  <1>6. CASE /\ cPage.afterCreate /= "same" /\ w.page /= 1
             /\ Show([cList EXCEPT !.page = 1], Moved(w))
    <2> DEFINE list == [cList EXCEPT !.page = 1]
    <2>1. /\ list \in Lists /\ list.page = 1 /\ list.rows = cList.rows
          /\ list.lookups = cList.lookups /\ list.total = cList.total
      BY <1>1 DEF Lists
    <2>2. ~cList.lookups
      BY <1>1, <1>6, PagesDecide DEF ListTold
    <2>3. Show(list, Moved(w)) /\ Moved(w) \in BOOLEAN
      BY <1>6 DEF Moved
    <2> HIDE DEF list
    <2>4. Moved(w) \/ (list.page /= cList.page /\ ~list.lookups)
      <3>1. Moved(w) \/ w.page = cList.page
        BY Zenon DEF Moved
      <3> QED
        BY <1>6, <2>1, <2>2, <3>1
    <2>5. ~(list.page > 1) /\ cWrites' \subseteq cWrites
      BY <2>1
    <2> QED
      BY <1>4, <2>1, <2>3, <2>4, <2>5, ShowKeeps
  <1> QED
    BY <1>2, <1>5, <1>6

\* A row is deleted: the list is reloaded, or the page steps back.
LEMMA RowDeletedKeeps ==
    ASSUME CatalogInv, NEW w \in cWrites, cWrites' = cWrites \ {w},
           UNCHANGED <<cPage, cDb>>, w.kind = "delete", w.result = "ok", RowDeleted(w)
    PROVE  CatalogInv'
  <1>1. /\ CatalogTypeOK /\ LoadsTold /\ WritesTold /\ ListTold /\ DialogTold
        /\ cPage \in Pages /\ cList \in Lists /\ cDialog \in DialogStates
        /\ w \in WriteRequests /\ cWrites \subseteq WriteRequests /\ cSubmitting \in BOOLEAN
    BY DEF CatalogInv, Bookkeeping, CatalogTypeOK
  <1>2. w.page \in Int /\ w.count \in {0, 1} /\ Moved(w) \in BOOLEAN
    BY <1>1 DEF WriteRequests, Moved
  <1>3. cDialog' = [cDialog EXCEPT !.delete = NoRow]
    BY DEF RowDeleted
  <1>4. ASSUME cSubmitting' \in BOOLEAN
        PROVE  OthersTold
    BY <1>1, <1>3, <1>4, ClosingTold DEF OthersTold
  <1>5. ASSUME NEW after \in {"none", "done"}, Reload(w, after), ~StepsBack
        PROVE  CatalogInv'
    <2>1. Load(cList, w.page, w.term, after, Moved(w))
      BY <1>5 DEF Reload
    <2>2. cSubmitting' \in BOOLEAN
      <3>1. CASE after /= "none"
        BY <1>1, <1>5, <3>1 DEF Reload
      <3>2. CASE after = "none"
        BY <1>5, <3>2 DEF Reload
      <3> QED
        BY <3>1, <3>2
    <2> QED
      BY <1>2, <1>4, <1>5, <2>1, <2>2, ReloadKeeps
  <1>6. ASSUME StepsBack, w.count = 1, w.page > 1,
               Show([cList EXCEPT !.page = @ - 1], Moved(w)), cSubmitting' = FALSE
        PROVE  CatalogInv'
    <2> DEFINE list == [cList EXCEPT !.page = @ - 1]
    <2>1. /\ list \in Lists /\ list.page = cList.page - 1 /\ list.rows = cList.rows
          /\ list.lookups = cList.lookups /\ list.total = cList.total
          /\ list.applied = cList.applied /\ cList.page \in Int
      BY <1>1 DEF Lists
    <2>2. Show(list, Moved(w))
      BY <1>6
    <2>3. ~cList.lookups
      BY <1>1, <1>6, PagesDecide DEF StepsBack, ListTold
    <2> HIDE DEF list
    <2>4. list.page /= cList.page /\ ~list.lookups
      BY <2>1, <2>3
    <2>5. ASSUME ~cExcused', list.page > 1
          PROVE  list.page <= Total(cDb, list.applied) + Cardinality(Deleting')
      <3>1. Load(list, list.page, list.applied, "none", Moved(w))
        BY <1>1, <1>2, <2>1, <2>2, <2>4, ShowSays
      <3>2. ~cExcused
        BY <2>5, <3>1 DEF Load
      <3>3. cList.page <= Left
        BY <1>6, <2>1, <2>5, <3>2 DEF CatalogInv, Within
      <3>4. w \in Deleting /\ Deleting' = Deleting \ {w}
        BY DEF Deleting, Oks
      <3>5. /\ IsFiniteSet(Deleting) /\ Cardinality(Deleting) \in Nat
            /\ Total(cDb, cList.applied) \in Nat
        BY <1>1, LeftTyped
      <3>6. Cardinality(Deleting') = Cardinality(Deleting) - 1
        BY <3>4, <3>5, FS_RemoveElement
      <3> QED
        BY <2>1, <3>3, <3>5, <3>6 DEF Left
    <2>6. OthersTold /\ cWrites' \subseteq cWrites
      BY <1>4, <1>6
    <2> QED
      BY <1>2, <2>1, <2>2, <2>4, <2>5, <2>6, ShowKeeps
  <1>7. ASSUME StepsBack, ~(w.count = 1 /\ w.page > 1),
               Load(cList, w.page, w.term, "done", Moved(w) \/ w.count = 0),
               UNCHANGED cSubmitting
        PROVE  CatalogInv'
    <2> DEFINE late == Moved(w) \/ w.count = 0
    <2>1. late \in BOOLEAN /\ (Moved(w) => late) /\ (~late => w.page <= 1)
      BY <1>2, <1>7
    <2>2. Load(cList, w.page, w.term, "done", late)
      BY <1>7
    <2> HIDE DEF late
    <2>3. OthersTold
      BY <1>1, <1>4, <1>7
    <2> QED
      BY <2>1, <2>2, <2>3, ReloadKeeps
  <1>8. \/ Reload(w, "none") /\ ~StepsBack
        \/ Reload(w, "done") /\ ~StepsBack
        \/ /\ StepsBack /\ w.count = 1 /\ w.page > 1
           /\ Show([cList EXCEPT !.page = @ - 1], Moved(w)) /\ cSubmitting' = FALSE
        \/ /\ StepsBack /\ ~(w.count = 1 /\ w.page > 1)
           /\ Load(cList, w.page, w.term, "done", Moved(w) \/ w.count = 0)
           /\ UNCHANGED cSubmitting
    <2>1. CASE cPage.afterDelete = "reload" /\ Reload(w, "none")
      BY <2>1 DEF StepsBack
    <2>2. CASE cPage.afterDelete = "await" /\ Reload(w, "done")
      BY <2>2 DEF StepsBack
    <2>3. CASE cPage.afterDelete \notin {"reload", "await"}
      BY <2>3, Zenon DEF RowDeleted, StepsBack
    <2> QED
      BY <2>1, <2>2, <2>3, Zenon DEF RowDeleted
  <1> QED
    BY <1>5, <1>6, <1>7, <1>8

\* A write that fails changes nothing on the page; one whose answer is lost after it was
\* applied is excused.
LEMMA WriteFailsKeeps ==
    ASSUME CatalogInv, NEW w \in cWrites, NEW result, WriteFails(w, result),
           cWrites' = cWrites \ {w}, UNCHANGED <<cPage, cDb>>, cExcused' \in BOOLEAN,
           ~cExcused' => ~cExcused /\ w.result /= "ok"
    PROVE  CatalogInv'
  <1>1. /\ CatalogTypeOK /\ WritesTold /\ DialogTold /\ cSent \in Nat
        /\ cList \in Lists /\ cDialog \in DialogStates /\ cSubmitting \in BOOLEAN
        /\ w \in WriteRequests /\ cWrites \subseteq WriteRequests
    BY DEF CatalogInv, Bookkeeping, CatalogTypeOK
  <1>2. UNCHANGED <<cList, cLoads, cSent>> /\ cSubmitting' \in BOOLEAN
    <2>1. UNCHANGED <<cList, cLoads, cSent>>
      BY Zenon DEF WriteFails
    <2>2. cSubmitting' = (cSubmitting /\ w.kind = "delete" /\ ~cPage.deleteMarks)
      BY Zenon DEF WriteFails
    <2> QED
      BY <2>1, <2>2
  <1>3. w.row \in Rows \cup {NoRow}
    BY <1>1 DEF WriteRequests
  <1>4. cDialog' \in DialogStates /\ DialogTold'
    <2>1. \/ cDialog' \in {cDialog, [cDialog EXCEPT !.delete = NoRow],
                           [cDialog EXCEPT !.pending = NoRow]}
          \/ cDialog' = [ClosedForm EXCEPT !.pending = w.row]
      BY Zenon DEF WriteFails
    <2> QED
      BY <1>1, <1>3, <2>1, ClosingTold
  <1>5. OthersTold /\ WritesTold'
    <2>1. WritesTold' /\ cWrites' \subseteq WriteRequests
      BY <1>1, <1>2, WritesShrink
    <2> QED
      BY <1>1, <1>2, <1>4, <2>1 DEF OthersTold
  <1>6. w.result /= "ok" => Oks' = Oks
    BY DEF Oks
  <1> QED
    BY <1>1, <1>2, <1>5, <1>6, StillKeeps

LEMMA WriteAnsweredKeeps ==
    ASSUME CatalogInv, NEW w \in cWrites, NEW lost \in BOOLEAN, WriteAnswered(w, lost)
    PROVE  CatalogInv'
  <1>1. /\ CatalogTypeOK /\ WritesTold /\ DialogTold /\ cExcused \in BOOLEAN
        /\ cDialog \in DialogStates /\ cSubmitting \in BOOLEAN /\ w \in WriteRequests
        /\ cWrites \subseteq WriteRequests
    BY DEF CatalogInv, Bookkeeping, CatalogTypeOK
  <1>2. /\ cWrites' = cWrites \ {w} /\ UNCHANGED <<cPage, cDb>>
        /\ \/ ~lost /\ w.result = "ok" /\ WriteSucceeds(w)
           \/ ~lost /\ w.result /= "ok" /\ WriteFails(w, w.result) /\ cExcused' = cExcused
           \/ lost /\ WriteFails(w, "lost") /\ cExcused' = (cExcused \/ w.result = "ok")
    BY Zenon DEF WriteAnswered
  <1>3. CASE w.result = "ok" /\ WriteSucceeds(w)
    <2>1. CASE w.kind \in {"create", "edit"} /\ FormSaved(w)
      BY <1>2, <2>1, FormSavedKeeps
    <2>2. CASE w.kind = "delete" /\ RowDeleted(w)
      BY <1>2, <1>3, <2>2, RowDeletedKeeps
    <2>3. ASSUME NEW after \in {"none", "done"}, Reload(w, after), w.kind /= "delete",
                 cDialog' \in {[cDialog EXCEPT !.role = NoRow], [cDialog EXCEPT !.pending = NoRow]}
          PROVE  CatalogInv'
      <3>1. Load(cList, w.page, w.term, after, Moved(w)) /\ Moved(w) \in BOOLEAN
        BY <2>3 DEF Reload, Moved
      <3>2. cSubmitting' \in BOOLEAN
        <4>1. CASE after /= "none"
          BY <1>1, <2>3, <4>1 DEF Reload
        <4>2. CASE after = "none"
          BY <2>3, <4>2 DEF Reload
        <4> QED
          BY <4>1, <4>2
      <3>3. OthersTold
        BY <1>1, <1>2, <2>3, <3>2, ClosingTold DEF OthersTold
      <3> QED
        BY <1>2, <2>3, <3>1, <3>3, ReloadKeeps
    <2>4. CASE /\ w.kind = "role" /\ cDialog' = [cDialog EXCEPT !.role = NoRow]
               /\ Reload(w, "done")
      BY <2>3, <2>4
    <2>5. CASE /\ w.kind = "confirm" /\ cDialog' = [cDialog EXCEPT !.pending = NoRow]
               /\ Reload(w, "none")
      BY <2>3, <2>5
    <2> QED
      BY <1>3, <2>1, <2>2, <2>4, <2>5, Zenon DEF WriteSucceeds
  <1>4. CASE w.result /= "ok" /\ WriteFails(w, w.result) /\ cExcused' = cExcused
    BY <1>1, <1>2, <1>4, WriteFailsKeeps
  <1>5. CASE WriteFails(w, "lost") /\ cExcused' = (cExcused \/ w.result = "ok")
    <2>1. cExcused' \in BOOLEAN /\ (~cExcused' => ~cExcused /\ w.result /= "ok")
      BY <1>1, <1>5
    <2> QED
      BY <1>2, <1>5, <2>1, WriteFailsKeeps
  <1> QED
    BY <1>2, <1>3, <1>4, <1>5

-----------------------------------------------------------------------------
LEMMA CatalogStarts ==
    ASSUME CatalogInit
    PROVE  CatalogInv
  <1> DEFINE first == [n |-> -1, page |-> 1, term |-> NoText, served |-> FALSE, rows |-> {},
                       total |-> 0, active |-> TRUE, after |-> "none"]
  <1>1. /\ cPage \in Pages /\ cPage.lookups \in BOOLEAN /\ cPage.guarded \in BOOLEAN
        /\ (StepsBack => ~cPage.lookups)
    BY PagesDecide DEF CatalogInit, StepsBack
  <1>2. /\ cDb \in [Rows -> Nat] /\ cWrites = {} /\ cSubmitting = FALSE /\ cExcused = FALSE
        /\ cSent = 0
    BY DEF CatalogInit
  <1>3. /\ cList \in Lists /\ cList.page = 1 /\ cList.applied = NoText /\ cList.total = 1
        /\ cList.rows = {} /\ cList.lookups = cPage.lookups
    <2>1. cList = [page |-> 1, search |-> NoText, timer |-> TRUE, applied |-> NoText,
                   loading |-> ~cPage.lookups, lookups |-> cPage.lookups, rows |-> {},
                   total |-> 1]
      BY Zenon DEF CatalogInit, NoText
    <2>2. NoText \in Terms
      BY Zenon DEF Terms, NoText
    <2> QED
      BY <1>1, <2>1, <2>2 DEF Lists
  <1>4. cDialog \in DialogStates /\ DialogTold
    BY DEF CatalogInit, DialogStates, DialogTold
  <1>5. cLoads = IF cPage.lookups THEN {} ELSE {first}
    BY Zenon DEF CatalogInit, NoText
  <1>6. /\ first \in LoadRequests /\ first.active = TRUE /\ first.rows = {}
        /\ first.page = 1 /\ first.term = NoText /\ first.served = FALSE
    <2>1. NoText \in Terms
      BY Zenon DEF Terms, NoText
    <2> QED
      BY <2>1 DEF LoadRequests
  <1> HIDE DEF first
  <1>7. CatalogTypeOK
    BY <1>1, <1>2, <1>3, <1>4, <1>5, <1>6 DEF CatalogTypeOK
  <1>8. Bookkeeping
    <2>1. WritesTold
      BY <1>2, FS_EmptySet DEF WritesTold
    <2>2. LoadsTold
      BY <1>5, <1>6 DEF LoadsTold, Single
    <2>3. ListTold
      BY <1>3 DEF ListTold, Single
    <2> QED
      BY <1>4, <2>1, <2>2, <2>3 DEF Bookkeeping
  <1>9. ASSUME ~cList.lookups
        PROVE  Fresh
    <2>1. Active = {first}
      BY <1>3, <1>5, <1>6, <1>9 DEF Active
    <2> QED
      BY <1>3, <1>6, <2>1 DEF Fresh
  <1>10. ASSUME StepsBack
         PROVE  Within
    <2>1. cLoads = {first} /\ ~(cList.page > 1)
      BY <1>1, <1>3, <1>5, <1>10
    <2> QED
      BY <1>6, <2>1 DEF Within
  <1> QED
    BY <1>7, <1>8, <1>9, <1>10 DEF CatalogInv

LEMMA CatalogSteps ==
    ASSUME CatalogInv, [CatalogNext]_catalogVars
    PROVE  CatalogInv'
  <1>1. CASE CatalogUser
    BY <1>1, ControlsKeep, DialogsKeep, WritesKeep DEF CatalogUser
  <1>2. CASE Debounce \/ LookupsAnswered
    BY <1>2, ControlsKeep
  <1>3. CASE CatalogServes
    BY <1>3, ServeLoadKeeps, ServeWriteKeeps, Zenon DEF CatalogServes, Results
  <1>4. CASE CatalogAnswers
    BY <1>4, LoadAnsweredKeeps, WriteAnsweredKeeps DEF CatalogAnswers
  <1>5. CASE UNCHANGED catalogVars
    <2>1. /\ UNCHANGED <<cPage, cList, cDialog, cSubmitting, cLoads, cWrites, cDb, cSent, cExcused>>
      BY <1>5, Zenon DEF catalogVars
    <2>2. /\ CatalogTypeOK /\ WritesTold /\ DialogTold /\ cSent \in Nat /\ cList \in Lists
          /\ cExcused \in BOOLEAN
      BY DEF CatalogInv, Bookkeeping, CatalogTypeOK
    <2>3. OthersTold /\ WritesTold' /\ Oks' = Oks
      BY <2>1, <2>2, WritesShrink DEF OthersTold, DialogTold, CatalogTypeOK, Oks
    <2> QED
      BY <2>1, <2>2, <2>3, StillKeeps
  <1> QED
    BY <1>1, <1>2, <1>3, <1>4, <1>5 DEF CatalogNext

\* On each of the eleven pages, as long as no two list requests of an unguarded page ran at
\* once, no reload was sent for a page left behind and no answer was lost, at most one
\* answer can still change the table, and it is for what the controls show.
THEOREM CatalogIsSound == CatalogSpec => []CatalogInv
  <1>1. CatalogInit => CatalogInv
    BY CatalogStarts
  <1>2. CatalogInv /\ [CatalogNext]_catalogVars => CatalogInv'
    BY CatalogSteps
  <1> QED
    BY <1>1, <1>2, PTL DEF CatalogSpec

\* Once nothing is outstanding, the table shows the server's rows for the page and the
\* filter of the controls, and the list of users is not left on an empty page beyond the
\* first: the pages' reload after each write and the step back of UsersPage.
THEOREM RowsFollowTheServer == CatalogSpec => []SettledRowsAreCurrent
  <1>1. ASSUME CatalogInv
        PROVE  SettledRowsAreCurrent
    <2> SUFFICES ASSUME CatalogSettled, ~cExcused
                 PROVE  /\ cList.rows = Shown
                        /\ StepsBack /\ cList.page > 1 => cList.rows /= {}
      BY Zenon DEF SettledRowsAreCurrent, Shown, StepsBack
    <2>1. cLoads = {} /\ cWrites = {} /\ ~cList.lookups
      BY DEF CatalogSettled
    <2>2. Fresh /\ Active = {} /\ Oks = {} /\ Deleting = {}
      BY <1>1, <2>1 DEF CatalogInv, Active, Oks, Deleting
    <2>3. cList.rows = Shown
      BY <2>2 DEF Fresh, Applying
    <2>4. ASSUME StepsBack, cList.page > 1
          PROVE  cList.rows /= {}
      <3>1. Within /\ CatalogTypeOK
        BY <1>1, <2>4 DEF CatalogInv
      <3>2. Left = Total(cDb, cList.applied)
        <4>1. Cardinality(Deleting) = 0 /\ Total(cDb, cList.applied) \in Nat
          BY <2>2, FS_EmptySet, MatchingFinite
        <4> QED
          BY <4>1 DEF Left
      <3>3. cDb \in [Rows -> Nat] /\ cList.page \in Int
        BY <3>1 DEF CatalogTypeOK, Lists
      <3>4. cList.page <= Total(cDb, cList.applied)
        BY <2>4, <3>1, <3>2 DEF Within
      <3> QED
        BY <2>3, <2>4, <3>3, <3>4, SliceOfRows DEF Shown
    <2> QED
      BY <2>3, <2>4
  <1> QED
    BY <1>1, CatalogIsSound, PTL

-----------------------------------------------------------------------------
(***************************************************************************)
(* The forms.  Each has a table of fields of its own, so the comparison    *)
(* with the request objects is made form by form; KnownGaps is the union.  *)
(***************************************************************************)


\* The forms, by the table they write.
Tables == {"area", "licenseType", "department", "section", "unit", "job", "jobClass",
           "function", "jobPosition", "user"}

\* Every form has a request object.
LEMMA TablesOfForms == DOMAIN Forms = Tables /\ DOMAIN Requests = Tables
  BY DEF Forms, Requests, Tables

\* A gap is a form, one of its fields and a class of text the request object refuses.
LEMMA GapsByForm ==
    \A g : g \in FormGaps <=>
        \E f \in Tables : \E n \in DOMAIN Forms[f] :
            \E c \in Forms[f][n] \ Requests[f][n] : g = <<f, n, c>>
  <1> SUFFICES ASSUME NEW g
        PROVE g \in FormGaps <=>
        \E f \in Tables : \E n \in DOMAIN Forms[f] :
            \E c \in Forms[f][n] \ Requests[f][n] : g = <<f, n, c>>
    OBVIOUS
  <1>1. \A x \in FormFields : x[1] \in Tables /\ x[2] \in DOMAIN Forms[x[1]]
    BY TablesOfForms DEF FormFields
  <1>2. \A f \in Tables : \A n \in DOMAIN Forms[f] : <<f, n>> \in FormFields
    BY TablesOfForms DEF FormFields
  <1>3. ASSUME g \in FormGaps
        PROVE  \E f \in Tables : \E n \in DOMAIN Forms[f] :
                 \E c \in Forms[f][n] \ Requests[f][n] : g = <<f, n, c>>
    <2>1. PICK x \in FormFields : \E c \in Forms[x[1]][x[2]] \ Requests[x[1]][x[2]] :
                                     g = <<x[1], x[2], c>>
      BY <1>3 DEF FormGaps
    <2> QED
      BY <1>1, <2>1
  <1>4. ASSUME NEW f \in Tables, NEW n \in DOMAIN Forms[f],
               NEW c \in Forms[f][n] \ Requests[f][n], g = <<f, n, c>>
        PROVE  g \in FormGaps
    <2> DEFINE x == <<f, n>>
    <2>1. x \in FormFields /\ x[1] = f /\ x[2] = n
      BY <1>2
    <2> QED
      BY <1>4, <2>1 DEF FormGaps
  <1> QED
    BY <1>3, <1>4

\* The known gaps, by form and field.
Known(f, n, c) ==
    \/ f \in Named /\ n = "name" /\ c = "zero"
    \/ f \in Named \cup {"licenseType", "function"} /\ n = "name" /\ c = "wide"
    \/ f \in Described /\ n = "description" /\ c = "wide"
    \/ f = "user" /\ n \in UserNames /\ c \in {"zero", "wide"}
    \/ f = "user" /\ n = "second_name" /\ c = "wide"
    \/ f = "user" /\ n = "email" /\ c \in {"odd", "wide"}
    \/ f = "user" /\ n = "password" /\ c \in {"zero", "odd"}
    \/ f = "jobClass" /\ n = "code" /\ c \in {"zero", "long"}

\* Field n of form f lets a text of class c through, which its request object refuses.
Gap(f, n, c) == n \in DOMAIN Forms[f] /\ c \in Forms[f][n] /\ c \notin Requests[f][n]

LEMMA KnownByForm ==
    \A g : g \in KnownGaps <=> \E f \in Tables : \E n, c : Known(f, n, c) /\ g = <<f, n, c>>
  <1> SUFFICES ASSUME NEW g
               PROVE  g \in KnownGaps <=>
                        \E f \in Tables : \E n, c : Known(f, n, c) /\ g = <<f, n, c>>
    OBVIOUS
  <1>1. g \in KnownGaps <=>
          \/ \E f \in Named : g = <<f, "name", "zero">>
          \/ \E f \in Named \cup {"licenseType", "function"} : g = <<f, "name", "wide">>
          \/ \E f \in Described : g = <<f, "description", "wide">>
          \/ \E n \in UserNames, c \in {"zero", "wide"} : g = <<"user", n, c>>
          \/ g = <<"user", "second_name", "wide">>
          \/ \E c \in {"odd", "wide"} : g = <<"user", "email", c>>
          \/ \E c \in {"zero", "odd"} : g = <<"user", "password", c>>
          \/ \E c \in {"zero", "long"} : g = <<"jobClass", "code", c>>
    BY DEF KnownGaps
  <1>2. /\ Named \cup {"licenseType", "function"} \subseteq Tables
        /\ Described \subseteq Tables /\ "user" \in Tables /\ "jobClass" \in Tables
    BY DEF Named, Described, Tables
  <1> QED
    BY <1>1, <1>2, Zenon DEF Known

\* Form by form, what is refused is what is known to be.
LEMMA AreaGaps == \A n, c : Gap("area", n, c) <=> Known("area", n, c)
  <1>1. Forms["area"] = AreaFormModal /\ Requests["area"] = AreaRequestDTO
    BY DEF Forms, Requests
  <1> QED
    BY <1>1 DEF Gap, Known, Named, Described, UserNames, AreaFormModal, AreaRequestDTO,
                Required, NonEmpty, Optional, Choice, Digits, Password, Email,
                NotEmpty, NotBlank, UpToColumn

LEMMA LicenseTypeGaps == \A n, c : Gap("licenseType", n, c) <=> Known("licenseType", n, c)
  <1>1. Forms["licenseType"] = LicenseTypeFormModal /\ Requests["licenseType"] = CreateLicenseTypeDTO
    BY DEF Forms, Requests
  <1> QED
    BY <1>1 DEF Gap, Known, Named, Described, UserNames, LicenseTypeFormModal, CreateLicenseTypeDTO,
                Required, NonEmpty, Optional, Choice, Digits, Password, Email,
                NotEmpty, NotBlank, UpToColumn

LEMMA DepartmentGaps == \A n, c : Gap("department", n, c) <=> Known("department", n, c)
  <1>1. Forms["department"] = DepartmentFormModal /\ Requests["department"] = CreateDepartmentDTO
    BY DEF Forms, Requests
  <1> QED
    BY <1>1 DEF Gap, Known, Named, Described, UserNames, DepartmentFormModal, CreateDepartmentDTO,
                Required, NonEmpty, Optional, Choice, Digits, Password, Email,
                NotEmpty, NotBlank, UpToColumn

LEMMA SectionGaps == \A n, c : Gap("section", n, c) <=> Known("section", n, c)
  <1>1. Forms["section"] = SectionFormModal /\ Requests["section"] = CreateSectionDTO
    BY DEF Forms, Requests
  <1> QED
    BY <1>1 DEF Gap, Known, Named, Described, UserNames, SectionFormModal, CreateSectionDTO,
                Required, NonEmpty, Optional, Choice, Digits, Password, Email,
                NotEmpty, NotBlank, UpToColumn

LEMMA UnitGaps == \A n, c : Gap("unit", n, c) <=> Known("unit", n, c)
  <1>1. Forms["unit"] = UnitFormModal /\ Requests["unit"] = CreateUnitDTO
    BY DEF Forms, Requests
  <1> QED
    BY <1>1 DEF Gap, Known, Named, Described, UserNames, UnitFormModal, CreateUnitDTO,
                Required, NonEmpty, Optional, Choice, Digits, Password, Email,
                NotEmpty, NotBlank, UpToColumn

LEMMA JobGaps == \A n, c : Gap("job", n, c) <=> Known("job", n, c)
  <1>1. Forms["job"] = JobFormModal /\ Requests["job"] = CreateJobDTO
    BY DEF Forms, Requests
  <1> QED
    BY <1>1 DEF Gap, Known, Named, Described, UserNames, JobFormModal, CreateJobDTO,
                Required, NonEmpty, Optional, Choice, Digits, Password, Email,
                NotEmpty, NotBlank, UpToColumn

LEMMA JobClassGaps == \A n, c : Gap("jobClass", n, c) <=> Known("jobClass", n, c)
  <1>1. Forms["jobClass"] = JobClassFormModal /\ Requests["jobClass"] = CreateJobClassDTO
    BY DEF Forms, Requests
  <1> QED
    BY <1>1 DEF Gap, Known, Named, Described, UserNames, JobClassFormModal, CreateJobClassDTO,
                Required, NonEmpty, Optional, Choice, Digits, Password, Email,
                NotEmpty, NotBlank, UpToColumn

LEMMA FunctionGaps == \A n, c : Gap("function", n, c) <=> Known("function", n, c)
  <1>1. Forms["function"] = FunctionFormModal /\ Requests["function"] = CreateOfficialFunctionDTO
    BY DEF Forms, Requests
  <1> QED
    BY <1>1 DEF Gap, Known, Named, Described, UserNames, FunctionFormModal, CreateOfficialFunctionDTO,
                Required, NonEmpty, Optional, Choice, Digits, Password, Email,
                NotEmpty, NotBlank, UpToColumn

LEMMA JobPositionGaps == \A n, c : Gap("jobPosition", n, c) <=> Known("jobPosition", n, c)
  <1>1. Forms["jobPosition"] = JobPositionFormModal /\ Requests["jobPosition"] = CreateJobPositionDTO
    BY DEF Forms, Requests
  <1> QED
    BY <1>1 DEF Gap, Known, Named, Described, UserNames, JobPositionFormModal, CreateJobPositionDTO,
                Required, NonEmpty, Optional, Choice, Digits, Password, Email,
                NotEmpty, NotBlank, UpToColumn

LEMMA UserGaps == \A n, c : Gap("user", n, c) <=> Known("user", n, c)
  <1>1. Forms["user"] = UserFormModal /\ Requests["user"] = RegisterUserDTO
    BY DEF Forms, Requests
  <1> QED
    BY <1>1 DEF Gap, Known, Named, Described, UserNames, UserFormModal, RegisterUserDTO,
                Required, NonEmpty, Optional, Choice, Digits, Password, Email,
                NotEmpty, NotBlank, UpToColumn

\* The parent a plaza has is the one its form sends back: it is the first one filled,
\* because it is the only one.
LEMMA ParentIsKept == ParentKept
  <1> SUFFICES ASSUME NEW i \in 1..4
               PROVE  LET plaza == [t \in {ParentTypes[j] : j \in 1..4} |->
                                       IF t = ParentTypes[i] THEN "ok" ELSE NoParent]
                      IN  ParentPayload(ParentOf(plaza)) = [t \in {ParentTypes[i]} |-> "ok"]
    BY Zenon DEF ParentKept
  <1> DEFINE plaza == [t \in {ParentTypes[j] : j \in 1..4} |->
                          IF t = ParentTypes[i] THEN "ok" ELSE NoParent]
             filled == {j \in 1..4 : plaza[ParentTypes[j]] /= NoParent}
             first == CHOOSE j \in filled : \A k \in filled : j <= k
  <1>1. \A j \in 1..4 : ParentTypes[j] = ParentTypes[i] <=> j = i
    BY DEF ParentTypes
  <1>2. \A j \in 1..4 : plaza[ParentTypes[j]] = IF j = i THEN "ok" ELSE NoParent
    BY <1>1
  <1>3. "ok" /= NoParent
    BY DEF NoParent
  <1>4. filled = {i} /\ plaza[ParentTypes[i]] = "ok"
    BY <1>2, <1>3
  <1> HIDE DEF plaza
  <1>5. ParentOf(plaza) = IF filled = {} THEN <<"", NoParent>>
                          ELSE <<ParentTypes[first], plaza[ParentTypes[first]]>>
    BY Zenon DEF ParentOf
  <1> HIDE DEF filled
  <1>6. first = i
    BY <1>4
  <1>7. ParentOf(plaza) = <<ParentTypes[i], "ok">>
    BY <1>4, <1>5, <1>6, Zenon
  <1>8. ParentPayload(<<ParentTypes[i], "ok">>) = [t \in {ParentTypes[i]} |-> "ok"]
    BY DEF ParentPayload
  <1> QED
    BY <1>7, <1>8, Zenon DEF plaza

LEMMA FormsOf == \A f \in Tables : \A n, c : Gap(f, n, c) <=> Known(f, n, c)
  BY AreaGaps, LicenseTypeGaps, DepartmentGaps, SectionGaps, UnitGaps, JobGaps, JobClassGaps,
     FunctionGaps, JobPositionGaps, UserGaps DEF Tables

\* The gaps between the forms and the request objects are the known ones.
LEMMA GapsAreKnown == FormGaps = KnownGaps
  <1>1. \A g : g \in FormGaps <=> \E f \in Tables : \E n, c : Gap(f, n, c) /\ g = <<f, n, c>>
    BY GapsByForm, Zenon DEF Gap
  <1>2. \A g : g \in FormGaps <=> g \in KnownGaps
    BY <1>1, FormsOf, KnownByForm, Zenon
  <1> QED
    BY <1>2

\* A form sends nothing that its request object refuses, but for the known gaps, and
\* gives a plaza back under the parent it has (the forms of features/admin, the DTOs).
THEOREM FormsSendWhatIsTaken == CatalogSpec => []FormsSendWhatTheApiTakes
  <1>1. FormsSendWhatTheApiTakes
    BY GapsAreKnown, ParentIsKept DEF FormsSendWhatTheApiTakes
  <1> QED
    BY <1>1, PTL

=============================================================================
