---------------------------- MODULE CatalogPages ----------------------------
(***************************************************************************)
(* The administration pages that list, create, edit and delete one kind of *)
(* record: areas, units, sections, departments, jobs, job classes, license *)
(* types, official and custom functions, plazas and users.                 *)
(*                                                                         *)
(* They are eleven copies of one component that differ in a few decisions: *)
(* when the search resets the page, what happens first after a write, what *)
(* a failed delete leaves open, whether a late answer is ignored.  A page  *)
(* is a record of those decisions; the actions read it.                    *)
(***************************************************************************)
EXTENDS Integers, FiniteSets, ClientForms

CONSTANTS
    MaxRows,   \* the server holds rows 1..MaxRows at most, one on each page
    MaxSent    \* bound: requests sent by the page after the first

ASSUME CatalogAssumption == MaxRows \in Nat /\ MaxSent \in Nat

Rows  == 1..MaxRows
NoRow == 0
Terms == {"", "one"}            \* "one" matches row 1 only

(***************************************************************************)
(* What the lists and toolbars offer and the services can call.            *)
(***************************************************************************)
AreaList           == {"view", "edit", "delete"}
UnitList           == {"view", "edit", "delete"}
SectionList        == {"view", "edit", "delete"}
DepartmentList     == {"view", "edit", "delete"}
JobList            == {"view", "edit", "delete"}
JobClassList       == {"view", "edit", "delete"}
LicenseTypeList    == {"view", "edit", "delete"}
FunctionList       == {"view", "edit", "delete"}
CustomFunctionList == {"view"}
JobPositionList    == {"view", "edit", "delete"}
UserList           == {"view", "role", "delete"}

AreaToolbar           == {"search", "create"}
UnitToolbar           == {"search", "create"}
SectionToolbar        == {"search", "create"}
DepartmentToolbar     == {"search", "create"}
JobToolbar            == {"search", "create"}
JobClassToolbar       == {"search", "create"}
LicenseTypeToolbar    == {"search", "create"}
FunctionToolbar       == {"search", "create"}
CustomFunctionToolbar == {"search"}
JobPositionToolbar    == {"search", "create"}
UserToolbar           == {"search", "create"}

areaService             == {"create", "edit", "delete"}
unitService             == {"create", "edit", "delete"}
sectionService          == {"create", "edit", "delete"}
departmentService       == {"create", "edit", "delete"}
jobService              == {"create", "edit", "delete"}
jobClassService         == {"create", "edit", "delete"}
licenseTypeService      == {"create", "edit", "delete"}
officialFunctionService == {"create", "edit", "confirm", "delete"}
customFunctionService   == {}
jobPositionService      == {"create", "edit", "delete"}
userService             == {"create", "role", "delete"}

(***************************************************************************)
(* The pages.  In the order of the fields: the debounced search goes back  *)
(* to page 1 although the text has not changed; answers of an earlier page *)
(* or filter are ignored; the list waits for the choices of its form; the  *)
(* list is reloaded before the form closes; the page a new row is shown    *)
(* on; deleting marks the page as submitting; a failed delete closes the   *)
(* alert; what follows a delete.                                           *)
(***************************************************************************)
Page(offers, calls, always, guarded, lookups, reloadFirst, afterCreate,
     deleteMarks, errorCloses, afterDelete) ==
    [offers |-> offers, calls |-> calls, always |-> always, guarded |-> guarded,
     lookups |-> lookups, reloadFirst |-> reloadFirst, afterCreate |-> afterCreate,
     deleteMarks |-> deleteMarks, errorCloses |-> errorCloses, afterDelete |-> afterDelete]

AreasPage == Page(AreaList \cup AreaToolbar, areaService,
                  TRUE, FALSE, FALSE, TRUE, "same", TRUE, FALSE, "await")
UnitsPage == Page(UnitList \cup UnitToolbar, unitService,
                  TRUE, FALSE, FALSE, TRUE, "same", TRUE, FALSE, "await")
SectionsPage == Page(SectionList \cup SectionToolbar, sectionService,
                     TRUE, FALSE, FALSE, FALSE, "same", TRUE, TRUE, "reload")
DepartmentsPage == Page(DepartmentList \cup DepartmentToolbar, departmentService,
                        FALSE, FALSE, FALSE, FALSE, "same", FALSE, TRUE, "reload")
JobPage == Page(JobList \cup JobToolbar, jobService,
                FALSE, FALSE, FALSE, FALSE, "same", TRUE, TRUE, "reload")
JobClassPage == Page(JobClassList \cup JobClassToolbar, jobClassService,
                     FALSE, FALSE, FALSE, FALSE, "same", TRUE, TRUE, "reload")
LicenseTypesPage == Page(LicenseTypeList \cup LicenseTypeToolbar, licenseTypeService,
                         TRUE, FALSE, FALSE, TRUE, "same", TRUE, FALSE, "await")
FunctionsPage == Page(FunctionList \cup FunctionToolbar, officialFunctionService,
                      FALSE, FALSE, FALSE, FALSE, "same", TRUE, TRUE, "reload")
CustomFunctionsPage == Page(CustomFunctionList \cup CustomFunctionToolbar,
                            customFunctionService,
                            FALSE, TRUE, FALSE, FALSE, "same", FALSE, FALSE, "reload")
JobPositionsPage == Page(JobPositionList \cup JobPositionToolbar, jobPositionService,
                         TRUE, FALSE, TRUE, FALSE, "same", TRUE, TRUE, "reload")
UsersPage == Page(UserList \cup UserToolbar, userService,
                  TRUE, FALSE, FALSE, FALSE, "first", TRUE, FALSE, "step back")

Pages == {AreasPage, UnitsPage, SectionsPage, DepartmentsPage, JobPage, JobClassPage,
          LicenseTypesPage, FunctionsPage, CustomFunctionsPage, JobPositionsPage, UsersPage}

PageOf == [area |-> AreasPage, unit |-> UnitsPage, section |-> SectionsPage,
           department |-> DepartmentsPage, job |-> JobPage, jobClass |-> JobClassPage,
           licenseType |-> LicenseTypesPage, function |-> FunctionsPage,
           jobPosition |-> JobPositionsPage, user |-> UsersPage]

VARIABLES
    cPage,        \* which page is mounted
    cList,        \* page, search box, debounce timer, applied filter, loading, rows, total
    cDialog,      \* the open form, and the rows of the delete, role and warning dialogs
    cSubmitting,  \* isSubmitting
    cLoads,       \* list requests without an answer
    cWrites,      \* writes without an answer
    cDb,          \* the server: the version of each row, 0 when there is none
    cSent,        \* requests sent so far
    cExcused      \* answers may have come out of order, one was lost, or a row was
                  \* deleted from a page that showed none

catalogVars == <<cPage, cList, cDialog, cSubmitting, cLoads, cWrites, cDb, cSent, cExcused>>

(***************************************************************************)
(* The server's side of a list request; a page below 1 is read as 1.       *)
(***************************************************************************)
Matching(db, term) == {r \in Rows : db[r] > 0 /\ (term = "one" => r = 1)}
Total(db, term) == Cardinality(Matching(db, term))
Slice(db, page, term) ==
    LET p == IF page < 1 THEN 1 ELSE page
    IN  {<<r, db[r]>> : r \in {q \in Matching(db, term) :
            Cardinality({o \in Matching(db, term) : o <= q}) = p}}

NewLoad(page, term, after) ==
    [n |-> cSent, page |-> page, term |-> term, served |-> FALSE,
     rows |-> {}, total |-> 0, active |-> TRUE, after |-> after]

\* load...() with the page and filter of the render that calls it.  An excuse
\* ends with a request for the first page that nothing can overtake.
Load(list, page, term, after, late) ==
    /\ cSent' = cSent + 1
    /\ cLoads' = (IF cPage.guarded THEN {[l EXCEPT !.active = FALSE] : l \in cLoads}
                  ELSE cLoads) \cup {NewLoad(page, term, after)}
    /\ cList' = [list EXCEPT !.loading = @ \/ ~cPage.guarded]
    /\ cExcused' = \/ cLoads /= {} /\ ~cPage.guarded
                   \/ cExcused /\ page > 1
                   \/ late

\* The filter is missing among the dependencies of the effect.
Show_PageOnly(list, late) ==
    IF list.page = cList.page \/ list.lookups
    THEN cList' = list /\ cExcused' = (cExcused \/ late) /\ UNCHANGED <<cLoads, cSent>>
    ELSE Load(list, list.page, list.applied, "none", late)

\* The effect on [page, appliedFilter]: it runs when one of them changes.
Show(list, late) ==
    IF <<list.page, list.applied>> = <<cList.page, cList.applied>> \/ list.lookups
    THEN cList' = list /\ cExcused' = (cExcused \/ late) /\ UNCHANGED <<cLoads, cSent>>
    ELSE Load(list, list.page, list.applied, "none", late)

CatalogInit ==
    /\ cPage \in Pages
    /\ cDb = [r \in Rows |-> 1]
    /\ cList = [page |-> 1, search |-> "", timer |-> TRUE, applied |-> "",
                loading |-> ~cPage.lookups, lookups |-> cPage.lookups, rows |-> {}, total |-> 1]
    /\ cDialog = [form |-> "closed", row |-> NoRow, delete |-> NoRow,
                  role |-> NoRow, pending |-> NoRow]
    /\ cSubmitting = FALSE
    /\ cSent = 0
    /\ cLoads = IF cPage.lookups THEN {}
                ELSE {[n |-> -1, page |-> 1, term |-> "", served |-> FALSE, rows |-> {},
                       total |-> 0, active |-> TRUE, after |-> "none"]}
    /\ cWrites = {}
    /\ cExcused = FALSE

(***************************************************************************)
(* The search box, its timer and the page buttons.                         *)
(***************************************************************************)
NoDialog == /\ cDialog.form = "closed"
            /\ {cDialog.delete, cDialog.role, cDialog.pending} = {NoRow}

Type(term) ==
    /\ NoDialog /\ term /= cList.search /\ cSent < MaxSent
    /\ cList' = [cList EXCEPT !.search = term, !.timer = TRUE]
    /\ UNCHANGED <<cPage, cDialog, cSubmitting, cLoads, cWrites, cDb, cSent, cExcused>>

Debounce ==
    /\ cList.timer
    /\ Show(IF cPage.always \/ cList.search /= cList.applied
            THEN [cList EXCEPT !.timer = FALSE, !.page = 1, !.applied = cList.search]
            ELSE [cList EXCEPT !.timer = FALSE], FALSE)
    /\ UNCHANGED <<cPage, cDialog, cSubmitting, cWrites, cDb>>

ChoosePage(page) ==
    /\ cSent < MaxSent
    /\ NoDialog /\ cList.total > 1 /\ page \in 1..cList.total
    /\ Show([cList EXCEPT !.page = page], FALSE)
    /\ UNCHANGED <<cPage, cDialog, cSubmitting, cWrites, cDb>>

LookupsAnswered ==
    /\ cList.lookups
    /\ Load([cList EXCEPT !.lookups = FALSE], cList.page, cList.applied, "none", FALSE)
    /\ UNCHANGED <<cPage, cDialog, cSubmitting, cWrites, cDb>>

(***************************************************************************)
(* The dialogs.  A row can be acted on while the table shows it; Escape    *)
(* closes a dialog at any time, the form's buttons wait for isSubmitting,  *)
(* those of the alerts do not.                                             *)
(***************************************************************************)
Listed(row) == ~cList.loading /\ row \in {r[1] : r \in cList.rows}

OpenForm(mode, row) ==
    /\ NoDialog /\ mode \in cPage.offers
    /\ IF mode = "create" THEN row = NoRow ELSE Listed(row)
    /\ cDialog' = [cDialog EXCEPT !.form = mode, !.row = row]

OpenDelete(row) ==
    /\ NoDialog /\ "delete" \in cPage.offers /\ Listed(row)
    /\ cDialog' = [cDialog EXCEPT !.delete = row]

OpenRole(row) ==
    /\ NoDialog /\ "role" \in cPage.offers /\ Listed(row)
    /\ cDialog' = [cDialog EXCEPT !.role = row]

ClosedForm == [cDialog EXCEPT !.form = "closed", !.row = NoRow]

CloseDialog ==
    \/ cDialog.form /= "closed" /\ cDialog' = ClosedForm
    \/ cDialog.delete /= NoRow /\ cDialog' = [cDialog EXCEPT !.delete = NoRow]
    \/ cDialog.role /= NoRow /\ cDialog' = [cDialog EXCEPT !.role = NoRow]
    \/ cDialog.pending /= NoRow /\ cDialog' = [cDialog EXCEPT !.pending = NoRow]

Dialogs ==
    /\ \/ \E row \in Rows \cup {NoRow}, mode \in {"create", "edit", "view"} : OpenForm(mode, row)
       \/ \E row \in Rows : OpenDelete(row) \/ OpenRole(row)
       \/ CloseDialog
    /\ UNCHANGED <<cPage, cList, cSubmitting, cLoads, cWrites, cDb, cSent, cExcused>>

Write(kind, row) ==
    /\ kind \in cPage.calls /\ cSent < MaxSent
    /\ cSent' = cSent + 1
    /\ cWrites' = cWrites \cup
         {[n |-> cSent, kind |-> kind, row |-> row, page |-> cList.page,
           term |-> cList.applied, count |-> Cardinality(cList.rows), result |-> "none"]}
    /\ cSubmitting' = (cSubmitting \/ kind /= "delete" \/ cPage.deleteMarks)
    /\ UNCHANGED <<cPage, cList, cDialog, cLoads, cDb, cExcused>>

handleConfirm == /\ cDialog.form \in {"create", "edit"} /\ ~cSubmitting
                 /\ Write(cDialog.form, cDialog.row)
handleDelete  == cDialog.delete /= NoRow /\ Write("delete", cDialog.delete)
handleChangeRole == /\ cDialog.role /= NoRow /\ ~cSubmitting
                    /\ Write("role", cDialog.role)
confirmPendingUpdate == cDialog.pending /= NoRow /\ Write("confirm", cDialog.pending)

(***************************************************************************)
(* The server.                                                             *)
(***************************************************************************)
ServeLoad(l) ==
    /\ ~l.served
    /\ cLoads' = (cLoads \ {l}) \cup
         {[l EXCEPT !.served = TRUE, !.rows = Slice(cDb, l.page, l.term),
                    !.total = Total(cDb, l.term)]}
    /\ UNCHANGED <<cPage, cList, cDialog, cSubmitting, cWrites, cDb, cSent, cExcused>>

Applied(w) ==
    IF w.kind = "create"
    THEN {[cDb EXCEPT ![r] = 1] : r \in {q \in Rows : cDb[q] = 0}}
    ELSE IF cDb[w.row] = 0 THEN {}
    ELSE IF w.kind = "delete" THEN {[cDb EXCEPT ![w.row] = 0]}
    ELSE {[cDb EXCEPT ![w.row] = @ + 1]}

\* An official function that declarations use is changed only with confirm.
ServeWrite(w, result) ==
    /\ w.result = "none"
    /\ \/ result = "ok" /\ cDb' \in Applied(w)
       \/ result = "refused" /\ UNCHANGED cDb
       \/ result = "in use" /\ w.kind = "edit" /\ "confirm" \in cPage.calls /\ UNCHANGED cDb
    /\ cWrites' = (cWrites \ {w}) \cup {[w EXCEPT !.result = result]}
    /\ UNCHANGED <<cPage, cList, cDialog, cSubmitting, cLoads, cSent, cExcused>>

(***************************************************************************)
(* The answers.                                                            *)
(***************************************************************************)
LoadAnswered(l, failed) ==
    /\ l.served \/ failed
    /\ cLoads' = cLoads \ {l}
    /\ cList' = IF ~l.active THEN cList
                ELSE IF failed THEN [cList EXCEPT !.loading = FALSE]
                ELSE [cList EXCEPT !.loading = FALSE, !.rows = l.rows, !.total = l.total]
    /\ cExcused' = (cExcused \/ (failed /\ l.active))
    /\ cDialog' = IF l.after = "close" THEN ClosedForm ELSE cDialog
    /\ cSubmitting' = (cSubmitting /\ l.after = "none")
    /\ UNCHANGED <<cPage, cWrites, cDb, cSent>>

\* The page or the filter is no longer the one of the render that sent w.
Moved(w) == <<w.page, w.term>> /= <<cList.page, cList.applied>>

\* What follows a write that succeeded.
Reload(w, after) ==
    /\ Load(cList, w.page, w.term, after, Moved(w))
    /\ cSubmitting' = IF after /= "none" THEN cSubmitting
                      ELSE cSubmitting /\ w.kind = "delete" /\ ~cPage.deleteMarks

FormSaved(w) ==
    IF cPage.reloadFirst THEN UNCHANGED cDialog /\ Reload(w, "close")
    ELSE /\ cDialog' = ClosedForm
         /\ IF cPage.afterCreate = "same" THEN Reload(w, "none")
            ELSE IF w.page /= 1 THEN Show([cList EXCEPT !.page = 1], Moved(w)) /\ cSubmitting' = FALSE
            ELSE Reload(w, "done")

RowDeleted(w) ==
    /\ cDialog' = [cDialog EXCEPT !.delete = NoRow]
    /\ \/ cPage.afterDelete = "reload" /\ Reload(w, "none")
       \/ cPage.afterDelete = "await" /\ Reload(w, "done")
       \/ /\ cPage.afterDelete = "step back"
          /\ IF w.count = 1 /\ w.page > 1
             THEN Show([cList EXCEPT !.page = @ - 1], Moved(w)) /\ cSubmitting' = FALSE
             ELSE /\ Load(cList, w.page, w.term, "done", Moved(w) \/ w.count = 0)
                  /\ UNCHANGED cSubmitting

WriteSucceeds(w) ==
    \/ w.kind \in {"create", "edit"} /\ FormSaved(w)
    \/ w.kind = "delete" /\ RowDeleted(w)
    \/ w.kind = "role" /\ cDialog' = [cDialog EXCEPT !.role = NoRow] /\ Reload(w, "done")
    \/ w.kind = "confirm" /\ cDialog' = [cDialog EXCEPT !.pending = NoRow] /\ Reload(w, "none")

\* setIsSubmitting(false) stands in the try block instead of finally.
WriteFails_KeepsSubmitting(w, result) ==
    /\ cDialog' =
         IF w.kind = "delete" /\ cPage.errorCloses THEN [cDialog EXCEPT !.delete = NoRow]
         ELSE IF result = "in use" THEN [ClosedForm EXCEPT !.pending = w.row]
         ELSE cDialog
    /\ UNCHANGED <<cList, cLoads, cSent, cSubmitting>>

WriteFails(w, result) ==
    /\ cDialog' =
         IF w.kind = "delete" /\ cPage.errorCloses THEN [cDialog EXCEPT !.delete = NoRow]
         ELSE IF w.kind = "confirm" THEN [cDialog EXCEPT !.pending = NoRow]
         ELSE IF result = "in use" THEN [ClosedForm EXCEPT !.pending = w.row]
         ELSE cDialog
    /\ cSubmitting' = (cSubmitting /\ w.kind = "delete" /\ ~cPage.deleteMarks)
    /\ UNCHANGED <<cList, cLoads, cSent>>

WriteAnswered(w, lost) ==
    /\ w.result /= "none" \/ lost
    /\ cWrites' = cWrites \ {w}
    /\ \/ ~lost /\ w.result = "ok" /\ WriteSucceeds(w)
       \/ ~lost /\ w.result /= "ok" /\ WriteFails(w, w.result) /\ UNCHANGED cExcused
       \/ lost /\ WriteFails(w, "lost") /\ cExcused' = (cExcused \/ w.result = "ok")
    /\ UNCHANGED <<cPage, cDb>>

CatalogUser ==
    \/ \E term \in Terms : Type(term)
    \/ \E page \in 1..MaxRows : ChoosePage(page)
    \/ Dialogs
    \/ handleConfirm \/ handleDelete \/ handleChangeRole \/ confirmPendingUpdate

CatalogServes ==
    \/ \E l \in cLoads : ServeLoad(l)
    \/ \E w \in cWrites, result \in {"ok", "refused", "in use"} : ServeWrite(w, result)

CatalogAnswers ==
    \/ \E l \in cLoads, failed \in BOOLEAN : LoadAnswered(l, failed)
    \/ \E w \in cWrites, lost \in BOOLEAN : WriteAnswered(w, lost)

CatalogNext == CatalogUser \/ Debounce \/ LookupsAnswered \/ CatalogServes \/ CatalogAnswers

\* Every request is answered or fails, every timer fires.
CatalogFairness == /\ WF_catalogVars(Debounce)
                   /\ WF_catalogVars(LookupsAnswered)
                   /\ WF_catalogVars(CatalogServes \/ CatalogAnswers)

CatalogSettled == cLoads = {} /\ cWrites = {} /\ ~cList.lookups

\* Once nothing is outstanding, the rows on screen are the server's rows for
\* the page and the filter the controls show, whatever was typed, saved and
\* deleted meanwhile, unless two list requests of an unguarded page ran at once,
\* a reload was sent for the page of an earlier render, or an answer was lost.
\* Deleting the last row of a page beyond the first steps back (UsersPage): a list
\* of users does not rest on an empty page, where it has no page buttons, unless
\* another delete was sent from the page when it was empty already.
SettledRowsAreCurrent ==
    CatalogSettled /\ ~cExcused =>
        /\ cList.rows = Slice(cDb, cList.page, cList.applied)
        /\ cPage.afterDelete = "step back" /\ cList.page > 1 => cList.rows /= {}

\* While a form is open it sends only values the API takes, except for those of
\* KnownGaps: no form leaves out a field that its request object requires.  A plaza
\* that is opened and saved again stays under the parent it has.
FormsSendWhatTheApiTakes ==
    cDialog.form \in {"create", "edit"} =>
        /\ \A gap \in (FormGaps \ KnownGaps) \cup (KnownGaps \ FormGaps) :
              PageOf[gap[1]] /= cPage
        /\ PageOf["jobPosition"] = cPage => ParentKept

\* The skeleton gives way to rows and a submitted dialog is released again.
CatalogSettles ==
    /\ cList.loading ~> ~cList.loading
    /\ cSubmitting ~> ~cSubmitting

CatalogSpec == CatalogInit /\ [][CatalogNext]_catalogVars /\ CatalogFairness

=============================================================================
