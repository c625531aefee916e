------------------------- MODULE ReportedFunctions -------------------------
(***************************************************************************)
(* The functions page of the employee: the functions of the catalogues,    *)
(* the reports made of them so far, the dialog that makes or changes one,  *)
(* and the button that removes one.                                        *)
(*                                                                         *)
(* The dialogs share isSubmitting and can be closed with Escape while they *)
(* submit; the button waits for nothing.                                   *)
(***************************************************************************)
EXTENDS Naturals, FiniteSets

CONSTANTS
    MaxFnWrites,   \* bound: writes the user asks for
    MaxMounts      \* bound: times the page is entered again

\* bound: one function of the catalogue, and one the user may register
Items == {"official", "custom"}

Closed == ""   \* no dialog
NoItem == ""   \* a load is of no function

VARIABLES
    fnDb,       \* the server: rows of the declaration and the functions registered
    fnPage,     \* loading, declaration known, functions listed, reports by function
    fnDialog,   \* Closed, "new", or the function reported
    fnSubmitting,
    fnCalls,    \* requests without an answer
    fnCount,    \* writes and mounts so far
    fnExcused   \* for the record: an update and a removal of one function overlapped,
                \* an answer was lost, or the page was entered while a write went on

fnVars == <<fnDb, fnPage, fnDialog, fnSubmitting, fnCalls, fnCount, fnExcused>>

NoReport == [id |-> 0, at |-> 0, over |-> FALSE]
Loading == [loading |-> TRUE, known |-> FALSE, listed |-> {},
            reports |-> [i \in Items |-> NoReport]]

Writes == {c \in fnCalls : c.kind /= "load"}
FnCall(kind, item, id, over) ==
    [n |-> fnCount.writes + 1, kind |-> kind, item |-> item, id |-> id, over |-> over,
     step |-> "sent", mount |-> fnCount.mounts]

\* id, and the write that gave the row its values; over: overtime is reported.
FnInit ==
    /\ \E rows \in SUBSET {[id |-> 1, item |-> "official", at |-> 0, over |-> TRUE]} :
          fnDb = [rows |-> rows, next |-> 2, functions |-> {"official"}]
    /\ fnPage = Loading
    /\ fnDialog = Closed /\ fnSubmitting = FALSE
    /\ fnCount = [writes |-> 0, mounts |-> 0]
    /\ fnCalls = {[n |-> 0, kind |-> "load", item |-> NoItem, id |-> 0, over |-> FALSE,
                   step |-> "sent", mount |-> 0]}
    /\ fnExcused = FALSE

FnOverlap ==
    fnExcused' = \/ fnExcused
                 \/ \E c, d \in fnCalls' : c.kind = "update" /\ d.kind = "delete" /\ c.id = d.id

(***************************************************************************)
(* The user.                                                               *)
(***************************************************************************)
Usable == ~fnPage.loading /\ fnPage.known

openReport(item) ==
    /\ Usable /\ fnDialog = Closed /\ item \in fnPage.listed
    /\ fnDialog' = item
    /\ UNCHANGED <<fnDb, fnPage, fnSubmitting, fnCalls, fnCount, fnExcused>>

openCreate ==
    /\ Usable /\ fnDialog = Closed
    /\ fnDialog' = "new"
    /\ UNCHANGED <<fnDb, fnPage, fnSubmitting, fnCalls, fnCount, fnExcused>>

onClose ==
    /\ fnDialog /= Closed
    /\ fnDialog' = Closed
    /\ UNCHANGED <<fnDb, fnPage, fnSubmitting, fnCalls, fnCount, fnExcused>>

Send(call) ==
    /\ fnCount.writes < MaxFnWrites
    /\ fnCalls' = fnCalls \cup {call}
    /\ fnCount' = [fnCount EXCEPT !.writes = @ + 1]
    /\ FnOverlap
    /\ UNCHANGED <<fnDb, fnPage, fnDialog>>

\* The button stays enabled while a report is submitted.
submitReport_Unguarded(over) ==
    LET existing == fnPage.reports[fnDialog] IN
    /\ fnDialog \in Items
    /\ fnSubmitting' = TRUE
    /\ Send(FnCall(IF existing = NoReport THEN "create" ELSE "update",
                   fnDialog, existing.id, over))

submitReport(over) ==
    LET existing == fnPage.reports[fnDialog] IN
    /\ fnDialog \in Items /\ ~fnSubmitting
    /\ fnSubmitting' = TRUE
    /\ Send(FnCall(IF existing = NoReport THEN "create" ELSE "update",
                   fnDialog, existing.id, over))

removeReport(item) ==
    /\ Usable /\ fnDialog = Closed /\ fnPage.reports[item] /= NoReport
    /\ Send(FnCall("delete", item, fnPage.reports[item].id, FALSE))
    /\ UNCHANGED fnSubmitting

\* bound: the user registers one function
handleCreateCustom ==
    /\ fnDialog = "new" /\ ~fnSubmitting /\ "custom" \notin fnDb.functions
    /\ fnSubmitting' = TRUE
    /\ Send(FnCall("register", "custom", 0, FALSE))

\* Two rows of one function: left by a creation whose answer was lost.
Doubled == \E r, q \in fnDb.rows : r /= q /\ r.item = q.item

\* Another page and back: what was on its way goes on, unheard.
Mount ==
    /\ fnCount.mounts < MaxMounts
    /\ fnCount' = [fnCount EXCEPT !.mounts = @ + 1]
    /\ fnCalls' = {c \in fnCalls : c.kind /= "load"} \cup
                    {[FnCall("load", NoItem, 0, FALSE) EXCEPT !.mount = fnCount.mounts + 1]}
    /\ fnPage' = Loading
    /\ fnDialog' = Closed /\ fnSubmitting' = FALSE
    /\ fnExcused' = (Writes /= {} \/ Doubled)
    /\ UNCHANGED fnDb

(***************************************************************************)
(* The server.                                                             *)
(***************************************************************************)
FnReply(c, step, id) == fnCalls' = (fnCalls \ {c}) \cup {[c EXCEPT !.step = step, !.id = id]}

createJobFunction(c) ==
    /\ c.kind = "create"
    /\ fnDb' = [fnDb EXCEPT !.rows = @ \cup {[id |-> fnDb.next, item |-> c.item, at |-> c.n,
                                              over |-> c.over]},
                            !.next = @ + 1]
    /\ FnReply(c, "ok", fnDb.next)

\* A report without overtime leaves the column out, and the row keeps what it has.
updateJobFunction(c) ==
    /\ c.kind = "update"
    /\ \E row \in fnDb.rows :
         /\ row.id = c.id
         /\ fnDb' = [fnDb EXCEPT !.rows = (@ \ {row}) \cup
                       {[row EXCEPT !.at = c.n, !.over = @ \/ c.over]}]
    /\ FnReply(c, "ok", c.id)

deleteJobFunction(c) ==
    /\ c.kind = "delete"
    /\ \E row \in fnDb.rows : row.id = c.id /\ fnDb' = [fnDb EXCEPT !.rows = @ \ {row}]
    /\ FnReply(c, "ok", c.id)

\* No such row any more, or the declaration is not incomplete.
FnRefused(c) ==
    /\ c.kind \in {"create", "update", "delete"}
    /\ FnReply(c, "failed", c.id) /\ UNCHANGED fnDb

createCustomFunction(c) ==
    /\ c.kind = "register"
    /\ fnDb' = [fnDb EXCEPT !.functions = @ \cup {c.item}]
    /\ FnReply(c, "ok", 0)

FnServes(c) ==
    /\ c.step = "sent"
    /\ \/ createJobFunction(c) \/ updateJobFunction(c) \/ deleteJobFunction(c)
       \/ FnRefused(c) \/ createCustomFunction(c)
    /\ UNCHANGED <<fnPage, fnDialog, fnSubmitting, fnCount, fnExcused>>

(***************************************************************************)
(* The answers.                                                            *)
(***************************************************************************)
\* Of two rows of one function the page keeps one.
ReportOf(i) ==
    LET rows == {r \in fnDb.rows : r.item = i} IN
    IF rows = {} THEN NoReport
    ELSE LET last == CHOOSE r \in rows : \A o \in rows : o.id <= r.id
         IN  [id |-> last.id, at |-> last.at, over |-> last.over]

\* The declaration with its functions and both catalogues.
LoadAnswer(c) ==
    /\ c.kind = "load"
    /\ fnPage' = [loading |-> FALSE, known |-> TRUE, listed |-> fnDb.functions,
                  reports |-> [i \in Items |-> ReportOf(i)]]
    /\ UNCHANGED <<fnDialog, fnSubmitting, fnExcused>>

LoadFailed(c) ==
    /\ c.kind = "load"
    /\ fnPage' = [fnPage EXCEPT !.loading = FALSE]
    /\ UNCHANGED <<fnDialog, fnSubmitting, fnExcused>>

\* Whatever dialog is open by then closes.
ReportAnswer(c) ==
    /\ c.kind \in {"create", "update"} /\ c.step = "ok"
    /\ fnPage' = [fnPage EXCEPT !.reports[c.item] = [id |-> c.id, at |-> c.n, over |-> c.over]]
    /\ fnDialog' = IF fnDialog \in Items THEN Closed ELSE fnDialog
    /\ fnSubmitting' = FALSE
    /\ UNCHANGED fnExcused

RemoveAnswer(c) ==
    /\ c.kind = "delete" /\ c.step = "ok"
    /\ fnPage' = [fnPage EXCEPT !.reports[c.item] = NoReport]
    /\ UNCHANGED <<fnDialog, fnSubmitting, fnExcused>>

RegisterAnswer(c) ==
    /\ c.kind = "register" /\ c.step = "ok"
    /\ fnPage' = [fnPage EXCEPT !.listed = @ \cup {c.item}]
    /\ fnDialog' = IF fnDialog = "new" THEN Closed ELSE fnDialog
    /\ fnSubmitting' = FALSE
    /\ UNCHANGED fnExcused

FnFailed(c, lost) ==
    /\ c.kind /= "load"
    /\ c.step = "failed" \/ lost
    /\ fnSubmitting' = (fnSubmitting /\ c.kind = "delete")
    /\ fnExcused' = (fnExcused \/ lost)
    /\ UNCHANGED <<fnPage, fnDialog>>

FnUnheard(c) ==
    /\ c.mount < fnCount.mounts /\ c.step /= "sent"
    /\ UNCHANGED <<fnPage, fnDialog, fnSubmitting, fnExcused>>

FnAnswered(c) ==
    /\ fnCalls' = fnCalls \ {c}
    /\ IF c.mount < fnCount.mounts THEN FnUnheard(c)
       ELSE \/ LoadAnswer(c) \/ LoadFailed(c) \/ ReportAnswer(c) \/ RemoveAnswer(c)
            \/ RegisterAnswer(c) \/ FnFailed(c, FALSE)
            \/ FnFailed(c, TRUE)
    /\ UNCHANGED <<fnDb, fnCount>>

FnUser ==
    \/ \E item \in Items : openReport(item) \/ removeReport(item)
    \/ \E over \in BOOLEAN : submitReport(over)
    \/ openCreate \/ onClose \/ handleCreateCustom \/ Mount

FnAnswers == \E c \in fnCalls : FnServes(c) \/ FnAnswered(c)

FnNext == FnUser \/ FnAnswers

FnSpec == FnInit /\ [][FnNext]_fnVars /\ WF_fnVars(FnAnswers)

\* With nothing on its way the reports shown are the rows of the declaration, one
\* for one and as last written, unless an update and a removal of one function
\* overlapped, an answer was lost (and a creation then repeated), or the page was
\* entered during a write.  The overtime of a row may only be the larger: a report cannot take it back.
ReportsAreTheServers ==
    Usable /\ fnCalls = {} /\ ~fnExcused =>
        LET Shown == {i \in Items : fnPage.reports[i] /= NoReport} IN
        /\ Cardinality(fnDb.rows) = Cardinality(Shown)
        /\ \A i \in Shown : \E row \in fnDb.rows :
              /\ row.item = i /\ row.id = fnPage.reports[i].id
              /\ row.at = fnPage.reports[i].at
              /\ fnPage.reports[i].over => row.over

=============================================================================
