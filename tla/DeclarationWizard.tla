------------------------- MODULE DeclarationWizard -------------------------
(***************************************************************************)
(* The employee's way through a declaration: the instructions and the      *)
(* choice to go on or abandon (EmployeeRecordPage), the plaza and the      *)
(* shift (EmployeeFormPage), the functions (WorkHoursPage), and licenses,  *)
(* rest times and the completion (AdditionalInformationPage).              *)
(*                                                                         *)
(* The last page asks for a justification when the hours it last loaded    *)
(* exceed the shift; it loads again after every entry added or removed,    *)
(* while the button that completes the declaration stays enabled.  The     *)
(* requests of one load are taken together.                                *)
(*                                                                         *)
(* The panels of a page (functions; licenses and rest times) are mounted   *)
(* when its first load is over, and each finds its declaration and its     *)
(* entries on its own; a panel that finds none takes no entry.             *)
(***************************************************************************)
EXTENDS Naturals, FiniteSets

CONSTANTS
    MaxDocs,    \* bound: declarations the user ever makes
    Slack,      \* entries that fit in the shift
    MaxWrites,  \* bound: requests of the user that write
    MaxMoves    \* bound: pages entered

ASSUME WizardAssumption == MaxDocs \in Nat /\ Slack \in Nat

Panels == {"function", "license", "rest"}       \* bound: one entry of each
WDocs == 1..MaxDocs
None == 0
NoPanel == ""

VARIABLES
    wDb,      \* the server: status, justified, entries of each declaration; ghost: clean
    wPage,    \* the mounted page
    wCalls,   \* requests without an answer, those of pages left behind included
    wTimer,   \* the timer that leads home is running
    wStray,   \* for the record: the page's hours may miss an entry added
    wCount    \* requests, writes and moves so far

wizardVars == <<wDb, wPage, wCalls, wTimer, wStray, wCount>>

Over(entries) == Cardinality(entries) > Slack
Incomplete == {d \in WDocs : wDb[d].status = "Incomplete"}
checkIncomplete == IF Incomplete = {} THEN None ELSE CHOOSE d \in Incomplete : TRUE

Fresh(screen, doc) ==
    [screen |-> screen, doc |-> doc, loading |-> screen /= "home", error |-> FALSE,
     isRead |-> FALSE, required |-> FALSE, text |-> FALSE, saving |-> FALSE,
     state |-> doc, at |-> [panel \in Panels |-> None], listed |-> {}, key |-> 0]

Reads == {"check", "open", "list"}
NewCall(kind, doc, panel) ==
    [n |-> wCount.sent, kind |-> kind, doc |-> doc, panel |-> panel, step |-> "sent",
     over |-> FALSE, entries |-> {}, orphan |-> FALSE]

\* What a page asks for when it is mounted, on the declaration of location.state.
FirstCalls(screen, doc) ==
    CASE screen \in {"record", "form"} -> {NewCall("check", None, NoPanel)}
      [] screen \in {"hours", "extra"} -> {NewCall("open", doc, NoPanel)}
      [] screen = "home" -> {}

\* The panels a page shows: an error takes the place of the last page's.
PanelsOf(page) ==
    IF page.loading THEN {}
    ELSE IF page.screen = "hours" THEN {"function"}
    ELSE IF page.screen = "extra" /\ ~page.error THEN {"license", "rest"} ELSE {}

\* What the panels ask for that a page shows and the one before it did not.
Mounted(page) ==
    {NewCall("list", page.state, panel) : panel \in IF wPage.loading THEN PanelsOf(page) ELSE {}}

\* Unmounting: answers to come change nothing on screen, writes go on.
Orphans == {[c EXCEPT !.orphan = TRUE] : c \in {d \in wCalls : d.kind \notin Reads}}

navigate(screen, doc, calls) ==
    /\ wPage' = [Fresh(screen, doc) EXCEPT !.key = wCount.sent]
    /\ wCalls' = calls \cup FirstCalls(screen, doc)
    /\ wStray' = FALSE

WizardInit ==
    /\ wDb \in [WDocs -> [status : {"none"}, text : {FALSE}, entries : {{}}, clean : {FALSE}]
                   \cup [status : {"Incomplete"}, text : {FALSE}, entries : {{}, {"rest"}},
                         clean : {FALSE}]]
    /\ Cardinality(Incomplete) <= 1
    /\ wPage = Fresh("record", None)
    /\ wCount = [sent |-> 1, writes |-> 0, moves |-> 0]
    /\ wCalls = {[n |-> 0, kind |-> "check", doc |-> None, panel |-> NoPanel, step |-> "sent",
                  over |-> FALSE, entries |-> {}, orphan |-> FALSE]}
    /\ wTimer = FALSE
    /\ wStray = FALSE

(***************************************************************************)
(* The user.                                                               *)
(***************************************************************************)
Move(screen, doc) ==
    /\ wCount.moves < MaxMoves
    /\ navigate(screen, doc, Orphans)
    /\ wCount' = [wCount EXCEPT !.moves = @ + 1, !.sent = @ + 1]
    /\ UNCHANGED <<wDb, wTimer>>

On(screen) == wPage.screen = screen /\ ~wPage.loading

MarkRead ==
    /\ On("record") /\ wPage.doc = None /\ ~wPage.isRead
    /\ wPage' = [wPage EXCEPT !.isRead = TRUE]
    /\ UNCHANGED <<wDb, wCalls, wTimer, wStray, wCount>>

handleBegin == On("record") /\ (wPage.doc /= None \/ wPage.isRead) /\ Move("form", None)

Write(kind, doc, panel) ==
    /\ wCount.writes < MaxWrites
    /\ wCalls' = wCalls \cup {NewCall(kind, doc, panel)}
    /\ wCount' = [wCount EXCEPT !.writes = @ + 1, !.sent = @ + 1]

handleAbandon ==
    /\ On("record") /\ wPage.doc /= None
    /\ Write("abandon", wPage.doc, NoPanel)
    /\ UNCHANGED <<wDb, wPage, wTimer, wStray>>

\* Goes on with an incomplete declaration, or creates one; nothing stops a second
\* click while the first is on its way.
handleNext ==
    \/ On("form") /\ wPage.doc /= None /\ Move("hours", wPage.doc)
    \/ /\ On("form") /\ wPage.doc = None
       /\ Write("create", None, NoPanel)
       /\ UNCHANGED <<wDb, wPage, wTimer, wStray>>

handleContinue == On("hours") /\ ~wPage.error /\ Move("extra", wPage.doc)

Back == \/ wPage.screen = "extra" /\ On("extra") /\ Move("hours", None)
        \/ On("hours") /\ Move("form", None)
        \/ On("form") /\ Move("home", None)
        \/ wPage.screen = "home" /\ Move("record", None)

\* The panels: one addition at a time in each, removals as often as clicked.
Ready(panel) == panel \in PanelsOf(wPage) /\ wPage.at[panel] /= None

handleAdd(panel) ==
    /\ Ready(panel) /\ panel \notin wPage.listed
    /\ ~\E c \in wCalls : c.kind = "add" /\ c.panel = panel /\ ~c.orphan
    /\ Write("add", wPage.at[panel], panel)
    /\ UNCHANGED <<wDb, wPage, wTimer, wStray>>

remove(panel) ==
    /\ Ready(panel) /\ panel \in wPage.listed
    /\ Write("remove", wPage.at[panel], panel)
    /\ UNCHANGED <<wDb, wPage, wTimer, wStray>>

TypeJustification ==
    /\ On("extra") /\ ~wPage.error /\ wPage.required /\ ~wPage.text
    /\ wPage' = [wPage EXCEPT !.text = TRUE]
    /\ UNCHANGED <<wDb, wCalls, wTimer, wStray, wCount>>

\* For the record: no addition, load of the hours asked for last or earlier
\* completion is on its way, and the hours on the page miss none.
UpToDate ==
    /\ ~wStray
    /\ ~\E c \in wCalls : c.kind \in {"add", "complete"} \/ (c.kind = "open" /\ c.n = wPage.key)

handleComplete ==
    /\ On("extra") /\ ~wPage.error /\ ~wPage.saving
    /\ wPage.required => wPage.text
    /\ Write(IF wPage.text THEN "justify" ELSE "complete", wPage.doc, NoPanel)
    /\ wPage' = [wPage EXCEPT !.saving = TRUE]
    /\ wDb' = [wDb EXCEPT ![wPage.doc].clean =
                 IF wDb[wPage.doc].status = "Incomplete" THEN UpToDate ELSE @]
    /\ UNCHANGED <<wTimer, wStray>>

(***************************************************************************)
(* The server.                                                             *)
(***************************************************************************)
Served(c, step) == wCalls' = (wCalls \ {c}) \cup {[c EXCEPT !.step = step]}

ServeRead(c) ==
    LET doc == IF c.doc = None THEN checkIncomplete ELSE c.doc IN
    /\ c.kind \in Reads
    /\ wCalls' = (wCalls \ {c}) \cup
         {[c EXCEPT !.step = "ok", !.doc = doc,
                    !.over = doc /= None /\ c.kind = "open" /\ Over(wDb[doc].entries),
                    !.entries = IF doc = None \/ c.kind /= "list" THEN {}
                                ELSE wDb[doc].entries \cap {c.panel}]}
    /\ UNCHANGED wDb

\* Writes the server takes: all of them hold to the status.
Accepts(c) ==
    IF c.kind = "create" THEN Incomplete = {}
    ELSE /\ wDb[c.doc].status = "Incomplete"
         /\ c.kind = "remove" => c.panel \in wDb[c.doc].entries

\* An entry added meanwhile is the record's reason to expect nothing.
Effect(c) ==
    CASE c.kind = "abandon"  -> [wDb EXCEPT ![c.doc].status = "Abandoned"]
      [] c.kind = "add"      -> [wDb EXCEPT ![c.doc].entries = @ \cup {c.panel}, ![c.doc].clean = FALSE]
      [] c.kind = "remove"   -> [wDb EXCEPT ![c.doc].entries = @ \ {c.panel}]
      [] c.kind = "justify"  -> [wDb EXCEPT ![c.doc].text = TRUE]
      [] c.kind = "complete" -> [wDb EXCEPT ![c.doc].status = "Completed"]

ServeWrite(c) ==
    /\ c.kind \notin Reads
    /\ \/ /\ Accepts(c) /\ c.kind /= "create"
          /\ wDb' = Effect(c) /\ Served(c, "ok")
       \/ /\ Accepts(c) /\ c.kind = "create"
          /\ \E d \in {e \in WDocs : wDb[e].status = "none"} :
               /\ wDb' = [wDb EXCEPT ![d].status = "Incomplete"]
               /\ wCalls' = (wCalls \ {c}) \cup {[c EXCEPT !.step = "ok", !.doc = d]}
       \/ Served(c, "refused") /\ UNCHANGED wDb

WizardServes(c) ==
    /\ c.step = "sent"
    /\ ServeRead(c) \/ ServeWrite(c)
    /\ UNCHANGED <<wPage, wTimer, wStray, wCount>>

(***************************************************************************)
(* The answers.                                                            *)
(***************************************************************************)
ReadAnswered(c) ==
    /\ c.kind \in Reads /\ c.step = "ok"
    /\ wPage' =
         CASE c.kind = "check" -> [wPage EXCEPT !.loading = FALSE, !.doc = c.doc]
           [] c.kind = "list"  -> [wPage EXCEPT !.at[c.panel] = c.doc, !.listed = @ \cup c.entries]
           [] c.kind = "open"  -> [wPage EXCEPT !.loading = FALSE, !.doc = c.doc,
                                     !.error = @ \/ c.doc = None, !.required = c.over,
                                     !.text = @ /\ c.over]
    /\ wCalls' = (wCalls \ {c}) \cup Mounted(wPage')
    /\ UNCHANGED <<wDb, wTimer, wStray, wCount>>

\* Only the load of the last refreshKey reports its failure; a panel whose list
\* fails says so, and the page goes on without it.
ReadFails(c) ==
    /\ c.kind \in Reads
    /\ wPage' = IF c.kind = "check" THEN [wPage EXCEPT !.loading = FALSE]
                ELSE IF c.kind = "open" /\ c.n = wPage.key
                     THEN [wPage EXCEPT !.loading = FALSE, !.error = TRUE]
                ELSE wPage
    /\ wCalls' = (wCalls \ {c}) \cup Mounted(wPage')
    /\ UNCHANGED <<wDb, wTimer, wStray, wCount>>

\* The panels do not tell the page that an entry was added or removed.
handleDataChange_NoReload(rest, page) ==
    wCalls' = rest /\ wPage' = page /\ UNCHANGED wCount

\* onDataChange: refreshKey + 1 loads the page's data again.
handleDataChange(rest, page) ==
    IF page.screen = "extra"
    THEN /\ wCalls' = rest \cup {NewCall("open", page.doc, NoPanel)}
         /\ wPage' = [page EXCEPT !.key = wCount.sent]
         /\ wCount' = [wCount EXCEPT !.sent = @ + 1]
    ELSE wCalls' = rest /\ wPage' = page /\ UNCHANGED wCount

\* A load sent before an entry was added may be answered after the one sent now.
EntryAnswered(c) ==
    /\ c.kind \in {"add", "remove"} /\ c.step = "ok" /\ ~c.orphan
    /\ handleDataChange(wCalls \ {c},
         [wPage EXCEPT !.listed = IF c.kind = "add" THEN @ \cup {c.panel} ELSE @ \ {c.panel}])
    /\ wStray' = ((wStray \/ c.kind = "add") /\ \E d \in wCalls : d.kind = "open")
    /\ UNCHANGED <<wDb, wTimer>>

\* createDeclaration leads to the next page, wherever the user is by then.
Created(c) ==
    /\ c.kind = "create" /\ c.step = "ok"
    /\ LET others == wCalls \ {c} IN
       navigate("hours", c.doc, {[d EXCEPT !.orphan = TRUE] : d \in {e \in others : e.kind \notin Reads}})
    /\ wCount' = [wCount EXCEPT !.sent = @ + 1]
    /\ UNCHANGED <<wDb, wTimer>>

\* handleComplete goes on after its page is left.
Justified(c) ==
    /\ c.kind = "justify" /\ c.step = "ok"
    /\ wCalls' = (wCalls \ {c}) \cup {[c EXCEPT !.kind = "complete", !.step = "sent"]}
    /\ UNCHANGED <<wDb, wPage, wTimer, wStray, wCount>>

Completed(c) ==
    /\ c.kind = "complete" /\ c.step = "ok"
    /\ wCalls' = wCalls \ {c}
    /\ wPage' = [wPage EXCEPT !.saving = @ /\ c.orphan]
    /\ wTimer' = TRUE
    /\ UNCHANGED <<wDb, wStray, wCount>>

Abandoned(c) ==
    /\ c.kind = "abandon" /\ c.step = "ok"
    /\ wCalls' = wCalls \ {c}
    /\ wPage' = IF c.orphan THEN wPage ELSE [wPage EXCEPT !.doc = None]
    /\ UNCHANGED <<wDb, wTimer, wStray, wCount>>

\* Refused, lost, or of a page that is gone.
WriteEnds(c) ==
    /\ c.kind \notin Reads
    /\ c.step = "ok" /\ c.orphan => c.kind \in {"add", "remove"}
    /\ wCalls' = wCalls \ {c}
    /\ wPage' = IF c.orphan \/ c.kind \notin {"justify", "complete"} THEN wPage
                ELSE [wPage EXCEPT !.saving = FALSE]
    /\ wStray' = (wStray \/ (c.kind = "add" /\ c.step = "ok"))
    /\ UNCHANGED <<wDb, wTimer, wCount>>

WizardAnswered(c) ==
    \/ ReadAnswered(c) \/ ReadFails(c) \/ EntryAnswered(c) \/ Created(c) \/ Justified(c)
    \/ Completed(c) \/ Abandoned(c)
    \/ c.step /= "sent" /\ WriteEnds(c)

TimerFires ==
    /\ wTimer
    /\ navigate("home", None, Orphans)
    /\ wTimer' = FALSE
    /\ wCount' = [wCount EXCEPT !.sent = @ + 1]
    /\ UNCHANGED wDb

WizardUser ==
    \/ MarkRead \/ handleBegin \/ handleAbandon \/ handleNext \/ handleContinue \/ Back
    \/ \E panel \in Panels : handleAdd(panel) \/ remove(panel)
    \/ TypeJustification \/ handleComplete

WizardAnswers == TimerFires \/ \E c \in wCalls : WizardServes(c) \/ WizardAnswered(c)

WizardNext == WizardUser \/ WizardAnswers

WizardSpec == WizardInit /\ [][WizardNext]_wizardVars /\ WF_wizardVars(WizardAnswers)

\* A declaration whose entries exceed the shift is completed with a justification,
\* whatever is removed, refused or left meanwhile: unless the button was pressed with
\* an addition, the load after it or an earlier completion on its way, or after an
\* addition whose answer was lost or whose load overlapped an earlier one.
CompletedMeansJustified ==
    \A d \in WDocs : wDb[d].status = "Completed" /\ wDb[d].clean /\ Over(wDb[d].entries)
                        => wDb[d].text

=============================================================================
