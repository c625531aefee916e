---------------------------- MODULE ClientPages ----------------------------
(***************************************************************************)
(* The screens of the client that are not catalogues.  The routes of       *)
(* App.tsx mount one of them at a time, over the session of the tab: here  *)
(* the one mounted is chosen once, and only it moves.                      *)
(***************************************************************************)
EXTENDS DeclarationReview, ActivityLogPage, DeclarationWizard, ReportedFunctions,
        WorkedHours, ClientSession

VARIABLE mounted

pageVars == <<mounted, reviewVars, logVars, wizardVars, fnVars, sessionVars>>

Routes == {"declarations", "logs", "wizard", "functions", "session"}

\* A screen that is not mounted stays in one of its initial states.
PagesInit ==
    /\ mounted \in Routes
    /\ ReviewInit /\ LogInit /\ WizardInit /\ FnInit /\ SessionInit
    /\ mounted = "declarations" \/ (rList.link = NoDoc /\ rList.filter = "all")
    /\ mounted = "wizard" \/ Incomplete = {}
    /\ mounted = "functions" \/ fnDb.rows = {}
    /\ mounted = "session" \/ sStored = [pair |-> 1, user |-> TRUE]

Review(Step) ==
    /\ mounted = "declarations" /\ Step
    /\ UNCHANGED <<mounted, logVars, wizardVars, fnVars, sessionVars>>

Logs(Step) ==
    /\ mounted = "logs" /\ Step
    /\ UNCHANGED <<mounted, reviewVars, wizardVars, fnVars, sessionVars>>

Wizard(Step) ==
    /\ mounted = "wizard" /\ Step
    /\ UNCHANGED <<mounted, reviewVars, logVars, fnVars, sessionVars>>

Functions(Step) ==
    /\ mounted = "functions" /\ Step
    /\ UNCHANGED <<mounted, reviewVars, logVars, wizardVars, sessionVars>>

Session(Step) ==
    /\ mounted = "session" /\ Step
    /\ UNCHANGED <<mounted, reviewVars, logVars, wizardVars, fnVars>>

PagesNext ==
    \/ Review(ReviewNext) \/ Logs(LogNext) \/ Wizard(WizardNext) \/ Functions(FnNext)
    \/ Session(SessionNext)

PagesSpec ==
    /\ PagesInit
    /\ [][PagesNext]_pageVars
    /\ WF_pageVars(Review(ReviewAnswers))
    /\ WF_pageVars(Logs(LogAnswers))
    /\ WF_pageVars(Wizard(WizardAnswers))
    /\ WF_pageVars(Functions(FnAnswers))
    /\ WF_pageVars(Session(SessionAnswers))
    /\ WF_pageVars(Session(Load(FALSE)))

\* On every screen that computes hours: up to the rounding of each sum, the total shown
\* while functions are reported is the one the declaration is later judged by, unless a
\* quarterly or half-yearly function counts; a justification is asked for when it and
\* the entries are over the shift; and an accepted shift lasts what its kind demands,
\* unless its minutes differ or it was given from its end to its start.
HoursAgree ==
    mounted \in {"declarations", "wizard", "functions"} =>
        TotalsAgree /\ JustifiedWhenOver /\ ShiftsWeighTheirHours

\* A status dialog that changes, the details of an entry, a page that loads or
\* saves, a report that is submitted, a request queued behind a refresh, or the
\* first screen of the tab.
Waiting ==
    \/ rDialog.changing \/ lDetail.loading \/ wPage.saving \/ fnSubmitting \/ Held /= {}
    \/ mounted = "wizard" /\ wPage.loading
    \/ mounted = "session" /\ sInit.loading

\* Nothing a user waits for goes on for ever, whatever fails or is closed meanwhile.
PagesSettle == Waiting ~> ~Waiting

=============================================================================
