------------------------- MODULE DeclarationReview -------------------------
(***************************************************************************)
(* The administrator's declarations page and its details dialog: the list, *)
(* the full declaration fetched for one row, the rest times and licenses   *)
(* fetched for the declaration shown, and the change of its status.        *)
(*                                                                         *)
(* Each of those is a request; the page keeps no order between them.       *)
(***************************************************************************)
EXTENDS Naturals, FiniteSets

CONSTANTS
    Docs,         \* declarations on the server, 1..n, the newest first
    ServerCap,    \* rows the server returns at most for one request
    MaxAsked,     \* bound: details asked for and changes confirmed
    MaxOthers     \* bound: status changes by somebody else

ASSUME ReviewAssumption == Docs \subseteq Nat \ {0}

Server == INSTANCE StatusTransitions

NoDoc == 0
NoStatus == ""                                 \* none chosen
Nothing == <<NoDoc, NoStatus>>                 \* no declaration

\* A completed declaration could be approved without a revision.
STATUS_TRANSITIONS_Skips ==
    [Incomplete |-> {"Completed", "Abandoned"}, Revision |-> {"Approved", "Rejected"},
     Approved |-> {"Rejected"}, Rejected |-> {}, Abandoned |-> {},
     Completed |-> {"Revision", "Approved"}]

\* declarationConstants.ts: what the dialog offers for a status.
STATUS_TRANSITIONS ==
    [Incomplete |-> {"Completed", "Abandoned"}, Revision |-> {"Approved", "Rejected"},
     Approved |-> {"Rejected"}, Rejected |-> {}, Abandoned |-> {}, Completed |-> {"Revision"}]

validNextStatuses(shown) == IF shown = Nothing THEN {} ELSE STATUS_TRANSITIONS[shown[2]]

canChangeStatus(shown) ==
    shown[2] \in {"Completed", "Revision"} /\ validNextStatuses(shown) /= {}

VARIABLES
    rDb,       \* the server: the status of each declaration
    rList,     \* loading, rows (declaration, status), status filter, page, ?open= link
    rModal,    \* open, selected declaration, the dialog's own copy, loading
    rDialog,   \* the status dialog: open, chosen status, changing, and when it was opened
    rExtra,    \* whose rest times and licenses are shown, and whose are awaited
    rViews,    \* details asked for and not answered
    rLoads,    \* list requests not answered, with the declaration to fetch afterwards
    rChange,   \* the change of status in progress, as a set of at most one
    rAsked, rOthers

reviewVars == <<rDb, rList, rModal, rDialog, rExtra, rViews, rLoads, rChange, rAsked, rOthers>>

NoDialog == [open |-> FALSE, to |-> NoStatus, changing |-> FALSE, on |-> NoDoc, clean |-> FALSE]

ReviewInit ==
    /\ rDb = [d \in Docs |-> IF d = 1 THEN "Completed" ELSE "Revision"]
    /\ \E link \in Docs \cup {NoDoc}, filter \in {"all", "Revision"} :
          rList = [loading |-> TRUE, rows |-> {}, filter |-> filter, page |-> 1, link |-> link]
    /\ rModal = [open |-> FALSE, selected |-> Nothing, local |-> Nothing, loading |-> FALSE]
    /\ rDialog = NoDialog
    /\ rExtra = [shown |-> NoDoc, awaited |-> NoDoc]
    /\ rViews = {}
    /\ rLoads = {[n |-> 0, then |-> NoDoc]}
    /\ rChange = {}
    /\ rAsked = 0 /\ rOthers = 0

(***************************************************************************)
(* The list.                                                               *)
(***************************************************************************)
filteredDeclarations == {r \in rList.rows : rList.filter \in {"all", r[2]}}
declarationPages == IF filteredDeclarations = {} THEN 1 ELSE Cardinality(filteredDeclarations)

\* One row on each page, in the order of the list.
paginatedDeclarations ==
    {r \in filteredDeclarations :
        Cardinality({o \in filteredDeclarations : o[1] <= r[1]}) = rList.page}

ViewDetail(doc) ==
    /\ rViews' = rViews \cup {[n |-> rAsked, doc |-> doc, refresh |-> FALSE]}
    /\ rAsked' = rAsked + 1
    /\ rModal' = [rModal EXCEPT !.loading = TRUE]

\* The effect that opens the declaration of the link once the list is there.
OpenLinked(list) ==
    IF list.link = NoDoc \/ list.rows = {}
    THEN rList' = list /\ UNCHANGED <<rViews, rAsked, rModal>>
    ELSE /\ rList' = [list EXCEPT !.link = NoDoc]
         /\ IF list.link \in {r[1] : r \in list.rows} THEN ViewDetail(list.link)
            ELSE UNCHANGED <<rViews, rAsked, rModal>>

\* The rows after an answer: those of before when the request failed.
Fetched(failed) ==
    IF failed THEN rList.rows
    ELSE {<<d, rDb[d]>> : d \in {e \in Docs : e <= ServerCap}}

loadDeclarations(l, failed) ==
    /\ rLoads' = rLoads \ {l}
    /\ OpenLinked([rList EXCEPT !.loading = FALSE, !.rows = Fetched(failed)])
    /\ UNCHANGED <<rDb, rDialog, rExtra, rChange, rOthers>>

\* The reload of a change is followed by a fetch of the declaration that was
\* selected when the change was confirmed.
Reloaded(l, failed) ==
    /\ rLoads' = rLoads \ {l}
    /\ rList' = [rList EXCEPT !.loading = FALSE, !.rows = Fetched(failed)]
    /\ rViews' = rViews \cup {[n |-> l.n, doc |-> l.then, refresh |-> TRUE]}
    /\ UNCHANGED <<rDb, rModal, rDialog, rExtra, rChange, rAsked, rOthers>>

LoadAnswered(l, failed) ==
    \/ l.then = NoDoc /\ loadDeclarations(l, failed)
    \/ l.then /= NoDoc /\ Reloaded(l, failed)

SetFilter(filter) ==
    /\ ~rModal.open /\ filter /= rList.filter
    /\ rList' = [rList EXCEPT !.filter = filter, !.page = 1]
    /\ UNCHANGED <<rDb, rModal, rDialog, rExtra, rViews, rLoads, rChange, rAsked, rOthers>>

handlePageChange(page) ==
    /\ ~rModal.open /\ page \in 1..declarationPages /\ page /= rList.page /\ declarationPages > 1
    /\ rList' = [rList EXCEPT !.page = page]
    /\ UNCHANGED <<rDb, rModal, rDialog, rExtra, rViews, rLoads, rChange, rAsked, rOthers>>

\* The rows under the dialog can still be clicked.
handleViewDetail_BehindTheDialog(row) ==
    /\ ~rList.loading /\ row \in paginatedDeclarations /\ rAsked < MaxAsked
    /\ ViewDetail(row[1])
    /\ UNCHANGED <<rDb, rList, rDialog, rExtra, rLoads, rChange, rOthers>>

handleViewDetail(row) ==
    /\ ~rModal.open /\ ~rList.loading /\ row \in paginatedDeclarations /\ rAsked < MaxAsked
    /\ ViewDetail(row[1])
    /\ UNCHANGED <<rDb, rList, rDialog, rExtra, rLoads, rChange, rOthers>>

(***************************************************************************)
(* The details dialog.                                                     *)
(***************************************************************************)
\* The declaration is missing among the dependencies of the effect.
FetchExtra_OpenOnly(modal) ==
    rExtra' = IF ~modal.open THEN [shown |-> NoDoc, awaited |-> NoDoc]
              ELSE IF rModal.open THEN rExtra
              ELSE [rExtra EXCEPT !.awaited = modal.local[1]]

\* The effect on [open, declaration]: ask again, ignore what was awaited.
FetchExtra(modal) ==
    rExtra' = IF ~modal.open THEN [shown |-> NoDoc, awaited |-> NoDoc]
              ELSE IF rModal.open /\ rModal.local[1] = modal.local[1] THEN rExtra
              ELSE [rExtra EXCEPT !.awaited = modal.local[1]]

SetModal(modal) ==
    /\ rModal' = modal
    /\ FetchExtra(modal)

\* Closing also clears the status dialog, a change in progress or not.
CloseModal ==
    /\ SetModal([rModal EXCEPT !.open = FALSE, !.selected = Nothing])
    /\ rDialog' = NoDialog

handleCloseDetail ==
    /\ rModal.open /\ ~rDialog.open
    /\ CloseModal
    /\ UNCHANGED <<rDb, rList, rViews, rLoads, rChange, rAsked, rOthers>>

\* The answer of a row's details opens the dialog, that of a refresh does not.
ViewAnswered(v, failed) ==
    /\ rViews' = rViews \ {v}
    /\ LET full == <<v.doc, rDb[v.doc]>> IN
       \/ /\ ~v.refresh /\ ~failed
          /\ SetModal([open |-> TRUE, selected |-> full, local |-> full, loading |-> FALSE])
          /\ UNCHANGED rDialog
       \/ /\ ~v.refresh /\ failed
          /\ rModal' = [rModal EXCEPT !.loading = FALSE]
          /\ UNCHANGED <<rExtra, rDialog>>
       \/ /\ v.refresh /\ ~failed
          /\ SetModal([rModal EXCEPT !.selected = full, !.local = full])
          /\ UNCHANGED rDialog
       \/ v.refresh /\ failed /\ CloseModal
    /\ UNCHANGED <<rDb, rList, rLoads, rChange, rAsked, rOthers>>

\* Either request failing empties both lists.
ExtraAnswered(failed) ==
    /\ rExtra.awaited /= NoDoc
    /\ rExtra' = [shown |-> IF failed THEN NoDoc ELSE rExtra.awaited, awaited |-> NoDoc]
    /\ UNCHANGED <<rDb, rList, rModal, rDialog, rViews, rLoads, rChange, rAsked, rOthers>>

(***************************************************************************)
(* Changing the status.                                                    *)
(***************************************************************************)
handleOpenStatusChange ==
    /\ rModal.open /\ ~rDialog.open /\ canChangeStatus(rModal.local)
    /\ rDialog' = [NoDialog EXCEPT !.open = TRUE, !.changing = rDialog.changing,
                     !.on = rModal.local[1], !.clean = rViews = {} /\ rLoads = {}]
    /\ UNCHANGED <<rDb, rList, rModal, rExtra, rViews, rLoads, rChange, rAsked, rOthers>>

SelectStatus(status) ==
    /\ rDialog.open /\ ~rDialog.changing
    /\ status \in validNextStatuses(rModal.local) \ {rDialog.to}
    /\ rDialog' = [rDialog EXCEPT !.to = status]
    /\ UNCHANGED <<rDb, rList, rModal, rExtra, rViews, rLoads, rChange, rAsked, rOthers>>

handleCloseStatusDialog ==
    /\ rDialog.open /\ ~rDialog.changing
    /\ rDialog' = NoDialog
    /\ UNCHANGED <<rDb, rList, rModal, rExtra, rViews, rLoads, rChange, rAsked, rOthers>>

handleStatusChangeConfirm ==
    /\ rDialog.open /\ ~rDialog.changing /\ rDialog.to /= NoStatus /\ rAsked < MaxAsked
    /\ rDialog' = [rDialog EXCEPT !.changing = TRUE]
    /\ rChange' = rChange \cup
         {[n |-> rAsked, doc |-> rModal.local[1], shown |-> rModal.local[2], to |-> rDialog.to,
           on |-> rDialog.on, clean |-> rDialog.clean, then |-> rModal.selected[1],
           step |-> "change", offered |-> rDialog.to \in validNextStatuses(rModal.local)]}
    /\ rAsked' = rAsked + 1
    /\ UNCHANGED <<rDb, rList, rModal, rExtra, rViews, rLoads, rOthers>>

\* changeStatus at the server: the transition is checked against the row.
ChangeServed(c) ==
    /\ c.step = "change"
    /\ IF Server!isValidTransition(rDb[c.doc], c.to)
       THEN /\ rDb' = [rDb EXCEPT ![c.doc] = c.to]
            /\ rChange' = (rChange \ {c}) \cup {[c EXCEPT !.step = "get"]}
       ELSE /\ rChange' = (rChange \ {c}) \cup {[c EXCEPT !.step = "refused"]}
            /\ UNCHANGED rDb
    /\ UNCHANGED <<rList, rModal, rDialog, rExtra, rViews, rLoads, rAsked, rOthers>>

\* The declaration read again after the change; then the page reloads.
ChangeShown(c) ==
    /\ c.step = "get"
    /\ rChange' = rChange \ {c}
    /\ SetModal([rModal EXCEPT !.local = <<c.doc, rDb[c.doc]>>])
    /\ rDialog' = [rDialog EXCEPT !.open = FALSE, !.changing = FALSE]
    /\ rList' = [rList EXCEPT !.loading = TRUE]
    /\ rLoads' = rLoads \cup {[n |-> c.n, then |-> c.then]}
    /\ UNCHANGED <<rDb, rViews, rAsked, rOthers>>

\* The finally block is missing.
ChangeFails_KeepsChanging(c) ==
    /\ rChange' = rChange \ {c}
    /\ UNCHANGED <<rDb, rList, rModal, rDialog, rExtra, rViews, rLoads, rAsked, rOthers>>

\* Refused, or either answer lost: the dialog stays open with the error.
ChangeFails(c) ==
    /\ rChange' = rChange \ {c}
    /\ rDialog' = [rDialog EXCEPT !.changing = FALSE]
    /\ UNCHANGED <<rDb, rList, rModal, rExtra, rViews, rLoads, rAsked, rOthers>>

SomebodyElse(doc, status) ==
    /\ rOthers < MaxOthers /\ Server!isValidTransition(rDb[doc], status)
    /\ rDb' = [rDb EXCEPT ![doc] = status]
    /\ rOthers' = rOthers + 1
    /\ UNCHANGED <<rList, rModal, rDialog, rExtra, rViews, rLoads, rChange, rAsked>>

ReviewAnswers ==
    \/ \E l \in rLoads, failed \in BOOLEAN : LoadAnswered(l, failed)
    \/ \E v \in rViews, failed \in BOOLEAN : ViewAnswered(v, failed)
    \/ \E failed \in BOOLEAN : ExtraAnswered(failed)
    \/ \E c \in rChange : ChangeServed(c) \/ ChangeShown(c) \/ ChangeFails(c)

ReviewUser ==
    \/ \E filter \in {"all", "Revision"} : SetFilter(filter)
    \/ \E page \in Docs : handlePageChange(page)
    \/ \E row \in rList.rows : handleViewDetail(row)
    \/ handleCloseDetail \/ handleOpenStatusChange \/ handleCloseStatusDialog
    \/ \E status \in Server!Statuses : SelectStatus(status)
    \/ handleStatusChangeConfirm

ReviewNext ==
    \/ ReviewUser
    \/ ReviewAnswers
    \/ \E doc \in Docs, status \in Server!Statuses : SomebodyElse(doc, status)

ReviewSpec ==
    /\ ReviewInit
    /\ [][ReviewNext]_reviewVars
    /\ WF_reviewVars(ReviewAnswers)

\* The status chosen for one declaration is sent for that declaration, although
\* a late answer may replace the one the dialog shows: it never happens to a
\* dialog opened when no list or details were awaited.
ReviewedIsWhatIsChanged == \A c \in rChange : c.clean => c.doc = c.on

\* The server refuses a change the dialog offered only when somebody else changed
\* the declaration: what the client offers is what the server takes.
RefusedOnlyWhenOutdated ==
    [][\A c \in rChange' \ rChange :
          c.step = "refused" /\ c.offered => rDb[c.doc] /= c.shown]_reviewVars

\* Rest times and licenses shown (and exported) are those of the declaration
\* shown, or none, once nothing is awaited.
ExtrasBelongToTheShown ==
    rModal.open /\ rExtra.awaited = NoDoc => rExtra.shown \in {NoDoc, rModal.local[1]}

=============================================================================
