-------------------------- MODULE ActivityLogPage --------------------------
(***************************************************************************)
(* The administrator's activity page: the newest entries of the log,       *)
(* collected page by page while entries are still being written, filtered  *)
(* in the browser, and the detail of one entry fetched when it is opened.  *)
(***************************************************************************)
EXTENDS Naturals, Sequences, FiniteSets

CONSTANTS
    FirstLogs,    \* entries in the log at the start; entry n is the n-th written
    MaxLogs,      \* bound: entries ever written
    LogPage,      \* entries in one answer of the server (pageSize)
    SampleSize,   \* entries the page wants (max)
    MaxOpened     \* bound: refreshes and details asked for

ASSUME LogAssumption == FirstLogs \in Nat /\ LogPage \in Nat \ {0} /\ SampleSize \in Nat

NoLog == 0

(***************************************************************************)
(* activityLog.ts.  What an entry says follows from its action.            *)
(***************************************************************************)
\* splitAction and activityMeta, over the actions the sample uses: the n-th
\* entry has the n-th of them, again and again.
Actions == << <<"declaration", "create">>, <<"user", "login">>, <<"area", "delete">> >>
actionOf(log) == Actions[((log - 1) % 3) + 1]

severityFor(verb, level) ==
    IF level \in {"ERROR", "CRITICAL"} \/ verb = "delete" THEN "HIGH"
    ELSE IF verb \in {"login", "logout"} THEN "LOW" ELSE "MEDIUM"

activityMeta(log) ==
    [entitySlug |-> actionOf(log)[1], verb |-> actionOf(log)[2],
     severity |-> severityFor(actionOf(log)[2], "INFO")]

VARIABLES
    lCount,     \* the server: entries 1..lCount, the last one the newest
    lLoad,      \* the page-by-page collection: next page, last page, rows so far
    lRows,      \* the rows of the page, newest first
    lFilter,    \* severity filter and page
    lDetail,    \* selected entry, the full entry shown with it, detailLoading
    lGets,      \* details asked for and not answered
    lOpened

logVars == <<lCount, lLoad, lRows, lFilter, lDetail, lGets, lOpened>>

Idle == [next |-> 0, last |-> 0, rows |-> <<>>]

LogInit ==
    /\ lCount = FirstLogs
    /\ lLoad = [Idle EXCEPT !.next = 1]
    /\ lRows = <<>>
    /\ lFilter = [severity |-> "", page |-> 1]
    /\ lDetail = [selected |-> NoLog, detail |-> NoLog, loading |-> FALSE]
    /\ lGets = {} /\ lOpened = 0

loading == lLoad.next /= 0

\* The server writes an entry whenever somebody does something.  The list is in the
\* order of created_at, taken here to be that of the numbers and of the commits.
LogWritten ==
    /\ lCount < MaxLogs
    /\ lCount' = lCount + 1
    /\ UNCHANGED <<lLoad, lRows, lFilter, lDetail, lGets, lOpened>>

(***************************************************************************)
(* listRecent: one request after another, each with the page numbers of    *)
(* the log as it is then, up to the last page the first answer named.      *)
(***************************************************************************)
ServerPage(page) ==
    LET skipped == (page - 1) * LogPage
        size    == IF lCount < skipped THEN 0
                   ELSE IF lCount - skipped < LogPage THEN lCount - skipped ELSE LogPage
    IN  [i \in 1..size |-> lCount - skipped - i + 1]

PagesOf(count) == (count + LogPage - 1) \div LogPage
Least(a, b) == IF a < b THEN a ELSE b

listRecent ==
    /\ loading
    /\ LET rows  == lLoad.rows \o ServerPage(lLoad.next)
           last  == IF lLoad.next > 1 THEN lLoad.last
                    ELSE Least(PagesOf(lCount), PagesOf(SampleSize))
       IN  IF lLoad.next >= last
           THEN /\ lRows' = SubSeq(rows, 1, Least(SampleSize, Len(rows)))
                /\ lLoad' = Idle
           ELSE /\ lLoad' = [next |-> lLoad.next + 1, last |-> last, rows |-> rows]
                /\ UNCHANGED lRows
    /\ UNCHANGED <<lCount, lFilter, lDetail, lGets, lOpened>>

\* A page that cannot be had is left out, and the collection goes on.
loadFails_SkipsThePage ==
    /\ loading
    /\ lLoad' = IF lLoad.next = 1 \/ lLoad.next >= lLoad.last THEN Idle
                ELSE [lLoad EXCEPT !.next = @ + 1]
    /\ UNCHANGED <<lCount, lRows, lFilter, lDetail, lGets, lOpened>>

\* Any of the requests failing leaves the rows of before.
loadFails ==
    /\ loading
    /\ lLoad' = Idle
    /\ UNCHANGED <<lCount, lRows, lFilter, lDetail, lGets, lOpened>>

load ==
    /\ ~loading /\ lDetail.selected = NoLog /\ lOpened < MaxOpened
    /\ lLoad' = [Idle EXCEPT !.next = 1]
    /\ lOpened' = lOpened + 1
    /\ UNCHANGED <<lCount, lRows, lFilter, lDetail, lGets>>

(***************************************************************************)
(* Filters and pages: a filter goes back to page 1, a refresh does not.    *)
(***************************************************************************)
filtered == SelectSeq(lRows, LAMBDA log :
                lFilter.severity \in {"", activityMeta(log).severity})
totalPages == IF filtered = <<>> THEN 1 ELSE Len(filtered)
pageItems == IF lFilter.page > Len(filtered) THEN {} ELSE {filtered[lFilter.page]}

setSeverity(severity) ==
    /\ lDetail.selected = NoLog /\ severity /= lFilter.severity
    /\ lFilter' = [severity |-> severity, page |-> 1]
    /\ UNCHANGED <<lCount, lLoad, lRows, lDetail, lGets, lOpened>>

setPage(page) ==
    /\ lDetail.selected = NoLog /\ page \in 1..totalPages /\ page /= lFilter.page
    /\ lFilter' = [lFilter EXCEPT !.page = page]
    /\ UNCHANGED <<lCount, lLoad, lRows, lDetail, lGets, lOpened>>

(***************************************************************************)
(* The detail of an entry, opened from a row, whether or not the list is   *)
(* being refreshed.                                                        *)
(***************************************************************************)
openDetail(log) ==
    /\ lDetail.selected = NoLog /\ log \in pageItems /\ lOpened < MaxOpened
    /\ lDetail' = [selected |-> log, detail |-> NoLog, loading |-> TRUE]
    /\ lGets' = lGets \cup {[n |-> lOpened, log |-> log]}
    /\ lOpened' = lOpened + 1
    /\ UNCHANGED <<lCount, lLoad, lRows, lFilter>>

closeDetail ==
    /\ lDetail.selected /= NoLog
    /\ lDetail' = [lDetail EXCEPT !.selected = NoLog, !.detail = NoLog]
    /\ UNCHANGED <<lCount, lLoad, lRows, lFilter, lGets, lOpened>>

\* The full entry, or the row itself when the request fails: either way it is
\* the entry the request was for.
DetailAnswered(g) ==
    /\ lGets' = lGets \ {g}
    /\ lDetail' = [lDetail EXCEPT !.detail = g.log, !.loading = FALSE]
    /\ UNCHANGED <<lCount, lLoad, lRows, lFilter, lOpened>>

LogAnswers == listRecent \/ loadFails \/ (\E g \in lGets : DetailAnswered(g))

LogNext ==
    \/ LogWritten \/ LogAnswers \/ load \/ closeDetail
    \/ \E severity \in {"", "LOW", "HIGH"} : setSeverity(severity)
    \/ \E page \in 1..MaxLogs : setPage(page)
    \/ \E log \in pageItems : openDetail(log)

LogSpec == LogInit /\ [][LogNext]_logVars /\ WF_logVars(LogAnswers)

\* The rows collected page by page, while entries are written between the requests,
\* may repeat an entry, but skip none: down to each row every entry since is there.
SampleHasNoGaps ==
    \A i \in DOMAIN lRows : lRows[i]..lRows[1] \subseteq {lRows[j] : j \in 1..i}

=============================================================================
