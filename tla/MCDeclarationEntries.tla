------------------------ MODULE MCDeclarationEntries ------------------------
(***************************************************************************)
(* One employee, one administrator, two declaration ids and two concurrent *)
(* requests on them, and two requests that manage the entries of one.      *)
(* Requests and ids are interchangeable, so permuting them is a symmetry   *)
(* of the specification and of its (safety) properties.                    *)
(***************************************************************************)
EXTENDS DeclarationEntries, Functions, TLC

CONSTANTS MaxRows,      \* status rows of two declarations side by side
          MaxLife,      \* status rows of the only declaration there is
          MaxEntryRows  \* status rows of the declaration whose entries are managed

Interchangeable ==
    Permutations(Requests) \cup Permutations(Declarations) \cup Permutations(EntryRequests)

Rows == FoldFunction(LAMBDA rows, n : Len(rows) + n, 0, history)

\* The whole life of a single declaration has five rows (Incomplete, Completed, Revision,
\* Approved, Rejected).
RowBound == \/ Rows <= MaxRows
            \/ Rows <= MaxLife /\ \E d \in Declarations : Len(history[d]) = Rows

InUse(rowsOf, ids, ops) ==
    \/ \E i \in ids : rowsOf[i].life # "absent"
    \/ \E e \in EntryRequests : ereq[e].op \in ops
FunctionsInUse ==
    InUse(functions, FunctionIds, {"createFunction", "updateFunction", "deleteFunction"})
LicensesInUse == InUse(licenses, LicenseIds, {"createLicense", "updateLicense", "deleteLicense"})
RestsInUse == InUse(rests, RestIds, {"createRest", "updateRest", "deleteRest"})

\* The three services share no table, so the behaviours where only one of them is at
\* work show everything their interleavings can do to its table.
OneServiceAtWork ==
    /\ ~(FunctionsInUse /\ LicensesInUse)
    /\ ~(FunctionsInUse /\ RestsInUse)
    /\ ~(LicensesInUse /\ RestsInUse)

\* Where entries are looked at: one declaration, of an employee, with nothing out of
\* shift and nothing to justify, and one request on it, which completes it.
OneDeclaration ==
    /\ outOfShift = {} /\ \A d \in Declarations : ~justified[d]
    /\ \A d \in Declarations : owner[d] \notin Admins /\ Len(history[d]) <= MaxEntryRows
    /\ \E d \in Declarations : \A c \in Declarations \ {d} : owner[c] = NoUser
    /\ \E r \in Requests : \A q \in Requests \ {r} : req[q] = Idle("other")
    /\ \A r \in Requests : req[r].step # "idle" =>
         req[r].target = "Completed" /\ req[r].user \notin Admins

EntriesInUse == FunctionsInUse \/ LicensesInUse \/ RestsInUse

EntriesBound == EntriesInUse => OneDeclaration /\ OneServiceAtWork

\* The one thing the employee does to the declaration meanwhile.
Complete ==
    \E r \in Requests :
        /\ \A q \in Requests \ {r} : req[q].step = "idle"
        /\ \/ \E d \in Declarations : owner[d] # NoUser /\ changeStatus(r, owner[d], d, "Completed")
           \/ CheckTransition(r) \/ FN_CHANGE_DECLARATION_STATUS(r) \/ StatementFails(r)

MCNext ==
    \/ ~EntriesInUse /\ DeclNext /\ UNCHANGED entryVars
    \/ EntriesInUse /\ Complete /\ UNCHANGED entryVars
    \/ OneDeclaration /\ EntryNext /\ UNCHANGED declVars
MCInit == Init /\ EntryInit
MCSpec == MCInit /\ [][MCNext]_vars
=============================================================================
