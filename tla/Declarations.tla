---------------------------- MODULE Declarations ----------------------------
(***************************************************************************)
(* The declarations service of the API.  PHP serves every HTTP request in  *)
(* a process of its own; the processes share nothing but the database, and *)
(* every statement commits by itself.  A request is therefore a sequence   *)
(* of database statements that interleaves with those of other requests:   *)
(* what it read in one statement may be stale in the next.                 *)
(***************************************************************************)
EXTENDS Naturals, Sequences, StatusTransitions

CONSTANTS Users,          \* user ids
          Admins,         \* the users whose role is 'admin'
          Declarations,   \* the declaration ids (ULIDs) that may be generated
          Requests,       \* the processes that serve declaration requests
          NoUser, NoDeclaration

ASSUME UsersAssumption == Admins \subseteq Users /\ NoUser \notin Users
ASSUME DeclarationsAssumption == NoDeclaration \notin Declarations

VARIABLES
    owner,          \* DECLARATIONS.USER_ID, NoUser while the id is not in use
    history,        \* rows of DECLARATIONS_STATUS of a declaration, oldest first
    justified,      \* DECLARATIONS.JUSTIFICATION IS NOT NULL
    outOfShift,     \* declarations with a JOB_FUNCTIONS row whose STARTS_AT and
                    \* ENDS_AT leave the shift (written before 'duration_minutes'
                    \* replaced them; no service writes the two columns)
    req             \* req[r]: what process r is doing and has read

declVars == <<owner, history, justified, outOfShift, req>>

StatusRow == [status : Statuses, by : Users]

Steps == {"idle", "findIncomplete", "register", "reload",
          "readStatus", "writeStatus", "readForJustification", "justify"}
\* Of the ways a request may end, only a refusal by the stored function matters.
Replies == {"other", "refused_by_db"}

Request == [step : Steps, user : Users \cup {NoUser},
            decl : Declarations \cup {NoDeclaration},
            target : Statuses \cup {"None"},    \* the status asked for
            seen : Statuses \cup {"None"},      \* the status read before writing
            reply : Replies]                    \* how the last request ended

Idle(reply) == [step |-> "idle", user |-> NoUser, decl |-> NoDeclaration,
                target |-> "None", seen |-> "None", reply |-> reply]

\* FN_GET_CURRENT_STATUS: the newest status row, none before registration.
getCurrentStatus(d) ==
    IF history[d] = <<>> THEN "None" ELSE history[d][Len(history[d])].status

\* FN_FIND_INCOMPLETE_BY_USER, as a test.
findIncompleteByUser(u) ==
    \E d \in Declarations : owner[d] = u /\ getCurrentStatus(d) = "Incomplete"

-----------------------------------------------------------------------------
Goto(r, rec) == req' = [req EXCEPT ![r] = rec]
Reply(r, how) == req' = [req EXCEPT ![r] = Idle(how)]

\* A database older than duration_minutes may hold declarations already;
\* what matters of them is whether their functions leave the shift.
Init ==
    /\ owner \in [Declarations -> Users \cup {NoUser}]
    /\ \A d, e \in Declarations : owner[d] = owner[e] /\ d # e => owner[d] = NoUser
    /\ history = [d \in Declarations |->
                     IF owner[d] = NoUser THEN <<>>
                     ELSE <<[status |-> "Incomplete", by |-> owner[d]]>>]
    /\ justified = [d \in Declarations |-> FALSE]
    /\ outOfShift \in SUBSET {d \in Declarations : owner[d] # NoUser}
    /\ req = [r \in Requests |-> Idle("other")]

-----------------------------------------------------------------------------
(* POST /declarations *)

\* Validation of the DTO and the look-up of the plaza end the request early.
createDeclaration(r, u) ==
    /\ req[r].step = "idle"
    /\ \/ Reply(r, "other")
       \/ Goto(r, [Idle("other") EXCEPT !.step = "findIncomplete", !.user = u])
    /\ UNCHANGED <<owner, history, justified, outOfShift>>

CheckNoIncomplete(r) ==
    /\ req[r].step = "findIncomplete"
    /\ IF findIncompleteByUser(req[r].user)
         THEN Reply(r, "other")
         ELSE Goto(r, [req[r] EXCEPT !.step = "register"])
    /\ UNCHANGED <<owner, history, justified, outOfShift>>

\* Variant: without the test of its own, the function trusts the earlier look-up.
FN_REGISTER_DECLARATION_NoRecheck(r, u, d) ==
    /\ owner' = [owner EXCEPT ![d] = u]
    /\ history' = [history EXCEPT ![d] = <<[status |-> "Incomplete", by |-> u]>>]
    /\ Goto(r, [Idle("other") EXCEPT !.step = "reload", !.decl = d])
    /\ UNCHANGED <<justified, outOfShift>>

\* FN_REGISTER_DECLARATION raises -20051 when the user has an Incomplete
\* declaration, and otherwise inserts the declaration and its first status row.
FN_REGISTER_DECLARATION(r, u, d) ==
    IF findIncompleteByUser(u)
      THEN /\ Reply(r, "refused_by_db")
           /\ UNCHANGED <<owner, history, justified, outOfShift>>
      ELSE /\ owner' = [owner EXCEPT ![d] = u]
           /\ history' = [history EXCEPT ![d] = <<[status |-> "Incomplete", by |-> u]>>]
           /\ Goto(r, [Idle("other") EXCEPT !.step = "reload", !.decl = d])
           /\ UNCHANGED <<justified, outOfShift>>

registerDeclaration(r, d) ==
    /\ req[r].step = "register"
    /\ owner[d] = NoUser        \* a fresh ULID
    /\ FN_REGISTER_DECLARATION(r, req[r].user, d)

\* The reply carries the declaration as getDeclarationById finds it.
getDeclarationById(r) ==
    /\ req[r].step = "reload"
    /\ Reply(r, "other")
    /\ UNCHANGED <<owner, history, justified, outOfShift>>

-----------------------------------------------------------------------------
(* PATCH /declarations/{id}/status *)

\* Variants: the ownership test forgotten; the user not handed to the next statement.
changeStatus_NoOwnership(r, u, d, new) ==
    /\ req[r].step = "idle"
    /\ IF owner[d] = NoUser
         THEN Reply(r, "other")
         ELSE Goto(r, [Idle("other") EXCEPT !.step = "readStatus", !.user = u,
                                            !.decl = d, !.target = new])
    /\ UNCHANGED <<owner, history, justified, outOfShift>>

changeStatus_UserLost(r, u, d, new) ==
    /\ req[r].step = "idle"
    /\ IF owner[d] = NoUser \/ (u \notin Admins /\ owner[d] # u)
         THEN Reply(r, "other")
         ELSE Goto(r, [Idle("other") EXCEPT !.step = "readStatus",
                                            !.decl = d, !.target = new])
    /\ UNCHANGED <<owner, history, justified, outOfShift>>

\* findById and the ownership test.
changeStatus(r, u, d, new) ==
    /\ req[r].step = "idle"
    /\ IF owner[d] = NoUser \/ (u \notin Admins /\ owner[d] # u)
         THEN Reply(r, "other")
         ELSE Goto(r, [Idle("other") EXCEPT !.step = "readStatus", !.user = u,
                                            !.decl = d, !.target = new])
    /\ UNCHANGED <<owner, history, justified, outOfShift>>

\* getCurrentStatus and the tests on what it returned.
CheckTransition(r) ==
    LET current == getCurrentStatus(req[r].decl)
        new == req[r].target
    IN  /\ req[r].step = "readStatus"
        /\ IF \/ current = "None"
              \/ ~isValidTransition(current, new)
              \/ new \in AdminStatuses /\ req[r].user \notin Admins
              \/ /\ new = "Abandoned"
                 /\ req[r].user \notin Admins
                 /\ owner[req[r].decl] # req[r].user
             THEN Reply(r, "other")
             ELSE Goto(r, [req[r] EXCEPT !.step = "writeStatus", !.seen = current])
        /\ UNCHANGED <<owner, history, justified, outOfShift>>

\* Variants: the function before the transition table was added to it; the function
\* without the justification rule.
StatusAccepted_NoTransitions(d, new) ==
    new = "Completed" => d \notin outOfShift \/ justified[d]

StatusAccepted_NoJustification(d, new) == transition_ok(getCurrentStatus(d), new)

\* The checks FN_CHANGE_DECLARATION_STATUS repeats while it holds the row.
StatusAccepted(d, new) ==
    /\ transition_ok(getCurrentStatus(d), new)
    /\ new = "Completed" => d \notin outOfShift \/ justified[d]

\* SELECT ... FOR UPDATE, the checks and the insert are one transaction, and the
\* row lock keeps other calls for this declaration out until it ends.
FN_CHANGE_DECLARATION_STATUS(r) ==
    LET d == req[r].decl
        new == req[r].target
    IN  /\ req[r].step = "writeStatus"
        /\ IF StatusAccepted(d, new)
             THEN /\ history' = [history EXCEPT ![d] =
                                   Append(@, [status |-> new, by |-> req[r].user])]
                  /\ Reply(r, "other")
             ELSE /\ Reply(r, "refused_by_db")
                  /\ UNCHANGED history
        /\ UNCHANGED <<owner, justified, outOfShift>>

-----------------------------------------------------------------------------
(* PATCH /declarations/{id}/justification; an empty text fails the DTO *)

updateJustification(r, u, d) ==
    /\ req[r].step = "idle"
    /\ IF owner[d] = NoUser \/ (u \notin Admins /\ owner[d] # u)
         THEN Reply(r, "other")
         ELSE Goto(r, [Idle("other") EXCEPT !.step = "readForJustification", !.decl = d])
    /\ UNCHANGED <<owner, history, justified, outOfShift>>

CheckJustifiable(r) ==
    /\ req[r].step = "readForJustification"
    /\ IF getCurrentStatus(req[r].decl) # "Incomplete"
         THEN Reply(r, "other")
         ELSE Goto(r, [req[r] EXCEPT !.step = "justify"])
    /\ UNCHANGED <<owner, history, justified, outOfShift>>

\* FN_UPDATE_JUSTIFICATION: the status is not read again.
WriteJustification(r) ==
    /\ req[r].step = "justify"
    /\ justified' = [justified EXCEPT ![req[r].decl] = TRUE]
    /\ Reply(r, "other")
    /\ UNCHANGED <<owner, history, outOfShift>>

-----------------------------------------------------------------------------
\* A statement that fails for a reason of its own (the connection, the server,
\* the time limit of the process) has no effect and ends the request.
StatementFails(r) ==
    /\ req[r].step # "idle"
    /\ Reply(r, "other")
    /\ UNCHANGED <<owner, history, justified, outOfShift>>

DeclNext ==
    \E r \in Requests :
        \/ \E u \in Users : createDeclaration(r, u)
        \/ CheckNoIncomplete(r)
        \/ \E d \in Declarations : registerDeclaration(r, d)
        \/ getDeclarationById(r)
        \/ \E u \in Users, d \in Declarations, new \in Statuses : changeStatus(r, u, d, new)
        \/ CheckTransition(r)
        \/ FN_CHANGE_DECLARATION_STATUS(r)
        \/ \E u \in Users, d \in Declarations : updateJustification(r, u, d)
        \/ CheckJustifiable(r)
        \/ WriteJustification(r)
        \/ StatementFails(r)

DeclSpec == Init /\ [][DeclNext]_declVars

-----------------------------------------------------------------------------
(* Properties *)

\* The rows and the requests have the columns and the fields the code gives them.
TypeOK ==
    /\ owner \in [Declarations -> Users \cup {NoUser}]
    /\ history \in [Declarations -> Seq(StatusRow)]
    /\ justified \in [Declarations -> BOOLEAN]
    /\ outOfShift \subseteq Declarations
    /\ req \in [Requests -> Request]

\* Whatever requests overlap, the status rows of a declaration form a path of the
\* service's transition table that starts at Incomplete.
HistoryFollowsTransitions ==
    \A d \in Declarations :
        /\ history[d] # <<>> => history[d][1].status = "Incomplete"
        /\ \A i \in 2..Len(history[d]) :
              isValidTransition(history[d][i - 1].status, history[d][i].status)

\* A user never has two Incomplete declarations, even when two of the user's
\* requests to create one run at the same time.
OneIncompletePerUser ==
    \A d, e \in Declarations :
        /\ owner[d] = owner[e] /\ owner[d] # NoUser
        /\ getCurrentStatus(d) = "Incomplete" /\ getCurrentStatus(e) = "Incomplete"
        => d = e

\* Every status row was written by somebody entitled to it: Revision, Approved
\* and Rejected by an administrator, the others by the owner or an administrator.
RowsByEntitledUsers ==
    \A d \in Declarations : \A i \in 1..Len(history[d]) :
        \/ history[d][i].by \in Admins
        \/ /\ history[d][i].by = owner[d]
           /\ history[d][i].status \notin AdminStatuses

\* A declaration with functions outside its shift has no Completed row unless a
\* justification is stored, and no later request takes the justification away.
CompletedIsJustified ==
    \A d \in outOfShift :
        (\E i \in 1..Len(history[d]) : history[d][i].status = "Completed") => justified[d]

\* The stored function refuses a transition the service let through only when the
\* status moved after the service read it, or a justification is missing: the two
\* transition tables agree.
DbRefusesOnlyAfterRace ==
    [][\A r \in Requests :
          req[r].step = "writeStatus" /\ req'[r].reply = "refused_by_db" =>
              \/ getCurrentStatus(req[r].decl) # req[r].seen
              \/ req[r].decl \in outOfShift /\ ~justified[req[r].decl]]_declVars

\* The service implements the lifecycle: each committed statement is one step of
\* it and every other statement is invisible to it.
Lifecycle == INSTANCE DeclarationLifecycle WITH
                 status <- [d \in Declarations |-> getCurrentStatus(d)]

LifecycleSpec == Lifecycle!Spec
=============================================================================
