------------------------- MODULE DeclarationEntries -------------------------
(***************************************************************************)
(* What a declaration is made of: the functions performed, the licenses    *)
(* and the rest times, each kept by a service of its own.  The services    *)
(* read the status of the declaration in one statement and write the entry *)
(* in a later one, so they interleave with the declarations service, which *)
(* this module extends, and with one another.                              *)
(***************************************************************************)
EXTENDS Declarations

CONSTANTS FunctionIds, LicenseIds, RestIds,   \* the entry ids that may be generated
          LicenseTypes,
          EntryRequests,                      \* processes that serve entry requests
          NoEntry

ASSUME EntriesAssumption ==
    NoEntry \notin FunctionIds \cup LicenseIds \cup RestIds /\ "none" \notin LicenseTypes

VARIABLES functions,  \* JOB_FUNCTIONS
          licenses,   \* LICENSE_TIMES
          rests,      \* REST_TIMES
          ereq        \* what each entry process is doing and has read

tables == <<functions, licenses, rests>>
entryVars == <<functions, licenses, rests, ereq>>
vars == <<declVars, entryVars>>

Life == {"absent", "present", "deleted"}

\* The columns a rule of the service looks at.  official and custom say which of
\* the two references is set, overtime that overtime_minutes is (it is then
\* positive), justification that the row's own justification is.
FunctionRow == [life : Life, decl : Declarations \cup {NoDeclaration},
                official : BOOLEAN, custom : BOOLEAN,
                overtime : BOOLEAN, justification : BOOLEAN]

LicenseRow == [life : Life, decl : Declarations \cup {NoDeclaration},
               type : LicenseTypes \cup {"none"}]

\* Lunch stands for the three types with the same limit; 61 is beyond every limit.
RestTypes == {"Coffee", "Lunch"}
Durations == {30, 60, 61}
maxMinutesFor(type) == IF type = "Coffee" THEN 30 ELSE 60

RestRow == [life : Life, decl : Declarations \cup {NoDeclaration},
            type : RestTypes \cup {"none"}, minutes : Durations \cup {0}]

NoFunction == [life |-> "absent", decl |-> NoDeclaration, official |-> FALSE,
               custom |-> FALSE, overtime |-> FALSE, justification |-> FALSE]
NoLicense == [life |-> "absent", decl |-> NoDeclaration, type |-> "none"]
NoRest == [life |-> "absent", decl |-> NoDeclaration, type |-> "none", minutes |-> 0]

\* A request between its statements: the row it means to write (put together from
\* its input and from the row it has read), the columns it will set, and, for the
\* record only, whether the declaration was Incomplete when it began.
EntryIdle == [step |-> "idle", op |-> "none", id |-> NoEntry, row |-> NoFunction,
              sets |-> {}, early |-> FALSE]

Busy(op, id, row, sets) ==
    [step |-> "check", op |-> op, id |-> id, row |-> row, sets |-> sets,
     early |-> getCurrentStatus(row.decl) = "Incomplete"]

Begin(e, rec) == ereq' = [ereq EXCEPT ![e] = rec]
End(e) == ereq' = [ereq EXCEPT ![e] = EntryIdle]
Doing(e, step, ops) == ereq[e].step = step /\ ereq[e].op \in ops

EntryInit ==
    /\ functions = [f \in FunctionIds |-> NoFunction]
    /\ licenses = [l \in LicenseIds |-> NoLicense]
    /\ rests = [t \in RestIds |-> NoRest]
    /\ ereq = [e \in EntryRequests |-> EntryIdle]

\* Entries and declarations belong to the same user: only the owner adds entries.
OwnedBy(u, d) == owner[d] # NoUser /\ owner[d] = u

\* requireIncompleteOwnedDeclaration and the two assertIncomplete: the status is
\* read here, and not again when the entry is written.
Incomplete(e) == getCurrentStatus(ereq[e].row.decl) = "Incomplete"

Proceed(e) == ereq' = [ereq EXCEPT ![e].step = "write"]

-----------------------------------------------------------------------------
(* Functions of the declaration: JobFunctionService *)

\* Overtime without a justification is a missing field.
OvertimeJustified(row) == row.overtime => row.justification

\* The DTO asks for exactly one of the two references.  A request refused by its
\* first checks writes nothing, here and below.
createJobFunction(e, u, d, isOfficial, overtime, justification) ==
    LET row == [life |-> "present", decl |-> d, official |-> isOfficial,
                custom |-> ~isOfficial, overtime |-> overtime,
                justification |-> justification]
    IN  /\ ereq[e].step = "idle"
        /\ OwnedBy(u, d) /\ OvertimeJustified(row)
        /\ Begin(e, Busy("createFunction", NoEntry, row, {}))
        /\ UNCHANGED tables

\* Variant: the other reference is kept.
Merged_KeepsOtherRef(existing, ref, overtime, justification) ==
    [existing EXCEPT !.official = @ \/ ref = "official",
                     !.custom = @ \/ ref = "custom",
                     !.overtime = @ \/ overtime,
                     !.justification = IF justification = "keep" THEN @
                                       ELSE justification = "given"]

\* The row the update will write: each column from the input when given and from
\* the row just read otherwise; naming one reference clears the other.
Merged(existing, ref, overtime, justification) ==
    [existing EXCEPT !.official = IF ref = "keep" THEN @ ELSE ref = "official",
                     !.custom = IF ref = "keep" THEN @ ELSE ref = "custom",
                     !.overtime = @ \/ overtime,
                     !.justification = IF justification = "keep" THEN @
                                       ELSE justification = "given"]

updateJobFunction(e, u, f, ref, overtime, justification) ==
    LET existing == functions[f]
    IN  /\ ereq[e].step = "idle"
        /\ existing.life = "present" /\ OwnedBy(u, existing.decl)
        /\ Begin(e, Busy("updateFunction", f,
                         Merged(existing, ref, overtime, justification), {}))
        /\ UNCHANGED tables

deleteJobFunction(e, u, f) ==
    /\ ereq[e].step = "idle"
    /\ functions[f].life = "present" /\ OwnedBy(u, functions[f].decl)
    /\ Begin(e, Busy("deleteFunction", f, [NoFunction EXCEPT !.decl = functions[f].decl], {}))
    /\ UNCHANGED tables

\* A function of the catalogue that is not found ends the request as well.
CheckJobFunction(e) ==
    /\ Doing(e, "check", {"createFunction", "updateFunction", "deleteFunction"})
    /\ \/ End(e)
       \/ /\ Incomplete(e)
          /\ ereq[e].op = "updateFunction" => OvertimeJustified(ereq[e].row)
          /\ Proceed(e)
    /\ UNCHANGED tables

InsertJobFunction(e, f) ==
    /\ Doing(e, "write", {"createFunction"})
    /\ functions[f].life = "absent"
    /\ functions' = [functions EXCEPT ![f] = ereq[e].row]
    /\ End(e)
    /\ UNCHANGED <<licenses, rests>>

\* Variant: a MERGE that inserts the row again when it is gone.
UpdateJobFunctionRow_Upsert(e) ==
    /\ Doing(e, "write", {"updateFunction"})
    /\ functions' = [functions EXCEPT ![ereq[e].id] = ereq[e].row]
    /\ End(e)
    /\ UNCHANGED <<licenses, rests>>

\* UPDATE ... WHERE job_function_id = ...: every column, if the row is still there.
UpdateJobFunctionRow(e) ==
    /\ Doing(e, "write", {"updateFunction"})
    /\ functions' = [functions EXCEPT ![ereq[e].id] =
                        IF @.life = "present" THEN ereq[e].row ELSE @]
    /\ End(e)
    /\ UNCHANGED <<licenses, rests>>

DeleteJobFunctionRow(e) ==
    /\ Doing(e, "write", {"deleteFunction"})
    /\ functions' = [functions EXCEPT ![ereq[e].id] = [NoFunction EXCEPT !.life = "deleted"]]
    /\ End(e)
    /\ UNCHANGED <<licenses, rests>>

-----------------------------------------------------------------------------
(* Licenses: LicenseService *)

createLicense(e, u, d, type) ==
    /\ ereq[e].step = "idle"
    /\ OwnedBy(u, d)
    /\ Begin(e, Busy("createLicense", NoEntry,
                     [life |-> "present", decl |-> d, type |-> type], {}))
    /\ UNCHANGED tables

updateLicense(e, u, l, type) ==
    /\ ereq[e].step = "idle"
    /\ licenses[l].life = "present" /\ OwnedBy(u, licenses[l].decl)
    /\ Begin(e, Busy("updateLicense", l, [licenses[l] EXCEPT !.type = type], {"type"}))
    /\ UNCHANGED tables

deleteLicense(e, u, l) ==
    /\ ereq[e].step = "idle"
    /\ licenses[l].life = "present" /\ OwnedBy(u, licenses[l].decl)
    /\ Begin(e, Busy("deleteLicense", l, [NoLicense EXCEPT !.decl = licenses[l].decl], {}))
    /\ UNCHANGED tables

\* A license type that is not found ends the request as well.
CheckLicense(e) ==
    /\ Doing(e, "check", {"createLicense", "updateLicense", "deleteLicense"})
    /\ \/ End(e)
       \/ (Incomplete(e) /\ Proceed(e))
    /\ UNCHANGED tables

InsertLicense(e, l) ==
    /\ Doing(e, "write", {"createLicense"})
    /\ licenses[l].life = "absent"
    /\ licenses' = [licenses EXCEPT ![l] = ereq[e].row]
    /\ End(e)
    /\ UNCHANGED <<functions, rests>>

UpdateLicenseRow(e) ==
    /\ Doing(e, "write", {"updateLicense"})
    /\ licenses' = [licenses EXCEPT ![ereq[e].id] =
                       IF @.life = "present" THEN [@ EXCEPT !.type = ereq[e].row.type] ELSE @]
    /\ End(e)
    /\ UNCHANGED <<functions, rests>>

DeleteLicenseRow(e) ==
    /\ Doing(e, "write", {"deleteLicense"})
    /\ licenses' = [licenses EXCEPT ![ereq[e].id] = [NoLicense EXCEPT !.life = "deleted"]]
    /\ End(e)
    /\ UNCHANGED <<functions, rests>>

-----------------------------------------------------------------------------
(* Rest times: RestTimeService *)

\* assertDuration, and the same rule in the DTO of a creation.
DurationAllowed(row) == row.minutes <= maxMinutesFor(row.type)

createRestTime(e, u, d, type, minutes) ==
    LET row == [life |-> "present", decl |-> d, type |-> type, minutes |-> minutes]
    IN  /\ ereq[e].step = "idle"
        /\ OwnedBy(u, d) /\ DurationAllowed(row)
        /\ Begin(e, Busy("createRest", NoEntry, row, {}))
        /\ UNCHANGED tables

\* The columns given over those of a row.
Assigned(existing, sets, type, minutes) ==
    [existing EXCEPT !.type = IF "type" \in sets THEN type ELSE @,
                     !.minutes = IF "minutes" \in sets THEN minutes ELSE @]

\* row is what the rule is checked on: the given columns over those just read.
updateRestTime(e, u, t, sets, type, minutes) ==
    LET row == Assigned(rests[t], sets, type, minutes)
    IN  /\ ereq[e].step = "idle"
        /\ rests[t].life = "present" /\ OwnedBy(u, rests[t].decl)
        /\ sets # {}
        /\ Begin(e, Busy("updateRest", t, row, sets))
        /\ UNCHANGED tables

deleteRestTime(e, u, t) ==
    /\ ereq[e].step = "idle"
    /\ rests[t].life = "present" /\ OwnedBy(u, rests[t].decl)
    /\ Begin(e, Busy("deleteRest", t, [NoRest EXCEPT !.decl = rests[t].decl], {}))
    /\ UNCHANGED tables

\* Variant: the status is not asked for.
CheckRestTime_AnyStatus(e) ==
    /\ Doing(e, "check", {"createRest", "updateRest", "deleteRest"})
    /\ IF ereq[e].op = "updateRest" => DurationAllowed(ereq[e].row)
         THEN Proceed(e)
         ELSE End(e)
    /\ UNCHANGED tables

CheckRestTime(e) ==
    /\ Doing(e, "check", {"createRest", "updateRest", "deleteRest"})
    /\ IF Incomplete(e) /\ (ereq[e].op = "updateRest" => DurationAllowed(ereq[e].row))
         THEN Proceed(e)
         ELSE End(e)
    /\ UNCHANGED tables

InsertRestTime(e, t) ==
    /\ Doing(e, "write", {"createRest"})
    /\ rests[t].life = "absent"
    /\ rests' = [rests EXCEPT ![t] = ereq[e].row]
    /\ End(e)
    /\ UNCHANGED <<functions, licenses>>

\* Variant: every column is assigned, those not given become NULL.
UpdateRestTimeRow_NullsOthers(e) ==
    LET sets == ereq[e].sets
    IN  /\ Doing(e, "write", {"updateRest"})
        /\ rests' = [rests EXCEPT ![ereq[e].id] =
                        IF @.life # "present" THEN @
                        ELSE [@ EXCEPT
                                !.type = IF "type" \in sets THEN ereq[e].row.type ELSE "none",
                                !.minutes = IF "minutes" \in sets THEN ereq[e].row.minutes ELSE 0]]
        /\ End(e)
        /\ UNCHANGED <<functions, licenses>>

\* Only the given columns are assigned, to the row as it is now.
UpdateRestTimeRow(e) ==
    LET row == ereq[e].row
    IN  /\ Doing(e, "write", {"updateRest"})
        /\ rests' = [rests EXCEPT ![ereq[e].id] =
                        IF @.life # "present" THEN @
                        ELSE Assigned(@, ereq[e].sets, row.type, row.minutes)]
        /\ End(e)
        /\ UNCHANGED <<functions, licenses>>

DeleteRestTimeRow(e) ==
    /\ Doing(e, "write", {"deleteRest"})
    /\ rests' = [rests EXCEPT ![ereq[e].id] = [NoRest EXCEPT !.life = "deleted"]]
    /\ End(e)
    /\ UNCHANGED <<functions, licenses>>

-----------------------------------------------------------------------------
EntryStatementFails(e) == ereq[e].step # "idle" /\ End(e) /\ UNCHANGED tables

FunctionNext(e) ==
    \/ \E u \in Users, d \in Declarations, isOfficial, overtime, justification \in BOOLEAN :
          createJobFunction(e, u, d, isOfficial, overtime, justification)
    \/ \E u \in Users, f \in FunctionIds :
          \/ \E ref \in {"keep", "official", "custom"}, overtime \in BOOLEAN,
                justification \in {"keep", "given", "cleared"} :
                updateJobFunction(e, u, f, ref, overtime, justification)
          \/ deleteJobFunction(e, u, f)
    \/ CheckJobFunction(e)
    \/ \E f \in FunctionIds : InsertJobFunction(e, f)
    \/ UpdateJobFunctionRow(e)
    \/ DeleteJobFunctionRow(e)

LicenseNext(e) ==
    \/ \E u \in Users, d \in Declarations, type \in LicenseTypes : createLicense(e, u, d, type)
    \/ \E u \in Users, l \in LicenseIds :
          \/ \E type \in LicenseTypes : updateLicense(e, u, l, type)
          \/ deleteLicense(e, u, l)
    \/ CheckLicense(e)
    \/ \E l \in LicenseIds : InsertLicense(e, l)
    \/ UpdateLicenseRow(e)
    \/ DeleteLicenseRow(e)

RestNext(e) ==
    \/ \E u \in Users, d \in Declarations, type \in RestTypes, minutes \in Durations :
          createRestTime(e, u, d, type, minutes)
    \/ \E u \in Users, t \in RestIds :
          \/ \E sets \in SUBSET {"type", "minutes"}, type \in RestTypes, minutes \in Durations :
                updateRestTime(e, u, t, sets, type, minutes)
          \/ deleteRestTime(e, u, t)
    \/ CheckRestTime(e)
    \/ \E t \in RestIds : InsertRestTime(e, t)
    \/ UpdateRestTimeRow(e)
    \/ DeleteRestTimeRow(e)

EntryNext ==
    \E e \in EntryRequests :
        FunctionNext(e) \/ LicenseNext(e) \/ RestNext(e) \/ EntryStatementFails(e)

Next ==
    \/ DeclNext /\ UNCHANGED entryVars
    \/ EntryNext /\ UNCHANGED declVars

Spec == Init /\ EntryInit /\ [][Next]_vars

-----------------------------------------------------------------------------
(* Properties *)

\* The three tables have their columns, the NOT NULL ones of a row have values, and a request holds a row of one of them.
EntriesTypeOK ==
    /\ functions \in [FunctionIds -> FunctionRow]
    /\ licenses \in [LicenseIds -> LicenseRow]
    /\ rests \in [RestIds -> RestRow]
    /\ \A f \in FunctionIds : functions[f].life = "present" => functions[f].decl # NoDeclaration
    /\ \A l \in LicenseIds : licenses[l].life = "present" =>
          licenses[l].decl # NoDeclaration /\ licenses[l].type # "none"
    /\ \A t \in RestIds : rests[t].life = "present" =>
          rests[t].decl # NoDeclaration /\ rests[t].type # "none" /\ rests[t].minutes > 0
    /\ \A e \in EntryRequests :
          /\ ereq[e].step \in {"idle", "check", "write"}
          /\ ereq[e].row \in FunctionRow \cup LicenseRow \cup RestRow
          /\ ereq[e].early \in BOOLEAN

\* A stored function refers to exactly one of the two catalogues and justifies its
\* overtime, even when several updates computed from different reads of the row end
\* in any order.
FunctionRowsConsistent ==
    \A f \in FunctionIds : functions[f].life = "present" =>
        /\ functions[f].official # functions[f].custom
        /\ OvertimeJustified(functions[f])

\* An entry that has been deleted stays so: an update that read it before does not
\* bring it back.
DeletedStaysDeleted ==
    [][/\ \A f \in FunctionIds : functions[f].life = "deleted" => functions'[f] = functions[f]
       /\ \A l \in LicenseIds : licenses[l].life = "deleted" => licenses'[l] = licenses[l]
       /\ \A t \in RestIds : rests[t].life = "deleted" => rests'[t] = rests[t]]_vars

\* However their statements interleave, each service keeps its table as EntryTable says:
\* an entry stays with the declaration it was inserted for until it is deleted, for
\* good, and only those who began while that was Incomplete have a part in it.
Stages ==
    [d \in Declarations |-> IF owner[d] = NoUser THEN "none"
                            ELSE IF getCurrentStatus(d) = "Incomplete" THEN "open" ELSE "closed"]
Admitted ==
    [e \in EntryRequests |->
        IF ereq[e].step # "idle" /\ ereq[e].early THEN ereq[e].row.decl ELSE NoDeclaration]

FunctionTable == INSTANCE EntryTable WITH
    stage <- Stages, admitted <- Admitted, table <- functions, Requests <- EntryRequests,
    Ids <- FunctionIds, Rows <- FunctionRow, Gone <- [NoFunction EXCEPT !.life = "deleted"],
    Nothing <- NoDeclaration
LicenseTable == INSTANCE EntryTable WITH
    stage <- Stages, admitted <- Admitted, table <- licenses, Requests <- EntryRequests,
    Ids <- LicenseIds, Rows <- LicenseRow, Gone <- [NoLicense EXCEPT !.life = "deleted"],
    Nothing <- NoDeclaration
RestTable == INSTANCE EntryTable WITH
    stage <- Stages, admitted <- Admitted, table <- rests, Requests <- EntryRequests,
    Ids <- RestIds, Rows <- RestRow, Gone <- [NoRest EXCEPT !.life = "deleted"],
    Nothing <- NoDeclaration

TablesAreKept == FunctionTable!Spec /\ LicenseTable!Spec /\ RestTable!Spec

\* Whoever writes an entry began while the declaration was Incomplete: a request
\* that comes later changes nothing.
WritersBeganIncomplete ==
    [][tables' # tables =>
          \E e \in EntryRequests :
             /\ ereq[e].step = "write" /\ ereq'[e].step = "idle"
             /\ ereq[e].early]_vars

\* What has been declared stands still once the declaration is no longer Incomplete.
EntriesOf(d) ==
    << {<<f, functions[f]>> : f \in {g \in FunctionIds : functions[g].decl = d}},
       {<<l, licenses[l]>> : l \in {m \in LicenseIds : licenses[m].decl = d}},
       {<<t, rests[t]>> : t \in {s \in RestIds : rests[s].decl = d}},
       justified[d] >>

\* Functions, licenses, rest times and the justification may only be managed while
\* the declaration is Incomplete, as the four error messages say.
DeclaredDataFrozen ==
    [][\A d \in Declarations :
          getCurrentStatus(d) \notin {"None", "Incomplete"} =>
              EntriesOf(d)' = EntriesOf(d)]_vars

\* No stored rest time is longer than its type allows.
RestDurationWithinMax ==
    \A t \in RestIds : rests[t].life = "present" => DurationAllowed(rests[t])
=============================================================================
