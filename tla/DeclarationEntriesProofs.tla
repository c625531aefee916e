---------------------- MODULE DeclarationEntriesProofs ----------------------
(***************************************************************************)
(* Proofs about the entries of declarations, for any number of concurrent  *)
(* requests of the three services and of the declarations service.         *)
(*                                                                         *)
(* A request writes a row that it put together before, so the rules of the *)
(* stored rows are inductive only together with those of the rows in       *)
(* hand (Shaped), and a request that began on a closed declaration never   *)
(* reaches its write because no declaration becomes Incomplete again       *)
(* (Seen).  That each table is kept as EntryTable says needs in addition   *)
(* that a request which read an entry still knows it when it writes: the   *)
(* entry was there, and is gone or of the same declaration (Linked).       *)
(***************************************************************************)
EXTENDS DeclarationEntries, DeclarationsProofs

FunctionReady(row) ==
    /\ row \in FunctionRow /\ row.life = "present" /\ row.decl # NoDeclaration
    /\ row.official # row.custom
FunctionStored(row) ==
    /\ row \in FunctionRow
    /\ row.life = "present" => FunctionReady(row) /\ OvertimeJustified(row)
    /\ row.life = "deleted" => row = [NoFunction EXCEPT !.life = "deleted"]

LicenseReady(row) ==
    /\ row \in LicenseRow /\ row.life = "present" /\ row.decl # NoDeclaration
    /\ row.type # "none"
LicenseStored(row) ==
    /\ row \in LicenseRow
    /\ row.life = "present" => LicenseReady(row)
    /\ row.life = "deleted" => row = [NoLicense EXCEPT !.life = "deleted"]

RestReady(row) ==
    /\ row \in RestRow /\ row.life = "present" /\ row.decl # NoDeclaration
    /\ row.type # "none" /\ row.minutes > 0
RestStored(row) ==
    /\ row \in RestRow
    /\ row.life = "present" => RestReady(row)
    /\ row.life = "deleted" => row = [NoRest EXCEPT !.life = "deleted"]

TablesInv ==
    /\ functions \in [FunctionIds -> FunctionRow]
    /\ licenses \in [LicenseIds -> LicenseRow]
    /\ rests \in [RestIds -> RestRow]
    /\ \A f \in FunctionIds : FunctionStored(functions[f])
    /\ \A l \in LicenseIds : LicenseStored(licenses[l])
    /\ \A t \in RestIds : RestStored(rests[t])

Ops == {"none", "createFunction", "updateFunction", "deleteFunction", "createLicense",
        "updateLicense", "deleteLicense", "createRest", "updateRest", "deleteRest"}

EntryRequest == [step : {"idle", "check", "write"}, op : Ops,
                 id : FunctionIds \cup LicenseIds \cup RestIds \cup {NoEntry},
                 row : FunctionRow \cup LicenseRow \cup RestRow,
                 sets : SUBSET {"type", "minutes"}, early : BOOLEAN]

\* What a request holds, by the operation it serves.
Shaped(c) ==
    /\ c.op \in {"createFunction", "updateFunction"} =>
          /\ FunctionReady(c.row)
          /\ c.op = "createFunction" \/ c.step = "write" => OvertimeJustified(c.row)
    /\ c.op \in {"updateFunction", "deleteFunction"} => c.id \in FunctionIds
    /\ c.op \in {"createLicense", "updateLicense"} => LicenseReady(c.row)
    /\ c.op \in {"updateLicense", "deleteLicense"} => c.id \in LicenseIds
    /\ c.op \in {"createRest", "updateRest"} => RestReady(c.row)
    /\ c.op \in {"updateRest", "deleteRest"} => c.id \in RestIds

\* What it knows of its declaration: that of an owner, and, if it was not Incomplete
\* when the request began, not Incomplete now.
Seen(c) ==
    c.step # "idle" =>
        /\ c.row.decl \in Declarations
        /\ owner[c.row.decl] # NoUser
        /\ c.early \/ getCurrentStatus(c.row.decl) # "Incomplete"
        /\ c.step = "write" => c.early

RequestsInv ==
    /\ ereq \in [EntryRequests -> EntryRequest]
    /\ \A e \in EntryRequests : Shaped(ereq[e]) /\ Seen(ereq[e])

EntryIInv == IInv /\ TablesInv /\ RequestsInv

-----------------------------------------------------------------------------
\* An idle process holds nothing.
LEMMA EntryIdleOK == EntryIdle \in EntryRequest /\ Shaped(EntryIdle) /\ EntryIdle.step = "idle"
  <1>1. NoFunction \in FunctionRow
    BY DEF NoFunction, FunctionRow, Life
  <1> QED
    BY <1>1 DEF EntryIdle, EntryRequest, Ops, Shaped

\* The tables start empty.
LEMMA EntriesStart == Init /\ EntryInit => EntryIInv
  <1> SUFFICES ASSUME Init, EntryInit PROVE EntryIInv
    OBVIOUS
  <1>1. IInv
    BY InitIInv
  <1>2. TablesInv
    BY DEF EntryInit, TablesInv, NoFunction, NoLicense, NoRest, FunctionRow, LicenseRow, RestRow,
       Life, FunctionStored, LicenseStored, RestStored
  <1>3. RequestsInv
    BY EntryIdleOK DEF EntryInit, RequestsInv, Seen
  <1> QED
    BY <1>1, <1>2, <1>3 DEF EntryIInv

-----------------------------------------------------------------------------
\* An owned declaration stays owned, and what is not Incomplete stays so.
LEMMA ClosedStaysClosed ==
    ASSUME IInv, [DeclNext]_declVars, NEW d \in Declarations, owner[d] # NoUser
    PROVE  /\ owner'[d] # NoUser
           /\ getCurrentStatus(d) # "Incomplete" => getCurrentStatus(d)' # "Incomplete"
  <1> DEFINE status == [e \in Declarations |-> getCurrentStatus(e)]
  <1>1. [Lifecycle!Next]_(Lifecycle!vars)
    BY NextRefines
  <1>2. CASE UNCHANGED Lifecycle!vars
    <2>1. owner' = owner /\ status' = status
      BY <1>2 DEF Lifecycle!vars
    <2>2. status[d] = getCurrentStatus(d) /\ status'[d] = getCurrentStatus(d)'
      OBVIOUS
    <2> QED
      BY <2>1, <2>2
  <1>3. ASSUME NEW u \in Users, NEW x \in Declarations, Lifecycle!Register(u, x)
        PROVE  owner'[d] # NoUser /\ status'[d] = status[d]
    BY <1>3, UsersAssumption DEF Lifecycle!Register, IInv, TypeOK
  <1>4. ASSUME NEW u \in Users, NEW x \in Declarations, NEW s, Lifecycle!Advance(u, x, s)
        PROVE  owner'[d] # NoUser /\ (status'[d] = status[d] \/ status'[d] # "Incomplete")
    BY <1>4 DEF Lifecycle!Advance, Lifecycle!Successors
  <1>5. CASE Lifecycle!Next
    <2>1. owner'[d] # NoUser /\ (status'[d] = status[d] \/ status'[d] # "Incomplete")
      BY <1>3, <1>4, <1>5 DEF Lifecycle!Next
    <2>2. status[d] = getCurrentStatus(d) /\ status'[d] = getCurrentStatus(d)'
      OBVIOUS
    <2> QED
      BY <2>1, <2>2
  <1> QED
    BY <1>1, <1>2, <1>5

\* The declarations service leaves the entries and what their requests know.
LEMMA DeclarationsKeepEntries ==
    ASSUME EntryIInv, [DeclNext]_declVars, UNCHANGED entryVars
    PROVE  EntryIInv'
  <1>1. IInv'
    BY NextIInv DEF EntryIInv
  <1>2. TablesInv'
    BY DEF EntryIInv, TablesInv, entryVars
  <1>3. ASSUME NEW e \in EntryRequests PROVE Seen(ereq[e])'
    BY ClosedStaysClosed DEF EntryIInv, RequestsInv, Seen, entryVars
  <1>4. RequestsInv'
    BY <1>3 DEF EntryIInv, RequestsInv, entryVars
  <1> QED
    BY <1>1, <1>2, <1>4 DEF EntryIInv

-----------------------------------------------------------------------------
\* A request goes on or ends; the tables stay.
LEMMA RequestKeeps ==
    ASSUME EntryIInv, NEW e \in EntryRequests, NEW rec \in EntryRequest,
           Shaped(rec), Seen(rec), ereq' = [ereq EXCEPT ![e] = rec],
           UNCHANGED declVars, TablesInv'
    PROVE  EntryIInv'
  <1>1. IInv'
    BY NextIInv DEF EntryIInv
  <1>2. \A q \in EntryRequests : ereq'[q] = rec \/ ereq'[q] = ereq[q]
    BY DEF EntryIInv, RequestsInv
  <1>3. ereq' \in [EntryRequests -> EntryRequest]
    BY DEF EntryIInv, RequestsInv
  <1>4. UNCHANGED <<owner, history>>
    BY DEF declVars
  <1>5. ASSUME NEW q \in EntryRequests PROVE Shaped(ereq'[q]) /\ Seen(ereq[q])'
    <2>1. Shaped(ereq'[q])
      BY <1>2 DEF EntryIInv, RequestsInv
    <2>2. Seen(ereq[q])'
      BY <1>2, <1>4 DEF EntryIInv, RequestsInv, Seen, getCurrentStatus
    <2> QED
      BY <2>1, <2>2
  <1>6. RequestsInv'
    BY <1>3, <1>5 DEF RequestsInv
  <1> QED
    BY <1>1, <1>6 DEF EntryIInv

LEMMA EndKeeps ==
    ASSUME EntryIInv, NEW e \in EntryRequests, End(e), UNCHANGED declVars, TablesInv'
    PROVE  EntryIInv'
  <1>1. Seen(EntryIdle)
    BY EntryIdleOK DEF Seen
  <1> QED
    BY <1>1, EntryIdleOK, RequestKeeps DEF End

\* The tables stay when nothing is written.
LEMMA TablesKept == ASSUME TablesInv, UNCHANGED tables PROVE TablesInv'
  BY DEF TablesInv, tables

\* A request begins on a declaration with an owner.
LEMMA BeginKeeps ==
    ASSUME EntryIInv, NEW e \in EntryRequests, NEW op \in Ops,
           NEW id \in FunctionIds \cup LicenseIds \cup RestIds \cup {NoEntry},
           NEW row \in FunctionRow \cup LicenseRow \cup RestRow,
           NEW sets \in SUBSET {"type", "minutes"},
           row.decl \in Declarations, owner[row.decl] # NoUser,
           Shaped(Busy(op, id, row, sets)),
           Begin(e, Busy(op, id, row, sets)), UNCHANGED tables, UNCHANGED declVars
    PROVE  EntryIInv'
  <1> DEFINE rec == Busy(op, id, row, sets)
  <1>1. rec \in EntryRequest
    BY DEF Busy, EntryRequest
  <1>2. Seen(rec)
    BY DEF Busy, Seen
  <1>3. TablesInv'
    BY TablesKept DEF EntryIInv
  <1>4. ereq' = [ereq EXCEPT ![e] = rec]
    BY DEF Begin
  <1> HIDE DEF rec
  <1>5. Shaped(rec)
    BY DEF rec
  <1> QED
    BY <1>1, <1>2, <1>3, <1>4, <1>5, RequestKeeps

\* A check ends the request or lets it go on to its write.
LEMMA ProceedKeeps ==
    ASSUME EntryIInv, NEW e \in EntryRequests, ereq[e].step = "check", Incomplete(e),
           ereq[e].op \in {"createFunction", "updateFunction"} => OvertimeJustified(ereq[e].row),
           Proceed(e), UNCHANGED tables, UNCHANGED declVars
    PROVE  EntryIInv'
  <1> DEFINE rec == [ereq[e] EXCEPT !.step = "write"]
  <1>1. /\ ereq[e] \in EntryRequest /\ Shaped(ereq[e]) /\ Seen(ereq[e])
        /\ ereq' = [ereq EXCEPT ![e] = rec]
    BY DEF EntryIInv, RequestsInv, Proceed
  <1>2. /\ rec \in EntryRequest /\ rec.step = "write" /\ rec.op = ereq[e].op
        /\ rec.id = ereq[e].id /\ rec.row = ereq[e].row /\ rec.early = ereq[e].early
    BY <1>1 DEF EntryRequest
  <1>3. Shaped(rec)
    BY <1>1, <1>2 DEF Shaped
  <1>4. Seen(rec)
    BY <1>1, <1>2 DEF Seen, Incomplete
  <1>5. TablesInv'
    BY TablesKept DEF EntryIInv
  <1> HIDE DEF rec
  <1> QED
    BY <1>1, <1>2, <1>3, <1>4, <1>5, RequestKeeps


-----------------------------------------------------------------------------
\* A request of the function service begins with a row that keeps the rules, but for
\* the overtime of an update, which is checked later.
LEMMA FunctionBegins ==
    ASSUME EntryIInv, NEW e \in EntryRequests, UNCHANGED declVars,
           \/ \E u \in Users, d \in Declarations, isOfficial, overtime, justification \in BOOLEAN :
                 createJobFunction(e, u, d, isOfficial, overtime, justification)
           \/ \E u \in Users, f \in FunctionIds :
                 \/ \E ref \in {"keep", "official", "custom"}, overtime \in BOOLEAN,
                       justification \in {"keep", "given", "cleared"} :
                       updateJobFunction(e, u, f, ref, overtime, justification)
                 \/ deleteJobFunction(e, u, f)
    PROVE  EntryIInv'
  <1>1. ASSUME NEW u \in Users, NEW d \in Declarations, NEW isOfficial \in BOOLEAN,
               NEW overtime \in BOOLEAN, NEW justification \in BOOLEAN,
               createJobFunction(e, u, d, isOfficial, overtime, justification)
        PROVE  EntryIInv'
    <2> DEFINE row == [life |-> "present", decl |-> d, official |-> isOfficial,
                       custom |-> ~isOfficial, overtime |-> overtime,
                       justification |-> justification]
    <2>1. FunctionReady(row) /\ row.decl = d
      BY DeclarationsAssumption DEF FunctionReady, FunctionRow, Life
    <2>2. /\ OwnedBy(u, d) /\ OvertimeJustified(row)
          /\ Begin(e, Busy("createFunction", NoEntry, row, {})) /\ UNCHANGED tables
      BY <1>1 DEF createJobFunction
    <2> HIDE DEF row
    <2>3. Shaped(Busy("createFunction", NoEntry, row, {}))
      BY <2>1, <2>2 DEF Shaped, Busy
    <2> QED
      BY <2>1, <2>2, <2>3, BeginKeeps DEF OwnedBy, Ops, FunctionReady
  <1>2. ASSUME NEW u \in Users, NEW f \in FunctionIds, NEW ref \in {"keep", "official", "custom"},
               NEW overtime \in BOOLEAN, NEW justification \in {"keep", "given", "cleared"},
               updateJobFunction(e, u, f, ref, overtime, justification)
        PROVE  EntryIInv'
    <2> DEFINE row == Merged(functions[f], ref, overtime, justification)
    <2>1. functions[f] \in FunctionRow /\ FunctionReady(functions[f])
      BY <1>2 DEF updateJobFunction, EntryIInv, TablesInv, FunctionStored
    <2>2. /\ row \in FunctionRow /\ row.life = "present" /\ row.decl = functions[f].decl
          /\ row.official = (IF ref = "keep" THEN functions[f].official ELSE ref = "official")
          /\ row.custom = (IF ref = "keep" THEN functions[f].custom ELSE ref = "custom")
      BY <2>1 DEF Merged, FunctionRow, FunctionReady
    <2>3. /\ OwnedBy(u, functions[f].decl)
          /\ Begin(e, Busy("updateFunction", f, row, {})) /\ UNCHANGED tables
      BY <1>2 DEF updateJobFunction
    <2> HIDE DEF row
    <2>4. FunctionReady(row) /\ row.decl \in Declarations
      BY <2>1, <2>2 DEF FunctionReady, FunctionRow
    <2>5. Shaped(Busy("updateFunction", f, row, {}))
      BY <2>4 DEF Shaped, Busy
    <2> QED
      BY <2>2, <2>3, <2>4, <2>5, BeginKeeps DEF OwnedBy, Ops
  <1>3. ASSUME NEW u \in Users, NEW f \in FunctionIds, deleteJobFunction(e, u, f)
        PROVE  EntryIInv'
    <2> DEFINE row == [NoFunction EXCEPT !.decl = functions[f].decl]
    <2>1. functions[f].decl \in Declarations
      BY <1>3 DEF deleteJobFunction, EntryIInv, TablesInv, FunctionStored, FunctionReady, FunctionRow
    <2>2. row \in FunctionRow /\ row.decl = functions[f].decl
      BY <2>1 DEF NoFunction, FunctionRow, Life
    <2>3. /\ OwnedBy(u, functions[f].decl)
          /\ Begin(e, Busy("deleteFunction", f, row, {})) /\ UNCHANGED tables
      BY <1>3 DEF deleteJobFunction
    <2> HIDE DEF row
    <2>4. Shaped(Busy("deleteFunction", f, row, {}))
      BY DEF Shaped, Busy
    <2> QED
      BY <2>1, <2>2, <2>3, <2>4, BeginKeeps DEF OwnedBy, Ops
  <1> QED
    BY <1>1, <1>2, <1>3

\* The same of the license service.
LEMMA LicenseBegins ==
    ASSUME EntryIInv, NEW e \in EntryRequests, UNCHANGED declVars,
           \/ \E u \in Users, d \in Declarations, type \in LicenseTypes : createLicense(e, u, d, type)
           \/ \E u \in Users, l \in LicenseIds :
                 \/ \E type \in LicenseTypes : updateLicense(e, u, l, type)
                 \/ deleteLicense(e, u, l)
    PROVE  EntryIInv'
  <1>1. ASSUME NEW u \in Users, NEW d \in Declarations, NEW type \in LicenseTypes,
               createLicense(e, u, d, type)
        PROVE  EntryIInv'
    <2> DEFINE row == [life |-> "present", decl |-> d, type |-> type]
    <2>1. LicenseReady(row) /\ row.decl = d
      BY DeclarationsAssumption, EntriesAssumption DEF LicenseReady, LicenseRow, Life
    <2>2. /\ OwnedBy(u, d)
          /\ Begin(e, Busy("createLicense", NoEntry, row, {})) /\ UNCHANGED tables
      BY <1>1 DEF createLicense
    <2> HIDE DEF row
    <2>3. Shaped(Busy("createLicense", NoEntry, row, {}))
      BY <2>1 DEF Shaped, Busy
    <2> QED
      BY <2>1, <2>2, <2>3, BeginKeeps DEF OwnedBy, Ops, LicenseReady
  <1>2. ASSUME NEW u \in Users, NEW l \in LicenseIds, NEW type \in LicenseTypes,
               updateLicense(e, u, l, type)
        PROVE  EntryIInv'
    <2> DEFINE row == [licenses[l] EXCEPT !.type = type]
    <2>1. licenses[l] \in LicenseRow /\ LicenseReady(licenses[l])
      BY <1>2 DEF updateLicense, EntryIInv, TablesInv, LicenseStored
    <2>2. /\ row \in LicenseRow /\ row.life = "present" /\ row.decl = licenses[l].decl
          /\ row.type = type
      BY <2>1 DEF LicenseRow, LicenseReady
    <2>3. /\ OwnedBy(u, licenses[l].decl)
          /\ Begin(e, Busy("updateLicense", l, row, {"type"})) /\ UNCHANGED tables
      BY <1>2 DEF updateLicense
    <2> HIDE DEF row
    <2>4. LicenseReady(row) /\ row.decl \in Declarations
      BY <2>1, <2>2, EntriesAssumption DEF LicenseReady, LicenseRow
    <2>5. Shaped(Busy("updateLicense", l, row, {"type"}))
      BY <2>4 DEF Shaped, Busy
    <2> QED
      BY <2>2, <2>3, <2>4, <2>5, BeginKeeps DEF OwnedBy, Ops
  <1>3. ASSUME NEW u \in Users, NEW l \in LicenseIds, deleteLicense(e, u, l)
        PROVE  EntryIInv'
    <2> DEFINE row == [NoLicense EXCEPT !.decl = licenses[l].decl]
    <2>1. licenses[l].decl \in Declarations
      BY <1>3 DEF deleteLicense, EntryIInv, TablesInv, LicenseStored, LicenseReady, LicenseRow
    <2>2. row \in LicenseRow /\ row.decl = licenses[l].decl
      BY <2>1 DEF NoLicense, LicenseRow, Life
    <2>3. /\ OwnedBy(u, licenses[l].decl)
          /\ Begin(e, Busy("deleteLicense", l, row, {})) /\ UNCHANGED tables
      BY <1>3 DEF deleteLicense
    <2> HIDE DEF row
    <2>4. Shaped(Busy("deleteLicense", l, row, {}))
      BY DEF Shaped, Busy
    <2> QED
      BY <2>1, <2>2, <2>3, <2>4, BeginKeeps DEF OwnedBy, Ops
  <1> QED
    BY <1>1, <1>2, <1>3

\* The same of the rest time service.
LEMMA RestBegins ==
    ASSUME EntryIInv, NEW e \in EntryRequests, UNCHANGED declVars,
           \/ \E u \in Users, d \in Declarations, type \in RestTypes, minutes \in Durations :
                 createRestTime(e, u, d, type, minutes)
           \/ \E u \in Users, t \in RestIds :
                 \/ \E sets \in SUBSET {"type", "minutes"}, type \in RestTypes, minutes \in Durations :
                       updateRestTime(e, u, t, sets, type, minutes)
                 \/ deleteRestTime(e, u, t)
    PROVE  EntryIInv'
  <1>1. ASSUME NEW u \in Users, NEW d \in Declarations, NEW type \in RestTypes,
               NEW minutes \in Durations, createRestTime(e, u, d, type, minutes)
        PROVE  EntryIInv'
    <2> DEFINE row == [life |-> "present", decl |-> d, type |-> type, minutes |-> minutes]
    <2>1. RestReady(row) /\ row.decl = d
      BY DeclarationsAssumption DEF RestReady, RestRow, Life, RestTypes, Durations
    <2>2. /\ OwnedBy(u, d)
          /\ Begin(e, Busy("createRest", NoEntry, row, {})) /\ UNCHANGED tables
      BY <1>1 DEF createRestTime
    <2> HIDE DEF row
    <2>3. Shaped(Busy("createRest", NoEntry, row, {}))
      BY <2>1 DEF Shaped, Busy
    <2> QED
      BY <2>1, <2>2, <2>3, BeginKeeps DEF OwnedBy, Ops, RestReady
  <1>2. ASSUME NEW u \in Users, NEW t \in RestIds, NEW sets \in SUBSET {"type", "minutes"},
               NEW type \in RestTypes, NEW minutes \in Durations,
               updateRestTime(e, u, t, sets, type, minutes)
        PROVE  EntryIInv'
    <2> DEFINE row == Assigned(rests[t], sets, type, minutes)
    <2>1. rests[t] \in RestRow /\ RestReady(rests[t])
      BY <1>2 DEF updateRestTime, EntryIInv, TablesInv, RestStored
    <2>2. /\ row \in RestRow /\ row.life = "present" /\ row.decl = rests[t].decl
          /\ row.type = type \/ row.type = rests[t].type
          /\ row.minutes = minutes \/ row.minutes = rests[t].minutes
      BY <2>1 DEF Assigned, RestRow, RestReady
    <2>3. /\ OwnedBy(u, rests[t].decl)
          /\ Begin(e, Busy("updateRest", t, row, sets)) /\ UNCHANGED tables
      BY <1>2 DEF updateRestTime
    <2> HIDE DEF row
    <2>4. RestReady(row) /\ row.decl \in Declarations
      BY <2>1, <2>2 DEF RestReady, RestRow, RestTypes, Durations
    <2>5. Shaped(Busy("updateRest", t, row, sets))
      BY <2>4 DEF Shaped, Busy
    <2> QED
      BY <2>2, <2>3, <2>4, <2>5, BeginKeeps DEF OwnedBy, Ops
  <1>3. ASSUME NEW u \in Users, NEW t \in RestIds, deleteRestTime(e, u, t)
        PROVE  EntryIInv'
    <2> DEFINE row == [NoRest EXCEPT !.decl = rests[t].decl]
    <2>1. rests[t].decl \in Declarations
      BY <1>3 DEF deleteRestTime, EntryIInv, TablesInv, RestStored, RestReady, RestRow
    <2>2. row \in RestRow /\ row.decl = rests[t].decl
      BY <2>1 DEF NoRest, RestRow, Life
    <2>3. /\ OwnedBy(u, rests[t].decl)
          /\ Begin(e, Busy("deleteRest", t, row, {})) /\ UNCHANGED tables
      BY <1>3 DEF deleteRestTime
    <2> HIDE DEF row
    <2>4. Shaped(Busy("deleteRest", t, row, {}))
      BY DEF Shaped, Busy
    <2> QED
      BY <2>1, <2>2, <2>3, <2>4, BeginKeeps DEF OwnedBy, Ops
  <1> QED
    BY <1>1, <1>2, <1>3


-----------------------------------------------------------------------------
\* The three checks.
LEMMA ChecksKeep ==
    ASSUME EntryIInv, NEW e \in EntryRequests, UNCHANGED declVars,
           CheckJobFunction(e) \/ CheckLicense(e) \/ CheckRestTime(e)
    PROVE  EntryIInv'
  <1>1. UNCHANGED tables /\ TablesInv'
    BY TablesKept DEF CheckJobFunction, CheckLicense, CheckRestTime, EntryIInv
  <1>2. CASE End(e)
    BY <1>1, <1>2, EndKeeps
  <1>3. ASSUME ~End(e)
        PROVE  /\ ereq[e].step = "check" /\ Incomplete(e) /\ Proceed(e)
               /\ ereq[e].op \in {"createFunction", "updateFunction"} =>
                     OvertimeJustified(ereq[e].row)
    <2>1. Shaped(ereq[e])
      BY DEF EntryIInv, RequestsInv
    <2>2. CASE CheckJobFunction(e)
      BY <1>3, <2>1, <2>2 DEF CheckJobFunction, Doing, Shaped
    <2>3. CASE CheckLicense(e)
      BY <1>3, <2>3 DEF CheckLicense, Doing
    <2>4. CASE CheckRestTime(e)
      BY <1>3, <2>4 DEF CheckRestTime, Doing
    <2> QED
      BY <2>2, <2>3, <2>4
  <1> QED
    BY <1>1, <1>2, <1>3, ProceedKeeps

-----------------------------------------------------------------------------
\* A row that keeps the rules may be stored in its table.
LEMMA FunctionWritten ==
    ASSUME TablesInv, NEW f \in FunctionIds, NEW row, FunctionStored(row),
           functions' = [functions EXCEPT ![f] = row], UNCHANGED <<licenses, rests>>
    PROVE  TablesInv'
  <1>1. functions' \in [FunctionIds -> FunctionRow]
    BY DEF TablesInv, FunctionStored
  <1>2. \A g \in FunctionIds : functions'[g] = row \/ functions'[g] = functions[g]
    BY DEF TablesInv
  <1>3. \A g \in FunctionIds : FunctionStored(functions'[g])
    BY <1>2 DEF TablesInv
  <1> QED
    BY <1>1, <1>3 DEF TablesInv

LEMMA LicenseWritten ==
    ASSUME TablesInv, NEW l \in LicenseIds, NEW row, LicenseStored(row),
           licenses' = [licenses EXCEPT ![l] = row], UNCHANGED <<functions, rests>>
    PROVE  TablesInv'
  <1>1. licenses' \in [LicenseIds -> LicenseRow]
    BY DEF TablesInv, LicenseStored
  <1>2. \A m \in LicenseIds : licenses'[m] = row \/ licenses'[m] = licenses[m]
    BY DEF TablesInv
  <1>3. \A m \in LicenseIds : LicenseStored(licenses'[m])
    BY <1>2 DEF TablesInv
  <1> QED
    BY <1>1, <1>3 DEF TablesInv

LEMMA RestWritten ==
    ASSUME TablesInv, NEW t \in RestIds, NEW row, RestStored(row),
           rests' = [rests EXCEPT ![t] = row], UNCHANGED <<functions, licenses>>
    PROVE  TablesInv'
  <1>1. rests' \in [RestIds -> RestRow]
    BY DEF TablesInv, RestStored
  <1>2. \A s \in RestIds : rests'[s] = row \/ rests'[s] = rests[s]
    BY DEF TablesInv
  <1>3. \A s \in RestIds : RestStored(rests'[s])
    BY <1>2 DEF TablesInv
  <1> QED
    BY <1>1, <1>3 DEF TablesInv

\* The three writes of a function: the row was ready, and a deleted one is empty.
LEMMA FunctionWrites ==
    ASSUME EntryIInv, NEW e \in EntryRequests, UNCHANGED declVars,
           \/ \E f \in FunctionIds : InsertJobFunction(e, f)
           \/ UpdateJobFunctionRow(e)
           \/ DeleteJobFunctionRow(e)
    PROVE  EntryIInv'
  <1>1. Shaped(ereq[e]) /\ TablesInv
    BY DEF EntryIInv, RequestsInv
  <1>2. ASSUME ereq[e].step = "write", ereq[e].op \in {"createFunction", "updateFunction"}
        PROVE  FunctionStored(ereq[e].row)
    BY <1>1, <1>2 DEF Shaped, FunctionStored, FunctionReady
  <1>3. ASSUME NEW f \in FunctionIds, InsertJobFunction(e, f) PROVE TablesInv'
    BY <1>1, <1>2, <1>3, FunctionWritten DEF InsertJobFunction, Doing
  <1>4. ASSUME UpdateJobFunctionRow(e) PROVE TablesInv'
    <2> DEFINE row == IF functions[ereq[e].id].life = "present" THEN ereq[e].row
                      ELSE functions[ereq[e].id]
    <2>1. ereq[e].step = "write" /\ ereq[e].op = "updateFunction" /\ ereq[e].id \in FunctionIds
      BY <1>1, <1>4 DEF UpdateJobFunctionRow, Doing, Shaped
    <2>2. FunctionStored(row)
      BY <1>1, <1>2, <2>1 DEF TablesInv
    <2>3. functions' = [functions EXCEPT ![ereq[e].id] = row] /\ UNCHANGED <<licenses, rests>>
      BY <1>4 DEF UpdateJobFunctionRow
    <2> HIDE DEF row
    <2> QED
      BY <1>1, <2>1, <2>2, <2>3, FunctionWritten
  <1>5. ASSUME DeleteJobFunctionRow(e) PROVE TablesInv'
    <2>1. ereq[e].id \in FunctionIds
      BY <1>1, <1>5 DEF DeleteJobFunctionRow, Doing, Shaped
    <2>2. FunctionStored([NoFunction EXCEPT !.life = "deleted"])
      BY DEF FunctionStored, NoFunction, FunctionRow, Life
    <2> QED
      BY <1>1, <1>5, <2>1, <2>2, FunctionWritten DEF DeleteJobFunctionRow
  <1>6. End(e)
    BY DEF InsertJobFunction, UpdateJobFunctionRow, DeleteJobFunctionRow
  <1> QED
    BY <1>3, <1>4, <1>5, <1>6, EndKeeps

\* The three writes of a license: an update replaces the type alone.
LEMMA LicenseWrites ==
    ASSUME EntryIInv, NEW e \in EntryRequests, UNCHANGED declVars,
           \/ \E l \in LicenseIds : InsertLicense(e, l)
           \/ UpdateLicenseRow(e)
           \/ DeleteLicenseRow(e)
    PROVE  EntryIInv'
  <1>1. Shaped(ereq[e]) /\ TablesInv
    BY DEF EntryIInv, RequestsInv
  <1>2. ASSUME ereq[e].op \in {"createLicense", "updateLicense"}
        PROVE  LicenseReady(ereq[e].row) /\ LicenseStored(ereq[e].row)
    BY <1>1, <1>2 DEF Shaped, LicenseStored, LicenseReady
  <1>3. ASSUME NEW l \in LicenseIds, InsertLicense(e, l) PROVE TablesInv'
    BY <1>1, <1>2, <1>3, LicenseWritten DEF InsertLicense, Doing
  <1>4. ASSUME UpdateLicenseRow(e) PROVE TablesInv'
    <2> DEFINE old == licenses[ereq[e].id]
               row == IF old.life = "present" THEN [old EXCEPT !.type = ereq[e].row.type] ELSE old
    <2>1. ereq[e].op = "updateLicense" /\ ereq[e].id \in LicenseIds
      BY <1>1, <1>4 DEF UpdateLicenseRow, Doing, Shaped
    <2>2. old \in LicenseRow /\ LicenseStored(old)
      BY <1>1, <2>1 DEF TablesInv
    <2>3. ereq[e].row.type \in LicenseTypes
      BY <1>2, <2>1 DEF LicenseReady, LicenseRow
    <2>4. LicenseStored(row)
      BY <2>2, <2>3, EntriesAssumption DEF LicenseStored, LicenseReady, LicenseRow
    <2>5. licenses' = [licenses EXCEPT ![ereq[e].id] = row] /\ UNCHANGED <<functions, rests>>
      BY <1>4 DEF UpdateLicenseRow
    <2> HIDE DEF row
    <2> QED
      BY <1>1, <2>1, <2>4, <2>5, LicenseWritten
  <1>5. ASSUME DeleteLicenseRow(e) PROVE TablesInv'
    <2>1. ereq[e].id \in LicenseIds
      BY <1>1, <1>5 DEF DeleteLicenseRow, Doing, Shaped
    <2>2. LicenseStored([NoLicense EXCEPT !.life = "deleted"])
      BY DEF LicenseStored, NoLicense, LicenseRow, Life
    <2> QED
      BY <1>1, <1>5, <2>1, <2>2, LicenseWritten DEF DeleteLicenseRow
  <1>6. End(e)
    BY DEF InsertLicense, UpdateLicenseRow, DeleteLicenseRow
  <1> QED
    BY <1>3, <1>4, <1>5, <1>6, EndKeeps

\* The three writes of a rest time: an update replaces the given columns.
LEMMA RestWrites ==
    ASSUME EntryIInv, NEW e \in EntryRequests, UNCHANGED declVars,
           \/ \E t \in RestIds : InsertRestTime(e, t)
           \/ UpdateRestTimeRow(e)
           \/ DeleteRestTimeRow(e)
    PROVE  EntryIInv'
  <1>1. Shaped(ereq[e]) /\ TablesInv
    BY DEF EntryIInv, RequestsInv
  <1>2. ASSUME ereq[e].op \in {"createRest", "updateRest"}
        PROVE  RestReady(ereq[e].row) /\ RestStored(ereq[e].row)
    BY <1>1, <1>2 DEF Shaped, RestStored, RestReady
  <1>3. ASSUME NEW t \in RestIds, InsertRestTime(e, t) PROVE TablesInv'
    BY <1>1, <1>2, <1>3, RestWritten DEF InsertRestTime, Doing
  <1>4. ASSUME UpdateRestTimeRow(e) PROVE TablesInv'
    <2> DEFINE sets == ereq[e].sets
               old == rests[ereq[e].id]
               given == Assigned(old, sets, ereq[e].row.type, ereq[e].row.minutes)
               row == IF old.life # "present" THEN old ELSE given
    <2>1. ereq[e].op = "updateRest" /\ ereq[e].id \in RestIds
      BY <1>1, <1>4 DEF UpdateRestTimeRow, Doing, Shaped
    <2>2. old \in RestRow /\ RestStored(old)
      BY <1>1, <2>1 DEF TablesInv
    <2>3. /\ ereq[e].row.type \in RestTypes
          /\ ereq[e].row.minutes \in Durations /\ ereq[e].row.minutes > 0
      BY <1>2, <2>1 DEF RestReady, RestRow, Durations
    <2>4. ASSUME old.life = "present" PROVE RestReady(given)
      <3>1. /\ given \in RestRow /\ given.life = "present" /\ given.decl = old.decl
            /\ given.type = ereq[e].row.type \/ given.type = old.type
            /\ given.minutes = ereq[e].row.minutes \/ given.minutes = old.minutes
        BY <2>2, <2>3, <2>4 DEF Assigned, RestRow
      <3> HIDE DEF given
      <3> QED
        BY <2>2, <2>3, <2>4, <3>1 DEF RestReady, RestStored, RestTypes
    <2>5. RestStored(row)
      <3> HIDE DEF given
      <3> QED
        BY <2>2, <2>4 DEF RestStored, RestReady
    <2>6. rests' = [rests EXCEPT ![ereq[e].id] = row] /\ UNCHANGED <<functions, licenses>>
      BY <1>4 DEF UpdateRestTimeRow
    <2> HIDE DEF row
    <2> QED
      BY <1>1, <2>1, <2>5, <2>6, RestWritten
  <1>5. ASSUME DeleteRestTimeRow(e) PROVE TablesInv'
    <2>1. ereq[e].id \in RestIds
      BY <1>1, <1>5 DEF DeleteRestTimeRow, Doing, Shaped
    <2>2. RestStored([NoRest EXCEPT !.life = "deleted"])
      BY DEF RestStored, NoRest, RestRow, Life
    <2> QED
      BY <1>1, <1>5, <2>1, <2>2, RestWritten DEF DeleteRestTimeRow
  <1>6. End(e)
    BY DEF InsertRestTime, UpdateRestTimeRow, DeleteRestTimeRow
  <1> QED
    BY <1>3, <1>4, <1>5, <1>6, EndKeeps


-----------------------------------------------------------------------------
\* Every step of the four services preserves the invariant.
LEMMA NextKeepsEntries == EntryIInv /\ [Next]_vars => EntryIInv'
  <1> SUFFICES ASSUME EntryIInv, [Next]_vars PROVE EntryIInv'
    OBVIOUS
  <1>1. CASE UNCHANGED vars
    BY <1>1, DeclarationsKeepEntries DEF vars
  <1>2. CASE DeclNext /\ UNCHANGED entryVars
    BY <1>2, DeclarationsKeepEntries
  <1>3. ASSUME NEW e \in EntryRequests, UNCHANGED declVars,
               FunctionNext(e) \/ LicenseNext(e) \/ RestNext(e) \/ EntryStatementFails(e)
        PROVE  EntryIInv'
    <2>1. CASE FunctionNext(e)
      BY <1>3, <2>1, FunctionBegins, ChecksKeep, FunctionWrites DEF FunctionNext
    <2>2. CASE LicenseNext(e)
      BY <1>3, <2>2, LicenseBegins, ChecksKeep, LicenseWrites DEF LicenseNext
    <2>3. CASE RestNext(e)
      BY <1>3, <2>3, RestBegins, ChecksKeep, RestWrites DEF RestNext
    <2>4. CASE EntryStatementFails(e)
      BY <1>3, <2>4, EndKeeps, TablesKept DEF EntryStatementFails, EntryIInv
    <2> QED
      BY <1>3, <2>1, <2>2, <2>3, <2>4
  <1> QED
    BY <1>1, <1>2, <1>3 DEF Next, EntryNext

\* The statement that inserts, updates or deletes the entry of a request.
Writes(e) ==
    \/ \E f \in FunctionIds : InsertJobFunction(e, f)
    \/ UpdateJobFunctionRow(e) \/ DeleteJobFunctionRow(e)
    \/ \E l \in LicenseIds : InsertLicense(e, l)
    \/ UpdateLicenseRow(e) \/ DeleteLicenseRow(e)
    \/ \E t \in RestIds : InsertRestTime(e, t)
    \/ UpdateRestTimeRow(e) \/ DeleteRestTimeRow(e)

\* Nothing else changes a table.
LEMMA OnlyWritesWrite ==
    [Next]_vars => UNCHANGED tables \/ \E e \in EntryRequests : Writes(e)
  <1> SUFFICES ASSUME [Next]_vars, ~ UNCHANGED tables
               PROVE  \E e \in EntryRequests : Writes(e)
    OBVIOUS
  <1>1. EntryNext
    BY DEF Next, vars, entryVars, tables
  <1>2. PICK e \in EntryRequests :
           FunctionNext(e) \/ LicenseNext(e) \/ RestNext(e) \/ EntryStatementFails(e)
    BY <1>1 DEF EntryNext
  <1>3. /\ ~ CheckJobFunction(e) /\ ~ CheckLicense(e) /\ ~ CheckRestTime(e)
        /\ ~ EntryStatementFails(e)
    BY DEF CheckJobFunction, CheckLicense, CheckRestTime, EntryStatementFails
  <1>4. CASE FunctionNext(e)
    BY <1>3, <1>4 DEF FunctionNext, createJobFunction, updateJobFunction, deleteJobFunction, Writes
  <1>5. CASE LicenseNext(e)
    BY <1>3, <1>5 DEF LicenseNext, createLicense, updateLicense, deleteLicense, Writes
  <1>6. CASE RestNext(e)
    BY <1>3, <1>6 DEF RestNext, createRestTime, updateRestTime, deleteRestTime, Writes
  <1> QED
    BY <1>2, <1>3, <1>4, <1>5, <1>6

\* A write is the last step of its request.
LEMMA WritesEnd == ASSUME NEW e, Writes(e) PROVE ereq[e].step = "write" /\ End(e)
  BY DEF Writes, Doing, InsertJobFunction, UpdateJobFunctionRow, DeleteJobFunctionRow,
     InsertLicense, UpdateLicenseRow, DeleteLicenseRow, InsertRestTime, UpdateRestTimeRow,
     DeleteRestTimeRow

LEMMA EntryInvariantHolds == Spec => []EntryIInv
  BY EntriesStart, NextKeepsEntries, PTL DEF Spec

\* The tables of the entries keep their columns, the NOT NULL ones among them, and a
\* request in progress holds a row of one of them.
THEOREM EntriesTypeCorrect == Spec => []EntriesTypeOK
  <1>1. EntryIInv => EntriesTypeOK
    <2> SUFFICES ASSUME EntryIInv PROVE EntriesTypeOK
      OBVIOUS
    <2>1. \A e \in EntryRequests : ereq[e] \in EntryRequest
      BY DEF EntryIInv, RequestsInv
    <2> QED
      BY <2>1 DEF EntryIInv, TablesInv, FunctionStored, FunctionReady, LicenseStored,
         LicenseReady, RestStored, RestReady, EntryRequest, EntriesTypeOK
  <1> QED
    BY <1>1, EntryInvariantHolds, PTL

\* However the updates of a function overlap, the stored row refers to one catalogue
\* and justifies its overtime: an update writes every column of the row it checked.
THEOREM FunctionRowsStayConsistent == Spec => []FunctionRowsConsistent
  <1>1. EntryIInv => FunctionRowsConsistent
    BY DEF EntryIInv, TablesInv, FunctionStored, FunctionReady, FunctionRowsConsistent
  <1> QED
    BY <1>1, EntryInvariantHolds, PTL

\* An update or a second delete that comes after the delete of an entry leaves it
\* deleted: the three UPDATE statements look for a row that is there.
THEOREM DeletedEntriesStayDeleted == Spec => DeletedStaysDeleted
  <1> DEFINE A == /\ \A f \in FunctionIds : functions[f].life = "deleted" => functions'[f] = functions[f]
                  /\ \A l \in LicenseIds : licenses[l].life = "deleted" => licenses'[l] = licenses[l]
                  /\ \A t \in RestIds : rests[t].life = "deleted" => rests'[t] = rests[t]
  <1>1. EntryIInv /\ [Next]_vars => A
    <2> SUFFICES ASSUME EntryIInv, [Next]_vars PROVE A
      OBVIOUS
    <2>1. CASE UNCHANGED tables
      BY <2>1 DEF tables
    <2>2. ASSUME NEW e \in EntryRequests,
                 \/ \E f \in FunctionIds : InsertJobFunction(e, f)
                 \/ UpdateJobFunctionRow(e)
                 \/ DeleteJobFunctionRow(e)
          PROVE  A
      <3>1. UNCHANGED <<licenses, rests>>
        BY <2>2 DEF InsertJobFunction, UpdateJobFunctionRow, DeleteJobFunctionRow
      <3>2. ASSUME NEW f \in FunctionIds, functions[f].life = "deleted"
            PROVE  functions'[f] = functions[f]
        <4>1. functions[f] = [NoFunction EXCEPT !.life = "deleted"]
          BY <3>2 DEF EntryIInv, TablesInv, FunctionStored
        <4> QED
          BY <2>2, <3>2, <4>1 DEF InsertJobFunction, UpdateJobFunctionRow,
             DeleteJobFunctionRow, EntryIInv, TablesInv
      <3> QED
        BY <3>1, <3>2
    <2>3. ASSUME NEW e \in EntryRequests,
                 \/ \E l \in LicenseIds : InsertLicense(e, l)
                 \/ UpdateLicenseRow(e)
                 \/ DeleteLicenseRow(e)
          PROVE  A
      <3>1. UNCHANGED <<functions, rests>>
        BY <2>3 DEF InsertLicense, UpdateLicenseRow, DeleteLicenseRow
      <3>2. ASSUME NEW l \in LicenseIds, licenses[l].life = "deleted"
            PROVE  licenses'[l] = licenses[l]
        <4>1. licenses[l] = [NoLicense EXCEPT !.life = "deleted"]
          BY <3>2 DEF EntryIInv, TablesInv, LicenseStored
        <4> QED
          BY <2>3, <3>2, <4>1 DEF InsertLicense, UpdateLicenseRow, DeleteLicenseRow,
             EntryIInv, TablesInv
      <3> QED
        BY <3>1, <3>2
    <2>4. ASSUME NEW e \in EntryRequests,
                 \/ \E t \in RestIds : InsertRestTime(e, t)
                 \/ UpdateRestTimeRow(e)
                 \/ DeleteRestTimeRow(e)
          PROVE  A
      <3>1. UNCHANGED <<functions, licenses>>
        BY <2>4 DEF InsertRestTime, UpdateRestTimeRow, DeleteRestTimeRow
      <3>2. ASSUME NEW t \in RestIds, rests[t].life = "deleted"
            PROVE  rests'[t] = rests[t]
        <4>1. rests[t] = [NoRest EXCEPT !.life = "deleted"]
          BY <3>2 DEF EntryIInv, TablesInv, RestStored
        <4> QED
          BY <2>4, <3>2, <4>1 DEF InsertRestTime, UpdateRestTimeRow, DeleteRestTimeRow,
             EntryIInv, TablesInv
      <3> QED
        BY <3>1, <3>2
    <2>5. \/ UNCHANGED tables
          \/ \E e \in EntryRequests :
                \/ \E f \in FunctionIds : InsertJobFunction(e, f)
                \/ UpdateJobFunctionRow(e) \/ DeleteJobFunctionRow(e)
          \/ \E e \in EntryRequests :
                \/ \E l \in LicenseIds : InsertLicense(e, l)
                \/ UpdateLicenseRow(e) \/ DeleteLicenseRow(e)
          \/ \E e \in EntryRequests :
                \/ \E t \in RestIds : InsertRestTime(e, t)
                \/ UpdateRestTimeRow(e) \/ DeleteRestTimeRow(e)
      BY OnlyWritesWrite DEF Writes
    <2> QED
      BY <2>1, <2>2, <2>3, <2>4, <2>5
  <1>2. EntryIInv /\ [Next]_vars => [A]_vars
    BY <1>1
  <1> QED
    BY <1>2, EntryInvariantHolds, PTL DEF Spec, DeletedStaysDeleted

\* A request that began after the declaration had left Incomplete writes nothing,
\* although the status is read in one statement and the entry written in another.
THEOREM LateRequestsWriteNothing == Spec => WritersBeganIncomplete
  <1> DEFINE A == tables' # tables => \E e \in EntryRequests :
                     /\ ereq[e].step = "write" /\ ereq'[e].step = "idle"
                     /\ ereq[e].early
  <1>1. EntryIInv /\ [Next]_vars => A
    <2> SUFFICES ASSUME EntryIInv, [Next]_vars, tables' # tables,
                        NEW e \in EntryRequests, ereq[e].step = "write", End(e)
                 PROVE  ereq[e].step = "write" /\ ereq'[e].step = "idle" /\ ereq[e].early
      BY OnlyWritesWrite, WritesEnd
    <2>1. ereq \in [EntryRequests -> EntryRequest] /\ Seen(ereq[e])
      BY DEF EntryIInv, RequestsInv
    <2>2. ereq'[e] = EntryIdle
      BY <2>1 DEF End
    <2> QED
      BY <2>1, <2>2, EntryIdleOK DEF Seen
  <1>2. EntryIInv /\ [Next]_vars => [A]_vars
    BY <1>1
  <1> QED
    BY <1>2, EntryInvariantHolds, PTL DEF Spec, WritersBeganIncomplete

-----------------------------------------------------------------------------
(* The three tables, each as EntryTable says *)


\* What an operation on an entry knows of it: that it was there, and whose it is.
Knows(table, c) ==
    /\ table[c.id].life # "absent"
    /\ table[c.id].life = "present" => table[c.id].decl = c.row.decl

Linked(c) ==
    /\ c.op \in {"updateFunction", "deleteFunction"} => Knows(functions, c)
    /\ c.op \in {"updateLicense", "deleteLicense"} => Knows(licenses, c)
    /\ c.op \in {"updateRest", "deleteRest"} => Knows(rests, c)

AllLinked == \A e \in EntryRequests : Linked(ereq[e])

\* What a step may do beside the tables.
Moves == \E d \in Declarations :
            \/ Stages[d] = "none" /\ Stages' = [Stages EXCEPT ![d] = "open"]
            \/ Stages[d] = "open" /\ Stages' = [Stages EXCEPT ![d] = "closed"]
Admits(e) == \E d \in Declarations :
            /\ Admitted[e] = NoDeclaration /\ Stages[d] = "open"
            /\ Admitted' = [Admitted EXCEPT ![e] = d]
Leaves(e) == Admitted[e] # NoDeclaration /\ Admitted' = [Admitted EXCEPT ![e] = NoDeclaration]

Quiet ==
    \/ Stages' = Stages /\ Admitted' = Admitted
    \/ Moves /\ Admitted' = Admitted
    \/ \E e \in EntryRequests : Stages' = Stages /\ (Admits(e) \/ Leaves(e))

\* Such a step, with the table as it was, is one of the abstract table.
LEMMA QuietSteps ==
    ASSUME Quiet
    PROVE  /\ functions' = functions => [FunctionTable!Next]_(FunctionTable!vars)
           /\ licenses' = licenses => [LicenseTable!Next]_(LicenseTable!vars)
           /\ rests' = rests => [RestTable!Next]_(RestTable!vars)
  <1>1. CASE Stages' = Stages /\ Admitted' = Admitted
    BY <1>1 DEF FunctionTable!vars, LicenseTable!vars, RestTable!vars
  <1>2. CASE Moves /\ Admitted' = Admitted
    <2>1. PICK d \in Declarations :
             \/ Stages[d] = "none" /\ Stages' = [Stages EXCEPT ![d] = "open"]
             \/ Stages[d] = "open" /\ Stages' = [Stages EXCEPT ![d] = "closed"]
      BY <1>2 DEF Moves
    <2>2. functions' = functions => FunctionTable!Move(d, "none", "open") \/ FunctionTable!Move(d, "open", "closed")
      BY <1>2, <2>1 DEF FunctionTable!Move
    <2>3. licenses' = licenses => LicenseTable!Move(d, "none", "open") \/ LicenseTable!Move(d, "open", "closed")
      BY <1>2, <2>1 DEF LicenseTable!Move
    <2>4. rests' = rests => RestTable!Move(d, "none", "open") \/ RestTable!Move(d, "open", "closed")
      BY <1>2, <2>1 DEF RestTable!Move
    <2> QED
      BY <2>2, <2>3, <2>4 DEF FunctionTable!Next, LicenseTable!Next, RestTable!Next
  <1>3. ASSUME NEW e \in EntryRequests, Stages' = Stages, Admits(e)
        PROVE  /\ functions' = functions => FunctionTable!Next
               /\ licenses' = licenses => LicenseTable!Next
               /\ rests' = rests => RestTable!Next
    <2>1. PICK d \in Declarations :
            /\ Admitted[e] = NoDeclaration /\ Stages[d] = "open"
            /\ Admitted' = [Admitted EXCEPT ![e] = d]
      BY <1>3 DEF Admits
    <2>2. /\ functions' = functions => FunctionTable!Admit(e, d)
          /\ licenses' = licenses => LicenseTable!Admit(e, d)
          /\ rests' = rests => RestTable!Admit(e, d)
      BY <1>3, <2>1 DEF FunctionTable!Admit, LicenseTable!Admit, RestTable!Admit
    <2> QED
      BY <2>2 DEF FunctionTable!Next, LicenseTable!Next, RestTable!Next
  <1>4. ASSUME NEW e \in EntryRequests, Stages' = Stages, Leaves(e)
        PROVE  /\ functions' = functions => FunctionTable!Next
               /\ licenses' = licenses => LicenseTable!Next
               /\ rests' = rests => RestTable!Next
    <2>1. /\ functions' = functions => FunctionTable!Leave(e)
          /\ licenses' = licenses => LicenseTable!Leave(e)
          /\ rests' = rests => RestTable!Leave(e)
      BY <1>4 DEF Leaves, FunctionTable!Leave, LicenseTable!Leave, RestTable!Leave
    <2> QED
      BY <2>1 DEF FunctionTable!Next, LicenseTable!Next, RestTable!Next
  <1> QED
    BY <1>1, <1>2, <1>3, <1>4 DEF Quiet

\* The declarations service moves one declaration at a time, forwards.
LEMMA DeclarationsMove ==
    ASSUME IInv, [DeclNext]_declVars, ereq' = ereq
    PROVE  Admitted' = Admitted /\ (Stages' = Stages \/ Moves)
  <1> DEFINE status == [e \in Declarations |-> getCurrentStatus(e)]
  <1>1. Admitted' = Admitted
    BY DEF Admitted
  <1>2. [Lifecycle!Next]_(Lifecycle!vars)
    BY NextRefines
  <1>3. /\ Stages = [d \in Declarations |-> Stages[d]]
        /\ \A d \in Declarations :
              Stages[d] = IF owner[d] = NoUser THEN "none"
                          ELSE IF status[d] = "Incomplete" THEN "open" ELSE "closed"
    BY DEF Stages
  <1>4. /\ Stages' = [d \in Declarations |-> Stages'[d]]
        /\ \A d \in Declarations :
              Stages'[d] = IF owner'[d] = NoUser THEN "none"
                           ELSE IF status'[d] = "Incomplete" THEN "open" ELSE "closed"
    BY DEF Stages
  <1>5. /\ owner \in [Declarations -> Users \cup {NoUser}]
        /\ status = [e \in Declarations |-> status[e]]
    BY DEF IInv, TypeOK
  <1>6. CASE UNCHANGED Lifecycle!vars
    <2>1. owner' = owner /\ status' = status
      BY <1>6 DEF Lifecycle!vars
    <2> HIDE DEF status
    <2> QED
      BY <1>1, <1>3, <1>4, <2>1
  <1>7. ASSUME NEW u \in Users, NEW d \in Declarations, Lifecycle!Register(u, d)
        PROVE  Moves
    <2>1. /\ owner[d] = NoUser /\ owner' = [owner EXCEPT ![d] = u]
          /\ status' = [status EXCEPT ![d] = "Incomplete"]
      BY <1>7 DEF Lifecycle!Register
    <2> HIDE DEF status
    <2>2. Stages[d] = "none" /\ Stages' = [Stages EXCEPT ![d] = "open"]
      BY <1>3, <1>4, <1>5, <2>1, UsersAssumption
    <2> QED
      BY <2>2 DEF Moves
  <1>8. ASSUME NEW u \in Users, NEW d \in Declarations, NEW s, Lifecycle!Advance(u, d, s)
        PROVE  Stages' = Stages \/ Moves
    <2>1. /\ owner[d] # NoUser /\ owner' = owner
          /\ status' = [status EXCEPT ![d] = s] /\ s # "Incomplete"
      BY <1>8 DEF Lifecycle!Advance, Lifecycle!Successors
    <2> HIDE DEF status
    <2>2. CASE status[d] = "Incomplete"
      <3>1. Stages[d] = "open" /\ Stages' = [Stages EXCEPT ![d] = "closed"]
        BY <1>3, <1>4, <1>5, <2>1, <2>2
      <3> QED
        BY <3>1 DEF Moves
    <2>3. CASE status[d] # "Incomplete"
      BY <1>3, <1>4, <1>5, <2>1, <2>3
    <2> QED
      BY <2>2, <2>3
  <1> QED
    BY <1>1, <1>2, <1>6, <1>7, <1>8 DEF Lifecycle!Next

\* What the first statement of a request leaves: it has an owned declaration, knows
\* whether that is Incomplete, and knows its entry.
Begun(e) ==
    /\ ereq[e].step = "idle"
    /\ \E rec : /\ Begin(e, rec)
                /\ rec.step = "check" /\ rec.row.decl \in Declarations
                /\ owner[rec.row.decl] # NoUser
                /\ rec.early = (getCurrentStatus(rec.row.decl) = "Incomplete")
                /\ Linked(rec)

\* A request is admitted by its first statement, or is too late.
LEMMA BeginAdmits ==
    ASSUME EntryIInv, NEW e \in EntryRequests, Begun(e), UNCHANGED declVars
    PROVE  Stages' = Stages /\ (Admitted' = Admitted \/ Admits(e))
  <1>1. PICK rec : /\ Begin(e, rec)
                   /\ rec.step = "check" /\ rec.row.decl \in Declarations
                   /\ owner[rec.row.decl] # NoUser
                   /\ rec.early = (getCurrentStatus(rec.row.decl) = "Incomplete")
    BY DEF Begun
  <1>2. ereq[e].step = "idle" /\ UNCHANGED <<owner, history>>
    BY DEF Begun, declVars
  <1>3. Stages' = Stages
    BY <1>2 DEF Stages, getCurrentStatus
  <1>4. ereq'[e] = rec /\ \A q \in EntryRequests \ {e} : ereq'[q] = ereq[q]
    BY <1>1 DEF Begin, EntryIInv, RequestsInv
  <1>5. Admitted[e] = NoDeclaration
    BY <1>2 DEF Admitted
  <1>6. CASE rec.early
    <2>1. Stages[rec.row.decl] = "open"
      BY <1>1, <1>6 DEF Stages
    <2>2. Admitted' = [Admitted EXCEPT ![e] = rec.row.decl]
      BY <1>1, <1>4, <1>6 DEF Admitted
    <2> QED
      BY <1>1, <1>3, <1>5, <2>1, <2>2 DEF Admits
  <1>7. CASE ~ rec.early
    BY <1>1, <1>3, <1>4, <1>5, <1>7 DEF Admitted
  <1> QED
    BY <1>6, <1>7

\* The checks that let a request go on keep it admitted.
LEMMA ProceedStays ==
    ASSUME EntryIInv, NEW e \in EntryRequests, ereq[e].step = "check", Proceed(e),
           UNCHANGED declVars
    PROVE  Stages' = Stages /\ Admitted' = Admitted
  <1>1. UNCHANGED <<owner, history>>
    BY DEF declVars
  <1>2. ereq' = [ereq EXCEPT ![e].step = "write"] /\ ereq \in [EntryRequests -> EntryRequest]
    BY DEF Proceed, EntryIInv, RequestsInv
  <1>3. /\ ereq'[e].step = "write" /\ ereq'[e].early = ereq[e].early
        /\ ereq'[e].row = ereq[e].row
        /\ \A q \in EntryRequests \ {e} : ereq'[q] = ereq[q]
    BY <1>2 DEF EntryRequest
  <1> QED
    BY <1>1, <1>3 DEF Stages, Admitted, getCurrentStatus

\* A request that ends leaves, if it was admitted.
LEMMA EndLeaves ==
    ASSUME EntryIInv, NEW e \in EntryRequests, End(e), UNCHANGED declVars
    PROVE  /\ Stages' = Stages /\ (Admitted' = Admitted \/ Leaves(e))
           /\ ereq[e].step = "write" => Leaves(e) /\ Admitted[e] = ereq[e].row.decl
  <1>1. UNCHANGED <<owner, history>>
    BY DEF declVars
  <1>2. Stages' = Stages
    BY <1>1 DEF Stages, getCurrentStatus
  <1>3. ereq'[e] = EntryIdle /\ \A q \in EntryRequests \ {e} : ereq'[q] = ereq[q]
    BY DEF End, EntryIInv, RequestsInv
  <1>4. Admitted' = [Admitted EXCEPT ![e] = NoDeclaration]
    BY <1>3, EntryIdleOK DEF Admitted
  <1>5. Seen(ereq[e])
    BY DEF EntryIInv, RequestsInv
  <1>6. CASE Admitted[e] = NoDeclaration
    <2>1. Admitted' = Admitted
      BY <1>4, <1>6 DEF Admitted
    <2>2. ereq[e].step # "write"
      BY <1>5, <1>6, DeclarationsAssumption DEF Admitted, Seen
    <2> QED
      BY <1>2, <2>1, <2>2
  <1>7. CASE Admitted[e] # NoDeclaration
    BY <1>2, <1>4, <1>7 DEF Leaves, Admitted
  <1> QED
    BY <1>6, <1>7

-----------------------------------------------------------------------------
\* The statement that ends a request of each service is one operation of its table.
LEMMA FunctionWriteIsOne ==
    ASSUME EntryIInv, NEW e \in EntryRequests, Linked(ereq[e]), UNCHANGED declVars,
           \/ \E f \in FunctionIds : InsertJobFunction(e, f)
           \/ UpdateJobFunctionRow(e)
           \/ DeleteJobFunctionRow(e)
    PROVE  FunctionTable!Leave(e) /\ UNCHANGED <<licenses, rests>>
  <1> DEFINE c == ereq[e]
  <1>1. /\ c.step = "write" /\ End(e) /\ UNCHANGED <<licenses, rests>>
        /\ Shaped(c) /\ TablesInv
    BY DEF InsertJobFunction, UpdateJobFunctionRow, DeleteJobFunctionRow, Doing, EntryIInv, RequestsInv
  <1>2. Leaves(e) /\ Stages' = Stages /\ Admitted[e] = c.row.decl
    BY <1>1, EndLeaves
  <1>3. /\ \A f \in FunctionIds : functions[f] \in FunctionRow /\ FunctionStored(functions[f])
        /\ functions = [f \in FunctionIds |-> functions[f]]
    BY <1>1 DEF TablesInv
  <1>4. ASSUME NEW f \in FunctionIds, InsertJobFunction(e, f)
        PROVE  FunctionTable!Insert(e, f, c.row) /\ c.row \in FunctionRow
    <2>1. FunctionReady(c.row)
      BY <1>1, <1>4 DEF Shaped, InsertJobFunction, Doing
    <2> QED
      BY <1>2, <1>4, <2>1 DEF FunctionTable!Insert, InsertJobFunction, FunctionReady
  <1>5. ASSUME UpdateJobFunctionRow(e)
        PROVE  \/ functions' = functions
               \/ c.id \in FunctionIds /\ c.row \in FunctionRow /\ FunctionTable!Update(e, c.id, c.row)
    <2>1. /\ FunctionReady(c.row) /\ c.id \in FunctionIds /\ Knows(functions, c)
          /\ functions' = [functions EXCEPT ![c.id] =
                              IF functions[c.id].life = "present" THEN c.row ELSE functions[c.id]]
      BY <1>1, <1>5 DEF Shaped, Linked, UpdateJobFunctionRow, Doing
    <2> HIDE DEF c
    <2>2. CASE functions[c.id].life = "present"
      BY <1>2, <2>1, <2>2 DEF Knows, FunctionTable!Update, FunctionReady
    <2>3. CASE functions[c.id].life # "present"
      BY <1>3, <2>1, <2>3
    <2> QED
      BY <2>2, <2>3 DEF c
  <1>6. ASSUME DeleteJobFunctionRow(e)
        PROVE  functions' = functions \/ (c.id \in FunctionIds /\ FunctionTable!Delete(e, c.id))
    <2>1. /\ c.id \in FunctionIds /\ Knows(functions, c)
          /\ functions' = [functions EXCEPT ![c.id] = [NoFunction EXCEPT !.life = "deleted"]]
      BY <1>1, <1>6 DEF Shaped, Linked, DeleteJobFunctionRow, Doing
    <2> HIDE DEF c
    <2>2. CASE functions[c.id].life = "present"
      BY <1>2, <2>1, <2>2 DEF Knows, FunctionTable!Delete
    <2>3. CASE functions[c.id].life # "present"
      <3>1. functions[c.id] = [NoFunction EXCEPT !.life = "deleted"]
        BY <1>3, <2>1, <2>3 DEF Knows, FunctionStored, FunctionRow, Life
      <3> QED
        BY <1>3, <2>1, <3>1
    <2> QED
      BY <2>2, <2>3 DEF c
  <1> QED
    BY <1>1, <1>2, <1>4, <1>5, <1>6 DEF Leaves, FunctionTable!Leave

LEMMA LicenseWriteIsOne ==
    ASSUME EntryIInv, NEW e \in EntryRequests, Linked(ereq[e]), UNCHANGED declVars,
           \/ \E l \in LicenseIds : InsertLicense(e, l)
           \/ UpdateLicenseRow(e)
           \/ DeleteLicenseRow(e)
    PROVE  LicenseTable!Leave(e) /\ UNCHANGED <<functions, rests>>
  <1> DEFINE c == ereq[e]
  <1>1. /\ c.step = "write" /\ End(e) /\ UNCHANGED <<functions, rests>>
        /\ Shaped(c) /\ TablesInv
    BY DEF InsertLicense, UpdateLicenseRow, DeleteLicenseRow, Doing, EntryIInv, RequestsInv
  <1>2. Leaves(e) /\ Stages' = Stages /\ Admitted[e] = c.row.decl
    BY <1>1, EndLeaves
  <1>3. /\ \A l \in LicenseIds : licenses[l] \in LicenseRow /\ LicenseStored(licenses[l])
        /\ licenses = [l \in LicenseIds |-> licenses[l]]
    BY <1>1 DEF TablesInv
  <1>4. ASSUME NEW l \in LicenseIds, InsertLicense(e, l)
        PROVE  LicenseTable!Insert(e, l, c.row) /\ c.row \in LicenseRow
    <2>1. LicenseReady(c.row)
      BY <1>1, <1>4 DEF Shaped, InsertLicense, Doing
    <2> QED
      BY <1>2, <1>4, <2>1 DEF LicenseTable!Insert, InsertLicense, LicenseReady
  <1>5. ASSUME UpdateLicenseRow(e)
        PROVE  \/ licenses' = licenses
               \/ c.id \in LicenseIds /\ \E row \in LicenseRow : LicenseTable!Update(e, c.id, row)
    <2> DEFINE row == [licenses[c.id] EXCEPT !.type = c.row.type]
    <2>1. /\ LicenseReady(c.row) /\ c.id \in LicenseIds /\ Knows(licenses, c)
          /\ licenses' = [licenses EXCEPT ![c.id] =
                             IF licenses[c.id].life = "present" THEN row ELSE licenses[c.id]]
      BY <1>1, <1>5 DEF Shaped, Linked, UpdateLicenseRow, Doing
    <2> HIDE DEF c
    <2>2. /\ row \in LicenseRow /\ row.life = licenses[c.id].life
          /\ row.decl = licenses[c.id].decl
      BY <1>3, <2>1 DEF LicenseReady, LicenseRow
    <2> HIDE DEF row
    <2>3. CASE licenses[c.id].life = "present"
      <3>1. LicenseTable!Update(e, c.id, row)
        BY <1>2, <2>1, <2>2, <2>3 DEF Knows, LicenseTable!Update
      <3> QED
        BY <2>1, <2>2, <3>1
    <2>4. CASE licenses[c.id].life # "present"
      BY <1>3, <2>1, <2>4
    <2> QED
      BY <2>3, <2>4 DEF c
  <1>6. ASSUME DeleteLicenseRow(e)
        PROVE  licenses' = licenses \/ (c.id \in LicenseIds /\ LicenseTable!Delete(e, c.id))
    <2>1. /\ c.id \in LicenseIds /\ Knows(licenses, c)
          /\ licenses' = [licenses EXCEPT ![c.id] = [NoLicense EXCEPT !.life = "deleted"]]
      BY <1>1, <1>6 DEF Shaped, Linked, DeleteLicenseRow, Doing
    <2> HIDE DEF c
    <2>2. CASE licenses[c.id].life = "present"
      BY <1>2, <2>1, <2>2 DEF Knows, LicenseTable!Delete
    <2>3. CASE licenses[c.id].life # "present"
      <3>1. licenses[c.id] = [NoLicense EXCEPT !.life = "deleted"]
        BY <1>3, <2>1, <2>3 DEF Knows, LicenseStored, LicenseRow, Life
      <3> QED
        BY <1>3, <2>1, <3>1
    <2> QED
      BY <2>2, <2>3 DEF c
  <1> QED
    BY <1>1, <1>2, <1>4, <1>5, <1>6 DEF Leaves, LicenseTable!Leave

LEMMA RestWriteIsOne ==
    ASSUME EntryIInv, NEW e \in EntryRequests, Linked(ereq[e]), UNCHANGED declVars,
           \/ \E t \in RestIds : InsertRestTime(e, t)
           \/ UpdateRestTimeRow(e)
           \/ DeleteRestTimeRow(e)
    PROVE  RestTable!Leave(e) /\ UNCHANGED <<functions, licenses>>
  <1> DEFINE c == ereq[e]
  <1>1. /\ c.step = "write" /\ End(e) /\ UNCHANGED <<functions, licenses>>
        /\ Shaped(c) /\ TablesInv
    BY DEF InsertRestTime, UpdateRestTimeRow, DeleteRestTimeRow, Doing, EntryIInv, RequestsInv
  <1>2. Leaves(e) /\ Stages' = Stages /\ Admitted[e] = c.row.decl
    BY <1>1, EndLeaves
  <1>3. /\ \A t \in RestIds : rests[t] \in RestRow /\ RestStored(rests[t])
        /\ rests = [t \in RestIds |-> rests[t]]
    BY <1>1 DEF TablesInv
  <1>4. ASSUME NEW t \in RestIds, InsertRestTime(e, t)
        PROVE  RestTable!Insert(e, t, c.row) /\ c.row \in RestRow
    <2>1. RestReady(c.row)
      BY <1>1, <1>4 DEF Shaped, InsertRestTime, Doing
    <2> QED
      BY <1>2, <1>4, <2>1 DEF RestTable!Insert, InsertRestTime, RestReady
  <1>5. ASSUME UpdateRestTimeRow(e)
        PROVE  \/ rests' = rests
               \/ c.id \in RestIds /\ \E row \in RestRow : RestTable!Update(e, c.id, row)
    <2> DEFINE row == Assigned(rests[c.id], c.sets, c.row.type, c.row.minutes)
    <2>1. /\ RestReady(c.row) /\ c.id \in RestIds /\ Knows(rests, c)
          /\ rests' = [rests EXCEPT ![c.id] =
                          IF rests[c.id].life # "present" THEN rests[c.id] ELSE row]
      BY <1>1, <1>5 DEF Shaped, Linked, UpdateRestTimeRow, Doing
    <2> HIDE DEF c
    <2>2. /\ row \in RestRow /\ row.life = rests[c.id].life
          /\ row.decl = rests[c.id].decl
      BY <1>3, <2>1 DEF RestReady, RestRow, Assigned
    <2> HIDE DEF row
    <2>3. CASE rests[c.id].life = "present"
      <3>1. RestTable!Update(e, c.id, row)
        BY <1>2, <2>1, <2>2, <2>3 DEF Knows, RestTable!Update
      <3> QED
        BY <2>1, <2>2, <3>1
    <2>4. CASE rests[c.id].life # "present"
      BY <1>3, <2>1, <2>4
    <2> QED
      BY <2>3, <2>4 DEF c
  <1>6. ASSUME DeleteRestTimeRow(e)
        PROVE  rests' = rests \/ (c.id \in RestIds /\ RestTable!Delete(e, c.id))
    <2>1. /\ c.id \in RestIds /\ Knows(rests, c)
          /\ rests' = [rests EXCEPT ![c.id] = [NoRest EXCEPT !.life = "deleted"]]
      BY <1>1, <1>6 DEF Shaped, Linked, DeleteRestTimeRow, Doing
    <2> HIDE DEF c
    <2>2. CASE rests[c.id].life = "present"
      BY <1>2, <2>1, <2>2 DEF Knows, RestTable!Delete
    <2>3. CASE rests[c.id].life # "present"
      <3>1. rests[c.id] = [NoRest EXCEPT !.life = "deleted"]
        BY <1>3, <2>1, <2>3 DEF Knows, RestStored, RestRow, Life
      <3> QED
        BY <1>3, <2>1, <3>1
    <2> QED
      BY <2>2, <2>3 DEF c
  <1> QED
    BY <1>1, <1>2, <1>4, <1>5, <1>6 DEF Leaves, RestTable!Leave

-----------------------------------------------------------------------------
\* A request that begins holds an entry it has read, if any.
LEMMA BusyBegins ==
    ASSUME NEW e, NEW op, NEW id, NEW row, NEW sets, ereq[e].step = "idle",
           row.decl \in Declarations, owner[row.decl] # NoUser,
           op \in {"updateFunction", "deleteFunction"} =>
               functions[id].life = "present" /\ functions[id].decl = row.decl,
           op \in {"updateLicense", "deleteLicense"} =>
               licenses[id].life = "present" /\ licenses[id].decl = row.decl,
           op \in {"updateRest", "deleteRest"} =>
               rests[id].life = "present" /\ rests[id].decl = row.decl,
           Begin(e, Busy(op, id, row, sets))
    PROVE  Begun(e)
  <1> DEFINE rec == Busy(op, id, row, sets)
  <1>1. /\ rec.step = "check" /\ rec.row = row /\ rec.op = op /\ rec.id = id
        /\ rec.early = (getCurrentStatus(row.decl) = "Incomplete")
    BY DEF Busy
  <1>2. Begin(e, rec)
    OBVIOUS
  <1> HIDE DEF rec
  <1>3. Linked(rec)
    BY <1>1 DEF Linked, Knows
  <1> QED
    BY <1>1, <1>2, <1>3 DEF Begun

\* The nine first statements, of functions, licenses and rest times.
LEMMA FunctionStarts ==
    ASSUME EntryIInv, NEW e \in EntryRequests,
           \/ \E u \in Users, d \in Declarations, isOfficial, overtime, justification \in BOOLEAN :
                 createJobFunction(e, u, d, isOfficial, overtime, justification)
           \/ \E u \in Users, f \in FunctionIds :
                 \/ \E ref \in {"keep", "official", "custom"}, overtime \in BOOLEAN,
                       justification \in {"keep", "given", "cleared"} :
                       updateJobFunction(e, u, f, ref, overtime, justification)
                 \/ deleteJobFunction(e, u, f)
    PROVE  Begun(e) /\ UNCHANGED tables
  <1>1. ASSUME NEW u \in Users, NEW d \in Declarations, NEW isOfficial \in BOOLEAN,
               NEW overtime \in BOOLEAN, NEW justification \in BOOLEAN,
               createJobFunction(e, u, d, isOfficial, overtime, justification)
        PROVE  Begun(e) /\ UNCHANGED tables
    BY <1>1, BusyBegins DEF createJobFunction, OwnedBy
  <1>2. ASSUME NEW u \in Users, NEW f \in FunctionIds, NEW ref \in {"keep", "official", "custom"},
               NEW overtime \in BOOLEAN, NEW justification \in {"keep", "given", "cleared"},
               updateJobFunction(e, u, f, ref, overtime, justification)
        PROVE  Begun(e) /\ UNCHANGED tables
    <2> DEFINE row == Merged(functions[f], ref, overtime, justification)
    <2>1. functions[f] \in FunctionRow /\ functions[f].decl \in Declarations
      BY <1>2 DEF updateJobFunction, EntryIInv, TablesInv, FunctionStored, FunctionReady, FunctionRow
    <2>2. row.decl = functions[f].decl
      BY <2>1 DEF Merged, FunctionRow
    <2>3. /\ ereq[e].step = "idle" /\ functions[f].life = "present"
          /\ OwnedBy(u, functions[f].decl)
          /\ Begin(e, Busy("updateFunction", f, row, {})) /\ UNCHANGED tables
      BY <1>2 DEF updateJobFunction
    <2> HIDE DEF row
    <2> QED
      BY <2>1, <2>2, <2>3, BusyBegins DEF OwnedBy
  <1>3. ASSUME NEW u \in Users, NEW f \in FunctionIds, deleteJobFunction(e, u, f)
        PROVE  Begun(e) /\ UNCHANGED tables
    <2> DEFINE row == [NoFunction EXCEPT !.decl = functions[f].decl]
    <2>1. functions[f].decl \in Declarations
      BY <1>3 DEF deleteJobFunction, EntryIInv, TablesInv, FunctionStored, FunctionReady, FunctionRow
    <2>2. row.decl = functions[f].decl
      BY DEF NoFunction
    <2>3. /\ ereq[e].step = "idle" /\ functions[f].life = "present"
          /\ OwnedBy(u, functions[f].decl)
          /\ Begin(e, Busy("deleteFunction", f, row, {})) /\ UNCHANGED tables
      BY <1>3 DEF deleteJobFunction
    <2> HIDE DEF row
    <2> QED
      BY <2>1, <2>2, <2>3, BusyBegins DEF OwnedBy
  <1> QED
    BY <1>1, <1>2, <1>3

LEMMA LicenseStarts ==
    ASSUME EntryIInv, NEW e \in EntryRequests,
           \/ \E u \in Users, d \in Declarations, type \in LicenseTypes : createLicense(e, u, d, type)
           \/ \E u \in Users, l \in LicenseIds :
                 \/ \E type \in LicenseTypes : updateLicense(e, u, l, type)
                 \/ deleteLicense(e, u, l)
    PROVE  Begun(e) /\ UNCHANGED tables
  <1>1. ASSUME NEW u \in Users, NEW d \in Declarations, NEW type \in LicenseTypes,
               createLicense(e, u, d, type)
        PROVE  Begun(e) /\ UNCHANGED tables
    BY <1>1, BusyBegins DEF createLicense, OwnedBy
  <1>2. ASSUME NEW u \in Users, NEW l \in LicenseIds, NEW type \in LicenseTypes,
               updateLicense(e, u, l, type)
        PROVE  Begun(e) /\ UNCHANGED tables
    <2> DEFINE row == [licenses[l] EXCEPT !.type = type]
    <2>1. licenses[l] \in LicenseRow /\ licenses[l].decl \in Declarations
      BY <1>2 DEF updateLicense, EntryIInv, TablesInv, LicenseStored, LicenseReady, LicenseRow
    <2>2. row.decl = licenses[l].decl
      BY <2>1 DEF LicenseRow
    <2>3. /\ ereq[e].step = "idle" /\ licenses[l].life = "present"
          /\ OwnedBy(u, licenses[l].decl)
          /\ Begin(e, Busy("updateLicense", l, row, {"type"})) /\ UNCHANGED tables
      BY <1>2 DEF updateLicense
    <2> HIDE DEF row
    <2> QED
      BY <2>1, <2>2, <2>3, BusyBegins DEF OwnedBy
  <1>3. ASSUME NEW u \in Users, NEW l \in LicenseIds, deleteLicense(e, u, l)
        PROVE  Begun(e) /\ UNCHANGED tables
    <2> DEFINE row == [NoLicense EXCEPT !.decl = licenses[l].decl]
    <2>1. licenses[l].decl \in Declarations
      BY <1>3 DEF deleteLicense, EntryIInv, TablesInv, LicenseStored, LicenseReady, LicenseRow
    <2>2. row.decl = licenses[l].decl
      BY DEF NoLicense
    <2>3. /\ ereq[e].step = "idle" /\ licenses[l].life = "present"
          /\ OwnedBy(u, licenses[l].decl)
          /\ Begin(e, Busy("deleteLicense", l, row, {})) /\ UNCHANGED tables
      BY <1>3 DEF deleteLicense
    <2> HIDE DEF row
    <2> QED
      BY <2>1, <2>2, <2>3, BusyBegins DEF OwnedBy
  <1> QED
    BY <1>1, <1>2, <1>3

LEMMA RestStarts ==
    ASSUME EntryIInv, NEW e \in EntryRequests,
           \/ \E u \in Users, d \in Declarations, type \in RestTypes, minutes \in Durations :
                 createRestTime(e, u, d, type, minutes)
           \/ \E u \in Users, t \in RestIds :
                 \/ \E sets \in SUBSET {"type", "minutes"}, type \in RestTypes, minutes \in Durations :
                       updateRestTime(e, u, t, sets, type, minutes)
                 \/ deleteRestTime(e, u, t)
    PROVE  Begun(e) /\ UNCHANGED tables
  <1>1. ASSUME NEW u \in Users, NEW d \in Declarations, NEW type \in RestTypes,
               NEW minutes \in Durations, createRestTime(e, u, d, type, minutes)
        PROVE  Begun(e) /\ UNCHANGED tables
    BY <1>1, BusyBegins DEF createRestTime, OwnedBy
  <1>2. ASSUME NEW u \in Users, NEW t \in RestIds, NEW sets \in SUBSET {"type", "minutes"},
               NEW type \in RestTypes, NEW minutes \in Durations,
               updateRestTime(e, u, t, sets, type, minutes)
        PROVE  Begun(e) /\ UNCHANGED tables
    <2> DEFINE row == Assigned(rests[t], sets, type, minutes)
    <2>1. rests[t] \in RestRow /\ rests[t].decl \in Declarations
      BY <1>2 DEF updateRestTime, EntryIInv, TablesInv, RestStored, RestReady, RestRow
    <2>2. row.decl = rests[t].decl
      BY <2>1 DEF Assigned, RestRow
    <2>3. /\ ereq[e].step = "idle" /\ rests[t].life = "present"
          /\ OwnedBy(u, rests[t].decl)
          /\ Begin(e, Busy("updateRest", t, row, sets)) /\ UNCHANGED tables
      BY <1>2 DEF updateRestTime
    <2> HIDE DEF row
    <2> QED
      BY <2>1, <2>2, <2>3, BusyBegins DEF OwnedBy
  <1>3. ASSUME NEW u \in Users, NEW t \in RestIds, deleteRestTime(e, u, t)
        PROVE  Begun(e) /\ UNCHANGED tables
    <2> DEFINE row == [NoRest EXCEPT !.decl = rests[t].decl]
    <2>1. rests[t].decl \in Declarations
      BY <1>3 DEF deleteRestTime, EntryIInv, TablesInv, RestStored, RestReady, RestRow
    <2>2. row.decl = rests[t].decl
      BY DEF NoRest
    <2>3. /\ ereq[e].step = "idle" /\ rests[t].life = "present"
          /\ OwnedBy(u, rests[t].decl)
          /\ Begin(e, Busy("deleteRest", t, row, {})) /\ UNCHANGED tables
      BY <1>3 DEF deleteRestTime
    <2> HIDE DEF row
    <2> QED
      BY <2>1, <2>2, <2>3, BusyBegins DEF OwnedBy
  <1> QED
    BY <1>1, <1>2, <1>3

\* A step of a request begins it, lets it go on, ends it, or ends it with a write.
LEMMA EntryStepIs ==
    ASSUME EntryIInv, NEW e \in EntryRequests,
           FunctionNext(e) \/ LicenseNext(e) \/ RestNext(e) \/ EntryStatementFails(e)
    PROVE  \/ Begun(e) /\ UNCHANGED tables
           \/ ereq[e].step = "check" /\ Proceed(e) /\ UNCHANGED tables
           \/ End(e) /\ UNCHANGED tables
           \/ \/ \E f \in FunctionIds : InsertJobFunction(e, f)
              \/ UpdateJobFunctionRow(e)
              \/ DeleteJobFunctionRow(e)
           \/ \/ \E l \in LicenseIds : InsertLicense(e, l)
              \/ UpdateLicenseRow(e)
              \/ DeleteLicenseRow(e)
           \/ \/ \E t \in RestIds : InsertRestTime(e, t)
              \/ UpdateRestTimeRow(e)
              \/ DeleteRestTimeRow(e)
  <1>1. ASSUME CheckJobFunction(e) \/ CheckLicense(e) \/ CheckRestTime(e)
        PROVE  /\ ereq[e].step = "check" /\ (Proceed(e) \/ End(e))
               /\ UNCHANGED tables
    BY <1>1 DEF CheckJobFunction, CheckLicense, CheckRestTime, Doing
  <1>2. CASE FunctionNext(e)
    BY <1>1, <1>2, FunctionStarts DEF FunctionNext
  <1>3. CASE LicenseNext(e)
    BY <1>1, <1>3, LicenseStarts DEF LicenseNext
  <1>4. CASE RestNext(e)
    BY <1>1, <1>4, RestStarts DEF RestNext
  <1>5. CASE EntryStatementFails(e)
    BY <1>5 DEF EntryStatementFails
  <1> QED
    BY <1>2, <1>3, <1>4, <1>5

-----------------------------------------------------------------------------
\* An entry that was there stays where it was, or is deleted.
Follows(old, new, Ids) ==
    \A i \in Ids : old[i].life # "absent" =>
        /\ new[i].life # "absent"
        /\ new[i].life = "present" => old[i].life = "present" /\ new[i].decl = old[i].decl

LEMMA TablesFollow ==
    ASSUME TablesInv, NEW e
    PROVE  /\ FunctionTable!Leave(e) \/ UNCHANGED functions =>
                 Follows(functions, functions', FunctionIds)
           /\ LicenseTable!Leave(e) \/ UNCHANGED licenses =>
                 Follows(licenses, licenses', LicenseIds)
           /\ RestTable!Leave(e) \/ UNCHANGED rests =>
                 Follows(rests, rests', RestIds)
  <1>1. /\ [NoFunction EXCEPT !.life = "deleted"].life = "deleted"
        /\ [NoLicense EXCEPT !.life = "deleted"].life = "deleted"
        /\ [NoRest EXCEPT !.life = "deleted"].life = "deleted"
    BY DEF NoFunction, NoLicense, NoRest
  <1>2. FunctionTable!Leave(e) \/ UNCHANGED functions => Follows(functions, functions', FunctionIds)
    BY <1>1 DEF TablesInv, Follows, FunctionTable!Leave, FunctionTable!Insert,
       FunctionTable!Update, FunctionTable!Delete
  <1>3. LicenseTable!Leave(e) \/ UNCHANGED licenses => Follows(licenses, licenses', LicenseIds)
    BY <1>1 DEF TablesInv, Follows, LicenseTable!Leave, LicenseTable!Insert,
       LicenseTable!Update, LicenseTable!Delete
  <1>4. RestTable!Leave(e) \/ UNCHANGED rests => Follows(rests, rests', RestIds)
    BY <1>1 DEF TablesInv, Follows, RestTable!Leave, RestTable!Insert,
       RestTable!Update, RestTable!Delete
  <1> QED
    BY <1>2, <1>3, <1>4

AllFollow ==
    /\ Follows(functions, functions', FunctionIds)
    /\ Follows(licenses, licenses', LicenseIds)
    /\ Follows(rests, rests', RestIds)

\* A request that does not change what it serves keeps what it knows.
LEMMA StaysLinked ==
    ASSUME EntryIInv, NEW e \in EntryRequests, Linked(ereq[e]), AllFollow,
           ereq'[e].op = ereq[e].op, ereq'[e].id = ereq[e].id, ereq'[e].row = ereq[e].row
    PROVE  Linked(ereq[e])'
  <1>1. Shaped(ereq[e])
    BY DEF EntryIInv, RequestsInv
  <1>2. ASSUME ereq[e].op \in {"updateFunction", "deleteFunction"} PROVE Knows(functions, ereq[e])'
    BY <1>1, <1>2 DEF Shaped, Linked, Knows, AllFollow, Follows
  <1>3. ASSUME ereq[e].op \in {"updateLicense", "deleteLicense"} PROVE Knows(licenses, ereq[e])'
    BY <1>1, <1>3 DEF Shaped, Linked, Knows, AllFollow, Follows
  <1>4. ASSUME ereq[e].op \in {"updateRest", "deleteRest"} PROVE Knows(rests, ereq[e])'
    BY <1>1, <1>4 DEF Shaped, Linked, Knows, AllFollow, Follows
  <1> QED
    BY <1>2, <1>3, <1>4 DEF Linked

\* A step of a request leaves each table as it was or does one thing to one of them.
LEMMA EntryStepRefines ==
    ASSUME EntryIInv, AllLinked, NEW e \in EntryRequests, UNCHANGED declVars,
           FunctionNext(e) \/ LicenseNext(e) \/ RestNext(e) \/ EntryStatementFails(e)
    PROVE  \/ Quiet /\ UNCHANGED tables
           \/ Quiet /\ FunctionTable!Leave(e) /\ UNCHANGED <<licenses, rests>>
           \/ Quiet /\ LicenseTable!Leave(e) /\ UNCHANGED <<functions, rests>>
           \/ Quiet /\ RestTable!Leave(e) /\ UNCHANGED <<functions, licenses>>
  <1>1. Linked(ereq[e])
    BY DEF AllLinked
  <1>2. CASE Begun(e) /\ UNCHANGED tables
    BY <1>2, BeginAdmits DEF Quiet
  <1>3. CASE ereq[e].step = "check" /\ Proceed(e) /\ UNCHANGED tables
    BY <1>3, ProceedStays DEF Quiet
  <1>4. ASSUME End(e) PROVE Quiet
    BY <1>4, EndLeaves DEF Quiet
  <1>5. ASSUME \/ \E f \in FunctionIds : InsertJobFunction(e, f)
               \/ UpdateJobFunctionRow(e)
               \/ DeleteJobFunctionRow(e)
        PROVE  Quiet /\ FunctionTable!Leave(e) /\ UNCHANGED <<licenses, rests>>
    <2>1. End(e)
      BY <1>5 DEF InsertJobFunction, UpdateJobFunctionRow, DeleteJobFunctionRow
    <2> QED
      BY <1>1, <1>4, <1>5, <2>1, FunctionWriteIsOne
  <1>6. ASSUME \/ \E l \in LicenseIds : InsertLicense(e, l)
               \/ UpdateLicenseRow(e)
               \/ DeleteLicenseRow(e)
        PROVE  Quiet /\ LicenseTable!Leave(e) /\ UNCHANGED <<functions, rests>>
    <2>1. End(e)
      BY <1>6 DEF InsertLicense, UpdateLicenseRow, DeleteLicenseRow
    <2> QED
      BY <1>1, <1>4, <1>6, <2>1, LicenseWriteIsOne
  <1>7. ASSUME \/ \E t \in RestIds : InsertRestTime(e, t)
               \/ UpdateRestTimeRow(e)
               \/ DeleteRestTimeRow(e)
        PROVE  Quiet /\ RestTable!Leave(e) /\ UNCHANGED <<functions, licenses>>
    <2>1. End(e)
      BY <1>7 DEF InsertRestTime, UpdateRestTimeRow, DeleteRestTimeRow
    <2> QED
      BY <1>1, <1>4, <1>7, <2>1, RestWriteIsOne
  <1> QED
    BY <1>2, <1>3, <1>4, <1>5, <1>6, <1>7, EntryStepIs

\* What the requests know of their entries stays true, whoever else writes.
LEMMA NextLinked == EntryIInv /\ AllLinked /\ [Next]_vars => AllLinked'
  <1> SUFFICES ASSUME EntryIInv, AllLinked, [Next]_vars, NEW q \in EntryRequests
               PROVE  Linked(ereq[q])'
    BY DEF AllLinked
  <1>1. Linked(ereq[q]) /\ TablesInv
    BY DEF AllLinked, EntryIInv
  <1>2. CASE UNCHANGED entryVars
    BY <1>1, <1>2 DEF entryVars, Linked, Knows
  <1>3. ASSUME NEW e \in EntryRequests, UNCHANGED declVars,
               FunctionNext(e) \/ LicenseNext(e) \/ RestNext(e) \/ EntryStatementFails(e)
        PROVE  Linked(ereq[q])'
    <2>1. AllFollow
      <3>1. /\ FunctionTable!Leave(e) \/ UNCHANGED functions
            /\ LicenseTable!Leave(e) \/ UNCHANGED licenses
            /\ RestTable!Leave(e) \/ UNCHANGED rests
        BY <1>3, EntryStepRefines DEF tables
      <3> QED
        BY <1>1, <3>1, TablesFollow DEF AllFollow
    <2>2. \/ Begun(e) /\ UNCHANGED tables
          \/ ereq[e].step = "check" /\ Proceed(e)
          \/ End(e)
      BY <1>3, EntryStepIs DEF InsertJobFunction, UpdateJobFunctionRow, DeleteJobFunctionRow,
         InsertLicense, UpdateLicenseRow, DeleteLicenseRow, InsertRestTime, UpdateRestTimeRow,
         DeleteRestTimeRow
    <2>3. ereq \in [EntryRequests -> EntryRequest]
      BY DEF EntryIInv, RequestsInv
    <2>4. CASE q # e
      <3>1. ereq'[q] = ereq[q]
        BY <2>2, <2>3, <2>4 DEF Begun, Begin, Proceed, End
      <3> QED
        BY <1>1, <2>1, <3>1, StaysLinked
    <2>5. CASE q = e /\ Begun(e) /\ UNCHANGED tables
      <3>1. PICK rec : Begin(e, rec) /\ Linked(rec)
        BY <2>5 DEF Begun
      <3>2. ereq'[e] = rec
        BY <2>3, <3>1 DEF Begin
      <3> QED
        BY <2>5, <3>1, <3>2 DEF Linked, Knows, tables
    <2>6. CASE q = e /\ Proceed(e)
      <3>1. /\ ereq'[e].op = ereq[e].op /\ ereq'[e].id = ereq[e].id
            /\ ereq'[e].row = ereq[e].row
        BY <2>3, <2>6 DEF Proceed, EntryRequest
      <3> QED
        BY <1>1, <2>1, <2>6, <3>1, StaysLinked
    <2>7. CASE q = e /\ End(e)
      <3>1. ereq'[e] = EntryIdle
        BY <2>3, <2>7 DEF End
      <3> QED
        BY <2>7, <3>1 DEF Linked, EntryIdle
    <2> QED
      BY <2>2, <2>4, <2>5, <2>6, <2>7
  <1> QED
    BY <1>2, <1>3 DEF Next, EntryNext, vars

\* Every step is one of each abstract table, or leaves it.
LEMMA StepsKeepTables ==
    EntryIInv /\ AllLinked /\ [Next]_vars =>
        /\ [FunctionTable!Next]_(FunctionTable!vars)
        /\ [LicenseTable!Next]_(LicenseTable!vars)
        /\ [RestTable!Next]_(RestTable!vars)
  <1> SUFFICES ASSUME EntryIInv, AllLinked, [Next]_vars
               PROVE  /\ [FunctionTable!Next]_(FunctionTable!vars)
                      /\ [LicenseTable!Next]_(LicenseTable!vars)
                      /\ [RestTable!Next]_(RestTable!vars)
    OBVIOUS
  <1>1. CASE [DeclNext]_declVars /\ UNCHANGED entryVars
    <2>1. Quiet
      BY <1>1, DeclarationsMove DEF EntryIInv, entryVars, Quiet
    <2> QED
      BY <1>1, <2>1, QuietSteps DEF entryVars
  <1>2. ASSUME NEW e \in EntryRequests, UNCHANGED declVars,
               FunctionNext(e) \/ LicenseNext(e) \/ RestNext(e) \/ EntryStatementFails(e)
        PROVE  /\ [FunctionTable!Next]_(FunctionTable!vars)
               /\ [LicenseTable!Next]_(LicenseTable!vars)
               /\ [RestTable!Next]_(RestTable!vars)
    <2>1. /\ Quiet
          /\ FunctionTable!Leave(e) \/ UNCHANGED functions
          /\ LicenseTable!Leave(e) \/ UNCHANGED licenses
          /\ RestTable!Leave(e) \/ UNCHANGED rests
      BY <1>2, EntryStepRefines DEF tables
    <2>2. /\ FunctionTable!Leave(e) => FunctionTable!Next
          /\ LicenseTable!Leave(e) => LicenseTable!Next
          /\ RestTable!Leave(e) => RestTable!Next
      BY DEF FunctionTable!Next, LicenseTable!Next, RestTable!Next
    <2> QED
      BY <2>1, <2>2, QuietSteps
  <1> QED
    BY <1>1, <1>2 DEF Next, EntryNext, vars

\* The tables start empty, and no declaration is closed yet.
LEMMA TablesStart ==
    Init /\ EntryInit =>
        AllLinked /\ FunctionTable!Init /\ LicenseTable!Init /\ RestTable!Init
  <1> SUFFICES ASSUME Init, EntryInit
               PROVE  AllLinked /\ FunctionTable!Init /\ LicenseTable!Init /\ RestTable!Init
    OBVIOUS
  <1> DEFINE status == [d \in Declarations |-> getCurrentStatus(d)]
  <1>1. \A d \in Declarations : owner[d] # NoUser => getCurrentStatus(d) = "Incomplete"
    <2>1. \A d \in Declarations : status[d] = IF owner[d] = NoUser THEN "None" ELSE "Incomplete"
      BY InitRefines DEF Lifecycle!Init
    <2> QED
      BY <2>1
  <1>2. Stages \in [Declarations -> {"none", "open"}]
    BY <1>1 DEF Stages
  <1>3. Admitted = [e \in EntryRequests |-> NoDeclaration]
    BY DEF EntryInit, Admitted, EntryIdle
  <1>4. AllLinked
    BY DEF EntryInit, AllLinked, Linked, EntryIdle
  <1>5. /\ functions \in [FunctionIds -> FunctionRow] /\ \A f \in FunctionIds : functions[f].life = "absent"
        /\ licenses \in [LicenseIds -> LicenseRow] /\ \A l \in LicenseIds : licenses[l].life = "absent"
        /\ rests \in [RestIds -> RestRow] /\ \A t \in RestIds : rests[t].life = "absent"
    BY DEF EntryInit, NoFunction, NoLicense, NoRest, FunctionRow, LicenseRow, RestRow, Life
  <1> QED
    BY <1>2, <1>3, <1>4, <1>5 DEF FunctionTable!Init, LicenseTable!Init, RestTable!Init

\* Each of the three services keeps its table as EntryTable says, whatever the requests
\* of the others and of the declarations service do between its statements: an entry
\* changes only by one request for its own declaration that began while that was
\* Incomplete, and a deleted one never comes back.
THEOREM ServicesKeepTheirTables == Spec => TablesAreKept
  <1>1. Spec => []AllLinked
    BY TablesStart, NextLinked, EntryInvariantHolds, PTL DEF Spec
  <1>2. Spec => FunctionTable!Spec
    BY <1>1, TablesStart, StepsKeepTables, EntryInvariantHolds, PTL DEF Spec, FunctionTable!Spec
  <1>3. Spec => LicenseTable!Spec
    BY <1>1, TablesStart, StepsKeepTables, EntryInvariantHolds, PTL DEF Spec, LicenseTable!Spec
  <1>4. Spec => RestTable!Spec
    BY <1>1, TablesStart, StepsKeepTables, EntryInvariantHolds, PTL DEF Spec, RestTable!Spec
  <1> QED
    BY <1>2, <1>3, <1>4 DEF TablesAreKept
=============================================================================
