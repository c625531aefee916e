------------------------- MODULE DeclarationsProofs -------------------------
(***************************************************************************)
(* Proofs about the declarations service, for any users, declarations and  *)
(* number of concurrent requests.  The properties of the stored rows are   *)
(* not inductive by themselves: they need to know what a request that is   *)
(* about to write has already established (RequestsCleared), and that the  *)
(* status rows of a declaration exist exactly when it has an owner.        *)
(***************************************************************************)
EXTENDS Declarations, SequenceTheorems, TLAPS

\* What the earlier statements of a request guarantee at its later ones, however
\* stale the status it read: these facts concern columns that never change again.
RequestsCleared ==
    \A r \in Requests :
        /\ req[r].step # "idle" => req[r].reply = "other"
        /\ req[r].step \in {"findIncomplete", "register"} => req[r].user \in Users
        /\ req[r].step \in {"readForJustification", "justify"} => req[r].decl \in Declarations
        /\ req[r].step \in {"readStatus", "writeStatus"} =>
              /\ req[r].user \in Users
              /\ req[r].decl \in Declarations
              /\ req[r].target \in Statuses
              /\ owner[req[r].decl] # NoUser
              /\ req[r].user \in Admins \/ owner[req[r].decl] = req[r].user
        /\ req[r].step = "writeStatus" =>
              /\ req[r].target \in AdminStatuses => req[r].user \in Admins
              /\ isValidTransition(req[r].seen, req[r].target)

\* A declaration and its first status row are inserted together.
OwnedHasRows == \A d \in Declarations : owner[d] = NoUser <=> history[d] = <<>>

RowsInv ==
    /\ OwnedHasRows
    /\ HistoryFollowsTransitions
    /\ OneIncompletePerUser
    /\ RowsByEntitledUsers
    /\ CompletedIsJustified

IInv == TypeOK /\ RequestsCleared /\ RowsInv

dataVars == <<owner, history, justified, outOfShift>>

-----------------------------------------------------------------------------
\* The two transition tables accept the same moves between statuses.
LEMMA TablesAgree ==
    ASSUME NEW s \in Statuses \cup {"None"}, NEW t \in Statuses
    PROVE  isValidTransition(s, t) <=> transition_ok(s, t)
  BY DEF isValidTransition, STATUS_TRANSITIONS, transition_ok, Statuses

\* No transition leads back to Incomplete.
LEMMA NeverBackToIncomplete ==
    ASSUME NEW s, NEW t, transition_ok(s, t)
    PROVE  t # "Incomplete" /\ t \in Statuses /\ s \in Statuses
  BY DEF transition_ok, Statuses

\* The current status is a status, or "None" when there are no rows.
LEMMA CurrentStatusType ==
    ASSUME TypeOK, NEW d \in Declarations
    PROVE  /\ getCurrentStatus(d) \in Statuses \cup {"None"}
           /\ history[d] # <<>> => /\ Len(history[d]) \in 1..Len(history[d])
                                   /\ getCurrentStatus(d) = history[d][Len(history[d])].status
                                   /\ getCurrentStatus(d) \in Statuses
           /\ getCurrentStatus(d) \in Statuses => history[d] # <<>>
  <1>1. history[d] \in Seq(StatusRow)
    BY DEF TypeOK
  <1>2. CASE history[d] = <<>>
    BY <1>2 DEF getCurrentStatus, Statuses
  <1>3. CASE history[d] # <<>>
    <2>1. Len(history[d]) \in Nat /\ Len(history[d]) # 0
      BY <1>1, <1>3, EmptySeq, LenProperties
    <2>2. Len(history[d]) \in 1..Len(history[d])
      BY <2>1
    <2>3. history[d][Len(history[d])] \in StatusRow
      BY <1>1, <2>2, ElementOfSeq
    <2> QED
      BY <1>3, <2>2, <2>3 DEF getCurrentStatus, StatusRow
  <1> QED
    BY <1>2, <1>3

\* An idle request record is a request and is cleared for nothing.
LEMMA IdleType ==
    ASSUME NEW how \in Replies
    PROVE  Idle(how) \in Request /\ Idle(how).step = "idle"
  BY DEF Idle, Request, Steps

-----------------------------------------------------------------------------
\* The initial database, legacy declarations included, satisfies the invariant.
LEMMA InitIInv == Init => IInv
  <1> SUFFICES ASSUME Init PROVE IInv
    OBVIOUS
  <1> USE DEF Init
  <1>1. TypeOK
    <2>1. history \in [Declarations -> Seq(StatusRow)]
      <3>1. ASSUME NEW d \in Declarations, owner[d] # NoUser
            PROVE  <<[status |-> "Incomplete", by |-> owner[d]]>> \in Seq(StatusRow)
        <4>1. [status |-> "Incomplete", by |-> owner[d]] \in StatusRow
          BY <3>1 DEF StatusRow, Statuses
        <4> QED
          BY <4>1
      <3>2. <<>> \in Seq(StatusRow)
        OBVIOUS
      <3> QED
        BY <3>1, <3>2
    <2>2. req \in [Requests -> Request]
      BY IdleType DEF Replies
    <2>3. outOfShift \subseteq Declarations
      OBVIOUS
    <2> QED
      BY <2>1, <2>2, <2>3 DEF TypeOK
  <1>2. RequestsCleared
    BY IdleType DEF RequestsCleared, Replies
  <1>3. \A d \in Declarations :
           \/ owner[d] = NoUser /\ history[d] = <<>>
           \/ /\ owner[d] # NoUser
              /\ Len(history[d]) = 1
              /\ history[d] # <<>>
              /\ history[d][1] = [status |-> "Incomplete", by |-> owner[d]]
    OBVIOUS
  <1>4. OwnedHasRows
    BY <1>3 DEF OwnedHasRows
  <1>5. HistoryFollowsTransitions
    BY <1>3 DEF HistoryFollowsTransitions
  <1>6. OneIncompletePerUser
    BY DEF OneIncompletePerUser
  <1>7. RowsByEntitledUsers
    BY <1>3 DEF RowsByEntitledUsers, AdminStatuses
  <1>8. CompletedIsJustified
    BY <1>3 DEF CompletedIsJustified
  <1> QED
    BY <1>1, <1>2, <1>4, <1>5, <1>6, <1>7, <1>8 DEF IInv, RowsInv

-----------------------------------------------------------------------------
\* A request that ends breaks nothing.
LEMMA ReplyPreserves ==
    ASSUME IInv, UNCHANGED dataVars, NEW r \in Requests,
           \E how \in Replies : Reply(r, how)
    PROVE  IInv'
  <1>1. PICK how \in Replies : req' = [req EXCEPT ![r] = Idle(how)]
    BY DEF Reply
  <1>2. Idle(how) \in Request /\ Idle(how).step = "idle"
    BY IdleType
  <1>3. TypeOK'
    BY <1>1, <1>2 DEF IInv, TypeOK, dataVars
  <1>4. RequestsCleared'
    BY <1>1, <1>2 DEF IInv, TypeOK, RequestsCleared, dataVars
  <1>5. RowsInv'
    BY DEF IInv, RowsInv, OwnedHasRows, HistoryFollowsTransitions, OneIncompletePerUser,
           RowsByEntitledUsers, CompletedIsJustified, getCurrentStatus, dataVars
  <1> QED
    BY <1>3, <1>4, <1>5 DEF IInv

\* A request that moves on to its next statement breaks nothing, provided it is
\* cleared for that statement.
LEMMA GotoPreserves ==
    ASSUME IInv, UNCHANGED dataVars, NEW r \in Requests, NEW rec \in Request, Goto(r, rec),
           rec.reply = "other",
           rec.step \in {"findIncomplete", "register"} => rec.user \in Users,
           rec.step \in {"readForJustification", "justify"} => rec.decl \in Declarations,
           rec.step \in {"readStatus", "writeStatus"} =>
              /\ rec.user \in Users
              /\ rec.decl \in Declarations
              /\ rec.target \in Statuses
              /\ owner[rec.decl] # NoUser
              /\ rec.user \in Admins \/ owner[rec.decl] = rec.user,
           rec.step = "writeStatus" =>
              /\ rec.target \in AdminStatuses => rec.user \in Admins
              /\ isValidTransition(rec.seen, rec.target)
    PROVE  IInv'
  <1>1. req' = [req EXCEPT ![r] = rec]
    BY DEF Goto
  <1>2. TypeOK'
    BY <1>1 DEF IInv, TypeOK, dataVars
  <1>3. RequestsCleared'
    <2> SUFFICES ASSUME NEW q \in Requests
                 PROVE  RequestsCleared!(q)'
      BY DEF RequestsCleared
    <2>1. CASE q = r
      BY <1>1, <2>1 DEF IInv, TypeOK, dataVars
    <2>2. CASE q # r
      BY <1>1, <2>2 DEF IInv, TypeOK, RequestsCleared, dataVars
    <2> QED
      BY <2>1, <2>2
  <1>4. RowsInv'
    BY DEF IInv, RowsInv, OwnedHasRows, HistoryFollowsTransitions, OneIncompletePerUser,
           RowsByEntitledUsers, CompletedIsJustified, getCurrentStatus, dataVars
  <1> QED
    BY <1>2, <1>3, <1>4 DEF IInv

-----------------------------------------------------------------------------
\* POST /declarations: the statements before the registration.
LEMMA CreatePreserves ==
    ASSUME IInv, NEW r \in Requests, NEW u \in Users,
           createDeclaration(r, u) \/ CheckNoIncomplete(r) \/ getDeclarationById(r)
    PROVE  IInv'
  <1>1. ASSUME createDeclaration(r, u) PROVE IInv'
    <2>1. CASE Reply(r, "other")
      BY <1>1, <2>1, ReplyPreserves DEF createDeclaration, dataVars, Replies
    <2>2. CASE Goto(r, [Idle("other") EXCEPT !.step = "findIncomplete", !.user = u])
      <3> DEFINE rec == [Idle("other") EXCEPT !.step = "findIncomplete", !.user = u]
      <3>1. rec \in Request /\ rec.reply = "other" /\ rec.step = "findIncomplete" /\ rec.user = u
        BY DEF Idle, Request, Steps, Replies
      <3>2. UNCHANGED dataVars
        BY <1>1 DEF createDeclaration, dataVars
      <3> HIDE DEF rec
      <3>3. Goto(r, rec)
        BY <2>2 DEF rec
      <3> QED
        BY <3>1, <3>2, <3>3, GotoPreserves
    <2> QED
      BY <1>1, <2>1, <2>2 DEF createDeclaration
  <1>2. ASSUME CheckNoIncomplete(r) PROVE IInv'
    <2>1. UNCHANGED dataVars
      BY <1>2 DEF CheckNoIncomplete, dataVars
    <2>2. CASE Reply(r, "other")
      BY <2>1, <2>2, ReplyPreserves DEF Replies
    <2>3. CASE Goto(r, [req[r] EXCEPT !.step = "register"])
      <3> DEFINE rec == [req[r] EXCEPT !.step = "register"]
      <3>1. req[r].step = "findIncomplete" /\ req[r] \in Request /\ req[r].reply = "other"
        BY <1>2 DEF CheckNoIncomplete, IInv, TypeOK, RequestsCleared
      <3>2. rec \in Request /\ rec.reply = "other" /\ rec.step = "register" /\ rec.user = req[r].user
        BY <3>1 DEF Request, Steps
      <3>3. req[r].user \in Users
        BY <3>1 DEF IInv, RequestsCleared
      <3> HIDE DEF rec
      <3>4. Goto(r, rec)
        BY <2>3 DEF rec
      <3> QED
        BY <2>1, <3>2, <3>3, <3>4, GotoPreserves
    <2> QED
      BY <1>2, <2>2, <2>3 DEF CheckNoIncomplete
  <1>3. ASSUME getDeclarationById(r) PROVE IInv'
    BY <1>3, ReplyPreserves DEF getDeclarationById, dataVars, Replies
  <1> QED
    BY <1>1, <1>2, <1>3

\* The registration inserts the only Incomplete declaration of its user.
LEMMA RegisterPreserves ==
    ASSUME IInv, NEW r \in Requests, NEW d \in Declarations, registerDeclaration(r, d)
    PROVE  IInv'
  <1> DEFINE u == req[r].user
             row == [status |-> "Incomplete", by |-> u]
             rec == [Idle("other") EXCEPT !.step = "reload", !.decl = d]
  <1>1. u \in Users /\ owner[d] = NoUser /\ u # NoUser
    BY UsersAssumption DEF registerDeclaration, IInv, RequestsCleared
  <1>2. CASE findIncompleteByUser(u)
    BY <1>2, ReplyPreserves DEF registerDeclaration, FN_REGISTER_DECLARATION, dataVars, Replies
  <1>3. CASE ~findIncompleteByUser(u)
    <2>1. /\ owner' = [owner EXCEPT ![d] = u]
          /\ history' = [history EXCEPT ![d] = <<row>>]
          /\ req' = [req EXCEPT ![r] = rec]
          /\ UNCHANGED <<justified, outOfShift>>
      BY <1>3 DEF registerDeclaration, FN_REGISTER_DECLARATION, Goto
    <2>2. rec \in Request /\ rec.reply = "other" /\ rec.step = "reload"
      BY DEF Idle, Request, Steps, Replies
    <2>3. /\ <<row>> \in Seq(StatusRow)
          /\ <<row>> # <<>>
          /\ Len(<<row>>) = 1
          /\ <<row>>[1] = row
          /\ row.status = "Incomplete"
          /\ row.by = u
      BY <1>1 DEF StatusRow, Statuses
    <2> HIDE DEF u, row, rec
    <2>4. TypeOK'
      BY <1>1, <2>1, <2>2, <2>3 DEF IInv, TypeOK
    <2>5. RequestsCleared'
      BY <1>1, <2>1, <2>2 DEF IInv, TypeOK, RequestsCleared
    <2>6. OwnedHasRows'
      BY <1>1, <2>1, <2>3 DEF IInv, TypeOK, RowsInv, OwnedHasRows
    <2>7. HistoryFollowsTransitions'
      BY <2>1, <2>3 DEF IInv, TypeOK, RowsInv, HistoryFollowsTransitions
    <2>8. OneIncompletePerUser'
      BY <1>1, <1>3, <2>1, <2>3 DEF IInv, TypeOK, RowsInv, OneIncompletePerUser,
         findIncompleteByUser, getCurrentStatus
    <2>9. RowsByEntitledUsers'
      BY <1>1, <2>1, <2>3 DEF IInv, TypeOK, RowsInv, RowsByEntitledUsers, AdminStatuses
    <2>10. CompletedIsJustified'
      BY <2>1, <2>3 DEF IInv, TypeOK, RowsInv, CompletedIsJustified
    <2> QED
      BY <2>4, <2>5, <2>6, <2>7, <2>8, <2>9, <2>10 DEF IInv, RowsInv
  <1> QED
    BY <1>2, <1>3

-----------------------------------------------------------------------------
\* PATCH .../status: the statements before the stored function.
LEMMA CheckStatusPreserves ==
    ASSUME IInv, NEW r \in Requests,
           \/ \E u \in Users, d \in Declarations, new \in Statuses : changeStatus(r, u, d, new)
           \/ CheckTransition(r)
    PROVE  IInv'
  <1>1. ASSUME NEW u \in Users, NEW d \in Declarations, NEW new \in Statuses,
               changeStatus(r, u, d, new)
        PROVE  IInv'
    <2>1. UNCHANGED dataVars
      BY <1>1 DEF changeStatus, dataVars
    <2>2. CASE Reply(r, "other")
      BY <2>1, <2>2, ReplyPreserves DEF Replies
    <2>3. CASE ~(owner[d] = NoUser \/ (u \notin Admins /\ owner[d] # u))
      <3> DEFINE rec == [Idle("other") EXCEPT !.step = "readStatus", !.user = u,
                                              !.decl = d, !.target = new]
      <3>1. /\ rec \in Request
            /\ rec.reply = "other"
            /\ rec.step = "readStatus" /\ rec.user = u /\ rec.decl = d /\ rec.target = new
        BY DEF Idle, Request, Steps, Replies
      <3>2. Goto(r, rec)
        BY <1>1, <2>3 DEF changeStatus
      <3> HIDE DEF rec
      <3> QED
        BY <2>1, <2>3, <3>1, <3>2, GotoPreserves
    <2> QED
      BY <1>1, <2>2, <2>3 DEF changeStatus
  <1>2. ASSUME CheckTransition(r) PROVE IInv'
    <2> DEFINE current == getCurrentStatus(req[r].decl)
               new == req[r].target
               rec == [req[r] EXCEPT !.step = "writeStatus", !.seen = current]
    <2>1. UNCHANGED dataVars
      BY <1>2 DEF CheckTransition, dataVars
    <2>2. CASE Reply(r, "other")
      BY <2>1, <2>2, ReplyPreserves DEF Replies
    <2>3. CASE /\ Goto(r, rec)
               /\ ~(new \in AdminStatuses /\ req[r].user \notin Admins)
               /\ isValidTransition(current, new)
      <3>1. /\ req[r] \in Request
            /\ req[r].step = "readStatus" /\ req[r].reply = "other"
            /\ req[r].user \in Users
            /\ req[r].decl \in Declarations
            /\ new \in Statuses
            /\ owner[req[r].decl] # NoUser
            /\ req[r].user \in Admins \/ owner[req[r].decl] = req[r].user
        BY <1>2 DEF CheckTransition, IInv, TypeOK, RequestsCleared
      <3>2. current \in Statuses \cup {"None"}
        BY <3>1, CurrentStatusType DEF IInv
      <3> HIDE DEF current
      <3>3. /\ rec \in Request
            /\ rec.step = "writeStatus" /\ rec.reply = "other"
            /\ rec.user = req[r].user /\ rec.decl = req[r].decl /\ rec.target = new
            /\ rec.seen = current
        BY <3>1, <3>2 DEF Request, Steps
      <3> HIDE DEF rec
      <3> QED
        BY <2>1, <2>3, <3>1, <3>3, GotoPreserves
    <2> QED
      BY <1>2, <2>2, <2>3 DEF CheckTransition
  <1> QED
    BY <1>1, <1>2

\* The stored function appends one row, or nothing.
LEMMA ChangeStatusPreserves ==
    ASSUME IInv, NEW r \in Requests, FN_CHANGE_DECLARATION_STATUS(r)
    PROVE  IInv'
  <1>0. PICK d \in Declarations, new \in Statuses, u \in Users :
             d = req[r].decl /\ new = req[r].target /\ u = req[r].user
    BY DEF FN_CHANGE_DECLARATION_STATUS, IInv, RequestsCleared
  <1> DEFINE row == [status |-> new, by |-> u]
             old == history[d]
  <1>1. /\ owner[d] # NoUser
        /\ u \in Admins \/ owner[d] = u
        /\ new \in AdminStatuses => u \in Admins
    BY <1>0 DEF FN_CHANGE_DECLARATION_STATUS, IInv, RequestsCleared
  <1>2. CASE ~StatusAccepted(d, new)
    BY <1>0, <1>2, ReplyPreserves DEF FN_CHANGE_DECLARATION_STATUS, dataVars, Replies
  <1>3. CASE StatusAccepted(d, new)
    <2>1. /\ history' = [history EXCEPT ![d] = Append(old, row)]
          /\ req' = [req EXCEPT ![r] = Idle("other")]
          /\ UNCHANGED <<owner, justified, outOfShift>>
      BY <1>0, <1>3 DEF FN_CHANGE_DECLARATION_STATUS, Reply
    <2>2. old \in Seq(StatusRow) /\ row \in StatusRow /\ old # <<>>
      BY <1>1 DEF IInv, TypeOK, RowsInv, OwnedHasRows, StatusRow
    <2>3. row.status = new /\ row.by = u
      OBVIOUS
    <2>4. /\ transition_ok(old[Len(old)].status, new)
          /\ new # "Incomplete"
          /\ new = "Completed" => d \notin outOfShift \/ justified[d]
          /\ isValidTransition(old[Len(old)].status, new)
      <3>1. getCurrentStatus(d) = old[Len(old)].status /\ getCurrentStatus(d) \in Statuses
        BY <1>1, <2>2, CurrentStatusType DEF IInv
      <3> QED
        BY <1>1, <1>3, <3>1, TablesAgree, NeverBackToIncomplete DEF StatusAccepted
    <2> HIDE DEF row
    <2>5. /\ Append(old, row) \in Seq(StatusRow)
          /\ Len(Append(old, row)) = Len(old) + 1
          /\ \A i \in 1..Len(old) : Append(old, row)[i] = old[i]
          /\ Append(old, row)[Len(old) + 1] = row
          /\ Len(old) \in Nat /\ Len(old) >= 1
          /\ Append(old, row) # <<>>
      <3>1. Len(old) \in Nat /\ Len(old) # 0
        BY <2>2, EmptySeq, LenProperties
      <3> QED
        BY <2>2, <3>1, AppendProperties
    <2> DEFINE now == Append(old, row)
    <2>6. history'[d] = now /\ \A e \in Declarations : e # d => history'[e] = history[e]
      BY <1>1, <2>1 DEF IInv, TypeOK
    <2>7. getCurrentStatus(d)' = new
      BY <2>3, <2>5, <2>6 DEF getCurrentStatus
    <2> HIDE DEF now, old
    <2>8. TypeOK'
      <3>1. history' \in [Declarations -> Seq(StatusRow)]
        BY <2>1, <2>5 DEF IInv, TypeOK, now
      <3>2. req' \in [Requests -> Request]
        BY <2>1, IdleType DEF IInv, TypeOK, Replies
      <3> QED
        BY <2>1, <3>1, <3>2 DEF IInv, TypeOK
    <2>9. RequestsCleared'
      BY <2>1, IdleType DEF IInv, TypeOK, RequestsCleared, Replies
    <2>10. OwnedHasRows'
      BY <1>1, <2>1, <2>5, <2>6 DEF IInv, RowsInv, OwnedHasRows, now
    <2>11. HistoryFollowsTransitions'
      <3> SUFFICES ASSUME NEW e \in Declarations
                   PROVE  HistoryFollowsTransitions!(e)'
        BY DEF HistoryFollowsTransitions
      <3>1. CASE e # d
        BY <2>6, <3>1 DEF IInv, RowsInv, HistoryFollowsTransitions
      <3>2. CASE e = d
        <4>1. now[1].status = "Incomplete"
          BY <1>1, <2>2, <2>5 DEF IInv, RowsInv, HistoryFollowsTransitions, now, old
        <4>2. ASSUME NEW i \in 2..Len(now)
              PROVE  isValidTransition(now[i - 1].status, now[i].status)
          <5>1. CASE i = Len(old) + 1
            BY <2>3, <2>4, <2>5, <5>1 DEF now
          <5>2. CASE i # Len(old) + 1
            <6>1. i \in 2..Len(old) /\ i - 1 \in 1..Len(old) /\ i \in 1..Len(old)
              BY <2>5, <5>2 DEF now
            <6>2. isValidTransition(old[i - 1].status, old[i].status)
              BY <1>1, <6>1 DEF IInv, RowsInv, HistoryFollowsTransitions, old
            <6> QED
              BY <2>5, <6>1, <6>2 DEF now
          <5> QED
            BY <5>1, <5>2
        <4> QED
          BY <2>6, <3>2, <4>1, <4>2
      <3> QED
        BY <3>1, <3>2
    <2>12. OneIncompletePerUser'
      <3>1. \A e \in Declarations : e # d => getCurrentStatus(e)' = getCurrentStatus(e)
        BY <2>6 DEF getCurrentStatus
      <3> QED
        BY <2>1, <2>4, <2>7, <3>1 DEF IInv, RowsInv, OneIncompletePerUser
    <2>13. RowsByEntitledUsers'
      <3> SUFFICES ASSUME NEW e \in Declarations, NEW i \in (1..Len(history[e]))'
                   PROVE  \/ history'[e][i].by \in Admins
                          \/ /\ history'[e][i].by = owner'[e]
                             /\ history'[e][i].status \notin AdminStatuses
        BY DEF RowsByEntitledUsers
      <3>1. CASE e # d
        BY <2>1, <2>6, <3>1 DEF IInv, RowsInv, RowsByEntitledUsers
      <3>2. CASE e = d /\ i = Len(old) + 1
        BY <1>1, <2>1, <2>3, <2>5, <2>6, <3>2 DEF now
      <3>3. CASE e = d /\ i # Len(old) + 1
        <4>1. i \in 1..Len(old)
          BY <2>5, <2>6, <3>3 DEF now
        <4> QED
          BY <1>1, <2>1, <2>5, <2>6, <3>3, <4>1 DEF IInv, RowsInv, RowsByEntitledUsers, now, old
      <3> QED
        BY <3>1, <3>2, <3>3
    <2>14. CompletedIsJustified'
      <3> SUFFICES ASSUME NEW e \in outOfShift, NEW i \in (1..Len(history[e]))',
                          history'[e][i].status = "Completed"
                   PROVE  justified'[e]
        BY <2>1 DEF CompletedIsJustified
      <3>1. e \in Declarations
        BY DEF IInv, TypeOK
      <3>2. CASE e # d
        BY <2>1, <2>6, <3>1, <3>2 DEF IInv, RowsInv, CompletedIsJustified
      <3>3. CASE e = d /\ i = Len(old) + 1
        BY <2>1, <2>3, <2>4, <2>5, <2>6, <3>3 DEF now
      <3>4. CASE e = d /\ i # Len(old) + 1
        <4>1. i \in 1..Len(old)
          BY <2>5, <2>6, <3>4 DEF now
        <4>2. old[i].status = "Completed"
          BY <2>5, <2>6, <3>4, <4>1 DEF now
        <4> QED
          BY <2>1, <3>4, <4>1, <4>2 DEF IInv, RowsInv, CompletedIsJustified, old
      <3> QED
        BY <3>2, <3>3, <3>4
    <2> QED
      BY <2>8, <2>9, <2>10, <2>11, <2>12, <2>13, <2>14 DEF IInv, RowsInv
  <1> QED
    BY <1>2, <1>3

-----------------------------------------------------------------------------
\* PATCH .../justification.
LEMMA JustifyPreserves ==
    ASSUME IInv, NEW r \in Requests,
           \/ \E u \in Users, d \in Declarations : updateJustification(r, u, d)
           \/ CheckJustifiable(r)
           \/ WriteJustification(r)
    PROVE  IInv'
  <1>1. ASSUME NEW u \in Users, NEW d \in Declarations, updateJustification(r, u, d)
        PROVE  IInv'
    <2>1. UNCHANGED dataVars
      BY <1>1 DEF updateJustification, dataVars
    <2>2. CASE Reply(r, "other")
      BY <2>1, <2>2, ReplyPreserves DEF Replies
    <2>3. CASE Goto(r, [Idle("other") EXCEPT !.step = "readForJustification", !.decl = d])
      <3> DEFINE rec == [Idle("other") EXCEPT !.step = "readForJustification", !.decl = d]
      <3>1. rec \in Request /\ rec.reply = "other" /\ rec.step = "readForJustification" /\ rec.decl = d
        BY DEF Idle, Request, Steps, Replies
      <3>2. Goto(r, rec)
        BY <2>3
      <3> HIDE DEF rec
      <3> QED
        BY <2>1, <3>1, <3>2, GotoPreserves
    <2> QED
      BY <1>1, <2>2, <2>3 DEF updateJustification
  <1>2. ASSUME CheckJustifiable(r) PROVE IInv'
    <2>1. UNCHANGED dataVars
      BY <1>2 DEF CheckJustifiable, dataVars
    <2>2. CASE Reply(r, "other")
      BY <2>1, <2>2, ReplyPreserves DEF Replies
    <2>3. CASE Goto(r, [req[r] EXCEPT !.step = "justify"])
      <3> DEFINE rec == [req[r] EXCEPT !.step = "justify"]
      <3>1. req[r] \in Request /\ req[r].decl \in Declarations /\ req[r].reply = "other"
        BY <1>2 DEF CheckJustifiable, IInv, TypeOK, RequestsCleared
      <3>2. rec \in Request /\ rec.reply = "other" /\ rec.step = "justify" /\ rec.decl = req[r].decl
        BY <3>1 DEF Request, Steps
      <3>3. Goto(r, rec)
        BY <2>3
      <3> HIDE DEF rec
      <3> QED
        BY <2>1, <3>1, <3>2, <3>3, GotoPreserves
    <2> QED
      BY <1>2, <2>2, <2>3 DEF CheckJustifiable
  <1>3. ASSUME WriteJustification(r) PROVE IInv'
    <2>1. req[r].decl \in Declarations
      BY <1>3 DEF WriteJustification, IInv, RequestsCleared
    <2>2. /\ justified' = [justified EXCEPT ![req[r].decl] = TRUE]
          /\ req' = [req EXCEPT ![r] = Idle("other")]
          /\ UNCHANGED <<owner, history, outOfShift>>
      BY <1>3 DEF WriteJustification, Reply
    <2>3. TypeOK'
      BY <2>1, <2>2, IdleType DEF IInv, TypeOK, Replies
    <2>4. RequestsCleared'
      BY <2>2, IdleType DEF IInv, TypeOK, RequestsCleared, Replies
    <2>5. CompletedIsJustified'
      BY <2>1, <2>2 DEF IInv, TypeOK, RowsInv, CompletedIsJustified
    <2>6. (OwnedHasRows /\ HistoryFollowsTransitions /\ OneIncompletePerUser /\ RowsByEntitledUsers)'
      BY <2>2 DEF IInv, RowsInv, OwnedHasRows, HistoryFollowsTransitions,
         OneIncompletePerUser, RowsByEntitledUsers, getCurrentStatus
    <2> QED
      BY <2>3, <2>4, <2>5, <2>6 DEF IInv, RowsInv
  <1> QED
    BY <1>1, <1>2, <1>3

-----------------------------------------------------------------------------
\* Every step of every request preserves the invariant.
LEMMA NextIInv == IInv /\ [DeclNext]_declVars => IInv'
  <1> SUFFICES ASSUME IInv, [DeclNext]_declVars PROVE IInv'
    OBVIOUS
  <1>1. ASSUME NEW r \in Requests, NEW u \in Users, createDeclaration(r, u) PROVE IInv'
    BY <1>1, CreatePreserves
  <1>2. ASSUME NEW r \in Requests, CheckNoIncomplete(r) PROVE IInv'
    <2>1. req[r].user \in Users
      BY <1>2 DEF CheckNoIncomplete, IInv, RequestsCleared
    <2> QED
      BY <1>2, <2>1, CreatePreserves
  <1>3. ASSUME NEW r \in Requests, NEW d \in Declarations, registerDeclaration(r, d) PROVE IInv'
    BY <1>3, RegisterPreserves
  <1>4. ASSUME NEW r \in Requests, getDeclarationById(r) PROVE IInv'
    BY <1>4, ReplyPreserves DEF getDeclarationById, dataVars, Replies
  <1>5. ASSUME NEW r \in Requests,
               \/ \E u \in Users, d \in Declarations, new \in Statuses : changeStatus(r, u, d, new)
               \/ CheckTransition(r)
        PROVE  IInv'
    BY <1>5, CheckStatusPreserves
  <1>6. ASSUME NEW r \in Requests, FN_CHANGE_DECLARATION_STATUS(r) PROVE IInv'
    BY <1>6, ChangeStatusPreserves
  <1>7. ASSUME NEW r \in Requests,
               \/ \E u \in Users, d \in Declarations : updateJustification(r, u, d)
               \/ CheckJustifiable(r)
               \/ WriteJustification(r)
        PROVE  IInv'
    BY <1>7, JustifyPreserves
  <1>8. ASSUME NEW r \in Requests, StatementFails(r) PROVE IInv'
    BY <1>8, ReplyPreserves DEF StatementFails, dataVars, Replies
  <1>9. CASE UNCHANGED declVars
    BY <1>9 DEF declVars, IInv, TypeOK, RequestsCleared, RowsInv, OwnedHasRows,
       HistoryFollowsTransitions, OneIncompletePerUser, RowsByEntitledUsers,
       CompletedIsJustified, getCurrentStatus
  <1> QED
    BY <1>1, <1>2, <1>3, <1>4, <1>5, <1>6, <1>7, <1>8, <1>9 DEF DeclNext

LEMMA InvariantHolds == DeclSpec => []IInv
  BY InitIInv, NextIInv, PTL DEF DeclSpec

\* Type correctness of the tables and of the requests.
THEOREM TypeCorrect == DeclSpec => []TypeOK
  <1>1. IInv => TypeOK
    BY DEF IInv
  <1> QED
    BY <1>1, InvariantHolds, PTL

\* However the requests interleave, the status rows of a declaration form a path of
\* the transition table that starts at Incomplete.
THEOREM HistoryIsAPath == DeclSpec => []HistoryFollowsTransitions
  <1>1. IInv => HistoryFollowsTransitions
    BY DEF IInv, RowsInv
  <1> QED
    BY <1>1, InvariantHolds, PTL

\* No user ever has two Incomplete declarations.
THEOREM AtMostOneIncomplete == DeclSpec => []OneIncompletePerUser
  <1>1. IInv => OneIncompletePerUser
    BY DEF IInv, RowsInv
  <1> QED
    BY <1>1, InvariantHolds, PTL

\* Every status row was written by somebody entitled to write it.
THEOREM OnlyEntitledUsersWrite == DeclSpec => []RowsByEntitledUsers
  <1>1. IInv => RowsByEntitledUsers
    BY DEF IInv, RowsInv
  <1> QED
    BY <1>1, InvariantHolds, PTL

\* A declaration with functions outside its shift that was ever Completed has a
\* justification.
THEOREM CompletedStaysJustified == DeclSpec => []CompletedIsJustified
  <1>1. IInv => CompletedIsJustified
    BY DEF IInv, RowsInv
  <1> QED
    BY <1>1, InvariantHolds, PTL

-----------------------------------------------------------------------------
\* The stored function disagrees with the service only after a race, or for want of
\* a justification.
THEOREM RefusalMeansRace == DeclSpec => DbRefusesOnlyAfterRace
  <1> DEFINE A == \A r \in Requests :
                     req[r].step = "writeStatus" /\ req'[r].reply = "refused_by_db" =>
                        \/ getCurrentStatus(req[r].decl) # req[r].seen
                        \/ req[r].decl \in outOfShift /\ ~justified[req[r].decl]
  <1>1. IInv /\ [DeclNext]_declVars => [A]_declVars
    <2> SUFFICES ASSUME IInv, DeclNext, NEW r \in Requests,
                        req[r].step = "writeStatus", req'[r].reply = "refused_by_db",
                        getCurrentStatus(req[r].decl) = req[r].seen
                 PROVE  req[r].decl \in outOfShift /\ ~justified[req[r].decl]
      BY DEF declVars
    <2>1. /\ req[r].decl \in Declarations /\ req[r].target \in Statuses
          /\ isValidTransition(req[r].seen, req[r].target)
          /\ req[r] \in Request /\ req \in [Requests -> Request]
      BY DEF IInv, RequestsCleared, TypeOK
    <2>2. transition_ok(getCurrentStatus(req[r].decl), req[r].target)
      BY <2>1, TablesAgree DEF Request
    <2>3. req[r].reply = "other" /\ Idle("other").reply = "other"
      BY DEF IInv, RequestsCleared, Idle
    <2>4. PICK q \in Requests : DeclNext!(q)
      BY DEF DeclNext
    <2>5. q = r
      BY <2>1, <2>3, <2>4 DEF createDeclaration, CheckNoIncomplete, registerDeclaration,
         FN_REGISTER_DECLARATION, getDeclarationById, changeStatus, CheckTransition,
         FN_CHANGE_DECLARATION_STATUS, updateJustification, CheckJustifiable,
         WriteJustification, StatementFails, Goto, Reply
    <2>6. FN_CHANGE_DECLARATION_STATUS(r)
      <3>1. ~StatementFails(r)
        BY <2>1, <2>3 DEF StatementFails, Reply
      <3> QED
        BY <2>4, <2>5, <3>1 DEF createDeclaration, CheckNoIncomplete, registerDeclaration,
           getDeclarationById, changeStatus, CheckTransition, updateJustification,
           CheckJustifiable, WriteJustification
    <2>7. ~StatusAccepted(req[r].decl, req[r].target)
      BY <2>1, <2>3, <2>6 DEF FN_CHANGE_DECLARATION_STATUS, Reply
    <2> QED
      BY <2>2, <2>7 DEF StatusAccepted
  <1> QED
    BY <1>1, InvariantHolds, PTL DEF DeclSpec, DbRefusesOnlyAfterRace

-----------------------------------------------------------------------------
\* The states and steps of the service map to those of DeclarationLifecycle, whose
\* status is the newest status row.
LEMMA InitRefines == Init => Lifecycle!Init
  <1> SUFFICES ASSUME Init PROVE Lifecycle!Init
    OBVIOUS
  <1>1. \A d \in Declarations :
           getCurrentStatus(d) = IF owner[d] = NoUser THEN "None" ELSE "Incomplete"
    <2> SUFFICES ASSUME NEW d \in Declarations
                 PROVE  getCurrentStatus(d) = IF owner[d] = NoUser THEN "None" ELSE "Incomplete"
      OBVIOUS
    <2>1. CASE owner[d] = NoUser
      BY <2>1 DEF Init, getCurrentStatus
    <2>2. CASE owner[d] # NoUser
      <3>1. /\ history[d] = <<[status |-> "Incomplete", by |-> owner[d]]>>
            /\ history[d] # <<>> /\ Len(history[d]) = 1
            /\ history[d][1].status = "Incomplete"
        BY <2>2 DEF Init
      <3> QED
        BY <2>2, <3>1 DEF getCurrentStatus
    <2> QED
      BY <2>1, <2>2
  <1> QED
    BY <1>1 DEF Init, Lifecycle!Init

LEMMA NextRefines == IInv /\ [DeclNext]_declVars => [Lifecycle!Next]_(Lifecycle!vars)
  <1> SUFFICES ASSUME IInv, [DeclNext]_declVars PROVE [Lifecycle!Next]_(Lifecycle!vars)
    OBVIOUS
  <1> DEFINE status == [d \in Declarations |-> getCurrentStatus(d)]
  <1>1. ASSUME UNCHANGED <<owner, history>> PROVE UNCHANGED Lifecycle!vars
    BY <1>1 DEF Lifecycle!vars, getCurrentStatus
  <1>2. ASSUME NEW r \in Requests, NEW d \in Declarations, registerDeclaration(r, d),
               ~findIncompleteByUser(req[r].user)
        PROVE  Lifecycle!Next
    <2>1. PICK u \in Users : u = req[r].user
      BY <1>2 DEF registerDeclaration, IInv, RequestsCleared
    <2>2. /\ owner[d] = NoUser
          /\ owner' = [owner EXCEPT ![d] = u]
          /\ history' = [history EXCEPT ![d] = <<[status |-> "Incomplete", by |-> u]>>]
      BY <1>2, <2>1 DEF registerDeclaration, FN_REGISTER_DECLARATION
    <2>3. /\ history'[d] = <<[status |-> "Incomplete", by |-> u]>>
          /\ history'[d] # <<>> /\ Len(history'[d]) = 1
          /\ history'[d][1].status = "Incomplete"
      BY <2>2 DEF IInv, TypeOK
    <2>4. getCurrentStatus(d)' = "Incomplete"
      BY <2>3 DEF getCurrentStatus
    <2>5. \A e \in Declarations : e # d => getCurrentStatus(e)' = getCurrentStatus(e)
      BY <2>2 DEF IInv, TypeOK, getCurrentStatus
    <2>6. status' = [status EXCEPT ![d] = "Incomplete"]
      BY <2>4, <2>5
    <2>7. \A e \in Declarations : owner[e] = u => status[e] # "Incomplete"
      BY <1>2, <2>1 DEF findIncompleteByUser
    <2>8. Lifecycle!Register(u, d)
      BY <2>2, <2>6, <2>7 DEF Lifecycle!Register
    <2> QED
      BY <2>8 DEF Lifecycle!Next
  <1>3. ASSUME NEW r \in Requests, FN_CHANGE_DECLARATION_STATUS(r),
               StatusAccepted(req[r].decl, req[r].target)
        PROVE  Lifecycle!Next
    <2>1. PICK d \in Declarations, new \in Statuses, u \in Users :
               /\ d = req[r].decl /\ new = req[r].target /\ u = req[r].user
               /\ owner[d] # NoUser
               /\ u \in Admins \/ owner[d] = u
               /\ new \in AdminStatuses => u \in Admins
      BY <1>3 DEF FN_CHANGE_DECLARATION_STATUS, IInv, RequestsCleared
    <2>2. /\ history' = [history EXCEPT ![d] = Append(history[d], [status |-> new, by |-> u])]
          /\ UNCHANGED owner
      BY <1>3, <2>1 DEF FN_CHANGE_DECLARATION_STATUS
    <2>3. /\ transition_ok(getCurrentStatus(d), new)
      BY <1>3, <2>1 DEF StatusAccepted
    <2>4. getCurrentStatus(d)' = new
      <3> DEFINE row == [status |-> new, by |-> u]
      <3>1. row \in StatusRow /\ history[d] \in Seq(StatusRow) /\ row.status = new
        BY DEF IInv, TypeOK, StatusRow
      <3> HIDE DEF row
      <3>2. /\ Append(history[d], row) # <<>>
            /\ Append(history[d], row)[Len(Append(history[d], row))] = row
        BY <3>1, AppendProperties
      <3>3. history'[d] = Append(history[d], row)
        BY <2>2 DEF IInv, TypeOK, row
      <3> QED
        BY <3>1, <3>2, <3>3 DEF getCurrentStatus
    <2>5. \A e \in Declarations : e # d => getCurrentStatus(e)' = getCurrentStatus(e)
      BY <2>2 DEF IInv, TypeOK, getCurrentStatus
    <2>6. status' = [status EXCEPT ![d] = new]
      BY <2>4, <2>5
    <2>7. new \in Lifecycle!Successors(status[d])
      BY <2>3 DEF transition_ok, Lifecycle!Successors
    <2>8. Lifecycle!Entitled(u, d, new)
      BY <2>1, <2>3 DEF Lifecycle!Entitled, transition_ok, AdminStatuses
    <2>9. Lifecycle!Advance(u, d, new)
      BY <2>1, <2>2, <2>6, <2>7, <2>8 DEF Lifecycle!Advance
    <2> QED
      BY <2>7, <2>9 DEF Lifecycle!Next
  <1>4. CASE UNCHANGED declVars
    BY <1>1, <1>4 DEF declVars
  <1>5. ASSUME NEW r \in Requests, DeclNext!(r) PROVE [Lifecycle!Next]_(Lifecycle!vars)
    <2>1. ASSUME NEW d \in Declarations, registerDeclaration(r, d),
                 findIncompleteByUser(req[r].user)
          PROVE  UNCHANGED <<owner, history>>
      BY <2>1 DEF registerDeclaration, FN_REGISTER_DECLARATION
    <2>2. ASSUME FN_CHANGE_DECLARATION_STATUS(r),
                 ~StatusAccepted(req[r].decl, req[r].target)
          PROVE  UNCHANGED <<owner, history>>
      BY <2>2 DEF FN_CHANGE_DECLARATION_STATUS
    <2>3. ASSUME \/ \E u \in Users : createDeclaration(r, u)
                 \/ CheckNoIncomplete(r)
                 \/ getDeclarationById(r)
                 \/ \E u \in Users, d \in Declarations, new \in Statuses :
                       changeStatus(r, u, d, new)
                 \/ CheckTransition(r)
                 \/ \E u \in Users, d \in Declarations : updateJustification(r, u, d)
                 \/ CheckJustifiable(r)
                 \/ WriteJustification(r)
                 \/ StatementFails(r)
          PROVE  UNCHANGED <<owner, history>>
      BY <2>3 DEF createDeclaration, CheckNoIncomplete, getDeclarationById, changeStatus,
         CheckTransition, updateJustification, CheckJustifiable, WriteJustification,
         StatementFails
    <2> QED
      BY <1>1, <1>2, <1>3, <1>5, <2>1, <2>2, <2>3
  <1> QED
    BY <1>4, <1>5 DEF DeclNext

\* The service implements the abstract lifecycle.
THEOREM ServiceImplementsLifecycle == DeclSpec => LifecycleSpec
  BY InitRefines, NextRefines, InvariantHolds, PTL
     DEF DeclSpec, LifecycleSpec, Lifecycle!Spec
=============================================================================
