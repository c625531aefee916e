------------------------- MODULE ClientPagesProofs -------------------------
(***************************************************************************)
(* What the screens of the client show and send, for any number of         *)
(* declarations, log entries, requests and failures.                       *)
(*                                                                         *)
(* One inductive invariant per screen.  Of the review (ReviewInv): what is *)
(* behind a status dialog that opened with nothing awaited cannot change,  *)
(* so what is confirmed is of what was read.  Of the log (LogInv): the     *)
(* rows so far have no gaps, and the next page continues them.  Of the     *)
(* wizard (WizardInv): the hours of a page loaded are those of the record  *)
(* but for the entries whose answer is still to come.  Of the functions    *)
(* (FnInv): a row is the report shown of its function, or the one request  *)
(* applied and not yet heard of.  Each is kept by the steps of its screen; *)
(* the other screens do not touch it.                                      *)
(***************************************************************************)
EXTENDS ClientPages, FiniteSetTheorems, SequenceTheorems, TLAPS

-----------------------------------------------------------------------------
(***************************************************************************)
(* The administrator's declarations.                                       *)
(***************************************************************************)
Shown == Docs \X Server!Statuses
MaybeDoc == Docs \cup {NoDoc}
MaybeShown == Shown \cup {Nothing}

Views == [n : Nat, doc : Docs, refresh : BOOLEAN]
Loads == [n : Nat, then : MaybeDoc]
Changes == [n : Nat, doc : Docs, shown : Server!Statuses, to : Server!Statuses, on : Docs,
            clean : BOOLEAN, then : Docs, step : {"change", "get", "refused"},
            offered : BOOLEAN]
Lists == [loading : BOOLEAN, rows : SUBSET Shown, filter : {"all", "Revision"}, page : Nat,
          link : MaybeDoc]
Modals == [open : BOOLEAN, selected : MaybeShown, local : MaybeShown, loading : BOOLEAN]
Dialogs == [open : BOOLEAN, to : Server!Statuses \cup {NoStatus}, changing : BOOLEAN,
            on : MaybeDoc, clean : BOOLEAN]

ReviewTypeOK ==
    /\ rDb \in [Docs -> Server!Statuses]
    /\ rList \in Lists /\ rModal \in Modals /\ rDialog \in Dialogs
    /\ rExtra \in [shown : MaybeDoc, awaited : MaybeDoc]
    /\ rViews \subseteq Views /\ rLoads \subseteq Loads /\ rChange \subseteq Changes
    /\ rAsked \in Nat

\* A dialog that is open shows a declaration, and the one of the status is within it.
DialogsNest ==
    /\ rModal.open => rModal.selected \in Shown /\ rModal.local \in Shown
    /\ rDialog.open => rModal.open /\ rDialog.on \in Docs

\* A status dialog opened when nothing was awaited is about what the details show:
\* behind it nothing can be asked for.
CleanDialog ==
    rDialog.open /\ rDialog.clean =>
        rViews = {} /\ rLoads = {} /\ rDialog.on = rModal.local[1]

\* A change in progress is for the declaration its dialog was opened on, and one
\* that was offered is in the table of the client.
ChangesAreMeant ==
    \A c \in rChange : /\ c.clean => c.doc = c.on
                       /\ c.offered => c.to \in STATUS_TRANSITIONS[c.shown]

\* The rest times and licenses shown, or those on their way, are of the declaration
\* in the dialog.
ExtrasFollow ==
    /\ ~rModal.open => rExtra = [shown |-> NoDoc, awaited |-> NoDoc]
    /\ rModal.open => \/ rExtra.awaited = rModal.local[1]
                      \/ rExtra.awaited = NoDoc /\ rExtra.shown \in {NoDoc, rModal.local[1]}

ReviewInv == ReviewTypeOK /\ DialogsNest /\ CleanDialog /\ ChangesAreMeant /\ ExtrasFollow

LEMMA NoDocIsNone == NoDoc \notin Docs
  BY ReviewAssumption DEF NoDoc

\* What the dialog offers is what the server takes.
LEMMA OfferedIsTaken ==
    ASSUME NEW from \in Server!Statuses, NEW to \in STATUS_TRANSITIONS[from]
    PROVE  Server!isValidTransition(from, to)
  BY DEF STATUS_TRANSITIONS, Server!isValidTransition, Server!STATUS_TRANSITIONS,
         Server!Statuses

LEMMA TransitionsAreStatuses ==
    ASSUME NEW from \in Server!Statuses
    PROVE  STATUS_TRANSITIONS[from] \subseteq Server!Statuses
  BY DEF STATUS_TRANSITIONS, Server!Statuses

LEMMA ReviewStarts == ReviewInit => ReviewInv
  <1> SUFFICES ASSUME ReviewInit PROVE ReviewInv
    OBVIOUS
  <1>1. ReviewTypeOK
    BY DEF ReviewInit, ReviewTypeOK, Lists, Modals, Dialogs, Loads, NoDialog, MaybeDoc,
           MaybeShown, Server!Statuses, Shown
  <1> QED
    BY <1>1 DEF ReviewInit, ReviewInv, DialogsNest, CleanDialog, ChangesAreMeant,
           ExtrasFollow, NoDialog

\* The effect of the dialog keeps its rest times and licenses with it.
LEMMA SetModalKeeps ==
    ASSUME ReviewInv, NEW modal \in Modals, SetModal(modal),
           modal.open => modal.local \in Shown
    PROVE  /\ rModal' = modal
           /\ rExtra' \in [shown : MaybeDoc, awaited : MaybeDoc]
           /\ ExtrasFollow'
  <1>1. rModal' = modal
    BY DEF SetModal
  <1>2. CASE ~modal.open
    BY <1>1, <1>2 DEF SetModal, FetchExtra, ExtrasFollow, MaybeDoc
  <1>3. CASE modal.open /\ rModal.open /\ rModal.local[1] = modal.local[1]
    BY <1>1, <1>3 DEF SetModal, FetchExtra, ExtrasFollow, ReviewInv, ReviewTypeOK
  <1>4. CASE modal.open /\ ~(rModal.open /\ rModal.local[1] = modal.local[1])
    <2>1. modal.local[1] \in Docs
      BY <1>4 DEF Shown
    <2>2. rExtra' = [rExtra EXCEPT !.awaited = modal.local[1]]
      BY <1>4 DEF SetModal, FetchExtra
    <2> QED
      BY <1>1, <1>4, <2>1, <2>2 DEF ExtrasFollow, ReviewInv, ReviewTypeOK, MaybeDoc
  <1> QED
    BY <1>2, <1>3, <1>4

\* Asking for details: nothing else moves, and no dialog that was opened clean is
\* open.
LEMMA ViewDetailTyped ==
    ASSUME ReviewTypeOK, NEW doc \in Docs, ViewDetail(doc)
    PROVE  /\ rViews' \subseteq Views /\ rAsked' \in Nat /\ rModal' \in Modals
           /\ rModal' = [rModal EXCEPT !.loading = TRUE]
  <1> DEFINE new == [n |-> rAsked, doc |-> doc, refresh |-> FALSE]
  <1>1. rViews' = rViews \cup {new} /\ rAsked' = rAsked + 1
        /\ rModal' = [rModal EXCEPT !.loading = TRUE]
    BY DEF ViewDetail
  <1>2. new \in Views
    BY DEF ReviewTypeOK, Views
  <1> HIDE DEF new
  <1>3. rViews' \subseteq Views /\ rAsked' \in Nat
    BY <1>1, <1>2 DEF ReviewTypeOK
  <1>4. rModal' \in Modals
    BY <1>1 DEF ReviewTypeOK, Modals
  <1> QED
    BY <1>1, <1>3, <1>4

LEMMA FetchedTyped ==
    ASSUME ReviewTypeOK, NEW failed \in BOOLEAN
    PROVE  Fetched(failed) \in SUBSET Shown
  <1> DEFINE first == {e \in Docs : e <= ServerCap}
  <1>1. first \subseteq Docs
    OBVIOUS
  <1>2. Fetched(failed) = IF failed THEN rList.rows ELSE {<<d, rDb[d]>> : d \in first}
    BY DEF Fetched
  <1> HIDE DEF first
  <1>3. {<<d, rDb[d]>> : d \in first} \subseteq Shown
    BY <1>1 DEF ReviewTypeOK, Shown
  <1> QED
    BY <1>2, <1>3 DEF ReviewTypeOK, Lists

LEMMA LoadAnsweredKeeps ==
    ASSUME ReviewInv, NEW l \in rLoads, NEW failed \in BOOLEAN, LoadAnswered(l, failed)
    PROVE  ReviewInv'
  <1> DEFINE list == [rList EXCEPT !.loading = FALSE, !.rows = Fetched(failed)]
  <1>1. list \in Lists
    BY FetchedTyped DEF ReviewInv, ReviewTypeOK, Lists
  <1>2. l \in Loads /\ rLoads' \subseteq rLoads /\ UNCHANGED <<rDb, rDialog, rExtra, rChange>>
    BY DEF LoadAnswered, loadDeclarations, Reloaded, ReviewInv, ReviewTypeOK
  <1>3. ~(rDialog.open /\ rDialog.clean)
    BY DEF ReviewInv, CleanDialog
  <1>4. CASE loadDeclarations(l, failed)
    <2>1. OpenLinked(list)
      BY <1>4 DEF loadDeclarations
    <2>2. \/ rList' = list /\ UNCHANGED <<rViews, rAsked, rModal>>
          \/ /\ rList' = [list EXCEPT !.link = NoDoc]
             /\ UNCHANGED <<rViews, rAsked, rModal>>
          \/ /\ rList' = [list EXCEPT !.link = NoDoc]
             /\ list.link \in {r[1] : r \in list.rows} /\ ViewDetail(list.link)
      BY <2>1 DEF OpenLinked
    <2>3. rList' \in Lists
      BY <1>1, <2>2 DEF Lists, MaybeDoc
    <2>4. ASSUME list.link \in {r[1] : r \in list.rows} PROVE list.link \in Docs
      BY <1>1, <2>4 DEF Lists, Shown
    <2>5. \/ UNCHANGED <<rViews, rAsked, rModal>>
          \/ /\ rViews' \subseteq Views /\ rAsked' \in Nat /\ rModal' \in Modals
             /\ rModal' = [rModal EXCEPT !.loading = TRUE]
      BY <2>2, <2>4, ViewDetailTyped DEF ReviewInv
    <2>6. /\ rViews' \subseteq Views /\ rAsked' \in Nat /\ rModal' \in Modals
          /\ rModal'.open = rModal.open /\ rModal'.selected = rModal.selected
          /\ rModal'.local = rModal.local
      BY <2>5 DEF ReviewInv, ReviewTypeOK, Modals
    <2> QED
      BY <1>2, <1>3, <2>3, <2>6
      DEF ReviewInv, ReviewTypeOK, DialogsNest, CleanDialog, ChangesAreMeant, ExtrasFollow
  <1>5. CASE l.then /= NoDoc /\ Reloaded(l, failed)
    <2>1. rList' = list /\ UNCHANGED <<rModal, rAsked>>
      BY <1>5 DEF Reloaded
    <2> DEFINE new == [n |-> l.n, doc |-> l.then, refresh |-> TRUE]
    <2>2. new \in Views /\ rViews' = rViews \cup {new}
      BY <1>2, <1>5 DEF Reloaded, Views, Loads, MaybeDoc
    <2> HIDE DEF new
    <2>3. rViews' \subseteq Views
      BY <2>2 DEF ReviewInv, ReviewTypeOK
    <2> QED
      BY <1>1, <1>2, <1>3, <2>1, <2>3
      DEF ReviewInv, ReviewTypeOK, DialogsNest, CleanDialog, ChangesAreMeant, ExtrasFollow
  <1> QED
    BY <1>4, <1>5 DEF LoadAnswered

\* What moves the list only.
LEMMA ListMoves ==
    ASSUME ReviewInv, rList' \in Lists,
           UNCHANGED <<rDb, rModal, rDialog, rExtra, rViews, rLoads, rChange, rAsked>>
    PROVE  ReviewInv'
  BY DEF ReviewInv, ReviewTypeOK, DialogsNest, CleanDialog, ChangesAreMeant, ExtrasFollow

LEMMA RowAsked ==
    ASSUME ReviewInv, NEW row \in rList.rows, handleViewDetail(row)
    PROVE  ReviewInv'
  <1>1. row[1] \in Docs /\ ~rModal.open /\ ViewDetail(row[1])
        /\ UNCHANGED <<rDb, rList, rDialog, rExtra, rLoads, rChange>>
    BY DEF handleViewDetail, ReviewInv, ReviewTypeOK, Lists, Shown
  <1>2. /\ rViews' \subseteq Views /\ rAsked' \in Nat /\ rModal' \in Modals
        /\ rModal' = [rModal EXCEPT !.loading = TRUE]
    BY <1>1, ViewDetailTyped DEF ReviewInv
  <1>3. rModal'.open = rModal.open
    BY <1>2 DEF ReviewInv, ReviewTypeOK, Modals
  <1> QED
    BY <1>1, <1>2, <1>3
    DEF ReviewInv, ReviewTypeOK, DialogsNest, CleanDialog, ChangesAreMeant, ExtrasFollow

LEMMA ModalCloses ==
    ASSUME ReviewInv, CloseModal, UNCHANGED <<rDb, rList, rLoads, rChange, rAsked>>,
           rViews' \subseteq rViews
    PROVE  ReviewInv'
  <1> DEFINE modal == [rModal EXCEPT !.open = FALSE, !.selected = Nothing]
  <1>1. modal \in Modals /\ ~modal.open
    BY DEF ReviewInv, ReviewTypeOK, Modals, MaybeShown
  <1>2. /\ rModal' = modal /\ rExtra' \in [shown : MaybeDoc, awaited : MaybeDoc]
        /\ ExtrasFollow'
    BY <1>1, SetModalKeeps DEF CloseModal
  <1>3. rDialog' \in Dialogs /\ ~rDialog'.open
    BY DEF CloseModal, NoDialog, Dialogs, MaybeDoc
  <1> QED
    BY <1>1, <1>2, <1>3
    DEF ReviewInv, ReviewTypeOK, DialogsNest, CleanDialog, ChangesAreMeant

LEMMA ViewAnsweredKeeps ==
    ASSUME ReviewInv, NEW v \in rViews, NEW failed \in BOOLEAN, ViewAnswered(v, failed)
    PROVE  ReviewInv'
  <1> DEFINE full == <<v.doc, rDb[v.doc]>>
  <1>1. full \in Shown /\ full \in MaybeShown
    BY DEF ReviewInv, ReviewTypeOK, Views, Shown, MaybeShown
  <1>2. /\ rViews' \subseteq rViews
        /\ UNCHANGED <<rDb, rList, rLoads, rChange, rAsked>>
        /\ ~(rDialog.open /\ rDialog.clean)
    BY DEF ViewAnswered, ReviewInv, CleanDialog
  <1>3. CASE ~v.refresh /\ ~failed
    <2> DEFINE modal == [open |-> TRUE, selected |-> full, local |-> full, loading |-> FALSE]
    <2>1. modal \in Modals /\ modal.open /\ modal.local \in Shown /\ modal.selected \in Shown
      BY <1>1 DEF Modals
    <2>2. SetModal(modal) /\ UNCHANGED rDialog
      BY <1>3 DEF ViewAnswered
    <2>3. /\ rModal' = modal /\ rExtra' \in [shown : MaybeDoc, awaited : MaybeDoc]
          /\ ExtrasFollow'
      BY <2>1, <2>2, SetModalKeeps
    <2> QED
      BY <1>2, <2>1, <2>2, <2>3
      DEF ReviewInv, ReviewTypeOK, DialogsNest, CleanDialog, ChangesAreMeant
  <1>4. CASE ~v.refresh /\ failed
    <2>1. rModal' = [rModal EXCEPT !.loading = FALSE] /\ UNCHANGED <<rExtra, rDialog>>
      BY <1>4 DEF ViewAnswered
    <2>2. /\ rModal' \in Modals /\ rModal'.open = rModal.open
          /\ rModal'.selected = rModal.selected /\ rModal'.local = rModal.local
      BY <2>1 DEF ReviewInv, ReviewTypeOK, Modals
    <2> QED
      BY <1>2, <2>1, <2>2
      DEF ReviewInv, ReviewTypeOK, DialogsNest, CleanDialog, ChangesAreMeant, ExtrasFollow
  <1>5. CASE v.refresh /\ ~failed
    <2> DEFINE modal == [rModal EXCEPT !.selected = full, !.local = full]
    <2>1. /\ modal \in Modals /\ modal.local \in Shown /\ modal.selected \in Shown
          /\ modal.open = rModal.open
      BY <1>1 DEF ReviewInv, ReviewTypeOK, Modals
    <2>2. SetModal(modal) /\ UNCHANGED rDialog
      BY <1>5 DEF ViewAnswered
    <2>3. /\ rModal' = modal /\ rExtra' \in [shown : MaybeDoc, awaited : MaybeDoc]
          /\ ExtrasFollow'
      BY <2>1, <2>2, SetModalKeeps
    <2> QED
      BY <1>2, <2>1, <2>2, <2>3
      DEF ReviewInv, ReviewTypeOK, DialogsNest, CleanDialog, ChangesAreMeant
  <1>6. CASE v.refresh /\ failed /\ CloseModal
    BY <1>2, <1>6, ModalCloses
  <1> QED
    BY <1>3, <1>4, <1>5, <1>6 DEF ViewAnswered

LEMMA ExtraAnsweredKeeps ==
    ASSUME ReviewInv, NEW failed \in BOOLEAN, ExtraAnswered(failed)
    PROVE  ReviewInv'
  <1>1. /\ rExtra' \in [shown : MaybeDoc, awaited : MaybeDoc]
        /\ rExtra'.awaited = NoDoc /\ rExtra'.shown \in {NoDoc, rExtra.awaited}
    BY DEF ExtraAnswered, ReviewInv, ReviewTypeOK, MaybeDoc
  <1>2. rModal.open /\ rExtra.awaited = rModal.local[1]
    BY DEF ExtraAnswered, ReviewInv, ExtrasFollow
  <1>3. UNCHANGED <<rDb, rList, rModal, rDialog, rViews, rLoads, rChange, rAsked>>
    BY DEF ExtraAnswered
  <1> QED
    BY <1>1, <1>2, <1>3
    DEF ReviewInv, ReviewTypeOK, DialogsNest, CleanDialog, ChangesAreMeant, ExtrasFollow

\* Steps of the status dialog and of the changes that leave the rest alone.
LEMMA DialogMoves ==
    ASSUME ReviewInv, rDialog' \in Dialogs,
           rDialog'.open => /\ rModal.open /\ rDialog'.on \in Docs
                            /\ rDialog'.clean => /\ rViews = {} /\ rLoads = {}
                                                 /\ rDialog'.on = rModal.local[1],
           rChange' \subseteq Changes, ChangesAreMeant', rAsked' \in Nat,
           rDb' \in [Docs -> Server!Statuses],
           UNCHANGED <<rList, rModal, rExtra, rViews, rLoads>>
    PROVE  ReviewInv'
  BY DEF ReviewInv, ReviewTypeOK, DialogsNest, CleanDialog, ExtrasFollow

LEMMA DialogKept ==
    ASSUME ReviewInv, rDialog.open
    PROVE  /\ rModal.open /\ rDialog.on \in Docs /\ rModal.local \in Shown
           /\ rModal.selected \in Shown
           /\ rDialog.clean => rViews = {} /\ rLoads = {} /\ rDialog.on = rModal.local[1]
  BY DEF ReviewInv, DialogsNest, CleanDialog

LEMMA StatusOpens ==
    ASSUME ReviewInv, handleOpenStatusChange PROVE ReviewInv'
  <1>1. rModal.open /\ rModal.local[1] \in Docs
    BY DEF handleOpenStatusChange, ReviewInv, DialogsNest, Shown
  <1>2. rDialog' = [open |-> TRUE, to |-> NoStatus, changing |-> rDialog.changing,
                    on |-> rModal.local[1], clean |-> rViews = {} /\ rLoads = {}]
    BY DEF handleOpenStatusChange, NoDialog
  <1>3. rDialog' \in Dialogs
    BY <1>1, <1>2 DEF Dialogs, ReviewInv, ReviewTypeOK, MaybeDoc
  <1>4. ChangesAreMeant' /\ rChange' \subseteq Changes /\ rAsked' \in Nat
        /\ rDb' \in [Docs -> Server!Statuses]
        /\ UNCHANGED <<rList, rModal, rExtra, rViews, rLoads>>
    BY DEF handleOpenStatusChange, ChangesAreMeant, ReviewInv, ReviewTypeOK
  <1> QED
    BY <1>1, <1>2, <1>3, <1>4, DialogMoves

LEMMA StatusSelected ==
    ASSUME ReviewInv, NEW status \in Server!Statuses, SelectStatus(status) PROVE ReviewInv'
  <1>1. /\ rDialog.open /\ rDialog' = [rDialog EXCEPT !.to = status]
        /\ UNCHANGED <<rDb, rChange, rAsked>>
        /\ UNCHANGED <<rList, rModal, rExtra, rViews, rLoads>>
    BY DEF SelectStatus
  <1>2. rDialog' \in Dialogs /\ rDialog'.on = rDialog.on /\ rDialog'.clean = rDialog.clean
    BY <1>1 DEF ReviewInv, ReviewTypeOK, Dialogs
  <1>3. ChangesAreMeant' /\ rChange' \subseteq Changes /\ rAsked' \in Nat
        /\ rDb' \in [Docs -> Server!Statuses]
    BY <1>1 DEF ChangesAreMeant, ReviewInv, ReviewTypeOK
  <1> QED
    BY <1>1, <1>2, <1>3, DialogKept, DialogMoves

LEMMA StatusCloses ==
    ASSUME ReviewInv, handleCloseStatusDialog PROVE ReviewInv'
  <1>1. rDialog' \in Dialogs /\ ~rDialog'.open
    BY DEF handleCloseStatusDialog, NoDialog, Dialogs, MaybeDoc
  <1>2. ChangesAreMeant' /\ rChange' \subseteq Changes /\ rAsked' \in Nat
        /\ rDb' \in [Docs -> Server!Statuses]
        /\ UNCHANGED <<rList, rModal, rExtra, rViews, rLoads>>
    BY DEF handleCloseStatusDialog, ChangesAreMeant, ReviewInv, ReviewTypeOK
  <1> QED
    BY <1>1, <1>2, DialogMoves

LEMMA StatusConfirmed ==
    ASSUME ReviewInv, handleStatusChangeConfirm PROVE ReviewInv'
  <1> DEFINE new == [n |-> rAsked, doc |-> rModal.local[1], shown |-> rModal.local[2],
                     to |-> rDialog.to, on |-> rDialog.on, clean |-> rDialog.clean,
                     then |-> rModal.selected[1], step |-> "change",
                     offered |-> rDialog.to \in validNextStatuses(rModal.local)]
  <1>1. /\ rDialog.open /\ rDialog.to /= NoStatus
        /\ rDialog' = [rDialog EXCEPT !.changing = TRUE]
        /\ rChange' = rChange \cup {new} /\ rAsked' = rAsked + 1 /\ UNCHANGED rDb
        /\ UNCHANGED <<rList, rModal, rExtra, rViews, rLoads>>
    BY DEF handleStatusChangeConfirm
  <1>2. rDialog' \in Dialogs /\ rDialog'.on = rDialog.on /\ rDialog'.clean = rDialog.clean
    BY <1>1 DEF ReviewInv, ReviewTypeOK, Dialogs
  <1>3. /\ rDialog.on \in Docs /\ rModal.local[1] \in Docs /\ rModal.selected[1] \in Docs
        /\ rModal.local[2] \in Server!Statuses /\ rDialog.to \in Server!Statuses
        /\ rDialog.clean \in BOOLEAN /\ rAsked \in Nat
    BY <1>1, DialogKept DEF Shown, ReviewInv, ReviewTypeOK, Dialogs
  <1>4. new \in Changes
    BY <1>3 DEF Changes
  <1>5. /\ new.clean => new.doc = new.on
        /\ new.offered => new.to \in STATUS_TRANSITIONS[new.shown]
    BY <1>1, <1>3, DialogKept DEF validNextStatuses, Nothing
  <1>6. /\ ChangesAreMeant' /\ rChange' \subseteq Changes /\ rAsked' \in Nat
        /\ rDb' \in [Docs -> Server!Statuses]
    BY <1>1, <1>4, <1>5 DEF ChangesAreMeant, ReviewInv, ReviewTypeOK
  <1> QED
    BY <1>1, <1>2, <1>6, DialogKept, DialogMoves

LEMMA ChangeServedKeeps ==
    ASSUME ReviewInv, NEW c \in rChange, ChangeServed(c) PROVE ReviewInv'
  <1>1. /\ UNCHANGED <<rDialog, rAsked>>
        /\ UNCHANGED <<rList, rModal, rExtra, rViews, rLoads>>
    BY DEF ChangeServed
  <1>2. PICK step \in {"get", "refused"} : rChange' = (rChange \ {c}) \cup {[c EXCEPT !.step = step]}
    BY DEF ChangeServed
  <1>3. c \in Changes /\ c.to \in Server!Statuses /\ c.doc \in Docs
    BY DEF ReviewInv, ReviewTypeOK, Changes
  <1>4. rDb' \in [Docs -> Server!Statuses]
    BY <1>3 DEF ChangeServed, ReviewInv, ReviewTypeOK
  <1> DEFINE served == [c EXCEPT !.step = step]
  <1>5. /\ served \in Changes /\ served.clean = c.clean /\ served.doc = c.doc
        /\ served.on = c.on /\ served.offered = c.offered /\ served.to = c.to
        /\ served.shown = c.shown
    BY <1>3 DEF Changes
  <1>6. ChangesAreMeant' /\ rChange' \subseteq Changes /\ rAsked' \in Nat
    BY <1>1, <1>2, <1>5 DEF ChangesAreMeant, ReviewInv, ReviewTypeOK
  <1>7. rDialog' \in Dialogs
    BY <1>1 DEF ReviewInv, ReviewTypeOK
  <1> QED
    BY <1>1, <1>4, <1>6, <1>7, DialogKept, DialogMoves

LEMMA ChangeShownKeeps ==
    ASSUME ReviewInv, NEW c \in rChange, ChangeShown(c) PROVE ReviewInv'
  <1> DEFINE modal == [rModal EXCEPT !.local = <<c.doc, rDb[c.doc]>>]
  <1>1. c \in Changes /\ c.doc \in Docs /\ c.then \in Docs /\ c.n \in Nat
    BY DEF ReviewInv, ReviewTypeOK, Changes
  <1>2. /\ modal \in Modals /\ modal.open = rModal.open /\ modal.selected = rModal.selected
        /\ modal.local \in Shown
    BY <1>1 DEF ReviewInv, ReviewTypeOK, Modals, MaybeShown, Shown
  <1>3. /\ rModal' = modal /\ rExtra' \in [shown : MaybeDoc, awaited : MaybeDoc]
        /\ ExtrasFollow'
    BY <1>2, SetModalKeeps DEF ChangeShown
  <1>4. rDialog' \in Dialogs /\ ~rDialog'.open
    BY DEF ChangeShown, ReviewInv, ReviewTypeOK, Dialogs
  <1> DEFINE reload == [n |-> c.n, then |-> c.then]
  <1>5. reload \in Loads /\ rLoads' = rLoads \cup {reload}
    BY <1>1 DEF ChangeShown, Loads, MaybeDoc
  <1> HIDE DEF reload
  <1>6. rLoads' \subseteq Loads /\ rList' \in Lists
    BY <1>5 DEF ChangeShown, ReviewInv, ReviewTypeOK, Lists
  <1>7. rChange' \subseteq rChange /\ UNCHANGED <<rDb, rViews, rAsked>>
    BY DEF ChangeShown
  <1> QED
    BY <1>2, <1>3, <1>4, <1>6, <1>7
    DEF ReviewInv, ReviewTypeOK, DialogsNest, CleanDialog, ChangesAreMeant

LEMMA ChangeFailsKeeps ==
    ASSUME ReviewInv, NEW c \in rChange, ChangeFails(c) PROVE ReviewInv'
  <1>1. /\ rDialog' \in Dialogs /\ rDialog'.open = rDialog.open
        /\ rDialog'.on = rDialog.on /\ rDialog'.clean = rDialog.clean
    BY DEF ChangeFails, ReviewInv, ReviewTypeOK, Dialogs
  <1>2. ChangesAreMeant' /\ rChange' \subseteq Changes /\ rAsked' \in Nat
        /\ rDb' \in [Docs -> Server!Statuses]
        /\ UNCHANGED <<rList, rModal, rExtra, rViews, rLoads>>
    BY DEF ChangeFails, ChangesAreMeant, ReviewInv, ReviewTypeOK
  <1> QED
    BY <1>1, <1>2, DialogKept, DialogMoves

LEMMA ReviewKept == ReviewInv /\ [ReviewNext]_reviewVars => ReviewInv'
  <1> SUFFICES ASSUME ReviewInv, [ReviewNext]_reviewVars PROVE ReviewInv'
    OBVIOUS
  <1>1. CASE UNCHANGED reviewVars
    BY <1>1 DEF reviewVars, ReviewInv, ReviewTypeOK, DialogsNest, CleanDialog,
                ChangesAreMeant, ExtrasFollow
  <1>2. ASSUME NEW filter \in {"all", "Revision"}, SetFilter(filter) PROVE ReviewInv'
    BY <1>2, ListMoves DEF SetFilter, ReviewInv, ReviewTypeOK, Lists
  <1>3. ASSUME NEW page \in Docs, handlePageChange(page) PROVE ReviewInv'
    BY <1>3, ListMoves, ReviewAssumption DEF handlePageChange, ReviewInv, ReviewTypeOK, Lists
  <1>4. ASSUME handleCloseDetail PROVE ReviewInv'
    BY <1>4, ModalCloses DEF handleCloseDetail
  <1>5. ASSUME NEW doc \in Docs, NEW status \in Server!Statuses, SomebodyElse(doc, status)
        PROVE  ReviewInv'
    BY <1>5 DEF SomebodyElse, ReviewInv, ReviewTypeOK, DialogsNest, CleanDialog,
                ChangesAreMeant, ExtrasFollow
  <1>6. CASE ReviewUser
    BY <1>2, <1>3, <1>4, <1>6, RowAsked, StatusOpens, StatusSelected, StatusCloses,
       StatusConfirmed DEF ReviewUser
  <1>7. CASE ReviewAnswers
    BY <1>7, LoadAnsweredKeeps, ViewAnsweredKeeps, ExtraAnsweredKeeps, ChangeServedKeeps,
       ChangeShownKeeps, ChangeFailsKeeps DEF ReviewAnswers
  <1> QED
    BY <1>1, <1>5, <1>6, <1>7 DEF ReviewNext

\* A change refused although it was offered: the row had moved meanwhile.
LEMMA RefusedIsOutdated ==
    ReviewInv /\ [ReviewNext]_reviewVars =>
        \A c \in rChange' \ rChange :
            c.step = "refused" /\ c.offered => rDb[c.doc] /= c.shown
  <1> SUFFICES ASSUME ReviewInv, [ReviewNext]_reviewVars,
                      NEW c \in rChange' \ rChange, c.step = "refused", c.offered
               PROVE  rDb[c.doc] /= c.shown
    OBVIOUS
  <1>1. PICK b \in rChange : ChangeServed(b)
    <2>1. ASSUME UNCHANGED rChange \/ rChange' \subseteq rChange PROVE FALSE
      BY <2>1
    <2>2. ~handleStatusChangeConfirm
      BY DEF handleStatusChangeConfirm
    <2>3. ~ReviewUser
      BY <2>1, <2>2 DEF ReviewUser, SetFilter, handlePageChange, handleViewDetail,
            handleCloseDetail, handleOpenStatusChange, handleCloseStatusDialog, SelectStatus
    <2>4. ~(\E doc \in Docs, status \in Server!Statuses : SomebodyElse(doc, status))
      BY <2>1 DEF SomebodyElse
    <2>5. ~UNCHANGED reviewVars
      BY <2>1 DEF reviewVars
    <2>6. ReviewAnswers
      BY <2>3, <2>4, <2>5 DEF ReviewNext
    <2> QED
      BY <2>1, <2>6 DEF ReviewAnswers, LoadAnswered, loadDeclarations, Reloaded,
            ViewAnswered, ExtraAnswered, ChangeShown, ChangeFails
  <1>2. b \in Changes /\ c \notin rChange
    BY DEF ReviewInv, ReviewTypeOK
  <1>3. ~Server!isValidTransition(rDb[b.doc], b.to) /\ c = [b EXCEPT !.step = "refused"]
    BY <1>1, <1>2 DEF ChangeServed, Changes
  <1>4. c.doc = b.doc /\ c.to = b.to /\ c.shown = b.shown /\ b.offered
        /\ b.shown \in Server!Statuses
    BY <1>2, <1>3 DEF Changes
  <1>5. b.to \in STATUS_TRANSITIONS[b.shown]
    BY <1>4 DEF ReviewInv, ChangesAreMeant
  <1> QED
    BY <1>3, <1>4, <1>5, OfferedIsTaken

-----------------------------------------------------------------------------
\* Down to each row every number since the first is there.
NoGaps(rows) == \A i \in 1..Len(rows) : rows[i]..rows[1] \subseteq {rows[j] : j \in 1..i}

\* The next page continues where the rows so far end, or above: the log has more
\* than the pages before the last.
PagesContinue ==
    /\ lLoad.next <= 1 => lLoad.rows = <<>>
    /\ lLoad.next > 1 =>
          /\ lLoad.rows /= <<>> /\ lLoad.next <= lLoad.last
          /\ (lLoad.last - 1) * LogPage < lCount
          /\ lLoad.rows[Len(lLoad.rows)] - 1 <= lCount - (lLoad.next - 1) * LogPage

LogInv ==
    /\ lCount \in Nat /\ lRows \in Seq(Int) /\ NoGaps(lRows)
    /\ lLoad \in [next : Nat, last : Nat, rows : Seq(Int)] /\ NoGaps(lLoad.rows)
    /\ PagesContinue

-----------------------------------------------------------------------------
Statuses == {"none", "Incomplete", "Completed", "Abandoned"}
Records == [status : Statuses, text : BOOLEAN, entries : SUBSET Panels, clean : BOOLEAN]
Screens == {"home", "record", "form", "hours", "extra"}
MaybeWDoc == WDocs \cup {None}
Pages == [screen : Screens, doc : MaybeWDoc, loading : BOOLEAN, error : BOOLEAN,
          isRead : BOOLEAN, required : BOOLEAN, text : BOOLEAN, saving : BOOLEAN,
          state : MaybeWDoc, at : [Panels -> MaybeWDoc], listed : SUBSET Panels, key : Nat]
EntryWrites == {"add", "remove"}
DocWrites == {"abandon", "add", "remove", "justify", "complete"}
WKinds == Reads \cup DocWrites \cup {"create"}
WCalls == [n : Nat, kind : WKinds, doc : MaybeWDoc, panel : Panels \cup {NoPanel},
           step : {"sent", "ok", "refused"}, over : BOOLEAN, entries : SUBSET Panels,
           orphan : BOOLEAN]

Counts == [sent : Nat, writes : Nat, moves : Nat]

WizardTypeOK ==
    /\ wDb \in [WDocs -> Records]
    /\ wPage \in Pages
    /\ wCalls \subseteq WCalls
    /\ wTimer \in BOOLEAN /\ wStray \in BOOLEAN
    /\ wCount \in Counts

\* A page that loaded has the declaration it is about, and what was asked about one
\* declaration has it.
DocsAreKnown ==
    /\ wPage.screen \in {"hours", "extra"} /\ ~wPage.loading /\ ~wPage.error => wPage.doc \in WDocs
    /\ \A c \in wCalls : /\ c.kind \in DocWrites => c.doc \in WDocs
                         /\ c.kind = "create" /\ c.step = "ok" => c.doc \in WDocs
                         /\ c.kind \in EntryWrites => c.panel \in Panels

\* Reads in flight are those of the page that is mounted.
ReadsAreOfThePage ==
    \A c \in wCalls :
        /\ c.kind = "open" => wPage.screen \in {"hours", "extra"}
        /\ c.kind = "check" => wPage.screen \in {"record", "form"}
        /\ c.kind = "abandon" /\ ~c.orphan => wPage.screen = "record"

Added == \E c \in wCalls : c.kind = "add" /\ c.step = "ok"
Opening == \E c \in wCalls : c.kind = "open" /\ c.n = wPage.key

\* The hours of the last page miss no entry, unless the load asked for last is on its
\* way or an entry was just added; and so do those on their way.
HoursFollow ==
    wPage.screen = "extra" /\ ~wStray =>
        /\ ~wPage.loading /\ ~wPage.error =>
              \/ Over(wDb[wPage.doc].entries) => wPage.required
              \/ Opening \/ Added
        /\ \A c \in wCalls : c.kind = "open" /\ c.step = "ok" /\ c.doc \in WDocs =>
              (Over(wDb[c.doc].entries) => c.over) \/ Added

\* A declaration pressed in order, whose entries exceed the shift, is not being
\* completed before its justification is there.
JustifiedFirst ==
    /\ \A c \in wCalls : c.kind = "justify" /\ c.step = "ok" => wDb[c.doc].text
    /\ \A d \in WDocs : wDb[d].status = "none" => ~wDb[d].clean
    /\ \A d \in WDocs :
          wDb[d].status = "Incomplete" /\ wDb[d].clean /\ Over(wDb[d].entries) /\ ~wDb[d].text =>
             ~\E c \in wCalls : c.kind = "complete" /\ c.step = "sent" /\ c.doc = d

WizardInv ==
    /\ WizardTypeOK /\ DocsAreKnown /\ ReadsAreOfThePage /\ HoursFollow /\ JustifiedFirst
    /\ CompletedMeansJustified

-----------------------------------------------------------------------------
\* The pages of a log, but for the last, are full.
LEMMA PagesAreFull ==
    ASSUME NEW count \in Nat
    PROVE  /\ PagesOf(count) \in Nat
           /\ PagesOf(count) = 0 \/ (PagesOf(count) - 1) * LogPage < count
  <1> DEFINE q == PagesOf(count)
             a == count + LogPage - 1
  <1>1. LogPage \in Nat \ {0} /\ a \in Nat
    BY LogAssumption
  <1>2. q \in Nat /\ q * LogPage <= a
    BY <1>1 DEF PagesOf
  <1>3. (q - 1) * LogPage = q * LogPage - LogPage
    BY <1>1, <1>2
  <1> QED
    BY <1>1, <1>2, <1>3

\* Rows and the page that continues them.
LEMMA ContinuedWithoutGaps ==
    ASSUME NEW rows \in Seq(Int), NoGaps(rows), NEW page \in Seq(Int), NEW from \in Int,
           \A i \in 1..Len(page) : page[i] = from - i + 1,
           rows = <<>> \/ rows[Len(rows)] - 1 <= from
    PROVE  rows \o page \in Seq(Int) /\ NoGaps(rows \o page)
  <1> DEFINE all == rows \o page
             n == Len(rows)
             m == Len(page)
  <1>1. all \in Seq(Int) /\ n \in Nat /\ m \in Nat /\ Len(all) = n + m
    OBVIOUS
  <1>2. /\ \A i \in 1..n : all[i] = rows[i]
        /\ \A i \in 1..m : all[n + i] = from - i + 1
    OBVIOUS
  <1>3. SUFFICES ASSUME NEW i \in 1..Len(all), NEW x \in all[i]..all[1]
                 PROVE  \E j \in 1..i : all[j] = x
    BY <1>1 DEF NoGaps
  <1> HIDE DEF all
  <1>4. CASE i <= n
    <2>1. i \in 1..n /\ 1 \in 1..n
      BY <1>1, <1>4
    <2>2. x \in rows[i]..rows[1]
      BY <1>2, <1>3, <2>1
    <2>3. PICK j \in 1..i : rows[j] = x
      BY <2>1, <2>2 DEF NoGaps
    <2>4. j \in 1..n /\ j \in 1..i
      BY <1>1, <1>4, <2>1, <2>3
    <2> QED
      BY <1>2, <2>3, <2>4
  <1>5. CASE i > n
    <2>1. i - n \in 1..m /\ all[i] = from - (i - n) + 1
      <3>1. i - n \in 1..m /\ n + (i - n) = i
        BY <1>1, <1>5
      <3> QED
        BY <1>2, <3>1
    <2>2. x \in Int /\ from - (i - n) + 1 <= x /\ x <= all[1]
      <3>1. all[1] \in Int /\ all[i] \in Int
        BY <1>1
      <3> QED
        BY <1>3, <2>1, <3>1
    <2>3. CASE x <= from
      <3>1. from - x + 1 \in 1..m /\ n + (from - x + 1) \in 1..i
        <4>1. i \in Int /\ n \in Int /\ m \in Int /\ x \in Int /\ from \in Int
          BY <1>1, <1>3, <2>2
        <4>2. i - n <= m /\ from - (i - n) + 1 <= x /\ x <= from
          BY <2>1, <2>2, <2>3
        <4> DEFINE k == from - x + 1
        <4>3. k \in Int /\ 1 <= k /\ k <= i - n
          BY <4>1, <4>2
        <4> HIDE DEF k
        <4>4. k \in 1..m
          BY <4>1, <4>2, <4>3
        <4>5. n + k \in 1..i
          BY <1>1, <4>1, <4>3
        <4> QED
          BY <4>4, <4>5 DEF k
      <3>2. all[n + (from - x + 1)] = from - (from - x + 1) + 1
        BY <1>2, <3>1
      <3>3. from - (from - x + 1) + 1 = x
        BY <2>2
      <3> QED
        BY <3>1, <3>2, <3>3
    <2>4. CASE x > from
      <3>1. n >= 1 /\ rows[n] \in Int /\ rows[n] <= x
        <4>1. n >= 1
          <5>1. SUFFICES ASSUME n = 0 PROVE FALSE
            BY <1>1
          <5>2. 1 \in 1..m
            BY <1>1, <2>1
          <5>3. all[1] = from
            BY <1>2, <5>1, <5>2
          <5> QED
            BY <2>2, <2>4, <5>3
        <4> QED
          BY <1>1, <2>2, <2>4, <4>1
      <3>2. n \in 1..n /\ 1 \in 1..n
        BY <1>1, <3>1
      <3>3. x \in rows[n]..rows[1]
        BY <1>2, <2>2, <3>1, <3>2
      <3>4. PICK j \in 1..n : rows[j] = x
        BY <3>2, <3>3 DEF NoGaps
      <3>5. j \in 1..i /\ all[j] = x
        <4>1. i \in Nat /\ n \in Nat /\ i > n
          BY <1>1, <1>5
        <4>2. j \in 1..i
          <5>1. j \in Nat /\ 1 <= j /\ j <= n
            BY <4>1, <3>4
          <5> QED
            BY <4>1, <5>1
        <4>3. all[j] = rows[j]
          BY <1>2
        <4> QED
          BY <3>4, <4>2, <4>3
      <3> QED
        BY <3>5
    <2> QED
      BY <2>2, <2>3, <2>4
  <1> QED
    BY <1>1, <1>4, <1>5

LEMMA NoRowsNoGaps == NoGaps(<<>>)
  BY DEF NoGaps

LEMMA FirstRowsWithoutGaps ==
    ASSUME NEW rows \in Seq(Int), NoGaps(rows), NEW k \in 0..Len(rows)
    PROVE  SubSeq(rows, 1, k) \in Seq(Int) /\ NoGaps(SubSeq(rows, 1, k))
  <1> DEFINE first == SubSeq(rows, 1, k)
  <1>1. first \in Seq(Int) /\ Len(first) = k /\ \A i \in 1..k : first[i] = rows[i]
    OBVIOUS
  <1> HIDE DEF first
  <1>2. SUFFICES ASSUME NEW i \in 1..k, NEW x \in first[i]..first[1]
                 PROVE  \E j \in 1..i : first[j] = x
    BY <1>1 DEF NoGaps, first
  <1>3. i \in 1..Len(rows) /\ x \in rows[i]..rows[1] /\ k \in Nat
    <2>1. 1 \in 1..k /\ k \in Nat
      OBVIOUS
    <2> QED
      BY <1>1, <1>2, <2>1
  <1>4. PICK j \in 1..i : rows[j] = x
    BY <1>3 DEF NoGaps
  <1> QED
    BY <1>1, <1>3, <1>4

LEMMA LogStarts == LogInit => LogInv
  <1> SUFFICES ASSUME LogInit PROVE LogInv
    OBVIOUS
  <1>1. lCount \in Nat /\ lRows = <<>> /\ lLoad = [next |-> 1, last |-> 0, rows |-> <<>>]
    BY LogAssumption DEF LogInit, Idle
  <1> QED
    BY <1>1, NoRowsNoGaps DEF LogInv, PagesContinue

\* A page of the server, which has at least what was skipped.
LEMMA ServerPageIs ==
    ASSUME NEW page \in Nat \ {0}, lCount \in Nat, (page - 1) * LogPage <= lCount
    PROVE  LET rows == ServerPage(page)
               from == lCount - (page - 1) * LogPage
           IN  /\ rows \in Seq(Int) /\ Len(rows) = Least(from, LogPage)
               /\ \A i \in 1..Len(rows) : rows[i] = from - i + 1
  <1> DEFINE skipped == (page - 1) * LogPage
             size == Least(lCount - skipped, LogPage)
  <1>1. LogPage \in Nat \ {0} /\ skipped \in Nat
    <2>1. page - 1 \in Nat /\ LogPage \in Nat \ {0}
      BY LogAssumption
    <2> QED
      BY <2>1
  <1> HIDE DEF skipped
  <1>2. size \in Nat
    BY <1>1 DEF Least, skipped
  <1>3. ServerPage(page) = [i \in 1..size |-> lCount - skipped - i + 1]
    BY <1>1 DEF ServerPage, Least, skipped
  <1> HIDE DEF size
  <1>4. ServerPage(page) \in Seq(Int) /\ Len(ServerPage(page)) = size
    BY <1>1, <1>2, <1>3
  <1> QED
    BY <1>1, <1>3, <1>4 DEF size, skipped

LEMMA CollectedWithoutGaps == LogInv /\ listRecent => LogInv'
  <1> SUFFICES ASSUME LogInv, listRecent PROVE LogInv'
    OBVIOUS
  <1> DEFINE next == lLoad.next
             skipped == (next - 1) * LogPage
             from == lCount - skipped
             page == ServerPage(next)
             rows == lLoad.rows \o page
             last == IF next > 1 THEN lLoad.last
                     ELSE Least(PagesOf(lCount), PagesOf(SampleSize))
  <1>1. /\ next \in Nat \ {0} /\ lCount \in Nat /\ lLoad.last \in Nat /\ lLoad.rows \in Seq(Int)
        /\ LogPage \in Nat \ {0} /\ SampleSize \in Nat
    BY LogAssumption DEF LogInv, listRecent, loading
  <1>2. /\ last \in Nat /\ skipped \in Nat /\ skipped <= lCount
        /\ next < last => (last - 1) * LogPage < lCount /\ next * LogPage < lCount
    <2>1. PagesOf(lCount) \in Nat /\ PagesOf(SampleSize) \in Nat
      BY <1>1, PagesAreFull
    <2>2. last \in Nat
      BY <1>1, <2>1 DEF Least
    <2>3. skipped \in Nat
      <3>1. next - 1 \in Nat
        BY <1>1
      <3> QED
        BY <1>1, <3>1
    <2>4. next < last => (last - 1) * LogPage < lCount
      <3>1. CASE next > 1
        BY <3>1 DEF LogInv, PagesContinue
      <3>2. CASE next = 1
        <4>1. SUFFICES ASSUME next < last PROVE (last - 1) * LogPage < lCount
          OBVIOUS
        <4>2. last <= PagesOf(lCount) /\ PagesOf(lCount) /= 0
          BY <2>1, <3>2, <4>1 DEF Least
        <4>3. (PagesOf(lCount) - 1) * LogPage < lCount
          BY <1>1, <4>2, PagesAreFull
        <4>4. (last - 1) * LogPage <= (PagesOf(lCount) - 1) * LogPage
          <5> HIDE DEF last
          <5>1. \A a, b \in Int, p \in Nat : a <= b => a * p <= b * p
            OBVIOUS
          <5>2. last - 1 \in Int /\ PagesOf(lCount) - 1 \in Int /\ last - 1 <= PagesOf(lCount) - 1
            BY <2>1, <2>2, <4>2
          <5> QED
            BY <1>1, <5>1, <5>2
        <4>5. (last - 1) * LogPage \in Int /\ (PagesOf(lCount) - 1) * LogPage \in Int
          BY <1>1, <2>1, <2>2
        <4> QED
          BY <1>1, <4>3, <4>4, <4>5
      <3> QED
        BY <1>1, <3>1, <3>2
    <2>5. next < last => next * LogPage < lCount
      <3> HIDE DEF last
      <3>1. \A a, b \in Int, p \in Nat : a <= b => a * p <= b * p
        OBVIOUS
      <3>2. next < last => next * LogPage <= (last - 1) * LogPage
        <4>1. next \in Int /\ last - 1 \in Int /\ (next < last => next <= last - 1)
          BY <1>1, <2>2
        <4> QED
          BY <1>1, <3>1, <4>1
      <3>3. (last - 1) * LogPage \in Int /\ next * LogPage \in Int
        BY <1>1, <2>2
      <3> QED
        BY <1>1, <2>4, <3>2, <3>3
    <2>6. skipped <= lCount
      <3>1. CASE next = 1
        BY <1>1, <3>1
      <3>2. CASE next > 1
        <4>1. (lLoad.last - 1) * LogPage < lCount /\ next <= lLoad.last
          BY <3>2 DEF LogInv, PagesContinue
        <4>2. \A a, b \in Int, p \in Nat : a <= b => a * p <= b * p
          OBVIOUS
        <4>3. skipped <= (lLoad.last - 1) * LogPage
          BY <1>1, <4>1, <4>2
        <4>4. (lLoad.last - 1) * LogPage \in Int
          BY <1>1
        <4> QED
          BY <1>1, <2>3, <4>1, <4>3, <4>4
      <3> QED
        BY <1>1, <3>1, <3>2
    <2> QED
      BY <2>2, <2>3, <2>4, <2>5, <2>6
  <1>3. /\ page \in Seq(Int) /\ Len(page) = Least(from, LogPage)
        /\ \A i \in 1..Len(page) : page[i] = from - i + 1
    BY <1>1, <1>2, ServerPageIs
  <1>4. /\ from \in Int /\ next * LogPage \in Int /\ next - 1 \in Nat
        /\ skipped + LogPage = next * LogPage
    <2>1. next \in Nat /\ LogPage \in Nat /\ next - 1 \in Nat
      BY <1>1
    <2>2. (next - 1) * LogPage = next * LogPage - LogPage /\ next * LogPage \in Int
      BY <2>1
    <2> QED
      BY <1>1, <2>1, <2>2
  <1> HIDE DEF skipped, from, page, last
  <1>5. rows \in Seq(Int) /\ NoGaps(rows)
    <2>1. lLoad.rows = <<>> \/ lLoad.rows[Len(lLoad.rows)] - 1 <= from
      BY <1>1 DEF LogInv, PagesContinue, from, skipped
    <2>2. NoGaps(lLoad.rows)
      BY DEF LogInv
    <2> QED
      BY <1>1, <1>3, <1>4, <2>1, <2>2, ContinuedWithoutGaps
  <1> HIDE DEF rows
  <1>6. lCount' = lCount
    BY DEF listRecent
  <1>7. CASE next >= last
    <2>1. lRows' = SubSeq(rows, 1, Least(SampleSize, Len(rows))) /\ lLoad' = Idle
      BY <1>7 DEF listRecent, last, rows, page
    <2>2. Least(SampleSize, Len(rows)) \in 0..Len(rows)
      BY <1>1, <1>5 DEF Least
    <2>3. lRows' \in Seq(Int) /\ NoGaps(lRows')
      BY <1>5, <2>1, <2>2, FirstRowsWithoutGaps
    <2>4. lLoad' = [next |-> 0, last |-> 0, rows |-> <<>>]
      BY <2>1 DEF Idle
    <2> QED
      BY <1>1, <1>6, <2>3, <2>4, NoRowsNoGaps DEF LogInv, PagesContinue
  <1>8. CASE next < last
    <2>1. lLoad' = [next |-> next + 1, last |-> last, rows |-> rows] /\ lRows' = lRows
      <3>1. ~(next >= last)
        BY <1>1, <1>2, <1>8
      <3> QED
        BY <3>1 DEF listRecent, last, rows, page
    <2>2. Len(page) = LogPage
      <3>1. LogPage \in Int /\ lCount \in Int /\ skipped \in Int /\ next * LogPage < lCount
        BY <1>1, <1>2, <1>8
      <3>2. from > LogPage
        BY <1>4, <3>1 DEF from
      <3> QED
        BY <1>3, <1>4, <3>1, <3>2 DEF Least
    <2>3. rows /= <<>> /\ rows[Len(rows)] = from - LogPage + 1
      <3>1. Len(rows) = Len(lLoad.rows) + LogPage
        BY <1>1, <1>3, <2>2, ConcatProperties DEF rows
      <3>2. rows[Len(rows)] = page[LogPage]
        <4>1. LogPage \in 1..Len(page) /\ Len(lLoad.rows) \in Nat
          BY <1>1, <1>3, <2>2
        <4>2. rows[Len(lLoad.rows) + LogPage] = page[LogPage]
          BY <1>1, <1>3, <4>1 DEF rows
        <4> QED
          BY <3>1, <4>2
      <3>3. page[LogPage] = from - LogPage + 1
        BY <1>1, <1>3, <2>2
      <3>4. rows /= <<>>
        BY <1>1, <3>1
      <3> QED
        BY <3>2, <3>3, <3>4
    <2>4. rows[Len(rows)] - 1 <= lCount - next * LogPage
      BY <1>1, <1>2, <1>4, <2>3 DEF from
    <2>5. lLoad' \in [next : Nat, last : Nat, rows : Seq(Int)]
      BY <1>1, <1>2, <1>5, <2>1
    <2>6. lLoad'.next = next + 1 /\ lLoad'.last = last /\ lLoad'.rows = rows
      BY <2>1
    <2>7. next + 1 > 1 /\ next + 1 <= last /\ (next + 1) - 1 = next
      BY <1>1, <1>2, <1>8
    <2>8. PagesContinue'
      <3>1. lLoad'.next - 1 = next /\ ~(lLoad'.next <= 1)
        BY <1>1, <2>6, <2>7
      <3>2. (lLoad'.next - 1) * LogPage = next * LogPage
        BY <3>1
      <3>3. lLoad'.rows /= <<>> /\ lLoad'.next <= lLoad'.last
        BY <2>3, <2>6, <2>7
      <3>4. (lLoad'.last - 1) * LogPage < lCount'
        BY <1>2, <1>6, <1>8, <2>6
      <3>5. lLoad'.rows[Len(lLoad'.rows)] - 1 <= lCount' - (lLoad'.next - 1) * LogPage
        BY <1>6, <2>4, <2>6, <3>2
      <3> QED
        BY <3>1, <3>3, <3>4, <3>5 DEF PagesContinue
    <2> QED
      BY <1>5, <1>6, <2>1, <2>5, <2>6, <2>8 DEF LogInv
  <1> QED
    BY <1>1, <1>2, <1>7, <1>8

LEMMA LogKept == LogInv /\ [LogNext]_logVars => LogInv'
  <1> SUFFICES ASSUME LogInv, [LogNext]_logVars PROVE LogInv'
    OBVIOUS
  <1>1. ASSUME UNCHANGED <<lCount, lLoad, lRows>> PROVE LogInv'
    BY <1>1 DEF LogInv, PagesContinue
  <1>2. CASE LogWritten
    <2>1. lCount' = lCount + 1 /\ lLoad' = lLoad /\ lRows' = lRows
      BY <1>2 DEF LogWritten
    <2>2. lLoad.next > 1 =>
            /\ (lLoad.last - 1) * LogPage < lCount + 1
            /\ lLoad.rows[Len(lLoad.rows)] - 1 <= (lCount + 1) - (lLoad.next - 1) * LogPage
      <3>1. /\ lCount \in Int /\ (lLoad.last - 1) * LogPage \in Int
            /\ (lLoad.next - 1) * LogPage \in Int
        BY LogAssumption DEF LogInv
      <3>2. lLoad.next > 1 => lLoad.rows[Len(lLoad.rows)] \in Int
        BY DEF LogInv, PagesContinue
      <3> QED
        BY <3>1, <3>2 DEF LogInv, PagesContinue
    <2>3. lCount + 1 \in Nat
      BY DEF LogInv
    <2>4. PagesContinue'
      BY <2>1, <2>2 DEF LogInv, PagesContinue
    <2> QED
      BY <2>1, <2>3, <2>4 DEF LogInv
  <1>3. CASE loadFails \/ load
    <2>1. /\ \E k \in {0, 1} : lLoad' = [next |-> k, last |-> 0, rows |-> <<>>]
          /\ lCount' = lCount /\ lRows' = lRows
      BY <1>3 DEF loadFails, load, Idle
    <2>2. /\ lLoad' \in [next : Nat, last : Nat, rows : Seq(Int)]
          /\ lLoad'.next <= 1 /\ ~(lLoad'.next > 1) /\ lLoad'.rows = <<>>
      <3>1. <<>> \in Seq(Int)
        OBVIOUS
      <3>2. PICK k \in {0, 1} : lLoad' = [next |-> k, last |-> 0, rows |-> <<>>]
        BY <2>1
      <3>3. lLoad'.next = k /\ lLoad'.last = 0 /\ lLoad'.rows = <<>> /\ k \in Nat /\ k <= 1
        BY <3>2
      <3>4. lLoad' \in [next : Nat, last : Nat, rows : Seq(Int)]
        BY <3>1, <3>2, <3>3
      <3> QED
        BY <3>3, <3>4
    <2>3. PagesContinue'
      BY <2>2 DEF PagesContinue
    <2> QED
      BY <2>1, <2>2, <2>3, NoRowsNoGaps DEF LogInv
  <1>4. CASE listRecent
    BY <1>4, CollectedWithoutGaps
  <1>5. CASE UNCHANGED logVars
    BY <1>1, <1>5 DEF logVars
  <1>6. CASE \/ closeDetail
             \/ \E g \in lGets : DetailAnswered(g)
             \/ \E log \in pageItems : openDetail(log)
    BY <1>1, <1>6, Zenon DEF closeDetail, DetailAnswered, openDetail
  <1>7. CASE \/ \E severity \in {"", "LOW", "HIGH"} : setSeverity(severity)
             \/ \E page \in 1..MaxLogs : setPage(page)
    <2>1. UNCHANGED <<lCount, lLoad, lRows>>
      BY <1>7, Zenon DEF setSeverity, setPage
    <2> QED
      BY <1>1, <2>1
  <1> QED
    BY <1>2, <1>3, <1>4, <1>5, <1>6, <1>7, Zenon DEF LogNext, LogAnswers

LEMMA RowsHaveNoGaps == LogInv => SampleHasNoGaps
  <1>1. LogInv => DOMAIN lRows = 1..Len(lRows) /\ NoGaps(lRows)
    BY DEF LogInv
  <1> QED
    BY <1>1, Zenon DEF NoGaps, SampleHasNoGaps

-----------------------------------------------------------------------------
(***************************************************************************)
(* The employee's declaration.                                             *)
(***************************************************************************)
LEMMA NoneIsNoDoc == None \notin WDocs
  BY DEF None, WDocs

LEMMA OverIsBoolean == \A entries : Over(entries) \in BOOLEAN
  BY DEF Over

\* Fewer entries do not exceed a shift that more fit in.
LEMMA OverShrinks ==
    ASSUME NEW entries \in SUBSET Panels, NEW left \in SUBSET entries
    PROVE  Over(left) => Over(entries)
  <1>1. IsFiniteSet(Panels)
    <2>1. IsFiniteSet({"function"})
      BY FS_Singleton
    <2>2. IsFiniteSet({"function"} \cup {"license"})
      BY <2>1, FS_AddElement
    <2>3. IsFiniteSet(({"function"} \cup {"license"}) \cup {"rest"})
      BY <2>2, FS_AddElement
    <2>4. Panels = ({"function"} \cup {"license"}) \cup {"rest"}
      BY DEF Panels
    <2> QED
      BY <2>3, <2>4
  <1>2. IsFiniteSet(entries)
    BY <1>1, FS_Subset
  <1>3. IsFiniteSet(left) /\ Cardinality(left) <= Cardinality(entries)
    BY <1>2, FS_Subset
  <1>4. Cardinality(left) \in Nat /\ Cardinality(entries) \in Nat
    BY <1>2, <1>3, FS_CardinalityType
  <1> QED
    BY <1>3, <1>4, WizardAssumption DEF Over

\* A request as it is sent.
New(c, kind, doc, panel) ==
    /\ c \in WCalls /\ c.n = wCount.sent /\ c.step = "sent" /\ c.orphan = FALSE
    /\ c.kind = kind /\ c.doc = doc /\ c.panel = panel

LEMMA NewCallTyped ==
    ASSUME WizardTypeOK, NEW kind \in WKinds, NEW doc \in MaybeWDoc,
           NEW panel \in Panels \cup {NoPanel}
    PROVE  New(NewCall(kind, doc, panel), kind, doc, panel)
  <1>1. wCount.sent \in Nat
    BY DEF WizardTypeOK, Counts
  <1>2. NewCall(kind, doc, panel) \in WCalls
    BY <1>1 DEF NewCall, WCalls
  <1> QED
    BY <1>2 DEF NewCall, New

\* One more request, counted twice.
LEMMA Counted ==
    ASSUME WizardTypeOK
    PROVE  /\ [wCount EXCEPT !.writes = @ + 1, !.sent = @ + 1] \in Counts
           /\ [wCount EXCEPT !.moves = @ + 1, !.sent = @ + 1] \in Counts
           /\ [wCount EXCEPT !.sent = @ + 1] \in Counts
  <1>1. wCount \in Counts /\ wCount.sent + 1 \in Nat
    BY DEF WizardTypeOK, Counts
  <1> DEFINE written == [wCount EXCEPT !.writes = @ + 1]
             moved == [wCount EXCEPT !.moves = @ + 1]
  <1>2. written \in Counts /\ moved \in Counts
    BY <1>1 DEF Counts
  <1> HIDE DEF written, moved
  <1>3. \A count \in Counts : [count EXCEPT !.sent = wCount.sent + 1] \in Counts
    BY <1>1 DEF Counts
  <1>4. /\ [written EXCEPT !.sent = wCount.sent + 1] \in Counts
        /\ [moved EXCEPT !.sent = wCount.sent + 1] \in Counts
        /\ [wCount EXCEPT !.sent = wCount.sent + 1] \in Counts
    BY <1>1, <1>2, <1>3
  <1> QED
    BY <1>4 DEF written, moved

\* Whether a declaration is justified in time depends on the records, the completions
\* sent and the justifications taken only.
LEMMA JustificationKept ==
    ASSUME WizardInv, UNCHANGED wDb,
           \A c \in wCalls' :
              (c.kind = "complete" /\ c.step = "sent") \/ (c.kind = "justify" /\ c.step = "ok") =>
                 \E b \in wCalls : b.kind = c.kind /\ b.step = c.step /\ b.doc = c.doc
    PROVE  JustifiedFirst' /\ CompletedMeansJustified'
  <1>1. CompletedMeansJustified'
    BY DEF WizardInv, CompletedMeansJustified
  <1> QED
    BY <1>1 DEF WizardInv, JustifiedFirst

\* What a page asks for when it is mounted.
Asked(c, screen) ==
    /\ c \in WCalls /\ c.kind \in Reads /\ c.step = "sent" /\ c.orphan = FALSE
    /\ c.n = wCount.sent
    /\ c.kind = "open" => screen \in {"hours", "extra"}
    /\ c.kind = "check" => screen \in {"record", "form"}

LEMMA FirstCallsTyped ==
    ASSUME WizardTypeOK, NEW screen \in Screens, NEW doc \in MaybeWDoc,
           NEW c \in FirstCalls(screen, doc)
    PROVE  Asked(c, screen)
  <1>1. PICK kind \in Reads, d \in {doc, None}, panel \in {"function", "license", "rest", NoPanel} :
           /\ c = NewCall(kind, d, panel)
           /\ kind = "open" => screen \in {"hours", "extra"}
           /\ kind = "check" => screen \in {"record", "form"}
    BY DEF FirstCalls, Screens, Reads
  <1>2. kind \in WKinds /\ d \in MaybeWDoc /\ panel \in Panels \cup {NoPanel}
    BY DEF WKinds, MaybeWDoc, Panels
  <1>3. New(c, kind, d, panel)
    BY <1>1, <1>2, NewCallTyped
  <1> QED
    BY <1>1, <1>3 DEF New, Asked

\* A write whose page is gone.
Orphaned(k) ==
    /\ k \in WCalls /\ k.orphan = TRUE
    /\ \E c \in wCalls : /\ c.kind \notin Reads /\ k.kind = c.kind /\ k.step = c.step
                         /\ k.doc = c.doc /\ k.panel = c.panel

LEMMA OrphansTyped ==
    ASSUME WizardTypeOK, NEW left \in SUBSET wCalls,
           NEW k \in {[c EXCEPT !.orphan = TRUE] : c \in {d \in left : d.kind \notin Reads}}
    PROVE  Orphaned(k)
  <1>1. PICK c \in left : c.kind \notin Reads /\ k = [c EXCEPT !.orphan = TRUE]
    OBVIOUS
  <1>2. c \in wCalls /\ c \in WCalls
    BY DEF WizardTypeOK
  <1>3. /\ k \in WCalls /\ k.orphan = TRUE /\ k.kind = c.kind /\ k.step = c.step
        /\ k.doc = c.doc /\ k.panel = c.panel
    BY <1>1, <1>2 DEF WCalls
  <1> QED
    BY <1>1, <1>2, <1>3 DEF Orphaned

\* Another page is mounted: what was written goes on without it, what was read is
\* dropped, and its own hours are awaited.
LEMMA NavigateKeeps ==
    ASSUME WizardInv, NEW screen \in Screens, NEW doc \in MaybeWDoc,
           NEW kept, \A k \in kept : Orphaned(k),
           navigate(screen, doc, kept),
           UNCHANGED wDb, wTimer' \in BOOLEAN, wCount' \in Counts
    PROVE  WizardInv'
  <1> DEFINE first == FirstCalls(screen, doc)
  <1>1. \A k \in kept : Orphaned(k)
    OBVIOUS
  <1>2. \A c \in first : Asked(c, screen)
    BY FirstCallsTyped DEF WizardInv
  <1>3. wCalls' = kept \cup first
    BY DEF navigate
  <1>4. /\ wPage' \in Pages /\ wPage'.screen = screen /\ wPage'.key = wCount.sent
        /\ screen /= "home" => wPage'.loading
    <2> DEFINE fresh == Fresh(screen, doc)
    <2>0. [panel \in Panels |-> None] \in [Panels -> MaybeWDoc]
      BY DEF MaybeWDoc
    <2>1. /\ fresh \in Pages /\ fresh.screen = screen
          /\ fresh.loading = (screen /= "home")
      <3> DEFINE at == [panel \in Panels |-> None]
      <3>1. at \in [Panels -> MaybeWDoc]
        BY <2>0
      <3>2. fresh = [screen |-> screen, doc |-> doc, loading |-> screen # "home",
                     error |-> FALSE, isRead |-> FALSE, required |-> FALSE,
                     text |-> FALSE, saving |-> FALSE, state |-> doc,
                     at |-> at, listed |-> {}, key |-> 0]
        BY DEF Fresh
      <3> HIDE DEF at, fresh
      <3> QED
        BY <3>1, <3>2 DEF Pages
    <2>2. wPage' = [fresh EXCEPT !.key = wCount.sent]
      BY DEF navigate
    <2>3. wCount.sent \in Nat
      BY DEF WizardInv, WizardTypeOK, Counts
    <2> HIDE DEF fresh
    <2> QED
      BY <2>1, <2>2, <2>3 DEF Pages
  <1>5. wStray' \in BOOLEAN
    BY DEF navigate
  <1> HIDE DEF first
  <1>6. WizardTypeOK'
    <2>1. wCalls' \subseteq WCalls
      BY <1>1, <1>2, <1>3 DEF Asked, Orphaned
    <2> QED
      BY <1>4, <1>5, <2>1 DEF WizardInv, WizardTypeOK
  <1>7. DocsAreKnown'
    BY <1>1, <1>2, <1>3, <1>4 DEF WizardInv, DocsAreKnown, Asked, Orphaned, Reads, DocWrites, EntryWrites
  <1>8. ReadsAreOfThePage'
    BY <1>1, <1>2, <1>3, <1>4 DEF ReadsAreOfThePage, Asked, Orphaned, Reads
  <1>9. HoursFollow'
    BY <1>1, <1>2, <1>3, <1>4 DEF HoursFollow, Asked, Orphaned, Reads
  <1>10. JustifiedFirst' /\ CompletedMeansJustified'
    <2>1. \A c \in wCalls' :
            (c.kind = "complete" /\ c.step = "sent") \/ (c.kind = "justify" /\ c.step = "ok") =>
               \E b \in wCalls : b.kind = c.kind /\ b.step = c.step /\ b.doc = c.doc
      BY <1>1, <1>2, <1>3 DEF Asked, Orphaned, Reads
    <2> QED
      BY <2>1, JustificationKept
  <1> QED
    BY <1>6, <1>7, <1>8, <1>9, <1>10 DEF WizardInv

LEMMA MoveKeeps ==
    ASSUME WizardInv, NEW screen \in Screens, NEW doc \in MaybeWDoc, Move(screen, doc)
    PROVE  WizardInv'
  <1>1. navigate(screen, doc, Orphans)
    BY DEF Move
  <1>2. \A k \in Orphans : Orphaned(k)
    <2>1. wCalls \in SUBSET wCalls /\ WizardTypeOK
      BY DEF WizardInv
    <2> QED
      BY <2>1, OrphansTyped DEF Orphans
  <1>3. UNCHANGED wDb /\ wTimer' \in BOOLEAN /\ wCount' \in Counts
    BY Counted DEF Move, WizardInv, WizardTypeOK
  <1> QED
    BY <1>1, <1>2, <1>3, NavigateKeeps

\* A request of the user: nothing is read or shown yet.
LEMMA WriteKeeps ==
    ASSUME WizardInv, NEW kind \in {"abandon", "create", "add", "remove"},
           NEW doc \in MaybeWDoc, NEW panel \in Panels \cup {NoPanel},
           kind /= "create" => doc \in WDocs, kind \in EntryWrites => panel \in Panels,
           kind = "abandon" => wPage.screen = "record",
           Write(kind, doc, panel), UNCHANGED <<wDb, wPage, wTimer, wStray>>
    PROVE  WizardInv'
  <1> DEFINE new == NewCall(kind, doc, panel)
  <1>1. New(new, kind, doc, panel)
    <2>1. kind \in WKinds
      BY DEF WKinds, DocWrites
    <2> QED
      BY <2>1, NewCallTyped DEF WizardInv
  <1>2. wCalls' = wCalls \cup {new} /\ wCount' \in Counts
    BY Counted DEF Write, WizardInv
  <1> HIDE DEF new
  <1>3. WizardTypeOK'
    BY <1>1, <1>2 DEF New, WizardInv, WizardTypeOK
  <1>4. DocsAreKnown'
    BY <1>1, <1>2 DEF New, WizardInv, DocsAreKnown, DocWrites
  <1>5. ReadsAreOfThePage'
    BY <1>1, <1>2 DEF New, WizardInv, ReadsAreOfThePage
  <1>6. HoursFollow'
    BY <1>1, <1>2 DEF New, WizardInv, HoursFollow, Opening, Added
  <1>7. JustifiedFirst' /\ CompletedMeansJustified'
    BY <1>1, <1>2, JustificationKept DEF New
  <1> QED
    BY <1>3, <1>4, <1>5, <1>6, <1>7 DEF WizardInv

\* The last button: the record made of it, and the request, of one declaration.
LEMMA CompletePressed ==
    ASSUME WizardInv, handleComplete PROVE WizardInv'
  <1> DEFINE kind == IF wPage.text THEN "justify" ELSE "complete"
             doc == wPage.doc
             new == NewCall(kind, doc, NoPanel)
  <1>1. /\ wPage.screen = "extra" /\ ~wPage.loading /\ ~wPage.error
        /\ wPage.required => wPage.text
        /\ wPage' = [wPage EXCEPT !.saving = TRUE] /\ UNCHANGED <<wTimer, wStray>>
        /\ wCalls' = wCalls \cup {new}
        /\ wDb' = [wDb EXCEPT ![doc].clean =
                      IF wDb[doc].status = "Incomplete" THEN UpToDate ELSE @]
    BY DEF handleComplete, On, Write
  <1>2. doc \in WDocs /\ doc \in MaybeWDoc
    BY <1>1 DEF WizardInv, DocsAreKnown, MaybeWDoc
  <1>3. New(new, kind, doc, NoPanel)
    <2>1. kind \in WKinds /\ NoPanel \in Panels \cup {NoPanel}
      BY DEF WKinds, DocWrites
    <2> QED
      BY <1>2, <2>1, NewCallTyped DEF WizardInv
  <1>4. wCount' \in Counts
    BY Counted DEF handleComplete, Write, WizardInv
  <1>5. /\ wPage' \in Pages
        /\ wPage'.screen = wPage.screen /\ wPage'.loading = wPage.loading
        /\ wPage'.error = wPage.error /\ wPage'.doc = wPage.doc /\ wPage'.key = wPage.key
        /\ wPage'.required = wPage.required
    BY <1>1 DEF WizardInv, WizardTypeOK, Pages
  <1>6. /\ wDb' \in [WDocs -> Records]
        /\ \A d \in WDocs : /\ wDb'[d].status = wDb[d].status
                            /\ wDb'[d].text = wDb[d].text
                            /\ wDb'[d].entries = wDb[d].entries
                            /\ d /= doc => wDb'[d].clean = wDb[d].clean
        /\ wDb[doc].status = "Incomplete" => (wDb'[doc].clean <=> UpToDate)
        /\ wDb[doc].status /= "Incomplete" => wDb'[doc].clean = wDb[doc].clean
    <2>1. UpToDate \in BOOLEAN
      BY DEF UpToDate
    <2>2. wDb[doc] \in Records
      BY <1>2 DEF WizardInv, WizardTypeOK
    <2> HIDE DEF new, kind
    <2>3. wDb' = [wDb EXCEPT ![doc] = [wDb[doc] EXCEPT !.clean =
                    IF wDb[doc].status = "Incomplete" THEN UpToDate ELSE wDb[doc].clean]]
      BY <1>1
    <2> DEFINE rec == [wDb[doc] EXCEPT !.clean =
                    IF wDb[doc].status = "Incomplete" THEN UpToDate ELSE wDb[doc].clean]
    <2>4. /\ rec \in Records /\ rec.status = wDb[doc].status /\ rec.text = wDb[doc].text
          /\ rec.entries = wDb[doc].entries
          /\ rec.clean = IF wDb[doc].status = "Incomplete" THEN UpToDate ELSE wDb[doc].clean
      BY <2>1, <2>2 DEF Records
    <2> HIDE DEF rec
    <2>5. \A d \in WDocs : wDb'[d] = IF d = doc THEN rec ELSE wDb[d]
      BY <2>3 DEF WizardInv, WizardTypeOK, rec
    <2>6. wDb' \in [WDocs -> Records]
      BY <2>3, <2>4 DEF WizardInv, WizardTypeOK, rec
    <2> QED
      BY <1>2, <2>4, <2>5, <2>6
  <1>7. UpToDate /\ ~wPage.text => ~Over(wDb[doc].entries)
    <2>1. UpToDate => ~wStray /\ ~Opening /\ ~Added
      BY DEF UpToDate, Opening, Added
    <2>2. ~wStray => (Over(wDb[doc].entries) => wPage.required) \/ Opening \/ Added
      BY <1>1 DEF WizardInv, HoursFollow
    <2> QED
      BY <1>1, <2>1, <2>2
  <1>8. UpToDate => ~\E c \in wCalls : c.kind = "complete"
    BY DEF UpToDate
  <1>9. wPage.text => kind = "justify"
    OBVIOUS
  <1>10. kind \in {"justify", "complete"}
    OBVIOUS
  <1> HIDE DEF new, kind, doc
  <1>11. WizardTypeOK'
    BY <1>1, <1>3, <1>4, <1>5, <1>6 DEF New, WizardInv, WizardTypeOK
  <1>12. DocsAreKnown'
    BY <1>1, <1>2, <1>3, <1>5, <1>10 DEF New, WizardInv, DocsAreKnown, EntryWrites
  <1>13. ReadsAreOfThePage'
    BY <1>1, <1>3, <1>5, <1>10 DEF New, WizardInv, ReadsAreOfThePage
  <1>14. HoursFollow'
    <2>1. (Added => Added') /\ (Opening => Opening')
      BY <1>1, <1>5 DEF Added, Opening
    <2>2. wPage.doc \in WDocs
      BY <1>2 DEF doc
    <2> QED
      BY <1>1, <1>3, <1>5, <1>6, <1>10, <2>1, <2>2 DEF New, WizardInv, HoursFollow
  <1>15. JustifiedFirst'
    BY <1>1, <1>2, <1>3, <1>6, <1>7, <1>8, <1>9, <1>10 DEF New, WizardInv, JustifiedFirst
  <1>16. CompletedMeansJustified'
    BY <1>2, <1>6 DEF WizardInv, CompletedMeansJustified
  <1> QED
    BY <1>11, <1>12, <1>13, <1>14, <1>15, <1>16 DEF WizardInv

(***************************************************************************)
(* The server's side.  A request that was served takes its place.          *)
(***************************************************************************)
\* c was served as served: only its step, its answer and perhaps its declaration.
ServedAs(c, served) ==
    /\ wCalls' = (wCalls \ {c}) \cup {served}
    /\ served \in WCalls /\ served.kind = c.kind /\ served.n = c.n
    /\ served.orphan = c.orphan /\ served.panel = c.panel /\ served.step \in {"ok", "refused"}

LEMMA ServedKeeps ==
    ASSUME WizardInv, NEW c \in wCalls, c.step = "sent", NEW served, ServedAs(c, served),
           UNCHANGED <<wPage, wTimer, wStray, wCount>>,
           c.kind \in DocWrites => served.doc \in WDocs,
           c.kind = "create" /\ served.step = "ok" => served.doc \in WDocs
    PROVE  /\ wCalls' \subseteq WCalls
           /\ DocsAreKnown' /\ ReadsAreOfThePage'
           /\ Added => Added'
           /\ Opening => Opening'
  <1>1. wCalls' \subseteq WCalls
    BY DEF ServedAs, WizardInv, WizardTypeOK
  <1>2. DocsAreKnown'
    BY DEF ServedAs, WizardInv, DocsAreKnown
  <1>3. ReadsAreOfThePage'
    BY DEF ServedAs, WizardInv, ReadsAreOfThePage
  <1>4. (Added => Added') /\ (Opening => Opening')
    BY DEF ServedAs, Added, Opening
  <1> QED
    BY <1>1, <1>2, <1>3, <1>4

LEMMA ServeReadKeeps ==
    ASSUME WizardInv, NEW c \in wCalls, c.step = "sent", ServeRead(c),
           UNCHANGED <<wPage, wTimer, wStray, wCount>>
    PROVE  WizardInv'
  <1> DEFINE doc == IF c.doc = None THEN checkIncomplete ELSE c.doc
             over == doc /= None /\ c.kind = "open" /\ Over(wDb[doc].entries)
             entries == IF doc = None \/ c.kind /= "list" THEN {}
                        ELSE wDb[doc].entries \cap {c.panel}
             served == [c EXCEPT !.step = "ok", !.doc = doc, !.over = over, !.entries = entries]
  <1>1. c \in WCalls
    BY DEF WizardInv, WizardTypeOK
  <1>2. doc \in MaybeWDoc
    <2>1. checkIncomplete \in MaybeWDoc
      BY DEF checkIncomplete, Incomplete, MaybeWDoc
    <2> QED
      BY <1>1, <2>1 DEF WCalls
  <1>3. over \in BOOLEAN
    OBVIOUS
  <1>4. entries \in SUBSET Panels
    BY <1>2 DEF WizardInv, WizardTypeOK, Records, MaybeWDoc
  <1>5. c.kind \in Reads /\ UNCHANGED wDb /\ wCalls' = (wCalls \ {c}) \cup {served}
    BY DEF ServeRead
  <1>6. over => doc /= None
    OBVIOUS
  <1>7. c.kind = "open" /\ doc \in WDocs => (over <=> Over(wDb[doc].entries))
    BY NoneIsNoDoc
  <1> HIDE DEF over, entries, doc
  <1>8. /\ served \in WCalls /\ served.kind = c.kind /\ served.n = c.n /\ served.step = "ok"
        /\ served.orphan = c.orphan /\ served.panel = c.panel
        /\ served.doc = doc /\ served.over = over
    BY <1>1, <1>2, <1>3, <1>4 DEF WCalls
  <1> HIDE DEF served
  <1>9. ServedAs(c, served)
    BY <1>5, <1>8 DEF ServedAs
  <1>10. c.kind \notin DocWrites \cup {"create"}
    BY <1>5 DEF Reads, DocWrites
  <1>11. /\ wCalls' \subseteq WCalls /\ DocsAreKnown' /\ ReadsAreOfThePage'
         /\ Added => Added'
         /\ Opening => Opening'
    BY <1>9, <1>10, ServedKeeps
  <1>12. WizardTypeOK'
    BY <1>5, <1>11 DEF WizardInv, WizardTypeOK
  <1>13. HoursFollow'
    BY <1>5, <1>7, <1>8, <1>11 DEF WizardInv, HoursFollow
  <1>14. JustifiedFirst' /\ CompletedMeansJustified'
    <2>1. \A b \in wCalls' :
            (b.kind = "complete" /\ b.step = "sent") \/ (b.kind = "justify" /\ b.step = "ok") =>
               \E a \in wCalls : a.kind = b.kind /\ a.step = b.step /\ a.doc = b.doc
      BY <1>5, <1>8 DEF Reads
    <2> QED
      BY <1>5, <2>1, JustificationKept
  <1> QED
    BY <1>11, <1>12, <1>13, <1>14 DEF WizardInv

LEMMA RefusedKeeps ==
    ASSUME WizardInv, NEW c \in wCalls, c.step = "sent", c.kind \notin Reads,
           Served(c, "refused"), UNCHANGED <<wDb, wPage, wTimer, wStray, wCount>>
    PROVE  WizardInv'
  <1> DEFINE served == [c EXCEPT !.step = "refused"]
  <1>1. c \in WCalls
    BY DEF WizardInv, WizardTypeOK
  <1>2. /\ served \in WCalls /\ served.kind = c.kind /\ served.n = c.n
        /\ served.step = "refused" /\ served.orphan = c.orphan /\ served.panel = c.panel
        /\ served.doc = c.doc
    BY <1>1 DEF WCalls
  <1>3. wCalls' = (wCalls \ {c}) \cup {served}
    BY DEF Served
  <1> HIDE DEF served
  <1>4. ServedAs(c, served)
    BY <1>2, <1>3 DEF ServedAs
  <1>5. c.kind \in DocWrites => served.doc \in WDocs
    BY <1>2 DEF WizardInv, DocsAreKnown
  <1>6. /\ wCalls' \subseteq WCalls /\ DocsAreKnown' /\ ReadsAreOfThePage'
        /\ Added => Added'
        /\ Opening => Opening'
    BY <1>2, <1>4, <1>5, ServedKeeps
  <1>7. WizardTypeOK'
    BY <1>6 DEF WizardInv, WizardTypeOK
  <1>8. HoursFollow'
    BY <1>2, <1>3, <1>6 DEF WizardInv, HoursFollow, Reads
  <1>9. JustifiedFirst' /\ CompletedMeansJustified'
    <2>1. \A b \in wCalls' :
            (b.kind = "complete" /\ b.step = "sent") \/ (b.kind = "justify" /\ b.step = "ok") =>
               \E a \in wCalls : a.kind = b.kind /\ a.step = b.step /\ a.doc = b.doc
      BY <1>2, <1>3
    <2> QED
      BY <2>1, JustificationKept
  <1> QED
    BY <1>6, <1>7, <1>8, <1>9 DEF WizardInv

\* A declaration is created where there was none.
LEMMA CreateKeeps ==
    ASSUME WizardInv, NEW c \in wCalls, c.step = "sent", c.kind = "create",
           NEW d \in WDocs, wDb[d].status = "none",
           wDb' = [wDb EXCEPT ![d].status = "Incomplete"],
           wCalls' = (wCalls \ {c}) \cup {[c EXCEPT !.step = "ok", !.doc = d]},
           UNCHANGED <<wPage, wTimer, wStray, wCount>>
    PROVE  WizardInv'
  <1> DEFINE served == [c EXCEPT !.step = "ok", !.doc = d]
  <1>1. c \in WCalls /\ d \in MaybeWDoc
    BY DEF WizardInv, WizardTypeOK, MaybeWDoc
  <1>2. /\ served \in WCalls /\ served.kind = c.kind /\ served.n = c.n
        /\ served.step = "ok" /\ served.orphan = c.orphan /\ served.panel = c.panel
        /\ served.doc = d
    BY <1>1 DEF WCalls
  <1>3. wCalls' = (wCalls \ {c}) \cup {served}
    OBVIOUS
  <1> HIDE DEF served
  <1>4. ServedAs(c, served)
    BY <1>2, <1>3 DEF ServedAs
  <1>5. /\ wCalls' \subseteq WCalls /\ DocsAreKnown' /\ ReadsAreOfThePage'
        /\ Added => Added'
        /\ Opening => Opening'
    BY <1>2, <1>4, ServedKeeps
  <1>6. /\ wDb' \in [WDocs -> Records]
        /\ \A e \in WDocs : /\ e /= d => wDb'[e] = wDb[e]
                            /\ wDb'[e].entries = wDb[e].entries
                            /\ wDb'[e].text = wDb[e].text
                            /\ wDb'[e].clean = wDb[e].clean
        /\ wDb'[d].status = "Incomplete"
    BY DEF WizardInv, WizardTypeOK, Records, Statuses
  <1>7. ~wDb[d].clean
    BY DEF WizardInv, JustifiedFirst
  <1>8. WizardTypeOK'
    BY <1>5, <1>6 DEF WizardInv, WizardTypeOK
  <1>9. HoursFollow'
    BY <1>2, <1>3, <1>5, <1>6 DEF WizardInv, HoursFollow, DocsAreKnown
  <1>10. JustifiedFirst'
    BY <1>2, <1>3, <1>6, <1>7 DEF WizardInv, JustifiedFirst, DocsAreKnown, DocWrites
  <1>11. CompletedMeansJustified'
    BY <1>6, <1>7 DEF WizardInv, CompletedMeansJustified
  <1> QED
    BY <1>5, <1>8, <1>9, <1>10, <1>11 DEF WizardInv

\* A write the server takes, on a declaration that is incomplete.
LEMMA EffectTyped ==
    ASSUME WizardTypeOK, NEW c \in wCalls, c.kind \in DocWrites, c.doc \in WDocs,
           c.kind \in EntryWrites => c.panel \in Panels, wDb' = Effect(c)
    PROVE  LET old == wDb[c.doc]
               new == wDb'[c.doc]
           IN  /\ wDb' \in [WDocs -> Records]
               /\ \A e \in WDocs : e /= c.doc => wDb'[e] = wDb[e]
               /\ new.text = (old.text \/ c.kind = "justify")
               /\ c.kind \in EntryWrites => new.status = old.status
               /\ c.kind = "add" => ~new.clean
               /\ c.kind /= "add" => /\ new.entries \in SUBSET old.entries
                                     /\ new.clean = old.clean
               /\ c.kind = "abandon" => new.status = "Abandoned"
               /\ c.kind = "complete" => new.status = "Completed"
               /\ c.kind = "justify" => new.status = old.status
  <1> DEFINE old == wDb[c.doc]
             set(new) == [wDb EXCEPT ![c.doc] = new]
  <1>1. old \in Records
    BY DEF WizardTypeOK
  <1>2. \A new \in Records : /\ set(new) \in [WDocs -> Records] /\ set(new)[c.doc] = new
                             /\ \A e \in WDocs : e /= c.doc => set(new)[e] = wDb[e]
    BY DEF WizardTypeOK
  <1>3. CASE c.kind = "abandon"
    <2> DEFINE new == [old EXCEPT !.status = "Abandoned"]
    <2>1. /\ new \in Records /\ new.text = old.text /\ new.entries = old.entries
          /\ new.clean = old.clean /\ new.status = "Abandoned"
      BY <1>1 DEF Records, Statuses
    <2>2. wDb' = set(new)
      BY <1>3 DEF Effect
    <2> HIDE DEF new, set
    <2> QED
      BY <1>1, <1>2, <1>3, <2>1, <2>2 DEF EntryWrites, Records
  <1>4. CASE c.kind = "add"
    <2> DEFINE new == [old EXCEPT !.entries = @ \cup {c.panel}, !.clean = FALSE]
    <2>1. /\ new \in Records /\ new.text = old.text /\ new.status = old.status /\ ~new.clean
      BY <1>1, <1>4 DEF Records, EntryWrites
    <2>2. wDb' = set(new)
      BY <1>4 DEF Effect
    <2> HIDE DEF new, set
    <2> QED
      BY <1>1, <1>2, <1>4, <2>1, <2>2 DEF EntryWrites, Records
  <1>5. CASE c.kind = "remove"
    <2> DEFINE new == [old EXCEPT !.entries = @ \ {c.panel}]
    <2>1. /\ new \in Records /\ new.text = old.text /\ new.status = old.status
          /\ new.clean = old.clean /\ new.entries = old.entries \ {c.panel}
      BY <1>1, <1>5 DEF Records
    <2>2. wDb' = set(new)
      BY <1>5 DEF Effect
    <2> HIDE DEF new, set
    <2> QED
      BY <1>1, <1>2, <1>5, <2>1, <2>2 DEF EntryWrites, Records
  <1>6. CASE c.kind = "justify"
    <2> DEFINE new == [old EXCEPT !.text = TRUE]
    <2>1. /\ new \in Records /\ new.text = TRUE /\ new.entries = old.entries
          /\ new.clean = old.clean /\ new.status = old.status
      BY <1>1 DEF Records
    <2>2. wDb' = set(new)
      BY <1>6 DEF Effect
    <2> HIDE DEF new, set
    <2> QED
      BY <1>1, <1>2, <1>6, <2>1, <2>2 DEF EntryWrites, Records
  <1>7. CASE c.kind = "complete"
    <2> DEFINE new == [old EXCEPT !.status = "Completed"]
    <2>1. /\ new \in Records /\ new.text = old.text /\ new.entries = old.entries
          /\ new.clean = old.clean /\ new.status = "Completed"
      BY <1>1 DEF Records, Statuses
    <2>2. wDb' = set(new)
      BY <1>7 DEF Effect
    <2> HIDE DEF new, set
    <2> QED
      BY <1>1, <1>2, <1>7, <2>1, <2>2 DEF EntryWrites, Records
  <1> QED
    BY <1>3, <1>4, <1>5, <1>6, <1>7 DEF DocWrites

LEMMA AcceptedKeeps ==
    ASSUME WizardInv, NEW c \in wCalls, c.step = "sent", c.kind \notin Reads,
           c.kind /= "create", Accepts(c), wDb' = Effect(c), Served(c, "ok"),
           UNCHANGED <<wPage, wTimer, wStray, wCount>>
    PROVE  WizardInv'
  <1> DEFINE served == [c EXCEPT !.step = "ok"]
             doc == c.doc
  <1>1. c \in WCalls /\ c.kind \in DocWrites
    BY DEF WizardInv, WizardTypeOK, WCalls, WKinds
  <1>2. doc \in WDocs /\ (c.kind \in EntryWrites => c.panel \in Panels)
    BY <1>1 DEF WizardInv, DocsAreKnown
  <1>3. wDb[doc].status = "Incomplete"
    BY DEF Accepts
  <1>4. /\ served \in WCalls /\ served.kind = c.kind /\ served.n = c.n
        /\ served.step = "ok" /\ served.orphan = c.orphan /\ served.panel = c.panel
        /\ served.doc = c.doc
    BY <1>1 DEF WCalls
  <1>5. wCalls' = (wCalls \ {c}) \cup {served}
    BY DEF Served
  <1>6. /\ wDb' \in [WDocs -> Records]
        /\ \A e \in WDocs : e /= doc => wDb'[e] = wDb[e]
        /\ wDb'[doc].text = (wDb[doc].text \/ c.kind = "justify")
        /\ c.kind \in EntryWrites => wDb'[doc].status = wDb[doc].status
        /\ c.kind = "add" => ~wDb'[doc].clean
        /\ c.kind /= "add" => /\ wDb'[doc].entries \in SUBSET wDb[doc].entries
                              /\ wDb'[doc].clean = wDb[doc].clean
        /\ c.kind = "abandon" => wDb'[doc].status = "Abandoned"
        /\ c.kind = "complete" => wDb'[doc].status = "Completed"
        /\ c.kind = "justify" => wDb'[doc].status = wDb[doc].status
    BY <1>1, <1>2, EffectTyped DEF WizardInv
  <1> HIDE DEF served
  <1>7. ServedAs(c, served)
    BY <1>4, <1>5 DEF ServedAs
  <1>8. /\ wCalls' \subseteq WCalls /\ DocsAreKnown' /\ ReadsAreOfThePage'
        /\ Added => Added'
        /\ Opening => Opening'
    BY <1>2, <1>4, <1>7, ServedKeeps
  <1>13. c.kind /= "add" /\ Over(wDb'[doc].entries) => Over(wDb[doc].entries)
    <2>1. wDb[doc].entries \in SUBSET Panels
      BY <1>2 DEF WizardInv, WizardTypeOK, Records
    <2> QED
      BY <1>6, <2>1, OverShrinks
  <1> HIDE DEF doc
  <1>9. WizardTypeOK'
    BY <1>6, <1>8 DEF WizardInv, WizardTypeOK
  <1>10. HoursFollow'
    <2>1. CASE c.kind = "add"
      <3>1. Added'
        BY <1>4, <1>5, <2>1 DEF Added
      <3> QED
        BY <1>1, <1>4, <1>5, <2>1, <3>1 DEF WizardInv, HoursFollow
    <2>2. CASE c.kind /= "add"
      <3>1. \A e \in WDocs : Over(wDb'[e].entries) => Over(wDb[e].entries)
        BY <1>6, <1>13, <2>2
      <3>2. c.kind /= "open"
        BY DEF Reads
      <3> QED
        BY <1>4, <1>5, <1>8, <3>1, <3>2 DEF WizardInv, HoursFollow, DocsAreKnown
    <2> QED
      BY <2>1, <2>2
  <1>11. JustifiedFirst'
    <2>1. \A b \in wCalls' : b.kind = "justify" /\ b.step = "ok" => wDb'[b.doc].text
      <3> SUFFICES ASSUME NEW b \in wCalls', b.kind = "justify", b.step = "ok"
                   PROVE  wDb'[b.doc].text
        OBVIOUS
      <3>1. CASE b = served
        BY <1>4, <1>6, <3>1 DEF doc
      <3>2. CASE b /= served
        <4>1. wDb[b.doc].text /\ b.doc \in WDocs
          BY <1>5, <3>2 DEF WizardInv, JustifiedFirst, DocsAreKnown, DocWrites
        <4> QED
          BY <1>6, <4>1
      <3> QED
        BY <3>1, <3>2
    <2>2. \A e \in WDocs : wDb'[e].status = "none" => ~wDb'[e].clean
      BY <1>1, <1>2, <1>3, <1>6 DEF WizardInv, JustifiedFirst, DocWrites, EntryWrites
    <2>3. ASSUME NEW e \in WDocs, wDb'[e].status = "Incomplete", wDb'[e].clean,
                 Over(wDb'[e].entries), ~wDb'[e].text,
                 NEW b \in wCalls', b.kind = "complete", b.step = "sent", b.doc = e
          PROVE  FALSE
      <3>1. b \in wCalls
        BY <1>4, <1>5, <2>3
      <3>2. /\ wDb[e].status = "Incomplete" /\ wDb[e].clean /\ Over(wDb[e].entries)
            /\ ~wDb[e].text
        BY <1>2, <1>3, <1>6, <1>13, <2>3
      <3> QED
        BY <2>3, <3>1, <3>2 DEF WizardInv, JustifiedFirst
    <2> QED
      BY <2>1, <2>2, <2>3 DEF JustifiedFirst
  <1>12. CompletedMeansJustified'
    <2> SUFFICES ASSUME NEW e \in WDocs, wDb'[e].status = "Completed", wDb'[e].clean,
                        Over(wDb'[e].entries), ~wDb'[e].text
                 PROVE  FALSE
      BY DEF CompletedMeansJustified
    <2>1. CASE e /= doc
      BY <1>6, <2>1 DEF WizardInv, CompletedMeansJustified
    <2>2. CASE e = doc
      <3>1. c.kind = "complete"
        BY <1>1, <1>3, <1>6, <2>2 DEF DocWrites, EntryWrites
      <3>2. wDb[doc].clean /\ Over(wDb[doc].entries) /\ ~wDb[doc].text
        BY <1>6, <1>13, <2>2, <3>1
      <3> QED
        BY <1>2, <1>3, <3>1, <3>2 DEF WizardInv, JustifiedFirst, doc
    <2> QED
      BY <2>1, <2>2
  <1> QED
    BY <1>8, <1>9, <1>10, <1>11, <1>12 DEF WizardInv

LEMMA ServesKeeps ==
    ASSUME WizardInv, NEW c \in wCalls, WizardServes(c) PROVE WizardInv'
  <1>1. c.step = "sent" /\ UNCHANGED <<wPage, wTimer, wStray, wCount>>
    BY DEF WizardServes
  <1>2. CASE ServeRead(c)
    BY <1>1, <1>2, ServeReadKeeps
  <1>3. CASE c.kind \notin Reads /\ Accepts(c) /\ c.kind /= "create" /\ wDb' = Effect(c)
             /\ Served(c, "ok")
    BY <1>1, <1>3, AcceptedKeeps
  <1>4. CASE /\ c.kind = "create"
             /\ \E d \in {e \in WDocs : wDb[e].status = "none"} :
                  /\ wDb' = [wDb EXCEPT ![d].status = "Incomplete"]
                  /\ wCalls' = (wCalls \ {c}) \cup {[c EXCEPT !.step = "ok", !.doc = d]}
    BY <1>1, <1>4, CreateKeeps
  <1>5. CASE c.kind \notin Reads /\ Served(c, "refused") /\ UNCHANGED wDb
    BY <1>1, <1>5, RefusedKeeps
  <1> QED
    BY <1>2, <1>3, <1>4, <1>5 DEF WizardServes, ServeWrite

(***************************************************************************)
(* The answers, and the steps that move the page only.                     *)
(***************************************************************************)
\* What the panels of a page ask for.
Listing(k) ==
    /\ k \in WCalls /\ k.kind = "list" /\ k.step = "sent" /\ k.orphan = FALSE

LEMMA MountedTyped ==
    ASSUME WizardTypeOK, NEW page \in Pages, NEW k \in Mounted(page)
    PROVE  Listing(k)
  <1>1. PICK panel \in Panels : k = NewCall("list", page.state, panel)
    BY DEF Mounted, PanelsOf, Panels
  <1>2. "list" \in WKinds /\ page.state \in MaybeWDoc
    BY DEF WKinds, Reads, Pages
  <1>3. New(k, "list", page.state, panel)
    BY <1>1, <1>2, NewCallTyped
  <1> QED
    BY <1>3 DEF New, Listing

\* A request is over, and perhaps panels mounted: the page keeps what it is about.
LEMMA EndedAndMounted ==
    ASSUME WizardInv, NEW c \in wCalls, NEW more, \A k \in more : Listing(k),
           wCalls' = (wCalls \ {c}) \cup more, wPage' \in Pages,
           wPage'.screen = wPage.screen, wPage'.key = wPage.key,
           wPage'.screen \in {"hours", "extra"} /\ ~wPage'.loading /\ ~wPage'.error =>
               wPage'.doc \in WDocs,
           wTimer' \in BOOLEAN, wStray' \in BOOLEAN, UNCHANGED <<wDb, wCount>>,
           c.kind = "add" /\ c.step = "ok" /\ wPage.screen = "extra" => wStray',
           wStray => wStray',
           wPage.screen = "extra" /\ ~wStray' /\ ~wPage'.loading /\ ~wPage'.error =>
               \/ Over(wDb[wPage'.doc].entries) => wPage'.required
               \/ Opening' \/ Added'
    PROVE  WizardInv'
  <1>1. WizardTypeOK'
    BY DEF WizardInv, WizardTypeOK, Listing
  <1>2. DocsAreKnown' /\ ReadsAreOfThePage'
    BY DEF WizardInv, DocsAreKnown, ReadsAreOfThePage, Listing, DocWrites, EntryWrites
  <1>3. HoursFollow'
    <2>1. Added /\ wPage.screen = "extra" /\ ~wStray' => Added'
      BY DEF Added
    <2> QED
      BY <2>1 DEF WizardInv, HoursFollow, Listing
  <1>4. JustifiedFirst' /\ CompletedMeansJustified'
    <2>1. \A b \in wCalls' :
            (b.kind = "complete" /\ b.step = "sent") \/ (b.kind = "justify" /\ b.step = "ok") =>
               \E a \in wCalls : a.kind = b.kind /\ a.step = b.step /\ a.doc = b.doc
      BY DEF Listing
    <2> QED
      BY <2>1, JustificationKept
  <1> QED
    BY <1>1, <1>2, <1>3, <1>4 DEF WizardInv

LEMMA EndedKeeps ==
    ASSUME WizardInv, NEW c \in wCalls, wCalls' = wCalls \ {c}, wPage' \in Pages,
           wPage'.screen = wPage.screen, wPage'.key = wPage.key,
           wPage'.screen \in {"hours", "extra"} /\ ~wPage'.loading /\ ~wPage'.error =>
               wPage'.doc \in WDocs,
           wTimer' \in BOOLEAN, wStray' \in BOOLEAN, UNCHANGED <<wDb, wCount>>,
           c.kind = "add" /\ c.step = "ok" /\ wPage.screen = "extra" => wStray',
           wStray => wStray',
           wPage.screen = "extra" /\ ~wStray' /\ ~wPage'.loading /\ ~wPage'.error =>
               \/ Over(wDb[wPage'.doc].entries) => wPage'.required
               \/ Opening' \/ Added'
    PROVE  WizardInv'
  <1> DEFINE more == {}
  <1>1. wCalls' = (wCalls \ {c}) \cup more /\ \A k \in more : Listing(k)
    OBVIOUS
  <1> HIDE DEF more
  <1> QED
    BY <1>1, EndedAndMounted

\* Only a flag of the page changes, or its list.
LEMMA EndedQuietly ==
    ASSUME WizardInv, NEW c \in wCalls, wCalls' = wCalls \ {c}, wPage' \in Pages,
           wPage'.screen = wPage.screen, wPage'.key = wPage.key, wPage'.doc = wPage.doc,
           wPage'.loading = wPage.loading, wPage'.error = wPage.error,
           wPage'.required = wPage.required,
           wTimer' \in BOOLEAN, wStray' \in BOOLEAN, UNCHANGED <<wDb, wCount>>,
           c.kind /= "open",
           c.kind = "add" /\ c.step = "ok" => wStray',
           wStray => wStray'
    PROVE  WizardInv'
  <1>1. wPage'.screen \in {"hours", "extra"} /\ ~wPage'.loading /\ ~wPage'.error =>
           wPage'.doc \in WDocs
    BY DEF WizardInv, DocsAreKnown
  <1>2. wPage.screen = "extra" /\ ~wStray' /\ ~wPage'.loading /\ ~wPage'.error =>
               \/ Over(wDb[wPage'.doc].entries) => wPage'.required
               \/ Opening' \/ Added'
    <2>1. (Opening => Opening') /\ (Added /\ ~wStray' => Added')
      BY DEF Opening, Added
    <2> QED
      BY <2>1 DEF WizardInv, HoursFollow
  <1> QED
    BY <1>1, <1>2, EndedKeeps

LEMMA PageTyped == WizardInv => wPage \in Pages /\ wTimer \in BOOLEAN /\ wStray \in BOOLEAN
  BY DEF WizardInv, WizardTypeOK

LEMMA ReadAnsweredKeeps ==
    ASSUME WizardInv, NEW c \in wCalls, ReadAnswered(c) PROVE WizardInv'
  <1> DEFINE more == Mounted(wPage')
  <1>1. /\ c.kind \in Reads /\ c.step = "ok" /\ wCalls' = (wCalls \ {c}) \cup more
        /\ UNCHANGED <<wDb, wTimer, wStray, wCount>>
    BY DEF ReadAnswered
  <1>2. c \in WCalls /\ c.kind /= "add"
    BY <1>1 DEF WizardInv, WizardTypeOK, Reads
  <1>3. ASSUME wPage' \in Pages PROVE \A k \in more : Listing(k)
    BY <1>3, MountedTyped DEF WizardInv
  <1> HIDE DEF more
  <1>4. Added => Added'
    BY <1>1, <1>2 DEF Added
  <1>5. CASE c.kind = "check"
    <2>1. wPage' = [wPage EXCEPT !.loading = FALSE, !.doc = c.doc]
      BY <1>5 DEF ReadAnswered
    <2>2. wPage' \in Pages /\ wPage'.screen = wPage.screen /\ wPage'.key = wPage.key
      BY <1>2, <2>1, PageTyped DEF Pages, WCalls
    <2>3. wPage.screen \in {"record", "form"}
      BY <1>5 DEF WizardInv, ReadsAreOfThePage
    <2> QED
      BY <1>1, <1>2, <1>3, <2>2, <2>3, PageTyped, EndedAndMounted
  <1>6. CASE c.kind = "list"
    <2>1. wPage' = [wPage EXCEPT !.at[c.panel] = c.doc, !.listed = @ \cup c.entries]
      BY <1>6 DEF ReadAnswered
    <2>2. /\ wPage' \in Pages /\ wPage'.screen = wPage.screen /\ wPage'.key = wPage.key
          /\ wPage'.doc = wPage.doc /\ wPage'.loading = wPage.loading
          /\ wPage'.error = wPage.error /\ wPage'.required = wPage.required
      <3> DEFINE found == [wPage EXCEPT !.at[c.panel] = c.doc]
      <3>1. /\ found \in Pages /\ found.screen = wPage.screen /\ found.key = wPage.key
            /\ found.doc = wPage.doc /\ found.loading = wPage.loading
            /\ found.error = wPage.error /\ found.required = wPage.required
            /\ found.listed = wPage.listed
        BY <1>2, PageTyped DEF Pages, WCalls
      <3>2. wPage' = [found EXCEPT !.listed = @ \cup c.entries]
        BY <2>1
      <3> HIDE DEF found
      <3>3. c.entries \subseteq Panels
        BY <1>2 DEF WCalls
      <3> QED
        BY <3>1, <3>2, <3>3 DEF Pages
    <2>3. wPage'.screen \in {"hours", "extra"} /\ ~wPage'.loading /\ ~wPage'.error =>
             wPage'.doc \in WDocs
      BY <2>2 DEF WizardInv, DocsAreKnown
    <2>4. Opening => Opening'
      BY <1>1, <1>6, <2>2 DEF Opening
    <2>5. wPage.screen = "extra" /\ ~wStray' /\ ~wPage'.loading /\ ~wPage'.error =>
               \/ Over(wDb[wPage'.doc].entries) => wPage'.required
               \/ Opening' \/ Added'
      BY <1>1, <1>4, <2>2, <2>4 DEF WizardInv, HoursFollow
    <2> QED
      BY <1>1, <1>2, <1>3, <2>2, <2>3, <2>5, PageTyped, EndedAndMounted
  <1>7. CASE c.kind = "open"
    <2>1. wPage' = [wPage EXCEPT !.loading = FALSE, !.doc = c.doc, !.error = @ \/ c.doc = None,
                       !.required = c.over, !.text = @ /\ c.over]
      BY <1>7 DEF ReadAnswered
    <2>2. /\ wPage' \in Pages /\ wPage'.screen = wPage.screen /\ wPage'.key = wPage.key
          /\ wPage'.doc = c.doc /\ (c.doc = None => wPage'.error)
          /\ wPage'.required = c.over
      BY <1>2, <2>1, PageTyped DEF Pages, WCalls
    <2>3. c.doc /= None => c.doc \in WDocs
      BY <1>2 DEF WCalls, MaybeWDoc
    <2>4. wPage.screen = "extra" /\ ~wStray /\ c.doc \in WDocs =>
             (Over(wDb[c.doc].entries) => c.over) \/ Added
      BY <1>1, <1>7 DEF WizardInv, HoursFollow
    <2>5. wPage'.screen \in {"hours", "extra"} /\ ~wPage'.loading /\ ~wPage'.error =>
             wPage'.doc \in WDocs
      BY <2>2, <2>3
    <2>6. wPage.screen = "extra" /\ ~wStray' /\ ~wPage'.loading /\ ~wPage'.error =>
               \/ Over(wDb[wPage'.doc].entries) => wPage'.required
               \/ Opening' \/ Added'
      BY <1>1, <1>4, <2>2, <2>3, <2>4
    <2> QED
      BY <1>1, <1>2, <1>3, <2>2, <2>5, <2>6, PageTyped, EndedAndMounted
  <1> QED
    BY <1>1, <1>5, <1>6, <1>7 DEF Reads

LEMMA ReadFailsKeeps ==
    ASSUME WizardInv, NEW c \in wCalls, ReadFails(c) PROVE WizardInv'
  <1> DEFINE more == Mounted(wPage')
  <1>1. /\ c.kind \in Reads /\ wCalls' = (wCalls \ {c}) \cup more
        /\ UNCHANGED <<wDb, wTimer, wStray, wCount>>
    BY DEF ReadFails
  <1>2. c \in WCalls /\ c.kind /= "add"
    BY <1>1 DEF WizardInv, WizardTypeOK, Reads
  <1>3. ASSUME wPage' \in Pages PROVE \A k \in more : Listing(k)
    BY <1>3, MountedTyped DEF WizardInv
  <1> HIDE DEF more
  <1>4. CASE c.kind = "check"
    <2>1. wPage' = [wPage EXCEPT !.loading = FALSE]
      BY <1>4 DEF ReadFails
    <2>2. wPage' \in Pages /\ wPage'.screen = wPage.screen /\ wPage'.key = wPage.key
      BY <2>1, PageTyped DEF Pages
    <2>3. wPage.screen \in {"record", "form"}
      BY <1>4 DEF WizardInv, ReadsAreOfThePage
    <2> QED
      BY <1>1, <1>2, <1>3, <2>2, <2>3, PageTyped, EndedAndMounted
  <1>5. CASE c.kind = "open" /\ c.n = wPage.key
    <2>1. wPage' = [wPage EXCEPT !.loading = FALSE, !.error = TRUE]
      BY <1>5 DEF ReadFails
    <2>2. /\ wPage' \in Pages /\ wPage'.screen = wPage.screen /\ wPage'.key = wPage.key
          /\ wPage'.error
      BY <2>1, PageTyped DEF Pages
    <2> QED
      BY <1>1, <1>2, <1>3, <2>2, PageTyped, EndedAndMounted
  <1>6. CASE c.kind /= "check" /\ ~(c.kind = "open" /\ c.n = wPage.key)
    <2>1. UNCHANGED wPage
      BY <1>6 DEF ReadFails
    <2>2. (Opening => Opening') /\ (Added => Added')
      BY <1>1, <1>2, <1>6, <2>1 DEF Opening, Added
    <2>3. wPage'.screen \in {"hours", "extra"} /\ ~wPage'.loading /\ ~wPage'.error =>
             wPage'.doc \in WDocs
      BY <2>1 DEF WizardInv, DocsAreKnown
    <2>4. wPage.screen = "extra" /\ ~wStray' /\ ~wPage'.loading /\ ~wPage'.error =>
               \/ Over(wDb[wPage'.doc].entries) => wPage'.required
               \/ Opening' \/ Added'
      BY <1>1, <2>1, <2>2 DEF WizardInv, HoursFollow
    <2> QED
      BY <1>1, <1>2, <1>3, <2>1, <2>3, <2>4, PageTyped, EndedAndMounted
  <1> QED
    BY <1>4, <1>5, <1>6

\* An entry was written: the last page loads its hours again.
LEMMA EntryAnsweredKeeps ==
    ASSUME WizardInv, NEW c \in wCalls, EntryAnswered(c) PROVE WizardInv'
  <1> DEFINE page == [wPage EXCEPT !.listed = IF c.kind = "add" THEN @ \cup {c.panel}
                                              ELSE @ \ {c.panel}]
             rest == wCalls \ {c}
  <1>1. /\ c.kind \in EntryWrites /\ c.step = "ok" /\ handleDataChange(rest, page)
        /\ UNCHANGED <<wDb, wTimer>>
        /\ wStray' = ((wStray \/ c.kind = "add") /\ \E d \in wCalls : d.kind = "open")
    BY DEF EntryAnswered, EntryWrites
  <1>2. c \in WCalls /\ c.panel \in Panels
    BY <1>1 DEF WizardInv, WizardTypeOK, DocsAreKnown
  <1>3. /\ page \in Pages /\ page.screen = wPage.screen /\ page.key = wPage.key
        /\ page.doc = wPage.doc /\ page.loading = wPage.loading
        /\ page.error = wPage.error /\ page.required = wPage.required
    BY <1>2, PageTyped DEF Pages
  <1> HIDE DEF page
  <1>4. CASE page.screen /= "extra"
    <2>1. wCalls' = wCalls \ {c} /\ wPage' = page /\ UNCHANGED wCount
      BY <1>1, <1>4 DEF handleDataChange
    <2>2. WizardTypeOK'
      BY <1>1, <1>3, <2>1 DEF WizardInv, WizardTypeOK
    <2>3. DocsAreKnown' /\ ReadsAreOfThePage' /\ HoursFollow'
      BY <1>3, <1>4, <2>1 DEF WizardInv, DocsAreKnown, ReadsAreOfThePage, HoursFollow
    <2>4. JustifiedFirst' /\ CompletedMeansJustified'
      <3>1. \A b \in wCalls' :
              (b.kind = "complete" /\ b.step = "sent") \/ (b.kind = "justify" /\ b.step = "ok") =>
                 \E a \in wCalls : a.kind = b.kind /\ a.step = b.step /\ a.doc = b.doc
        BY <2>1
      <3> QED
        BY <1>1, <3>1, JustificationKept
    <2> QED
      BY <2>2, <2>3, <2>4 DEF WizardInv
  <1>5. CASE page.screen = "extra"
    <2> DEFINE new == NewCall("open", page.doc, NoPanel)
    <2>1. /\ wCalls' = rest \cup {new} /\ wPage' = [page EXCEPT !.key = wCount.sent]
          /\ wCount' = [wCount EXCEPT !.sent = @ + 1]
      BY <1>1, <1>5 DEF handleDataChange
    <2>2. New(new, "open", page.doc, NoPanel)
      <3>1. page.doc \in MaybeWDoc /\ NoPanel \in Panels \cup {NoPanel} /\ "open" \in WKinds
        BY <1>3 DEF Pages, WKinds, Reads
      <3> QED
        BY <3>1, NewCallTyped DEF WizardInv
    <2>3. wCount' \in Counts /\ wCount.sent \in Nat /\ wStray' \in BOOLEAN
      <3>1. wStray' \in BOOLEAN
        BY <1>1
      <3>2. wCount' \in Counts
        BY <2>1, Counted DEF WizardInv
      <3>3. wCount.sent \in Nat
        BY DEF WizardInv, WizardTypeOK, Counts
      <3> QED
        BY <3>1, <3>2, <3>3
    <2>4. /\ wPage' \in Pages /\ wPage'.screen = "extra" /\ wPage'.key = wCount.sent
          /\ wPage'.doc = wPage.doc /\ wPage'.loading = wPage.loading
          /\ wPage'.error = wPage.error
      BY <1>3, <1>5, <2>1, <2>3 DEF Pages
    <2> HIDE DEF new
    <2>5. WizardTypeOK'
      BY <1>1, <2>1, <2>2, <2>3, <2>4 DEF New, WizardInv, WizardTypeOK
    <2>6. DocsAreKnown'
      <3>1. /\ new.kind \notin DocWrites /\ new.kind \notin EntryWrites
            /\ new.kind /= "create"
        BY <2>2 DEF New, DocWrites, EntryWrites
      <3>2. ~wPage'.loading /\ ~wPage'.error => wPage'.doc \in WDocs
        BY <1>3, <1>5, <2>4 DEF WizardInv, DocsAreKnown
      <3> QED
        BY <2>1, <3>1, <3>2 DEF WizardInv, DocsAreKnown
    <2>7. ReadsAreOfThePage'
      BY <1>3, <1>5, <2>1, <2>2, <2>4 DEF New, WizardInv, ReadsAreOfThePage
    <2>8. HoursFollow'
      <3>1. Opening'
        BY <2>1, <2>2, <2>4 DEF New, Opening
      <3>2. ASSUME NEW d \in rest, d.kind = "open", d.step = "ok", d.doc \in WDocs, ~wStray'
            PROVE  (Over(wDb[d.doc].entries) => d.over) \/ Added'
        <4>1. ~wStray /\ c.kind /= "add" /\ wPage.screen = "extra"
          BY <1>1, <1>3, <1>5, <3>2
        <4>2. Added => Added'
          BY <2>1, <4>1 DEF Added
        <4> QED
          BY <3>2, <4>1, <4>2 DEF WizardInv, HoursFollow
      <3> QED
        BY <1>1, <2>1, <2>2, <3>1, <3>2 DEF New, HoursFollow
    <2>9. JustifiedFirst' /\ CompletedMeansJustified'
      <3>1. \A b \in wCalls' :
              (b.kind = "complete" /\ b.step = "sent") \/ (b.kind = "justify" /\ b.step = "ok") =>
                 \E a \in wCalls : a.kind = b.kind /\ a.step = b.step /\ a.doc = b.doc
        BY <2>1, <2>2 DEF New
      <3> QED
        BY <1>1, <3>1, JustificationKept
    <2> QED
      BY <2>5, <2>6, <2>7, <2>8, <2>9 DEF WizardInv
  <1> QED
    BY <1>4, <1>5

LEMMA CreatedKeeps ==
    ASSUME WizardInv, NEW c \in wCalls, Created(c) PROVE WizardInv'
  <1> DEFINE kept == {[d EXCEPT !.orphan = TRUE] : d \in {e \in wCalls \ {c} : e.kind \notin Reads}}
  <1>1. navigate("hours", c.doc, kept) /\ UNCHANGED <<wDb, wTimer>>
        /\ wCount' = [wCount EXCEPT !.sent = @ + 1] /\ c.kind = "create" /\ c.step = "ok"
    BY DEF Created
  <1>2. c.doc \in MaybeWDoc /\ "hours" \in Screens
    BY DEF WizardInv, WizardTypeOK, WCalls, Screens
  <1>3. \A k \in kept : Orphaned(k)
    <2>1. wCalls \ {c} \in SUBSET wCalls /\ WizardTypeOK
      BY DEF WizardInv
    <2> QED
      BY <2>1, OrphansTyped
  <1>4. wTimer' \in BOOLEAN /\ wCount' \in Counts /\ UNCHANGED wDb
    BY <1>1, Counted DEF WizardInv, WizardTypeOK
  <1> HIDE DEF kept
  <1> QED
    BY <1>1, <1>2, <1>3, <1>4, NavigateKeeps

\* The second half of the completion is sent once the justification was taken.
LEMMA JustifiedKeeps ==
    ASSUME WizardInv, NEW c \in wCalls, Justified(c) PROVE WizardInv'
  <1> DEFINE new == [c EXCEPT !.kind = "complete", !.step = "sent"]
  <1>1. /\ c.kind = "justify" /\ c.step = "ok" /\ wCalls' = (wCalls \ {c}) \cup {new}
        /\ UNCHANGED <<wDb, wPage, wTimer, wStray, wCount>>
    BY DEF Justified
  <1>2. c \in WCalls
    BY DEF WizardInv, WizardTypeOK
  <1>3. /\ new \in WCalls /\ new.kind = "complete" /\ new.step = "sent" /\ new.doc = c.doc
    BY <1>2 DEF WCalls, WKinds, DocWrites
  <1> HIDE DEF new
  <1>4. c.doc \in WDocs /\ wDb[c.doc].text
    BY <1>1 DEF WizardInv, DocsAreKnown, DocWrites, JustifiedFirst
  <1>5. WizardTypeOK'
    BY <1>1, <1>3 DEF WizardInv, WizardTypeOK
  <1>6. DocsAreKnown'
    BY <1>1, <1>3, <1>4 DEF WizardInv, DocsAreKnown, EntryWrites
  <1>7. ReadsAreOfThePage'
    BY <1>1, <1>3 DEF WizardInv, ReadsAreOfThePage
  <1>8. HoursFollow'
    <2>1. (Opening => Opening') /\ (Added => Added')
      BY <1>1 DEF Opening, Added
    <2> QED
      BY <1>1, <1>3, <2>1 DEF WizardInv, HoursFollow
  <1>9. JustifiedFirst'
    BY <1>1, <1>3, <1>4 DEF WizardInv, JustifiedFirst
  <1>10. CompletedMeansJustified'
    BY <1>1 DEF WizardInv, CompletedMeansJustified
  <1> QED
    BY <1>5, <1>6, <1>7, <1>8, <1>9, <1>10 DEF WizardInv

LEMMA CompletedKeeps ==
    ASSUME WizardInv, NEW c \in wCalls, Completed(c) PROVE WizardInv'
  <1>1. /\ c.kind = "complete" /\ wCalls' = wCalls \ {c} /\ wTimer' = TRUE
        /\ wPage' = [wPage EXCEPT !.saving = @ /\ c.orphan]
        /\ UNCHANGED <<wDb, wStray, wCount>>
    BY DEF Completed
  <1>2. /\ wPage' \in Pages /\ wPage'.screen = wPage.screen /\ wPage'.key = wPage.key
        /\ wPage'.doc = wPage.doc /\ wPage'.loading = wPage.loading
        /\ wPage'.error = wPage.error /\ wPage'.required = wPage.required
    BY <1>1, PageTyped DEF Pages
  <1>3. c.kind /= "add" /\ c.kind /= "open"
    BY <1>1
  <1> QED
    BY <1>1, <1>2, <1>3, PageTyped, EndedQuietly

LEMMA AbandonedKeeps ==
    ASSUME WizardInv, NEW c \in wCalls, Abandoned(c) PROVE WizardInv'
  <1>1. /\ c.kind = "abandon" /\ wCalls' = wCalls \ {c}
        /\ wPage' = IF c.orphan THEN wPage ELSE [wPage EXCEPT !.doc = None]
        /\ UNCHANGED <<wDb, wTimer, wStray, wCount>>
    BY DEF Abandoned
  <1>2. c.kind /= "add" /\ c.kind /= "open"
    BY <1>1
  <1>3. CASE c.orphan
    BY <1>1, <1>2, <1>3, PageTyped, EndedQuietly
  <1>4. CASE ~c.orphan
    <2>1. wPage.screen = "record"
      BY <1>1, <1>4 DEF WizardInv, ReadsAreOfThePage
    <2>2. wPage' \in Pages /\ wPage'.screen = wPage.screen /\ wPage'.key = wPage.key
      BY <1>1, <1>4, PageTyped DEF Pages, MaybeWDoc
    <2> QED
      BY <1>1, <1>2, <2>1, <2>2, PageTyped, EndedKeeps
  <1> QED
    BY <1>3, <1>4

LEMMA WriteEndsKeeps ==
    ASSUME WizardInv, NEW c \in wCalls, WriteEnds(c) PROVE WizardInv'
  <1>1. /\ c.kind \notin Reads /\ wCalls' = wCalls \ {c}
        /\ wPage' = IF c.orphan \/ c.kind \notin {"justify", "complete"} THEN wPage
                    ELSE [wPage EXCEPT !.saving = FALSE]
        /\ wStray' = (wStray \/ (c.kind = "add" /\ c.step = "ok"))
        /\ UNCHANGED <<wDb, wTimer, wCount>>
    BY DEF WriteEnds
  <1>2. /\ wPage' \in Pages /\ wPage'.screen = wPage.screen /\ wPage'.key = wPage.key
        /\ wPage'.doc = wPage.doc /\ wPage'.loading = wPage.loading
        /\ wPage'.error = wPage.error /\ wPage'.required = wPage.required
    BY <1>1, PageTyped DEF Pages
  <1>3. c.kind /= "open" /\ wStray' \in BOOLEAN
    BY <1>1, PageTyped DEF Reads
  <1> QED
    BY <1>1, <1>2, <1>3, PageTyped, EndedQuietly

\* Only a choice or a text on the page changes.
LEMMA PageMoves ==
    ASSUME WizardInv, wPage' \in Pages, wPage'.screen = wPage.screen, wPage'.key = wPage.key,
           wPage'.doc = wPage.doc, wPage'.loading = wPage.loading,
           wPage'.error = wPage.error, wPage'.required = wPage.required,
           UNCHANGED <<wDb, wCalls, wTimer, wStray, wCount>>
    PROVE  WizardInv'
  BY DEF WizardInv, WizardTypeOK, DocsAreKnown, ReadsAreOfThePage, HoursFollow, Opening,
         Added, JustifiedFirst, CompletedMeansJustified

LEMMA WizardUserKeeps == WizardInv /\ WizardUser => WizardInv'
  <1> SUFFICES ASSUME WizardInv, WizardUser PROVE WizardInv'
    OBVIOUS
  <1>1. wPage \in Pages /\ wPage.doc \in MaybeWDoc /\ None \in MaybeWDoc
        /\ NoPanel \in Panels \cup {NoPanel}
    BY PageTyped DEF Pages, MaybeWDoc
  <1>2. {"record", "form", "hours", "extra", "home"} \subseteq Screens
    BY DEF Screens
  <1>3. ASSUME MarkRead PROVE WizardInv'
    BY <1>1, <1>3, PageMoves DEF MarkRead, Pages
  <1>4. ASSUME TypeJustification PROVE WizardInv'
    BY <1>1, <1>4, PageMoves DEF TypeJustification, Pages
  <1>5. ASSUME handleBegin PROVE WizardInv'
    BY <1>1, <1>2, <1>5, MoveKeeps DEF handleBegin
  <1>6. ASSUME handleAbandon PROVE WizardInv'
    <2>1. wPage.doc \in WDocs
      BY <1>1, <1>6 DEF handleAbandon, MaybeWDoc
    <2>2. /\ wPage.screen = "record" /\ Write("abandon", wPage.doc, NoPanel)
          /\ UNCHANGED <<wDb, wPage, wTimer, wStray>>
      BY <1>6 DEF handleAbandon, On
    <2>3. "abandon" \notin EntryWrites
      BY DEF EntryWrites
    <2> QED
      BY <1>1, <2>1, <2>2, <2>3, WriteKeeps
  <1>7. ASSUME handleNext PROVE WizardInv'
    <2>1. CASE Move("hours", wPage.doc)
      BY <1>1, <1>2, <2>1, MoveKeeps
    <2>2. CASE Write("create", None, NoPanel) /\ UNCHANGED <<wDb, wPage, wTimer, wStray>>
      <3>1. "create" \notin EntryWrites
        BY DEF EntryWrites
      <3> QED
        BY <1>1, <2>2, <3>1, WriteKeeps
    <2> QED
      BY <1>7, <2>1, <2>2 DEF handleNext
  <1>8. ASSUME handleContinue PROVE WizardInv'
    BY <1>1, <1>2, <1>8, MoveKeeps DEF handleContinue
  <1>9. ASSUME Back PROVE WizardInv'
    BY <1>1, <1>2, <1>9, MoveKeeps DEF Back
  <1>10. ASSUME NEW panel \in Panels, Ready(panel),
                NEW kind \in {"add", "remove"}, Write(kind, wPage.at[panel], panel),
                UNCHANGED <<wDb, wPage, wTimer, wStray>>
         PROVE  WizardInv'
    <2>1. wPage.at[panel] \in MaybeWDoc /\ wPage.at[panel] /= None
      BY <1>1, <1>10 DEF Ready, Pages
    <2>2. wPage.at[panel] \in WDocs
      BY <2>1 DEF MaybeWDoc
    <2> QED
      BY <1>1, <1>10, <2>1, <2>2, WriteKeeps
  <1>11. ASSUME NEW panel \in Panels, handleAdd(panel) \/ remove(panel) PROVE WizardInv'
    BY <1>10, <1>11 DEF handleAdd, remove
  <1> QED
    BY <1>3, <1>4, <1>5, <1>6, <1>7, <1>8, <1>9, <1>11, CompletePressed DEF WizardUser

LEMMA WizardKept == WizardInv /\ [WizardNext]_wizardVars => WizardInv'
  <1> SUFFICES ASSUME WizardInv, [WizardNext]_wizardVars PROVE WizardInv'
    OBVIOUS
  <1>1. CASE UNCHANGED wizardVars
    BY <1>1, PageTyped, PageMoves DEF wizardVars
  <1>2. CASE TimerFires
    <2>1. navigate("home", None, Orphans) /\ wTimer' = FALSE /\ UNCHANGED wDb
          /\ wCount' = [wCount EXCEPT !.sent = @ + 1]
      BY <1>2 DEF TimerFires
    <2>2. \A k \in Orphans : Orphaned(k)
      <3>1. wCalls \in SUBSET wCalls /\ WizardTypeOK
        BY DEF WizardInv
      <3> QED
        BY <3>1, OrphansTyped DEF Orphans
    <2>3. "home" \in Screens /\ None \in MaybeWDoc /\ wTimer' \in BOOLEAN /\ wCount' \in Counts
      BY <2>1, Counted DEF Screens, MaybeWDoc, WizardInv
    <2> QED
      BY <2>1, <2>2, <2>3, NavigateKeeps
  <1>3. ASSUME NEW c \in wCalls, WizardAnswered(c) PROVE WizardInv'
    BY <1>3, ReadAnsweredKeeps, ReadFailsKeeps, EntryAnsweredKeeps, CreatedKeeps,
       JustifiedKeeps, CompletedKeeps, AbandonedKeeps, WriteEndsKeeps DEF WizardAnswered
  <1> QED
    BY <1>1, <1>2, <1>3, ServesKeeps, WizardUserKeeps DEF WizardNext, WizardAnswers

LEMMA WizardStarts == WizardInit => WizardInv
  <1> SUFFICES ASSUME WizardInit PROVE WizardInv
    OBVIOUS
  <1> DEFINE first == [n |-> 0, kind |-> "check", doc |-> None, panel |-> NoPanel, step |-> "sent",
                       over |-> FALSE, entries |-> {}, orphan |-> FALSE]
  <1>1. first \in WCalls /\ first.kind = "check" /\ first.step = "sent" /\ wCalls = {first}
    BY DEF WizardInit, WCalls, WKinds, Reads, MaybeWDoc
  <1>2. wPage \in Pages /\ wPage.screen = "record"
    BY DEF WizardInit, Fresh, Pages, Screens, MaybeWDoc
  <1>3. \A d \in WDocs : wDb[d] \in Records /\ wDb[d].status \in {"none", "Incomplete"}
                         /\ wDb[d].clean = FALSE
    BY DEF WizardInit, Records, Statuses, Panels
  <1>4. wDb \in [WDocs -> Records]
    BY <1>3 DEF WizardInit
  <1>5. wCount \in Counts /\ wTimer = FALSE /\ wStray = FALSE
    BY DEF WizardInit, Counts
  <1> HIDE DEF first
  <1>6. WizardTypeOK
    BY <1>1, <1>2, <1>4, <1>5 DEF WizardTypeOK
  <1>7. DocsAreKnown /\ ReadsAreOfThePage /\ HoursFollow
    BY <1>1, <1>2 DEF DocsAreKnown, ReadsAreOfThePage, HoursFollow, DocWrites, EntryWrites
  <1>8. JustifiedFirst /\ CompletedMeansJustified
    BY <1>1, <1>3 DEF JustifiedFirst, CompletedMeansJustified
  <1> QED
    BY <1>6, <1>7, <1>8 DEF WizardInv

-----------------------------------------------------------------------------
(***************************************************************************)
(* The functions page of the employee.                                     *)
(***************************************************************************)
Rows == [id : Nat \ {0}, item : Items, at : Nat, over : BOOLEAN]
Reports == [id : Nat, at : Nat, over : BOOLEAN]
FnPages == [loading : BOOLEAN, known : BOOLEAN, listed : SUBSET Items,
            reports : [Items -> Reports]]
FnKinds == {"load", "create", "update", "delete", "register"}
FnCalls == [n : Nat, kind : FnKinds, item : Items \cup {NoItem}, id : Nat, over : BOOLEAN,
            step : {"sent", "ok", "failed"}, mount : Nat]

FnTypeOK ==
    /\ fnDb \in [rows : SUBSET Rows, next : Nat \ {0}, functions : SUBSET Items]
    /\ fnPage \in FnPages
    /\ fnDialog \in Items \cup {"new", Closed} /\ fnSubmitting \in BOOLEAN
    /\ fnCalls \subseteq FnCalls
    /\ fnCount \in [writes : Nat, mounts : Nat]
    /\ fnExcused \in BOOLEAN

\* The identifiers of the rows are of one row each and were given in order.
RowsAreNumbered ==
    \A r \in fnDb.rows : r.id < fnDb.next /\ \A q \in fnDb.rows : q.id = r.id => q = r

\* A load is the one of the page that waits for it, and a dialog is of a page loaded.
LoadsAreOfThePage ==
    /\ \A c \in fnCalls : c.kind = "load" => /\ c.step = "sent" /\ fnPage.loading
                                             /\ c.mount = fnCount.mounts
    /\ \A c, d \in fnCalls : c.kind = "load" /\ d.kind = "load" => c = d
    /\ \A c \in fnCalls : c.kind /= "load" => c.item \in Items
    /\ fnDialog /= Closed => Usable
    /\ fnPage.loading => ~fnPage.known

Submits == {"create", "update", "register"}
Applied(c) == c.kind \in {"create", "update", "delete"} /\ c.step = "ok"

\* One submission at a time, all of it sent by this page and only once it is loaded.
OneSubmits ==
    /\ \A c \in fnCalls : c.mount = fnCount.mounts
    /\ ~Usable => \A c \in fnCalls : c.kind = "load"
    /\ \A c, d \in fnCalls : c.kind \in Submits /\ d.kind \in Submits => c = d
    /\ \A c \in fnCalls : c.kind \in Submits => fnSubmitting

\* A request is still about the report it was made of.
RequestsAreOfReports ==
    /\ \A c \in fnCalls :
         /\ c.kind = "create" => fnPage.reports[c.item] = NoReport
         /\ c.kind = "update" => /\ fnPage.reports[c.item] /= NoReport
                                 /\ fnPage.reports[c.item].id = c.id
         /\ c.kind = "delete" => /\ c.id < fnDb.next
                                 /\ \A r \in fnDb.rows : r.id = c.id => r.item = c.item
    /\ \A c, d \in fnCalls :
         d.kind = "delete" /\ (c.kind = "update" \/ (c.kind = "create" /\ Applied(c))) =>
           c.id /= d.id

\* What was applied and is not yet heard of is what the row holds.
AppliedIsInTheRow ==
    /\ \A c, d \in fnCalls : Applied(c) /\ Applied(d) /\ c.item = d.item => c = d
    /\ \A c \in fnCalls : Applied(c) =>
         IF c.kind = "delete"
         THEN /\ \A r \in fnDb.rows : r.item /= c.item
              /\ fnPage.reports[c.item] /= NoReport /\ fnPage.reports[c.item].id = c.id
         ELSE \E r \in fnDb.rows : /\ r.item = c.item /\ r.id = c.id /\ r.at = c.n
                                   /\ c.over => r.over

\* The report of i and its row agree.
Agree(i) ==
    IF fnPage.reports[i] = NoReport THEN \A r \in fnDb.rows : r.item /= i
    ELSE \E r \in fnDb.rows : /\ r.item = i /\ r.id = fnPage.reports[i].id
                              /\ r.at = fnPage.reports[i].at
                              /\ fnPage.reports[i].over => r.over

RestAgrees ==
    Usable => \A i \in Items : Agree(i) \/ \E c \in fnCalls : Applied(c) /\ c.item = i

Followed ==
    ~Doubled /\ OneSubmits /\ RequestsAreOfReports /\ AppliedIsInTheRow /\ RestAgrees

FnBase == FnTypeOK /\ RowsAreNumbered /\ LoadsAreOfThePage

FnInv == FnBase /\ (~fnExcused => Followed)

LEMMA NoReportIsNone == NoReport \in Reports /\ NoReport.id = 0
  BY DEF NoReport, Reports

LEMMA ClosedIsNone == Closed \notin Items /\ Closed /= "new"
  BY Zenon DEF Closed, Items

\* A request as it is first sent.
Requested(c, kind, item, id) ==
    /\ c \in FnCalls /\ c.kind = kind /\ c.item = item /\ c.id = id
    /\ c.step = "sent" /\ c.mount = fnCount.mounts

LEMMA FnCallTyped ==
  ASSUME FnTypeOK, NEW kind \in FnKinds, NEW item \in Items \cup {NoItem}, NEW id \in Nat,
         NEW over \in BOOLEAN
  PROVE  Requested(FnCall(kind, item, id, over), kind, item, id)
  BY DEF FnTypeOK, FnCall, FnCalls, Requested

LEMMA FnCounted ==
  ASSUME FnTypeOK, fnCount' = [fnCount EXCEPT !.writes = @ + 1]
  PROVE  fnCount' \in [writes : Nat, mounts : Nat] /\ fnCount'.mounts = fnCount.mounts
  BY DEF FnTypeOK

\* Only the dialog opens or closes.
LEMMA DialogTurns ==
  ASSUME FnInv, fnDialog' \in Items \cup {"new", Closed}, fnDialog' /= Closed => Usable,
         UNCHANGED <<fnDb, fnPage, fnSubmitting, fnCalls, fnCount, fnExcused>>
  PROVE  FnInv'
  <1>1. FnBase'
    BY DEF FnInv, FnBase, FnTypeOK, RowsAreNumbered, LoadsAreOfThePage, Usable
  <1>2. ~fnExcused => Followed'
    BY DEF FnInv, Followed, Doubled, OneSubmits, RequestsAreOfReports, AppliedIsInTheRow,
           RestAgrees, Agree, Usable, Applied
  <1> QED
    BY <1>1, <1>2 DEF FnInv

\* A request made of what the page shows.
MadeOfThePage(c) ==
    /\ c.kind \in Submits => ~fnSubmitting /\ fnSubmitting'
    /\ c.kind = "create" => fnPage.reports[c.item] = NoReport
    /\ c.kind \in {"update", "delete"} => /\ fnPage.reports[c.item] /= NoReport
                                          /\ fnPage.reports[c.item].id = c.id

LEMMA SendKeeps ==
  ASSUME FnInv, Usable, NEW c, Requested(c, c.kind, c.item, c.id), c.item \in Items,
         c.kind /= "load", Send(c), fnSubmitting' \in BOOLEAN, fnSubmitting => fnSubmitting',
         MadeOfThePage(c)
  PROVE  FnInv'
  <1>1. /\ fnCalls' = fnCalls \cup {c} /\ c \in FnCalls /\ c.step = "sent"
        /\ c.mount = fnCount.mounts /\ fnCount'.mounts = fnCount.mounts
        /\ fnCount' \in [writes : Nat, mounts : Nat]
        /\ UNCHANGED <<fnDb, fnPage, fnDialog>>
    BY FnCounted DEF Send, Requested, FnInv, FnBase
  <1>2. FnTypeOK'
    <2>1. fnExcused' \in BOOLEAN
      BY DEF Send, FnOverlap
    <2> QED
      BY <1>1, <2>1 DEF FnInv, FnBase, FnTypeOK
  <1>3. RowsAreNumbered' /\ LoadsAreOfThePage'
    BY <1>1 DEF FnInv, FnBase, RowsAreNumbered, LoadsAreOfThePage, Usable
  <1>4. ASSUME ~fnExcused' PROVE Followed'
    <2>1. ~fnExcused /\ Followed
      BY <1>4 DEF Send, FnOverlap, FnInv
    <2>2. \A b, d \in fnCalls' : b.kind = "update" /\ d.kind = "delete" => b.id /= d.id
      BY <1>4 DEF Send, FnOverlap
    <2>3. ~Doubled' /\ OneSubmits'
      <3>1. ~Doubled' /\ Usable'
        BY <1>1, <2>1 DEF Followed, Doubled, Usable
      <3>2. c.kind \in Submits => \A d \in fnCalls : d.kind \notin Submits
        BY <2>1 DEF Followed, OneSubmits, MadeOfThePage
      <3>3. \A d \in fnCalls' : d.mount = fnCount'.mounts
        BY <1>1, <2>1 DEF Followed, OneSubmits
      <3>4. \A d \in fnCalls' : d.kind \in Submits => fnSubmitting'
        BY <1>1, <2>1 DEF Followed, OneSubmits, MadeOfThePage
      <3>5. \A b, d \in fnCalls' : b.kind \in Submits /\ d.kind \in Submits => b = d
        BY <1>1, <2>1, <3>2 DEF Followed, OneSubmits
      <3> QED
        BY <3>1, <3>3, <3>4, <3>5 DEF OneSubmits
    <2>4. ~Applied(c) /\ \A b : Applied(b)' <=> Applied(b)
      BY <1>1 DEF Applied
    <2>5. AppliedIsInTheRow' /\ RestAgrees'
      <3>1. AppliedIsInTheRow'
        BY <1>1, <2>1, <2>4 DEF Followed, AppliedIsInTheRow
      <3>2. \A i : Agree(i)' <=> Agree(i)
        BY <1>1 DEF Agree
      <3>3. RestAgrees'
        BY <1>1, <2>1, <2>4, <3>2 DEF Followed, RestAgrees, Usable
      <3> QED
        BY <3>1, <3>3
    <2>6. ASSUME c.kind = "delete"
          PROVE  /\ c.id < fnDb.next
                 /\ \A r \in fnDb.rows : r.id = c.id => r.item = c.item
      <3>1. CASE Agree(c.item)
        <4>1. PICK r \in fnDb.rows : r.item = c.item /\ r.id = c.id
          BY <2>6, <3>1 DEF Agree, MadeOfThePage
        <4> QED
          BY <4>1 DEF FnInv, FnBase, RowsAreNumbered
      <3>2. CASE \E d \in fnCalls : Applied(d) /\ d.item = c.item
        <4>1. PICK d \in fnCalls : Applied(d) /\ d.item = c.item
          BY <3>2
        <4>2. CASE d.kind = "delete"
          BY <2>1, <2>6, <4>1, <4>2 DEF Followed, AppliedIsInTheRow, RequestsAreOfReports,
             MadeOfThePage
        <4>3. CASE d.kind = "create"
          BY <2>1, <2>6, <4>1, <4>3 DEF Followed, RequestsAreOfReports, MadeOfThePage
        <4>4. CASE d.kind = "update"
          <5>1. d.id = c.id
            BY <2>1, <2>6, <4>1, <4>4 DEF Followed, RequestsAreOfReports, MadeOfThePage
          <5> QED
            BY <1>1, <2>2, <2>6, <4>4, <5>1
        <4> QED
          BY <4>1, <4>2, <4>3, <4>4 DEF Applied
      <3> QED
        BY <2>1, <3>1, <3>2 DEF Followed, RestAgrees
    <2>7. \A b \in fnCalls' :
            /\ b.kind = "create" => fnPage.reports[b.item] = NoReport
            /\ b.kind = "update" => /\ fnPage.reports[b.item] /= NoReport
                                    /\ fnPage.reports[b.item].id = b.id
            /\ b.kind = "delete" => /\ b.id < fnDb.next
                                    /\ \A r \in fnDb.rows : r.id = b.id => r.item = b.item
      BY <1>1, <2>1, <2>6 DEF Followed, RequestsAreOfReports, MadeOfThePage
    <2>8. ASSUME NEW b \in fnCalls', NEW d \in fnCalls', d.kind = "delete",
                 b.kind = "create", Applied(b)
          PROVE  b.id /= d.id
      <3>1. b \in fnCalls
        BY <1>1, <2>4, <2>8
      <3>2. CASE d \in fnCalls
        BY <2>1, <2>8, <3>1, <3>2 DEF Followed, RequestsAreOfReports
      <3>3. CASE d = c
        <4>1. PICK r \in fnDb.rows : r.item = b.item /\ r.id = b.id
          BY <2>1, <2>8, <3>1 DEF Followed, AppliedIsInTheRow
        <4>2. fnPage.reports[b.item] = NoReport
          BY <2>1, <2>8, <3>1 DEF Followed, RequestsAreOfReports
        <4> QED
          BY <2>6, <2>8, <3>3, <4>1, <4>2 DEF MadeOfThePage
      <3> QED
        BY <1>1, <3>2, <3>3
    <2>9. RequestsAreOfReports'
      BY <1>1, <2>2, <2>4, <2>7, <2>8 DEF RequestsAreOfReports
    <2> QED
      BY <2>3, <2>5, <2>9 DEF Followed
  <1> QED
    BY <1>2, <1>3, <1>4 DEF FnInv, FnBase

LEMMA SubmitKeeps ==
  ASSUME FnInv, NEW over \in BOOLEAN, submitReport(over)
  PROVE  FnInv'
  <1> DEFINE existing == fnPage.reports[fnDialog]
             kind == IF existing = NoReport THEN "create" ELSE "update"
             c == FnCall(kind, fnDialog, existing.id, over)
  <1>1. fnDialog \in Items /\ ~fnSubmitting /\ fnSubmitting' = TRUE /\ Send(c)
    BY DEF submitReport
  <1>2. Usable
    BY <1>1, ClosedIsNone DEF FnInv, FnBase, LoadsAreOfThePage
  <1>3. existing \in Reports /\ existing.id \in Nat /\ kind \in FnKinds
    BY <1>1 DEF FnInv, FnBase, FnTypeOK, FnPages, Reports, FnKinds
  <1>4. Requested(c, kind, fnDialog, existing.id)
    BY <1>1, <1>3, FnCallTyped DEF FnInv, FnBase
  <1>5. /\ kind \in Submits /\ kind /= "load"
        /\ kind = "create" <=> fnPage.reports[fnDialog] = NoReport
        /\ existing.id = fnPage.reports[fnDialog].id /\ kind /= "delete"
    BY DEF Submits
  <1> HIDE DEF c, kind, existing
  <1>6. MadeOfThePage(c) /\ c.kind /= "load" /\ c.item \in Items
    BY <1>1, <1>4, <1>5 DEF MadeOfThePage, Requested
  <1>7. Requested(c, c.kind, c.item, c.id)
    BY <1>4 DEF Requested
  <1> QED
    BY <1>1, <1>2, <1>6, <1>7, SendKeeps

LEMMA RemoveKeeps ==
  ASSUME FnInv, NEW item \in Items, removeReport(item)
  PROVE  FnInv'
  <1> DEFINE id == fnPage.reports[item].id
             c == FnCall("delete", item, id, FALSE)
  <1>1. /\ Usable /\ fnPage.reports[item] /= NoReport /\ Send(c)
        /\ fnSubmitting' = fnSubmitting /\ fnSubmitting \in BOOLEAN
    BY DEF removeReport, FnInv, FnBase, FnTypeOK
  <1>2. id \in Nat
    BY DEF FnInv, FnBase, FnTypeOK, FnPages, Reports
  <1>3. Requested(c, "delete", item, id)
    BY <1>2, FnCallTyped DEF FnInv, FnBase, FnKinds
  <1>4. id = fnPage.reports[item].id
    OBVIOUS
  <1> HIDE DEF c, id
  <1>5. MadeOfThePage(c) /\ c.kind /= "load" /\ c.item \in Items
    BY <1>1, <1>3, <1>4 DEF MadeOfThePage, Requested, Submits
  <1>6. Requested(c, c.kind, c.item, c.id)
    BY <1>3 DEF Requested
  <1> QED
    BY <1>1, <1>5, <1>6, SendKeeps

LEMMA RegisterKeeps ==
  ASSUME FnInv, handleCreateCustom
  PROVE  FnInv'
  <1> DEFINE c == FnCall("register", "custom", 0, FALSE)
  <1>1. fnDialog = "new" /\ ~fnSubmitting /\ fnSubmitting' = TRUE /\ Send(c)
    BY DEF handleCreateCustom
  <1>2. Usable
    BY <1>1, ClosedIsNone DEF FnInv, FnBase, LoadsAreOfThePage
  <1>3. Requested(c, "register", "custom", 0)
    BY FnCallTyped DEF FnInv, FnBase, FnKinds, Items
  <1> HIDE DEF c
  <1>4. MadeOfThePage(c) /\ c.kind /= "load" /\ c.item \in Items
    BY <1>1, <1>3 DEF MadeOfThePage, Requested, Items
  <1>5. Requested(c, c.kind, c.item, c.id)
    BY <1>3 DEF Requested
  <1> QED
    BY <1>1, <1>2, <1>4, <1>5, SendKeeps

LEMMA MountKeeps ==
  ASSUME FnInv, Mount
  PROVE  FnInv'
  <1> DEFINE sent == FnCall("load", NoItem, 0, FALSE)
             read == [sent EXCEPT !.mount = fnCount.mounts + 1]
  <1>1. Requested(sent, "load", NoItem, 0)
    BY FnCallTyped DEF FnInv, FnBase, FnKinds
  <1>2. /\ fnCount' = [fnCount EXCEPT !.mounts = @ + 1]
        /\ fnCalls' = {c \in fnCalls : c.kind /= "load"} \cup {read}
        /\ fnPage' = Loading /\ fnDialog' = Closed /\ fnSubmitting' = FALSE
        /\ fnDb' = fnDb /\ fnExcused' = (Writes /= {} \/ Doubled)
    BY DEF Mount
  <1>3. fnCount' \in [writes : Nat, mounts : Nat] /\ fnCount'.mounts = fnCount.mounts + 1
    BY <1>2 DEF FnInv, FnBase, FnTypeOK
  <1> HIDE DEF sent
  <1>4. /\ read \in FnCalls /\ read.kind = "load" /\ read.step = "sent"
        /\ read.mount = fnCount'.mounts
    BY <1>1, <1>3 DEF Requested, FnCalls, FnInv, FnBase, FnTypeOK
  <1> HIDE DEF read
  <1>5. /\ Loading \in FnPages /\ Loading.loading /\ ~Loading.known
        /\ \A i \in Items : Loading.reports[i] = NoReport
    BY NoReportIsNone DEF Loading, FnPages
  <1>6. FnTypeOK'
    <2>1. fnCalls' \subseteq FnCalls
      BY <1>2, <1>4 DEF FnInv, FnBase, FnTypeOK
    <2> QED
      BY <1>2, <1>3, <1>5, <2>1 DEF FnInv, FnBase, FnTypeOK
  <1>7. RowsAreNumbered' /\ LoadsAreOfThePage'
    BY <1>2, <1>4, <1>5 DEF FnInv, FnBase, RowsAreNumbered, LoadsAreOfThePage
  <1>8. ASSUME ~fnExcused' PROVE Followed'
    <2>1. \A c \in fnCalls : c.kind = "load"
      BY <1>2, <1>8 DEF Writes
    <2>2. ~Doubled
      BY <1>2, <1>8
    <2>3. \A c \in fnCalls' : c = read
      BY <1>2, <2>1
    <2>4. ~Usable' /\ ~Doubled'
      BY <1>2, <1>5, <2>2 DEF Usable, Doubled
    <2>5. OneSubmits' /\ RequestsAreOfReports' /\ AppliedIsInTheRow' /\ RestAgrees'
      BY <1>4, <2>3, <2>4 DEF OneSubmits, RequestsAreOfReports, AppliedIsInTheRow, RestAgrees,
         Submits, Applied
    <2> QED
      BY <2>4, <2>5 DEF Followed
  <1> QED
    BY <1>6, <1>7, <1>8 DEF FnInv, FnBase

\* The server answers c with e.
Replied(c, e, step, id) ==
    /\ fnCalls' = (fnCalls \ {c}) \cup {e} /\ e \in FnCalls
    /\ e.n = c.n /\ e.kind = c.kind /\ e.item = c.item /\ e.over = c.over /\ e.mount = c.mount
    /\ e.step = step /\ e.id = id

PageRests == UNCHANGED <<fnPage, fnDialog, fnSubmitting, fnCount, fnExcused>>

LEMMA ReplyTyped ==
  ASSUME FnTypeOK, NEW c \in fnCalls, NEW step \in {"ok", "failed"}, NEW id \in Nat,
         FnReply(c, step, id)
  PROVE  \E e : Replied(c, e, step, id)
  <1> DEFINE stepped == [c EXCEPT !.step = step]
  <1>1. c \in FnCalls
    BY DEF FnTypeOK
  <1>2. /\ stepped \in FnCalls /\ stepped.n = c.n /\ stepped.kind = c.kind
        /\ stepped.item = c.item /\ stepped.over = c.over /\ stepped.mount = c.mount
        /\ stepped.step = step
    BY <1>1 DEF FnCalls
  <1>3. fnCalls' = (fnCalls \ {c}) \cup {[stepped EXCEPT !.id = id]}
    BY DEF FnReply
  <1> HIDE DEF stepped
  <1> DEFINE e == [stepped EXCEPT !.id = id]
  <1>4. /\ e \in FnCalls /\ e.n = c.n /\ e.kind = c.kind /\ e.item = c.item
        /\ e.over = c.over /\ e.mount = c.mount /\ e.step = step /\ e.id = id
    BY <1>2 DEF FnCalls
  <1> HIDE DEF e
  <1>5. Replied(c, e, step, id)
    BY <1>3, <1>4 DEF Replied, e
  <1> QED
    BY <1>5

\* Whatever the server does, the requests stay those of the page.
LEMMA ReplyKeeps ==
  ASSUME FnInv, PageRests, NEW c \in fnCalls, NEW e, NEW step \in {"ok", "failed"}, NEW id,
         c.kind /= "load", Replied(c, e, step, id),
         fnDb' \in [rows : SUBSET Rows, next : Nat \ {0}, functions : SUBSET Items]
  PROVE  /\ FnTypeOK' /\ LoadsAreOfThePage'
         /\ ~fnExcused => OneSubmits' /\ Usable
  <1>1. FnTypeOK'
    BY DEF PageRests, Replied, FnInv, FnBase, FnTypeOK
  <1>2. LoadsAreOfThePage'
    BY DEF PageRests, Replied, FnInv, FnBase, LoadsAreOfThePage, Usable
  <1>3. ASSUME ~fnExcused PROVE OneSubmits' /\ Usable
    BY <1>3 DEF PageRests, Replied, FnInv, Followed, OneSubmits, Usable
  <1> QED
    BY <1>1, <1>2, <1>3

LEMMA CreateServed ==
  ASSUME FnInv, PageRests, NEW c \in fnCalls, c.step = "sent", createJobFunction(c)
  PROVE  FnInv'
  <1> DEFINE row == [id |-> fnDb.next, item |-> c.item, at |-> c.n, over |-> c.over]
  <1>1. /\ c.kind = "create" /\ c \in FnCalls /\ c.item \in Items
        /\ fnDb.next \in Nat \ {0} /\ FnReply(c, "ok", fnDb.next)
    BY DEF createJobFunction, FnInv, FnBase, FnTypeOK, LoadsAreOfThePage
  <1>2. /\ row \in Rows /\ row.id = fnDb.next /\ row.item = c.item /\ row.at = c.n
        /\ row.over = c.over
    BY <1>1 DEF Rows, FnCalls
  <1>3. /\ fnDb' \in [rows : SUBSET Rows, next : Nat \ {0}, functions : SUBSET Items]
        /\ fnDb'.rows = fnDb.rows \cup {row} /\ fnDb'.next = fnDb.next + 1
    <2> DEFINE more == [fnDb EXCEPT !.rows = @ \cup {row}]
    <2>1. fnDb' = [more EXCEPT !.next = @ + 1]
      BY DEF createJobFunction
    <2> HIDE DEF row
    <2>2. /\ more \in [rows : SUBSET Rows, next : Nat \ {0}, functions : SUBSET Items]
          /\ more.rows = fnDb.rows \cup {row} /\ more.next = fnDb.next
      BY <1>2 DEF FnInv, FnBase, FnTypeOK
    <2> HIDE DEF more
    <2> QED
      BY <1>1, <2>1, <2>2
  <1> HIDE DEF row
  <1>4. PICK e : Replied(c, e, "ok", fnDb.next)
    BY <1>1, ReplyTyped DEF FnInv, FnBase
  <1>5. /\ FnTypeOK' /\ LoadsAreOfThePage'
        /\ ~fnExcused => OneSubmits' /\ Usable
    BY <1>1, <1>3, <1>4, ReplyKeeps
  <1>6. RowsAreNumbered'
    <2>1. \A r \in fnDb.rows : r.id \in Nat /\ r.id < fnDb.next
      BY DEF FnInv, FnBase, FnTypeOK, Rows, RowsAreNumbered
    <2>2. \A r \in fnDb'.rows : r.id < fnDb'.next
      BY <1>1, <1>2, <1>3, <2>1
    <2>3. \A r, q \in fnDb'.rows : q.id = r.id => q = r
      BY <1>1, <1>2, <1>3, <2>1 DEF FnInv, FnBase, RowsAreNumbered
    <2> QED
      BY <2>2, <2>3 DEF RowsAreNumbered
  <1>7. ASSUME ~fnExcused' PROVE Followed'
    <2>1. Followed /\ Usable /\ OneSubmits' /\ fnPage' = fnPage
      BY <1>5, <1>7 DEF PageRests, FnInv
    <2>2. \A d \in fnCalls : Applied(d) => d.item /= c.item
      BY <1>1, <2>1 DEF Followed, OneSubmits, Submits, RequestsAreOfReports, AppliedIsInTheRow,
         Applied
    <2>3. \A r \in fnDb.rows : r.item /= c.item
      BY <1>1, <2>1, <2>2 DEF Followed, RestAgrees, Agree, RequestsAreOfReports
    <2>4. ~Doubled'
      BY <1>2, <1>3, <2>1, <2>3 DEF Followed, Doubled
    <2>5. \A d \in fnCalls' : d.kind = "delete" => d \in fnCalls /\ d.id < fnDb.next
      BY <1>1, <1>4, <2>1 DEF Replied, Followed, RequestsAreOfReports
    <2>6. \A d \in fnCalls : d.id \in Nat
      BY DEF FnInv, FnBase, FnTypeOK, FnCalls
    <2>7. RequestsAreOfReports'
      <3>1. \A d \in fnCalls' :
              /\ d.kind = "create" => fnPage.reports[d.item] = NoReport
              /\ d.kind = "update" => /\ fnPage.reports[d.item] /= NoReport
                                      /\ fnPage.reports[d.item].id = d.id
        BY <1>1, <1>4, <2>1 DEF Replied, Followed, RequestsAreOfReports
      <3>2. \A d \in fnCalls' : d.kind = "delete" =>
              /\ d.id < fnDb'.next
              /\ \A r \in fnDb'.rows : r.id = d.id => r.item = d.item
        BY <1>1, <1>2, <1>3, <2>1, <2>5, <2>6 DEF Followed, RequestsAreOfReports
      <3>3. ASSUME NEW b \in fnCalls', NEW d \in fnCalls', d.kind = "delete",
                   b.kind = "update" \/ (b.kind = "create" /\ Applied(b))
            PROVE  b.id /= d.id
        <4>1. CASE b \in fnCalls
          BY <2>1, <2>5, <3>3, <4>1 DEF Followed, RequestsAreOfReports
        <4>2. CASE b = e
          BY <1>1, <1>4, <2>5, <2>6, <3>3, <4>2 DEF Replied
        <4> QED
          BY <1>4, <4>1, <4>2 DEF Replied
      <3> QED
        BY <2>1, <3>1, <3>2, <3>3 DEF RequestsAreOfReports, Applied
    <2>8. AppliedIsInTheRow'
      <3>1. \A b, d \in fnCalls' : Applied(b) /\ Applied(d) /\ b.item = d.item => b = d
        BY <1>4, <2>1, <2>2 DEF Replied, Followed, AppliedIsInTheRow
      <3>2. ASSUME NEW d \in fnCalls', Applied(d), d.kind = "delete"
            PROVE  /\ \A r \in fnDb'.rows : r.item /= d.item
                   /\ fnPage.reports[d.item] /= NoReport /\ fnPage.reports[d.item].id = d.id
        BY <1>2, <1>3, <2>1, <2>2, <2>5, <3>2 DEF Followed, AppliedIsInTheRow
      <3>3. ASSUME NEW d \in fnCalls', Applied(d), d.kind /= "delete"
            PROVE  \E r \in fnDb'.rows : /\ r.item = d.item /\ r.id = d.id /\ r.at = d.n
                                         /\ d.over => r.over
        <4>1. CASE d \in fnCalls
          BY <1>3, <2>1, <3>3, <4>1 DEF Followed, AppliedIsInTheRow
        <4>2. CASE d = e
          BY <1>2, <1>3, <1>4, <4>2 DEF Replied
        <4> QED
          BY <1>4, <4>1, <4>2 DEF Replied
      <3> QED
        BY <2>1, <3>1, <3>2, <3>3 DEF AppliedIsInTheRow, Applied
    <2>9. RestAgrees'
      <3> SUFFICES ASSUME NEW i \in Items
                   PROVE  Agree(i)' \/ \E d \in fnCalls' : Applied(d) /\ d.item = i
        BY DEF RestAgrees, Applied
      <3>1. CASE i = c.item
        <4>1. e \in fnCalls' /\ Applied(e) /\ e.item = i
          BY <1>1, <1>4, <3>1 DEF Replied, Applied
        <4> QED
          BY <4>1
      <3>2. CASE i /= c.item /\ Agree(i)
        BY <1>2, <1>3, <2>1, <3>2 DEF Agree
      <3>3. CASE \E d \in fnCalls : Applied(d) /\ d.item = i
        <4>1. PICK d \in fnCalls : Applied(d) /\ d.item = i
          BY <3>3
        <4>2. d \in fnCalls'
          BY <1>1, <1>4, <2>2, <4>1 DEF Replied, Applied
        <4> QED
          BY <4>1, <4>2
      <3> QED
        BY <2>1, <3>1, <3>2, <3>3 DEF Followed, RestAgrees
    <2> QED
      BY <2>1, <2>4, <2>7, <2>8, <2>9 DEF Followed
  <1> QED
    BY <1>5, <1>6, <1>7 DEF FnInv, FnBase

\* The row of a report to be changed or removed is the one row of its function, and
\* nothing else was applied to it.
LEMMA TheRowOfTheReport ==
  ASSUME FnInv, ~fnExcused, NEW c \in fnCalls, c.step = "sent", c.kind \in {"update", "delete"},
         NEW row \in fnDb.rows, row.id = c.id
  PROVE  /\ row.item = c.item
         /\ \A r \in fnDb.rows : r.item = c.item => r = row
         /\ \A d \in fnCalls : Applied(d) => d.item /= c.item
         /\ fnPage.reports[c.item] /= NoReport /\ fnPage.reports[c.item].id = c.id
  <1>1. Followed /\ Usable /\ RowsAreNumbered /\ c.item \in Items
    BY DEF FnInv, FnBase, Followed, OneSubmits, LoadsAreOfThePage
  <1>2. CASE c.kind = "update"
    <2>1. fnPage.reports[c.item] /= NoReport /\ fnPage.reports[c.item].id = c.id
      BY <1>1, <1>2 DEF Followed, RequestsAreOfReports
    <2>2. \A d \in fnCalls : Applied(d) => d.item /= c.item
      <3> SUFFICES ASSUME NEW d \in fnCalls, Applied(d), d.item = c.item PROVE FALSE
        OBVIOUS
      <3>1. d.kind = "delete"
        BY <1>1, <1>2 DEF Followed, OneSubmits, Submits, Applied
      <3>2. d.id = c.id
        BY <1>1, <2>1, <3>1 DEF Followed, AppliedIsInTheRow
      <3> QED
        BY <1>1, <1>2, <3>1, <3>2 DEF Followed, RequestsAreOfReports
    <2>3. Agree(c.item)
      BY <1>1, <2>2 DEF Followed, RestAgrees
    <2>4. row.item = c.item
      BY <1>1, <2>1, <2>3 DEF Agree, RowsAreNumbered
    <2> QED
      BY <1>1, <2>1, <2>2, <2>4 DEF Followed, Doubled
  <1>3. CASE c.kind = "delete"
    <2>1. row.item = c.item
      BY <1>1, <1>3 DEF Followed, RequestsAreOfReports
    <2>2. \A d \in fnCalls : Applied(d) => d.item /= c.item
      <3> SUFFICES ASSUME NEW d \in fnCalls, Applied(d), d.item = c.item PROVE FALSE
        OBVIOUS
      <3>1. d.kind /= "delete"
        BY <1>1, <2>1 DEF Followed, AppliedIsInTheRow
      <3>2. PICK r \in fnDb.rows : r.item = c.item /\ r.id = d.id
        BY <1>1, <3>1 DEF Followed, AppliedIsInTheRow
      <3>3. d.id = c.id
        BY <1>1, <2>1, <3>2 DEF Followed, Doubled
      <3> QED
        BY <1>1, <1>3, <3>1, <3>3 DEF Followed, RequestsAreOfReports, Applied
    <2>3. Agree(c.item)
      BY <1>1, <2>2 DEF Followed, RestAgrees
    <2>4. fnPage.reports[c.item] /= NoReport /\ fnPage.reports[c.item].id = c.id
      BY <1>1, <2>1, <2>3 DEF Agree, Followed, Doubled
    <2> QED
      BY <1>1, <2>1, <2>2, <2>4 DEF Followed, Doubled
  <1> QED
    BY <1>2, <1>3

LEMMA UpdateServed ==
  ASSUME FnInv, PageRests, NEW c \in fnCalls, c.step = "sent", updateJobFunction(c)
  PROVE  FnInv'
  <1>1. /\ c.kind = "update" /\ c \in FnCalls /\ c.id \in Nat /\ c.item \in Items
        /\ FnReply(c, "ok", c.id)
    BY DEF updateJobFunction, FnInv, FnBase, FnTypeOK, LoadsAreOfThePage, FnCalls
  <1>2. PICK row \in fnDb.rows :
          /\ row.id = c.id
          /\ fnDb' = [fnDb EXCEPT !.rows = (@ \ {row}) \cup
                        {[row EXCEPT !.at = c.n, !.over = @ \/ c.over]}]
    BY DEF updateJobFunction
  <1> DEFINE stamped == [row EXCEPT !.at = c.n]
  <1>3. stamped \in Rows /\ stamped.id = row.id /\ stamped.item = row.item /\ stamped.at = c.n
    BY <1>1 DEF FnInv, FnBase, FnTypeOK, Rows, FnCalls
  <1> HIDE DEF stamped
  <1> DEFINE new == [stamped EXCEPT !.over = @ \/ c.over]
  <1>4. /\ new \in Rows /\ new.id = row.id /\ new.item = row.item /\ new.at = c.n
        /\ c.over => new.over
    BY <1>1, <1>3 DEF Rows, FnCalls
  <1>5. fnDb' = [fnDb EXCEPT !.rows = (@ \ {row}) \cup {new}]
    BY <1>2 DEF stamped
  <1> HIDE DEF new
  <1>6. /\ fnDb' \in [rows : SUBSET Rows, next : Nat \ {0}, functions : SUBSET Items]
        /\ fnDb'.rows = (fnDb.rows \ {row}) \cup {new} /\ fnDb'.next = fnDb.next
    BY <1>4, <1>5 DEF FnInv, FnBase, FnTypeOK
  <1>7. PICK e : Replied(c, e, "ok", c.id)
    BY <1>1, ReplyTyped DEF FnInv, FnBase
  <1>8. /\ FnTypeOK' /\ LoadsAreOfThePage'
        /\ ~fnExcused => OneSubmits' /\ Usable
    BY <1>1, <1>6, <1>7, ReplyKeeps
  <1>9. RowsAreNumbered'
    BY <1>4, <1>6 DEF FnInv, FnBase, RowsAreNumbered
  <1>10. ASSUME ~fnExcused' PROVE Followed'
    <2>1. Followed /\ Usable /\ OneSubmits' /\ fnPage' = fnPage /\ ~fnExcused
      BY <1>8, <1>10 DEF PageRests, FnInv
    <2>2. /\ row.item = c.item
          /\ \A r \in fnDb.rows : r.item = c.item => r = row
          /\ \A d \in fnCalls : Applied(d) => d.item /= c.item
          /\ fnPage.reports[c.item] /= NoReport /\ fnPage.reports[c.item].id = c.id
      BY <1>1, <1>2, <2>1, TheRowOfTheReport
    <2>3. ~Doubled'
      BY <1>4, <1>6, <2>1, <2>2 DEF Followed, Doubled
    <2>4. \A r \in fnDb'.rows : \E q \in fnDb.rows : q.id = r.id /\ q.item = r.item
      BY <1>4, <1>6
    <2>5. \A d \in fnCalls' : d.kind = "delete" => d \in fnCalls
      BY <1>1, <1>7 DEF Replied
    <2>6. RequestsAreOfReports'
      <3>1. \A d \in fnCalls' :
              /\ d.kind = "create" => fnPage.reports[d.item] = NoReport
              /\ d.kind = "update" => /\ fnPage.reports[d.item] /= NoReport
                                      /\ fnPage.reports[d.item].id = d.id
        BY <1>1, <1>7, <2>1, <2>2 DEF Replied, Followed, RequestsAreOfReports
      <3>2. \A d \in fnCalls' : d.kind = "delete" =>
              /\ d.id < fnDb'.next
              /\ \A r \in fnDb'.rows : r.id = d.id => r.item = d.item
        BY <1>6, <2>1, <2>4, <2>5 DEF Followed, RequestsAreOfReports
      <3>3. ASSUME NEW b \in fnCalls', NEW d \in fnCalls', d.kind = "delete",
                   b.kind = "update" \/ (b.kind = "create" /\ Applied(b))
            PROVE  b.id /= d.id
        <4>1. CASE b \in fnCalls
          BY <2>1, <2>5, <3>3, <4>1 DEF Followed, RequestsAreOfReports
        <4>2. CASE b = e
          BY <1>1, <1>7, <2>1, <2>5, <3>3, <4>2 DEF Replied, Followed, RequestsAreOfReports
        <4> QED
          BY <1>7, <4>1, <4>2 DEF Replied
      <3> QED
        BY <2>1, <3>1, <3>2, <3>3 DEF RequestsAreOfReports, Applied
    <2>7. AppliedIsInTheRow'
      <3>1. \A b, d \in fnCalls' : Applied(b) /\ Applied(d) /\ b.item = d.item => b = d
        BY <1>7, <2>1, <2>2 DEF Replied, Followed, AppliedIsInTheRow
      <3>2. ASSUME NEW d \in fnCalls', Applied(d), d.kind = "delete"
            PROVE  /\ \A r \in fnDb'.rows : r.item /= d.item
                   /\ fnPage.reports[d.item] /= NoReport /\ fnPage.reports[d.item].id = d.id
        BY <2>1, <2>4, <2>5, <3>2 DEF Followed, AppliedIsInTheRow
      <3>3. ASSUME NEW d \in fnCalls', Applied(d), d.kind /= "delete"
            PROVE  \E r \in fnDb'.rows : /\ r.item = d.item /\ r.id = d.id /\ r.at = d.n
                                         /\ d.over => r.over
        <4>1. CASE d \in fnCalls
          BY <1>6, <2>1, <2>2, <3>3, <4>1 DEF Followed, AppliedIsInTheRow
        <4>2. CASE d = e
          BY <1>2, <1>4, <1>6, <1>7, <2>2, <4>2 DEF Replied
        <4> QED
          BY <1>7, <4>1, <4>2 DEF Replied
      <3> QED
        BY <2>1, <3>1, <3>2, <3>3 DEF AppliedIsInTheRow, Applied
    <2>8. RestAgrees'
      <3> SUFFICES ASSUME NEW i \in Items
                   PROVE  Agree(i)' \/ \E d \in fnCalls' : Applied(d) /\ d.item = i
        BY DEF RestAgrees, Applied
      <3>1. CASE i = c.item
        <4>1. e \in fnCalls' /\ Applied(e) /\ e.item = i
          BY <1>1, <1>7, <3>1 DEF Replied, Applied
        <4> QED
          BY <4>1
      <3>2. CASE i /= c.item /\ Agree(i)
        BY <1>4, <1>6, <2>1, <2>2, <3>2 DEF Agree
      <3>3. CASE \E d \in fnCalls : Applied(d) /\ d.item = i
        <4>1. PICK d \in fnCalls : Applied(d) /\ d.item = i
          BY <3>3
        <4>2. d \in fnCalls'
          BY <1>1, <1>7, <2>2, <4>1 DEF Replied, Applied
        <4> QED
          BY <4>1, <4>2
      <3> QED
        BY <2>1, <3>1, <3>2, <3>3 DEF Followed, RestAgrees
    <2> QED
      BY <2>1, <2>3, <2>6, <2>7, <2>8 DEF Followed
  <1> QED
    BY <1>8, <1>9, <1>10 DEF FnInv, FnBase

LEMMA DeleteServed ==
  ASSUME FnInv, PageRests, NEW c \in fnCalls, c.step = "sent", deleteJobFunction(c)
  PROVE  FnInv'
  <1>1. /\ c.kind = "delete" /\ c \in FnCalls /\ c.id \in Nat /\ c.item \in Items
        /\ FnReply(c, "ok", c.id)
    BY DEF deleteJobFunction, FnInv, FnBase, FnTypeOK, LoadsAreOfThePage, FnCalls
  <1>2. PICK row \in fnDb.rows : row.id = c.id /\ fnDb' = [fnDb EXCEPT !.rows = @ \ {row}]
    BY DEF deleteJobFunction
  <1>3. /\ fnDb' \in [rows : SUBSET Rows, next : Nat \ {0}, functions : SUBSET Items]
        /\ fnDb'.rows = fnDb.rows \ {row} /\ fnDb'.next = fnDb.next
    BY <1>2 DEF FnInv, FnBase, FnTypeOK
  <1>4. PICK e : Replied(c, e, "ok", c.id)
    BY <1>1, ReplyTyped DEF FnInv, FnBase
  <1>5. /\ FnTypeOK' /\ LoadsAreOfThePage'
        /\ ~fnExcused => OneSubmits' /\ Usable
    BY <1>1, <1>3, <1>4, ReplyKeeps
  <1>6. RowsAreNumbered'
    BY <1>3 DEF FnInv, FnBase, RowsAreNumbered
  <1>7. ASSUME ~fnExcused' PROVE Followed'
    <2>1. Followed /\ Usable /\ OneSubmits' /\ fnPage' = fnPage /\ ~fnExcused
      BY <1>5, <1>7 DEF PageRests, FnInv
    <2>2. /\ row.item = c.item
          /\ \A r \in fnDb.rows : r.item = c.item => r = row
          /\ \A d \in fnCalls : Applied(d) => d.item /= c.item
          /\ fnPage.reports[c.item] /= NoReport /\ fnPage.reports[c.item].id = c.id
      BY <1>1, <1>2, <2>1, TheRowOfTheReport
    <2>3. ~Doubled'
      BY <1>3, <2>1 DEF Followed, Doubled
    <2>4. RequestsAreOfReports'
      <3>1. \A d \in fnCalls' :
              /\ d.kind = "create" => fnPage.reports[d.item] = NoReport
              /\ d.kind = "update" => /\ fnPage.reports[d.item] /= NoReport
                                      /\ fnPage.reports[d.item].id = d.id
              /\ d.kind = "delete" =>
                   /\ d.id < fnDb'.next
                   /\ \A r \in fnDb'.rows : r.id = d.id => r.item = d.item
        BY <1>1, <1>3, <1>4, <2>1 DEF Replied, Followed, RequestsAreOfReports
      <3>2. ASSUME NEW b \in fnCalls', NEW d \in fnCalls', d.kind = "delete",
                   b.kind = "update" \/ (b.kind = "create" /\ Applied(b))
            PROVE  b.id /= d.id
        <4>1. b \in fnCalls
          BY <1>1, <1>4, <3>2 DEF Replied
        <4>2. \E q \in fnCalls : q.kind = "delete" /\ q.id = d.id
          BY <1>1, <1>4, <3>2 DEF Replied
        <4> QED
          BY <2>1, <3>2, <4>1, <4>2 DEF Followed, RequestsAreOfReports
      <3> QED
        BY <2>1, <3>1, <3>2 DEF RequestsAreOfReports, Applied
    <2>5. AppliedIsInTheRow'
      <3>1. \A b, d \in fnCalls' : Applied(b) /\ Applied(d) /\ b.item = d.item => b = d
        BY <1>4, <2>1, <2>2 DEF Replied, Followed, AppliedIsInTheRow
      <3>2. ASSUME NEW d \in fnCalls', Applied(d), d.kind = "delete"
            PROVE  /\ \A r \in fnDb'.rows : r.item /= d.item
                   /\ fnPage.reports[d.item] /= NoReport /\ fnPage.reports[d.item].id = d.id
        <4>1. CASE d \in fnCalls
          BY <1>3, <2>1, <3>2, <4>1 DEF Followed, AppliedIsInTheRow
        <4>2. CASE d = e
          BY <1>3, <1>4, <2>2, <4>2 DEF Replied
        <4> QED
          BY <1>4, <4>1, <4>2 DEF Replied
      <3>3. ASSUME NEW d \in fnCalls', Applied(d), d.kind /= "delete"
            PROVE  \E r \in fnDb'.rows : /\ r.item = d.item /\ r.id = d.id /\ r.at = d.n
                                         /\ d.over => r.over
        <4>1. d \in fnCalls
          BY <1>1, <1>4, <3>3 DEF Replied
        <4> QED
          BY <1>3, <2>1, <2>2, <3>3, <4>1 DEF Followed, AppliedIsInTheRow
      <3> QED
        BY <2>1, <3>1, <3>2, <3>3 DEF AppliedIsInTheRow, Applied
    <2>6. RestAgrees'
      <3> SUFFICES ASSUME NEW i \in Items
                   PROVE  Agree(i)' \/ \E d \in fnCalls' : Applied(d) /\ d.item = i
        BY DEF RestAgrees, Applied
      <3>1. CASE i = c.item
        <4>1. e \in fnCalls' /\ Applied(e) /\ e.item = i
          BY <1>1, <1>4, <3>1 DEF Replied, Applied
        <4> QED
          BY <4>1
      <3>2. CASE i /= c.item /\ Agree(i)
        BY <1>3, <2>1, <2>2, <3>2 DEF Agree
      <3>3. CASE \E d \in fnCalls : Applied(d) /\ d.item = i
        <4>1. PICK d \in fnCalls : Applied(d) /\ d.item = i
          BY <3>3
        <4>2. d \in fnCalls'
          BY <1>1, <1>4, <2>2, <4>1 DEF Replied, Applied
        <4> QED
          BY <4>1, <4>2
      <3> QED
        BY <2>1, <3>1, <3>2, <3>3 DEF Followed, RestAgrees
    <2> QED
      BY <2>1, <2>3, <2>4, <2>5, <2>6 DEF Followed
  <1> QED
    BY <1>5, <1>6, <1>7 DEF FnInv, FnBase

\* A refusal, or a function registered: the rows stay.
LEMMA RowsStand ==
  ASSUME FnInv, PageRests, NEW c \in fnCalls, c.step = "sent", c.kind /= "load",
         NEW e, NEW step \in {"ok", "failed"}, NEW id, Replied(c, e, step, id),
         step = "ok" => c.kind = "register", id \in {c.id, 0},
         c.kind \in {"update", "delete"} => id = c.id,
         fnDb' \in [rows : SUBSET Rows, next : Nat \ {0}, functions : SUBSET Items],
         fnDb'.rows = fnDb.rows, fnDb'.next = fnDb.next
  PROVE  FnInv'
  <1>1. /\ FnTypeOK' /\ LoadsAreOfThePage'
        /\ ~fnExcused => OneSubmits' /\ Usable
    BY ReplyKeeps
  <1>2. RowsAreNumbered'
    BY DEF FnInv, FnBase, RowsAreNumbered
  <1>3. ASSUME ~fnExcused' PROVE Followed'
    <2>1. Followed /\ Usable /\ OneSubmits' /\ fnPage' = fnPage
      BY <1>1, <1>3 DEF PageRests, FnInv
    <2>2. ~Doubled'
      BY <2>1 DEF Followed, Doubled
    <2>3. ~Applied(c) /\ ~Applied(e)
      BY DEF Applied, Replied
    <2>4. \A d : Applied(d) => (d \in fnCalls <=> d \in fnCalls')
      BY <2>3 DEF Replied
    <2>5. RequestsAreOfReports'
      <3>1. \A d \in fnCalls' :
              /\ d.kind = "create" => fnPage.reports[d.item] = NoReport
              /\ d.kind = "update" => /\ fnPage.reports[d.item] /= NoReport
                                      /\ fnPage.reports[d.item].id = d.id
              /\ d.kind = "delete" =>
                   /\ d.id < fnDb'.next
                   /\ \A r \in fnDb'.rows : r.id = d.id => r.item = d.item
        BY <2>1 DEF Replied, Followed, RequestsAreOfReports
      <3>2. \A d \in fnCalls' : d.kind \in {"update", "delete"} =>
              \E q \in fnCalls : q.kind = d.kind /\ q.id = d.id
        BY DEF Replied
      <3>3. \A b, d \in fnCalls' :
              d.kind = "delete" /\ (b.kind = "update" \/ (b.kind = "create" /\ Applied(b))) =>
                b.id /= d.id
        BY <2>1, <2>4, <3>2 DEF Followed, RequestsAreOfReports
      <3> QED
        BY <2>1, <3>1, <3>3 DEF RequestsAreOfReports, Applied
    <2>6. AppliedIsInTheRow'
      BY <2>1, <2>4 DEF Followed, AppliedIsInTheRow, Applied
    <2>7. \A i : Agree(i)' <=> Agree(i)
      BY <2>1 DEF Agree
    <2>8. RestAgrees'
      BY <2>1, <2>4, <2>7 DEF Followed, RestAgrees, Applied
    <2> QED
      BY <2>1, <2>2, <2>5, <2>6, <2>8 DEF Followed
  <1> QED
    BY <1>1, <1>2, <1>3 DEF FnInv, FnBase

LEMMA RefusalKeeps ==
  ASSUME FnInv, PageRests, NEW c \in fnCalls, c.step = "sent", FnRefused(c)
  PROVE  FnInv'
  <1>1. c.kind \in {"create", "update", "delete"} /\ c.id \in Nat /\ FnReply(c, "failed", c.id)
    BY DEF FnRefused, FnInv, FnBase, FnTypeOK, FnCalls
  <1>2. PICK e : Replied(c, e, "failed", c.id)
    BY <1>1, ReplyTyped DEF FnInv, FnBase
  <1>3. /\ fnDb' \in [rows : SUBSET Rows, next : Nat \ {0}, functions : SUBSET Items]
        /\ fnDb'.rows = fnDb.rows /\ fnDb'.next = fnDb.next
    BY DEF FnRefused, FnInv, FnBase, FnTypeOK
  <1> QED
    BY <1>1, <1>2, <1>3, RowsStand

LEMMA RegisterServed ==
  ASSUME FnInv, PageRests, NEW c \in fnCalls, c.step = "sent", createCustomFunction(c)
  PROVE  FnInv'
  <1>1. c.kind = "register" /\ c.item \in Items /\ FnReply(c, "ok", 0)
    BY DEF createCustomFunction, FnInv, FnBase, LoadsAreOfThePage
  <1>2. PICK e : Replied(c, e, "ok", 0)
    BY <1>1, ReplyTyped DEF FnInv, FnBase
  <1>3. /\ fnDb' \in [rows : SUBSET Rows, next : Nat \ {0}, functions : SUBSET Items]
        /\ fnDb'.rows = fnDb.rows /\ fnDb'.next = fnDb.next
    BY <1>1 DEF createCustomFunction, FnInv, FnBase, FnTypeOK
  <1> QED
    BY <1>1, <1>2, <1>3, RowsStand

LEMMA FnServesKeeps ==
  ASSUME FnInv, NEW c \in fnCalls, FnServes(c)
  PROVE  FnInv'
  <1>1. PageRests /\ c.step = "sent"
    BY DEF FnServes, PageRests
  <1> QED
    BY <1>1, CreateServed, UpdateServed, DeleteServed, RefusalKeeps, RegisterServed DEF FnServes

\* An answer read by the page ends its request.
Ended(c) == fnCalls' = fnCalls \ {c} /\ UNCHANGED <<fnDb, fnCount>>

\* The numbers of a set that is bounded and not empty have a greatest.
LEMMA BoundedHasGreatest ==
  ASSUME NEW S \in SUBSET Nat, S /= {}, NEW n \in Nat, \A s \in S : s <= n
  PROVE  \E m \in S : \A s \in S : s <= m
  <1> DEFINE T == {n - s : s \in S}
  <1>1. T \subseteq Nat /\ T /= {}
    <2>1. \A s \in S : n - s \in Nat
      OBVIOUS
    <2> QED
      BY <2>1
  <1>2. \A s \in S : n - s \in T
    OBVIOUS
  <1>3. PICK t \in T : \A u \in T : <<u, t>> \notin OpToRel(<, Nat)
    <2> HIDE DEF T
    <2> QED
      BY <1>1, NatLessThanWellFounded, WFMin, Zenon
  <1>4. PICK m \in S : t = n - m
    BY <1>3
  <1> HIDE DEF T
  <1>5. \A u \in T : ~(u < t)
    BY <1>1, <1>3, Zenon DEF OpToRel
  <1> QED
    BY <1>2, <1>4, <1>5

\* The report shown of a function after a load is a row of it, when there is one.
LEMMA ReportOfTheRow ==
  ASSUME FnTypeOK, RowsAreNumbered, NEW i \in Items
  PROVE  /\ ReportOf(i) \in Reports
         /\ \/ ReportOf(i) = NoReport /\ \A r \in fnDb.rows : r.item /= i
            \/ \E r \in fnDb.rows : /\ r.item = i /\ r.id = ReportOf(i).id
                                    /\ r.at = ReportOf(i).at
                                    /\ ReportOf(i).over => r.over
  <1> DEFINE rows == {r \in fnDb.rows : r.item = i}
             last == CHOOSE r \in rows : \A o \in rows : o.id <= r.id
  <1>1. CASE rows = {}
    <2>1. ReportOf(i) = NoReport
      BY <1>1 DEF ReportOf
    <2>2. \A r \in fnDb.rows : r.item /= i
      BY <1>1
    <2> QED
      BY <2>1, <2>2, NoReportIsNone
  <1>2. CASE rows /= {}
    <2>1. ReportOf(i) = [id |-> last.id, at |-> last.at, over |-> last.over]
      BY <1>2 DEF ReportOf
    <2>2. rows \subseteq Rows /\ rows \subseteq fnDb.rows /\ \A r \in rows : r.item = i
      BY DEF FnTypeOK
    <2>3. fnDb.next \in Nat /\ \A r \in rows : r.id < fnDb.next
      BY DEF FnTypeOK, RowsAreNumbered
    <2> HIDE DEF rows
    <2> DEFINE ids == {r.id : r \in rows}
    <2>4. \A r \in rows : r.id \in Nat /\ r.id <= fnDb.next
      BY <2>2, <2>3 DEF Rows
    <2>5. ids \in SUBSET Nat /\ ids /= {} /\ \A s \in ids : s <= fnDb.next
      BY <1>2, <2>4
    <2>6. (\A r \in rows : r.id \in ids) /\ \A s \in ids : \E r \in rows : r.id = s
      OBVIOUS
    <2> HIDE DEF ids
    <2>7. PICK m \in ids : \A s \in ids : s <= m
      BY <2>3, <2>5, BoundedHasGreatest
    <2>8. \E r \in rows : \A o \in rows : o.id <= r.id
      BY <2>6, <2>7
    <2>9. last \in rows
      BY <2>8
    <2> HIDE DEF last
    <2>10. last.id \in Nat /\ last.at \in Nat /\ last.over \in BOOLEAN
      BY <2>2, <2>9 DEF Rows
    <2> QED
      BY <2>1, <2>2, <2>9, <2>10 DEF Reports
  <1> QED
    BY <1>1, <1>2

LEMMA LoadAnswerKeeps ==
  ASSUME FnInv, NEW c \in fnCalls, Ended(c), LoadAnswer(c)
  PROVE  FnInv'
  <1>1. /\ c.kind = "load" /\ UNCHANGED <<fnDialog, fnSubmitting, fnExcused>>
        /\ fnPage' = [loading |-> FALSE, known |-> TRUE, listed |-> fnDb.functions,
                      reports |-> [i \in Items |-> ReportOf(i)]]
    BY DEF LoadAnswer
  <1>2. \A i \in Items : ReportOf(i) \in Reports
    BY ReportOfTheRow DEF FnInv, FnBase
  <1>3. FnTypeOK'
    BY <1>1, <1>2 DEF Ended, FnInv, FnBase, FnTypeOK, FnPages
  <1>4. Usable' /\ ~Usable
    BY <1>1 DEF Usable, FnInv, FnBase, LoadsAreOfThePage
  <1>5. RowsAreNumbered' /\ LoadsAreOfThePage'
    BY <1>1, <1>4 DEF Ended, FnInv, FnBase, RowsAreNumbered, LoadsAreOfThePage
  <1>6. ASSUME ~fnExcused' PROVE Followed'
    <2>1. Followed /\ \A d \in fnCalls : d.kind = "load"
      BY <1>1, <1>4, <1>6 DEF FnInv, Followed, OneSubmits
    <2>2. fnCalls' = {}
      BY <1>1, <2>1 DEF Ended, FnInv, FnBase, LoadsAreOfThePage
    <2>3. ~Doubled'
      BY <2>1 DEF Ended, Followed, Doubled
    <2>4. \A i \in Items : Agree(i)'
      <3> SUFFICES ASSUME NEW i \in Items PROVE Agree(i)'
        OBVIOUS
      <3>1. fnPage'.reports[i] = ReportOf(i) /\ fnDb' = fnDb
        BY <1>1 DEF Ended
      <3>2. \/ ReportOf(i) = NoReport /\ \A r \in fnDb.rows : r.item /= i
            \/ \E r \in fnDb.rows : /\ r.item = i /\ r.id = ReportOf(i).id
                                    /\ r.at = ReportOf(i).at
                                    /\ ReportOf(i).over => r.over
        BY ReportOfTheRow DEF FnInv, FnBase
      <3>3. \A r \in fnDb.rows : r.id /= NoReport.id
        BY NoReportIsNone DEF FnInv, FnBase, FnTypeOK, Rows
      <3> QED
        BY <3>1, <3>2, <3>3 DEF Agree
    <2> QED
      BY <2>2, <2>3, <2>4 DEF Followed, OneSubmits, RequestsAreOfReports, AppliedIsInTheRow,
         RestAgrees
  <1> QED
    BY <1>3, <1>5, <1>6 DEF FnInv, FnBase

\* An answer that applied nothing ends its request, and no report changes.
LEMMA QuietEndKeeps ==
  ASSUME FnInv, NEW c \in fnCalls, Ended(c), ~Applied(c),
         fnPage' \in FnPages, fnPage'.reports = fnPage.reports, Usable' <=> Usable,
         fnPage'.loading = fnPage.loading \/ (c.kind = "load" /\ ~fnPage'.loading),
         fnPage'.loading => ~fnPage'.known,
         fnDialog' \in {fnDialog, Closed}, fnSubmitting' \in BOOLEAN,
         fnSubmitting' = fnSubmitting \/ c.kind \in Submits, UNCHANGED fnExcused
  PROVE  FnInv'
  <1>1. FnTypeOK'
    BY DEF Ended, FnInv, FnBase, FnTypeOK
  <1>2. RowsAreNumbered' /\ LoadsAreOfThePage'
    BY DEF Ended, FnInv, FnBase, RowsAreNumbered, LoadsAreOfThePage
  <1>3. ASSUME ~fnExcused' PROVE Followed'
    <2>1. Followed
      BY <1>3 DEF FnInv
    <2>2. ~Doubled' /\ OneSubmits'
      BY <2>1 DEF Ended, Followed, Doubled, OneSubmits
    <2>3. RequestsAreOfReports' /\ AppliedIsInTheRow'
      BY <2>1 DEF Ended, Followed, RequestsAreOfReports, AppliedIsInTheRow, Applied
    <2>4. \A i : Agree(i)' <=> Agree(i)
      BY DEF Agree, Ended
    <2>5. RestAgrees'
      BY <2>1, <2>4 DEF Ended, Followed, RestAgrees, Applied
    <2> QED
      BY <2>2, <2>3, <2>5 DEF Followed
  <1> QED
    BY <1>1, <1>2, <1>3 DEF FnInv, FnBase

\* A loss, or an answer to a page left: only what holds of every state is kept.
LEMMA LostKeeps ==
  ASSUME FnInv, NEW c \in fnCalls, Ended(c), fnExcused',
         fnExcused' \in BOOLEAN, fnSubmitting' \in BOOLEAN, UNCHANGED <<fnPage, fnDialog>>
  PROVE  FnInv'
  <1>1. FnTypeOK'
    BY DEF Ended, FnInv, FnBase, FnTypeOK
  <1>2. RowsAreNumbered' /\ LoadsAreOfThePage'
    BY DEF Ended, FnInv, FnBase, RowsAreNumbered, LoadsAreOfThePage, Usable
  <1> QED
    BY <1>1, <1>2 DEF FnInv, FnBase

LEMMA LoadFailedKeeps ==
  ASSUME FnInv, NEW c \in fnCalls, Ended(c), LoadFailed(c)
  PROVE  FnInv'
  <1>1. /\ c.kind = "load" /\ fnPage' = [fnPage EXCEPT !.loading = FALSE]
        /\ UNCHANGED <<fnDialog, fnSubmitting, fnExcused>>
    BY DEF LoadFailed
  <1>2. /\ fnPage' \in FnPages /\ fnPage'.reports = fnPage.reports /\ ~fnPage'.loading
        /\ fnPage'.known = fnPage.known
    BY <1>1 DEF FnInv, FnBase, FnTypeOK, FnPages
  <1>3. Usable' <=> Usable
    BY <1>1, <1>2 DEF Usable, FnInv, FnBase, LoadsAreOfThePage
  <1>4. ~Applied(c) /\ fnSubmitting \in BOOLEAN
    BY <1>1 DEF Applied, FnInv, FnBase, FnTypeOK
  <1> QED
    BY <1>1, <1>2, <1>3, <1>4, QuietEndKeeps

LEMMA RegisterAnswerKeeps ==
  ASSUME FnInv, NEW c \in fnCalls, Ended(c), RegisterAnswer(c)
  PROVE  FnInv'
  <1>1. /\ c.kind = "register" /\ c.item \in Items
        /\ fnPage' = [fnPage EXCEPT !.listed = @ \cup {c.item}]
        /\ fnDialog' \in {fnDialog, Closed} /\ fnSubmitting' = FALSE /\ UNCHANGED fnExcused
    BY DEF RegisterAnswer, FnInv, FnBase, LoadsAreOfThePage
  <1>2. /\ fnPage' \in FnPages /\ fnPage'.reports = fnPage.reports
        /\ fnPage'.loading = fnPage.loading /\ fnPage'.known = fnPage.known
    BY <1>1 DEF FnInv, FnBase, FnTypeOK, FnPages
  <1>3. (Usable' <=> Usable) /\ ~Applied(c) /\ c.kind \in Submits
    BY <1>1, <1>2 DEF Usable, Applied, Submits
  <1>4. fnPage'.loading => ~fnPage'.known
    BY <1>2 DEF FnInv, FnBase, LoadsAreOfThePage
  <1> QED
    BY <1>1, <1>2, <1>3, <1>4, QuietEndKeeps

LEMMA FnFailedKeeps ==
  ASSUME FnInv, NEW c \in fnCalls, Ended(c), NEW lost \in BOOLEAN, FnFailed(c, lost)
  PROVE  FnInv'
  <1>1. /\ c.kind /= "load" /\ (c.step = "failed" \/ lost)
        /\ fnSubmitting' = (fnSubmitting /\ c.kind = "delete")
        /\ fnExcused' = (fnExcused \/ lost) /\ UNCHANGED <<fnPage, fnDialog>>
    BY DEF FnFailed
  <1>2. CASE lost
    BY <1>1, <1>2, LostKeeps
  <1>3. CASE ~lost
    <2>1. ~Applied(c) /\ fnExcused' = fnExcused /\ c.kind \in FnKinds
      BY <1>1, <1>3 DEF Applied, FnInv, FnBase, FnTypeOK, FnCalls
    <2>2. fnSubmitting' \in BOOLEAN /\ (fnSubmitting' = fnSubmitting \/ c.kind \in Submits)
      <3>1. fnSubmitting \in BOOLEAN /\ (c.kind = "delete" \/ c.kind \in Submits)
        BY <1>1, <2>1 DEF FnKinds, Submits, FnInv, FnBase, FnTypeOK
      <3>2. CASE c.kind = "delete"
        BY <1>1, <3>1, <3>2
      <3>3. CASE c.kind /= "delete"
        <4>1. fnSubmitting' = FALSE
          BY <1>1, <3>3
        <4> QED
          BY <3>1, <3>3, <4>1
      <3> QED
        BY <3>2, <3>3
    <2>3. fnPage' \in FnPages /\ (Usable' <=> Usable) /\ (fnPage'.loading => ~fnPage'.known)
      BY <1>1 DEF Usable, FnInv, FnBase, FnTypeOK, LoadsAreOfThePage
    <2> QED
      BY <1>1, <2>1, <2>2, <2>3, QuietEndKeeps
  <1> QED
    BY <1>2, <1>3

\* What the page left behind belongs to no page that follows.
LEMMA UnheardKeeps ==
  ASSUME FnInv, NEW c \in fnCalls, Ended(c), c.mount < fnCount.mounts, FnUnheard(c)
  PROVE  FnInv'
  <1>1. UNCHANGED <<fnPage, fnDialog, fnSubmitting, fnExcused>>
    BY DEF FnUnheard
  <1>2. fnExcused
    BY DEF FnInv, FnBase, FnTypeOK, Followed, OneSubmits
  <1> QED
    BY <1>1, <1>2, LostKeeps DEF FnInv, FnBase, FnTypeOK

LEMMA ReportAnswerKeeps ==
  ASSUME FnInv, NEW c \in fnCalls, Ended(c), ReportAnswer(c)
  PROVE  FnInv'
  <1>1. /\ c.kind \in {"create", "update"} /\ c.step = "ok" /\ c.item \in Items /\ c \in FnCalls
        /\ fnPage' = [fnPage EXCEPT !.reports[c.item] = [id |-> c.id, at |-> c.n,
                                                         over |-> c.over]]
        /\ fnDialog' \in {fnDialog, Closed} /\ fnSubmitting' = FALSE /\ fnExcused' = fnExcused
        /\ fnCalls' = fnCalls \ {c} /\ fnDb' = fnDb /\ fnCount' = fnCount
    BY DEF ReportAnswer, Ended, FnInv, FnBase, FnTypeOK, LoadsAreOfThePage
  <1> DEFINE new == [id |-> c.id, at |-> c.n, over |-> c.over]
  <1>2. new \in Reports /\ new.id = c.id /\ new.at = c.n /\ new.over = c.over
    BY <1>1 DEF Reports, FnCalls
  <1> HIDE DEF new
  <1>3. /\ fnPage' \in FnPages /\ fnPage'.loading = fnPage.loading
        /\ fnPage'.known = fnPage.known /\ fnPage'.reports[c.item] = new
        /\ \A i \in Items \ {c.item} : fnPage'.reports[i] = fnPage.reports[i]
    BY <1>1, <1>2 DEF new, FnInv, FnBase, FnTypeOK, FnPages
  <1>4. FnTypeOK'
    BY <1>1, <1>3 DEF FnInv, FnBase, FnTypeOK
  <1>5. RowsAreNumbered' /\ LoadsAreOfThePage' /\ (Usable' <=> Usable)
    BY <1>1, <1>3 DEF FnInv, FnBase, RowsAreNumbered, LoadsAreOfThePage, Usable
  <1>6. ASSUME ~fnExcused' PROVE Followed'
    <2>1. Followed /\ \A d \in fnCalls' : d.kind \notin Submits
      BY <1>1, <1>6 DEF FnInv, Followed, OneSubmits, Submits
    <2>2. ~Doubled' /\ OneSubmits'
      BY <1>1, <1>5, <2>1 DEF Followed, Doubled, OneSubmits
    <2>3. Applied(c) /\ \A d \in fnCalls' : Applied(d) => d.item /= c.item
      BY <1>1, <2>1 DEF Applied, Followed, AppliedIsInTheRow
    <2>4. RequestsAreOfReports'
      BY <1>1, <1>3, <2>1 DEF Followed, RequestsAreOfReports, Submits
    <2>5. \A d \in fnCalls' : Applied(d) => fnPage'.reports[d.item] = fnPage.reports[d.item]
      BY <1>1, <1>3, <2>3 DEF FnInv, FnBase, LoadsAreOfThePage, Applied
    <2>6. AppliedIsInTheRow'
      BY <1>1, <2>1, <2>5 DEF Followed, AppliedIsInTheRow, Applied
    <2>7. RestAgrees'
      <3> SUFFICES ASSUME NEW i \in Items, Usable
                   PROVE  Agree(i)' \/ \E d \in fnCalls' : Applied(d) /\ d.item = i
        BY <1>5 DEF RestAgrees, Applied
      <3>1. CASE i = c.item
        <4>1. PICK r \in fnDb.rows : r.item = i /\ r.id = c.id /\ r.at = c.n /\ (c.over => r.over)
          BY <1>1, <2>1, <2>3, <3>1 DEF Followed, AppliedIsInTheRow
        <4>2. new /= NoReport
          BY <1>2, <4>1, NoReportIsNone DEF FnInv, FnBase, FnTypeOK, Rows
        <4> QED
          BY <1>1, <1>2, <1>3, <3>1, <4>1, <4>2 DEF Agree
      <3>2. CASE i /= c.item /\ Agree(i)
        BY <1>1, <1>3, <3>2 DEF Agree
      <3>3. CASE i /= c.item /\ \E d \in fnCalls : Applied(d) /\ d.item = i
        BY <1>1, <3>3
      <3> QED
        BY <2>1, <3>1, <3>2, <3>3 DEF Followed, RestAgrees
    <2> QED
      BY <2>2, <2>4, <2>6, <2>7 DEF Followed
  <1> QED
    BY <1>4, <1>5, <1>6 DEF FnInv, FnBase

LEMMA RemoveAnswerKeeps ==
  ASSUME FnInv, NEW c \in fnCalls, Ended(c), RemoveAnswer(c)
  PROVE  FnInv'
  <1>1. /\ c.kind = "delete" /\ c.step = "ok" /\ c.item \in Items
        /\ fnPage' = [fnPage EXCEPT !.reports[c.item] = NoReport]
        /\ UNCHANGED <<fnDialog, fnSubmitting, fnExcused>>
        /\ fnCalls' = fnCalls \ {c} /\ fnDb' = fnDb /\ fnCount' = fnCount
    BY DEF RemoveAnswer, Ended, FnInv, FnBase, LoadsAreOfThePage
  <1>2. /\ fnPage' \in FnPages /\ fnPage'.loading = fnPage.loading
        /\ fnPage'.known = fnPage.known /\ fnPage'.reports[c.item] = NoReport
        /\ \A i \in Items \ {c.item} : fnPage'.reports[i] = fnPage.reports[i]
    BY <1>1, NoReportIsNone DEF FnInv, FnBase, FnTypeOK, FnPages
  <1>3. FnTypeOK'
    BY <1>1, <1>2 DEF FnInv, FnBase, FnTypeOK
  <1>4. RowsAreNumbered' /\ LoadsAreOfThePage' /\ (Usable' <=> Usable)
    BY <1>1, <1>2 DEF FnInv, FnBase, RowsAreNumbered, LoadsAreOfThePage, Usable
  <1>5. ASSUME ~fnExcused' PROVE Followed'
    <2>1. Followed
      BY <1>1, <1>5 DEF FnInv
    <2>2. ~Doubled' /\ OneSubmits'
      BY <1>1, <1>4, <2>1 DEF Followed, Doubled, OneSubmits
    <2>3. Applied(c) /\ \A d \in fnCalls' : Applied(d) => d.item /= c.item
      BY <1>1, <2>1 DEF Applied, Followed, AppliedIsInTheRow
    <2>4. /\ \A r \in fnDb.rows : r.item /= c.item
          /\ fnPage.reports[c.item].id = c.id
      BY <1>1, <2>1, <2>3 DEF Followed, AppliedIsInTheRow
    <2>5. \A d \in fnCalls' : d.kind = "update" => d.item /= c.item
      BY <1>1, <2>1, <2>4 DEF Followed, RequestsAreOfReports
    <2>6. \A d \in fnCalls' : d.kind /= "load" => d.item \in Items
      BY <1>1 DEF FnInv, FnBase, LoadsAreOfThePage
    <2>7. RequestsAreOfReports'
      <3>1. \A d \in fnCalls' :
              /\ d.kind = "create" => fnPage'.reports[d.item] = NoReport
              /\ d.kind = "update" => /\ fnPage'.reports[d.item] /= NoReport
                                      /\ fnPage'.reports[d.item].id = d.id
        BY <1>1, <1>2, <2>1, <2>5, <2>6 DEF Followed, RequestsAreOfReports
      <3> QED
        BY <1>1, <2>1, <3>1 DEF Followed, RequestsAreOfReports, Applied
    <2>8. \A d \in fnCalls' : Applied(d) => fnPage'.reports[d.item] = fnPage.reports[d.item]
      BY <1>1, <1>2, <2>3, <2>6 DEF Applied
    <2>9. AppliedIsInTheRow'
      BY <1>1, <2>1, <2>8 DEF Followed, AppliedIsInTheRow, Applied
    <2>10. RestAgrees'
      <3> SUFFICES ASSUME NEW i \in Items, Usable
                   PROVE  Agree(i)' \/ \E d \in fnCalls' : Applied(d) /\ d.item = i
        BY <1>4 DEF RestAgrees, Applied
      <3>1. CASE i = c.item
        BY <1>1, <1>2, <2>4, <3>1 DEF Agree
      <3>2. CASE i /= c.item /\ Agree(i)
        BY <1>1, <1>2, <3>2 DEF Agree
      <3>3. CASE i /= c.item /\ \E d \in fnCalls : Applied(d) /\ d.item = i
        BY <1>1, <3>3
      <3> QED
        BY <2>1, <3>1, <3>2, <3>3 DEF Followed, RestAgrees
    <2> QED
      BY <2>2, <2>7, <2>9, <2>10 DEF Followed
  <1> QED
    BY <1>3, <1>4, <1>5 DEF FnInv, FnBase

LEMMA FnAnsweredKeeps ==
  ASSUME FnInv, NEW c \in fnCalls, FnAnswered(c)
  PROVE  FnInv'
  <1>1. Ended(c)
    BY DEF FnAnswered, Ended
  <1>2. CASE c.mount < fnCount.mounts
    BY <1>1, <1>2, UnheardKeeps DEF FnAnswered
  <1>3. CASE ~(c.mount < fnCount.mounts)
    BY <1>1, <1>3, LoadAnswerKeeps, LoadFailedKeeps, ReportAnswerKeeps, RemoveAnswerKeeps,
       RegisterAnswerKeeps, FnFailedKeeps DEF FnAnswered
  <1> QED
    BY <1>2, <1>3

LEMMA FnKept == FnInv /\ [FnNext]_fnVars => FnInv'
  <1> SUFFICES ASSUME FnInv, [FnNext]_fnVars PROVE FnInv'
    OBVIOUS
  <1>1. CASE UNCHANGED fnVars
    BY <1>1, DialogTurns DEF fnVars, FnInv, FnBase, FnTypeOK, LoadsAreOfThePage
  <1>2. ASSUME NEW item \in Items, openReport(item) PROVE FnInv'
    BY <1>2, DialogTurns DEF openReport
  <1>3. CASE openCreate
    BY <1>3, DialogTurns DEF openCreate
  <1>4. CASE onClose
    BY <1>4, DialogTurns DEF onClose
  <1>5. CASE FnUser
    BY <1>2, <1>3, <1>4, <1>5, SubmitKeeps, RemoveKeeps, RegisterKeeps, MountKeeps DEF FnUser
  <1> QED
    BY <1>1, <1>5, FnServesKeeps, FnAnsweredKeeps DEF FnNext, FnAnswers

LEMMA FnStarts == FnInit => FnInv
  <1> SUFFICES ASSUME FnInit PROVE FnInv
    OBVIOUS
  <1> DEFINE row == [id |-> 1, item |-> "official", at |-> 0, over |-> TRUE]
             read == [n |-> 0, kind |-> "load", item |-> NoItem, id |-> 0, over |-> FALSE,
                      step |-> "sent", mount |-> 0]
  <1>1. PICK rows \in SUBSET {row} : fnDb = [rows |-> rows, next |-> 2, functions |-> {"official"}]
    BY DEF FnInit
  <1>2. row \in Rows /\ row.id = 1
    BY DEF Rows, Items
  <1>3. read \in FnCalls /\ read.kind = "load" /\ read.step = "sent" /\ read.mount = 0
    BY DEF FnCalls, FnKinds
  <1>4. Loading \in FnPages /\ Loading.loading /\ ~Loading.known
    BY NoReportIsNone DEF Loading, FnPages
  <1>5. /\ fnPage = Loading /\ fnDialog = Closed /\ fnSubmitting = FALSE /\ fnExcused = FALSE
        /\ fnCount = [writes |-> 0, mounts |-> 0] /\ fnCalls = {read}
    BY DEF FnInit
  <1> HIDE DEF row, read
  <1>6. fnDb.rows = rows /\ fnDb.next = 2 /\ fnDb.functions = {"official"}
    BY <1>1
  <1>7. FnTypeOK
    <2>1. fnDb \in [rows : SUBSET Rows, next : Nat \ {0}, functions : SUBSET Items]
      BY <1>1, <1>2 DEF Items
    <2> QED
      BY <1>3, <1>4, <1>5, <2>1 DEF FnTypeOK
  <1>8. RowsAreNumbered /\ LoadsAreOfThePage
    BY <1>1, <1>2, <1>3, <1>4, <1>5, <1>6 DEF RowsAreNumbered, LoadsAreOfThePage
  <1>9. ~Usable /\ ~Doubled
    BY <1>1, <1>4, <1>5, <1>6 DEF Usable, Doubled
  <1>10. Followed
    BY <1>3, <1>5, <1>9 DEF Followed, OneSubmits, RequestsAreOfReports, AppliedIsInTheRow,
       RestAgrees, Submits, Applied
  <1> QED
    BY <1>7, <1>8, <1>10 DEF FnInv, FnBase

\* With nothing on its way each row is the one of one function with a report.
LEMMA ReportsMatchRows == FnInv => ReportsAreTheServers
  <1> SUFFICES ASSUME FnInv, Usable, fnCalls = {}, ~fnExcused PROVE ReportsAreTheServers
    BY DEF ReportsAreTheServers
  <1> DEFINE shown == {i \in Items : fnPage.reports[i] /= NoReport}
             f == [r \in fnDb.rows |-> r.item]
  <1>1. \A i \in Items : Agree(i)
    BY DEF FnInv, Followed, RestAgrees
  <1>2. \A i \in shown : \E r \in fnDb.rows : /\ r.item = i /\ r.id = fnPage.reports[i].id
                                              /\ r.at = fnPage.reports[i].at
                                              /\ fnPage.reports[i].over => r.over
    BY <1>1 DEF Agree
  <1>3. \A r \in fnDb.rows : r.item \in shown
    BY <1>1 DEF Agree, FnInv, FnBase, FnTypeOK, Rows
  <1>4. \A r, q \in fnDb.rows : r.item = q.item => r = q
    BY DEF FnInv, Followed, Doubled
  <1>5. IsFiniteSet(shown)
    <2>1. IsFiniteSet({"official"}) /\ Items = {"official"} \cup {"custom"}
      BY FS_Singleton DEF Items
    <2>2. IsFiniteSet(Items)
      BY <2>1, FS_AddElement
    <2> QED
      BY <2>2, FS_Subset
  <1> HIDE DEF shown
  <1>6. f \in [fnDb.rows -> shown]
    BY <1>3
  <1>7. \A r \in fnDb.rows : f[r] = r.item
    OBVIOUS
  <1> HIDE DEF f
  <1>8. f \in Injection(fnDb.rows, shown)
    BY <1>4, <1>6, <1>7 DEF Injection, IsInjective
  <1>9. f \in Surjection(fnDb.rows, shown)
    BY <1>2, <1>6, <1>7 DEF Surjection
  <1>10. Cardinality(fnDb.rows) = Cardinality(shown)
    BY <1>5, <1>8, <1>9, FS_Injection
  <1> QED
    BY <1>2, <1>10 DEF ReportsAreTheServers, shown

-----------------------------------------------------------------------------
(***************************************************************************)
(* Theorems.                                                               *)
(***************************************************************************)
LEMMA ReviewInvHolds == PagesSpec => []ReviewInv
  <1>1. PagesInit => ReviewInv
    BY ReviewStarts DEF PagesInit
  <1>2. [PagesNext]_pageVars => [ReviewNext]_reviewVars
    BY DEF PagesNext, pageVars, Review, Logs, Wizard, Functions, Session
  <1>3. ReviewInv /\ [PagesNext]_pageVars => ReviewInv'
    BY <1>2, ReviewKept
  <1> QED
    BY <1>1, <1>3, PTL DEF PagesSpec

LEMMA LogInvHolds == PagesSpec => []LogInv
  <1>1. PagesInit => LogInv
    BY LogStarts DEF PagesInit
  <1>2. [PagesNext]_pageVars => [LogNext]_logVars
    BY DEF PagesNext, pageVars, Review, Logs, Wizard, Functions, Session
  <1>3. LogInv /\ [PagesNext]_pageVars => LogInv'
    BY <1>2, LogKept
  <1> QED
    BY <1>1, <1>3, PTL DEF PagesSpec

\* The status chosen in a dialog that was opened while nothing was awaited is sent for
\* the declaration the dialog was opened on (DeclarationsPage, the details dialog).
THEOREM ChangesGoToTheReviewed == PagesSpec => []ReviewedIsWhatIsChanged
  <1>1. ReviewInv => ReviewedIsWhatIsChanged
    BY DEF ReviewInv, ChangesAreMeant, ReviewedIsWhatIsChanged
  <1> QED
    BY <1>1, ReviewInvHolds, PTL

\* The server refuses a change that the dialog offered only when the row is not in the
\* status the dialog showed: the table of declarationConstants.ts is within the service's.
THEOREM OffersAreTaken == PagesSpec => RefusedOnlyWhenOutdated
  <1>1. [PagesNext]_pageVars => [ReviewNext]_reviewVars
    BY DEF PagesNext, pageVars, Review, Logs, Wizard, Functions, Session
  <1>2. ReviewInv /\ [PagesNext]_pageVars =>
          [\A c \in rChange' \ rChange :
             c.step = "refused" /\ c.offered => rDb[c.doc] /= c.shown]_reviewVars
    BY <1>1, RefusedIsOutdated
  <1> QED
    BY <1>2, ReviewInvHolds, PTL DEF PagesSpec, RefusedOnlyWhenOutdated

\* The rest times and licenses on screen, once nothing is awaited, are those of the
\* declaration in the dialog (DeclarationsDetailsModal, the effect on its id).
THEOREM DetailsFollowTheChoice == PagesSpec => []ExtrasBelongToTheShown
  <1>1. ReviewInv => ExtrasBelongToTheShown
    <2> SUFFICES ASSUME ReviewInv, rModal.open, rExtra.awaited = NoDoc
                 PROVE  rExtra.shown \in {NoDoc, rModal.local[1]}
      BY DEF ExtrasBelongToTheShown
    <2>1. rModal.local[1] \in Docs
      BY DEF ReviewInv, DialogsNest, Shown
    <2> QED
      BY <2>1, NoDocIsNone DEF ReviewInv, ExtrasFollow
  <1> QED
    BY <1>1, ReviewInvHolds, PTL

\* The activity page skips no entry between those it shows, however many are written
\* while it asks for one page after another (logService.listRecent).
THEOREM SamplesAreWhole == PagesSpec => []SampleHasNoGaps
  <1> QED
    BY RowsHaveNoGaps, LogInvHolds, PTL

LEMMA WizardInvHolds == PagesSpec => []WizardInv
  <1>1. PagesInit => WizardInv
    BY WizardStarts DEF PagesInit
  <1>2. [PagesNext]_pageVars => [WizardNext]_wizardVars
    BY DEF PagesNext, pageVars, Review, Logs, Wizard, Functions, Session
  <1>3. WizardInv /\ [PagesNext]_pageVars => WizardInv'
    BY <1>2, WizardKept
  <1> QED
    BY <1>1, <1>3, PTL DEF PagesSpec

\* A declaration whose button was pressed in order, and whose entries exceed the shift,
\* is completed only after its justification was written (AdditionalInformationPage).
THEOREM NoShiftExceededUnjustified == PagesSpec => []CompletedMeansJustified
  <1>1. WizardInv => CompletedMeansJustified
    BY DEF WizardInv
  <1> QED
    BY <1>1, WizardInvHolds, PTL

LEMMA FnInvHolds == PagesSpec => []FnInv
  <1>1. PagesInit => FnInv
    BY FnStarts DEF PagesInit
  <1>2. [PagesNext]_pageVars => [FnNext]_fnVars
    BY DEF PagesNext, pageVars, Review, Logs, Wizard, Functions, Session
  <1>3. FnInv /\ [PagesNext]_pageVars => FnInv'
    BY <1>2, FnKept
  <1> QED
    BY <1>1, <1>3, PTL DEF PagesSpec

\* With nothing on its way the reports that the functions page shows are the rows of the
\* declaration, one for one and as last written (DeclarationFunctions).
THEOREM ReportsFollowTheRows == PagesSpec => []ReportsAreTheServers
  <1> QED
    BY ReportsMatchRows, FnInvHolds, PTL

-----------------------------------------------------------------------------
(***************************************************************************)
(* The hours of a declaration.                                             *)
(***************************************************************************)
\* The sums are a function that satisfies their equation, if there is one.
LEMMA SumsDef ==
    ASSUME NEW numbers \in Seq(Nat)
    PROVE  PartialSums(numbers) =
             CHOOSE s : s = [i \in 0 .. Len(numbers) |->
                               IF i = 0 THEN 0 ELSE s[i - 1] + numbers[i]]
  BY Zenon DEF PartialSums

\* A set of natural numbers that has one has a least one.
LEMMA LeastNumber ==
    ASSUME NEW T \in SUBSET Nat, T /= {}
    PROVE  \E t \in T : \A u \in T : t <= u
  <1>1. \E t \in T : \A u \in T : ~(u < t)
    <2>1. PICK t \in T : \A u \in T : <<u, t>> \notin OpToRel(<, Nat)
      BY NatLessThanWellFounded, WFMin, Zenon
    <2>2. \A u \in T : ~(u < t)
      BY <2>1, Zenon DEF OpToRel
    <2> QED
      BY <2>2
  <1> QED
    BY <1>1

\* There is one: partial sums of each length exist, since none is the least that does not.
LEMMA SumsAre ==
    ASSUME NEW numbers \in Seq(Nat)
    PROVE  /\ PartialSums(numbers) \in [0 .. Len(numbers) -> Nat]
           /\ PartialSums(numbers)[0] = 0
           /\ \A i \in 1 .. Len(numbers) : PartialSums(numbers)[i] = PartialSums(numbers)[i - 1] + numbers[i]
  <1> DEFINE N == Len(numbers)
             Adds(s, k) == /\ s \in [0 .. k -> Nat]
                           /\ s[0] = 0
                           /\ \A i \in 1 .. k : s[i] = s[i - 1] + numbers[i]
             Lacking == {k \in 0 .. N : ~ \E s : Adds(s, k)}
  <1>0. N \in Nat /\ \A i \in 1 .. N : numbers[i] \in Nat
    OBVIOUS
  <1> HIDE DEF N
  <1>1. Lacking = {}
    <2> SUFFICES ASSUME Lacking /= {} PROVE FALSE
      OBVIOUS
    <2>1. Lacking \in SUBSET Nat
      BY <1>0
    <2>2. PICK k \in Lacking : \A j \in Lacking : k <= j
      BY <2>1, LeastNumber
    <2>3. CASE k = 0
      <3>1. Adds([i \in 0 .. 0 |-> 0], 0)
        OBVIOUS
      <3> QED
        BY <2>3, <3>1
    <2>4. CASE k > 0
      <3>0. k \in 0 .. N
        OBVIOUS
      <3>1. k - 1 \in 0 .. N /\ k - 1 \notin Lacking
        <4> HIDE DEF Lacking
        <4> QED
          BY <1>0, <2>2, <2>4, <3>0
      <3>2. PICK s : Adds(s, k - 1)
        BY <3>1
      <3> DEFINE t == [i \in 0 .. k |-> IF i = k THEN s[k - 1] + numbers[k] ELSE s[i]]
      <3>3. k \in 1 .. N
        BY <1>0, <2>4
      <3>4. t \in [0 .. k -> Nat]
        <4>1. s[k - 1] + numbers[k] \in Nat
          BY <1>0, <3>2, <3>3
        <4>2. \A i \in 0 .. k : i /= k => s[i] \in Nat
          BY <1>0, <3>2, <3>3
        <4> QED
          BY <4>1, <4>2
      <3>5. t[0] = 0
        BY <3>2, <3>3
      <3>6. \A i \in 1 .. k : t[i] = t[i - 1] + numbers[i]
        BY <1>0, <3>2, <3>3
      <3> QED
        BY <3>4, <3>5, <3>6
    <2> QED
      BY <1>0, <2>2, <2>3, <2>4
  <1>2. PICK s : Adds(s, N)
    <2> HIDE DEF Adds
    <2>1. N \in 0 .. N /\ N \notin Lacking
      <3> HIDE DEF Lacking
      <3> QED
        BY <1>0, <1>1
    <2> QED
      BY <2>1, Zenon
  <1>3. s = [i \in 0 .. N |-> IF i = 0 THEN 0 ELSE s[i - 1] + numbers[i]]
    BY <1>0, <1>2
  <1> DEFINE S == PartialSums(numbers)
  <1>4. S = [i \in 0 .. N |-> IF i = 0 THEN 0 ELSE S[i - 1] + numbers[i]]
    BY <1>3, SumsDef, Zenon DEF N
  <1> HIDE DEF S
  <1> DEFINE Wrong == {i \in 0 .. N : S[i] \notin Nat}
  <1>5. Wrong = {}
    <2> SUFFICES ASSUME Wrong /= {} PROVE FALSE
      OBVIOUS
    <2>1. Wrong \in SUBSET Nat
      BY <1>0
    <2>2. PICK k \in Wrong : \A j \in Wrong : k <= j
      BY <2>1, LeastNumber
    <2>3. S[0] = 0
      BY <1>0, <1>4
    <2>4. k > 0 /\ k \in 1 .. N
      BY <1>0, <2>2, <2>3
    <2>5. k - 1 \notin Wrong /\ k - 1 \in 0 .. N
      BY <1>0, <2>2, <2>4
    <2>6. S[k] = S[k - 1] + numbers[k]
      <3>1. \A i \in 0 .. N : S[i] = IF i = 0 THEN 0 ELSE S[i - 1] + numbers[i]
        BY <1>4
      <3> QED
        BY <1>0, <2>4, <3>1
    <2> QED
      BY <1>0, <2>2, <2>4, <2>5, <2>6
  <1>6. S \in [0 .. N -> Nat]
    BY <1>4, <1>5
  <1>7. S[0] = 0
    BY <1>0, <1>4
  <1>8. \A i \in 1 .. N : S[i] = S[i - 1] + numbers[i]
    BY <1>0, <1>4
  <1> QED
    BY <1>6, <1>7, <1>8 DEF S, N

\* Numbers that are the same or a gap apart stay so when others like them are added.
LEMMA GapsAddUp ==
    ASSUME NEW gap \in Nat \ {0}, NEW a \in Nat, NEW b \in Nat, NEW c \in Nat, NEW d \in Nat,
           a = b \/ a + gap <= b, c = d \/ c + gap <= d
    PROVE  /\ a + c = b + d \/ (a + c) + gap <= b + d
           /\ a + c = b + d <=> a = b /\ c = d
  OBVIOUS

\* Of two sequences of which one is nowhere the greater and, where it is the lesser, by
\* a gap at least, so are the sums, and they are equal only if the sequences are.
LEMMA SumsCompare ==
    ASSUME NEW v \in Seq(Nat), NEW w \in Seq(Nat), Len(v) = Len(w),
           NEW gap \in Nat \ {0},
           \A i \in 1 .. Len(v) : w[i] = v[i] \/ w[i] + gap <= v[i]
    PROVE  /\ SumOf(v) \in Nat /\ SumOf(w) \in Nat
           /\ SumOf(w) = SumOf(v) \/ SumOf(w) + gap <= SumOf(v)
           /\ SumOf(w) = SumOf(v) <=> \A i \in 1 .. Len(v) : w[i] = v[i]
  <1> DEFINE N == Len(v)
             V == PartialSums(v)
             W == PartialSums(w)
             Same(k) == \A i \in 1 .. k : w[i] = v[i]
             Apart(n, m) == n = m \/ n + gap <= m
             Wrong == {k \in 0 .. N : ~(Apart(W[k], V[k]) /\ (W[k] = V[k] <=> Same(k)))}
  <1>1. /\ V \in [0 .. N -> Nat] /\ V[0] = 0
        /\ \A i \in 1 .. N : V[i] = V[i - 1] + v[i]
    BY SumsAre
  <1>2. /\ W \in [0 .. N -> Nat] /\ W[0] = 0
        /\ \A i \in 1 .. N : W[i] = W[i - 1] + w[i]
    BY SumsAre
  <1>3. N \in Nat /\ \A i \in 1 .. N : v[i] \in Nat /\ w[i] \in Nat /\ Apart(w[i], v[i])
    OBVIOUS
  <1>4. SumOf(v) = V[N] /\ SumOf(w) = W[N]
    BY DEF SumOf
  <1> HIDE DEF N, V, W
  <1>5. Wrong = {}
    <2> SUFFICES ASSUME Wrong /= {} PROVE FALSE
      OBVIOUS
    <2>1. Wrong \in SUBSET Nat
      BY <1>3
    <2>2. PICK k \in Wrong : \A j \in Wrong : k <= j
      BY <2>1, LeastNumber
    <2>3. k \in 0 .. N /\ ~(Apart(W[k], V[k]) /\ (W[k] = V[k] <=> Same(k)))
      OBVIOUS
    <2>4. k > 0 /\ k \in 1 .. N
      BY <1>1, <1>2, <1>3, <2>3
    <2>5. k - 1 \in 0 .. N /\ k - 1 \notin Wrong
      <3> HIDE DEF Wrong
      <3> QED
        BY <1>3, <2>2, <2>4
    <2>6. Apart(W[k - 1], V[k - 1]) /\ (W[k - 1] = V[k - 1] <=> Same(k - 1))
      BY <2>5
    <2>7. V[k] = V[k - 1] + v[k] /\ W[k] = W[k - 1] + w[k]
      BY <1>1, <1>2, <2>4
    <2>8. /\ V[k - 1] \in Nat /\ W[k - 1] \in Nat /\ v[k] \in Nat /\ w[k] \in Nat
          /\ Apart(w[k], v[k])
      BY <1>1, <1>2, <1>3, <2>4, <2>5
    <2>9. Same(k) <=> Same(k - 1) /\ w[k] = v[k]
      <3>1. 1 .. k = 1 .. (k - 1) \cup {k}
        BY <1>3, <2>4
      <3> QED
        BY <3>1
    <2> HIDE DEF Same, Wrong
    <2> DEFINE before == W[k - 1]
               above == V[k - 1]
               one == w[k]
               other == v[k]
    <2>a. /\ before + one = above + other \/ (before + one) + gap <= above + other
          /\ before + one = above + other <=> before = above /\ one = other
      <3>1. /\ before \in Nat /\ above \in Nat /\ one \in Nat /\ other \in Nat
            /\ before = above \/ before + gap <= above
            /\ one = other \/ one + gap <= other
        BY <2>6, <2>8
      <3> HIDE DEF before, above, one, other
      <3> QED
        BY <3>1, GapsAddUp
    <2>10. Apart(W[k], V[k])
      BY <2>7, <2>a
    <2>11. W[k] = V[k] <=> W[k - 1] = V[k - 1] /\ w[k] = v[k]
      BY <2>7, <2>a
    <2> QED
      BY <2>3, <2>6, <2>9, <2>10, <2>11
  <1>6. N \in 0 .. N /\ N \notin Wrong
    <2> HIDE DEF Wrong
    <2> QED
      BY <1>3, <1>5
  <1>7. Apart(W[N], V[N]) /\ (W[N] = V[N] <=> Same(N))
    BY <1>6
  <1>8. V[N] \in Nat /\ W[N] \in Nat
    BY <1>1, <1>2, <1>6
  <1> QED
    BY <1>4, <1>7, <1>8 DEF N

\* Math.round leaves a number within half of what it counts by.
LEMMA RoundsToTheNearest ==
    ASSUME NEW weekly \in Nat
    PROVE  /\ Hundredths(weekly) \in Nat
           /\ 312 * Hundredths(weekly) <= 10 * weekly + 156
           /\ 10 * weekly < 312 * Hundredths(weekly) + 156
  <1> DEFINE n == 10 * weekly + 156
  <1>1. n \in Nat
    OBVIOUS
  <1> HIDE DEF n
  <1>2. n \div 312 \in Nat /\ 312 * (n \div 312) <= n /\ n < 312 * (n \div 312) + 312
    BY <1>1
  <1> QED
    BY <1>2 DEF n, Hundredths

AnyReport == [frequency : Frequencies, durationMinutes : Nat]

\* A report weighs the same in both totals unless it is of a rare function, which
\* weighs at least 48 of 1/52 of a minute more in the second.
LEMMA ReportWeighs ==
    ASSUME NEW report \in AnyReport
    PROVE  LET once == report.durationMinutes * multiplier(report.frequency)
           IN  /\ once \in Nat /\ weeklyMinutes(report) \in Nat
               /\ weeklyMinutes(report) = once \/ weeklyMinutes(report) + 48 <= once
               /\ weeklyMinutes(report) = once <=> ~CountsRarely(report)
  <1>1. report.durationMinutes \in Nat /\ report.frequency \in Frequencies
    BY DEF AnyReport
  <1>2. CASE report.frequency = "Diario"
    BY <1>1, <1>2 DEF multiplier, weeklyMinutes, FREQUENCY_PER_WEEK, CountsRarely
  <1>3. CASE report.frequency = "Semanal"
    BY <1>1, <1>3 DEF multiplier, weeklyMinutes, FREQUENCY_PER_WEEK, CountsRarely
  <1>4. CASE report.frequency = "Quincenal"
    BY <1>1, <1>4 DEF multiplier, weeklyMinutes, FREQUENCY_PER_WEEK, CountsRarely
  <1>5. CASE report.frequency = "Mensual"
    BY <1>1, <1>5 DEF multiplier, weeklyMinutes, FREQUENCY_PER_WEEK, CountsRarely
  <1>6. CASE report.frequency = "Trimestral"
    BY <1>1, <1>6 DEF multiplier, weeklyMinutes, FREQUENCY_PER_WEEK, CountsRarely
  <1>7. CASE report.frequency = "Semestral"
    BY <1>1, <1>7 DEF multiplier, weeklyMinutes, FREQUENCY_PER_WEEK, CountsRarely
  <1> QED
    BY <1>1, <1>2, <1>3, <1>4, <1>5, <1>6, <1>7 DEF Frequencies

\* What the functions of a declaration add up to before it is rounded.
Weight(reports) ==
    SumOf([i \in DOMAIN reports |-> reports[i].durationMinutes * multiplier(reports[i].frequency)])

\* Before it is rounded, what the declaration is judged by is what the functions page
\* shows, or at least 48 of 1/52 of a minute more when a rare function counts.
LEMMA WeightsAgree ==
    ASSUME NEW reports \in Seq(AnyReport)
    PROVE  /\ totalSemanalMin(reports) \in Nat /\ Weight(reports) \in Nat
           /\ \/ totalSemanalMin(reports) = Weight(reports)
              \/ totalSemanalMin(reports) + 48 <= Weight(reports)
           /\ totalSemanalMin(reports) = Weight(reports)
                <=> \A i \in DOMAIN reports : ~CountsRarely(reports[i])
  <1> DEFINE once(i) == reports[i].durationMinutes * multiplier(reports[i].frequency)
             v == [i \in DOMAIN reports |-> once(i)]
             w == [i \in DOMAIN reports |-> weeklyMinutes(reports[i])]
  <1>1. DOMAIN reports = 1 .. Len(reports) /\ Len(reports) \in Nat
    OBVIOUS
  <1>2. \A i \in DOMAIN reports :
          /\ once(i) \in Nat /\ weeklyMinutes(reports[i]) \in Nat
          /\ weeklyMinutes(reports[i]) = once(i) \/ weeklyMinutes(reports[i]) + 48 <= once(i)
          /\ weeklyMinutes(reports[i]) = once(i) <=> ~CountsRarely(reports[i])
    <2> SUFFICES ASSUME NEW i \in DOMAIN reports
          PROVE
          /\ once(i) \in Nat /\ weeklyMinutes(reports[i]) \in Nat
          /\ weeklyMinutes(reports[i]) = once(i) \/ weeklyMinutes(reports[i]) + 48 <= once(i)
          /\ weeklyMinutes(reports[i]) = once(i) <=> ~CountsRarely(reports[i])
      OBVIOUS
    <2>1. reports[i] \in AnyReport
      OBVIOUS
    <2> QED
      BY <2>1, ReportWeighs
  <1>3. /\ v \in Seq(Nat) /\ Len(v) = Len(reports)
        /\ w \in Seq(Nat) /\ Len(w) = Len(reports)
    <2> HIDE DEF once
    <2> QED
      BY <1>1, <1>2
  <1>4. Weight(reports) = SumOf(v) /\ totalSemanalMin(reports) = SumOf(w)
    BY DEF Weight, totalSemanalMin
  <1>5. \A i \in 1 .. Len(v) : /\ w[i] = v[i] \/ w[i] + 48 <= v[i]
                               /\ w[i] = v[i] <=> ~CountsRarely(reports[i])
    BY <1>1, <1>2, <1>3
  <1>6. /\ SumOf(v) \in Nat /\ SumOf(w) \in Nat
        /\ SumOf(w) = SumOf(v) \/ SumOf(w) + 48 <= SumOf(v)
        /\ SumOf(w) = SumOf(v) <=> \A i \in 1 .. Len(v) : w[i] = v[i]
    <2> DEFINE gap == 48
    <2>1. gap \in Nat \ {0} /\ \A i \in 1 .. Len(v) : w[i] = v[i] \/ w[i] + gap <= v[i]
      <3>1. \A i \in 1 .. Len(v) : w[i] = v[i] \/ w[i] + 48 <= v[i]
        <4> HIDE DEF v, w
        <4> QED
          BY <1>5
      <3> HIDE DEF v, w
      <3> QED
        BY <3>1
    <2>2. /\ SumOf(v) \in Nat /\ SumOf(w) \in Nat
          /\ SumOf(w) = SumOf(v) \/ SumOf(w) + gap <= SumOf(v)
          /\ SumOf(w) = SumOf(v) <=> \A i \in 1 .. Len(v) : w[i] = v[i]
      <3> HIDE DEF v, w, gap
      <3> QED
        BY <1>3, <2>1, SumsCompare
    <2> QED
      BY <2>2
  <1> HIDE DEF v, w
  <1> QED
    BY <1>1, <1>3, <1>4, <1>5, <1>6

\* However many functions are reported and however long they take, the total shown
\* while they are is the rounded one the declaration is later judged by, to half a
\* hundredth of an hour, exactly when no quarterly or half-yearly function counts.
THEOREM TotalsAgreeUnlessRare ==
    \A reports \in Seq(AnyReport) :
        WithinRounding(312 * calcTotalDeclaredHours(reports), 10 * totalSemanalMin(reports), 1)
          <=> \A i \in DOMAIN reports : ~CountsRarely(reports[i])
  <1> SUFFICES ASSUME NEW reports \in Seq(AnyReport)
        PROVE  WithinRounding(312 * calcTotalDeclaredHours(reports),
                              10 * totalSemanalMin(reports), 1)
                 <=> \A i \in DOMAIN reports : ~CountsRarely(reports[i])
    OBVIOUS
  <1> DEFINE exact == Weight(reports)
             shown == totalSemanalMin(reports)
             rounded == calcTotalDeclaredHours(reports)
             usual == \A i \in DOMAIN reports : ~CountsRarely(reports[i])
  <1>1. /\ shown \in Nat /\ exact \in Nat
        /\ shown = exact \/ shown + 48 <= exact
        /\ shown = exact <=> usual
    BY WeightsAgree
  <1>2. rounded = Hundredths(exact)
    BY DEF calcTotalDeclaredHours, Weight
  <1> HIDE DEF exact, shown, rounded, usual
  <1>3. /\ rounded \in Nat
        /\ 312 * rounded <= 10 * exact + 156 /\ 10 * exact < 312 * rounded + 156
    BY <1>1, <1>2, RoundsToTheNearest
  <1>4. WithinRounding(312 * rounded, 10 * shown, 1) <=> usual
    BY <1>1, <1>3 DEF WithinRounding
  <1> QED
    BY <1>4 DEF shown, rounded, usual

LEMMA SumsAreNatural == ASSUME NEW numbers \in Seq(Nat) PROVE SumOf(numbers) \in Nat
  <1>1. Len(numbers) \in 0 .. Len(numbers)
    OBVIOUS
  <1> QED
    BY <1>1, SumsAre DEF SumOf

\* Any minutes of the day, not only the two the runs take.
TimesOfTheDay == (0..23) \X (0..59)

\* The minutes of a day from s1:s2 to e1:e2.
DayLength(s1, s2, e1, e2) ==
    LET minutes == (e1 * 60 + e2) - (s1 * 60 + s2)
    IN  IF minutes < 0 THEN minutes + 24 * 60 ELSE minutes

LEMMA ShiftsAreNatural ==
    ASSUME NEW start \in TimesOfTheDay, NEW end \in TimesOfTheDay
    PROVE  calcWeeklyShiftHours(start, end) \in Nat
  <1>1. PICK s1 \in 0..23, s2 \in 0..59 : start = <<s1, s2>>
    BY DEF TimesOfTheDay
  <1>2. PICK e1 \in 0..23, e2 \in 0..59 : end = <<e1, e2>>
    BY DEF TimesOfTheDay
  <1>3. start[1] = s1 /\ start[2] = s2 /\ end[1] = e1 /\ end[2] = e2
    BY <1>1, <1>2
  <1>4. calcWeeklyShiftHours(start, end) = 5 * DayLength(s1, s2, e1, e2)
    BY <1>3 DEF calcWeeklyShiftHours, DayLength
  <1>5. DayLength(s1, s2, e1, e2) \in Nat
    BY DEF DayLength
  <1> QED
    BY <1>4, <1>5

\* The error of three rounded sums.
LEMMA ThreeRoundedSums ==
    ASSUME NEW f \in Nat, NEW l \in Nat, NEW r \in Nat, NEW s \in Nat,
           NEW F \in Nat, NEW L \in Nat, NEW R \in Nat,
           312 * F <= 10 * f + 156, 10 * f < 312 * F + 156,
           312 * L <= 520 * l + 156, 520 * l < 312 * L + 156,
           312 * R <= 520 * r + 156, 520 * r < 312 * R + 156
    PROVE  \/ WithinRounding(10 * (f + 52 * (l + r)), 10 * (52 * s), 3)
           \/ 3 * (F + L + R) > 5 * s <=> f + 52 * (l + r) > 52 * s
  BY DEF WithinRounding

\* For any functions, licenses, rests and shift, with no rare function that counts, the
\* last page asks for a justification exactly when what the functions page shows, with
\* the entries, is more than the shift, unless the two are within 54 seconds.
THEOREM JustifiedExactlyWhenOver ==
    \A reports \in Seq(AnyReport), licenses, rests \in Seq(Nat),
       start, end \in TimesOfTheDay :
        LET declared == totalSemanalMin(reports) + 52 * (SumOf(licenses) + SumOf(rests))
            shift    == 52 * calcWeeklyShiftHours(start, end)
        IN  \/ \E i \in DOMAIN reports : CountsRarely(reports[i])
            \/ WithinRounding(10 * declared, 10 * shift, 3)
            \/ justificationRequired(reports, licenses, rests, start, end) <=> declared > shift
  <1> SUFFICES ASSUME NEW reports \in Seq(AnyReport),
                      NEW licenses \in Seq(Nat), NEW rests \in Seq(Nat),
                      NEW start \in TimesOfTheDay, NEW end \in TimesOfTheDay,
                      \A i \in DOMAIN reports : ~CountsRarely(reports[i])
        PROVE  LET declared == totalSemanalMin(reports) + 52 * (SumOf(licenses) + SumOf(rests))
                   shift    == 52 * calcWeeklyShiftHours(start, end)
               IN  \/ WithinRounding(10 * declared, 10 * shift, 3)
                   \/ justificationRequired(reports, licenses, rests, start, end)
                        <=> declared > shift
    OBVIOUS
  <1> DEFINE f == totalSemanalMin(reports)
             l == SumOf(licenses)
             r == SumOf(rests)
             s == calcWeeklyShiftHours(start, end)
             F == calcTotalDeclaredHours(reports)
             L == sumDurationsInHours(licenses)
             R == sumDurationsInHours(rests)
  <1>1. f \in Nat /\ F = Hundredths(f)
    BY WeightsAgree DEF calcTotalDeclaredHours, Weight
  <1>2. l \in Nat /\ r \in Nat /\ s \in Nat
    BY SumsAreNatural, ShiftsAreNatural
  <1>3. L = Hundredths(52 * l) /\ R = Hundredths(52 * r)
    BY DEF sumDurationsInHours
  <1>4. justificationRequired(reports, licenses, rests, start, end) <=> 3 * (F + L + R) > 5 * s
    BY DEF justificationRequired
  <1> HIDE DEF f, l, r, s, F, L, R
  <1>5. /\ F \in Nat /\ 312 * F <= 10 * f + 156 /\ 10 * f < 312 * F + 156
        /\ L \in Nat /\ 312 * L <= 10 * (52 * l) + 156 /\ 10 * (52 * l) < 312 * L + 156
        /\ R \in Nat /\ 312 * R <= 10 * (52 * r) + 156 /\ 10 * (52 * r) < 312 * R + 156
    <2> DEFINE minutes == 52 * l
               others == 52 * r
    <2>1. minutes \in Nat /\ others \in Nat
      BY <1>2
    <2>2. L = Hundredths(minutes) /\ R = Hundredths(others)
      BY <1>3
    <2> HIDE DEF minutes, others
    <2>3. F \in Nat /\ 312 * F <= 10 * f + 156 /\ 10 * f < 312 * F + 156
      BY <1>1, RoundsToTheNearest
    <2>4. L \in Nat /\ 312 * L <= 10 * minutes + 156 /\ 10 * minutes < 312 * L + 156
      BY <2>1, <2>2, RoundsToTheNearest
    <2>5. R \in Nat /\ 312 * R <= 10 * others + 156 /\ 10 * others < 312 * R + 156
      BY <2>1, <2>2, RoundsToTheNearest
    <2> QED
      BY <2>3, <2>4, <2>5 DEF minutes, others
  <1>6. \/ WithinRounding(10 * (f + 52 * (l + r)), 10 * (52 * s), 3)
        \/ 3 * (F + L + R) > 5 * s <=> f + 52 * (l + r) > 52 * s
    <2>1. 312 * L <= 520 * l + 156 /\ 520 * l < 312 * L + 156
      BY <1>2, <1>5
    <2>2. 312 * R <= 520 * r + 156 /\ 520 * r < 312 * R + 156
      BY <1>2, <1>5
    <2>3. F \in Nat /\ L \in Nat /\ R \in Nat
      BY <1>5
    <2>4. 312 * F <= 10 * f + 156 /\ 10 * f < 312 * F + 156
      BY <1>5
    <2>5. f \in Nat /\ l \in Nat /\ r \in Nat /\ s \in Nat
      BY <1>1, <1>2
    <2> QED
      BY <2>1, <2>2, <2>3, <2>4, <2>5, ThreeRoundedSums, Zenon
  <1> QED
    BY <1>4, <1>6 DEF f, l, r, s

-----------------------------------------------------------------------------
(***************************************************************************)
(* The hours of a shift.                                                   *)
(***************************************************************************)
\* A shift that the form accepts counts, in the weekly hours of the last page, for
\* five days of what its kind demands exactly when it ends at the minute it started
\* and does not cross midnight, whatever the hour.
THEOREM AcceptedShiftsWeighTheirHours ==
    \A job_shift \in DOMAIN SHIFT_DURATIONS, start, end \in TimesOfTheDay :
        ShiftAccepted(job_shift, start, end) =>
          (calcWeeklyShiftHours(start, end) = 5 * 60 * SHIFT_DURATIONS[job_shift]
             <=> (start[2] = end[2] /\ start[1] < end[1]))
  <1> SUFFICES ASSUME NEW job_shift \in DOMAIN SHIFT_DURATIONS,
                      NEW start \in TimesOfTheDay, NEW end \in TimesOfTheDay,
                      ShiftAccepted(job_shift, start, end)
               PROVE  calcWeeklyShiftHours(start, end) = 5 * 60 * SHIFT_DURATIONS[job_shift]
                        <=> (start[2] = end[2] /\ start[1] < end[1])
    OBVIOUS
  <1> DEFINE n == SHIFT_DURATIONS[job_shift]
  <1>1. n \in {3, 4, 6, 7, 8}
    BY DEF SHIFT_DURATIONS
  <1>2. PICK s1 \in 0..23, s2 \in 0..59 : start = <<s1, s2>>
    BY DEF TimesOfTheDay
  <1>3. PICK e1 \in 0..23, e2 \in 0..59 : end = <<e1, e2>>
    BY DEF TimesOfTheDay
  <1>4. /\ start[1] = s1 /\ start[2] = s2
        /\ end[1] = e1 /\ end[2] = e2
    BY <1>2, <1>3
  <1> HIDE DEF n
  <1>5. e1 - s1 = n \/ s1 - e1 = n
    BY <1>1, <1>4 DEF ShiftAccepted, n
  <1>6. calcWeeklyShiftHours(start, end) = 5 * DayLength(s1, s2, e1, e2)
    BY <1>4 DEF calcWeeklyShiftHours, DayLength
  <1>7. 5 * DayLength(s1, s2, e1, e2) = 5 * 60 * n <=> (s2 = e2 /\ s1 < e1)
    BY <1>1, <1>5 DEF DayLength
  <1> QED
    BY <1>4, <1>6, <1>7 DEF n

LEMMA OneAddsUp == ASSUME NEW n \in Nat PROVE SumOf(<<n>>) = n
  <1> DEFINE s == <<n>>
  <1>1. s \in Seq(Nat) /\ Len(s) = 1 /\ s[1] = n
    OBVIOUS
  <1> HIDE DEF s
  <1>2. /\ PartialSums(s)[0] = 0
        /\ \A i \in 1 .. 1 : PartialSums(s)[i] = PartialSums(s)[i - 1] + s[i]
    BY <1>1, SumsAre
  <1>3. PartialSums(s)[1] = n
    BY <1>1, <1>2
  <1> QED
    BY <1>1, <1>3 DEF SumOf, s

\* The computations of hours agree as the invariant says.
LEMMA HoursDoAgree == TotalsAgree /\ JustifiedWhenOver /\ ShiftsWeighTheirHours
  <1>1. TotalsAgree
    <2> SUFFICES ASSUME NEW first \in Reported, NEW second \in Reported
          PROVE  LET reports == <<first, second>>
                 IN  WithinRounding(312 * calcTotalDeclaredHours(reports),
                                    10 * totalSemanalMin(reports), 1)
                       <=> \A i \in 1..2 : ~CountsRarely(reports[i])
      BY DEF TotalsAgree
    <2> DEFINE reports == <<first, second>>
    <2>1. first \in AnyReport /\ second \in AnyReport
      BY DEF Reported, AnyReport, Durations
    <2>2. reports \in Seq(AnyReport) /\ DOMAIN reports = 1..2
      BY <2>1
    <2> HIDE DEF reports
    <2>3. WithinRounding(312 * calcTotalDeclaredHours(reports),
                         10 * totalSemanalMin(reports), 1)
            <=> \A i \in 1..2 : ~CountsRarely(reports[i])
      BY <2>2, TotalsAgreeUnlessRare
    <2> QED
      BY <2>3 DEF reports
  <1>2. ASSUME NEW report \in AnyReport, NEW license \in Nat, NEW rest \in Nat,
               NEW start \in TimesOfTheDay, NEW end \in TimesOfTheDay
        PROVE  LET declared == weeklyMinutes(report) + 52 * (license + rest)
                   shift    == 52 * calcWeeklyShiftHours(start, end)
               IN  \/ CountsRarely(report)
                   \/ WithinRounding(10 * declared, 10 * shift, 3)
                   \/ justificationRequired(<<report>>, <<license>>, <<rest>>, start, end)
                        <=> declared > shift
    <2> DEFINE reports == <<report>>
               licenses == <<license>>
               rests == <<rest>>
    <2>1. /\ reports \in Seq(AnyReport) /\ DOMAIN reports = {1} /\ reports[1] = report
          /\ licenses \in Seq(Nat) /\ rests \in Seq(Nat)
      OBVIOUS
    <2>2. SumOf(licenses) = license /\ SumOf(rests) = rest
      BY OneAddsUp
    <2>3. totalSemanalMin(reports) = weeklyMinutes(report)
      <3>1. weeklyMinutes(report) \in Nat
        BY ReportWeighs
      <3>2. [i \in DOMAIN reports |-> weeklyMinutes(reports[i])] = <<weeklyMinutes(report)>>
        <4> DEFINE m == weeklyMinutes(report)
        <4>1. [i \in DOMAIN reports |-> weeklyMinutes(reports[i])] = [i \in {1} |-> m]
          BY <2>1
        <4> HIDE DEF m
        <4>2. [i \in {1} |-> m] = <<m>>
          OBVIOUS
        <4> QED
          BY <4>1, <4>2 DEF m
      <3> QED
        BY <3>1, <3>2, OneAddsUp DEF totalSemanalMin
    <2> HIDE DEF reports, licenses, rests
    <2> DEFINE declared == totalSemanalMin(reports) + 52 * (SumOf(licenses) + SumOf(rests))
               shift    == 52 * calcWeeklyShiftHours(start, end)
    <2>4. \/ \E i \in DOMAIN reports : CountsRarely(reports[i])
          \/ WithinRounding(10 * declared, 10 * shift, 3)
          \/ justificationRequired(reports, licenses, rests, start, end) <=> declared > shift
      BY <2>1, JustifiedExactlyWhenOver
    <2>5. declared = weeklyMinutes(report) + 52 * (license + rest)
      BY <2>2, <2>3
    <2> HIDE DEF declared, shift
    <2>6. \/ CountsRarely(report)
          \/ WithinRounding(10 * declared, 10 * shift, 3)
          \/ justificationRequired(reports, licenses, rests, start, end) <=> declared > shift
      BY <2>1, <2>4
    <2> QED
      BY <2>5, <2>6, Zenon DEF shift, reports, licenses, rests
  <1>3. justificationRequired(<<[frequency |-> "Semanal", durationMinutes |-> 2380]>>,
                              <<10>>, <<10>>, <<8, 0>>, <<16, 0>>)
    <2> DEFINE report == [frequency |-> "Semanal", durationMinutes |-> 2380]
    <2>1. calcTotalDeclaredHours(<<report>>) = 3967
      <3>1. [i \in DOMAIN <<report>> |-> <<report>>[i].durationMinutes
                                          * multiplier(<<report>>[i].frequency)] = <<123760>>
        BY DEF multiplier
      <3>2. SumOf(<<123760>>) = 123760
        BY OneAddsUp
      <3>3. Hundredths(123760) = 3967
        BY DEF Hundredths
      <3> QED
        BY <3>1, <3>2, <3>3 DEF calcTotalDeclaredHours
    <2>2. sumDurationsInHours(<<10>>) = 17
      <3>1. SumOf(<<10>>) = 10
        BY OneAddsUp
      <3>2. Hundredths(520) = 17
        BY DEF Hundredths
      <3> QED
        BY <3>1, <3>2 DEF sumDurationsInHours
    <2>3. calcWeeklyShiftHours(<<8, 0>>, <<16, 0>>) = 2400
      BY DEF calcWeeklyShiftHours
    <2> QED
      BY <2>1, <2>2, <2>3 DEF justificationRequired
  <1>4. JustifiedWhenOver
    <2>1. \A report \in Reported : report \in AnyReport
      BY DEF Reported, AnyReport, Durations
    <2>2. \A n \in Durations : n \in Nat
      BY DEF Durations
    <2>3. <<8, 0>> \in TimesOfTheDay /\ \A end \in ShiftTimes : end \in TimesOfTheDay
      BY DEF TimesOfTheDay, ShiftTimes
    <2> QED
      BY <1>2, <1>3, <2>1, <2>2, <2>3 DEF JustifiedWhenOver
  <1>5. ShiftsWeighTheirHours
    <2>1. \A time \in ShiftTimes : time \in TimesOfTheDay
      BY DEF ShiftTimes, TimesOfTheDay
    <2> QED
      BY <2>1, AcceptedShiftsWeighTheirHours DEF ShiftsWeighTheirHours
  <1> QED
    BY <1>1, <1>4, <1>5

\* On every screen that computes hours the computations agree (WorkedHours): an
\* evaluation of the code's arithmetic, whatever the pages do.
THEOREM HoursAgreeOnEveryScreen == PagesSpec => []HoursAgree
  <1>1. HoursAgree
    BY HoursDoAgree DEF HoursAgree
  <1> QED
    BY <1>1, PTL

=============================================================================
