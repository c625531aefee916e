# Formal models of the declarations system

The system lets the employees of an institution declare the functions they perform, their
licenses and their rest times, has administrators review the declarations, and keeps the
organization the employees work in. It is a PHP API over an Oracle database (`src/api`,
`src/migrations`) and a React client (`src/client`).

What makes it hard is the same everywhere: **PHP serves every HTTP request in a process of
its own, the processes share nothing but the database, and most operations are several
statements that commit one by one.** What a request has read in one statement may be stale in
the next, a process may end between two of them, and no test of the repository drives two
requests through a chosen interleaving of their statements. In the models a request is
therefore a process whose steps are the database statements; everything between two
statements, reads of the same statement included, is one step.

In the client the same question returns in another form: **a page sends requests and goes on
while they are away; their answers come in any order, or not at all, to a page whose state
has moved on.** There a step is one callback: an event of the user, the server's treatment of
one request, or the handler of one answer up to its next `await`.

## 1. Inventory

| Part | Code (under `src/api/src` unless said) | State | Operations | Modules |
| --- | --- | --- | --- | --- |
| Declarations | `DeclarationsService`, `DeclarationsRepository`, migration 0012 | `DECLARATIONS`, `DECLARATIONS_STATUS` | create, change status, justify | `StatusTransitions`, `DeclarationLifecycle`, `Declarations` |
| Entries | `JobFunctionService`, `LicenseService`, `RestTimeService` and their repositories and DTOs | `JOB_FUNCTIONS`, `LICENSE_TIMES`, `REST_TIMES` | create, update, delete of each | `EntryTable`, `DeclarationEntries` |
| Rate limiter | `RateLimiter`, `RateLimitRepository`, migration 0014 | `RATE_LIMITS`, its row locks | `enforce` | `RateLimiter`, `FixedWindow` |
| Sessions and lockout | `AuthService`, `AuthRepository`, `UserRepository` | `USERS` (hash, failed attempts), `ACCESS_TOKENS`, `REFRESH_TOKENS` | login, refresh, logout | `AuthSessions` |
| Password recovery and change | `PasswordRecoveryService`, `UserService::changePassword` | `PASSWORD_RESET_TOKENS`, the hash | request, reset, change | `AuthSessions` |
| Organization | Area, Department, Section, Unit and JobPosition services and repositories, migrations 0006 and 0009 | five tables and their row locks | create, move, delete (cascade), restore | `Organization`, `OrgStructure` |
| User administration | `UserService`, migration 0003 | `USERS` (role, soft delete) | register, role, delete, restore | only the change of password, in `AuthSessions` |
| Catalogues | Job, JobClass, LicenseType, OfficialFunction, CustomFunction | one table each | create, update, delete | as the pages use them: `CatalogPages`, `ClientForms` |
| Migration runner | `src/api/bin/migrate.php` | `SCHEMA_MIGRATIONS` | apply, baseline | not modelled |
| Client session | `apiClient.ts`, `authService.ts`, `tokenStorage.ts`, `AuthProvider.tsx`, the two guards of routes, the pages of `app/pages/auth` (all under `src/client/src`) | tokens in `sessionStorage`, the user, `isRefreshing`, the queue | request, refresh, login, logout, reset, start-up | `ClientSession` |
| Administration pages | the eleven pages of `app/pages/admin` that list and edit one kind of record, with their lists, toolbars and forms in `features/admin` | page, search, rows, open dialog, requests in flight | search, turn pages, create, edit, delete, change a role | `CatalogPages`, `ClientForms` |
| Review of declarations | `DeclarationsPage.tsx`, `DeclarationsDetailsModal.tsx` | list, declaration shown, status dialog | filter, open (also by link), change the status | `DeclarationReview` |
| Activity log | `LogsPage.tsx`, `logService.ts`, `activityLog.ts`; `LogService` | rows collected, filter, entry shown | load, filter, open | `ActivityLogPage` |
| Making a declaration | `EmployeeRecordPage`, `EmployeeFormPage`, `WorkHoursPage`, `AdditionalInformationPage`, `DeclarationLicenses`, `DeclarationRestTimes` | the mounted page, its requests | begin, abandon, add and remove entries, justify, complete | `DeclarationWizard` |
| Reporting functions | `DeclarationFunctions.tsx` | reports by function, the dialog | register, report, change, remove | `ReportedFunctions` |
| Computing hours | `declarationExport.ts`, `DeclarationFunctions`, `EmployeeFormPage`, `AdditionalInformationPage` | none | totals, shift, need of a justification | `WorkedHours` |
| Other pages, HTTP layer, mail, identifiers, schema | see `PROJECT.json` | none that the others read | | not modelled |

How they interact. The entry services read the status that the declarations service writes;
`DeclarationEntries` extends `Declarations` so that the two interleave. Login and recovery
call the rate limiter before they do anything else; it shares no row with them, so it has a
module of its own and the two are not composed. Recovery writes the hash and deletes the
tokens that login and refresh write: these are one module. Declarations look up the plaza of
their author in the organization, which can only refuse them: `createDeclaration` has that
refusal as a choice.

The client's screens call the API through `apiClient`, which presents the tokens and, on a
401, refreshes them and sends the request again. The routes mount one screen at a time; each
keeps its state for as long as it is mounted, and its requests outlive it.
`DeclarationReview` uses the server's `StatusTransitions`, so that what the dialog offers is
compared with what the server takes.

What makes each part correct, and what threatens it:

- *Declarations*: the status history is a path of the transition table whatever requests
  overlap; every step is made by somebody entitled to it; one Incomplete declaration per
  user; out-of-shift declarations are completed only with a justification. Threats: the
  status is validated in PHP and written in a later call; the transition table exists twice
  (PHP and PL/SQL).
- *Entries*: rules over several columns hold although each request computes its row from an
  earlier read; deletions are final; nothing is written once the declaration is closed.
- *Rate limiter*: the limit is exact under races for the row and for its insertion; a
  failing store lets requests through but leaves no lock behind.
- *Sessions*: the lock counts failures; the two tokens of a user belong together; a recovery
  revokes what was open. Threats: `deleteUserTokens` is two commits, a reset is three, rotation
  does not look again at what it found valid, and a lock that is over is reset by a statement
  that may come after newer failures.
- *Organization*: a deletion takes its subtree; a plaza hangs from exactly one entity;
  cascades that lock tables in different orders do not block each other for good.

- *Client session*: at most one refresh by the interceptor at a time; a request held for it is
  always released; no tokens remain after a logout, and the tab does not throw away tokens the
  server honours. Threats: two independent refreshes (the interceptor's and that of
  `initializeAuth`), and a login, logout or reset that ends while one is under way.
- *Administration pages*: when nothing is on its way the rows are those of the server for the
  page and filter on screen. Threats: overlapping loads, reloads with the page of an earlier
  render, a last row deleted, forms and request objects that each list the required fields.
- *Review*: the status chosen for a declaration is sent for that one; the details shown are
  its details. Threats: three requests per row without an order between them.
- *Activity log*: the rows leave no entry out between the newest and the oldest of them.
  Threat: they are collected page by page while the log grows and moves the pages.
- *Making a declaration*: what exceeds the shift is completed with a justification. Threats:
  the hours are loaded again after each entry while the button stays enabled, and each panel
  of the page finds its declaration and its rows on its own.
- *Hours*: the places that compute them agree. Threats: two tables of frequencies, three
  sums rounded each for itself and compared with the shift.
- *Reporting functions*: one row per function, the page shows the rows. Threats: the dialogs
  share `isSubmitting` and can be closed while they submit; removing waits for nothing.

`PROJECT.json` lists each hazard at its line with the properties that cover it. Those
without a property say why.

## 2. Modules

Names of actions and operators are those of the code. A definition whose name has a suffix
(`login_NoLock`, `StatusAccepted_NoTransitions`) and whose comment calls it a variant is a
plausible mistake, used only to see that a property notices it; no specification refers to
it.

**`StatusTransitions`** has the two tables: `STATUS_TRANSITIONS` of the service and
`transition_ok` of `FN_CHANGE_DECLARATION_STATUS`.

**`Declarations`**. `owner`, `history` (status rows, oldest first), `justified` and
`outOfShift` are columns; `req[r]` holds what a process is doing and what it read (`seen`).
`createDeclaration` → `CheckNoIncomplete` → `registerDeclaration` → `getDeclarationById`;
`changeStatus` → `CheckTransition` → `FN_CHANGE_DECLARATION_STATUS`;
`updateJustification` → `CheckJustifiable` → `WriteJustification`; `StatementFails` ends a
request between any two. The stored function is one step because it locks the declaration's
row before it looks at anything. Two stored functions that the code calls are not in the
repository: of `FN_REGISTER_DECLARATION` the model assumes what the service relies on (error
-20051 when the user has an Incomplete declaration, tested and inserted atomically), of
`FN_UPDATE_JUSTIFICATION` that it writes the column.

**`DeclarationLifecycle`** is the abstract specification: owners and current statuses, one
`Register` or `Advance` at a time, by somebody entitled. `Declarations` implements it with
`status[d] <- getCurrentStatus(d)`.

**`DeclarationEntries`** extends `Declarations` with the three tables. Each request is
begin (existence, ownership and, for updates, the row as read and merged with the input),
`check` (the status and the rules) and `write`. Functions write the whole merged row, rest
times only the columns given: the model keeps that difference, since it decides which rules
survive a race. Ids of entries are fresh when inserted.

**`EntryTable`** is the abstract specification of each of the three services, with no
statements and no other service: a request is admitted for a declaration while that is open
and later does one thing to the table, or none; an entry is changed and deleted only by
requests for the declaration it was inserted for, and is never brought back. `DeclarationEntries` implements
it three times, with `table` the one of the service, `stage <- Stages` (no owner, Incomplete,
anything later) and `admitted <- Admitted`: the declaration of a request under way that began
while it was Incomplete. The abstract request is admitted by the first statement, not by the
check, and may write after the declaration has closed: this is exactly the room that the
code leaves (`entries_frozen`).

**`RateLimiter`**. `SelectForUpdate` waits for the row lock and evaluates the expiry with the
time the statement was *issued* (`since`), which is when Oracle evaluates
`CURRENT_TIMESTAMP`; `insertBucket` can lose the race for the row (ORA-00001), then
`SelectAgain`; `writeBucket`, `Commit`. A commit may be carried out and still be reported as
failed (`unsure`). `StatementFails` at any point rolls back and the request goes on
unlimited.

**`FixedWindow`** is the abstract specification of the limiter: no requests, transactions or
locks, a counter and a start per bucket; an attempt is one step that counts it in the window
or opens a new one, and lets it through when the count is within the limit. `RateLimiter`
implements it with `window <- bucket, now <- clock`: `Commit` is the attempt, `Tick` the
tick, everything else stutters. The start of a new window may lie in the past, between the
moment the old one was due and now, since the attempt waited for the row with its own time.

**`AuthSessions`**. Per user one account row, one access, one refresh and one recovery token;
texts of tokens, passwords and hashes are identities. A login reads the row, and then runs its
writes one by one: `ClearExpiredLock`, `incrementFailedAttempts` or
`updatePasswordHashById`, `resetFailedAttempts`, `rotateTokensAtomic` (the one transaction).
A reset is `updatePasswordById`, `markTokenAsUsed`, `DeleteAccessToken`,
`DeleteRefreshToken`. `opened`, `issued`, `setBy`, `revoked` and `guesses` are for the record
only: they number the passwords set by recovery so that properties can speak of "before", and
count the failures of a user since the right password, a new one or the end of the window.
Expiry is four actions; the one ordering kept is that a refresh token outlives the access
token issued with it.

**`OrgStructure`**. One function `rows` for the five tables; the parent columns of a row are
the set of its parents. A transaction reads the committed rows with its own writes on top
(`View`), and each statement (`Effect`) waits while another transaction has written a row it
wants. `CHECK_JOB_POSITION_PARENT` (declared in the base schema, relied on by the
repositories), row locks and deadlock detection (ORA-00060) are external. The last statement
of a transaction and its commit are one step. `Awaited(r)` is what `r` waits for, directly or
through others (the least set closed under waiting, so that it can be reasoned about);
`DeadlockDetected` rolls back a transaction that awaits itself, and `MayRun` is the condition
under which a transaction can take its next step, without `ENABLED`. Names, plaza numbers and
the user of a plaza are left out.

**`Organization`** is the abstract specification of the five tables: no requests, statements,
locks or views, one whole operation at a time. An entity is put under parents that exist,
moved, restored, or deleted together with some rows of the tables below it (`Takes`), and
nothing else changes in that step. Which rows a deletion takes is what `DeletionCascades`
says; here it matters that it takes no others and writes back nothing it read earlier.
`OrgStructure` implements it with the committed rows: a commit is the operation, all other
statements stutter.

**`ClientSession`**. The server is reduced to what the tab can tell of it: the number of the
pair of tokens it honours and whether its access token lives. `initializeAuth` calls `getMe`
and, when that fails, refreshes with the refresh token it *captured* when the page loaded;
`Unauthorized`, `Refreshed` and `RefreshFails` are the interceptor: the first 401 sends the
refresh and waits, later ones are queued, all of them (`Held`) are sent again once or
rejected. A request is served by the server before it is answered in the tab, so any number
of answers can be outstanding; `Lost` is the network. `Load` is a new load of the page, by
the user or by `window.location`: what was on its way reaches the server and nobody hears
the answer (`orphan`). `LoginElsewhere` replaces the pair from another browser.

**`CatalogPages`**. The eleven pages are copies of one component that differ in ten decisions
(does the search reset the page although the text is the same, is a late answer ignored, is
the list reloaded before the form closes, what follows a delete, ...). `Page(...)` is a
record of them, one constant per page, and the actions read the record: `Load` and `Show`
are `load...()` and its effect on page and filter, `Write` and `WriteAnswered` the
submission of each dialog with its success and error paths. `ServeLoad` cuts the page out of
the rows as `getAreas` does. A page that steps back after a delete does so when it showed
one row at the time the delete was sent; a delete sent from a page that already showed none
stays there, and is one of the overlaps that `cExcused` records.

**`ClientForms`** has each form and each request object as a function from its fields to the
classes of values that pass, to compare the two, and the way of a plaza's parent through the
form. The classes are what the two sides tell apart: `empty`, `blank`, the text `zero`, a value
of the wrong shape (`odd`), a text within the characters of the input and beyond the bytes of the
request object (`wide`: `maxLength` counts the one, `strlen` the other), a number of too many
digits (`long`), and `ok`.

**`DeclarationReview`**. `rModal.local` is the dialog's own copy of the declaration; `rViews`,
`rLoads`, `rExtra` and `rChange` are the four kinds of request. A changed status is followed
by a read of the declaration and a reload of the list, in that order. `clean`, `offered` and
`shown` record what the dialog knew when it sent a change.

**`ActivityLogPage`**. The sample is collected by one request after another while the log
grows, so the pages of the server move under it; filters and pages are then local. Entries are
numbered in the order they are committed, which the model takes for the order of the
`created_at` the server sorts by. The rows and their buttons stay in use while the list is
loaded again, so entries are opened then too. The answer of `openDetail` does not look at which
entry is open by then; nothing is claimed of it (section 5).

**`DeclarationWizard`**. The four screens of a declaration. `navigate` unmounts one and mounts the
next; requests of a screen that is gone become orphans, whose effect on the server remains.
The timer that leads home after a completion survives its page too. The panels of a page
are mounted when its first load is over; each asks for the declaration and its rows (`Mounted`),
takes entries once it has found the declaration (`Ready`), and when its request fails shows a
message and no more: only the first load of a page and the loads that follow an entry set the
error of the page (`ReadFails`). In `loadData` the hours are set whether or not the effect is
still active, so of two loads that overlap the later *answer* counts; `wStray` records that
they followed an addition.

**`ReportedFunctions`**. Rows of the declaration on the server, reports by function on the page,
the dialog, and the requests between them; a report that exists is updated, else created.

**`WorkedHours`**. The arithmetic, in minutes and 1/52 of a week so that numbers stay whole.
`Hundredths` is `Math.round(hours * 100) / 100`, applied to the functions, the licenses and the
rests each for itself, as the code does before it adds them. `multiplier` looks for the names
of frequencies inside a text; each of the six names there are contains the one it is looked up
by and none that is looked for earlier. What is left out is the error of binary fractions,
which can only turn a comparison of equals; no claim is made within that distance.

**`ClientPages`** composes the last five with the session: as `App.tsx` does, one screen is
mounted, and only it moves.

## 3. Model checking

Each MC module extends its component; `tlc -config X.cfg MCModule`.

| Run | Question | Answer |
| --- | --- | --- |
| `declarations` | Do overlapping creations, status changes and justifications keep the history a path of the table, by entitled users, and implement the lifecycle? Do writes of entries that overlap each other and a completion keep rows consistent, does each service implement `EntryTable` (deletions final, entries changed only for their own declaration, by requests admitted in time), and do late requests write nothing? | Yes. The stored function refuses what the service accepted only after a race or for a missing justification, so the two tables agree. |
| `entries_frozen` | Does declared data stand still once the declaration is closed? | No: a request that read *Incomplete* before the completion writes after it. |
| `rest_duration` | Is no rest time longer than its type allows? | No: an update of the type and one of the minutes, each checked against the row it read, combine. |
| `rate_limiter` | Is the limit exact, is a refusal earned, do the transactions implement the counter of `FixedWindow` (no attempt counted twice or in the wrong window, no window reset before its time), is everybody answered? | Yes, with failures of the store aside as the properties say. |
| `auth` | What of lockout, pairing and revocation holds in every interleaving? | The counter overshoots by less than the number of requests; tokens are paired; no token *written* before the reset survives it; until the lockout window has run out since the last failure, no more wrong passwords are counted than one round for each request, a round being the threshold and one for each other request (`GuessesBounded`). |
| `lockout_threshold` | Is the threshold never exceeded? | No: two logins read the counter below it and both add one. |
| `reset_revokes` | Does a recovery end all sessions opened with the old password? | No: a login or refresh under way writes its pair after the deletion. |
| `org` | Do cascades take their subtree, do transactions of several statements change the tables as if each were one operation (`Organization`), can a cycle of locks block for good? | Yes, yes, no. |
| `floating_plaza` | Are plazas of a deleted entity taken care of? | No: deleting a section marks its units, then looks for plazas of its *active* units. Sequential, no race needed. |
| `plazas_reanchored` | Does a unit or a department with plazas go and its plazas stay, as the design has it? | No: the statement that clears the parent column is refused by `CHECK_JOB_POSITION_PARENT`, and the deletion with it. Sequential. |
| `catalog_pages` | When do the administration pages show what the server has, does every skeleton and every submission end, and where do forms and request objects differ? | They show it unless two loads of an unguarded page overlapped, a reload was sent for the page of an earlier render, a delete was sent from a page that showed no row any more, or an answer was lost (`cExcused`); everything ends; the differences are `KnownGaps`. |
| `client_pages` | Is the declaration reviewed the one changed, are its entries those shown with it, does the sample of the log leave nothing out, are completed declarations justified, are reports the server's rows, do the computations of hours agree up to their rounding, does the session survive refreshes, and does everything the user waits for end? | Yes, outside the overlaps that each property names; those are the behaviours of section 5. |

The six "no" are reported under `findings` with the line of the document, comment or
message they contradict.

Bounds, all named in the modules or the `.cfg`:

- `declarations`: one employee, one administrator, two ids, two requests. Two requests are
  what a race takes; two ids are what `OneIncompletePerUser` takes. `MaxRows = 3` status rows,
  `MaxLife = 5` for one declaration alone, so the longest life (Incomplete, Completed, Revision,
  Approved, Rejected) is covered. Requests and ids are interchangeable.
  As long as entries are in use, one declaration of the employee, nothing out of shift, one
  status request, two entry requests, `MaxEntryRows = 2`. The three services share no table, so
  only one of them is at work in a behaviour (`OneServiceAtWork`); status moves only by
  completion (`Complete`), the other ways out being equal for the entries. Durations are one
  value per side of each limit. While no entry is in use the run is that of the
  declarations service alone (`EntriesBound`). `entries_frozen` and `rest_duration` take two status rows
  of a declaration.
- `rate_limiter`: one bucket (buckets share nothing), three requests so that two can wait
  while one holds the row, a limit of two, a window of two ticks, `MaxClock = 2`,
  `MaxCalls = 4`: two windows fit, and a request can be one beyond the limit. The run sets
  `CHECK_DEADLOCK FALSE` only because `MaxCalls` ends the behaviours.
- `auth`: one user (users share no row), two requests, two passwords, threshold two, at most
  three pairs, one recovery mail, two resets (both requests with one recovery token).
- `org`: an area with its department and section is there from the start; one unit, which may
  hang from either or both, and one plaza come and go; two administrators. `touched` records
  what others committed since a deletion began so that the properties speak of settled rows
  only; beyond `MaxTouched = 1` it becomes every row, which gives the claim up instead of
  cutting behaviours.

- `catalog_pages`: each of the eleven pages, two rows of which one fills a page
  (`MaxRows = 2`), two searches (all, the first row), and two requests of the user beyond the
  one that loads the page (`MaxSent = 2`; timers and reloads may add to them): a write that
  overlaps a search or a change of page, and two writes, take no more. A longer list would
  only repeat the last page.
- `client_pages`: three declarations of which the server returns two (`ServerCap = 2` stands for
  its limit of 100, so that a link can lead beyond it), three requests of the reviewer, one
  change by somebody else; a log of five to seven entries of which five are collected
  in three pages of two; one declaration with
  three entries of which one fits in the shift, three writes and three changes of page; two
  functions, three writes, one re-entry; two requests of the session besides those of
  start-up, one expiry, one reload or login elsewhere, one lost answer. Two requests are what
  the queue takes: one waits, one is queued. Three writes are what a report that is created,
  changed and removed takes.
- Neither looks for deadlocks: the pages rest once the user has used up the bounds.
- The exceptions that these properties make are kept as state (`cExcused`, `sExcused`,
  `fnExcused`, `wStray` and the `clean` of a change or a declaration), each set by the overlap
  that its comment names and no other; in `CatalogPages` and after a reload of the tab the exception ends again. A
  property without them is false, by the behaviours listed in section 5.

Fairness. `RateLimiter`, `CatalogPages` and the screens of `ClientPages` have liveness
properties. Those of the client assume that every request is answered or fails (`axios`
rejects when the connection ends) and that timers fire: `WF` on the server's step and the
answer's together. Nothing is assumed of the user, so a dialog may stay open for ever, and
no order of the answers. In `RateLimiter`, `SF_vars(Proceed(r))` says that a
process goes on and that Oracle hands a lock to those who wait in the order they came; weak
fairness would allow a request to be passed over each time the row is free. `RateLimiter`
does not assume that failures stop, or that they occur. The other modules of the server state safety
only: their requests are finite sequences without loops, and in the one place where they
can wait for one another (`OrgStructure`) the invariant `NobodyStuck` says that one can
always go on.

## 4. Proofs

Checked by TLAPS, for every value of the constants (any number of users, declarations,
buckets, requests; any threshold, limit or window). Each argument is an inductive invariant
`IInv` with `InitIInv`, `NextIInv` (one lemma or step per action) and the theorems as
consequences.

**`DeclarationsProofs`**: `TypeCorrect`, `HistoryIsAPath`, `AtMostOneIncomplete`,
`OnlyEntitledUsersWrite`, `CompletedStaysJustified`, `RefusalMeansRace`,
`ServiceImplementsLifecycle`. `IInv == TypeOK /\ RequestsCleared /\ RowsInv`. The row
properties are not inductive: a request about to write must be known to have passed the
entitlement tests on an `owner` that never changes afterwards and to carry a valid
transition from what it saw (`RequestsCleared`), and owners and rows must exist together
(`OwnedHasRows`). Lemma `TablesAgree` carries the agreement of the two tables, and
`NeverBackToIncomplete` is why a status change cannot create a second Incomplete one. The
refinement theorem maps every statement to a step of the lifecycle or a stutter.

**`DeclarationEntriesProofs`**, about the `Spec` in which entries and declarations
interleave: `EntriesTypeCorrect`, `FunctionRowsStayConsistent`,
`DeletedEntriesStayDeleted`, `LateRequestsWriteNothing`, `ServicesKeepTheirTables`.
`EntryIInv == IInv /\ TablesInv /\ RequestsInv`. A write stores a row that was put together
earlier, so the rules of the stored rows (`TablesInv`: a present row is ready, a deleted one
is empty) hold only because the row in hand keeps them (`Shaped`; an update of a function
may be in hand with unjustified overtime until its check, and never at its write). That a
request which began late never writes (`Seen`: if it did not begin early, its declaration is
not Incomplete *now*) needs that what is closed stays closed under every step of the
declarations service; lemma `ClosedStaysClosed` takes that from the refinement
`NextRefines`, as the lifecycle has no step back to Incomplete. `DeclaredDataFrozen` and
`RestDurationWithinMax` are no theorems: the runs of section 2 refute both.

`ServicesKeepTheirTables` is the refinement of `EntryTable`, three times. Its invariant is
`EntryIInv /\ AllLinked`: a request that read an entry still knows it when it writes, that is,
the entry was there, and is either gone or of the declaration that the request was admitted
for (`Linked`). An update needs it because it sets the whole row; that nobody else's write
breaks it follows from the abstract steps themselves, which never change the declaration of an
entry nor bring one back (`TablesFollow`, `StaysLinked`). `FunctionWriteIsOne` and its two siblings
map each write to an insertion, an update, a deletion or nothing; `DeclarationsMove` maps the
steps of the declarations service to moves of a stage, through the lifecycle; everything else
is an admission, a departure or a stutter (`EntryStepIs`, `QuietSteps`).

**`RateLimiterProofs`**: `LimiterTypeCorrect`, `LimitHolds`, `RefusalsAreEarned`,
`WindowsRunTheirTime`. `IInv == TypeOK /\ (\A r : Sound(r)) /\ (\A k : Counted(k))`: what a
request knows of the row while it holds the lock, and that the count of the row is the
number admitted plus the unsure ones up to the limit. `LimiterCountsOneAtATime` is the
refinement of `FixedWindow`. A commit writes a row computed two statements earlier, so
`Sound` says that the row in hand still follows from the committed one: one hit more in the
same window, or the first of a window that was due when the request was sent
(`CommitCounts`); every other step leaves the committed rows alone (`StepCounts`). The
theorems are of `Spec` and use no fairness.

**`ClientSessionProofs`**: `SessionIsSound`, `HeldIsReleasable`, `SessionIsOrderly`,
`NothingIsLeft`, `SessionsAreKept`.
`SessionInv == SessionTypeOK /\ QueueInv`. That a held request has a refresh in flight is not
inductive: `QueueInv` adds that `isRefreshing` is true exactly when a refresh of this load of
the page is in flight, that a request is held only then, that refreshes are not held
themselves, and that requests of an earlier page are never answered. Each handler either
leaves the queue alone (`QueueShrinks`), opens it with the one refresh (`Unauthorized`) or
empties it (`Refreshed`, `RefreshFails`, `Lost`, `Load`). Number of requests, expiries and
reloads are free.

That a logout leaves no token and that the tab throws away no session the server honours
relate the tab's tokens to the server's, which agree only through the requests in flight.
`OrderInv` says how: of what replaces or revokes tokens one request is on its way at most, and
what else is on its way presents the stored pair (`OneTurns`, `StartsAlone`); the stored
tokens and the user come and go together (`StoredTogether`); and for each kind and stage of a
request what the pair it presented says of the server's (`Presented`: a 401 that is not
answered by a new pair means that the tab and the server have parted). It is claimed while
`sExcused` is false; `RecordedOnce` turns the record of an overlap into what a step may assume
of the requests beside its own.

**`OrgStructureProofs`**: `OrganizationTypeCorrect`, `DeletedRowsStayFrozen`,
`OnlyDeletionsAreRefused`, `DeletionsCascade`, `PlazasHoldTheirParents`,
`TransactionsAreWhole`, `TransactionsGoOn`.
`IInv == RowsInv /\ RequestsInv /\ Apart`. A commit writes rows put
together by earlier statements, so the committed rows are sound only if what a transaction
holds is: `Marked` says it is always the committed row with its flag set. That has two
reasons. Of the operations only deletions have several statements, and of those statements
the ones that clear the parent of a plaza never do any work, since a plaza has one parent and
the CHECK refuses none (`ClearRefused`, `DeletionMarks`). And the row locks keep the
committed row as it was read (`Apart`: no two transactions have a row in common;
`NoLockTaken`). `WriteFacts` then says of every kind of statement what it may write, and the
first three theorems follow from it.

`CascadeInv` is about the cascades. At each statement, the rows below the deleted one that
nobody has touched since it began and that an earlier statement was there for are already
marked in the transaction's view (`Taken`; `Handled` lists which statement is there for
which rows, so the order of the statements of each service matters), and a deletion that has
gone past the statement for an untouched plaza of a department or unit would have been
refused there (`Bare`). `SettledBefore` is the key: a row settled after a commit of somebody
else was settled before it, with the parents it had. At the last statement `Handled` covers the
subtree (`SubtreeOfArea`, `SubtreeOfBranch`, `SubtreeOfUnit`).

`TransactionsAreWhole` is the refinement of `Organization`. What a commit writes was put together
from a view of earlier moments, so two things are to be shown: that it takes nothing back
(the rows in hand are the committed ones with their flag set, by `Marked` and `Apart`;
`DeletesWhole`, `WritesOne`), and that it refers to rows that exist: `Referenced` adds to `IInv`
that the parents a service found, and the rows a deletion has in hand, are among the
committed ones of the tables it may take from.

`TransactionsGoOn` is the half of `NobodyStuck` that speaks of the locks: whenever somebody
is under way, somebody can take a step or is in a cycle that Oracle ends. A waiter that is
in no cycle waits for somebody who awaits strictly fewer (`WaitingPassesOn`), and among
finitely many processes one awaits the fewest (`LeastNumber`).

**`AuthSessionsProofs`**: `SessionsTypeCorrect`, `TokensArePaired`,
`ResetRevokesOlderTokens`, `FailedAttemptsBounded`, `GuessesAreBounded`. `IInv` adds to the types that a request
about to rewrite a hash holds a password (`Typed`); that a reset past its first commit holds
a number no greater than the user's and, past the first deletion, has left only newer access
tokens (`Swept`); and that the counter plus the logins about to count is within the bound
(`FailuresBounded`), which is what a login adds when it starts to count and gives back when
it has. `GuessesCounted` is about the locks: a login that found a lock over may reset it after
newer failures and so open one more round of them. While the last failure is within the window
no login can find the lock over, so those about to reset it (`Wiping`) only become fewer, and
each pays with one round of the counter.

**`ClientPagesProofs`**, about `PagesSpec`, in which the screens and the session interleave:
`ChangesGoToTheReviewed`, `OffersAreTaken`, `DetailsFollowTheChoice`,
`SamplesAreWhole`, `NoShiftExceededUnjustified`, `ReportsFollowTheRows`, and four about the
arithmetic of hours: `AcceptedShiftsWeighTheirHours` (a shift, for every pair of times of the
day), `TotalsAgreeUnlessRare` (the two totals, for any number of reports of any length),
`JustifiedExactlyWhenOver` (the comparison with the shift, for any lists of functions, licenses
and rests) and `HoursAgreeOnEveryScreen`, which is what the run checks of short lists. Each screen has an invariant of its own,
kept by its steps and, as it shares no variable with the others, by theirs. `ReviewInv`: the
status dialog is open only over the modal of the same declaration, a change under way was
chosen for the declaration and status it names, and what the modal loads besides is of the
declaration it shows; `OfferedIsTaken` compares the client's table of transitions with the
server's. `LogInv`: the rows collected so far have no gap, and the page asked for next begins at or
above the last of them, since entries written meanwhile move a page only towards newer ones
(`PagesContinue`, `ContinuedWithoutGaps`). `WizardInv`: while no addition, and no load that must
follow one, is on its way, a page that shows no need of a justification misses no entry of the
record (`HoursFollow`; the converse is not claimed, since a removal can leave the need on screen
until its load is over), and a completion that reached the server was preceded by the
justification (`JustifiedFirst`); a
record whose history had an overlap is not `clean` and nothing is claimed of it. `FnInv`: when
one submission at a time is under way, every request is still about the report it was made
from, what the server has applied is what its row holds, and the other reports agree with
their rows (`Followed`).

A total is a recursive function over a list of reports, so two things about it need an
induction, which is made by hand as the search for a least counterexample (`LeastNumber`, from
the well-foundedness of `<` on the naturals): that the function exists and takes the values
its definition says (`SumsAre`), and that where every term of one list equals that of
another or is less by a gap at least, so is its sum, which is equal only if all terms are
(`SumsCompare`). `ReportWeighs` compares the terms, frequency by frequency: `FREQUENCY_PER_WEEK`
and `multiplier` differ in the last two of the six only, there by 48/52 of a minute a week at
least, which is more than rounding can hide (`RoundsToTheNearest`: half a hundredth of an hour
either way). So the rounded total is that near the one shown exactly when no rare function
counts. Three sums are rounded before they are compared with the shift, so the comparison is
that of the hours shown unless the two are within three halves of a hundredth, 54 seconds
(`ThreeRoundedSums`).

**`CatalogPagesProofs`**: `CatalogIsSound`, `RowsFollowTheServer` and `FormsSendWhatIsTaken`,
for any number of rows and requests and each of the eleven pages. `CatalogInv` is the types, the bookkeeping of requests
(`Bookkeeping`), and, unless `cExcused`, `Fresh`: at most one list request counts, it asks for
the page and filter on screen, and what it brings (or, without one, what is shown) is the
server's current page, unless a write that succeeded has yet to be answered and will reload.
A page that steps back moves without a reload of what it shows, so for it `Within` adds that
no page is named beyond the rows there are or were before the deletions on their way;
`PlacesAreTaken` (every page up to the number of rows has a row) and `SliceOfRows` connect the
two. The handlers are compositions of `Load` and `Show`, whose lemmas `LoadKeeps`, `ShowKeeps`
and `StillKeeps` carry most of the proof. The last theorem has no state in it: ten lemmas, one to a
form, find what the form lets through and the request object refuses (`AreaGaps` to
`UserGaps`), `GapsByForm` and `KnownByForm` put them together, and `ParentIsKept` follows the
parent of a plaza through the row and the form.

Assumptions: the named `ASSUME`s of the modules (`RequestsAssumption` in several: finitely
many processes; limits positive; the "nothing" values are not members; no identifier is of two
tables; for the client, `ReviewAssumption`: declarations are numbered from 1,
`WizardAssumption`, `LogAssumption` and `CatalogAssumption`: the bounds are natural numbers and
pages of the log hold at least one entry). `AtMostOneIncomplete`
rests on the atomicity of the external `FN_REGISTER_DECLARATION`.

Only model-checked: `EveryRequestAnswered`, `CatalogSettles` and `PagesSettle`, which are
liveness under fairness, and that a transaction that may run has its step enabled (the part of
`NobodyStuck` beyond `SomebodyMayRun`), which is `ENABLED`; both are out of the prover's reach.
Every other property of a run is the property of a theorem.

## 5. Seen while modelling, without a run

- The deletion that `plazas_reanchored` refutes fails for deleted plazas too: while a plaza hangs
  from a department or unit, that cannot be deleted. `PlazasHoldTheirParents` proves it.
- A deleted section cannot be restored: `SectionService` (196) tests an `is_deleted` that
  `findById` does not select. `AskRestore` leaves sections out for that reason.
- `updateSection` and `deleteSection` do not look at `is_deleted`; the theorem
  `DeletedRowsStayFrozen` is stated for the other tables, and `Organization` lets a section be
  moved in either state.
- Nothing removes old rows of `RATE_LIMITS`; the model has no such job.

In the session of the tab (the overlaps that `sExcused` records):

- A logout sent while a refresh is in flight presents the token that the refresh replaces:
  the server answers 200 and revokes nothing, and the answer of the refresh stores its tokens
  after `cleanAuthStorage`. They are without a user id, so the next load of the page drops them.
- A login during `initializeAuth` can lose its new session to the second failure of the old one.
- When the answer of `getMe` is lost after the interceptor has refreshed, `initializeAuth`
  refreshes with the captured token, which has been rotated, and drops a session that lives.
- A wrong password at login is a 401: the interceptor has no refresh token and reloads the page.

In the administration pages (`cExcused`, and what the properties do not claim):

- Only `CustomFunctionsPage` ignores answers of an earlier page or search. On the others the
  last answer wins. `isSubscribed` of Departments and JobClass is passed by value, so
  setting it to false later has no effect.
- Deleting the last row of a page beyond the first leaves an empty list without page buttons, on
  every page but Users. Users steps back with `setPage(p => p - 1)` from the page as it is by
  then, which may be 0, and only when one row was on the page as the delete was sent: sent from
  a dialog over a page that has emptied meanwhile, it leaves that page on screen. Creating a
  user on page 2 after moving to 1 reloads nothing.
- The page buttons of the previous filter stay until the new rows arrive.
- A form that was closed with Escape while it saved, and another opened since, is closed by the
  late answer.
- `KnownGaps`: the name `0` is empty to the API; a name or description with characters of two
  bytes or more (ñ, á) can fit its input and not the API, which counts bytes
  (`RegisterUserDTO.php:76`, `AreaRequestDTO.php:56`, `CreateJobDTO.php:80`); an address only
  has to end with `@ucr.ac.cr` for the form (`validation.ts:1-5`), and to be one for the API
  (`EmailValidator.php:32-38`); the form of a job class takes the codes 0 to 200000 and the API
  1 to 99999; the rules of passwords are the API's only.

In the review and the log:

- The page asks for 500 declarations (`DeclarationsPage.tsx`) and the API returns 100 at most.
  A link to an older one (`?open=`, line 120) finds no row, is dropped, and opens nothing.
- `openDetail` does not look at which entry is open when its answer comes: closed and opened on
  another entry meanwhile, the dialog shows the details of the first under the second, and the
  state says nothing of it. For this reason no property is stated about them.
- The pages of the log move while they are collected, so an entry can be in the sample twice;
  what `SampleHasNoGaps` says is that none is left out. It rests on entries being committed in
  the order of `created_at`, which is all that `LogRepository.php:111` sorts by.

In making a declaration:

- What `CompletedMeansJustified` excuses, and all it excuses: *Complete* pressed while an
  addition, the load of the hours that follows it, or an earlier completion is on its way; an
  addition that the server carried out and whose answer was lost; and two loads that overlap
  after an addition, of which the older answer may come last (`loadData` sets the hours before
  anything looks at `active`, `AdditionalInformationPage.tsx:40-63`). In each of these cases the
  declaration can be completed over its shift without a justification.
- *Complete* stays enabled while the hours are loaded again, and during the 1.5 seconds
  before the page leaves; the timer leads home from wherever the user has gone by then. A
  double *Next* sends two creations, of which the server refuses the second.
- Clearing the overtime of a report is not sent (`undefined` is dropped), so the row keeps it.
  A creation whose answer was lost, repeated, leaves two rows of one function. An update
  answered after a removal brings the report back on the page.
- Quarterly and half-yearly functions count as weekly in `calcTotalDeclaredHours` and not in the
  total of the functions page. Thirty minutes a month are 7.5 a week on that page and 0.13 h,
  7.8 minutes, in the declaration. Of a shift of forty hours, 39 h 40 of functions with ten
  minutes of licenses and ten of rests are 40.01 h, and a justification is required
  (`JustifiedWhenOver` has the example). The test of the shift compares hours without minutes and
  without their order, and refuses a shift over midnight.

## 6. Not modelled

- Roles and soft delete of users, names and their uniqueness, and the migration runner:
  planned below.
- The HTTP layer, mail and identifiers keep no state the other parts read: their role checks
  are guards, their failures are `StatementFails`, identifiers are fresh values. Of the log,
  the list the activity page reads is modelled; the filter that leaves out technical entries
  (`isBusinessEvent`) is not.
- Of the client: dashboards and charts, the list of the employee's own declarations, reading
  aloud and the accessibility menu, the layout of the PDF and of the CSV file, the Back button
  of the browser, several tabs (`sessionStorage` belongs to one). They show what they load, or
  never call the API.
- Text, formats, hashes and dates are abstracted wherever no property depends on them;
  `ClientForms` keeps of a value only the class that decides whether it passes.

## 7. Plan

1. Done: the server's core (`Declarations` with its abstract lifecycle, `DeclarationEntries`,
   `RateLimiter`, `AuthSessions`, `OrgStructure`), the session of the client and its screens,
   and proofs for all of them: every safety property the passing runs check is a
   theorem, up to what section 4 leaves to TLC.
2. `Users`: registration, roles, soft delete and restore; what two administrators can do to
   each other; sessions of a deleted user, composed with the tokens.
3. `Names`: check-then-insert of names of the organization and catalogues, with and without
   a unique index behind it. Then `Migrations`: crash between a statement and its record.
4. The screens of `ClientPages` over the session instead of beside it: a form whose request is
   held behind a refresh.
5. Proofs: for `Users` and `Names` when they are written; an abstract session (one pair,
   honoured or not) that `ClientSession` and `AuthSessions` both implement, as the declarations,
   their entries, the rate limiter and the organization already implement theirs.
