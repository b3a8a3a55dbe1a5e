# Verification of volunteer-manager

A TLA+ development kept beside volunteer-manager, a FastAPI application in which
volunteers register for the shifts of an event and an organisation team plans,
confirms, rejects, checks in and checks out. TLC explores the models on small
instances; TLAPS proves the most important results for instances of any size.

    tlc -workers 2 -config RegistrationQueue.cfg MCRegistrations
    tlapm RegistrationsProofs.tla

Paths below are relative to `src/`.

## 1. Inventory

| Component | State | Operations | Interacts with |
|---|---|---|---|
| Shift allocation (`app/services/registrations.py`, `app/api/public.py`) | `volunteers`, `shifts`, `shift_assignments` | register, edit, cancel a shift | queues mails; shares its rows with every other handler |
| Administrator's workflows (`app/services/admin.py`, `app/main.py`) | the same rows, audit log | assign, change status, promote from the waitlist, reject, anonymize, bulk actions, shift planning | queues mails, revokes edit access |
| Check-in desk (`app/services/checkins.py`) | `check_ins`, `check_in_materials` | check in and hand out material, check out and take it back | assignment status, team material |
| Sessions of concurrent requests (`app/database/session.py`) | one SQLAlchemy session per request | load, flush, commit | every handler runs in a thread of FastAPI's pool |
| Permissions (`app/services/permissions.py`, `app/api/admin_permissions.py`) | `permissions`, `permission_mappings` | add, remove, relabel a mapping | decides who may call any administrator's route |
| E-mail verification and outbox (`registrations.py`, `mail_templates.py`, `mail_delivery.py`) | verification token, `outbox_messages` | issue, verify, queue, send automatically or by hand | SMTP server |
| Graph mail (`app/mail/`, `app/api/admin_mail.py`) | the last outcome in memory, audit log | test mail: send with retries | Microsoft Graph |
| OIDC sessions (`app/auth/oidc.py`) | two bounded in-memory tables under a lock, the browsers' signed cookies | begin and complete a login, look up, log out | identity provider |
| Planning data (`app/main.py`) | events, teams, roles, materials, briefings | create, edit, delete if unused | shifts refer to roles, issues to materials |
| Branding, legal links (`branding.py`, `legal_settings.py`, their routes) | one row each, audit log | set a URL, upload, reset; set the links | pages |
| Seed, exports, pages, QR codes, filters, diagnostics | none of their own | read rows, render | - |

What is hard here. Handlers are plain functions run in a thread pool, each with
a session of its own; almost everything is check-then-act on rows nobody locks.
SQLAlchemy writes back only the columns a handler changed, so two handlers that
overlap merge rather than overwrite. Capacity, waitlist order, time conflicts
and edit access depend on sequences of steps by several people: an administrator
may lower a capacity, move a shift, overbook it or revive a row between two
public requests. Shift deletion cascades. `PROJECT.json` lists each hazard at its
line with the properties that guard it.

What makes each component correct:

* allocation: public requests never overbook, waitlists fill only when a shift is
  full and promote in order, nobody is left with overlapping shifts by an edit,
  revoked access stays revoked, history is kept, tables stay consistent;
* concurrency: the tables stay consistent, a stale commit does not undo a
  revocation, and nothing goes wrong unless some read was stale;
* permissions: the last `admin` mapping stays, and no removal waits for ever;
* mail: a verified address is one its owner confirmed, anonymization lasts, a
  message is repeated only after a mishap, an automatic one is tried;
* sign-in: a browser is signed in only as somebody who proved it from there, a login is
  completed once, a logout lasts, and entries leave the tables for a reason;
* settings and test mail: a save is refused only to a rival logo, the audit log tells what
  is in force, copies of a mail are accounted for, retries end;
* materials: what is handed out beyond the stock is bounded, records and hands agree,
  whoever attended returned everything, and planning data in use stays.

## 2. Modules

| Module | Models | Kind |
|---|---|---|
| `Registrations` | the handlers on volunteers, shifts and assignments, each one atomic | specification |
| `MCRegistrations` | bounds and inputs for TLC | model |
| `RegistrationsProofs` | theorems about `Registrations` | proofs |
| `Requests` | the same handlers as concurrent requests: read and decide, then commit | composition; refines `Registrations` with one thread |
| `MCRequests` | bounds and inputs for TLC | model |
| `RequestsProofs` | theorems about `Requests`, on top of those about `Registrations` | proofs |
| `SerialProofs` | when `Requests` looks like `Registrations`: fresh commits, one thread | proofs |
| `PermissionMappings` | what editing the permission mappings promises | abstract specification |
| `AdminPermissions` | mappings, and the statements of `remove_mapping` one by one | specification; refines `PermissionMappings` |
| `MCAdminPermissions` | a set of mappings for TLC | model |
| `AdminPermissionsProofs` | theorems about `AdminPermissions`, the refinement among them | proofs |
| `VolunteerMail` | one volunteer's address and its verification, the outbox, concurrent requests that write either, sending, crashes | specification |
| `MCVolunteerMail` | bounds and inputs for TLC | model |
| `VolunteerMailProofs` | theorems about `VolunteerMail` | proofs |
| `Materials` | stock, issue and return of materials, teams, roles and the roles of shifts, under concurrent requests | specification |
| `MCMaterials` | bounds and inputs for TLC | model |
| `MaterialsProofs` | theorems about `Materials` | proofs |
| `SignIn` | what signing in promises to people at browsers | abstract specification |
| `OidcSessions` | the tables, the cookies and the requests on the way | specification; refines `SignIn` |
| `MCOidcSessions` | bounds and inputs for TLC | model |
| `OidcSessionsProofs` | theorems about `OidcSessions`, the refinement among them | proofs |
| `GraphMail` | one test mail: token, attempts, outcome | specification |
| `AdminSettings` | logo, legal links and the audit log under concurrent requests | composition with `GraphMail` |
| `MCAdminSettings` | bounds and inputs for TLC | model |
| `AdminSettingsProofs` | theorems about `GraphMail` and `AdminSettings` | proofs |

### Registrations

State: `shift` (rows of `shifts`: status, `needed_count`, `waitlist_capacity`, start
and end), `volunteerStatus`, `editToken` (`edit_token_hash` with
`edit_token_revoked_at`: none, valid or revoked), `anonymized`, `assignment` (the
`assignment_status` of the one row per person and shift), `registered` (the rows of
a shift in the `(registered_at, id)` order in which promotion reads them),
`checkin` (who has a `check_ins` row), and `registrationOpen` (what
`_validate_event_is_open` decides).

Each action is named after its handler and covers it from the first query to the
commit. A handler that raises leaves its session uncommitted and `get_db` closes it,
so error paths change nothing and are stuttering steps; the guards are the
conditions under which the handler commits. One event is modelled: handlers refuse
to mix events. `create_shift` and `edit_shift_submit` take any form of
`ShiftForms`; `registration_window` is what `edit_event_submit`, `archive_event` and
the clock do to the registration window.

### Requests

The variables of `Registrations` play the session at work, `db` the committed rows.
`HandlePublic`, `HandleCheckIn` and `HandleAdmin` let a thread take any step of
`Registrations` on what is committed and keep what it loaded (`seen`) and left
(`wanted`). `Commit` merges the difference into the rows committed by then: column
by column, as the unit of work does, refused if a unique or foreign key is violated
or a row to update is gone, with the cascade of a deleted shift. A new row's place
in the promotion order is any that its `registered_at` allows. `get_db` gives the
next handler a fresh session.

Not modelled: reads of one handler that see different commits (all reads happen at
the point of `Handle`), and the two commits of `promote_first_waitlisted` apart
(the second only queues a mail).

### AdminPermissions and PermissionMappings

`remove_mapping` is cut into its statements: find the row, lock the permission row,
count, delete and commit. `RowLock` says whether `FOR UPDATE` locks (PostgreSQL) or
does nothing (SQLite). `add_mapping` inserts a row that refers to the permission row
and therefore waits for its lock. `Init` is what the migration and bootstrap leave.
`Authorized` is `has_permission`: somebody with an admin mapping, or everybody while
`auth_mode` is "disabled" (`NoAuth`).
A removal deletes the row it found by that row's id (`target`): if another request
removed the row and the same mapping was added again meanwhile, the new row is not its
own, and it deletes nothing (`NoMapping`).

`PermissionMappings` is what an administrator may assume: mappings are added by somebody
authorized, removal is asked for by somebody authorized, and a mapping goes only on such
a request and only if another `admin` mapping stays at that moment. The refinement keeps
`mappings` and maps `asked` to the rows some thread is removing (`Asked`); with row locks
the statements of concurrent requests add up to steps of this specification.

### VolunteerMail

State: `row` (address, `email_verified_at`, `email_verification_token_hash`, edit access,
`anonymized_at` of one volunteer), `outbox` (its `outbox_messages` in id order, each
addressed and given its mode when it is queued), `template` (delivery modes), `smtp`
(configured and enabled), `issued` (tokens handed out; a token is its number, and 0 is
no token), and per thread `at`, `request` (what its session loaded and is about to
write) and `list` (ids it has still to send, taken in the order of ids: `Current`). `copies` counts what reached the mailbox.
`confirmed`, `stale`, `mishaps` and `crashed` record history for the properties.

A request runs in phases, and other threads run between them: the handler reads and
decides; `Commit` writes the columns it changed and inserts its messages;
`send_pending_automatic_messages` loads the list; then for each message `send_message`
(or `delivery_fails`) and `mark_sent`, which commits. The loaded SMTP configuration is
kept by the session until that commit and read again before the next message
(`configured`, `delivery_disabled`). `crash` ends every request: only what was
committed or accepted by the server remains. A failed delivery may or may not have
reached the mailbox.

One volunteer is modelled, since no statement about mail relates two of them. The
registration window is left out: any edit may come at any time.

### Materials

State: `db`, the committed rows as a record of one function per column (`team`, `role`
and `material` say which rows exist; `available`, `active`, `shiftRole`, `status`;
`checkin` says who has a `checkins` row; `issue` is the row of `checkin_materials` for a
check-in and a material: none, out, back, or used for consumables), and `request`, what
each thread loaded and is about to commit. `hands` is what people physically hold:
given when a check-in is confirmed, taken back when a check-out that listed it is.
`peak`, `stale` and `overridden` record history.

A handler is one action on the committed rows. `Commit` merges changed columns
(`Flushed`), then cascades (`Cascaded`: teams take roles and materials along, roles
leave their shifts). `Refuse` is a commit that a key, a missing parent or a vanished
row makes fail; that includes deleting a team or a material with issues, whose
foreign key has no `ON DELETE`. `change_assignment_status` stands for everybody who
sets a status outside the desk. Shifts and assignments exist throughout; an id is not
used twice while a request still knows its former row.

### OidcSessions and SignIn

State: `transactions` and `sessions` (the two dictionaries: id, expiry, and whose a
session is), `cookie` (what each browser's signed cookie names), `request` (requests on
the way, each with the cookie it was sent with) and `now`. Logins and sessions are
numbered in the order in which they are begun or established; an id drawn at random by
the code is such a number. `begun`, `redirected`, `answers`, `established` and `ended`
record history.

A request is sent with the cookie of that moment (`Ask`), handled, and its answer
delivered later (`Deliver`) or lost (`Lose`). `complete_login` is cut at its await:
`pop_transaction` takes the transaction out, `complete_login` or `exchange_fails` comes
after the exchange. A callback may be sent by any browser, with any answer the provider gave, whoever began
that login; what becomes of it is decided by the browser's cookie and the state in the
answer (`StateMatches`). Every handler purges what it purges in the code and no more, so
expired entries stay until somebody looks (`Live`). An answer sets the cookie whatever
was answered meanwhile: a late answer can bring back the cookie of an earlier session
or of one that was logged out, and a session whose answer is lost stays in the table
with no browser holding it. `SessionMiddleware` sends the cookie with every answer; its
`max_age` is renewed by it and not modelled. `Restart` empties the tables, not the
cookies.

`SignIn` says what remains of this for a person: `who` is signed in at each browser,
and what was `proved` from it. The refinement maps a browser to the user of the
unexpired session its cookie names (`SignedIn`).

### GraphMail and AdminSettings

`GraphMail` follows the test mail of one thread: access token, up to `MaxAttempts`
requests (`post_answered`, `post_unanswered`, then `post_again` after the delay), then
`record_test_status`. `outcome` is the code's `error_code` while the attempts go on. Their
number is bounded as in the code, by the range of the loop (`post_again`) and by the
test each retry makes before it sleeps (`Retry`). The service may accept a message and not answer, or answer 5xx;
`copies` counts what it accepted, `doubtful` the attempts whose answer did not tell.

`AdminSettings` adds the rows `branding` and `legal` (each inserted by its migration,
so the branch that would create it is not reached), `audit` and `request`. A route
validates its input and sets all columns of the row it loaded; `Commit` writes the
columns that differ from what was loaded, and the audit entry in the same transaction.
Commits that overlap can mix the columns of two requests. The check constraint
(`logo_source`) refuses the mixture of two logos, and `RefusalNeedsRival` says that
nothing else is refused: every setter empties the columns of the other kind, so the
constraint bites only if such a logo came in after the row was read. A mixture such as
data without a content type is accepted, and served as the default logo while the audit
log says "upload"; `mixed` remembers that. Logos and links are members of small sets of records that name
what validation looks at (scheme, host, size, active content).

## 3. Runs

| Run | Instance | Shows |
|---|---|---|
| `RegistrationQueue` | scene "queue": 3 people, 1 shift of 1 place with a waitlist of 1, 2 administrator steps; scene "conflicts": 2 people, 2 shifts, 1 step | types, references, capacity, waitlist, promotion order, conflicts, releases by rejection, retained rows, no overbooking by new rows |
| `AdminOverbook` | 2 people, 1 shift | **violation**: re-assigning an existing row overbooks |
| `RequestsRace` | 5 requests; scene "race": 3 people, 1 shift, 2 threads, 3 of the requests by administrators; scene "serial": 2 people, 2 shifts, 1 thread, 2 by administrators | what survives races (consistent tables, revoked access), and that anomalies need stale reads: a commit on fresh reads is a step of `Registrations` |
| `RequestsHistory` | 2 people, 1 shift, 2 threads | **violation**: a shift deletion takes a concurrent registration along |
| `PermissionsLocked` | 4 mappings, 3 threads, row locks | mappings change as if requests were served alone (`PermissionMappings`); the last mapping stays; removals end |
| `MailVerification` | 2 addresses, 2 threads, 3 requests, 1 message sent by hand, 1 crash | verified means confirmed, anonymization lasts, repeats need a mishap |
| `MailDelivery` | 2 addresses, 2 threads, 2 requests, 1 sent by hand, 1 change of settings | every automatic message is kept by a thread until it is tried, and is tried |
| `MailAnonymized` | 2 addresses, 2 threads, 3 requests | **violation**: the outbox keeps the address |
| `MaterialsDesks` | 2 assignments, 2 materials, 2 threads, 4 requests of which 2 not at the desk | references, bounded over-issue, records against hands, roles in use |
| `MaterialsHandover` | the same with 1 thread, 1 request not at the desk | **violation**: a material returned once is handed out again without a record |
| `OidcSessions` | 2 browsers, 2 users, 5 requests, 2 answers of the provider; scene "race": 2 logins, 2 requests on the way; scene "pressure": 3 logins, 1 request on the way | sign-in as `SignIn` promises, logins completed once, logouts, lifetimes, who leaves the tables |
| `AdminSettings` | 2 threads, 3 attempts, 4 statuses; 3 edits, or 2 test mails, or fewer of both | saves refused only to a rival logo, the audit log, copies accounted for, retries end |

Bounds and why they are enough. One place and one waiting position make every
capacity boundary reachable with three people: free, full, waiting, waitlist full,
overbooked. Two shifts are enough for a conflict between two rows; the claim about
neighbours in a longer selection is proved for any number. `MaxAdminSteps`
(`MaxAdminRequests`) limits the administrator's steps in a behaviour because shift
edits and bulk changes otherwise multiply the states; public and check-in steps are
not limited in `MCRegistrations`. Two steps suffice to lower a capacity or overbook
and then act again; the theorems do not depend on the bound. `MaxRequests` ends the
behaviours of `MCRequests`: five requests allow a public request, three
interventions and one more public request, with two in flight. The statuses an
administrator submits are one representative per way the handlers treat them
(takes a place for both counts, waits, counts for the public only, final,
refused). People, shifts and threads are symmetric: no handler orders them.
Three requests are what a volunteer's address needs to be entered, changed and
confirmed late, or entered, verified by one thread and anonymized by another;
`MaxCopies` 2 tells once from repeated. `MailDelivery` has no symmetry, which TLC may
not combine with liveness.
Two assignments and two threads let two desks issue the last item at once, and stock 0
or 1 puts every check at its boundary; four requests reach a return followed by a new
hand-out, and two of them suffice for every race of a deletion with a use. TLC starts
`Materials` from a complete plan or none.
`OidcSessions` holds 1 session and 2 transactions, so that two or three logins fill both
tables; sessions live for 1 tick and transactions for 2, so that either can end first
in each order. Five requests are two logins, their callbacks and a page or a logout; two
requests on the way suffice for every overlap of a request with the await of a callback
or with a late answer. In `AdminSettings` three edits let two race and a third mend or
mix again; three attempts are the code's default, and the four statuses stand for
accepted, refused, throttled and doubtful. Test mails and edits share only the audit log,
hence one test mail beside two edits.
The bounded models stop when the requests are used up, so those runs do not check
deadlock; the permission runs do.

Fairness. `PermissionsLocked`: a thread inside a handler keeps running (weak fairness
of counting and deleting), and PostgreSQL serves the waiters of a row lock in order
(strong fairness of taking it). `MailDelivery`: a thread that began a request
continues it (weak fairness of `Continue`): `smtplib` is called with a timeout of 15
seconds and nothing else there waits. Nobody is forced to send a request, and
`MailIsTried` claims nothing of behaviours in which SMTP is disabled or the process
ends. `AdminSettings`: a thread that began a test mail continues it (weak fairness of
`Continue`): httpx gives a request up after 15 seconds and the delays are finite. The
service need not ever answer.

## 4. Findings

1. `assign_volunteer` checks conflicts and capacity only for new rows; for a row that
   exists it changes the status at once (`app/services/admin.py:97`). A person who
   cancelled can be confirmed into a full shift (`AdminCannotOverbook`).
2. `delete_or_cancel_shift` deletes a shift it saw empty; a registration committed in
   between is removed by the cascade (`HistoryIsRetained`), against
   `DECISIONS.md:59`.
3. `anonymize_volunteer` empties the volunteer's row; the messages in the outbox keep
   the address (`AnonymizationRemovesAddress`, `app/services/admin.py:225`), against
   its docstring at `app/services/admin.py:218`.
4. A material that somebody returned is handed out again to the same assignment
   without a record (`HandoverIsRecorded`): `existing_ids` at
   `app/services/checkins.py:59` contains returned issues, against the docstring at
   `app/services/checkins.py:1`.

Three more behaviours of the models have no run of their own. A check-out asks only for a
check-in record, so a row cancelled or rejected after its check-in becomes attended
again, in a shift that may be full by then (`app/services/checkins.py:95`). A rejection
rejects the rows it loaded, so an edit in flight can leave the rejected person in a
shift (`app/services/admin.py:191`). On SQLite, where `RowLock` is false, two removals
of admin mappings in one process can both succeed (`app/services/permissions.py:94`).

Some properties hold up to a race and do not exclude the race itself, which the models
contain. `FreshCommitIsSerial` and `OverbookingNeedsStaleReads` leave two registrations
that take one place at once; they say that nothing but such a stale read overbooks.
`VerifiedWasConfirmed` and `AnonymizedStaysEmpty` (`~ stale`) leave a link that is opened
while the address is being changed, which commits `email_verified_at` onto the new
address, and an edit in flight that writes the address back onto an anonymized row, since
sessions merge by column. `AttendedHasReturned` and the second part of `RecordsMatchHands`
leave a check-out that overlaps another session on the same record; `RoleIsLostToRacesOnly`
a shift that is given a role while it is deleted; `AuditTellsSettings` (`mixed`) a row that
mixes two overlapping saves, until the next save mends it.

## 5. Proofs

Everything proved holds for any `Volunteers` (finite), `Shifts`, `ShiftForms`
(that satisfy the handlers' own validation), `Mappings`, `Threads`, `Browsers`, limits
and lifetimes (positive), and for any instance of the constants each module names.
The assumptions are those named in the modules; TLC evaluates each of them in some run.

* `RegistrationsProofs`: `TypeCorrect`, then `TablesConsistent`. The inductive
  invariant is `TypeOK /\ Consistent`: that the promotion order lists each row once
  needs that rows only ever appear through `SetRows`, and `CheckedInHasRecord`
  needs that no handler but the check-in sets `checked_in`. The action properties
  `AssignmentsAreRetained`, `RevocationIsPermanent` and `RejectionReleasesPlaces`
  follow from the same case analysis, one step per action.
  `PublicRespectsCapacity` and `WaitlistRespected` rest on
  `HoldersGrowByOne` (a public step changes the rows of one person, so each count
  grows by one at most) and `PublicStepRows` (what a public step may do to a
  row). `PublicEditResolvesConflicts` rests on `NeighboursSuffice`: if neighbours in
  start order do not overlap, no two shifts of the selection do; its proof takes the
  least start after a shift (`LeastNatural`). `PromotionsAreFair` uses that the
  order has no repetitions. `NewRowsFit` is the complement of finding 1: a row that is
  inserted and takes a place found one (`NewRowFits`), so a shift is overbooked only by
  setting the status of a row that was there before.
* `RequestsProofs`: `RequestsInvariant`, then `RacesKeepTablesConsistent`,
  `RacesKeepRevocations` and `OverbookingIsAlwaysStale`. Consistency of the committed rows
  is not inductive: a commit merges what was decided on rows that have changed since. So
  `RequestsInv` carries with every pending request what its handler decided, as a
  relation between the rows it loaded and those it left (`Decision`: both are sound,
  nothing is lost, rows of one person per shift are inserted and never as checked in,
  tokens change by revocation or with a new person, a public one stays within
  capacity), and what may have happened to the committed rows since (`Drift`: nobody
  vanished, a check-in is still there unless its shift went, what the request creates
  exists nowhere yet). `HandlerDecides` gets the first from the lemmas about
  `Registrations` (`SoundSession` translates between the session's variables and a record
  of rows); `MergedSound` shows that a commit that no key refuses keeps the rows sound,
  and `MergedDrift` that it leaves the others what they rely on.
* `SerialProofs`: `FreshCommitsAreSerial` says that a commit onto the rows its handler loaded
  is a step of `Registrations`. The handler's step happens earlier, so the invariant
  `SerialInv` carries it: every pending request holds, as a relation between the rows it
  loaded and those it left (`StepRelation`, one disjunct per handler), what its handler
  did, and committing onto the same rows replays it, the places of new rows in the
  promotion order included. With one thread no read is stale (`NothingStale`), hence
  `OneThreadIsSerial`: `Requests` refines `Registrations`. `Alone` instantiates the theorems
  about `Registrations` for the committed rows, and `SameNext` identifies its actions with
  those of `Committed`; so `OneThreadKeepsHistory` (with one thread finding 2 cannot happen) and
  `OneThreadKeepsPromises` (capacities, waitlists, conflicts, promotion, rejection) hold of
  the deployed handlers, whose reads and commits are apart.
* `AdminPermissionsProofs`, under `RowLock = TRUE`: `Serialization` is the inductive
  invariant (whoever counts or deletes holds the lock, two mappings remain before a
  deletion, the lock is only held by a thread at work, and a thread that found its row
  still names it or knows it is gone), `LastMappingRemains` its consequence. `Implements` is the
  refinement of `PermissionMappings`: a deletion is `Remove` because the lock keeps what
  was counted true until the commit, and whatever ends a removal otherwise is `Refuse` or
  a stutter, depending on whether another thread still wants the row removed.
* `VolunteerMailProofs`: `VerificationSound` and `AnonymizationLasts`, for any addresses
  and threads. The inductive invariant says, while no commit was stale, that every
  token is at most `issued`, that a message with the current token is addressed to the
  current address, and that a session still to be committed either leaves the row
  as it is or hands out a token nobody else has; only then is a link opened after
  an address change known to be dead. `CopiesNeedMishaps`: a message no mishap befell is
  in the list of one thread at most, unsent, and a copy of it is marked as sent or
  about to be (`CopiesInv`); that needs that lists shrink from their smallest id on
  and that a list is only loaded while nobody else holds the message, or else both
  threads' overlap is recorded as a mishap. `MailIsNotForgotten` is the safety core of
  `MailIsTried`: with `DeliveryInv` (a list is empty outside the sending loop, and only
  requests that go on to send queue anything) every step leaves an untried automatic
  message with a thread that has it on its list or is about to load it.
* `MaterialsProofs`: `RowsAreTyped`, `ReferencesLast` and `OverissueBound`, for any plan,
  stock, number of assignments (finite) and threads. That items used exceed the stock by
  less than the number of threads is not inductive: a request that looked at the stock
  issues its item later, when others have. `StockIsBounded` therefore counts whoever is
  about to issue (`Issuing`) as having issued: when a check passes, fewer items are out
  than in stock, and the threads in flight add at most one each. It
  needs `SessionsDecide`: a request in flight opens at most one issue of a material
  (`Decision`), on check-in records that are still there when it commits.
  `HandsOnRecord` and `LeaversReturn` rest on `HandsInv`: a request in flight gives and
  takes exactly what it writes (`Handover`), and, while no commit was stale, nobody in an
  assignment whose status was not set by hand holds anything off the record.
  `RolesLostToRaces` needs that only a cascade takes a role without an edit.
* `OidcSessionsProofs`: the inductive invariant `IInv` says that a cookie naming a session is
  found only in the browser the session was established for, or on a request or an
  answer of it, and a cookie naming a login only where that login was begun, which is why
  a callback opened in another browser signs nobody in; that what a callback works on after its pop is in no table, in no other
  request and in no session (`PoppedOnce`, `Unused`), which is why a login is completed
  once; and that a session ended by a logout is in no table (`EndedGone`). `EntriesLeave`
  needs that entries are inserted in the order of their expiry (`ExpiriesAhead`).
  `Implements` maps every step to a step of `SignIn` or a stutter: a delivered answer is
  `EnterAs` or `Leave`, a tick, an eviction, a logout or a restart is `Leave` of the
  browsers concerned.
* `AdminSettingsProofs`: `IInv` adds to the properties that a sending in progress has accepted
  no more copies than doubtful attempts (`SendingCounts`) and that every pending request's
  audit entry describes the row it wants (`PendingTells`): a commit onto the row it
  loaded then makes the newest entry true, and any other one is remembered in `mixed`.
  `RefusalsNeedRivals` needs besides that what a setter wants and what a request loaded
  each hold one logo at most (`EntryTells`): the merged row then holds two only if the
  other kind came in since the read (`ClashNeedsRival`).

Only model-checked: `RemovalsEnd`, `MailIsTried` and `TestMailEnds`, because liveness under
fairness is out of the prover's reach. What they rest on is proved: no lock is left behind
(`Serialization`), no message is without a thread that will try it (`MailIsNotForgotten`), and
attempts are bounded (`AdminSettingsProofs`).

## 6. Not modelled, and the plan

Done, in this order: `Registrations`, `Requests`, `AdminPermissions`, `VolunteerMail`,
`Materials`, `OidcSessions` with `SignIn`, `GraphMail` with `AdminSettings`, each with its
proofs. What could follow:

1. Events as rows (creation, edit, archiving, and the clock against
   `registration_opens_at` and `_closes_at`) in place of the input `registrationOpen`.
2. `ParticipantAge`: `age_on_date` against its calendar definition over bounded dates.
3. Reads of one handler that see different commits (READ COMMITTED) in `Requests`.
4. The second transaction of a promotion, which queues its mail, as a step of a
   composition of `Registrations` with `VolunteerMail`.

Parts marked "partly" leave out: names, contact data, ages and mails in `Registrations`;
READ COMMITTED in `Requests`; labels in `AdminPermissions`; subjects, bodies and
configurations that are enabled and still refuse to send in `VolunteerMail`; lanyard,
wristband, radio and goodiebag flags, which nothing depends on, in `Materials`; events
and briefings among the planning data.

Out of scope: rendering, exports, QR codes, filters, header parsing of the
authentication adapters, diagnostics and seed data; they compute from rows and change
nothing that the properties are about.
