# Coaching Institute CRM: verification

TLA+ models of the parts of the CRM (`src/institute_crm`) where several requests, tasks,
callbacks or processes work on the same rows, the TLC instances that check them, and TLAPS
proofs about them. Paths below are relative to `src/institute_crm/`.

| module | what it is | run |
| --- | --- | --- |
| `SeatLedger` | what the admission desk promises about seats, as an atomic ledger | |
| `Enrolment` | enrolments, batches, attendance marks, profiles and conversions as concurrent requests | `desk`, `all`, `mixed` |
| `Delivery` | WhatsApp deliveries: campaigns, Celery tasks, provider callbacks, retries | `delivery` |
| `Timetable` | weekly slots, dated lectures, roll calls and their corrections | `timetable` |
| `Access` | what a teacher is shown and may do, on the state of `Timetable` | `timetable` |
| `Reconnect` | the database engine's replay of a broken-off statement | `sessions` |
| `Sessions` | refresh tokens, the tables that revoke them and their repair at boot | `sessions` |
| `Accounts` | users, passwords, avatars, branches | `accounts` |
| `Admissions` | leads, conversions, fee structures, installments, payments, the dashboard's cards | `admissions` |
| `Coursework` | submissions, results, attendance of one batch | `reports` |
| `Reports` | the reports of five services, as functions of that state | `reports` |
| `Catalogue` | courses, subjects, batches, materials | `knowledge` |
| `Knowledge` | documents, chunks and ingestion jobs of the assistant, on top of `Catalogue` | `knowledge` |
| `Handset` | the session of the mobile app and the push token of its handset | `handset`, `handset_wedged` |

`MC*` modules hold the instances, `*Proofs` the theorems (of `Enrolment`, `Delivery`, `Sessions` and
`Handset`, `Timetable` with `Access`, `Accounts`, `Admissions`, `Coursework` with `Reports`,
`Catalogue` with `Knowledge`). Every safety invariant and action property of the passing runs is
proved; what stays with TLC is under "Only model-checked".

## Inventory

The backend is a Django application on PostgreSQL (READ COMMITTED, no `ATOMIC_REQUESTS`)
served by several processes. A view loads a row (`get_object`), a service method runs in
`transaction.atomic` and writes; a few methods lock rows with `select_for_update`; most test
the row the view loaded, and many save every column of it. WhatsApp messages are sent by Celery
tasks. The clients use the API; the mobile one keeps a session of its own.

| component | state | operations | hard behaviour | what makes it correct |
| --- | --- | --- | --- | --- |
| enrolments (`academics/services/enrolment_service.py`) | `CourseEnrolment` rows, unique per (student, course); copy of the batch in `StudentProfile` | enrol, transfer, set status, withdraw | races for the last seat, rows loaded before the lock, soft-deleted rows still in the unique key | no batch over capacity; a closed enrolment stays closed; seat in a batch of the course and branch |
| batches (`batch_service.py`) | `Batch` rows | create, update, assign teacher, retire | counts without a lock, full-row saves | seats granted are free; its slots go with it |
| lectures and attendance (`attendance_service.py`) | `Lecture`, `Attendance` rows | create, generate, edit, cancel, mark, correct, delete | check-then-insert, completion over cancellation, bulk insert against a unique pair, revived marks | lectures held survive; deleted marks stay out; one lecture per slot and date but for races |
| timetable (`timetable_service.py`) | weekly slots | create, update, delete | conflict check and insert are two steps | no double booking but for races |
| lead conversion (`crm_leads/services/lead_service.py`) | `Lead` stage; writes a user, a profile, an enrolment, an admission and its installments | convert, edit, delete | one transaction over six tables, mail inside it, rows deleted for good, an address nobody looks up | one student per lead; mailed work can be committed |
| profiles (`users_profiles/services/profile_service.py`) | `StudentProfile`, with the batch as a copy | edit | `profile.save()` writes the whole row | the batch names an enrolment but for such edits |
| finance (`finance/services/finance_service.py`, `views.py`) | fee structures, installments, payments | pay, post, edit, delete | stale edits over payments, rounding, cascades, amounts anybody may change | a schedule asks for the fee until it is changed; paid stays paid |
| sessions (`accounts/services/auth_service.py`, `institute_crm/token_revocation.py`) | refresh tokens, blacklist, cached schema probe per process, advisory lock | login, refresh, logout, repair, deploy | concurrent refresh, stale probe, outages, deaths | recorded tokens stay spent; a boot ends; an answer needs evidence |
| database engine (`institute_crm/postgresql_backend/base.py`) | the connection | execute, replay | a connection broken before or after its statement took effect | writes run once |
| users and branches (`accounts/services/user_service.py`, `branch_service.py`) | users, branches, avatars in storage | create, update, remove, change password, upload | full-row saves, files outside transactions, counts without a lock | passwords hold, avatars are stored, removed branches are empty |
| courses, materials | catalogue rows | create, update, retire | counts without a lock, saves that revive | what is in use is not retired; material fits its cohort |
| assignments and exams | submissions, results | submit, evaluate, publish, correct | evaluation over resubmission, grades of stale marks | work survives; a grade tells its marks |
| reports, analytics | none: functions of the rows | summaries, scorecards, dashboard | the same numbers computed in five places | they agree |
| rag | documents, chunks, jobs | save, index, ingest, answer | save and index are two transactions, jobs overlap and crash | answers are current |
| WhatsApp deliveries (`communications/tasks.py`, `webhooks.py`, `services/communication_service.py`) | `WhatsAppDelivery` rows, the broker's queue, opt-outs, messages at the provider | preview, create campaign, run task, retry, status callback, STOP/START | early acknowledgement, stale full-row saves, reordered callbacks, time-outs | statuses true of the provider, nothing forgotten, silence after STOP |
| mobile app (`mobile/src/api/client.ts`, `context/AuthContext.tsx`, `hooks/usePushRegistration.ts`) | tokens in secure storage, the user shown, the shared refresh | boot, sign in, sign out, refresh, register | tasks interleave at every `await`, answers get lost | shows whose tokens it holds; a sign-out is final but for what was under way |
| scoping, view sets (`institute_crm/scoping.py`) | none: row visibility | | every service draws its own line | teachers see what they may do |
| announcements, notifications | rows of one user | insert, mark read | none | |
| audit, rendering, AWS wrappers | append-only rows, formatting, external services | | | |

Interactions: a conversion writes the enrolment table without the enrolment service; a batch edit
changes the capacity enrolments count against and its retirement takes its slots along; attendance
blocks withdrawals; enrolments, conversions and edits of the profile write the profile's batch; a
conversion opens an account beside the user service; attendance, finance and academics create
WhatsApp deliveries through `dispatch_system_event`; the engine's replay meets the advisory lock of
the repair; the handset's refresh meets the rotation of the server. The hazards, each with its line
and the properties that watch it, are listed in `PROJECT.json`.

Three conventions hold in every module. A request is cut where another one can come in between:
the view's load, the service's queries, the commit. The writes of one transaction and its commit
are one action, and a history variable (`missed`, `raced`, `amended`, ...) that no guard
reads remembers what a request had not seen, so that a property can name the race it excuses and
forbid every other. An actor whom roles or branches refuse leaves no trace, so the actor is a
super administrator unless visibility is the subject (`Access`). Instances start from scenarios:
a few rows, and the handful of operations that interfere over them, because all operations
together on all rows are out of TLC's reach.

## Enrolment

**State.** `batch`, `enrolment`, `profile`, `accounts` and `attendance` are tables;
`enrolment[k]` is indexed by the unique (student, course) pair. Every worker has a position
`pc[w]` and the request it serves with the rows it holds in memory, `job[w]`: `seen` is the
enrolment and `old` the batch as the view loaded them, `new` is the batch with the payload
applied. `repointed` is a history variable: the students whose profile an edit has pointed
elsewhere since an enrolment or a conversion last wrote the pointer.

**Steps.** A request is cut where other requests can come in between:

    view loads, payload tested   Start* (idle -> loaded)
    row lock                     LockBatch (loaded -> locked), enrolments and transfers only
    queries                      Check or Reject (-> checked, or -> idle)
    writes and commit            one Save* action (checked -> idle); Crash rolls back

The writes of a transaction become visible together, so they and the commit are one action.
`SaveBatch` writes the whole row in memory, as `batch.save()` does; `SaveEnrolment` and the soft
deletes write their columns only, as their `update_fields` say. `SaveProfile` writes the batch the
view loaded, or the one the payload names, whatever the pointer is by then. `ConvertLead` is one
action: it reads no row that the checks of the other requests depend on, and its foreign keys wait
for locked rows.

**Left out.** Roles (every actor is a global administrator), wording, audit rows, teachers, dates.
An edit of a batch that changes only such columns is `row = batch[b]`, and a payload with an
unchanged capacity counts as one without it. Every student has a profile; a student's branch is a
constant. Attendance is a set of (student, batch) pairs and is never removed. The serializer's
unique-together test, which may refuse a second enrolment before the service does, is a
`RefuseDuplicate` that comes earlier. The lock on a batch and on its branch (which `select_related`
joins into the `FOR UPDATE`) is taken at once, so an order of locks inside one statement is not
modelled. A profile's save waits, for its foreign key, for a batch another transaction has locked;
where that transaction waits for the profile's row in turn, PostgreSQL aborts one of the two, which
is a `Crash`. Profiles are not posted or deleted by hand. The cascade of a retirement to the
timetable is in tables that are not here.

**Runs.** Two workers are enough for every race below: each one is between one request that
has read and one that writes. Two seats' worth of students for one-seat batches make the last
seat contended; one operation per (student, course) suffices because the table is indexed by
the pair.

| run | instance | checks | shows |
| --- | --- | --- | --- |
| `desk` | 2 students, 2 one-seat batches, desk operations | `CapacityRespected`, `ImplementsLedger` | the desk behaves as `SeatLedger` |
| `all` | 2 students, one a lead, 1 batch, capacities 1 and 2, every operation but the profile's | `SeatNotRevived`, `SeatGrantedIsFree` | what holds whatever runs beside |
| `mixed` | 2 batches of two courses, of two branches or of one course; enrolments, transfers, status changes and edits of profiles, fair | `SeatMatchesBatch`, `ProfileNamesEnrolment`, `RequestsEnd` | seats fit; only the profile's own edits let its pointer stray; no circle of waiting requests |

`SeatGrantedIsFree` and `CapacityRespected` differ: the first is what the row lock guarantees
(a grant never overfills its batch), the second fails once capacities are edited without the
lock, so it is checked, and proved, for the desk alone. `SeatMatchesBatch` is about the desk too:
a conversion tests neither course nor branch, and so does an edit of the batch's branch.

**Fairness.** `WF` on `Check \/ Reject`: a running worker executes its next statement.
`SF` on `LockBatch \/ Save`: PostgreSQL queues the transactions that wait for a row, so one
that finds the row free again and again gets it. Nothing is assumed about new requests, and
crashes may happen at any time.

**Proofs** (`EnrolmentProofs`, any number of workers, students, courses and batches).
`Invariance` proves `IInv`: types, well-formed requests (`JobsWellFormed`), mutual exclusion
of the row locks (`LocksExclude`), that only students with accounts have enrolments, and
`CheckedSeatStaysFree`. The last is the heart: *a desk request that has passed its checks still
has its free seat*. It is inductive because every commit that takes a seat in that batch, edits
its capacity or converts a lead into it needs the row lock or waits for it; `LocksExclude` says
the lock is held by nobody else. From it follow `SeatGranted` (`SeatGrantedIsFree`), and
`NotRevived` (`SeatNotRevived`) follows from the fate of a row under each action: no request
asks to become ACTIVE, and an insert needs an absent row. `DeskCapacity` and
`DeskImplementsLedger` add the assumption `DeskOnly`, that no worker edits a batch and no lead
is converted: an unlocked edit of the capacity breaks it (below). The refinement maps a pair to its
batch, to `None` or to `Closed`, and every commit to `Take`, `Move` or `Close`, or to a stutter.
`ProfilesPoint` (`ProfileNamesEnrolment`) is about the students not `repointed`: every commit that moves
an enrolment moves the pointer with it, no commit removes a row, and an edit of the profile that saves
another batch than it finds is the only step that adds to `repointed`. `SeatsFit` (`SeatMatchesBatch`)
is about the desk again: `CheckedSeatFits` says of a request that has passed its checks that the
batch it goes to is still of its course and branch. Assumed are `ConstantsAssumption` (shapes of the
constants, capacities positive) and `FiniteAssumption` (finitely many students and courses: seats
are counted).

## Delivery

**State.** `delivery` is the table of one campaign; `broker` counts the waiting tasks by
delivery and Celery retry; `message` is the provider's side: which delivery a message is for
and what has been reported of it; `task[p]` is a Celery process with the row it holds;
`request[p]` is a web process with a callback or with deliveries to enqueue; `opted_out` holds
the users whose `opted_out_at` is set. `lost` is a history variable: the deliveries of which a
crash, a refusing broker or Celery's retry limit took a task. No guard reads it.

**Steps.** A task is `TakeTask` (the query, and the early acknowledgement), then `Suppress`, or
`MarkQueued`, the provider call (`Accept` or `Refuse`) and a save (`SaveSubmitted`, `SaveRetry`,
`SaveFailed`), with a crash possible in between. `MarkQueued` and `Suppress` save the columns
of their `update_fields`; the last saves write the whole row in memory. A status callback is
`LoadCallback`, then `SaveCallback` or `CrashCallback`; callbacks come in any order and any
number of times. The operator's retry is `ListFailed`, then `ResetFailed` and `Enqueue` for
each delivery: it runs in no transaction, so every save is visible at once.

**The provider** is external: it gives an id to every message it accepts (an answer of 200
without an id is not modelled), its answer may be lost (`Answers` contains `FALSE`: the code
takes a time-out for a transient failure), and a message is sent, delivered, read or failed.
Statuses the provider does not document are left out.

**Left out.** Error texts, times, prices, templates, the signature of callbacks, other
channels, `dispatch_system_event` (it creates the same rows and enqueues the same task).
Consent and numbers are constants: the view that would change them has no route. There is no
sweeper, and no worker process in `docker-compose.yml` or `render.yaml`; the model has the
workers the code is written for.

**Run** `delivery`: one delivery to a user with a number, and two users beside, one without a
number and one who shares it and has not consented; two Celery and two web processes, two messages,
one click of the operator, time-outs possible. It checks `StatusIsBacked`, `NothingForgotten`,
`PreviewTellsVerdict`, `StopStaysQuiet` and `DeliveriesResolve`. The code's
`MaxRetries` is 3; with 1 a delivery is retried by Celery once, which is what two overlapping tasks
need. Two messages let a delivery be sent twice. `MaxClicks` and `Messages` bound the operator and
the provider.

`StatusIsBacked` is the positive side of the lost updates: a stale save can take a status back, but
what it writes was reported of the message whose id it writes with it. It needs the full-row save:
saving only the status breaks it (that is its mutant). `PreviewTellsVerdict` compares the counts of
`preview_audience` with what `process_delivery` would decide: a user without consent is previewed
as opted out and recorded as skipped, which the property allows.

**Fairness.** `WF` on the steps of a process, on the saves of a callback and on the enqueueing
of a request: processes run. `SF` that a waiting task is taken by some process: the broker hands
out its queue. Nothing makes the provider call back, an operator retry or a recipient write.
A process that crashes is replaced.

**Proofs** (`DeliveryProofs`, any number of processes, deliveries, messages and retries).
`Invariance` proves `IInv`. `StatusIsBacked` alone is not inductive, since a save writes a copy:
`CopiesAreBacked` says the same of every row in memory, of the message a task was answered and
of the report a callback carries, and `HandedRowsExist` that tasks and requests are about
existing rows. Both survive because the provider's side only grows (`MessagesGrow`). `Backing`
is `[]StatusIsBacked`. `Remembering` proves `NothingForgotten`, inductive beside `IInv`: every
step that makes a row PENDING or QUEUED leaves a task, a request or an entry in `lost` behind.
`Silence` proves `StopStaysQuiet` step by step: a task taken after the STOP is one that
suppresses. `PreviewAgrees` (`PreviewTellsVerdict`) needs no invariant but counts sets: the two
computations ask the same three questions in different orders and split the audience alike, which
is why `ConstantsAssumption` says that the users are finitely many.

## Timetable and Access

**State.** The tables `slot`, `lecture`, `mark` (unique per lecture and student, deleted rows
included) and the `roster` of each batch; `pc[w]` and `job[w]` as in `Enrolment`; `missed[w]` are the
rows committed since a worker ran its queries, `raced` the pairs of rows of which one was written
by a request that had missed the other. A roll call revives deleted marks, a correction saves two
columns; a deletion of a slot withdraws the future lectures its query found; generation creates
the missing dates of a slot. `Access` adds no variable: it reads from the same tables what
`visible_slots`, `visible_lectures`, `visible_attendance`, the rosters and the coursework queries
would show a teacher, and what `_assert_may_mark` and `send_batch_notification` would let the
teacher do.

**Run** `timetable`: two workers, slots, lectures, cohorts, teachers, rooms and dates; a teacher with
a branch who is assigned to one cohort and a teacher without a branch.

- `TimetableIntegrity`: types, `ClashNeedsRace` and `DuplicateNeedsRace` - a double booking, or two lectures of one slot and date,
  takes a race. The named rooms only: a session created without a room gets the column default
  (below).
- `AttendanceSurvives`: a lecture held and marked goes only by a request that had queried before
  (`HeldLecturesSurvive`), a deleted mark returns only by a roll call (`DeletedMarkStaysOut`), and the
  register changes only by requests about the attendance of that lecture (`RegisterHolds`).
- `TeachersSeeWhatTheyDo`: the queries written in as many services agree about a teacher with a
  branch. `TeachersKeepHistory`: history is lost only to deletions and to edits of the slot.

**Proofs** (`TimetableProofs`, any number of workers, rows, students, cohorts, teachers, rooms and
dates). `TimetableIntegrity` is not inductive: an insert is as good as the queries before it. `IInv`
adds that the rows a request holds are rows of the tables (`JobsTyped`; the keys of rows are never
taken away), that sessions are valid ones and lectures have a slot (`RowsFit`), marks a lecture
(`MarksFit`), and the heart, `QueriesHold`: *what the queries of a request have found still holds of
every row outside `missed`* - no clash, no lecture of that slot and date, nothing held among what is
to be withdrawn. It survives every commit because a commit puts the rows it writes into the
`missed` of the others, and at its own commit it is `TimetableIntegrity` for the pairs that are not
in `raced`. `RollCallsLast` (`AttendanceSurvives`) takes its third part, `RegisterHolds`, from the
columns each commit writes. `TeachersSee` (`TeachersSeeWhatTheyDo`) rests on `RowsFit` and
`AccessAssumption`, `TeachersKeep` (`TeachersKeepHistory`) on a session changing only by an edit of
its slot (`WhoEdits`). Assumed are the shapes of the
constants and of the scenarios.

**Left out.** `conducted_by` (its `try/except` save inside the transaction could not recover from a
database error anyway); one roll call carries one status; two times and two dates; alerts (they are
deliveries); what students and parents see; branches of accounts are constants. A withdrawn slot
may take lectures that are still scheduled but already marked; an edit of a lecture's date looks at
no other lecture; a lecture can be created on a deleted slot: all three are in the model, and the
properties are worded around them.

## Sessions and Reconnect

**State.** `schema` says whether the two `token_blacklist` tables are there, `lock` who holds the
advisory lock, `boot[p]` and `cache[p]` how far a process is and what it believes of the tables,
`thread[t]` the request of a thread with the class picked for its token, `blacklist` the rows.
`Reconnect` is the engine: which statement is replayed after which error, as operators that
`Sessions` applies to the statements of a migration and of a request.

**Run** `sessions`: two processes with a thread each, three tokens, one outage or broken connection
and one death. `TrustNeedsEvidence`, `SpentStaysSpent`, `MigrationsTakeTurns`, `WritesRunOnce` and
`BootEnds`. `SpentStaysSpent` excuses refreshes of one token that overlap and tokens of which a use
left no row: the database was away, or the process had once answered "no" (below). The bounds cap
what the environment does; two processes are what a lock needs, and three tokens a login, a refresh
and a second refresh of the same token.

**Fairness.** `WF` on the boot steps of a process, whose statements return or raise, and on the end
of an outage. Nothing makes a user act.

**Proofs** (`SessionsProofs`, any number of processes, threads, tokens, outages and deaths).
`Invariance` proves `IInv`, which TLC has checked on the instance of the run. `TypeCorrect`: the
bound on the tokens is inductive only with the tokens still to be minted by requests under way
(`RoomToMint`). `TokensAreSpentOnce`: `SpentStaysSpent` looks at what has happened, so `Remembered`
carries it through a request - a token that had been spent before the request came in and still
passed its check owes it to a use without a row. `RepairsTakeTurns`: a process that is about to
apply a migration holds the lock unless its connection was replaced (`LockHeld`), so the tables it
found missing still are (`TurnsTaken`). `RetriesWriteNothing` rests on `WritesAttemptedOnce`: whatever
may change data is not replayable. `TrustIsEvidenced` is inductive beside the types. Assumed is
`ConstantsAssumption`, with finitely many threads. `BootEnds` is liveness and stays with TLC.

**Left out.** `ensure_connection`'s second attempt; the thread that writes audit entries;
`EXPLAIN ANALYZE`, which counts as a read and could write, but is never sent. Probe and cached
answer are one step. Whether SimpleJWT looks the user up again depends on its version: external.

## Accounts

**State.** `user`, `branch`, the `files` in storage; a request is `loaded`, `checked` and, between
the exchange of files and the commit, `swapped`. Which operations save all columns and which only
some is in the commits. **Run** `accounts`: two workers on the accounts and branches of four
scenarios - credentials, avatars, addresses, centres. `PasswordHolds` and `AvatarIsStored` excuse a
save that writes back what it had loaded, `AccountsIntegrity` two requests with one address that
overlapped and the accounts that `ConvertLead` opens with an address somebody has (`unmet`),
`BranchLeftEmpty` members who came after the count. An audit entry that fails breaks the
transaction it is in although `audit.py` swallows the error: `RollBack`.

**Proofs** (`AccountsProofs`, any number of workers, users, branches, addresses, passwords and
files). None of the four properties is inductive: a save is as good as what was loaded and queried
for it. `RequestsStand` says so of every request under way - the row it holds is the row on record
unless it has missed a write of it (`RowStands`), whoever else has its address has it since or
shared it before (`AddressStands`; a conversion enters whoever has its address in `unmet`), members
of the branch it is about came after its count (`CountStands`) - and survives every commit because
the rows of a commit go into `missed` and `unseen`. Files need more, as they are outside the
transactions: one exchange for a user at a time, which is what the row lock gives (`SwapsApart`),
its file stored (`SwapsStored`), and `FilesOwned`: every file has been of one user since it was
stored, so a request that deletes by a stale name deletes no one else's. From `IInv` follow
`AccountsAreSound`, `PasswordsHold`, `AvatarsAreStored` and, as an action property,
`BranchesAreLeftEmpty`. Assumed is `ScenarioAssumption`: the shapes of the scenarios, which start
with distinct addresses and avatars.

**Left out.** Names, roles
and the other columns without a rule; a reset sets a fixed code; a request for one leaves only an
audit row.

## Admissions

**State.** `lead`, `student`, `admission`, `structure`, `installment`, `payment`; a conversion and a
payment hold the row lock of the lead and of the installment until they commit, with the mail sent
before. Generic view sets save stale rows whole (which re-inserts a vanished one) and delete for
good, with everything that refers to the row; the one of installments also adds rows and changes their
amount and their student. `Slots` are the primary keys of installments: a conversion draws those of its
student, a POST a free one of its own. Shares are rounded as PostgreSQL rounds a `numeric`, halves away
from zero. `LeadFunnel` and `Cards` are the dashboard's numbers. `reopened`, `overwritten` and `amended`
are history variables: what edits have done to stages, statuses and schedules.

**Run** `admissions`: two leads, students, payments, up to three installments of a fee of 200 (the
smallest that two and three do not both divide) and an edited amount of 50. Every scenario allows a
handful of operations over a lead, a schedule or an installment, and names the columns its edits
change. `ScheduleCoversFee` bounds the rounding by half a unit per installment, for the students whose
schedule nobody has amended; `AdmissionsIntegrity` (types, references, `OneStudentPerLead`),
`PaymentHolds` and `DashboardTellsAdmissions` excuse what an edit has put back. `MailedWorkStands` is
about the mail that goes out before the commit: no other request can undo what it tells of in between,
which takes both row locks. That a death, the database or a fee structure deleted meanwhile still
rolls the transaction back, with the mail sent, is in the model and nothing forbids it.

**Proofs** (`AdmissionsProofs`, any number of workers, leads, students, payments; any fees and
numbers of installments). `IInv` adds to the types what carries a transaction to its commit. A new
key is drawn once (`KeysApart`) and a lead is converted by one worker (`LeadsLocked`), which is what
`select_for_update` gives; so a conversion's lead is unconverted and its student absent until it
commits, and a payment's student is there (`JobsBacked`). `LeadsSettled` - the lead of a student is
admitted or gone unless an edit reopened it - makes `OneStudentPerLead` inductive. `EditsCurrent`
and `PaidOnRecord` do so for `PaymentHolds`: an edit that missed nothing holds the row on record, so
only one that missed something can take a payment back. `SharesAreWritten` says that an installment
is asked of the student it was written for and is the rounded share, or that both the student it was
written for and the one it is asked of are in `amended`; `EditsCurrent` says it of the row an edit
has loaded, because a row that has vanished may return with its save. `SchedulesCoverFees`
(`ScheduleCoversFee`) bounds the error of the sum, for every fee and number of installments.
`MailedWorkIsKept` (`MailedWorkStands`) is what `JobsBacked` says of a request that has mailed.
`DashboardIsConsistent` (`DashboardTellsAdmissions`) counts and sums: an admission whose lead no
edit has reopened is of an admitted lead of its own, an injection that `OneStudentPerLead` gives,
and what has been settled is not among what is pending, so that the two sums are parts of one, which
no part exceeds while no amount is negative. Assumed are `ScenarioAssumption` (fees are naturals,
edited amounts integers, at most `MaxInstallments` shares), `NoneAssumption` (the null is no row and
no key) and `FiniteAssumption` (finitely many leads and students: they are counted).

**Sums.** The sum of a function over a finite set is a fold, hence a recursive function, of which
the provers know only that it is chosen to satisfy its equation. The proofs' section on sums derives
from it the two equations a sum is used by (of nothing, and with one summand taken out), by
well-founded induction on the proper subsets of a finite set, whose theorem takes sets and no
operator; additivity, monotony, constant sums and sums by parts follow. The section stands in
`AdmissionsProofs` and in `CourseworkProofs`, which have no module in common to put it in.

**Left out.** Refunds (`process_refund` writes a status that is not a choice of its column),
discounts, follow-ups, notes, visitors; a second fee structure; the number and the due date of an
installment, which no rule reads; the sums of payments on the dashboard; all admissions are of one
month.

## Coursework and Reports

**State.** One batch: who is `enrolled`, `assignment`, `exam`, `submission`, `result`, `mark`.
Submissions and publications lock the row and write their columns; evaluations and corrections save
the row they loaded. `Reports` defines, on that state, the student's summary, the batch's report,
progress and scorecards, the cards of assignments and exams, and the dashboard's blocks and trends,
each from the function it is in, in hundredths of a percent. **Run** `reports`: two students,
assignments, exams, lectures; marks of 30 and 40 out of 50, or out of no total marks at all, so that
grades, passes and thresholds fall on both sides. `Scale` is a common multiple of the totals, in
which an average of percentages is exact. `ReportsAgree` compares what the five services compute of
attendance, exams and assignments; `CourseworkIntegrity` (types, references, `WorkSurvives`,
`GradeTellsMarks`) excuses the saves of stale rows.

**Proofs** (`CourseworkProofs`, any number of workers, students, assignments, exams, lectures; any
marks and totals). A save is as good as what was loaded for it, so `IInv` adds to
`CourseworkIntegrity` that requests hold rows of their types (`JobsFit`) and that what they loaded
still stands in the table unless they missed a change of it: the submission an evaluation will write
back (`SubmissionsStand`), the total a publication grades against (`TotalsStand`), the result a
correction was based on (`ResultsStand`, which reads the exam's row too). `CourseworkIsSound` follows.

`ReportsTellTheSame` proves `ReportsAgree` of any batch. Two of the five services leave deleted
lectures out and the others do not, so it needs a second invariant, `MarksStand`
(`DeletedLecturesAreEmpty`): a deleted lecture has no marks unless it was deleted while it was being
marked, which is inductive with what a deletion under way has read (`LecturesStand`). The rest is about
one state. Figures that are counted over pairs here and by student or by lecture there are the same
count by rows and by columns; a rounded rate is at most 100 % because rounding to the nearest is
monotone (`PercentIsNearest`), and an average lies between the lowest and the highest of what it is
the average of, rounded alike (`MeanIsBetween`). The proof corrected the model twice. A result of an
exam without total marks counts as zero, in the score as in the average (`Score`, which the run now
has cases of). And a rate of 100 % says that nothing is missing only up to 19999 expected
submissions: of 20000, one missing is rounded away, so `RatesArePercentages` says so (`Countable`).
Assumed are `MarksAssumption`, `NoneAssumption`, `ScenarioAssumption`, `ScaleAssumption` and
`FiniteAssumption` (the batch can be counted).

**Left out.** Averages but the exams',
question papers, single-row deletions, the edit of a row's student or assignment; floats are exact
rationals; lecture days are distinct.

## Catalogue and Knowledge

**State.** `course`, `subject`, `batch`, `material`, `slots`; `document`, `chunk` and `ingestion`. A
document is saved in one transaction and indexed in the next; an indexing deletes the chunks it sees
and inserts one chunk that names its text. A job walks the policies, and stops at the first live
course (below). **Run** `knowledge`: two workers; the catalogue's scenarios and the assistant's side
by side, with crashes and a job left behind by one. `RetiredUnused` excuses uses that came after the
count, `KnowledgeIntegrity` a subject or batch that changed course, `AnswersAreCurrent` a document
whose indexing was overtaken, `CompletedIngests` policies deleted or renamed by hand. It speaks of
documents; what they are indexed as is `AnswersAreCurrent`. A title in the model is a title with its
category, which `update_or_create` looks up together.

**Proofs** (`KnowledgeProofs`, any number of workers, rows, documents, texts, policies and jobs).
`IInv` has a part for each half. Of the catalogue: materials have the subject and batch they name
(`MaterialsPlaced`), requests are about rows that are there (`CatalogueJobs`), and three facts about
time: what a count found still holds of all that has not come since (`CountsStand`), a row being
edited is live unless it was saved since it was loaded (`EditsStand`), and a pair that was checked
still fits unless its subject or batch was saved since (`PairsStand`). They give `MaterialsFit`
(`KnowledgeIntegrity`) and the action property `RetiringIsChecked` (`RetiredUnused`). Of the
assistant: an indexing that was not overtaken has the text of its document and has seen its chunks
(`IndexingsStand`), hence a document left alone has exactly one chunk, of its present text
(`ChunksAreCut`), which is `AnswersCurrent` (`AnswersAreCurrent`); and a job has provided for every
policy before the one it is at (`PoliciesProvided`), which at its end is `JobsIngest`
(`CompletedIngests`). Assumed are `CatalogueAssumption` and `KnowledgeAssumption`: the shapes of the
constants and scenarios, and that the null is no row and no key.

**Left out.** Active enrolments of a course, which the retirement counts too; embeddings and scores
(any of the quotable chunks may be cited); the audit of questions.

## Handset

**State.** The app's one thread gives way at every `await`: `launch` (the boot), `entry` (sign-in)
and `exit` (sign-out) are where those tasks wait, `call` the requests in flight with the token in
their header, `refresh` the shared promise, `store` the secure storage, `status` and `shown` the
screen. The server is which pairs are `live`, which access tokens have `expired` and the row of the
push token, `device`. **Run** `handset`: two users, two pairs, one fault (a lost answer, a session
ended elsewhere, a restart). The constraint stops at `crossed`: it is set when the session changes
under a task that works on it, is never reset, and every property excuses it, so nothing past it is
judged. `HandsetIntegrity` is about the screen and the store, `SignOutIsFinal` and
`SilentAfterSignOut` about who has left: the first excuses only `crossed` - a refresh answered after
the sign-out does write its tokens back (`client.ts:153`) - the second also a server that did not
hear of it and a registration or another sign-in beside it (`unheard`). `RefreshKeepsSession` is the
purpose of the shared promise: with rotation on, two refreshes of one token would end the session;
it is excused after a fault, after `crossed`, and once a refresh has found no token. **Run**
`handset_wedged` checks the same without the exception for a refresh that found no token, and finds
it violated.

**Proofs** (second half of `SessionsProofs`, any number of users, token pairs and faults). The
module extends `Sessions` and `Handset` together, which is why the names of `Handset` that both
would have say whose they are (`HandsetSpec`, `launch`, `issued`, `Null`). Assumed is
`HandsetAssumption`: at least one pair can be minted, and the null is no user and no pair. None of
the four properties is inductive, and `PhoneInv` is what they rest on. `PhoneKnown` holds always:
the types, which call belongs to which task (`CallsMatchTasks`), that a task or a refresh that has
gone on has what it goes on with (`WorkIsKnown`), that nothing else runs while the app boots
(`BootIsAlone`). `Undisturbed` holds until the session changes under a task that works on it. In it
`TasksTakeTurns` and `OneSession` - everything stored, shown, in flight or about to be stored is of
one user - give `HandsetIsSound`; `SessionIsOver`, that after a sign-out no task is left that could
fill the store but a sign-in, gives `SignOutsAreFinal`; `HeardOut` follows the withdrawal of the
push token from the answer of the server to the end of the sign-out, for `SignOutsAreSilent`.
`SessionLives` says that with no fault so far the stored refresh token is good, or is the one being
redeemed, and its successor is live and unused: the refreshes of one moment share one promise, so
none finds its token spent, which is `RefreshesKeepTheSession`. TLC has checked `PhoneInv` on an
instance with two users, two pairs and one fault without the constraint of the run (3.2 million
states). With the shared promise dropped, a sign-out that keeps the refresh token, a boot that
decides although a sign-in has superseded it, or a push token withdrawn only where it is inactive
already, these proofs fail.

**Left out.** Biometrics and screens; the web client; what the server does with a refresh is
`Sessions`.

## Disagreements met while modelling

The first is a run, the others are what the models showed on the way, each with the line that says
otherwise.

- `mobile/src/api/client.ts:139`: a refresh without a token returns before the `try` whose `finally`
  clears the shared promise, and no refresh happens again until the app restarts; `:9` promises
  "refreshing a stale access token *before* the request" (run `handset_wedged`).
- `academics/services/batch_service.py:221`: `update_batch` counts the seats and saves the capacity
  without the lock, so an enrolment in between leaves more students than seats;
  `enrolment_service.py:14` "The batch must have a free seat."
- `enrolment_service.py:269`: the transition is tested on the row the view loaded, and COMPLETED becomes
  DROPPED; `:46` "Only these transitions are allowed".
- `batch_service.py:574`: a batch retired while a student is being enrolled has active students; `:571`
  "Refused while students are actively enrolled."
- `enrolment_service.py:335`: a withdrawal can overtake a mark of attendance, against `:325`.
- `communications/webhooks.py:66`: of two callbacks the one with the lower status may save last; `:24`
  "a delayed out-of-order callback must never" downgrade a delivery.
- `communications/services/communication_service.py:457`: two operators' retries list the same rows and
  both tasks send; `communications/tasks.py:50` "never double-send".
- `academics/services/timetable_service.py:216`: `create_slot` compares the room it was given, `None`,
  while the column stores the default "Room 101": two such sessions share a room; `:6-9` says rooms
  are compared.
- `accounts/services/user_service.py:320`: the old avatar is deleted before the commit; `:317` "only after
  the new one is committed".
- `crm_leads/services/lead_service.py:48`: a conversion opens an account with the lead's address although
  somebody has it, with no race at all; `accounts/serializers.py:99` "A user with this email already
  exists."
- `institute_crm/token_revocation.py:102`: a probe the database cannot answer counts as a yes, and the
  process answers 500 to logins on missing tables for good; `accounts/services/auth_service.py:65` "a
  missing table should cost revocability, never access".
- `institute_crm/token_revocation.py:98`: a process that has found the tables missing keeps that answer
  for life. After a deploy, or another worker's repair, has made them, it still neither looks a refresh
  token up nor records one, and redeems the same token again and again on a migrated database that
  answers; `:46-47` "The schema does not change under a running worker", `accounts/tests_session.py:76-77`
  "The superseded token must be dead".
- `institute_crm/postgresql_backend/base.py:191`: a read replayed on a new session has lost the advisory
  lock, and the migration goes on beside another; `token_revocation.py:126-128` relies on the lock.
- `rag/services/ingestion_service.py:101-109`: the ingestion formats `s.name` and `course.duration_weeks`,
  which the models do not have, so a job FAILS whenever a live course exists and the policies after
  the courses are never ingested.

## Hazards no property covers

Beside the first six disagreements: `batch.save()` undoes a concurrent edit of another column; a dropped
enrolment blocks a new one of the same pair; a conversion's foreign keys wait at commit while it
holds rows; a student deactivated after the serializer's look-up is enrolled; marking completes a
lecture cancelled meanwhile (`attendance_service.py:590`); a teacher without a branch can be booked
and then sees nothing (`timetable_service.py:391`); an installment already paid takes a second payment
(`finance_service.py:97`); the audit entry of a rejected password change is rolled back with it
(`auth_service.py:390`); a callback that arrives before the id is saved is dropped
(`webhooks.py:60`), and STOP from a shared number silences one of its users (`webhooks.py:103`).
The models contain those that touch their state; a property that forbids them would be false.

## Only model-checked, and not modelled

`RequestsEnd`, `DeliveriesResolve` and `BootEnds` are liveness properties under fairness, which the
prover does not reach; TLC checks them on small instances without symmetry. The invariants and
action properties of all passing runs are proved, under the named assumptions on the constants. That
the operators of the models are the functions of the code is read from the source, and no proof
speaks of it. The first invariant of a run carries the type invariant.

Not modelled: `aws_services` (wrappers of external services), announcements and read flags (rows of
one user, without a rule), the audit log (append-only, read by nobody), rendering and error bodies
(no state), seed scripts and settings (data), the web client (it keeps one token and drops it on a
401), and the order of row locks inside one statement and at commit: PostgreSQL resolves a circle by
aborting one transaction, which the models have as a rollback.

## Plan

Written: the modules above. To come, in this order:

1. An abstract specification of a delivery as the funnel shows it, with `Delivery` refining it up to
   the lost updates; one of the weekly calendar for a single editor.
2. `Notices`: announcements, in-app notifications and campaign notifications, with who receives them.
3. `RowLocks`: the order in which conversions, enrolments and batch edits take rows.
