------------------------------ MODULE Enrolment ------------------------------
(***************************************************************************)
(* Seats in batches: the requests that enrol, transfer, complete, drop and *)
(* withdraw students (academics/services/enrolment_service.py), edit and   *)
(* retire batches (academics/services/batch_service.py), mark attendance   *)
(* (its effect on enrolments only), edit profiles                          *)
(* (users_profiles/services/profile_service.py) and convert leads          *)
(* (crm_leads/services/lead_service.py), running concurrently.             *)
(*                                                                         *)
(* A request is served by a worker.  The view first loads the row it will  *)
(* work on (get_object), outside any transaction; the service then runs in *)
(* one READ COMMITTED transaction: it may lock the batch row, it queries,  *)
(* and it writes.  The writes of a transaction become visible together, so *)
(* they and the commit are one action.  Everything between two of these    *)
(* points may be overtaken by the other workers, and the row held in       *)
(* memory (job[w].seen, job[w].old) is not read again.                     *)
(***************************************************************************)
EXTENDS Naturals, FiniteSets

CONSTANTS
  Workers,        \* the processes serving requests
  Students,       \* the users with the Student role, present or future
  Leads,          \* those who are still leads at the start: no account yet
  Courses,
  Branches,
  Batches,
  Capacities,     \* the values max_capacity takes
  Operations,     \* the operations the workers are asked for
  Catalogue,      \* the batch tables the system may start with
  StudentBranch,  \* the branch of every student, None when unassigned
  None,           \* an absent value
  Closed          \* the ledger's mark of an enrolment that is over

AllOperations ==
  {"enrol_student", "update_enrolment", "soft_delete_enrolment", "mark_attendance",
   "update_batch", "soft_delete_batch", "update_student_profile", "convert_lead"}

Statuses == {"ACTIVE", "COMPLETED", "DROPPED"}

\* unique_together = (student, course): the pair is the key of the enrolment table.
Keys == Students \X Courses

BatchRow ==
  [course: Courses, branch: Branches, max_capacity: Capacities, is_deleted: BOOLEAN]

EnrolmentRow == [batch: Batches, status: Statuses, is_deleted: BOOLEAN]

ASSUME ConstantsAssumption ==
  /\ Leads \subseteq Students
  /\ Capacities \subseteq Nat \ {0}
  /\ Operations \subseteq AllOperations
  /\ Catalogue \subseteq [Batches -> BatchRow]
  /\ StudentBranch \in [Students -> Branches \cup {None}]
  /\ None \notin Keys \cup Students \cup Batches \cup Branches \cup Statuses
  /\ None \notin BatchRow \cup EnrolmentRow
  /\ Closed \notin Batches \cup {None}

\* Counting seats needs finite tables.
ASSUME FiniteAssumption == IsFiniteSet(Students) /\ IsFiniteSet(Courses)

VARIABLES
  batch,       \* the table of batches
  enrolment,   \* the table of enrolments, None where there is no row
  profile,     \* StudentProfile.batch
  repointed,   \* history: the students whose pointer an edit of the profile has changed
               \* since an enrolment or a conversion last wrote it
  accounts,    \* the students who have a user account
  attendance,  \* the (student, batch) pairs with an attendance record
  pc,          \* where each worker is in its request
  job          \* the request of each worker and the rows it holds in memory

tables == <<batch, enrolment, profile, repointed, accounts, attendance>>
vars == <<batch, enrolment, profile, repointed, accounts, attendance, pc, job>>

Phases == {"idle", "loaded", "locked", "checked"}

Job ==
  [op: AllOperations,
   key: Keys \cup {None},
   student: Students \cup {None},         \* whose profile the request edits
   batch: Batches \cup {None},            \* the batch named by the request
   status: Statuses \cup {None},          \* the status named by the request
   seen: EnrolmentRow \cup {None},        \* the enrolment row as loaded
   old: BatchRow \cup {None},             \* the batch row as loaded
   new: BatchRow \cup {None}]             \* the batch row with the payload applied

NoJob == [op |-> "enrol_student", key |-> None, student |-> None, batch |-> None,
          status |-> None, seen |-> None, old |-> None, new |-> None]

-----------------------------------------------------------------------------
\* Queries.

Exists(k) == enrolment[k] # None

\* active(CourseEnrolment)
Visible(k) == Exists(k) /\ ~enrolment[k].is_deleted

HoldsSeat(k) == Visible(k) /\ enrolment[k].status = "ACTIVE"

\* BatchService.seats_taken and the count of _assert_capacity.
Taken(b) == {k \in Keys : HoldsSeat(k) /\ enrolment[k].batch = b}

\* The transaction of w holds the rows its SELECT ... FOR UPDATE returned.
NamesBatch(w) ==
  /\ job[w].op \in {"enrol_student", "update_enrolment"}
  /\ job[w].batch # None

Locks(w, b) == pc[w] \in {"locked", "checked"} /\ NamesBatch(w) /\ job[w].batch = b

BatchLocked(b) == \E w \in Workers : Locks(w, b)

\* select_related("branch") joins the branch into the FOR UPDATE, so its row is locked too.
BranchLocked(br) == \E b \in Batches : BatchLocked(b) /\ batch[b].branch = br

\* _assert_batch_matches_course, _assert_same_branch, _assert_capacity.
MatchesCourse(b, c) == batch[b].course = c
SameBranch(s, b) == StudentBranch[s] \in {None, batch[b].branch}

\* Fault: an off-by-one in _assert_capacity.
FreeSeatOffByOne(b) == Cardinality(Taken(b)) <= batch[b].max_capacity

HasFreeSeat(b) == Cardinality(Taken(b)) < batch[b].max_capacity

AllowedTransitions(status) == IF status = "ACTIVE" THEN {"COMPLETED", "DROPPED"} ELSE {}

-----------------------------------------------------------------------------
Init ==
  /\ batch \in Catalogue
  /\ enrolment = [k \in Keys |-> None]
  /\ profile = [s \in Students |-> None]
  /\ repointed = {}
  /\ accounts = Students \ Leads
  /\ attendance = {}
  /\ pc = [w \in Workers |-> "idle"]
  /\ job = [w \in Workers |-> NoJob]

-----------------------------------------------------------------------------
(* The view: load the row, parse the payload, reject what the row in memory *)
(* already rules out.  A rejected request leaves no trace and is no step.   *)

\* A change of status alone, a mark of attendance and an edit of a profile query nothing
\* before they write.
NothingToCheck(j) ==
  \/ j.op \in {"mark_attendance", "update_student_profile"}
  \/ j.op = "update_enrolment" /\ j.batch = None

Start(w, j) ==
  /\ pc[w] = "idle"
  /\ j.op \in Operations
  /\ pc' = [pc EXCEPT ![w] = IF NothingToCheck(j) THEN "checked" ELSE "loaded"]
  /\ job' = [job EXCEPT ![w] = j]
  /\ UNCHANGED tables

\* POST enrolments: the batch may be any row, a retired one included.
StartEnrol(w, k, b, status) ==
  /\ k[1] \in accounts
  /\ Start(w, [NoJob EXCEPT !.op = "enrol_student", !.key = k, !.batch = b, !.status = status])

\* PATCH enrolments, transfer/ and set-status/: a batch to move to, a status, or both.
StartUpdate(w, k, b, status) ==
  /\ Visible(k)
  /\ b # None \/ status # None
  /\ b # None => enrolment[k].status = "ACTIVE" /\ b # enrolment[k].batch
  /\ status # None => status \in AllowedTransitions(enrolment[k].status)
  /\ Start(w, [NoJob EXCEPT !.op = "update_enrolment", !.key = k, !.batch = b,
                            !.status = status, !.seen = enrolment[k]])

StartWithdraw(w, k) ==
  /\ Visible(k)
  /\ Start(w, [NoJob EXCEPT !.op = "soft_delete_enrolment", !.key = k, !.seen = enrolment[k]])

\* mark_bulk_attendance reads the roster of active enrolments of the lecture's batch.
StartMark(w, k) ==
  /\ HoldsSeat(k)
  /\ Start(w, [NoJob EXCEPT !.op = "mark_attendance", !.key = k, !.seen = enrolment[k]])

\* PATCH and PUT batches: row = batch[b] is a request that edits columns left out here.
StartBatchUpdate(w, b, row) ==
  /\ ~batch[b].is_deleted
  /\ ~row.is_deleted
  /\ Start(w, [NoJob EXCEPT !.op = "update_batch", !.batch = b, !.old = batch[b], !.new = row])

StartBatchDelete(w, b) ==
  /\ ~batch[b].is_deleted
  /\ Start(w, [NoJob EXCEPT !.op = "soft_delete_batch", !.batch = b])

\* PATCH and PUT students: the row in memory names the batch of the payload, any one or
\* none, or the batch it was loaded with when the payload names none.
StartProfileUpdate(w, s, b) ==
  /\ s \in accounts
  /\ Start(w, [NoJob EXCEPT !.op = "update_student_profile", !.student = s, !.batch = b])

-----------------------------------------------------------------------------
(* The transaction.                                                         *)

\* Fault: the batch is read without FOR UPDATE.
ReadBatch(w) ==
  /\ pc[w] = "loaded"
  /\ NamesBatch(w)
  /\ pc' = [pc EXCEPT ![w] = "locked"]
  /\ UNCHANGED <<tables, job>>

\* Batch.objects.select_for_update().select_related("branch").get(pk=...).  The query
\* does not look at is_deleted.
LockBatch(w) ==
  /\ pc[w] = "loaded"
  /\ NamesBatch(w)
  /\ ~BatchLocked(job[w].batch)
  /\ ~BranchLocked(batch[job[w].batch].branch)
  /\ pc' = [pc EXCEPT ![w] = "locked"]
  /\ UNCHANGED <<tables, job>>

\* The queries a request makes before it writes; the row it locked is the current one,
\* every other row it holds is the one it loaded.
MayEnrol(j) ==
  /\ MatchesCourse(j.batch, j.key[2])
  /\ SameBranch(j.key[1], j.batch)
  /\ ~(Visible(j.key) /\ enrolment[j.key].status # "DROPPED")
  /\ HasFreeSeat(j.batch)

\* Fault: a transfer may cross courses.
MayTransferAcross(j) ==
  /\ SameBranch(j.key[1], j.batch)
  /\ HasFreeSeat(j.batch)

MayTransfer(j) ==
  /\ MatchesCourse(j.batch, j.key[2])
  /\ SameBranch(j.key[1], j.batch)
  /\ HasFreeSeat(j.batch)

MayWithdraw(j) == <<j.key[1], j.seen.batch>> \notin attendance

MayEditBatch(j) ==
  /\ j.new.max_capacity # j.old.max_capacity => Cardinality(Taken(j.batch)) <= j.new.max_capacity
  /\ j.new.course # j.old.course => ~\E k \in Keys : Visible(k) /\ enrolment[k].batch = j.batch

MayDeleteBatch(j) == Taken(j.batch) = {}

\* What each operation requires of the tables.
Passes(w) ==
  LET j == job[w] IN
  /\ j.op = "enrol_student" => MayEnrol(j)
  /\ j.op = "update_enrolment" => MayTransfer(j)
  /\ j.op = "soft_delete_enrolment" => MayWithdraw(j)
  /\ j.op = "update_batch" => MayEditBatch(j)
  /\ j.op = "soft_delete_batch" => MayDeleteBatch(j)

\* A request that locks a batch checks under that lock.
AtChecks(w) == pc[w] = IF NamesBatch(w) THEN "locked" ELSE "loaded"

Check(w) ==
  /\ AtChecks(w)
  /\ Passes(w)
  /\ pc' = [pc EXCEPT ![w] = "checked"]
  /\ UNCHANGED <<tables, job>>

\* The transaction ends: its locks go with it.
Finish(w) ==
  /\ pc' = [pc EXCEPT ![w] = "idle"]
  /\ job' = [job EXCEPT ![w] = NoJob]

\* Fault: a refused request is retried until it passes, with its lock.
RetryRefused(w) ==
  /\ AtChecks(w)
  /\ ~Passes(w)
  /\ UNCHANGED vars

Reject(w) ==
  /\ AtChecks(w)
  /\ ~Passes(w)
  /\ Finish(w)
  /\ UNCHANGED tables

\* The worker or its connection dies: the database rolls the transaction back.
Crash(w) ==
  /\ pc[w] # "idle"
  /\ Finish(w)
  /\ UNCHANGED tables

Writing(w, op) == pc[w] = "checked" /\ job[w].op = op

\* Fault: update_or_create in the place of create.
UpsertEnrolment(w) ==
  LET j == job[w] IN
  /\ Writing(w, "enrol_student")
  /\ enrolment' = [enrolment EXCEPT ![j.key] =
                     [batch |-> j.batch, status |-> j.status, is_deleted |-> FALSE]]
  /\ profile' = [profile EXCEPT ![j.key[1]] = j.batch]
  /\ repointed' = repointed \ {j.key[1]}
  /\ Finish(w)
  /\ UNCHANGED <<batch, accounts, attendance>>

\* CourseEnrolment.objects.create, then _sync_student_profile_batch.
InsertEnrolment(w) ==
  LET j == job[w] IN
  /\ Writing(w, "enrol_student")
  /\ ~Exists(j.key)
  /\ enrolment' = [enrolment EXCEPT ![j.key] =
                     [batch |-> j.batch, status |-> j.status, is_deleted |-> FALSE]]
  /\ profile' = [profile EXCEPT ![j.key[1]] = j.batch]
  /\ repointed' = repointed \ {j.key[1]}
  /\ Finish(w)
  /\ UNCHANGED <<batch, accounts, attendance>>

\* IntegrityError: the pair has a row, whatever its status and soft-deleted or not.
RefuseDuplicate(w) ==
  /\ Writing(w, "enrol_student")
  /\ Exists(job[w].key)
  /\ Finish(w)
  /\ UNCHANGED tables

\* Fault: a transfer forgets _sync_student_profile_batch.
SaveWithoutProfile(w) ==
  LET j == job[w]
      row == enrolment[j.key]
  IN
  /\ Writing(w, "update_enrolment")
  /\ enrolment' = [enrolment EXCEPT ![j.key] =
                     [row EXCEPT !.batch = IF j.batch # None THEN j.batch ELSE @,
                                 !.status = IF j.status # None THEN j.status ELSE @]]
  /\ Finish(w)
  /\ UNCHANGED <<batch, profile, repointed, accounts, attendance>>

\* save(update_fields=["batch"]) and save(update_fields=["status"]): only these columns.
SaveEnrolment(w) ==
  LET j == job[w]
      row == enrolment[j.key]
  IN
  /\ Writing(w, "update_enrolment")
  /\ enrolment' = [enrolment EXCEPT ![j.key] =
                     [row EXCEPT !.batch = IF j.batch # None THEN j.batch ELSE @,
                                 !.status = IF j.status # None THEN j.status ELSE @]]
  /\ profile' = IF j.batch # None THEN [profile EXCEPT ![j.key[1]] = j.batch] ELSE profile
  /\ repointed' = IF j.batch # None THEN repointed \ {j.key[1]} ELSE repointed
  /\ Finish(w)
  /\ UNCHANGED <<batch, accounts, attendance>>

\* soft_delete(): save(update_fields=["is_deleted", "deleted_at"]).
SaveWithdrawal(w) ==
  /\ Writing(w, "soft_delete_enrolment")
  /\ enrolment' = [enrolment EXCEPT ![job[w].key].is_deleted = TRUE]
  /\ Finish(w)
  /\ UNCHANGED <<batch, profile, repointed, accounts, attendance>>

SaveAttendance(w) ==
  /\ Writing(w, "mark_attendance")
  /\ attendance' = attendance \cup {<<job[w].key[1], job[w].seen.batch>>}
  /\ Finish(w)
  /\ UNCHANGED <<batch, enrolment, profile, repointed, accounts>>

\* batch.save(): every column, is_deleted included, from the row in memory.  The UPDATE
\* waits for a locked row, and a new branch_id for the row of that branch (foreign key).
SaveBatch(w) ==
  LET j == job[w] IN
  /\ Writing(w, "update_batch")
  /\ ~BatchLocked(j.batch)
  /\ j.new.branch # batch[j.batch].branch => ~BranchLocked(j.new.branch)
  /\ batch' = [batch EXCEPT ![j.batch] = j.new]
  /\ Finish(w)
  /\ UNCHANGED <<enrolment, profile, repointed, accounts, attendance>>

\* batch.soft_delete(); the cascade to the timetable is in the timetable's own tables.
SaveBatchDeletion(w) ==
  /\ Writing(w, "soft_delete_batch")
  /\ ~BatchLocked(job[w].batch)
  /\ batch' = [batch EXCEPT ![job[w].batch].is_deleted = TRUE]
  /\ Finish(w)
  /\ UNCHANGED <<enrolment, profile, repointed, accounts, attendance>>

\* profile.save(): every column, the batch included, from the row in memory; a batch that is
\* not the stored one is looked up at the commit (foreign key), so its row must be free.
SaveProfile(w) ==
  LET j == job[w]
      moves == j.batch # profile[j.student]
  IN
  /\ Writing(w, "update_student_profile")
  /\ moves /\ j.batch # None => ~BatchLocked(j.batch)
  /\ profile' = [profile EXCEPT ![j.student] = j.batch]
  /\ repointed' = IF moves THEN repointed \cup {j.student} ELSE repointed
  /\ Finish(w)
  /\ UNCHANGED <<batch, enrolment, accounts, attendance>>

\* convert_lead_to_student locks the lead and writes a user, a profile and an ACTIVE
\* enrolment.  It reads no batch column; its foreign keys wait for locked rows at commit.
ConvertLead(s, c, b) ==
  /\ "convert_lead" \in Operations
  /\ s \notin accounts
  /\ ~BatchLocked(b)
  /\ StudentBranch[s] # None
  /\ ~BranchLocked(StudentBranch[s])
  /\ accounts' = accounts \cup {s}
  /\ profile' = [profile EXCEPT ![s] = b]
  /\ repointed' = repointed \ {s}
  /\ enrolment' = [enrolment EXCEPT ![<<s, c>>] =
                     [batch |-> b, status |-> "ACTIVE", is_deleted |-> FALSE]]
  /\ UNCHANGED <<batch, attendance, pc, job>>

-----------------------------------------------------------------------------
Load(w) ==
  \/ \E k \in Keys, b \in Batches, status \in Statuses : StartEnrol(w, k, b, status)
  \/ \E k \in Keys, b \in Batches \cup {None}, status \in Statuses \cup {None} :
       StartUpdate(w, k, b, status)
  \/ \E k \in Keys : StartWithdraw(w, k)
  \/ \E k \in Keys : StartMark(w, k)
  \/ \E b \in Batches, row \in BatchRow : StartBatchUpdate(w, b, row)
  \/ \E b \in Batches : StartBatchDelete(w, b)
  \/ \E s \in Students, b \in Batches \cup {None} : StartProfileUpdate(w, s, b)

Save(w) ==
  \/ InsertEnrolment(w)
  \/ RefuseDuplicate(w)
  \/ SaveEnrolment(w)
  \/ SaveWithdrawal(w)
  \/ SaveAttendance(w)
  \/ SaveBatch(w)
  \/ SaveBatchDeletion(w)
  \/ SaveProfile(w)

Next ==
  \/ \E w \in Workers :
       Load(w) \/ LockBatch(w) \/ Check(w) \/ Reject(w) \/ Save(w) \/ Crash(w)
  \/ \E s \in Students, c \in Courses, b \in Batches : ConvertLead(s, c, b)

Spec == Init /\ [][Next]_vars

(***************************************************************************)
(* A worker that is running executes its next statement; the database      *)
(* queues the transactions that wait for a row and serves them in turn, so *)
(* a row that keeps becoming free is eventually granted.                   *)
(***************************************************************************)
Fairness ==
  \A w \in Workers :
    /\ WF_vars(Check(w) \/ Reject(w))
    /\ SF_vars(LockBatch(w) \/ Save(w))

FairSpec == Spec /\ Fairness

-----------------------------------------------------------------------------
\* Types of the tables and of the rows the workers hold.
TypeOK ==
  /\ batch \in [Batches -> BatchRow]
  /\ enrolment \in [Keys -> EnrolmentRow \cup {None}]
  /\ profile \in [Students -> Batches \cup {None}]
  /\ repointed \subseteq Students
  /\ accounts \subseteq Students
  /\ attendance \subseteq Students \X Batches
  /\ pc \in [Workers -> Phases]
  /\ job \in [Workers -> Job]

\* "The batch must have a free seat" (invariant 4 of the enrolment service), as a state:
\* no batch seats more students than its capacity.
CapacityRespected == \A b \in Batches : Cardinality(Taken(b)) <= batch[b].max_capacity

\* A commit of the desk that gives a seat.
Grants(w) == InsertEnrolment(w) \/ (SaveEnrolment(w) /\ job[w].batch # None)

\* The same rule, as the row lock on the batch enforces it, whatever else is running: the
\* commit of an enrolment or of a transfer does not leave its batch over capacity, because
\* the seat counted under the lock is still free when it is taken.
SeatGrantedIsFree ==
  [][\A w \in Workers, b \in Batches :
       Grants(w) /\ job[w].batch = b =>
         Cardinality(Taken(b)') <= batch'[b].max_capacity]_vars

\* A seat given up is not taken back: once an enrolment is completed, dropped or withdrawn
\* no request, however old the row it loaded, makes it live again, nor removes the row.
SeatNotRevived ==
  [][\A k \in Keys : Exists(k) /\ ~HoldsSeat(k) => Exists(k)' /\ ~HoldsSeat(k)']_vars

\* Invariants 1 and 2 of the enrolment service: every live enrolment sits in a batch of its
\* course, in the branch of its student.
SeatMatchesBatch ==
  \A k \in Keys : HoldsSeat(k) =>
    /\ MatchesCourse(enrolment[k].batch, k[2])
    /\ SameBranch(k[1], enrolment[k].batch)

\* The batch pointer of a profile is a copy kept by several services: it names the batch of
\* one of the student's enrolments, whichever of them was written last.  Only an edit of the
\* profile can make it stray, by naming a batch of its own or by writing back the one it had
\* loaded before a transfer; the next enrolment, transfer or conversion repairs it, and an
\* edit that saves the batch it finds does no harm.
ProfileNamesEnrolment ==
  \A s \in Students \ repointed : profile[s] # None =>
    \E c \in Courses : Exists(<<s, c>>) /\ enrolment[<<s, c>>].batch = profile[s]

\* Two transactions never hold the same batch row, nor batches of the same branch.
LocksExclude ==
  \A v, w \in Workers, a, b \in Batches :
    Locks(v, a) /\ Locks(w, b) /\ batch[a].branch = batch[b].branch => v = w

\* What a request under way holds: what its operation works on.  The enrolment it loaded
\* still has a row, and no request asks for an enrolment to become active again.
WellFormed(j) ==
  /\ j.op \in Operations \ {"convert_lead"}
  /\ j.op \in {"enrol_student", "update_batch", "soft_delete_batch"} => j.batch # None
  /\ j.op = "enrol_student" => j.key # None /\ j.status # None /\ j.key[1] \in accounts
  /\ j.op \in {"update_enrolment", "soft_delete_enrolment", "mark_attendance"} =>
       j.key # None /\ j.seen # None /\ Exists(j.key)
  /\ j.op = "update_enrolment" => j.status # "ACTIVE"
  /\ j.op = "update_batch" => j.old # None /\ j.new # None
  /\ j.op = "update_student_profile" => j.student # None

JobsWellFormed == \A w \in Workers : pc[w] # "idle" => WellFormed(job[w])

\* What a transaction has checked under its lock stays true until it commits.
CheckedSeatStaysFree ==
  \A w \in Workers : pc[w] = "checked" /\ NamesBatch(w) => HasFreeSeat(job[w].batch)

\* Only a student with an account has enrolments.
EnrolledHaveAccounts == \A k \in Keys : Exists(k) => k[1] \in accounts

\* The inductive invariant: the seat a desk request is about to take is free, because the
\* lock it holds keeps every other seat-taking or capacity-changing commit out.
IInv ==
  /\ TypeOK
  /\ JobsWellFormed
  /\ LocksExclude
  /\ CheckedSeatStaysFree
  /\ EnrolledHaveAccounts

\* Every request is answered: no request waits for a row for ever.
RequestsEnd == \A w \in Workers : pc[w] # "idle" ~> pc[w] = "idle"

\* The desk as a seat ledger: where each pair stands, and how many seats a batch has.
Standing(k) ==
  IF ~Exists(k) THEN None ELSE IF HoldsSeat(k) THEN enrolment[k].batch ELSE Closed

Standings == [k \in Keys |-> Standing(k)]
Seats == [b \in Batches |-> batch[b].max_capacity]

Ledger == INSTANCE SeatLedger WITH Never <- None, seat <- Standings, capacity <- Seats

\* With the enrolment desk alone (no edit of a batch, no conversion) the interleaved,
\* stale-reading requests act as if each took effect at once on a ledger of seats.
ImplementsLedger == Ledger!Spec

=============================================================================
