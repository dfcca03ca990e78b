--------------------------- MODULE EnrolmentProofs ---------------------------
(***************************************************************************)
(* Proofs about Enrolment, for any number of workers, students, courses    *)
(* and batches.                                                            *)
(***************************************************************************)
EXTENDS Enrolment, FiniteSetTheorems, TLAPS

\* Every load is Start with a well-formed job.
LEMMA LoadIsStart ==
  ASSUME TypeOK, NEW w \in Workers, Load(w)
  PROVE  \E j \in Job : Start(w, j) /\ WellFormed(j)
<1> USE ConstantsAssumption
<1>1. ASSUME NEW k \in Keys, NEW b \in Batches, NEW status \in Statuses,
             StartEnrol(w, k, b, status)
      PROVE  \E j \in Job : Start(w, j) /\ WellFormed(j)
  <2> DEFINE j0 == [NoJob EXCEPT !.op = "enrol_student", !.key = k, !.batch = b, !.status = status]
  <2>1. j0 \in Job
    BY DEF NoJob, Job, AllOperations
  <2>2. Start(w, j0) /\ k[1] \in accounts
    BY <1>1 DEF StartEnrol
  <2>3. WellFormed(j0)
    BY <2>2 DEF NoJob, Start, WellFormed
  <2>4. QED
    BY <2>1, <2>2, <2>3
<1>2. ASSUME NEW k \in Keys, NEW b \in Batches \cup {None}, NEW status \in Statuses \cup {None},
             StartUpdate(w, k, b, status)
      PROVE  \E j \in Job : Start(w, j) /\ WellFormed(j)
  <2> DEFINE j0 == [NoJob EXCEPT !.op = "update_enrolment", !.key = k, !.batch = b,
                                 !.status = status, !.seen = enrolment[k]]
  <2>1. Exists(k) /\ enrolment[k] \in EnrolmentRow
    BY <1>2 DEF StartUpdate, Visible, Exists, TypeOK
  <2>2. j0 \in Job
    BY <2>1 DEF NoJob, Job, AllOperations
  <2>3. status # "ACTIVE"
    BY <1>2 DEF StartUpdate, AllowedTransitions, Statuses
  <2>4. Start(w, j0)
    BY <1>2 DEF StartUpdate
  <2>5. WellFormed(j0)
    BY <2>1, <2>3, <2>4 DEF NoJob, Start, WellFormed
  <2>6. QED
    BY <2>2, <2>4, <2>5
<1>3. ASSUME NEW k \in Keys, StartWithdraw(w, k)
      PROVE  \E j \in Job : Start(w, j) /\ WellFormed(j)
  <2> DEFINE j0 == [NoJob EXCEPT !.op = "soft_delete_enrolment", !.key = k, !.seen = enrolment[k]]
  <2>1. Exists(k) /\ enrolment[k] \in EnrolmentRow
    BY <1>3 DEF StartWithdraw, Visible, Exists, TypeOK
  <2>2. j0 \in Job
    BY <2>1 DEF NoJob, Job, AllOperations
  <2>3. Start(w, j0)
    BY <1>3 DEF StartWithdraw
  <2>4. WellFormed(j0)
    BY <2>1, <2>3 DEF NoJob, Start, WellFormed
  <2>5. QED
    BY <2>2, <2>3, <2>4
<1>4. ASSUME NEW k \in Keys, StartMark(w, k)
      PROVE  \E j \in Job : Start(w, j) /\ WellFormed(j)
  <2> DEFINE j0 == [NoJob EXCEPT !.op = "mark_attendance", !.key = k, !.seen = enrolment[k]]
  <2>1. Exists(k) /\ enrolment[k] \in EnrolmentRow
    BY <1>4 DEF StartMark, HoldsSeat, Visible, Exists, TypeOK
  <2>2. j0 \in Job
    BY <2>1 DEF NoJob, Job, AllOperations
  <2>3. Start(w, j0)
    BY <1>4 DEF StartMark
  <2>4. WellFormed(j0)
    BY <2>1, <2>3 DEF NoJob, Start, WellFormed
  <2>5. QED
    BY <2>2, <2>3, <2>4
<1>5. ASSUME NEW b \in Batches, NEW row \in BatchRow, StartBatchUpdate(w, b, row)
      PROVE  \E j \in Job : Start(w, j) /\ WellFormed(j)
  <2> DEFINE j0 == [NoJob EXCEPT !.op = "update_batch", !.batch = b, !.old = batch[b], !.new = row]
  <2>1. batch[b] \in BatchRow
    BY DEF TypeOK
  <2>2. j0 \in Job
    BY <2>1 DEF NoJob, Job, AllOperations
  <2>3. Start(w, j0)
    BY <1>5 DEF StartBatchUpdate
  <2>4. WellFormed(j0)
    BY <2>1, <2>3 DEF NoJob, Start, WellFormed
  <2>5. QED
    BY <2>2, <2>3, <2>4
<1>6. ASSUME NEW b \in Batches, StartBatchDelete(w, b)
      PROVE  \E j \in Job : Start(w, j) /\ WellFormed(j)
  <2> DEFINE j0 == [NoJob EXCEPT !.op = "soft_delete_batch", !.batch = b]
  <2>1. j0 \in Job
    BY DEF NoJob, Job, AllOperations
  <2>2. Start(w, j0)
    BY <1>6 DEF StartBatchDelete
  <2>3. WellFormed(j0)
    BY <2>2 DEF NoJob, Start, WellFormed
  <2>4. QED
    BY <2>1, <2>2, <2>3
<1>7. ASSUME NEW s \in Students, NEW b \in Batches \cup {None}, StartProfileUpdate(w, s, b)
      PROVE  \E j \in Job : Start(w, j) /\ WellFormed(j)
  <2> DEFINE j0 == [NoJob EXCEPT !.op = "update_student_profile", !.student = s, !.batch = b]
  <2>1. j0 \in Job
    BY DEF NoJob, Job, AllOperations
  <2>2. Start(w, j0)
    BY <1>7 DEF StartProfileUpdate
  <2>3. WellFormed(j0)
    BY <2>2 DEF NoJob, Start, WellFormed
  <2>4. QED
    BY <2>1, <2>2, <2>3
<1>8. QED
  BY <1>1, <1>2, <1>3, <1>4, <1>5, <1>6, <1>7 DEF Load
-----------------------------------------------------------------------------
\* A finished or rejected request leaves an idle worker with the empty job.
LEMMA FinishType ==
  ASSUME TypeOK, NEW w \in Workers, Finish(w)
  PROVE  /\ pc' \in [Workers -> Phases]
         /\ job' \in [Workers -> Job]
<1>1. NoJob \in Job
  BY DEF NoJob, Job, AllOperations
<1>2. QED
  BY <1>1 DEF TypeOK, Finish, Phases

LEMMA TypeStep ==
  ASSUME TypeOK, JobsWellFormed, [Next]_vars
  PROVE  TypeOK'
<1> USE ConstantsAssumption
<1>1. ASSUME NEW w \in Workers, Load(w)
      PROVE  TypeOK'
  <2>1. PICK j \in Job : Start(w, j)
    BY <1>1, LoadIsStart
  <2>2. QED
    BY <2>1 DEF TypeOK, Start, tables, Phases
<1>2. ASSUME NEW w \in Workers, LockBatch(w) \/ Check(w)
      PROVE  TypeOK'
  BY <1>2 DEF TypeOK, LockBatch, Check, tables, Phases
<1>3. ASSUME NEW w \in Workers, Reject(w) \/ Crash(w) \/ RefuseDuplicate(w)
      PROVE  TypeOK'
  BY <1>3, FinishType DEF TypeOK, Reject, Crash, RefuseDuplicate, tables
<1>4. ASSUME NEW w \in Workers, InsertEnrolment(w)
      PROVE  TypeOK'
  <2>1. /\ job[w].key \in Keys
        /\ job[w].key[1] \in Students
        /\ job[w].batch \in Batches
        /\ job[w].status \in Statuses
    BY <1>4 DEF InsertEnrolment, Writing, JobsWellFormed, WellFormed, TypeOK, Job, Keys
  <2>2. [batch |-> job[w].batch, status |-> job[w].status, is_deleted |-> FALSE] \in EnrolmentRow
    BY <2>1 DEF EnrolmentRow
  <2>3. enrolment' \in [Keys -> EnrolmentRow \cup {None}]
    BY <1>4, <2>1, <2>2 DEF InsertEnrolment, TypeOK
  <2>4. profile' \in [Students -> Batches \cup {None}]
    BY <1>4, <2>1 DEF InsertEnrolment, TypeOK
  <2>5. QED
    BY <1>4, <2>3, <2>4, FinishType DEF InsertEnrolment, TypeOK
<1>5. ASSUME NEW w \in Workers, SaveEnrolment(w)
      PROVE  TypeOK'
  <2> DEFINE j == job[w]
             row == enrolment[j.key]
             saved == [row EXCEPT !.batch = IF j.batch # None THEN j.batch ELSE @,
                                  !.status = IF j.status # None THEN j.status ELSE @]
  <2>1. /\ j.key \in Keys
        /\ j.key[1] \in Students
        /\ j.batch \in Batches \cup {None}
        /\ j.status \in Statuses \cup {None}
        /\ Exists(j.key)
    BY <1>5 DEF SaveEnrolment, Writing, JobsWellFormed, WellFormed, TypeOK, Job, Keys
  <2>2. row \in EnrolmentRow
    BY <2>1 DEF Exists, TypeOK
  <2>3. saved \in EnrolmentRow
    BY <2>1, <2>2 DEF EnrolmentRow
  <2>4. enrolment' = [enrolment EXCEPT ![j.key] = saved]
    BY <1>5 DEF SaveEnrolment
  <2>5. enrolment' \in [Keys -> EnrolmentRow \cup {None}]
    BY <2>1, <2>3, <2>4 DEF TypeOK
  <2>6. profile' \in [Students -> Batches \cup {None}]
    BY <1>5, <2>1 DEF SaveEnrolment, TypeOK
  <2>7. QED
    BY <1>5, <2>5, <2>6, FinishType DEF SaveEnrolment, TypeOK
<1>6. ASSUME NEW w \in Workers, SaveWithdrawal(w)
      PROVE  TypeOK'
  <2> DEFINE k == job[w].key
             saved == [enrolment[k] EXCEPT !.is_deleted = TRUE]
  <2>1. k \in Keys /\ Exists(k)
    BY <1>6 DEF SaveWithdrawal, Writing, JobsWellFormed, WellFormed, TypeOK, Job
  <2>2. enrolment[k] \in EnrolmentRow
    BY <2>1 DEF Exists, TypeOK
  <2>3. saved \in EnrolmentRow
    BY <2>2 DEF EnrolmentRow
  <2>4. enrolment' = [enrolment EXCEPT ![k] = saved]
    BY <1>6 DEF SaveWithdrawal
  <2>5. enrolment' \in [Keys -> EnrolmentRow \cup {None}]
    BY <2>1, <2>3, <2>4 DEF TypeOK
  <2>6. QED
    BY <1>6, <2>5, FinishType DEF SaveWithdrawal, TypeOK
<1>7. ASSUME NEW w \in Workers, SaveAttendance(w)
      PROVE  TypeOK'
  <2>1. /\ job[w].key \in Keys
        /\ job[w].key[1] \in Students
        /\ job[w].seen \in EnrolmentRow
    BY <1>7 DEF SaveAttendance, Writing, JobsWellFormed, WellFormed, TypeOK, Job, Keys
  <2>2. <<job[w].key[1], job[w].seen.batch>> \in Students \X Batches
    BY <2>1 DEF EnrolmentRow
  <2>3. QED
    BY <1>7, <2>2, FinishType DEF SaveAttendance, TypeOK
<1>8. ASSUME NEW w \in Workers, SaveBatch(w)
      PROVE  TypeOK'
  <2>1. job[w].batch \in Batches /\ job[w].new \in BatchRow
    BY <1>8 DEF SaveBatch, Writing, JobsWellFormed, WellFormed, TypeOK, Job
  <2>2. batch' \in [Batches -> BatchRow]
    BY <1>8, <2>1 DEF SaveBatch, TypeOK
  <2>3. QED
    BY <1>8, <2>2, FinishType DEF SaveBatch, TypeOK
<1>9. ASSUME NEW w \in Workers, SaveBatchDeletion(w)
      PROVE  TypeOK'
  <2> DEFINE b == job[w].batch
             saved == [batch[b] EXCEPT !.is_deleted = TRUE]
  <2>1. b \in Batches
    BY <1>9 DEF SaveBatchDeletion, Writing, JobsWellFormed, WellFormed, TypeOK, Job
  <2>2. batch[b] \in BatchRow
    BY <2>1 DEF TypeOK
  <2>3. saved \in BatchRow
    BY <2>2 DEF BatchRow
  <2>4. batch' = [batch EXCEPT ![b] = saved]
    BY <1>9 DEF SaveBatchDeletion
  <2>5. batch' \in [Batches -> BatchRow]
    BY <2>1, <2>3, <2>4 DEF TypeOK
  <2>6. QED
    BY <1>9, <2>5, FinishType DEF SaveBatchDeletion, TypeOK
<1>10. ASSUME NEW s \in Students, NEW c \in Courses, NEW b \in Batches, ConvertLead(s, c, b)
       PROVE  TypeOK'
  <2>1. [batch |-> b, status |-> "ACTIVE", is_deleted |-> FALSE] \in EnrolmentRow
    BY DEF EnrolmentRow, Statuses
  <2>2. <<s, c>> \in Keys
    BY DEF Keys
  <2>3. QED
    BY <1>10, <2>1, <2>2 DEF ConvertLead, TypeOK
<1>11. ASSUME NEW w \in Workers, SaveProfile(w)
       PROVE  TypeOK'
  <2>1. job[w].student \in Students /\ job[w].batch \in Batches \cup {None}
    BY <1>11 DEF SaveProfile, Writing, JobsWellFormed, WellFormed, TypeOK, Job
  <2>2. profile' \in [Students -> Batches \cup {None}] /\ repointed' \subseteq Students
    BY <1>11, <2>1 DEF SaveProfile, TypeOK
  <2>3. QED
    BY <1>11, <2>2, FinishType DEF SaveProfile, TypeOK
<1>12. CASE UNCHANGED vars
  BY <1>12 DEF TypeOK, vars
<1>13. QED
  BY <1>1, <1>2, <1>3, <1>4, <1>5, <1>6, <1>7, <1>8, <1>9, <1>10, <1>11, <1>12 DEF Next, Save
-----------------------------------------------------------------------------
\* What a step does to one enrolment: its row is never removed, and a seat given up is not
\* taken back.
LEMMA RowFate ==
  ASSUME TypeOK, JobsWellFormed, EnrolledHaveAccounts, [Next]_vars,
         NEW k \in Keys, Exists(k)
  PROVE  Exists(k)' /\ (~HoldsSeat(k) => ~HoldsSeat(k)')
<1> USE ConstantsAssumption
<1>0. enrolment[k] \in EnrolmentRow
  BY DEF Exists, TypeOK
<1>1. CASE enrolment' = enrolment
  BY <1>1 DEF Exists, HoldsSeat, Visible
<1>2. ASSUME NEW w \in Workers, InsertEnrolment(w)
      PROVE  Exists(k)' /\ (~HoldsSeat(k) => ~HoldsSeat(k)')
  <2>1. k # job[w].key
    BY <1>2 DEF InsertEnrolment
  <2>2. enrolment'[k] = enrolment[k]
    BY <1>2, <2>1 DEF InsertEnrolment, TypeOK
  <2>3. QED
    BY <2>2 DEF Exists, HoldsSeat, Visible
<1>3. ASSUME NEW w \in Workers, SaveEnrolment(w)
      PROVE  Exists(k)' /\ (~HoldsSeat(k) => ~HoldsSeat(k)')
  <2> DEFINE j == job[w]
             row == enrolment[j.key]
             saved == [row EXCEPT !.batch = IF j.batch # None THEN j.batch ELSE @,
                                  !.status = IF j.status # None THEN j.status ELSE @]
  <2>1. enrolment' = [enrolment EXCEPT ![j.key] = saved]
    BY <1>3 DEF SaveEnrolment
  <2>2. CASE k # j.key
    BY <2>1, <2>2 DEF Exists, HoldsSeat, Visible, TypeOK
  <2>3. CASE k = j.key
    <3>1. j.status # "ACTIVE" /\ j.batch \in Batches \cup {None} /\ j.status \in Statuses \cup {None}
      BY <1>3 DEF SaveEnrolment, Writing, JobsWellFormed, WellFormed, TypeOK, Job
    <3>2. enrolment'[k] = saved
      BY <2>1, <2>3 DEF TypeOK
    <3>3. saved \in EnrolmentRow
      BY <1>0, <2>3, <3>1 DEF EnrolmentRow
    <3>4. /\ saved.is_deleted = enrolment[k].is_deleted
          /\ saved.status = "ACTIVE" => enrolment[k].status = "ACTIVE"
      BY <1>0, <2>3, <3>1 DEF EnrolmentRow
    <3>5. QED
      BY <3>2, <3>3, <3>4 DEF Exists, HoldsSeat, Visible
  <2>4. QED
    BY <2>2, <2>3
<1>4. ASSUME NEW w \in Workers, SaveWithdrawal(w)
      PROVE  Exists(k)' /\ (~HoldsSeat(k) => ~HoldsSeat(k)')
  <2> DEFINE saved == [enrolment[job[w].key] EXCEPT !.is_deleted = TRUE]
  <2>1. enrolment' = [enrolment EXCEPT ![job[w].key] = saved]
    BY <1>4 DEF SaveWithdrawal
  <2>2. CASE k # job[w].key
    BY <2>1, <2>2 DEF Exists, HoldsSeat, Visible, TypeOK
  <2>3. CASE k = job[w].key
    <3>1. enrolment'[k] = saved
      BY <2>1, <2>3 DEF TypeOK
    <3>2. saved \in EnrolmentRow /\ saved.is_deleted
      BY <1>0, <2>3 DEF EnrolmentRow
    <3>3. QED
      BY <3>1, <3>2 DEF Exists, HoldsSeat, Visible
  <2>4. QED
    BY <2>2, <2>3
<1>5. ASSUME NEW s \in Students, NEW c \in Courses, NEW b \in Batches, ConvertLead(s, c, b)
      PROVE  Exists(k)' /\ (~HoldsSeat(k) => ~HoldsSeat(k)')
  <2>1. k # <<s, c>>
    BY <1>5 DEF ConvertLead, EnrolledHaveAccounts
  <2>2. enrolment'[k] = enrolment[k]
    BY <1>5, <2>1 DEF ConvertLead, TypeOK
  <2>3. QED
    BY <2>2 DEF Exists, HoldsSeat, Visible
<1>6. ASSUME NEW w \in Workers,
             Load(w) \/ LockBatch(w) \/ Check(w) \/ Reject(w) \/ Crash(w)
      PROVE  enrolment' = enrolment
  <2>1. CASE Load(w)
    <3>1. PICK j \in Job : Start(w, j)
      BY <2>1, LoadIsStart
    <3>2. QED
      BY <3>1 DEF Start, tables
  <2>2. QED
    BY <1>6, <2>1 DEF LockBatch, Check, Reject, Crash, tables
<1>7. ASSUME NEW w \in Workers,
             \/ RefuseDuplicate(w) \/ SaveAttendance(w) \/ SaveBatch(w) \/ SaveBatchDeletion(w)
             \/ SaveProfile(w)
      PROVE  enrolment' = enrolment
  BY <1>7 DEF RefuseDuplicate, SaveAttendance, SaveBatch, SaveBatchDeletion, SaveProfile, tables
<1>8. CASE UNCHANGED vars
  BY <1>1, <1>8 DEF vars
<1>9. QED
  BY <1>1, <1>2, <1>3, <1>4, <1>5, <1>6, <1>7, <1>8 DEF Next, Save

LEMMA AccountsStep ==
  ASSUME TypeOK, JobsWellFormed, EnrolledHaveAccounts, [Next]_vars
  PROVE  accounts \subseteq accounts' /\ EnrolledHaveAccounts'
<1> USE ConstantsAssumption
<1>1. ASSUME NEW w \in Workers, Load(w)
      PROVE  accounts \subseteq accounts' /\ EnrolledHaveAccounts'
  <2>1. PICK j \in Job : Start(w, j)
    BY <1>1, LoadIsStart
  <2>2. QED
    BY <2>1 DEF Start, tables, EnrolledHaveAccounts, Exists
<1>2. ASSUME NEW w \in Workers, LockBatch(w) \/ Check(w) \/ Reject(w) \/ Crash(w)
      PROVE  accounts \subseteq accounts' /\ EnrolledHaveAccounts'
  BY <1>2 DEF LockBatch, Check, Reject, Crash, tables, EnrolledHaveAccounts, Exists
<1>3. ASSUME NEW w \in Workers, RefuseDuplicate(w) \/ SaveAttendance(w) \/ SaveBatch(w)
                                 \/ SaveBatchDeletion(w) \/ SaveProfile(w)
      PROVE  accounts \subseteq accounts' /\ EnrolledHaveAccounts'
  BY <1>3 DEF RefuseDuplicate, SaveAttendance, SaveBatch, SaveBatchDeletion, SaveProfile, tables,
              EnrolledHaveAccounts, Exists
<1>4. ASSUME NEW w \in Workers, InsertEnrolment(w) \/ SaveEnrolment(w) \/ SaveWithdrawal(w)
      PROVE  accounts \subseteq accounts' /\ EnrolledHaveAccounts'
  <2>1. accounts' = accounts
    BY <1>4 DEF InsertEnrolment, SaveEnrolment, SaveWithdrawal
  <2>2. job[w].key[1] \in accounts
    BY <1>4 DEF InsertEnrolment, SaveEnrolment, SaveWithdrawal, Writing, JobsWellFormed,
                WellFormed, EnrolledHaveAccounts, TypeOK, Job
  <2>3. \A k \in Keys : k # job[w].key => enrolment'[k] = enrolment[k]
    BY <1>4 DEF InsertEnrolment, SaveEnrolment, SaveWithdrawal, TypeOK
  <2>4. QED
    BY <2>1, <2>2, <2>3 DEF EnrolledHaveAccounts, Exists
<1>5. ASSUME NEW s \in Students, NEW c \in Courses, NEW b \in Batches, ConvertLead(s, c, b)
      PROVE  accounts \subseteq accounts' /\ EnrolledHaveAccounts'
  <2>1. \A k \in Keys : k # <<s, c>> => enrolment'[k] = enrolment[k]
    BY <1>5 DEF ConvertLead, TypeOK
  <2>2. QED
    BY <1>5, <2>1 DEF ConvertLead, EnrolledHaveAccounts, Exists
<1>6. CASE UNCHANGED vars
  BY <1>6 DEF vars, EnrolledHaveAccounts, Exists
<1>7. QED
  BY <1>1, <1>2, <1>3, <1>4, <1>5, <1>6 DEF Next, Save
-----------------------------------------------------------------------------
\* A step moves one worker at most: it starts a well-formed job, keeps the job it has, or
\* leaves the worker idle.
LEMMA WorkerStep ==
  ASSUME TypeOK, [Next]_vars, NEW v \in Workers, pc'[v] # "idle"
  PROVE  \/ pc[v] # "idle" /\ job'[v] = job[v]
         \/ tables' = tables /\ WellFormed(job'[v])
<1> USE ConstantsAssumption
<1>1. ASSUME NEW w \in Workers, Load(w)
      PROVE  \/ pc[v] # "idle" /\ job'[v] = job[v]
             \/ tables' = tables /\ WellFormed(job'[v])
  <2>1. PICK j \in Job : Start(w, j) /\ WellFormed(j)
    BY <1>1, LoadIsStart
  <2>2. QED
    BY <2>1 DEF Start, TypeOK
<1>2. ASSUME NEW w \in Workers, LockBatch(w) \/ Check(w)
      PROVE  pc[v] # "idle" /\ job'[v] = job[v]
  BY <1>2 DEF LockBatch, Check, AtChecks, TypeOK
<1>3. ASSUME NEW w \in Workers, Finish(w)
      PROVE  pc[v] # "idle" /\ job'[v] = job[v]
  BY <1>3 DEF Finish, TypeOK
<1>4. ASSUME NEW w \in Workers, Reject(w) \/ Crash(w) \/ Save(w)
      PROVE  Finish(w)
  BY <1>4 DEF Reject, Crash, Save, InsertEnrolment, RefuseDuplicate, SaveEnrolment,
              SaveWithdrawal, SaveAttendance, SaveBatch, SaveBatchDeletion, SaveProfile
<1>5. ASSUME NEW s \in Students, NEW c \in Courses, NEW b \in Batches, ConvertLead(s, c, b)
      PROVE  pc[v] # "idle" /\ job'[v] = job[v]
  BY <1>5 DEF ConvertLead
<1>6. CASE UNCHANGED vars
  BY <1>6 DEF vars
<1>7. QED
  BY <1>1, <1>2, <1>3, <1>4, <1>5, <1>6 DEF Next

LEMMA JobsStep ==
  ASSUME TypeOK, JobsWellFormed, EnrolledHaveAccounts, [Next]_vars
  PROVE  JobsWellFormed'
<1> SUFFICES ASSUME NEW v \in Workers, pc'[v] # "idle"
             PROVE  WellFormed(job[v])'
  BY DEF JobsWellFormed
<1>1. CASE pc[v] # "idle" /\ job'[v] = job[v]
  <2>1. WellFormed(job[v]) /\ job[v] \in Job
    BY <1>1 DEF JobsWellFormed, TypeOK
  <2>2. accounts \subseteq accounts'
    BY AccountsStep
  <2>3. job[v].key # None /\ Exists(job[v].key) => Exists(job[v].key)'
    <3>1. SUFFICES ASSUME job[v].key \in Keys, Exists(job[v].key)
                   PROVE  Exists(job[v].key)'
      BY <2>1 DEF Job
    <3>2. ASSUME NEW k \in Keys, Exists(k)
          PROVE  Exists(k)'
      BY <3>2, RowFate
    <3>3. enrolment'[job[v].key] # None
      BY <3>1, <3>2 DEF Exists
    <3>4. QED
      BY <1>1, <3>3 DEF Exists
  <2>4. QED
    BY <1>1, <2>1, <2>2, <2>3 DEF WellFormed, Exists
<1>2. CASE tables' = tables /\ WellFormed(job'[v])
  BY <1>2 DEF tables, WellFormed, Exists
<1>3. QED
  BY <1>1, <1>2, WorkerStep

-----------------------------------------------------------------------------
\* Where the worker of a lock stands, before and after a step.
LEMMA LockStep ==
  ASSUME TypeOK, [Next]_vars, NEW v \in Workers, NEW b \in Batches, Locks(v, b)'
  PROVE  Locks(v, b) \/ (LockBatch(v) /\ job[v].batch = b)
<1>1. ASSUME NEW w \in Workers, Load(w)
      PROVE  Locks(v, b)
  <2>1. PICK j \in Job : Start(w, j)
    BY <1>1, LoadIsStart
  <2>2. CASE v = w
    BY <2>1, <2>2 DEF Start, Locks, NamesBatch, NothingToCheck, TypeOK
  <2>3. CASE v # w
    BY <2>1, <2>3 DEF Start, Locks, NamesBatch, TypeOK
  <2>4. QED
    BY <2>2, <2>3
<1>2. ASSUME NEW w \in Workers, LockBatch(w)
      PROVE  Locks(v, b) \/ (LockBatch(v) /\ job[v].batch = b)
  BY <1>2 DEF LockBatch, Locks, NamesBatch, TypeOK
<1>3. ASSUME NEW w \in Workers, Check(w)
      PROVE  Locks(v, b)
  BY <1>3 DEF Check, AtChecks, Locks, NamesBatch, TypeOK
<1>4. ASSUME NEW w \in Workers, Finish(w)
      PROVE  Locks(v, b)
  BY <1>4 DEF Finish, Locks, NamesBatch, TypeOK
<1>5. ASSUME NEW w \in Workers, Reject(w) \/ Crash(w) \/ Save(w)
      PROVE  Finish(w)
  BY <1>5 DEF Reject, Crash, Save, InsertEnrolment, RefuseDuplicate, SaveEnrolment,
              SaveWithdrawal, SaveAttendance, SaveBatch, SaveBatchDeletion, SaveProfile
<1>6. CASE UNCHANGED <<pc, job>>
  BY <1>6 DEF Locks, NamesBatch
<1>7. QED
  BY <1>1, <1>2, <1>3, <1>4, <1>5, <1>6 DEF Next, vars, ConvertLead

\* The row of a locked batch does not change.
LEMMA LockedRowFixed ==
  ASSUME TypeOK, JobsWellFormed, [Next]_vars, NEW b \in Batches, BatchLocked(b)
  PROVE  batch'[b] = batch[b]
<1>1. CASE batch' = batch
  BY <1>1
<1>2. ASSUME NEW w \in Workers, SaveBatch(w) \/ SaveBatchDeletion(w)
      PROVE  batch'[b] = batch[b]
  <2>1. job[w].batch # b
    BY <1>2 DEF SaveBatch, SaveBatchDeletion
  <2>2. QED
    BY <1>2, <2>1 DEF SaveBatch, SaveBatchDeletion, TypeOK
<1>3. ASSUME NEW w \in Workers, Load(w)
      PROVE  batch' = batch
  <2>1. PICK j \in Job : Start(w, j)
    BY <1>3, LoadIsStart
  <2>2. QED
    BY <2>1 DEF Start, tables
<1>4. QED
  BY <1>1, <1>2, <1>3 DEF Next, vars, Save, LockBatch, Check, Reject, Crash, InsertEnrolment,
     RefuseDuplicate, SaveEnrolment, SaveWithdrawal, SaveAttendance, SaveProfile, ConvertLead,
     tables

LEMMA LocksStep ==
  ASSUME TypeOK, JobsWellFormed, LocksExclude, [Next]_vars
  PROVE  LocksExclude'
<1> SUFFICES ASSUME NEW v \in Workers, NEW w \in Workers, NEW a \in Batches, NEW b \in Batches,
                    Locks(v, a)', Locks(w, b)', batch'[a].branch = batch'[b].branch
             PROVE  v = w
  BY DEF LocksExclude
<1>1. \/ Locks(v, a)
      \/ LockBatch(v) /\ job[v].batch = a
  BY LockStep
<1>2. \/ Locks(w, b)
      \/ LockBatch(w) /\ job[w].batch = b
  BY LockStep
<1>3. CASE Locks(v, a) /\ Locks(w, b)
  <2>1. batch'[a] = batch[a] /\ batch'[b] = batch[b]
    BY <1>3, LockedRowFixed DEF BatchLocked
  <2>2. QED
    BY <1>3, <2>1 DEF LocksExclude
<1>4. CASE LockBatch(v) /\ job[v].batch = a
  <2>1. batch' = batch
    BY <1>4 DEF LockBatch, tables
  <2>2. ~Locks(w, b)
    BY <1>4, <2>1 DEF LockBatch, BranchLocked, BatchLocked
  <2>3. QED
    BY <1>2, <1>4, <2>2 DEF LockBatch, Locks, TypeOK
<1>5. CASE LockBatch(w) /\ job[w].batch = b
  <2>1. batch' = batch
    BY <1>5 DEF LockBatch, tables
  <2>2. ~Locks(v, a)
    BY <1>5, <2>1 DEF LockBatch, BranchLocked, BatchLocked
  <2>3. QED
    BY <1>1, <1>5, <2>2 DEF LockBatch, Locks, TypeOK
<1>6. QED
  BY <1>1, <1>2, <1>3, <1>4, <1>5
-----------------------------------------------------------------------------
\* Counting seats.
LEMMA TakenFinite ==
  ASSUME NEW b
  PROVE  IsFiniteSet(Taken(b)) /\ Cardinality(Taken(b)) \in Nat
<1>1. IsFiniteSet(Keys)
  BY FiniteAssumption, FS_Product DEF Keys
<1>2. Taken(b) \in SUBSET Keys
  BY DEF Taken
<1>3. IsFiniteSet(Taken(b))
  BY <1>1, <1>2, FS_Subset
<1>4. QED
  BY <1>3, FS_CardinalityType

\* Only a grant or a conversion adds seats, and only to the batch it names.
LEMMA SeatsOfOthers ==
  ASSUME TypeOK, JobsWellFormed, EnrolledHaveAccounts, [Next]_vars, NEW b \in Batches,
         \A w \in Workers : Grants(w) => job[w].batch # b,
         \A s \in Students, c \in Courses : ~ConvertLead(s, c, b)
  PROVE  Taken(b)' \subseteq Taken(b)
<1> USE ConstantsAssumption
<1> SUFFICES ASSUME NEW k \in Keys, HoldsSeat(k)', enrolment'[k].batch = b
             PROVE  HoldsSeat(k) /\ enrolment[k].batch = b
  BY DEF Taken
<1>1. CASE enrolment'[k] = enrolment[k]
  BY <1>1 DEF HoldsSeat, Visible, Exists
<1>2. ASSUME NEW w \in Workers, InsertEnrolment(w)
      PROVE  enrolment'[k] = enrolment[k]
  <2>1. job[w].batch # b
    BY <1>2 DEF Grants
  <2>2. QED
    BY <1>2, <2>1 DEF InsertEnrolment, TypeOK
<1>3. ASSUME NEW w \in Workers, SaveEnrolment(w)
      PROVE  HoldsSeat(k) /\ enrolment[k].batch = b
  <2> DEFINE j == job[w]
             row == enrolment[j.key]
             saved == [row EXCEPT !.batch = IF j.batch # None THEN j.batch ELSE @,
                                  !.status = IF j.status # None THEN j.status ELSE @]
  <2>1. enrolment' = [enrolment EXCEPT ![j.key] = saved]
    BY <1>3 DEF SaveEnrolment
  <2>2. CASE k # j.key
    BY <2>1, <2>2, <1>1 DEF TypeOK
  <2>3. CASE k = j.key
    <3>1. j.batch # b /\ j.batch \in Batches \cup {None} /\ j.status \in Statuses \cup {None}
      BY <1>3 DEF Grants, SaveEnrolment, Writing, JobsWellFormed, WellFormed, TypeOK, Job
    <3>2. Exists(k)
      BY <1>3, <2>3 DEF SaveEnrolment, Writing, JobsWellFormed, WellFormed, TypeOK, Job
    <3>3. row \in EnrolmentRow
      BY <2>3, <3>2 DEF Exists, TypeOK
    <3>4. enrolment'[k] = saved
      BY <2>1, <2>3 DEF TypeOK
    <3>5. saved.batch = IF j.batch # None THEN j.batch ELSE row.batch
      BY <3>3 DEF EnrolmentRow
    <3>6. enrolment[k].batch = b
      BY <2>3, <3>1, <3>4, <3>5
    <3>7. HoldsSeat(k)
      BY <3>2, RowFate
    <3>8. QED
      BY <3>6, <3>7
  <2>4. QED
    BY <2>2, <2>3
<1>4. ASSUME NEW w \in Workers, SaveWithdrawal(w)
      PROVE  HoldsSeat(k) /\ enrolment[k].batch = b
  <2> DEFINE saved == [enrolment[job[w].key] EXCEPT !.is_deleted = TRUE]
  <2>1. enrolment' = [enrolment EXCEPT ![job[w].key] = saved]
    BY <1>4 DEF SaveWithdrawal
  <2>2. CASE k # job[w].key
    BY <2>1, <2>2, <1>1 DEF TypeOK
  <2>3. CASE k = job[w].key
    <3>1. Exists(k)
      BY <1>4, <2>3 DEF SaveWithdrawal, Writing, JobsWellFormed, WellFormed, TypeOK, Job
    <3>2. enrolment[k] \in EnrolmentRow
      BY <3>1 DEF Exists, TypeOK
    <3>3. enrolment'[k] = saved
      BY <2>1, <2>3 DEF TypeOK
    <3>4. saved.is_deleted
      BY <2>3, <3>2 DEF EnrolmentRow
    <3>5. QED
      BY <3>3, <3>4 DEF HoldsSeat, Visible
  <2>4. QED
    BY <2>2, <2>3
<1>5. ASSUME NEW s \in Students, NEW c \in Courses, NEW a \in Batches, ConvertLead(s, c, a)
      PROVE  enrolment'[k] = enrolment[k]
  <2>1. a # b
    BY <1>5
  <2>2. QED
    BY <1>5, <2>1 DEF ConvertLead, TypeOK
<1>6. ASSUME NEW w \in Workers, Load(w)
      PROVE  enrolment' = enrolment
  <2>1. PICK j \in Job : Start(w, j)
    BY <1>6, LoadIsStart
  <2>2. QED
    BY <2>1 DEF Start, tables
<1>7. ASSUME NEW w \in Workers,
             \/ LockBatch(w) \/ Check(w) \/ Reject(w) \/ Crash(w)
             \/ RefuseDuplicate(w) \/ SaveAttendance(w) \/ SaveBatch(w) \/ SaveBatchDeletion(w)
             \/ SaveProfile(w)
      PROVE  enrolment' = enrolment
  BY <1>7 DEF LockBatch, Check, Reject, Crash, RefuseDuplicate, SaveAttendance, SaveBatch,
              SaveBatchDeletion, SaveProfile, tables
<1>8. CASE UNCHANGED vars
  BY <1>1, <1>8 DEF vars
<1>9. QED
  BY <1>1, <1>2, <1>3, <1>4, <1>5, <1>6, <1>7, <1>8 DEF Next, Save

\* A grant adds one seat, the one it was asked for, to the batch it locked.
LEMMA GrantAddsOne ==
  ASSUME TypeOK, JobsWellFormed, NEW w \in Workers, Grants(w), NEW b, b = job[w].batch
  PROVE  Taken(b)' \subseteq Taken(b) \cup {job[w].key}
<1>1. \A k \in Keys : k # job[w].key => enrolment'[k] = enrolment[k]
  BY DEF Grants, InsertEnrolment, SaveEnrolment, TypeOK
<1>2. QED
  BY <1>1 DEF Taken, HoldsSeat, Visible, Exists

LEMMA OneMoreSeat ==
  ASSUME NEW S, NEW T, NEW k, IsFiniteSet(S), T \subseteq S \cup {k}
  PROVE  Cardinality(T) <= Cardinality(S) + 1
<1>1. Cardinality(S) \in Nat
  BY FS_CardinalityType
<1>2. /\ IsFiniteSet(S \cup {k})
      /\ Cardinality(S \cup {k}) = IF k \in S THEN Cardinality(S) ELSE Cardinality(S) + 1
  BY FS_AddElement
<1>3. /\ Cardinality(S \cup {k}) \in Nat
      /\ Cardinality(S \cup {k}) <= Cardinality(S) + 1
  BY <1>1, <1>2
<1>4. /\ IsFiniteSet(T)
      /\ Cardinality(T) <= Cardinality(S \cup {k})
  BY <1>2, FS_Subset
<1>5. Cardinality(T) \in Nat
  BY <1>4, FS_CardinalityType
<1>6. QED
  BY <1>1, <1>3, <1>4, <1>5

\* A seat checked under a lock stays free until the transaction that checked it ends.
LEMMA CheckedStep ==
  ASSUME IInv, [Next]_vars
  PROVE  CheckedSeatStaysFree'
<1> USE ConstantsAssumption DEF IInv
<1> SUFFICES ASSUME NEW v \in Workers, NEW b \in Batches,
                    pc'[v] = "checked", NamesBatch(v)', job'[v].batch = b
             PROVE  Cardinality(Taken(b)') < batch'[b].max_capacity
  <2>1. TypeOK'
    BY TypeStep
  <2>2. \A v \in Workers : NamesBatch(v)' => job'[v].batch \in Batches
    BY <2>1 DEF TypeOK, Job, NamesBatch
  <2>3. QED
    BY <2>2 DEF CheckedSeatStaysFree, HasFreeSeat
<1>1. CASE pc[v] = "checked" /\ NamesBatch(v) /\ job[v].batch = b
  <2>1. HasFreeSeat(b) /\ Locks(v, b)
    BY <1>1 DEF CheckedSeatStaysFree, Locks
  <2>2. batch'[b] = batch[b]
    BY <2>1, LockedRowFixed DEF BatchLocked
  <2>3. ASSUME NEW w \in Workers, Grants(w)
        PROVE  job[w].batch # b
    <3>1. pc'[w] = "idle" /\ w # v
      BY <1>1, <2>3 DEF Grants, InsertEnrolment, SaveEnrolment, Finish, TypeOK
    <3>2. job[w].batch = b => Locks(w, b)
      BY <2>3 DEF Grants, InsertEnrolment, SaveEnrolment, Writing, Locks, NamesBatch
    <3>3. QED
      BY <2>1, <3>1, <3>2 DEF LocksExclude
  <2>4. \A s \in Students, c \in Courses : ~ConvertLead(s, c, b)
    BY <2>1 DEF ConvertLead, BatchLocked
  <2>5. Taken(b)' \subseteq Taken(b)
    BY <2>3, <2>4, SeatsOfOthers
  <2>6. Cardinality(Taken(b)') <= Cardinality(Taken(b)) /\ Cardinality(Taken(b)') \in Nat
    BY <2>5, TakenFinite, FS_Subset, FS_CardinalityType
  <2>7. batch[b].max_capacity \in Nat
    BY DEF TypeOK, BatchRow
  <2>8. QED
    BY <2>1, <2>2, <2>6, <2>7, TakenFinite DEF HasFreeSeat
<1>2. CASE Check(v)
  <2>1. job[v].batch = b /\ NamesBatch(v) /\ job'[v] = job[v] /\ tables' = tables
    BY <1>2 DEF Check, NamesBatch
  <2>2. HasFreeSeat(b)
    BY <1>2, <2>1 DEF Check, Passes, NamesBatch, MayEnrol, MayTransfer
  <2>3. QED
    BY <2>1, <2>2 DEF tables, HasFreeSeat, Taken, HoldsSeat, Visible, Exists
<1>3. ASSUME NEW w \in Workers, Load(w)
      PROVE  pc[v] = "checked" /\ NamesBatch(v) /\ job[v].batch = b
  <2>1. PICK j \in Job : Start(w, j)
    BY <1>3, LoadIsStart
  <2>2. QED
    BY <2>1 DEF Start, NamesBatch, NothingToCheck, TypeOK
<1>4. ASSUME NEW w \in Workers, LockBatch(w) \/ (Check(w) /\ w # v)
      PROVE  pc[v] = "checked" /\ NamesBatch(v) /\ job[v].batch = b
  BY <1>4 DEF LockBatch, Check, NamesBatch, TypeOK
<1>5. ASSUME NEW w \in Workers, Finish(w)
      PROVE  pc[v] = "checked" /\ NamesBatch(v) /\ job[v].batch = b
  BY <1>5 DEF Finish, NamesBatch, TypeOK
<1>6. ASSUME NEW w \in Workers, Reject(w) \/ Crash(w) \/ Save(w)
      PROVE  Finish(w)
  BY <1>6 DEF Reject, Crash, Save, InsertEnrolment, RefuseDuplicate, SaveEnrolment,
              SaveWithdrawal, SaveAttendance, SaveBatch, SaveBatchDeletion, SaveProfile
<1>7. CASE UNCHANGED <<pc, job>>
  BY <1>1, <1>7 DEF NamesBatch
<1>8. QED
  BY <1>1, <1>2, <1>3, <1>4, <1>5, <1>6, <1>7 DEF Next, vars, ConvertLead
-----------------------------------------------------------------------------
LEMMA InitIInv ==
  ASSUME Init
  PROVE  IInv
<1> USE ConstantsAssumption
<1>1. NoJob \in Job
  BY DEF NoJob, Job, AllOperations
<1>2. TypeOK
  BY <1>1 DEF Init, TypeOK, Phases
<1>3. JobsWellFormed /\ CheckedSeatStaysFree /\ LocksExclude
  BY DEF Init, JobsWellFormed, CheckedSeatStaysFree, LocksExclude, Locks
<1>4. EnrolledHaveAccounts
  BY DEF Init, EnrolledHaveAccounts, Exists
<1>5. QED
  BY <1>2, <1>3, <1>4 DEF IInv

LEMMA IInvStep ==
  ASSUME IInv, [Next]_vars
  PROVE  IInv'
<1>1. TypeOK'
  BY TypeStep DEF IInv
<1>2. JobsWellFormed'
  BY JobsStep DEF IInv
<1>3. LocksExclude'
  BY LocksStep DEF IInv
<1>4. CheckedSeatStaysFree'
  BY CheckedStep
<1>5. EnrolledHaveAccounts'
  BY AccountsStep DEF IInv
<1>6. QED
  BY <1>1, <1>2, <1>3, <1>4, <1>5 DEF IInv

\* The row locks exclude each other and what a transaction checked under its lock holds
\* until it commits, whatever the other requests do.
THEOREM Invariance == Spec => []IInv
<1>1. Init => IInv
  BY InitIInv
<1>2. IInv /\ [Next]_vars => IInv'
  BY IInvStep
<1>3. QED
  BY <1>1, <1>2, PTL DEF Spec

\* Every table and every request in memory keeps its type.
THEOREM TypeCorrect == Spec => []TypeOK
<1>1. IInv => TypeOK
  BY DEF IInv
<1>2. QED
  BY <1>1, Invariance, PTL

\* A grant does not leave its batch over capacity.
LEMMA GrantStep ==
  ASSUME IInv, NEW w \in Workers, NEW b \in Batches, Grants(w), job[w].batch = b
  PROVE  Cardinality(Taken(b)') <= batch'[b].max_capacity
<1>1. pc[w] = "checked" /\ NamesBatch(w)
  BY ConstantsAssumption
     DEF Grants, InsertEnrolment, SaveEnrolment, Writing, NamesBatch
<1>2. HasFreeSeat(b)
  BY <1>1 DEF IInv, CheckedSeatStaysFree
<1>3. Taken(b)' \subseteq Taken(b) \cup {job[w].key}
  BY GrantAddsOne DEF IInv
<1>4. Cardinality(Taken(b)') <= Cardinality(Taken(b)) + 1
  BY <1>3, TakenFinite, OneMoreSeat
<1>5. batch' = batch /\ batch[b].max_capacity \in Nat
  BY ConstantsAssumption DEF Grants, InsertEnrolment, SaveEnrolment, IInv, TypeOK, BatchRow
<1>6. Cardinality(Taken(b)) \in Nat /\ Cardinality(Taken(b)') \in Nat
  <2>1. IsFiniteSet(Taken(b))
    BY TakenFinite
  <2>2. IsFiniteSet(Taken(b) \cup {job[w].key})
    BY <2>1, FS_AddElement
  <2>3. IsFiniteSet(Taken(b)')
    BY <1>3, <2>2, FS_Subset
  <2>4. QED
    BY <2>1, <2>3, FS_CardinalityType
<1>7. QED
  BY <1>2, <1>4, <1>5, <1>6 DEF HasFreeSeat

\* The seat an enrolment or a transfer commits to is free when it commits, whichever other
\* operations run beside it.
THEOREM SeatGranted == Spec => SeatGrantedIsFree
<1>1. IInv => [\A w \in Workers, b \in Batches :
                 Grants(w) /\ job[w].batch = b =>
                   Cardinality(Taken(b)') <= batch'[b].max_capacity]_vars
  BY GrantStep
<1>2. QED
  BY <1>1, Invariance, PTL DEF SeatGrantedIsFree

\* No request makes an enrolment that is over live again, nor removes its row.
THEOREM NotRevived == Spec => SeatNotRevived
<1>1. IInv /\ [Next]_vars =>
        [\A k \in Keys : Exists(k) /\ ~HoldsSeat(k) => Exists(k)' /\ ~HoldsSeat(k)']_vars
  BY RowFate DEF IInv
<1>2. QED
  BY <1>1, Invariance, PTL DEF SeatNotRevived, Spec
-----------------------------------------------------------------------------
\* The enrolment desk without batch edits and lead conversions.
DeskOnly == Operations \cap {"update_batch", "convert_lead"} = {}

\* No desk request changes the number of seats of a batch.
LEMMA SeatsFixed ==
  ASSUME IInv, DeskOnly, [Next]_vars
  PROVE  \A b \in Batches : batch'[b].max_capacity = batch[b].max_capacity
<1>1. CASE batch' = batch
  BY <1>1
<1>2. ASSUME NEW w \in Workers, SaveBatchDeletion(w)
      PROVE  \A b \in Batches : batch'[b].max_capacity = batch[b].max_capacity
  <2>1. /\ batch' = [batch EXCEPT ![job[w].batch] = [batch[job[w].batch] EXCEPT !.is_deleted = TRUE]]
        /\ \A b \in Batches : batch[b] \in BatchRow
    BY <1>2 DEF SaveBatchDeletion, IInv, TypeOK
  <2>2. QED
    BY <2>1 DEF BatchRow, IInv, TypeOK
<1>3. ASSUME NEW w \in Workers, SaveBatch(w)
      PROVE  FALSE
  BY <1>3 DEF SaveBatch, Writing, DeskOnly, IInv, JobsWellFormed, WellFormed
<1>4. ASSUME NEW w \in Workers, Load(w)
      PROVE  batch' = batch
  <2>1. PICK j \in Job : Start(w, j)
    BY <1>4, LoadIsStart DEF IInv
  <2>2. QED
    BY <2>1 DEF Start, tables
<1>5. QED
  BY <1>1, <1>2, <1>3, <1>4 DEF Next, vars, Save, LockBatch, Check, Reject, Crash, InsertEnrolment,
     RefuseDuplicate, SaveEnrolment, SaveWithdrawal, SaveAttendance, SaveProfile, ConvertLead,
     tables

LEMMA NoConversion ==
  ASSUME DeskOnly
  PROVE  \A s \in Students, c \in Courses, b \in Batches : ~ConvertLead(s, c, b)
BY DEF DeskOnly, ConvertLead

\* The enrolment desk alone never overfills a batch.
THEOREM DeskCapacity ==
  ASSUME DeskOnly
  PROVE  Spec => []CapacityRespected
<1>1. Init => CapacityRespected
  <2> SUFFICES ASSUME Init, NEW b \in Batches
               PROVE  Cardinality(Taken(b)) <= batch[b].max_capacity
    BY DEF CapacityRespected
  <2>1. Taken(b) = {}
    BY DEF Init, Taken, HoldsSeat, Visible, Exists
  <2>2. Cardinality(Taken(b)) = 0
    BY <2>1, FS_EmptySet
  <2>3. batch[b].max_capacity \in Nat \ {0}
    BY ConstantsAssumption DEF Init, BatchRow
  <2>4. QED
    BY <2>2, <2>3
<1>2. IInv /\ CapacityRespected /\ [Next]_vars => CapacityRespected'
  <2> SUFFICES ASSUME IInv, CapacityRespected, [Next]_vars, NEW b \in Batches
               PROVE  Cardinality(Taken(b)') <= batch'[b].max_capacity
    BY DEF CapacityRespected
  <2>1. CASE \E w \in Workers : Grants(w) /\ job[w].batch = b
    BY <2>1, GrantStep
  <2>2. CASE ~\E w \in Workers : Grants(w) /\ job[w].batch = b
    <3>1. Taken(b)' \subseteq Taken(b)
      BY <2>2, NoConversion, SeatsOfOthers DEF IInv
    <3>2. IsFiniteSet(Taken(b)) /\ Cardinality(Taken(b)) <= batch[b].max_capacity
      BY TakenFinite DEF CapacityRespected
    <3>3. /\ Cardinality(Taken(b)') <= Cardinality(Taken(b))
          /\ Cardinality(Taken(b)) \in Nat
          /\ Cardinality(Taken(b)') \in Nat
      BY <3>1, <3>2, FS_Subset, FS_CardinalityType
    <3>4. batch'[b].max_capacity = batch[b].max_capacity /\ batch[b].max_capacity \in Nat
      BY ConstantsAssumption, SeatsFixed DEF IInv, TypeOK, BatchRow
    <3>5. QED
      BY <3>2, <3>3, <3>4
  <2>3. QED
    BY <2>1, <2>2
<1>3. QED
  BY <1>1, <1>2, Invariance, PTL DEF Spec
-----------------------------------------------------------------------------
\* Who occupies a batch in the ledger holds a seat of it at the desk.
LEMMA OccupantsAreTaken ==
  ASSUME NEW b \in Batches
  PROVE  Ledger!Occupants(b) = Taken(b)
<1>1. \A k \in Keys : Standings[k] = b <=> HoldsSeat(k) /\ enrolment[k].batch = b
  BY ConstantsAssumption DEF Standings, Standing, HoldsSeat, Visible
<1>2. QED
  BY <1>1 DEF Ledger!Occupants, Taken

\* The module system makes a copy of Cardinality inside the ledger: it is the same operator.
LEMMA SameCardinality ==
  ASSUME NEW S
  PROVE  Ledger!Cardinality(S) = Cardinality(S)
BY DEF Ledger!Cardinality, Cardinality

\* The standing of a pair depends on its row alone.
LEMMA StandingFollowsRow ==
  ASSUME NEW k \in Keys, enrolment'[k] = enrolment[k]
  PROVE  Standings'[k] = Standings[k]
BY DEF Standings, Standing, Exists, HoldsSeat, Visible

\* When only the row of k changes, only the standing of k does.
LEMMA OneStanding ==
  ASSUME NEW k \in Keys, \A i \in Keys : i # k => enrolment'[i] = enrolment[i]
  PROVE  Standings' = [Standings EXCEPT ![k] = Standings'[k]]
<1>1. \A i \in Keys : i # k => Standings'[i] = Standings[i]
  BY StandingFollowsRow
<1>2. /\ Standings = [i \in Keys |-> Standings[i]]
      /\ Standings' = [i \in Keys |-> Standings'[i]]
  BY DEF Standings
<1>3. QED
  BY <1>1, <1>2

\* Each row written by the desk is one ledger entry, or none.
LEMMA InsertIsEntry ==
  ASSUME IInv, NEW w \in Workers, InsertEnrolment(w), Seats' = Seats
  PROVE  Ledger!Next
<1> USE ConstantsAssumption
<1> DEFINE k == job[w].key
           b == job[w].batch
<1>1. k \in Keys /\ b \in Batches /\ job[w].status \in Statuses /\ NamesBatch(w)
  BY DEF IInv, InsertEnrolment, Writing, JobsWellFormed, WellFormed, TypeOK, Job, NamesBatch
<1>2. /\ enrolment'[k] = [batch |-> b, status |-> job[w].status, is_deleted |-> FALSE]
      /\ \A i \in Keys : i # k => enrolment'[i] = enrolment[i]
  BY <1>1 DEF InsertEnrolment, IInv, TypeOK
<1>3. Standings' = [Standings EXCEPT ![k] = Standings'[k]]
  BY <1>1, <1>2, OneStanding
<1>4. Standings[k] = None
  BY <1>1 DEF Standings, Standing, InsertEnrolment
<1>5. enrolment'[k] # None
  <2>1. enrolment'[k] \in EnrolmentRow
    BY <1>1, <1>2 DEF EnrolmentRow
  <2>2. QED
    BY <2>1
<1>6. CASE job[w].status = "ACTIVE"
  <2>1. Standings'[k] = b
    BY <1>1, <1>2, <1>5, <1>6 DEF Standings, Standing, Exists, HoldsSeat, Visible
  <2>2. HasFreeSeat(b)
    BY <1>1 DEF IInv, CheckedSeatStaysFree, InsertEnrolment, Writing
  <2>3. Ledger!HasFreeSeat(b)
    BY <1>1, <2>2, OccupantsAreTaken, SameCardinality DEF HasFreeSeat, Ledger!HasFreeSeat, Seats
  <2>4. Ledger!Take(k, b)
    BY <1>3, <1>4, <2>1, <2>3 DEF Ledger!Take
  <2>5. QED
    BY <1>1, <2>4 DEF Ledger!Next
<1>7. CASE job[w].status # "ACTIVE"
  <2>1. Standings'[k] = Closed
    BY <1>1, <1>2, <1>5, <1>7 DEF Standings, Standing, Exists, HoldsSeat, Visible
  <2>2. Ledger!Close(k)
    BY <1>3, <2>1 DEF Ledger!Close
  <2>3. QED
    BY <1>1, <2>2 DEF Ledger!Next
<1>8. QED
  BY <1>6, <1>7

LEMMA SaveIsEntry ==
  ASSUME IInv, NEW w \in Workers, SaveEnrolment(w), Seats' = Seats
  PROVE  Ledger!Next \/ Standings' = Standings
<1> USE ConstantsAssumption
<1> DEFINE k == job[w].key
           b == job[w].batch
           s == job[w].status
           saved == [enrolment[k] EXCEPT !.batch = IF b # None THEN b ELSE @,
                                         !.status = IF s # None THEN s ELSE @]
<1>1. /\ k \in Keys /\ Exists(k)
      /\ b \in Batches \cup {None}
      /\ s \in (Statuses \ {"ACTIVE"}) \cup {None}
      /\ b # None => NamesBatch(w)
  BY DEF IInv, SaveEnrolment, Writing, JobsWellFormed, WellFormed, TypeOK, Job, NamesBatch
<1>2. enrolment[k] \in EnrolmentRow
  BY <1>1 DEF Exists, IInv, TypeOK
<1>3. enrolment' = [enrolment EXCEPT ![k] = saved]
  BY DEF SaveEnrolment
<1>4. enrolment'[k] = saved /\ \A i \in Keys : i # k => enrolment'[i] = enrolment[i]
  BY <1>1, <1>3 DEF IInv, TypeOK
<1>5. /\ saved \in EnrolmentRow
      /\ saved.is_deleted = enrolment[k].is_deleted
      /\ saved.batch = IF b # None THEN b ELSE enrolment[k].batch
      /\ saved.status = IF s # None THEN s ELSE enrolment[k].status
  BY <1>1, <1>2 DEF EnrolmentRow
<1>6. Standings' = [Standings EXCEPT ![k] = Standings'[k]]
  BY <1>1, <1>4, OneStanding
<1>7. CASE ~HoldsSeat(k)
  <2>1. Standings[k] = Closed
    BY <1>1, <1>7 DEF Standings, Standing
  <2>2. Standings'[k] = Closed
    BY <1>1, <1>4, <1>5, <1>7 DEF Standings, Standing, Exists, HoldsSeat, Visible
  <2>3. Standings' = Standings
    BY <1>6, <2>1, <2>2 DEF Standings
  <2>4. QED
    BY <2>3
<1>8. CASE HoldsSeat(k) /\ s # None
  <2>1. Standings'[k] = Closed
    BY <1>1, <1>4, <1>5, <1>8 DEF Standings, Standing, Exists, HoldsSeat, Visible
  <2>2. Ledger!Close(k)
    BY <1>6, <2>1 DEF Ledger!Close
  <2>3. QED
    BY <1>1, <2>2 DEF Ledger!Next
<1>9. CASE HoldsSeat(k) /\ s = None
  <2>1. Standings[k] = enrolment[k].batch /\ enrolment[k].batch \in Batches
    BY <1>1, <1>2, <1>9 DEF Standings, Standing, EnrolmentRow
  <2>2. Standings'[k] = saved.batch
    BY <1>1, <1>4, <1>5, <1>9 DEF Standings, Standing, Exists, HoldsSeat, Visible
  <2>3. CASE saved.batch = enrolment[k].batch
    <3>1. Standings' = Standings
      BY <1>6, <2>1, <2>2, <2>3 DEF Standings
    <3>2. QED
      BY <3>1
  <2>4. CASE saved.batch # enrolment[k].batch
    <3>1. saved.batch = b /\ b # None
      BY <1>5, <2>4
    <3>2. HasFreeSeat(b)
      BY <1>1, <3>1 DEF IInv, CheckedSeatStaysFree, SaveEnrolment, Writing
    <3>3. Ledger!HasFreeSeat(b)
      BY <1>1, <3>1, <3>2, OccupantsAreTaken, SameCardinality DEF HasFreeSeat, Ledger!HasFreeSeat, Seats
    <3>4. Ledger!Move(k, b)
      BY <1>6, <2>1, <2>2, <2>4, <3>1, <3>3 DEF Ledger!Move
    <3>5. QED
      BY <1>1, <3>1, <3>4 DEF Ledger!Next
  <2>5. QED
    BY <2>3, <2>4
<1>10. QED
  BY <1>1, <1>7, <1>8, <1>9

LEMMA WithdrawalIsEntry ==
  ASSUME IInv, NEW w \in Workers, SaveWithdrawal(w), Seats' = Seats
  PROVE  Ledger!Next
<1> USE ConstantsAssumption
<1> DEFINE k == job[w].key
           saved == [enrolment[k] EXCEPT !.is_deleted = TRUE]
<1>1. k \in Keys /\ Exists(k)
  BY DEF IInv, SaveWithdrawal, Writing, JobsWellFormed, WellFormed, TypeOK, Job
<1>2. enrolment[k] \in EnrolmentRow
  BY <1>1 DEF Exists, IInv, TypeOK
<1>3. enrolment' = [enrolment EXCEPT ![k] = saved]
  BY DEF SaveWithdrawal
<1>4. enrolment'[k] = saved /\ \A i \in Keys : i # k => enrolment'[i] = enrolment[i]
  BY <1>1, <1>3 DEF IInv, TypeOK
<1>5. saved \in EnrolmentRow /\ saved.is_deleted
  BY <1>2 DEF EnrolmentRow
<1>6. Standings'[k] = Closed
  BY <1>1, <1>4, <1>5 DEF Standings, Standing, Exists, HoldsSeat, Visible
<1>7. Standings' = [Standings EXCEPT ![k] = Standings'[k]]
  BY <1>1, <1>4, OneStanding
<1>8. Ledger!Close(k)
  BY <1>6, <1>7 DEF Ledger!Close
<1>9. QED
  BY <1>1, <1>8 DEF Ledger!Next

\* The enrolment desk implements the ledger: each commit is one entry, every other step is
\* invisible.
THEOREM DeskImplementsLedger ==
  ASSUME DeskOnly
  PROVE  Spec => ImplementsLedger
<1>1. Init => Ledger!Init
  <2> SUFFICES ASSUME Init
               PROVE  Ledger!Init
    OBVIOUS
  <2>1. Standings = [k \in Keys |-> None]
    BY DEF Init, Standings, Standing, Exists
  <2>2. Seats \in [Batches -> Nat \ {0}]
    BY ConstantsAssumption DEF Init, Seats, BatchRow
  <2>3. QED
    BY <2>1, <2>2 DEF Ledger!Init
<1>2. IInv /\ [Next]_vars => [Ledger!Next]_(Ledger!ledger)
  <2> SUFFICES ASSUME IInv, [Next]_vars
               PROVE  Ledger!Next \/ UNCHANGED <<Standings, Seats>>
    BY DEF Ledger!ledger
  <2>1. Seats' = Seats
    BY SeatsFixed DEF Seats
  <2>2. CASE enrolment' = enrolment
    BY <2>1, <2>2 DEF Standings, Standing, Exists, HoldsSeat, Visible
  <2>3. ASSUME NEW w \in Workers, InsertEnrolment(w)
        PROVE  Ledger!Next
    BY <2>1, <2>3, InsertIsEntry
  <2>4. ASSUME NEW w \in Workers, SaveEnrolment(w)
        PROVE  Ledger!Next \/ Standings' = Standings
    BY <2>1, <2>4, SaveIsEntry
  <2>5. ASSUME NEW w \in Workers, SaveWithdrawal(w)
        PROVE  Ledger!Next
    BY <2>1, <2>5, WithdrawalIsEntry
  <2>6. ASSUME NEW w \in Workers, Load(w)
        PROVE  enrolment' = enrolment
    <3>1. PICK j \in Job : Start(w, j)
      BY <2>6, LoadIsStart DEF IInv
    <3>2. QED
      BY <3>1 DEF Start, tables
  <2>7. ASSUME NEW w \in Workers,
               \/ LockBatch(w) \/ Check(w) \/ Reject(w) \/ Crash(w)
               \/ RefuseDuplicate(w) \/ SaveAttendance(w) \/ SaveBatch(w) \/ SaveBatchDeletion(w)
               \/ SaveProfile(w)
        PROVE  enrolment' = enrolment
    BY <2>7 DEF LockBatch, Check, Reject, Crash, RefuseDuplicate, SaveAttendance, SaveBatch,
                SaveBatchDeletion, SaveProfile, tables
  <2>8. CASE UNCHANGED vars
    BY <2>2, <2>8 DEF vars
  <2>9. QED
    BY <2>1, <2>2, <2>3, <2>4, <2>5, <2>6, <2>7, <2>8, NoConversion DEF Next, Save
<1>3. QED
  BY <1>1, <1>2, Invariance, PTL DEF Spec, ImplementsLedger, Ledger!Spec

-----------------------------------------------------------------------------
(* Where a profile points, and where a seat may be.                         *)

\* The steps that write no enrolment leave the profiles alone too, but for the edits of one.
Apart == enrolment' = enrolment /\ profile' = profile /\ repointed' = repointed

LEMMA OtherSteps ==
  ASSUME TypeOK, [Next]_vars,
         \A w \in Workers : ~InsertEnrolment(w) /\ ~SaveEnrolment(w) /\ ~SaveWithdrawal(w),
         \A w \in Workers : ~SaveProfile(w),
         \A s \in Students, c \in Courses, b \in Batches : ~ConvertLead(s, c, b)
  PROVE  Apart
<1> USE DEF Apart
<1>1. ASSUME NEW w \in Workers, Load(w)
      PROVE  Apart
  <2>1. PICK j \in Job : Start(w, j)
    BY <1>1, LoadIsStart
  <2>2. QED
    BY <2>1 DEF Start, tables
<1>2. ASSUME NEW w \in Workers,
             \/ LockBatch(w) \/ Check(w) \/ Reject(w) \/ Crash(w)
             \/ RefuseDuplicate(w) \/ SaveAttendance(w) \/ SaveBatch(w) \/ SaveBatchDeletion(w)
      PROVE  Apart
  BY <1>2 DEF LockBatch, Check, Reject, Crash, RefuseDuplicate, SaveAttendance, SaveBatch,
              SaveBatchDeletion, tables
<1>3. CASE UNCHANGED vars
  BY <1>3 DEF vars
<1>4. QED
  BY <1>1, <1>2, <1>3 DEF Next, Save

\* A step that writes one enrolment, with its batch in the profile of the student or with the
\* batch it had.
LEMMA PointerKept ==
  ASSUME TypeOK, ProfileNamesEnrolment, NEW k \in Keys,
         enrolment'[k] # None,
         \A i \in Keys : i # k => enrolment'[i] = enrolment[i],
         \A s \in Students : s # k[1] => profile'[s] = profile[s],
         repointed \ {k[1]} \subseteq repointed',
         \/ profile'[k[1]] = enrolment'[k].batch
         \/ /\ profile'[k[1]] = profile[k[1]] /\ repointed' = repointed
            /\ enrolment[k] # None /\ enrolment'[k].batch = enrolment[k].batch
  PROVE  ProfileNamesEnrolment'
<1> SUFFICES ASSUME NEW s \in Students \ repointed', profile'[s] # None
             PROVE  \E c \in Courses : /\ enrolment'[<<s, c>>] # None
                                      /\ enrolment'[<<s, c>>].batch = profile'[s]
  BY DEF ProfileNamesEnrolment, Exists
<1>1. k[1] \in Students /\ k[2] \in Courses /\ k = <<k[1], k[2]>>
  BY DEF Keys
<1>2. CASE s = k[1] /\ profile'[s] = enrolment'[k].batch
  BY <1>1, <1>2
<1>3. CASE profile'[s] = profile[s] /\ s \notin repointed
           /\ (s = k[1] => enrolment[k] # None /\ enrolment'[k].batch = enrolment[k].batch)
  <2>1. PICK c \in Courses : enrolment[<<s, c>>] # None /\ enrolment[<<s, c>>].batch = profile[s]
    BY <1>3 DEF ProfileNamesEnrolment, Exists
  <2>2. <<s, c>> \in Keys /\ (<<s, c>> = k => s = k[1])
    BY DEF Keys
  <2>3. QED
    BY <1>3, <2>1, <2>2
<1>4. QED
  BY <1>2, <1>3

\* Whichever requests overlap, the batch a profile points at is the batch of an enrolment of
\* its student, unless an edit of the profile was the last to change it: every service that
\* moves an enrolment moves the pointer in the same commit.
THEOREM ProfilesPoint == Spec => []ProfileNamesEnrolment
<1>1. Init => ProfileNamesEnrolment
  BY DEF Init, ProfileNamesEnrolment
<1>2. IInv /\ ProfileNamesEnrolment /\ [Next]_vars => ProfileNamesEnrolment'
  <2> SUFFICES ASSUME IInv, ProfileNamesEnrolment, [Next]_vars
               PROVE  ProfileNamesEnrolment'
    OBVIOUS
  <2> USE ConstantsAssumption
  <2>1. ASSUME NEW w \in Workers, InsertEnrolment(w)
        PROVE  ProfileNamesEnrolment'
    <3>1. /\ job[w].key \in Keys /\ job[w].key[1] \in Students
          /\ job[w].batch \in Batches /\ job[w].status \in Statuses
      BY <2>1 DEF InsertEnrolment, Writing, IInv, JobsWellFormed, WellFormed, TypeOK, Job, Keys
    <3>2. PICK k \in Keys : k = job[w].key
      BY <3>1
    <3>3. /\ enrolment'[k] = [batch |-> job[w].batch, status |-> job[w].status, is_deleted |-> FALSE]
          /\ profile'[k[1]] = job[w].batch
          /\ \A i \in Keys : i # k => enrolment'[i] = enrolment[i]
          /\ \A s \in Students : s # k[1] => profile'[s] = profile[s]
          /\ repointed' = repointed \ {k[1]}
      BY <2>1, <3>1, <3>2 DEF InsertEnrolment, IInv, TypeOK
    <3>4. enrolment'[k] # None
      <4>1. enrolment'[k] \in EnrolmentRow
        BY <3>1, <3>3 DEF EnrolmentRow
      <4>2. QED
        BY <4>1
    <3>5. profile'[k[1]] = enrolment'[k].batch
      BY <3>3
    <3>6. QED
      BY <3>3, <3>4, <3>5, PointerKept DEF IInv
  <2>2. ASSUME NEW w \in Workers, SaveEnrolment(w)
        PROVE  ProfileNamesEnrolment'
    <3> DEFINE j == job[w]
    <3>1. /\ j.key \in Keys /\ j.key[1] \in Students /\ Exists(j.key)
          /\ j.batch \in Batches \cup {None}
      BY <2>2 DEF SaveEnrolment, Writing, IInv, JobsWellFormed, WellFormed, TypeOK, Job, Keys
    <3>2. PICK k \in Keys : k = j.key
      BY <3>1
    <3>3. enrolment[k] \in EnrolmentRow
      BY <3>1, <3>2 DEF Exists, IInv, TypeOK
    <3>4. PICK status :
            enrolment'[k] = [enrolment[k] EXCEPT
                               !.batch = IF j.batch # None THEN j.batch ELSE @, !.status = status]
      BY <2>2, <3>2 DEF SaveEnrolment, IInv, TypeOK
    <3>5. enrolment'[k].batch = IF j.batch # None THEN j.batch ELSE enrolment[k].batch
      BY <3>3, <3>4 DEF EnrolmentRow
    <3>6. enrolment'[k] # None
      BY <3>1, <3>2, RowFate DEF IInv, Exists
    <3>7. /\ \A i \in Keys : i # k => enrolment'[i] = enrolment[i]
          /\ \A s \in Students : s # k[1] => profile'[s] = profile[s]
          /\ profile'[k[1]] = IF j.batch # None THEN j.batch ELSE profile[k[1]]
          /\ repointed' = IF j.batch # None THEN repointed \ {k[1]} ELSE repointed
      BY <2>2, <3>1, <3>2 DEF SaveEnrolment, IInv, TypeOK
    <3>8. \/ profile'[k[1]] = enrolment'[k].batch
          \/ /\ profile'[k[1]] = profile[k[1]] /\ repointed' = repointed
             /\ enrolment[k] # None /\ enrolment'[k].batch = enrolment[k].batch
      BY <3>1, <3>2, <3>5, <3>7 DEF Exists
    <3>9. QED
      BY <3>6, <3>7, <3>8, PointerKept DEF IInv
  <2>3. ASSUME NEW w \in Workers, SaveWithdrawal(w)
        PROVE  ProfileNamesEnrolment'
    <3>1. job[w].key \in Keys /\ Exists(job[w].key)
      BY <2>3 DEF SaveWithdrawal, Writing, IInv, JobsWellFormed, WellFormed, TypeOK, Job
    <3>2. PICK k \in Keys : k = job[w].key
      BY <3>1
    <3>3. enrolment[k] \in EnrolmentRow
      BY <3>1, <3>2 DEF Exists, IInv, TypeOK
    <3>4. enrolment'[k] = [enrolment[k] EXCEPT !.is_deleted = TRUE]
      BY <2>3, <3>2 DEF SaveWithdrawal, IInv, TypeOK
    <3>5. enrolment'[k].batch = enrolment[k].batch
      BY <3>3, <3>4 DEF EnrolmentRow
    <3>6. enrolment'[k] # None /\ enrolment[k] # None
      BY <3>1, <3>2, RowFate DEF IInv, Exists
    <3>7. \A i \in Keys : i # k => enrolment'[i] = enrolment[i]
      BY <2>3, <3>2 DEF SaveWithdrawal, IInv, TypeOK
    <3>8. profile' = profile /\ repointed' = repointed
      BY <2>3 DEF SaveWithdrawal
    <3>9. QED
      BY <3>5, <3>6, <3>7, <3>8, PointerKept DEF IInv
  <2>4. ASSUME NEW s \in Students, NEW c \in Courses, NEW b \in Batches, ConvertLead(s, c, b)
        PROVE  ProfileNamesEnrolment'
    <3>1. PICK k \in Keys : k = <<s, c>>
      BY DEF Keys
    <3>2. k[1] = s
      BY <3>1
    <3>3. /\ enrolment'[k] = [batch |-> b, status |-> "ACTIVE", is_deleted |-> FALSE]
          /\ profile'[k[1]] = b
          /\ \A i \in Keys : i # k => enrolment'[i] = enrolment[i]
          /\ \A x \in Students : x # k[1] => profile'[x] = profile[x]
          /\ repointed' = repointed \ {k[1]}
      BY <2>4, <3>1, <3>2 DEF ConvertLead, IInv, TypeOK
    <3>4. enrolment'[k] # None /\ enrolment'[k].batch = b
      <4>1. enrolment'[k] \in EnrolmentRow
        BY <3>3 DEF EnrolmentRow, Statuses
      <4>2. enrolment'[k] # None
        BY <4>1
      <4>3. QED
        BY <3>3, <4>2
    <3>5. QED
      BY <3>3, <3>4, PointerKept DEF IInv
  <2>5. ASSUME NEW w \in Workers, SaveProfile(w)
        PROVE  ProfileNamesEnrolment'
    <3>1. /\ enrolment' = enrolment
          /\ \A s \in Students \ repointed' : profile'[s] = profile[s] /\ s \notin repointed
      <4>1. job[w].batch = profile[job[w].student] => profile' = profile
        BY <2>5 DEF SaveProfile, IInv, TypeOK
      <4>2. \A s \in Students : s # job[w].student => profile'[s] = profile[s]
        BY <2>5 DEF SaveProfile, IInv, TypeOK
      <4>3. QED
        BY <2>5, <4>1, <4>2 DEF SaveProfile
    <3>2. QED
      BY <3>1 DEF ProfileNamesEnrolment, Exists
  <2>6. CASE Apart
    BY <2>6 DEF Apart, ProfileNamesEnrolment, Exists
  <2>7. QED
    BY <2>1, <2>2, <2>3, <2>4, <2>5, <2>6, OtherSteps DEF IInv
<1>3. QED
  BY <1>1, <1>2, Invariance, PTL DEF Spec

\* Where a pair may have its seat.
Fits(table, k, b) ==
  table[b].course = k[2] /\ StudentBranch[k[1]] \in {None, table[b].branch}

\* What a desk request has checked of the batch it names.
CheckedSeatFits ==
  \A w \in Workers : pc[w] = "checked" /\ NamesBatch(w) => Fits(batch, job[w].key, job[w].batch)

\* No desk request changes the course or the branch of a batch.
LEMMA PlacesFixed ==
  ASSUME IInv, DeskOnly, [Next]_vars
  PROVE  \A k, b : b \in Batches /\ Fits(batch, k, b) => Fits(batch', k, b)
<1>1. CASE batch' = batch
  BY <1>1
<1>2. ASSUME NEW w \in Workers, SaveBatchDeletion(w)
      PROVE  \A b \in Batches : batch'[b].course = batch[b].course /\ batch'[b].branch = batch[b].branch
  <2>1. /\ batch' = [batch EXCEPT ![job[w].batch] = [batch[job[w].batch] EXCEPT !.is_deleted = TRUE]]
        /\ \A b \in Batches : batch[b] \in BatchRow
    BY <1>2 DEF SaveBatchDeletion, IInv, TypeOK
  <2>2. QED
    BY <2>1 DEF BatchRow, IInv, TypeOK
<1>3. ASSUME NEW w \in Workers, SaveBatch(w)
      PROVE  FALSE
  BY <1>3 DEF SaveBatch, Writing, DeskOnly, IInv, JobsWellFormed, WellFormed
<1>4. ASSUME NEW w \in Workers, Load(w)
      PROVE  batch' = batch
  <2>1. PICK j \in Job : Start(w, j)
    BY <1>4, LoadIsStart DEF IInv
  <2>2. QED
    BY <2>1 DEF Start, tables
<1>5. CASE \E w \in Workers : SaveBatchDeletion(w)
  BY <1>2, <1>5 DEF Fits
<1>6. QED
  BY <1>1, <1>3, <1>4, <1>5 DEF Next, vars, Save, LockBatch, Check, Reject, Crash, InsertEnrolment,
     RefuseDuplicate, SaveEnrolment, SaveWithdrawal, SaveAttendance, SaveProfile, ConvertLead,
     tables

LEMMA CheckedFitsStep ==
  ASSUME IInv, DeskOnly, CheckedSeatFits, [Next]_vars
  PROVE  CheckedSeatFits'
<1> USE ConstantsAssumption DEF IInv
<1> SUFFICES ASSUME NEW v \in Workers, pc'[v] = "checked", NamesBatch(v)'
             PROVE  Fits(batch', job'[v].key, job'[v].batch)
  BY DEF CheckedSeatFits
<1>0. job'[v].batch \in Batches
  BY TypeStep DEF TypeOK, Job, NamesBatch
<1>1. CASE pc[v] = "checked" /\ NamesBatch(v) /\ job'[v] = job[v]
  <2>1. Fits(batch, job[v].key, job[v].batch)
    BY <1>1 DEF CheckedSeatFits
  <2>2. Fits(batch, job'[v].key, job'[v].batch)
    BY <1>1, <2>1
  <2>3. QED
    BY <1>0, <2>2, PlacesFixed
<1>2. CASE Check(v)
  <2>1. NamesBatch(v) /\ job'[v] = job[v] /\ tables' = tables
    BY <1>2 DEF Check, NamesBatch
  <2>2. Fits(batch, job[v].key, job[v].batch)
    BY <1>2, <2>1 DEF Check, Passes, NamesBatch, MayEnrol, MayTransfer, Fits, MatchesCourse,
       SameBranch
  <2>3. QED
    BY <2>1, <2>2 DEF tables
<1>3. ASSUME NEW w \in Workers, Load(w)
      PROVE  pc[v] = "checked" /\ NamesBatch(v) /\ job'[v] = job[v]
  <2>1. PICK j \in Job : Start(w, j)
    BY <1>3, LoadIsStart
  <2>2. QED
    BY <2>1 DEF Start, NamesBatch, NothingToCheck, TypeOK
<1>4. ASSUME NEW w \in Workers, LockBatch(w) \/ (Check(w) /\ w # v)
      PROVE  pc[v] = "checked" /\ NamesBatch(v) /\ job'[v] = job[v]
  BY <1>4 DEF LockBatch, Check, NamesBatch, TypeOK
<1>5. ASSUME NEW w \in Workers, Finish(w)
      PROVE  pc[v] = "checked" /\ NamesBatch(v) /\ job'[v] = job[v]
  BY <1>5 DEF Finish, NamesBatch, TypeOK
<1>6. ASSUME NEW w \in Workers, Reject(w) \/ Crash(w) \/ Save(w)
      PROVE  Finish(w)
  BY <1>6 DEF Reject, Crash, Save, InsertEnrolment, RefuseDuplicate, SaveEnrolment,
              SaveWithdrawal, SaveAttendance, SaveBatch, SaveBatchDeletion, SaveProfile
<1>7. CASE UNCHANGED <<pc, job>>
  BY <1>1, <1>7 DEF NamesBatch
<1>8. QED
  BY <1>1, <1>2, <1>3, <1>4, <1>5, <1>6, <1>7 DEF Next, vars, ConvertLead

\* A live seat is the one it was, or the one its request checked.
LEMMA SeatFitsStep ==
  ASSUME IInv, DeskOnly, CheckedSeatFits, SeatMatchesBatch, [Next]_vars
  PROVE  SeatMatchesBatch'
<1> USE ConstantsAssumption DEF IInv
<1> SUFFICES ASSUME NEW k \in Keys, HoldsSeat(k)'
             PROVE  Fits(batch', k, enrolment'[k].batch)
  BY DEF SeatMatchesBatch, Fits, MatchesCourse, SameBranch
<1>0. enrolment'[k].batch \in Batches
  BY TypeStep DEF TypeOK, EnrolmentRow, HoldsSeat, Visible, Exists
<1>1. SUFFICES Fits(batch, k, enrolment'[k].batch)
  BY <1>0, PlacesFixed
<1>2. CASE enrolment'[k] = enrolment[k]
  BY <1>2 DEF HoldsSeat, Visible, Exists, SeatMatchesBatch, Fits, MatchesCourse, SameBranch
<1>3. ASSUME NEW w \in Workers, InsertEnrolment(w), enrolment'[k] # enrolment[k]
      PROVE  Fits(batch, k, enrolment'[k].batch)
  <2>1. pc[w] = "checked" /\ NamesBatch(w)
    BY <1>3 DEF InsertEnrolment, Writing, NamesBatch, JobsWellFormed, WellFormed
  <2>2. k = job[w].key /\ enrolment'[k].batch = job[w].batch
    BY <1>3 DEF InsertEnrolment, TypeOK
  <2>3. QED
    BY <2>1, <2>2 DEF CheckedSeatFits
<1>4. ASSUME NEW w \in Workers, SaveEnrolment(w), enrolment'[k] # enrolment[k]
      PROVE  Fits(batch, k, enrolment'[k].batch)
  <2> DEFINE j == job[w]
  <2>1. k = j.key
    BY <1>4 DEF SaveEnrolment, TypeOK
  <2>2. enrolment[k] \in EnrolmentRow
    BY <1>4, <2>1 DEF SaveEnrolment, Writing, JobsWellFormed, WellFormed, TypeOK, Exists
  <2>3. enrolment'[k] = [enrolment[k] EXCEPT
                           !.batch = IF j.batch # None THEN j.batch ELSE @,
                           !.status = IF j.status # None THEN j.status ELSE @]
    BY <1>4, <2>1 DEF SaveEnrolment, TypeOK
  <2>4. CASE j.batch # None
    <3>1. pc[w] = "checked" /\ NamesBatch(w)
      BY <1>4, <2>4 DEF SaveEnrolment, Writing, NamesBatch
    <3>2. enrolment'[k].batch = j.batch
      BY <2>2, <2>3, <2>4 DEF EnrolmentRow
    <3>3. QED
      BY <2>1, <3>1, <3>2 DEF CheckedSeatFits
  <2>5. CASE j.batch = None
    <3>1. /\ enrolment'[k].batch = enrolment[k].batch
          /\ enrolment'[k].is_deleted = enrolment[k].is_deleted
          /\ enrolment'[k].status = IF j.status # None THEN j.status ELSE enrolment[k].status
      BY <2>2, <2>3, <2>5 DEF EnrolmentRow
    <3>2. j.status # "ACTIVE"
      BY <1>4 DEF SaveEnrolment, Writing, JobsWellFormed, WellFormed
    <3>3. HoldsSeat(k)
      BY <2>2, <3>1, <3>2 DEF HoldsSeat, Visible, Exists
    <3>4. QED
      BY <3>1, <3>3 DEF SeatMatchesBatch, Fits, MatchesCourse, SameBranch
  <2>6. QED
    BY <2>4, <2>5
<1>5. ASSUME NEW w \in Workers, SaveWithdrawal(w), enrolment'[k] # enrolment[k]
      PROVE  FALSE
  <2>1. k = job[w].key
    BY <1>5 DEF SaveWithdrawal, TypeOK
  <2>2. enrolment[k] \in EnrolmentRow
    BY <1>5, <2>1 DEF SaveWithdrawal, Writing, JobsWellFormed, WellFormed, TypeOK, Exists
  <2>3. enrolment'[k] = [enrolment[k] EXCEPT !.is_deleted = TRUE]
    BY <1>5, <2>1 DEF SaveWithdrawal, TypeOK
  <2>4. enrolment'[k].is_deleted
    BY <2>2, <2>3 DEF EnrolmentRow
  <2>5. QED
    BY <2>4 DEF HoldsSeat, Visible
<1>6. ASSUME NEW w \in Workers, SaveProfile(w)
      PROVE  enrolment' = enrolment
  BY <1>6 DEF SaveProfile
<1>7. QED
  BY <1>2, <1>3, <1>4, <1>5, <1>6, NoConversion, OtherSteps DEF Apart

\* As long as batches are not edited and leads not converted, no live seat is in a batch of
\* another course or branch, however the transfers and enrolments interleave.
THEOREM SeatsFit ==
  ASSUME DeskOnly
  PROVE  Spec => []SeatMatchesBatch
<1>1. Init => CheckedSeatFits /\ SeatMatchesBatch
  BY DEF Init, CheckedSeatFits, SeatMatchesBatch, HoldsSeat, Visible, Exists
<1>2. IInv /\ CheckedSeatFits /\ SeatMatchesBatch /\ [Next]_vars =>
        CheckedSeatFits' /\ SeatMatchesBatch'
  BY CheckedFitsStep, SeatFitsStep
<1>3. QED
  BY <1>1, <1>2, Invariance, PTL DEF Spec
=============================================================================
