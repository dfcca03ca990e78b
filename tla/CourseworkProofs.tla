--------------------------- MODULE CourseworkProofs ---------------------------
(***************************************************************************)
(* Proofs about Coursework and Reports, for any number of workers,         *)
(* students, assignments, exams and lectures, and any marks.               *)
(***************************************************************************)
EXTENDS Reports, FiniteSetTheorems, TLAPS

Edits == {"evaluate", "edit_submission"}

\* What a worker holds in memory.
SubmissionJob(j) ==
  /\ j.row \in Assignments \X Students
  /\ j.read = {j.row}
  /\ j.seen \in SubmissionRow /\ j.new \in SubmissionRow

PublishJob(j) ==
  /\ j.row \in Exams
  /\ j.read = {j.row}
  /\ \E some \in SUBSET Students : j.marks \in [some -> Marks]
  /\ j.given \in {None, "other"}
  /\ j.total \in Totals

ResultJob(j) ==
  /\ j.row \in Exams \X Students
  /\ j.read = {j.row, j.row[1]}
  /\ j.seen \in ResultRow /\ j.new \in ResultRow

JobFits(j) ==
  /\ j.op \in Edits => SubmissionJob(j)
  /\ j.op = "publish" => PublishJob(j)
  /\ j.op = "edit_result" => ResultJob(j)
  /\ j.op = "delete_lecture" => j.row \in Lectures

Shapes ==
  /\ pc \in [Workers -> {"idle", "loaded"}]
  /\ job = [w \in Workers |-> job[w]]

JobsFit == Shapes /\ \A w \in Workers : pc[w] # "idle" => JobFits(job[w])

\* What a worker has loaded is still what the tables hold, unless it has missed a change.
SubmissionStands(j, unseen, table) ==
  j.op \in Edits /\ j.row \notin unseen => table[j.row[1]][j.row[2]] = j.seen

TotalStands(j, unseen, table) ==
  j.op = "publish" /\ j.row \notin unseen => table[j.row] # None /\ table[j.row].total = j.total

ResultStands(j, unseen, table) ==
  j.op = "edit_result" /\ unseen = {} => table[j.row[1]][j.row[2]] = j.seen

SubmissionsStand ==
  \A w \in Workers : pc[w] # "idle" => SubmissionStands(job[w], missed[w], submission)
TotalsStand == \A w \in Workers : pc[w] # "idle" => TotalStands(job[w], missed[w], exam)
ResultsStand == \A w \in Workers : pc[w] # "idle" => ResultStands(job[w], missed[w], result)

\* CourseworkIntegrity is not inductive by itself: a save is as good as what was loaded for it.
IInv == CourseworkIntegrity /\ JobsFit /\ SubmissionsStand /\ TotalsStand /\ ResultsStand

-----------------------------------------------------------------------------
(* Steps and what the workers hold.                                         *)

\* After a step that has written these rows, a worker under way is one that was, and has missed
\* what it had read of them.
Written(rows) ==
  \A v \in Workers : pc'[v] # "idle" =>
    pc[v] # "idle" /\ job'[v] = job[v] /\ missed'[v] = missed[v] \cup (rows \cap job[v].read)

LEMMA RequestWrites ==
  ASSUME Shapes, NEW op, NEW rows, Request(op, rows)
  PROVE  Shapes' /\ Written(rows)
<1>1. \A v \in Workers : v # None  BY NoneAssumption
<1>2. QED  BY <1>1 DEF Request, Missed, Shapes, Written

LEMMA EndWrites ==
  ASSUME Shapes, NEW w \in Workers, NEW rows, End(w, rows)
  PROVE  Shapes' /\ Written(rows) /\ pc'[w] = "idle"
BY DEF End, Missed, Shapes, Written, NoJob

LEMMA JobsKept ==
  ASSUME JobsFit, Shapes', NEW rows, Written(rows)
  PROVE  JobsFit'
BY DEF JobsFit, Written, JobFits, SubmissionJob, PublishJob, ResultJob

\* What stands goes on standing when a step reports the rows it writes.
LEMMA SubmissionsKept ==
  ASSUME JobsFit, SubmissionsStand, NEW rows, Written(rows),
         \A a \in Assignments, s \in Students :
           <<a, s>> \notin rows => submission'[a][s] = submission[a][s]
  PROVE  SubmissionsStand'
<1> SUFFICES ASSUME NEW v \in Workers, pc'[v] # "idle", job'[v].op \in Edits,
                    job'[v].row \notin missed'[v]
             PROVE  submission'[job'[v].row[1]][job'[v].row[2]] = job'[v].seen
  BY DEF SubmissionsStand, SubmissionStands
<1>1. pc[v] # "idle" /\ job'[v] = job[v] /\ missed'[v] = missed[v] \cup (rows \cap job[v].read)
  BY DEF Written
<1>2. SubmissionJob(job[v])  BY <1>1 DEF JobsFit, JobFits
<1>3. PICK a \in Assignments, s \in Students : job[v].row = <<a, s>>  BY <1>2 DEF SubmissionJob
<1>4. <<a, s>> \notin rows /\ <<a, s>> \notin missed[v]  BY <1>1, <1>2, <1>3 DEF SubmissionJob
<1>5. submission[a][s] = job[v].seen
  BY <1>1, <1>3, <1>4 DEF SubmissionsStand, SubmissionStands
<1>6. submission'[a][s] = submission[a][s]  BY <1>4
<1>7. QED  BY <1>1, <1>3, <1>5, <1>6

LEMMA TotalsKept ==
  ASSUME JobsFit, TotalsStand, NEW rows, Written(rows),
         \A e \in Exams : e \notin rows => exam'[e] = exam[e]
  PROVE  TotalsStand'
<1> SUFFICES ASSUME NEW v \in Workers, pc'[v] # "idle", job'[v].op = "publish",
                    job'[v].row \notin missed'[v]
             PROVE  exam'[job'[v].row] # None /\ exam'[job'[v].row].total = job'[v].total
  BY DEF TotalsStand, TotalStands
<1>1. pc[v] # "idle" /\ job'[v] = job[v] /\ missed'[v] = missed[v] \cup (rows \cap job[v].read)
  BY DEF Written
<1>2. PublishJob(job[v])  BY <1>1 DEF JobsFit, JobFits
<1>3. job[v].row \notin rows /\ job[v].row \notin missed[v]  BY <1>1, <1>2 DEF PublishJob
<1>4. exam'[job[v].row] = exam[job[v].row]  BY <1>2, <1>3 DEF PublishJob
<1>5. QED  BY <1>1, <1>3, <1>4 DEF TotalsStand, TotalStands

LEMMA ResultsKept ==
  ASSUME JobsFit, ResultsStand, NEW rows, Written(rows),
         \A e \in Exams, s \in Students :
           <<e, s>> \notin rows /\ e \notin rows => result'[e][s] = result[e][s]
  PROVE  ResultsStand'
<1> SUFFICES ASSUME NEW v \in Workers, pc'[v] # "idle", job'[v].op = "edit_result",
                    missed'[v] = {}
             PROVE  result'[job'[v].row[1]][job'[v].row[2]] = job'[v].seen
  BY DEF ResultsStand, ResultStands
<1>1. pc[v] # "idle" /\ job'[v] = job[v] /\ missed'[v] = missed[v] \cup (rows \cap job[v].read)
  BY DEF Written
<1>2. ResultJob(job[v])  BY <1>1 DEF JobsFit, JobFits
<1>3. PICK e \in Exams, s \in Students : job[v].row = <<e, s>>  BY <1>2 DEF ResultJob
<1>4. <<e, s>> \notin rows /\ e \notin rows /\ missed[v] = {}  BY <1>1, <1>2, <1>3 DEF ResultJob
<1>5. result[e][s] = job[v].seen
  BY <1>1, <1>3, <1>4 DEF ResultsStand, ResultStands
<1>6. result'[e][s] = result[e][s]  BY <1>4
<1>7. QED  BY <1>1, <1>3, <1>5, <1>6

\* A step that writes no row of coursework.
LEMMA CourseworkUntouched ==
  ASSUME IInv, Shapes', NEW rows, Written(rows), UNCHANGED <<coursework, history>>, TypeOK'
  PROVE  IInv'
<1>1. TypeOK'  OBVIOUS
<1>2. WorkSurvives' /\ GradeTellsMarks'
  BY DEF IInv, CourseworkIntegrity, WorkSurvives, GradeTellsMarks, coursework, history
<1>3. JobsFit'  BY JobsKept DEF IInv
<1>4. SubmissionsStand'  BY SubmissionsKept DEF IInv, coursework
<1>5. TotalsStand'  BY TotalsKept DEF IInv, coursework
<1>6. ResultsStand'  BY ResultsKept DEF IInv, coursework
<1>7. QED  BY <1>1, <1>2, <1>3, <1>4, <1>5, <1>6 DEF IInv, CourseworkIntegrity

\* A request is loaded from the tables as they are.
LEMMA LoadKeeps ==
  ASSUME IInv, NEW w \in Workers, NEW j, Load(w, j), JobFits(j),
         SubmissionStands(j, missed[w], submission), TotalStands(j, missed[w], exam),
         ResultStands(j, missed[w], result)
  PROVE  IInv'
<1>1. /\ pc' = [pc EXCEPT ![w] = "loaded"] /\ job' = [job EXCEPT ![w] = j]
      /\ UNCHANGED <<enrolled, assignment, exam, submission, result, mark, gone, uncounted>>
      /\ UNCHANGED <<missed, handed, overwritten, regraded>>
  BY DEF Load, coursework, attendance, history
<1>2. Shapes' /\ pc'[w] = "loaded" /\ job'[w] = j  BY <1>1 DEF IInv, JobsFit, Shapes
<1>3. \A v \in Workers : v # w => pc'[v] = pc[v] /\ job'[v] = job[v]
  BY <1>1 DEF IInv, JobsFit, Shapes
<1>4. CourseworkIntegrity'
  BY <1>1 DEF IInv, CourseworkIntegrity, TypeOK, WorkSurvives, GradeTellsMarks
<1>5. JobsFit'
  BY <1>2, <1>3 DEF IInv, JobsFit, JobFits, SubmissionJob, PublishJob, ResultJob
<1>6. SubmissionsStand'  BY <1>1, <1>2, <1>3 DEF IInv, SubmissionsStand, SubmissionStands
<1>7. TotalsStand'  BY <1>1, <1>2, <1>3 DEF IInv, TotalsStand, TotalStands
<1>8. ResultsStand'  BY <1>1, <1>2, <1>3 DEF IInv, ResultsStand, ResultStands
<1>9. QED  BY <1>4, <1>5, <1>6, <1>7, <1>8 DEF IInv

-----------------------------------------------------------------------------
(* The actions.                                                             *)

LEMMA InitFits == Init => IInv
<1> SUFFICES ASSUME Init PROVE IInv  OBVIOUS
<1>1. PICK sc \in Scenarios : enrolled = sc.enrolled /\ assignment = sc.assignment /\ exam = sc.exam
  BY DEF Init
<1>2. TypeOK  BY <1>1, ScenarioAssumption DEF Init, TypeOK
<1>3. WorkSurvives /\ GradeTellsMarks  BY DEF Init, WorkSurvives, GradeTellsMarks
<1>4. JobsFit /\ SubmissionsStand /\ TotalsStand /\ ResultsStand
  BY DEF Init, JobsFit, Shapes, SubmissionsStand, TotalsStand, ResultsStand
<1>5. QED  BY <1>2, <1>3, <1>4 DEF IInv, CourseworkIntegrity

LEMMA AbandonKeeps ==
  ASSUME IInv, NEW w \in Workers, Abandon(w)
  PROVE  IInv'
<1>1. PICK rows : rows = {}  OBVIOUS
<1>2. End(w, rows) /\ UNCHANGED <<enrolled, coursework, attendance, history>>
  BY <1>1 DEF Abandon
<1>3. Shapes' /\ Written(rows)  BY <1>2, EndWrites DEF IInv, JobsFit
<1>4. TypeOK'  BY <1>2 DEF IInv, CourseworkIntegrity, TypeOK, coursework, attendance, history
<1>5. UNCHANGED <<coursework, history>>  BY <1>2
<1>6. QED  BY <1>3, <1>4, <1>5, CourseworkUntouched

LEMMA EditAssignmentKeeps ==
  ASSUME IInv, NEW a \in Assignments, assignment[a] # None, EditAssignment(a)
  PROVE  IInv'
<1>1. PICK t \in Totals :
        /\ Request("edit_assignment", {a})
        /\ assignment' = [assignment EXCEPT ![a] = t]
        /\ UNCHANGED <<enrolled, exam, submission, result, attendance, history>>
  BY DEF EditAssignment
<1>2. PICK rows : rows = {a}  OBVIOUS
<1>3. Shapes' /\ Written(rows)  BY <1>1, <1>2, RequestWrites DEF IInv, JobsFit
<1>4. t # None  BY NoneAssumption
<1>5. TypeOK'  BY <1>1, <1>4 DEF IInv, CourseworkIntegrity, TypeOK, attendance, history
<1>6. WorkSurvives' /\ GradeTellsMarks'
  BY <1>1 DEF IInv, CourseworkIntegrity, WorkSurvives, GradeTellsMarks, history
<1>7. JobsFit'  BY <1>3, JobsKept DEF IInv
<1>8. SubmissionsStand'  BY <1>1, <1>3, SubmissionsKept DEF IInv
<1>9. TotalsStand'  BY <1>1, <1>3, TotalsKept DEF IInv
<1>10. ResultsStand'  BY <1>1, <1>3, ResultsKept DEF IInv
<1>11. QED  BY <1>5, <1>6, <1>7, <1>8, <1>9, <1>10 DEF IInv, CourseworkIntegrity

LEMMA DeleteAssignmentKeeps ==
  ASSUME IInv, NEW a \in Assignments, DeleteAssignment(a)
  PROVE  IInv'
<1>1. PICK rows : rows = {a} \cup {<<a, s>> : s \in Students}  OBVIOUS
<1>2. /\ Request("delete_assignment", rows)
      /\ assignment' = [assignment EXCEPT ![a] = None]
      /\ submission' = [submission EXCEPT ![a] = [s \in Students |-> None]]
      /\ handed' = [handed EXCEPT ![a] = [s \in Students |-> None]]
      /\ UNCHANGED <<enrolled, exam, result, attendance, overwritten, regraded>>
  BY <1>1 DEF DeleteAssignment
<1>3. Shapes' /\ Written(rows)  BY <1>2, RequestWrites DEF IInv, JobsFit
<1>4. submission \in [Assignments -> [Students -> SubmissionRow \cup {None}]]
  BY DEF IInv, CourseworkIntegrity, TypeOK
<1>5. /\ \A s \in Students : submission'[a][s] = None
      /\ \A b \in Assignments : b # a => submission'[b] = submission[b]
  BY <1>2, <1>4
<1>6. TypeOK'  BY <1>2, <1>5 DEF IInv, CourseworkIntegrity, TypeOK, attendance
<1>7. WorkSurvives'
  <2> SUFFICES ASSUME NEW b \in Assignments, NEW s \in Students,
                      submission'[b][s] # None, <<b, s>> \notin overwritten'
               PROVE  submission'[b][s].file = handed'[b][s]
    BY DEF WorkSurvives
  <2>1. b # a  BY <1>5
  <2>2. handed'[b] = handed[b]  BY <1>2, <2>1
  <2>3. QED  BY <1>2, <1>5, <2>1, <2>2 DEF IInv, CourseworkIntegrity, WorkSurvives
<1>8. GradeTellsMarks'  BY <1>2 DEF IInv, CourseworkIntegrity, GradeTellsMarks
<1>9. JobsFit'  BY <1>3, JobsKept DEF IInv
<1>10. \A b \in Assignments, s \in Students :
         <<b, s>> \notin rows => submission'[b][s] = submission[b][s]
  BY <1>1, <1>5
<1>11. SubmissionsStand'  BY <1>3, <1>10, SubmissionsKept DEF IInv
<1>12. TotalsStand'  BY <1>2, <1>3, TotalsKept DEF IInv
<1>13. ResultsStand'  BY <1>2, <1>3, ResultsKept DEF IInv
<1>14. QED  BY <1>6, <1>7, <1>8, <1>9, <1>11, <1>12, <1>13 DEF IInv, CourseworkIntegrity

\* A submission written by a step that reports it.
LEMMA SubmissionWritten ==
  ASSUME IInv, NEW a \in Assignments, NEW s \in Students, assignment[a] # None,
         NEW row \in SubmissionRow, submission' = [submission EXCEPT ![a][s] = row],
         NEW rows, rows = {<<a, s>>}, Shapes', Written(rows),
         UNCHANGED <<enrolled, assignment, exam, result, mark, gone, uncounted, regraded>>,
         handed' \in [Assignments -> [Students -> Files \cup {None}]],
         \A b \in Assignments, x \in Students : <<b, x>> # <<a, s>> =>
           /\ <<b, x>> \in overwritten <=> <<b, x>> \in overwritten'
           /\ handed'[b][x] = handed[b][x],
         <<a, s>> \notin overwritten' => row.file = handed'[a][s]
  PROVE  IInv'
<1>1. submission \in [Assignments -> [Students -> SubmissionRow \cup {None}]]
  BY DEF IInv, CourseworkIntegrity, TypeOK
<1>2. /\ submission'[a][s] = row
      /\ \A b \in Assignments, x \in Students :
           <<b, x>> # <<a, s>> => submission'[b][x] = submission[b][x]
  BY <1>1
<1>3. submission' \in [Assignments -> [Students -> SubmissionRow \cup {None}]]  BY <1>1
<1>4. TypeOK'  BY <1>2, <1>3 DEF IInv, CourseworkIntegrity, TypeOK
<1>5. WorkSurvives'
  <2> SUFFICES ASSUME NEW b \in Assignments, NEW x \in Students,
                      submission'[b][x] # None, <<b, x>> \notin overwritten'
               PROVE  submission'[b][x].file = handed'[b][x]
    BY DEF WorkSurvives
  <2>1. CASE <<b, x>> = <<a, s>>  BY <1>2, <2>1
  <2>2. CASE <<b, x>> # <<a, s>>
    BY <1>2, <2>2 DEF IInv, CourseworkIntegrity, WorkSurvives
  <2>3. QED  BY <2>1, <2>2
<1>6. GradeTellsMarks'  BY DEF IInv, CourseworkIntegrity, GradeTellsMarks
<1>7. JobsFit'  BY JobsKept DEF IInv
<1>8. \A b \in Assignments, x \in Students :
        <<b, x>> \notin rows => submission'[b][x] = submission[b][x]
  BY <1>2
<1>9. SubmissionsStand'  BY <1>8, SubmissionsKept DEF IInv
<1>10. TotalsStand'  BY TotalsKept DEF IInv
<1>11. ResultsStand'  BY ResultsKept DEF IInv
<1>12. QED  BY <1>4, <1>5, <1>6, <1>7, <1>9, <1>10, <1>11 DEF IInv, CourseworkIntegrity

LEMMA SubmitKeeps ==
  ASSUME IInv, NEW a \in Assignments, NEW s \in Students, NEW f \in Files, Submit(a, s, f)
  PROVE  IInv'
<1>1. PICK rows : rows = {<<a, s>>}  OBVIOUS
<1>2. PICK row : row = [file |-> f, marks |-> IF submission[a][s] = None THEN None
                                             ELSE submission[a][s].marks]
  OBVIOUS
<1>3. /\ assignment[a] # None /\ Request("submit", rows)
      /\ submission' = [submission EXCEPT ![a][s] = row]
      /\ handed' = [handed EXCEPT ![a][s] = f]
      /\ overwritten' = overwritten \ rows
      /\ UNCHANGED <<enrolled, assignment, exam, result, attendance, regraded>>
  BY <1>1, <1>2 DEF Submit
<1>4. Shapes' /\ Written(rows)  BY <1>3, RequestWrites DEF IInv, JobsFit
<1>5. row \in SubmissionRow /\ row.file = f
  BY <1>2 DEF IInv, CourseworkIntegrity, TypeOK, SubmissionRow
<1>6. UNCHANGED <<enrolled, assignment, exam, result, mark, gone, uncounted, regraded>>
  BY <1>3 DEF attendance
<1>7. handed \in [Assignments -> [Students -> Files \cup {None}]]
  BY DEF IInv, CourseworkIntegrity, TypeOK
<1>8. \A b \in Assignments, x \in Students : <<b, x>> # <<a, s>> =>
        /\ <<b, x>> \in overwritten <=> <<b, x>> \in overwritten'
        /\ handed'[b][x] = handed[b][x]
  BY <1>1, <1>3, <1>7
<1>9. handed' \in [Assignments -> [Students -> Files \cup {None}]]  BY <1>3, <1>7
<1>10. row.file = handed'[a][s]  BY <1>3, <1>5, <1>7
<1>11. assignment[a] # None /\ submission' = [submission EXCEPT ![a][s] = row]  BY <1>3
<1>12. QED  BY <1>1, <1>4, <1>5, <1>6, <1>8, <1>9, <1>10, <1>11, SubmissionWritten

LEMMA LoadSubmissionKeeps ==
  ASSUME IInv, NEW w \in Workers, LoadSubmission(w)
  PROVE  IInv'
<1>1. PICK a \in Assignments, s \in Students :
        /\ submission[a][s] # None
        /\ \/ \E m \in Marks :
                Load(w, [op |-> "evaluate", row |-> <<a, s>>, read |-> {<<a, s>>},
                         seen |-> submission[a][s],
                         new |-> [submission[a][s] EXCEPT !.marks = m]])
           \/ \E f \in Files :
                Load(w, [op |-> "edit_submission", row |-> <<a, s>>, read |-> {<<a, s>>},
                         seen |-> submission[a][s],
                         new |-> [submission[a][s] EXCEPT !.file = f]])
  BY DEF LoadSubmission
<1>2. submission[a][s] \in SubmissionRow  BY <1>1 DEF IInv, CourseworkIntegrity, TypeOK
<1>3. PICK op \in Edits, new \in SubmissionRow :
        Load(w, [op |-> op, row |-> <<a, s>>, read |-> {<<a, s>>},
                 seen |-> submission[a][s], new |-> new])
  BY <1>1, <1>2 DEF Edits, SubmissionRow
<1> DEFINE j == [op |-> op, row |-> <<a, s>>, read |-> {<<a, s>>},
                 seen |-> submission[a][s], new |-> new]
<1>4. JobFits(j)  BY <1>2 DEF JobFits, SubmissionJob, Edits
<1>5. /\ SubmissionStands(j, missed[w], submission) /\ TotalStands(j, missed[w], exam)
      /\ ResultStands(j, missed[w], result)
  BY DEF SubmissionStands, TotalStands, ResultStands, Edits
<1>6. Load(w, j)  BY <1>3
<1> HIDE DEF j
<1>7. QED  BY <1>4, <1>5, <1>6, LoadKeeps

LEMMA SaveSubmissionKeeps ==
  ASSUME IInv, NEW w \in Workers, SaveSubmission(w)
  PROVE  IInv'
<1> DEFINE j == job[w]
<1>1. pc[w] = "loaded" /\ j.op \in Edits  BY DEF SaveSubmission, Edits
<1>2. SubmissionJob(j)  BY <1>1 DEF IInv, JobsFit, JobFits
<1>3. PICK a \in Assignments, s \in Students : j.row = <<a, s>>  BY <1>2 DEF SubmissionJob
<1>4. PICK rows : rows = {<<a, s>>}  OBVIOUS
<1>5. /\ assignment[a] # None
      /\ submission' = [submission EXCEPT ![a][s] = j.new]
      /\ overwritten' = IF j.new.file # j.seen.file \/ <<a, s>> \in missed[w]
                        THEN overwritten \cup rows ELSE overwritten
      /\ End(w, rows)
      /\ UNCHANGED <<enrolled, assignment, exam, result, attendance, handed, regraded>>
  BY <1>3, <1>4 DEF SaveSubmission
<1>6. Shapes' /\ Written(rows)  BY <1>5, EndWrites DEF IInv, JobsFit
<1>7. UNCHANGED <<enrolled, assignment, exam, result, mark, gone, uncounted, regraded>>
  BY <1>5 DEF attendance
<1>8. PICK row \in SubmissionRow : row = j.new  BY <1>2 DEF SubmissionJob
<1>9. <<a, s>> \notin overwritten' => row.file = handed'[a][s]
  <2> SUFFICES ASSUME <<a, s>> \notin overwritten'
               PROVE  row.file = handed[a][s]
    BY <1>5
  <2>1. /\ <<a, s>> \notin overwritten /\ <<a, s>> \notin missed[w]
        /\ j.new.file = j.seen.file
    BY <1>4, <1>5
  <2>2. submission[a][s] = j.seen
    BY <1>1, <1>3, <2>1 DEF IInv, SubmissionsStand, SubmissionStands
  <2>3. j.seen # None  BY <1>2, NoneAssumption DEF SubmissionJob
  <2>4. submission[a][s].file = handed[a][s]
    BY <2>1, <2>2, <2>3 DEF IInv, CourseworkIntegrity, WorkSurvives
  <2>5. QED  BY <1>8, <2>1, <2>2, <2>4
<1>10. \A b \in Assignments, x \in Students : <<b, x>> # <<a, s>> =>
         /\ <<b, x>> \in overwritten <=> <<b, x>> \in overwritten'
         /\ handed'[b][x] = handed[b][x]
  BY <1>4, <1>5
<1>11. handed' \in [Assignments -> [Students -> Files \cup {None}]]
  BY <1>5 DEF IInv, CourseworkIntegrity, TypeOK
<1>12. assignment[a] # None /\ submission' = [submission EXCEPT ![a][s] = row]  BY <1>5, <1>8
<1>13. QED  BY <1>4, <1>6, <1>7, <1>9, <1>10, <1>11, <1>12, SubmissionWritten

LEMMA GradeIsLetter ==
  ASSUME NEW m, NEW total
  PROVE  Grade(m, total) \in Letters
BY DEF Grade, Letters

LEMMA EditExamKeeps ==
  ASSUME IInv, NEW e \in Exams, EditExam(e)
  PROVE  IInv'
<1>1. PICK new \in ExamRow :
        /\ exam[e] # None
        /\ Request("edit_exam", {e})
        /\ exam' = [exam EXCEPT ![e] = new]
        /\ regraded' = IF new.total = exam[e].total THEN regraded
                       ELSE regraded \cup {<<e, s>> : s \in {x \in Students : result[e][x] # None}}
        /\ UNCHANGED <<enrolled, assignment, submission, result, attendance, handed, overwritten>>
  BY DEF EditExam
<1>2. PICK rows : rows = {e}  OBVIOUS
<1>3. Shapes' /\ Written(rows)  BY <1>1, <1>2, RequestWrites DEF IInv, JobsFit
<1>4. new # None  BY NoneAssumption
<1>5. exam'[e] = new /\ \A x \in Exams : x # e => exam'[x] = exam[x]
  BY <1>1 DEF IInv, CourseworkIntegrity, TypeOK
<1>6. TypeOK'  BY <1>1, <1>4, <1>5 DEF IInv, CourseworkIntegrity, TypeOK, attendance
<1>7. WorkSurvives'  BY <1>1 DEF IInv, CourseworkIntegrity, WorkSurvives
<1>8. GradeTellsMarks'
  <2> SUFFICES ASSUME NEW x \in Exams, NEW s \in Students,
                      result[x][s] # None, <<x, s>> \notin regraded'
               PROVE  result[x][s].grade = Grade(result[x][s].marks, exam'[x].total)
    BY <1>1 DEF GradeTellsMarks
  <2>1. <<x, s>> \notin regraded  BY <1>1
  <2>2. result[x][s].grade = Grade(result[x][s].marks, exam[x].total)
    BY <2>1 DEF IInv, CourseworkIntegrity, GradeTellsMarks
  <2>3. exam'[x].total = exam[x].total  BY <1>1, <1>5
  <2>4. QED  BY <2>2, <2>3
<1>9. JobsFit'  BY <1>3, JobsKept DEF IInv
<1>10. SubmissionsStand'  BY <1>1, <1>3, SubmissionsKept DEF IInv
<1>11. \A x \in Exams : x \notin rows => exam'[x] = exam[x]  BY <1>2, <1>5
<1>12. TotalsStand'  BY <1>3, <1>11, TotalsKept DEF IInv
<1>13. ResultsStand'  BY <1>1, <1>3, ResultsKept DEF IInv
<1>14. QED  BY <1>6, <1>7, <1>8, <1>9, <1>10, <1>12, <1>13 DEF IInv, CourseworkIntegrity

LEMMA DeleteExamKeeps ==
  ASSUME IInv, NEW e \in Exams, DeleteExam(e)
  PROVE  IInv'
<1>1. PICK rows : rows = {e}  OBVIOUS
<1>2. /\ Request("delete_exam", rows)
      /\ exam' = [exam EXCEPT ![e] = None]
      /\ result' = [result EXCEPT ![e] = [s \in Students |-> None]]
      /\ regraded' = regraded \ {<<e, s>> : s \in Students}
      /\ UNCHANGED <<enrolled, assignment, submission, attendance, handed, overwritten>>
  BY <1>1 DEF DeleteExam
<1>3. Shapes' /\ Written(rows)  BY <1>2, RequestWrites DEF IInv, JobsFit
<1>4. /\ result \in [Exams -> [Students -> ResultRow \cup {None}]]
      /\ exam \in [Exams -> ExamRow \cup {None}]
  BY DEF IInv, CourseworkIntegrity, TypeOK
<1>5. /\ \A s \in Students : result'[e][s] = None
      /\ \A x \in Exams : x # e => result'[x] = result[x] /\ exam'[x] = exam[x]
  BY <1>2, <1>4
<1>6. TypeOK'  BY <1>2, <1>5 DEF IInv, CourseworkIntegrity, TypeOK, attendance
<1>7. WorkSurvives'  BY <1>2 DEF IInv, CourseworkIntegrity, WorkSurvives
<1>8. GradeTellsMarks'
  <2> SUFFICES ASSUME NEW x \in Exams, NEW s \in Students,
                      result'[x][s] # None, <<x, s>> \notin regraded'
               PROVE  result'[x][s].grade = Grade(result'[x][s].marks, exam'[x].total)
    BY DEF GradeTellsMarks
  <2>1. x # e  BY <1>5
  <2>2. <<x, s>> \notin regraded  BY <1>2, <2>1
  <2>3. QED  BY <1>5, <2>1, <2>2 DEF IInv, CourseworkIntegrity, GradeTellsMarks
<1>9. JobsFit'  BY <1>3, JobsKept DEF IInv
<1>10. SubmissionsStand'  BY <1>2, <1>3, SubmissionsKept DEF IInv
<1>11. \A x \in Exams : x \notin rows => exam'[x] = exam[x]  BY <1>1, <1>5
<1>12. TotalsStand'  BY <1>3, <1>11, TotalsKept DEF IInv
<1>13. \A x \in Exams, s \in Students :
         <<x, s>> \notin rows /\ x \notin rows => result'[x][s] = result[x][s]
  BY <1>1, <1>5
<1>14. ResultsStand'  BY <1>3, <1>13, ResultsKept DEF IInv
<1>15. QED  BY <1>6, <1>7, <1>8, <1>9, <1>10, <1>12, <1>14 DEF IInv, CourseworkIntegrity

LEMMA LoadPublishKeeps ==
  ASSUME IInv, NEW w \in Workers, LoadPublish(w)
  PROVE  IInv'
<1>1. PICK e \in Exams, some \in SUBSET Students \ {{}} :
        \E marks \in [some -> Marks], given \in GivenGrades :
          /\ exam[e] # None
          /\ Load(w, [op |-> "publish", row |-> e, read |-> {e}, marks |-> marks,
                      given |-> given, total |-> exam[e].total])
  BY DEF LoadPublish
<1>2. PICK marks \in [some -> Marks], given \in GivenGrades :
        /\ exam[e] # None
        /\ Load(w, [op |-> "publish", row |-> e, read |-> {e}, marks |-> marks,
                    given |-> given, total |-> exam[e].total])
  BY <1>1
<1> DEFINE j == [op |-> "publish", row |-> e, read |-> {e}, marks |-> marks, given |-> given,
                 total |-> exam[e].total]
<1>3. exam[e].total \in Totals  BY <1>2 DEF IInv, CourseworkIntegrity, TypeOK, ExamRow
<1>4. given \in {None, "other"}  BY DEF GivenGrades
<1>5. PublishJob(j)  BY <1>3, <1>4 DEF PublishJob
<1>6. JobFits(j)  BY <1>5 DEF JobFits, Edits
<1>7. /\ SubmissionStands(j, missed[w], submission) /\ TotalStands(j, missed[w], exam)
      /\ ResultStands(j, missed[w], result)
  BY <1>2 DEF SubmissionStands, TotalStands, ResultStands, Edits
<1>8. Load(w, j)  BY <1>2
<1> HIDE DEF j
<1>9. QED  BY <1>6, <1>7, <1>8, LoadKeeps

LEMMA PublishKeeps ==
  ASSUME IInv, NEW w \in Workers, Publish(w)
  PROVE  IInv'
<1> DEFINE j == job[w]
<1>1. pc[w] = "loaded" /\ j.op = "publish"  BY DEF Publish
<1>2. PublishJob(j)  BY <1>1 DEF IInv, JobsFit, JobFits
<1>3. PICK e \in Exams : e = j.row  BY <1>2 DEF PublishJob
<1>4. PICK some \in SUBSET Students : j.marks \in [some -> Marks]  BY <1>2 DEF PublishJob
<1>5. PICK rows : rows = {<<e, s>> : s \in some}  OBVIOUS
<1>6. PICK entry : entry = [s \in some |-> [marks |-> j.marks[s],
                              grade |-> IF j.given # None THEN j.given
                                        ELSE Grade(j.marks[s], j.total)]]
  OBVIOUS
<1>7. /\ exam[e] # None
      /\ result' = [result EXCEPT ![e] = [s \in Students |->
                      IF s \notin some THEN @[s] ELSE entry[s]]]
      /\ regraded' = IF e \in missed[w] \/ j.given # None
                     THEN regraded \cup rows ELSE regraded \ rows
      /\ End(w, rows)
      /\ UNCHANGED <<enrolled, assignment, exam, submission, attendance, handed, overwritten>>
  BY <1>3, <1>4, <1>5, <1>6 DEF Publish
<1>8. Shapes' /\ Written(rows)  BY <1>7, EndWrites DEF IInv, JobsFit
<1>9. /\ result \in [Exams -> [Students -> ResultRow \cup {None}]]
      /\ exam \in [Exams -> ExamRow \cup {None}]
  BY DEF IInv, CourseworkIntegrity, TypeOK
<1>10. \A s \in some : entry[s] \in ResultRow
  BY <1>2, <1>4, <1>6, GradeIsLetter DEF ResultRow, PublishJob
<1>11. /\ \A s \in some : result'[e][s] = entry[s]
       /\ \A s \in Students \ some : result'[e][s] = result[e][s]
       /\ \A x \in Exams : x # e => result'[x] = result[x]
       /\ result' \in [Exams -> [Students -> ResultRow \cup {None}]]
  BY <1>7, <1>9, <1>10
<1>12. TypeOK'  BY <1>7, <1>11 DEF IInv, CourseworkIntegrity, TypeOK, attendance
<1>13. WorkSurvives'  BY <1>7 DEF IInv, CourseworkIntegrity, WorkSurvives
<1>14. GradeTellsMarks'
  <2> SUFFICES ASSUME NEW x \in Exams, NEW s \in Students,
                      result'[x][s] # None, <<x, s>> \notin regraded'
               PROVE  result'[x][s].grade = Grade(result'[x][s].marks, exam[x].total)
    BY <1>7 DEF GradeTellsMarks
  <2>1. CASE x = e /\ s \in some
    <3>1. e \notin missed[w] /\ j.given = None  BY <1>5, <1>7, <2>1
    <3>2. exam[e].total = j.total  BY <1>1, <1>3, <3>1 DEF IInv, TotalsStand, TotalStands
    <3>3. entry[s].marks = j.marks[s] /\ entry[s].grade = Grade(j.marks[s], j.total)
      BY <1>6, <2>1, <3>1
    <3>4. QED  BY <1>11, <2>1, <3>2, <3>3
  <2>2. CASE ~(x = e /\ s \in some)
    <3>1. result'[x][s] = result[x][s]  BY <1>11, <2>2
    <3>2. <<x, s>> \notin regraded  BY <1>5, <1>7, <2>2
    <3>3. QED  BY <3>1, <3>2 DEF IInv, CourseworkIntegrity, GradeTellsMarks
  <2>3. QED  BY <2>1, <2>2
<1>15. JobsFit'  BY <1>8, JobsKept DEF IInv
<1>16. SubmissionsStand'  BY <1>7, <1>8, SubmissionsKept DEF IInv
<1>17. TotalsStand'  BY <1>7, <1>8, TotalsKept DEF IInv
<1>18. \A x \in Exams, s \in Students :
         <<x, s>> \notin rows /\ x \notin rows => result'[x][s] = result[x][s]
  BY <1>5, <1>11
<1>19. ResultsStand'  BY <1>8, <1>18, ResultsKept DEF IInv
<1>20. QED  BY <1>12, <1>13, <1>14, <1>15, <1>16, <1>17, <1>19 DEF IInv, CourseworkIntegrity

LEMMA LoadResultKeeps ==
  ASSUME IInv, NEW w \in Workers, LoadResult(w)
  PROVE  IInv'
<1>1. PICK e \in Exams, s \in Students :
        /\ result[e][s] # None
        /\ \E m \in Marks, g \in {result[e][s].grade, None} :
             Load(w, [op |-> "edit_result", row |-> <<e, s>>, read |-> {<<e, s>>, e},
                      seen |-> result[e][s], new |-> [marks |-> m, grade |-> g]])
  BY DEF LoadResult
<1>2. result[e][s] \in ResultRow  BY <1>1 DEF IInv, CourseworkIntegrity, TypeOK
<1>3. PICK new \in ResultRow :
        Load(w, [op |-> "edit_result", row |-> <<e, s>>, read |-> {<<e, s>>, e},
                 seen |-> result[e][s], new |-> new])
  BY <1>1, <1>2 DEF ResultRow
<1> DEFINE j == [op |-> "edit_result", row |-> <<e, s>>, read |-> {<<e, s>>, e},
                 seen |-> result[e][s], new |-> new]
<1>4. JobFits(j)  BY <1>2 DEF JobFits, ResultJob, Edits
<1>5. /\ SubmissionStands(j, missed[w], submission) /\ TotalStands(j, missed[w], exam)
      /\ ResultStands(j, missed[w], result)
  BY DEF SubmissionStands, TotalStands, ResultStands, Edits
<1>6. Load(w, j)  BY <1>3
<1> HIDE DEF j
<1>7. QED  BY <1>4, <1>5, <1>6, LoadKeeps

LEMMA SaveResultKeeps ==
  ASSUME IInv, NEW w \in Workers, SaveResult(w)
  PROVE  IInv'
<1> DEFINE j == job[w]
<1>1. pc[w] = "loaded" /\ j.op = "edit_result"  BY DEF SaveResult
<1>2. ResultJob(j)  BY <1>1 DEF IInv, JobsFit, JobFits
<1>3. PICK e \in Exams, s \in Students : j.row = <<e, s>>  BY <1>2 DEF ResultJob
<1>4. PICK rows : rows = {<<e, s>>}  OBVIOUS
<1>5. PICK row \in ResultRow : row = j.new  BY <1>2 DEF ResultJob
<1>6. /\ exam[e] # None
      /\ result' = [result EXCEPT ![e][s] = row]
      /\ regraded' = IF j.new # j.seen \/ missed[w] # {} THEN regraded \cup rows ELSE regraded
      /\ End(w, rows)
      /\ UNCHANGED <<enrolled, assignment, exam, submission, attendance, handed, overwritten>>
  BY <1>3, <1>4, <1>5 DEF SaveResult
<1>7. Shapes' /\ Written(rows)  BY <1>6, EndWrites DEF IInv, JobsFit
<1>8. result \in [Exams -> [Students -> ResultRow \cup {None}]]
  BY DEF IInv, CourseworkIntegrity, TypeOK
<1>9. /\ result'[e][s] = row
      /\ \A x \in Exams, y \in Students : <<x, y>> # <<e, s>> => result'[x][y] = result[x][y]
      /\ result' \in [Exams -> [Students -> ResultRow \cup {None}]]
  BY <1>6, <1>8
<1>10. TypeOK'  BY <1>6, <1>9 DEF IInv, CourseworkIntegrity, TypeOK, attendance
<1>11. WorkSurvives'  BY <1>6 DEF IInv, CourseworkIntegrity, WorkSurvives
<1>12. GradeTellsMarks'
  <2> SUFFICES ASSUME NEW x \in Exams, NEW y \in Students,
                      result'[x][y] # None, <<x, y>> \notin regraded'
               PROVE  result'[x][y].grade = Grade(result'[x][y].marks, exam[x].total)
    BY <1>6 DEF GradeTellsMarks
  <2>1. result'[x][y] = result[x][y]
    <3>1. CASE <<x, y>> # <<e, s>>  BY <1>9, <3>1
    <3>2. CASE <<x, y>> = <<e, s>>
      <4>1. j.new = j.seen /\ missed[w] = {}  BY <1>4, <1>6, <3>2
      <4>2. result[e][s] = j.seen  BY <1>1, <1>3, <4>1 DEF IInv, ResultsStand, ResultStands
      <4>3. QED  BY <1>5, <1>9, <3>2, <4>1, <4>2
    <3>3. QED  BY <3>1, <3>2
  <2>2. <<x, y>> \notin regraded  BY <1>6
  <2>3. QED  BY <2>1, <2>2 DEF IInv, CourseworkIntegrity, GradeTellsMarks
<1>13. JobsFit'  BY <1>7, JobsKept DEF IInv
<1>14. SubmissionsStand'  BY <1>6, <1>7, SubmissionsKept DEF IInv
<1>15. TotalsStand'  BY <1>6, <1>7, TotalsKept DEF IInv
<1>16. \A x \in Exams, y \in Students :
         <<x, y>> \notin rows /\ x \notin rows => result'[x][y] = result[x][y]
  BY <1>4, <1>9
<1>17. ResultsStand'  BY <1>7, <1>16, ResultsKept DEF IInv
<1>18. QED  BY <1>10, <1>11, <1>12, <1>13, <1>14, <1>15, <1>17 DEF IInv, CourseworkIntegrity

LEMMA LeaveKeeps ==
  ASSUME IInv, NEW s \in Students, Leave(s)
  PROVE  IInv'
<1>1. PICK rows : rows = {}  OBVIOUS
<1>2. Request("leave", rows) /\ enrolled' = enrolled \ {s} /\ UNCHANGED <<coursework, attendance, history>>
  BY <1>1 DEF Leave
<1>3. Shapes' /\ Written(rows)  BY <1>2, RequestWrites DEF IInv, JobsFit
<1>4. TypeOK'  BY <1>2 DEF IInv, CourseworkIntegrity, TypeOK, coursework, attendance, history
<1>5. UNCHANGED <<coursework, history>>  BY <1>2
<1>6. QED  BY <1>3, <1>4, <1>5, CourseworkUntouched

LEMMA MarkAttendanceKeeps ==
  ASSUME IInv, NEW l \in Lectures, NEW s \in Students, NEW status \in Statuses,
         MarkAttendance(l, s, status)
  PROVE  IInv'
<1>1. PICK rows : rows = {l}  OBVIOUS
<1>2. /\ Request("mark", rows) /\ mark' = [mark EXCEPT ![l][s] = status]
      /\ UNCHANGED <<enrolled, coursework, gone, uncounted, history>>
  BY <1>1 DEF MarkAttendance
<1>3. Shapes' /\ Written(rows)  BY <1>2, RequestWrites DEF IInv, JobsFit
<1>4. TypeOK'  BY <1>2 DEF IInv, CourseworkIntegrity, TypeOK, coursework, history
<1>5. UNCHANGED <<coursework, history>>  BY <1>2
<1>6. QED  BY <1>3, <1>4, <1>5, CourseworkUntouched

LEMMA LoadDeleteLectureKeeps ==
  ASSUME IInv, NEW w \in Workers, LoadDeleteLecture(w)
  PROVE  IInv'
<1>1. PICK l \in Lectures : Load(w, [op |-> "delete_lecture", row |-> l, read |-> {l}])
  BY DEF LoadDeleteLecture
<1> DEFINE j == [op |-> "delete_lecture", row |-> l, read |-> {l}]
<1>2. JobFits(j)  BY DEF JobFits, Edits
<1>3. /\ SubmissionStands(j, missed[w], submission) /\ TotalStands(j, missed[w], exam)
      /\ ResultStands(j, missed[w], result)
  BY DEF SubmissionStands, TotalStands, ResultStands, Edits
<1>4. Load(w, j)  BY <1>1
<1> HIDE DEF j
<1>5. QED  BY <1>2, <1>3, <1>4, LoadKeeps

LEMMA DeleteLectureKeeps ==
  ASSUME IInv, NEW w \in Workers, DeleteLecture(w)
  PROVE  IInv'
<1>1. job[w].row \in Lectures  BY DEF DeleteLecture, IInv, JobsFit, JobFits
<1>2. PICK rows : rows = {}  OBVIOUS
<1>3. End(w, rows) /\ UNCHANGED <<enrolled, coursework, mark, history>>
  BY <1>2 DEF DeleteLecture
<1>4. Shapes' /\ Written(rows)  BY <1>3, EndWrites DEF IInv, JobsFit
<1>5. gone' \cup uncounted' \subseteq Lectures
  BY <1>1 DEF DeleteLecture, IInv, CourseworkIntegrity, TypeOK
<1>6. TypeOK'  BY <1>3, <1>5 DEF IInv, CourseworkIntegrity, TypeOK, coursework, history
<1>7. UNCHANGED <<coursework, history>>  BY <1>3
<1>8. QED  BY <1>4, <1>6, <1>7, CourseworkUntouched

-----------------------------------------------------------------------------
LEMMA StutterKeeps == IInv /\ UNCHANGED vars => IInv'
BY DEF IInv, CourseworkIntegrity, TypeOK, WorkSurvives, GradeTellsMarks, JobsFit, Shapes,
       SubmissionsStand, TotalsStand, ResultsStand, vars

LEMMA StepKeeps == IInv /\ [Next]_vars => IInv'
<1> SUFFICES ASSUME IInv, [Next]_vars PROVE IInv'  OBVIOUS
<1>1. ASSUME NEW a \in Assignments, DeleteAssignment(a) PROVE IInv'
  BY <1>1, DeleteAssignmentKeeps
<1>2. ASSUME NEW a \in Assignments, assignment[a] # None, EditAssignment(a) PROVE IInv'
  BY <1>2, EditAssignmentKeeps
<1>3. ASSUME NEW a \in Assignments, NEW s \in Students, NEW f \in Files, Submit(a, s, f) PROVE IInv'
  BY <1>3, SubmitKeeps
<1>4. ASSUME NEW e \in Exams, EditExam(e) \/ DeleteExam(e) PROVE IInv'
  BY <1>4, EditExamKeeps, DeleteExamKeeps
<1>5. ASSUME NEW s \in Students, Leave(s) PROVE IInv'  BY <1>5, LeaveKeeps
<1>6. ASSUME NEW l \in Lectures, NEW s \in Students, NEW status \in Statuses,
             MarkAttendance(l, s, status)
      PROVE  IInv'
  BY <1>6, MarkAttendanceKeeps
<1>7. ASSUME NEW w \in Workers, LoadSubmission(w) \/ SaveSubmission(w) PROVE IInv'
  BY <1>7, LoadSubmissionKeeps, SaveSubmissionKeeps
<1>8. ASSUME NEW w \in Workers, LoadPublish(w) \/ Publish(w) PROVE IInv'
  BY <1>8, LoadPublishKeeps, PublishKeeps
<1>9. ASSUME NEW w \in Workers, LoadResult(w) \/ SaveResult(w) PROVE IInv'
  BY <1>9, LoadResultKeeps, SaveResultKeeps
<1>10. ASSUME NEW w \in Workers, LoadDeleteLecture(w) \/ DeleteLecture(w) PROVE IInv'
  BY <1>10, LoadDeleteLectureKeeps, DeleteLectureKeeps
<1>11. ASSUME NEW w \in Workers, Abandon(w) PROVE IInv'  BY <1>11, AbandonKeeps
<1>12. CASE UNCHANGED vars  BY <1>12, StutterKeeps
<1>13. QED
  BY <1>1, <1>2, <1>3, <1>4, <1>5, <1>6, <1>7, <1>8, <1>9, <1>10, <1>11, <1>12 DEF Next

\* What was loaded for a save or a publication stands in the tables until a change is missed,
\* and CourseworkIntegrity with it.
THEOREM Invariance == Spec => []IInv
<1>1. Init => IInv  BY InitFits
<1>2. IInv /\ [Next]_vars => IInv'  BY StepKeeps
<1>3. QED  BY <1>1, <1>2, PTL DEF Spec

\* Submissions and results belong to assignments and exams that are there; the file on record is
\* the one last handed in unless an unlocked edit or evaluation wrote another, and a published
\* grade tells its marks unless they, the exam or the grade were edited (assignment_service.py,
\* exam_service.py).
THEOREM CourseworkIsSound == Spec => []CourseworkIntegrity
<1>1. IInv => CourseworkIntegrity  BY DEF IInv
<1>2. QED  BY <1>1, Invariance, PTL

-----------------------------------------------------------------------------
(* The lectures that are deleted.                                           *)

\* A lecture that was deleted has no marks, unless it was being marked.
GoneAreEmpty == \A l \in gone \ uncounted, s \in Students : mark[l][s] = None

\* Whoever is about to delete a lecture has found it without marks.
LectureStands(j, unseen, table) ==
  j.op = "delete_lecture" =>
    j.read = {j.row} /\ (j.row \notin unseen => \A s \in Students : table[j.row][s] = None)

LecturesStand == \A w \in Workers : pc[w] # "idle" => LectureStands(job[w], missed[w], mark)

MarksStand == GoneAreEmpty /\ LecturesStand

\* A mark is given to a lecture that is there, by a step that reports the lecture.
LEMMA MarksKept ==
  ASSUME IInv, MarksStand, NEW rows, Written(rows), UNCHANGED <<gone, uncounted>>,
         \A l \in Lectures : mark'[l] = mark[l] \/ (l \in rows /\ l \notin gone)
  PROVE  MarksStand'
<1>1. GoneAreEmpty'
  BY DEF MarksStand, GoneAreEmpty, IInv, CourseworkIntegrity, TypeOK
<1>2. LecturesStand'
  <2> SUFFICES ASSUME NEW v \in Workers, pc'[v] # "idle", job'[v].op = "delete_lecture"
               PROVE  /\ job'[v].read = {job'[v].row}
                      /\ job'[v].row \notin missed'[v] =>
                           \A s \in Students : mark'[job'[v].row][s] = None
    BY DEF LecturesStand, LectureStands
  <2>1. pc[v] # "idle" /\ job'[v] = job[v] /\ missed'[v] = missed[v] \cup (rows \cap job[v].read)
    BY DEF Written
  <2>2. PICK l \in Lectures : l = job[v].row
    BY <2>1 DEF IInv, JobsFit, JobFits
  <2>3. /\ job[v].read = {l}
        /\ l \notin missed[v] => \A s \in Students : mark[l][s] = None
    BY <2>1, <2>2 DEF MarksStand, LecturesStand, LectureStands
  <2>4. l \notin missed'[v] => l \notin missed[v] /\ mark'[l] = mark[l]
    BY <2>1, <2>3
  <2>5. QED
    BY <2>1, <2>2, <2>3, <2>4
<1>3. QED
  BY <1>1, <1>2 DEF MarksStand

LEMMA RequestKeepsMarks ==
  ASSUME IInv, MarksStand, NEW op, NEW rows, Request(op, rows), UNCHANGED attendance
  PROVE  MarksStand'
<1>1. Written(rows)
  BY RequestWrites DEF IInv, JobsFit
<1>2. UNCHANGED <<mark, gone, uncounted>>
  BY DEF attendance
<1>3. QED
  BY <1>1, <1>2, MarksKept

LEMMA EndKeepsMarks ==
  ASSUME IInv, MarksStand, NEW w \in Workers, NEW rows, End(w, rows), UNCHANGED attendance
  PROVE  MarksStand'
<1>1. Written(rows)
  BY EndWrites DEF IInv, JobsFit
<1>2. UNCHANGED <<mark, gone, uncounted>>
  BY DEF attendance
<1>3. QED
  BY <1>1, <1>2, MarksKept

LEMMA LoadKeepsMarks ==
  ASSUME IInv, MarksStand, NEW w \in Workers, NEW j, Load(w, j), LectureStands(j, missed[w], mark)
  PROVE  MarksStand'
<1>1. /\ pc' = [pc EXCEPT ![w] = "loaded"] /\ job' = [job EXCEPT ![w] = j]
      /\ UNCHANGED <<missed, mark, gone, uncounted>>
  BY DEF Load, attendance
<1>2. job'[w] = j /\ \A v \in Workers : v # w => pc'[v] = pc[v] /\ job'[v] = job[v]
  BY <1>1 DEF IInv, JobsFit, Shapes
<1>3. LecturesStand'
  BY <1>1, <1>2 DEF MarksStand, LecturesStand, LectureStands
<1>4. QED
  BY <1>1, <1>3 DEF MarksStand, GoneAreEmpty

LEMMA DeleteKeepsMarks ==
  ASSUME IInv, MarksStand, NEW w \in Workers, DeleteLecture(w)
  PROVE  MarksStand'
<1>1. PICK l \in Lectures : l = job[w].row
  BY DEF DeleteLecture, IInv, JobsFit, JobFits
<1>2. PICK rows : rows = {}
  OBVIOUS
<1>3. /\ pc[w] = "loaded" /\ job[w].op = "delete_lecture"
      /\ gone' = gone \cup {l}
      /\ uncounted' = IF l \in missed[w] THEN uncounted \cup {l} ELSE uncounted
      /\ End(w, rows) /\ mark' = mark
  BY <1>1, <1>2 DEF DeleteLecture
<1>4. Written(rows)
  BY <1>3, EndWrites DEF IInv, JobsFit
<1>5. l \notin missed[w] => \A s \in Students : mark[l][s] = None
  BY <1>1, <1>3 DEF MarksStand, LecturesStand, LectureStands
<1>6. GoneAreEmpty'
  BY <1>3, <1>5 DEF MarksStand, GoneAreEmpty
<1>7. LecturesStand'
  <2>1. \A v \in Workers : pc'[v] # "idle" =>
          pc[v] # "idle" /\ job'[v] = job[v] /\ missed[v] \subseteq missed'[v]
    BY <1>4 DEF Written
  <2>2. QED
    BY <1>3, <2>1 DEF MarksStand, LecturesStand, LectureStands
<1>8. QED
  BY <1>6, <1>7 DEF MarksStand

LEMMA StepKeepsMarks == IInv /\ MarksStand /\ [Next]_vars => MarksStand'
<1> SUFFICES ASSUME IInv, MarksStand, [Next]_vars PROVE MarksStand'
  OBVIOUS
<1>1. ASSUME NEW a \in Assignments, DeleteAssignment(a) PROVE MarksStand'
  BY <1>1, RequestKeepsMarks DEF DeleteAssignment
<1>2. ASSUME NEW a \in Assignments, EditAssignment(a) PROVE MarksStand'
  BY <1>2, RequestKeepsMarks DEF EditAssignment
<1>3. ASSUME NEW a \in Assignments, NEW s \in Students, NEW f \in Files, Submit(a, s, f)
      PROVE  MarksStand'
  BY <1>3, RequestKeepsMarks DEF Submit
<1>4. ASSUME NEW e \in Exams, EditExam(e) \/ DeleteExam(e) PROVE MarksStand'
  <2>1. CASE EditExam(e)
    BY <2>1, RequestKeepsMarks DEF EditExam
  <2>2. CASE DeleteExam(e)
    BY <2>2, RequestKeepsMarks DEF DeleteExam
  <2>3. QED
    BY <1>4, <2>1, <2>2
<1>5. ASSUME NEW s \in Students, Leave(s) PROVE MarksStand'
  BY <1>5, RequestKeepsMarks DEF Leave
<1>6. ASSUME NEW l \in Lectures, NEW s \in Students, NEW status \in Statuses,
             MarkAttendance(l, s, status)
      PROVE  MarksStand'
  <2>1. PICK rows : rows = {l}
    OBVIOUS
  <2>2. /\ Request("mark", rows) /\ l \notin gone
        /\ mark' = [mark EXCEPT ![l][s] = status] /\ UNCHANGED <<gone, uncounted>>
    BY <1>6, <2>1 DEF MarkAttendance
  <2>3. Written(rows)
    BY <2>2, RequestWrites DEF IInv, JobsFit
  <2>4. \A x \in Lectures : mark'[x] = mark[x] \/ (x \in rows /\ x \notin gone)
    BY <2>1, <2>2 DEF IInv, CourseworkIntegrity, TypeOK
  <2>5. QED
    BY <2>2, <2>3, <2>4, MarksKept
<1>7. ASSUME NEW w \in Workers, LoadSubmission(w) PROVE MarksStand'
  <2>1. PICK a \in Assignments, s \in Students :
          \/ \E m \in Marks :
               Load(w, [op |-> "evaluate", row |-> <<a, s>>, read |-> {<<a, s>>},
                        seen |-> submission[a][s], new |-> [submission[a][s] EXCEPT !.marks = m]])
          \/ \E f \in Files :
               Load(w, [op |-> "edit_submission", row |-> <<a, s>>, read |-> {<<a, s>>},
                        seen |-> submission[a][s], new |-> [submission[a][s] EXCEPT !.file = f]])
    BY <1>7 DEF LoadSubmission
  <2>2. ASSUME NEW new, Load(w, [op |-> "evaluate", row |-> <<a, s>>, read |-> {<<a, s>>},
                                 seen |-> submission[a][s], new |-> new])
        PROVE  MarksStand'
    <3>1. PICK j : j = [op |-> "evaluate", row |-> <<a, s>>, read |-> {<<a, s>>},
                        seen |-> submission[a][s], new |-> new]
      OBVIOUS
    <3>2. QED
      BY <2>2, <3>1, LoadKeepsMarks DEF LectureStands
  <2>3. ASSUME NEW new, Load(w, [op |-> "edit_submission", row |-> <<a, s>>, read |-> {<<a, s>>},
                                 seen |-> submission[a][s], new |-> new])
        PROVE  MarksStand'
    <3>1. PICK j : j = [op |-> "edit_submission", row |-> <<a, s>>, read |-> {<<a, s>>},
                        seen |-> submission[a][s], new |-> new]
      OBVIOUS
    <3>2. QED
      BY <2>3, <3>1, LoadKeepsMarks DEF LectureStands
  <2>4. QED
    BY <2>1, <2>2, <2>3
<1>8. ASSUME NEW w \in Workers, LoadPublish(w) PROVE MarksStand'
  <2>1. PICK j : Load(w, j) /\ j.op # "delete_lecture"
    BY <1>8 DEF LoadPublish
  <2>2. QED
    BY <2>1, LoadKeepsMarks DEF LectureStands
<1>9. ASSUME NEW w \in Workers, LoadResult(w) PROVE MarksStand'
  <2>1. PICK j : Load(w, j) /\ j.op # "delete_lecture"
    BY <1>9 DEF LoadResult
  <2>2. QED
    BY <2>1, LoadKeepsMarks DEF LectureStands
<1>10. ASSUME NEW w \in Workers, LoadDeleteLecture(w) PROVE MarksStand'
  <2>1. PICK l \in Lectures :
          /\ Load(w, [op |-> "delete_lecture", row |-> l, read |-> {l}])
          /\ \A s \in Students : mark[l][s] = None
    BY <1>10 DEF LoadDeleteLecture
  <2>2. PICK j : j = [op |-> "delete_lecture", row |-> l, read |-> {l}]
    OBVIOUS
  <2>3. LectureStands(j, missed[w], mark)
    BY <2>1, <2>2 DEF LectureStands
  <2>4. QED
    BY <2>1, <2>2, <2>3, LoadKeepsMarks
<1>11. ASSUME NEW w \in Workers, SaveSubmission(w) \/ Publish(w) \/ SaveResult(w) \/ Abandon(w)
       PROVE  MarksStand'
  <2>1. PICK rows : End(w, rows) /\ UNCHANGED attendance
    BY <1>11 DEF SaveSubmission, Publish, SaveResult, Abandon
  <2>2. QED
    BY <2>1, EndKeepsMarks
<1>12. ASSUME NEW w \in Workers, DeleteLecture(w) PROVE MarksStand'
  BY <1>12, DeleteKeepsMarks
<1>13. CASE UNCHANGED vars
  BY <1>13 DEF vars, MarksStand, GoneAreEmpty, LecturesStand
<1>14. QED
  BY <1>1, <1>2, <1>3, <1>4, <1>5, <1>6, <1>7, <1>8, <1>9, <1>10, <1>11, <1>12, <1>13 DEF Next

\* A lecture is deleted after no attendance was found for it (timetable_service.py): it has none,
\* and whoever is about to delete one has found none, unless it was marked in between.
THEOREM DeletedLecturesAreEmpty == Spec => []MarksStand
<1>1. Init => MarksStand
  BY DEF Init, MarksStand, GoneAreEmpty, LecturesStand
<1>2. IInv /\ MarksStand /\ [Next]_vars => MarksStand'
  BY StepKeepsMarks
<1>3. QED
  BY <1>1, <1>2, Invariance, PTL DEF Spec

-----------------------------------------------------------------------------
(* Sums over finite sets, by induction on the subsets.                      *)

\* What a sum over the subsets of S does at one of them.
One(s) == CHOOSE x \in s : TRUE
Adds(f, S, g) == g = [s \in SUBSET S |-> IF s = {} THEN 0 ELSE f[One(s)] + g[s \ {One(s)}]]
Running(f, S) == CHOOSE g : Adds(f, S, g)

\* Of a family of subsets of a finite set, one contains no other.
LEMMA Smallest ==
  ASSUME NEW S, IsFiniteSet(S), NEW F \in SUBSET (SUBSET S), F # {}
  PROVE  \E T \in F : IsFiniteSet(T) /\ \A U \in F : U \subseteq T => U = T
<1>1. IsWellFoundedOn(StrictSubsetOrdering(S), FiniteSubsetsOf(S))
  BY FS_StrictSubsetOrderingWellFounded
<1>2. F \subseteq FiniteSubsetsOf(S)
  BY FS_Subset DEF FiniteSubsetsOf
<1>3. PICK T \in F : \A U \in F : ~ (<<U, T>> \in StrictSubsetOrdering(S))
  BY <1>1, <1>2, WFMin
<1>4. \A U \in F : U \subseteq T => U = T
  BY <1>3 DEF StrictSubsetOrdering
<1>5. QED
  BY <1>2, <1>4 DEF FiniteSubsetsOf

LEMMA OneIsIn == ASSUME NEW s, s # {} PROVE One(s) \in s
BY DEF One

\* The running sums over two sets agree where both are defined.
LEMMA RunningAgree ==
  ASSUME NEW S, IsFiniteSet(S), NEW T \in SUBSET S, NEW f, NEW g, NEW h, Adds(f, S, g), Adds(f, T, h)
  PROVE  \A s \in SUBSET T : g[s] = h[s]
<1> DEFINE F == {s \in SUBSET T : g[s] # h[s]}
<1>1. SUFFICES ASSUME F # {} PROVE FALSE
  OBVIOUS
<1>2. IsFiniteSet(T)
  BY FS_Subset
<1>3. PICK s \in F : \A u \in F : u \subseteq s => u = s
  <2>1. F \in SUBSET (SUBSET T)
    OBVIOUS
  <2> HIDE DEF F
  <2>2. QED
    BY <1>1, <1>2, <2>1, Smallest
<1>4. s \in SUBSET T /\ s \in SUBSET S /\ g[s] # h[s]
  OBVIOUS
<1>5. /\ g[s] = IF s = {} THEN 0 ELSE f[One(s)] + g[s \ {One(s)}]
      /\ h[s] = IF s = {} THEN 0 ELSE f[One(s)] + h[s \ {One(s)}]
  BY <1>4 DEF Adds
<1>6. s # {}
  BY <1>4, <1>5
<1>7. One(s) \in s
  BY <1>6, OneIsIn
<1>8. s \ {One(s)} \in SUBSET T /\ s \ {One(s)} \subseteq s /\ s \ {One(s)} # s
  BY <1>4, <1>7
<1>9. g[s \ {One(s)}] = h[s \ {One(s)}]
  BY <1>3, <1>8
<1>10. QED
  BY <1>4, <1>5, <1>6, <1>9

\* There are running sums over every finite set.
LEMMA RunningAdds ==
  ASSUME NEW S, IsFiniteSet(S), NEW f
  PROVE  Adds(f, S, Running(f, S))
<1> DEFINE F == {T \in SUBSET S : ~ \E g : Adds(f, T, g)}
<1>1. SUFFICES ASSUME F # {} PROVE FALSE
  BY DEF Running
<1>2. PICK T \in F : IsFiniteSet(T) /\ \A U \in F : U \subseteq T => U = T
  <2>1. F \in SUBSET (SUBSET S)
    OBVIOUS
  <2> HIDE DEF F
  <2>2. QED
    BY <1>1, <2>1, Smallest
<1>3. T \in SUBSET S /\ ~ \E g : Adds(f, T, g)
  OBVIOUS
<1>4. ASSUME NEW U \in SUBSET T, U # T PROVE Adds(f, U, Running(f, U))
  BY <1>2, <1>3, <1>4 DEF Running
<1> DEFINE Rest(s) == s \ {One(s)}
<1> DEFINE g == [s \in SUBSET T |-> IF s = {} THEN 0 ELSE f[One(s)] + Running(f, Rest(s))[Rest(s)]]
<1>5. ASSUME NEW s \in SUBSET T, s # {}
      PROVE  g[Rest(s)] = Running(f, Rest(s))[Rest(s)]
  <2>1. One(s) \in s
    BY <1>5, OneIsIn
  <2>2. /\ Rest(s) \in SUBSET T /\ Rest(s) # T /\ IsFiniteSet(Rest(s))
        /\ Adds(f, Rest(s), Running(f, Rest(s)))
    <3>1. Rest(s) \in SUBSET T /\ Rest(s) # T
      BY <2>1
    <3>2. QED
      BY <3>1, <1>2, <1>4, FS_Subset
  <2>3. CASE Rest(s) = {}
    BY <2>2, <2>3 DEF Adds
  <2>4. CASE Rest(s) # {}
    <3> DEFINE r == Rest(s)
               q == Rest(Rest(s))
    <3>1. One(r) \in r /\ q \in SUBSET r /\ q # T /\ q \in SUBSET T /\ IsFiniteSet(r)
      BY <2>2, <2>4, OneIsIn
    <3>2. Adds(f, q, Running(f, q)) /\ Adds(f, r, Running(f, r))
      BY <2>2, <3>1, <1>4
    <3> HIDE DEF q, r, Rest
    <3>3. Running(f, r)[q] = Running(f, q)[q]
      BY <3>1, <3>2, RunningAgree
    <3>4. Running(f, r)[r] = f[One(r)] + Running(f, r)[q]
      BY <3>2, <2>4 DEF Adds, q, r, Rest
    <3>5. g[r] = f[One(r)] + Running(f, q)[q]
      BY <2>2, <2>4 DEF q, r
    <3>6. QED
      BY <3>3, <3>4, <3>5 DEF r
  <2>5. QED
    BY <2>3, <2>4
<1>6. Adds(f, T, g)
  <2>1. g = [s \in SUBSET T |-> IF s = {} THEN 0 ELSE f[One(s)] + g[s \ {One(s)}]]
    <3>1. \A s \in SUBSET T : s # {} => g[s] = f[One(s)] + g[s \ {One(s)}]
      BY <1>5
    <3>2. g[{}] = 0
      OBVIOUS
    <3>3. QED
      BY <3>1, <3>2
  <2>2. QED
    BY <2>1 DEF Adds
<1>7. QED
  BY <1>3, <1>6

LEMMA SumRuns ==
  ASSUME NEW f, NEW S
  PROVE  SumFunctionOnSet(f, S) = Running(f, S)[S]
BY DEF SumFunctionOnSet, FoldFunctionOnSet, MapThenFoldSet, Running, Adds, One

LEMMA SumEmpty ==
  ASSUME NEW f
  PROVE  SumFunctionOnSet(f, {}) = 0
<1>1. Adds(f, {}, Running(f, {}))
  BY RunningAdds, FS_EmptySet
<1>2. QED
  BY <1>1, SumRuns DEF Adds

LEMMA SumStep ==
  ASSUME NEW f, NEW S, IsFiniteSet(S), S # {}
  PROVE  SumFunctionOnSet(f, S) = f[One(S)] + SumFunctionOnSet(f, S \ {One(S)})
<1> DEFINE T == S \ {One(S)}
<1>1. IsFiniteSet(T) /\ T \in SUBSET S
  BY FS_Subset
<1>2. Adds(f, T, Running(f, T)) /\ Adds(f, S, Running(f, S))
  BY <1>1, RunningAdds
<1>3. Running(f, S)[T] = Running(f, T)[T]
  BY <1>1, <1>2, RunningAgree
<1>4. Running(f, S)[S] = f[One(S)] + Running(f, S)[T]
  BY <1>2 DEF Adds
<1>5. QED
  BY <1>3, <1>4, SumRuns

\* A family that has the empty set, and with a subset of S what comes of adding an element, has S.
LEMMA ByAdding ==
  ASSUME NEW S, IsFiniteSet(S), NEW F, {} \in F,
         \A T \in F : \A x \in S \ T : T \in SUBSET S => T \cup {x} \in F
  PROVE  S \in F
<1> DEFINE Out == {T \in SUBSET S : T \notin F}
<1>1. SUFFICES ASSUME Out # {} PROVE FALSE
  OBVIOUS
<1>2. PICK T \in Out : \A U \in Out : U \subseteq T => U = T
  <2>1. Out \in SUBSET (SUBSET S)
    OBVIOUS
  <2> HIDE DEF Out
  <2>2. QED
    BY <1>1, <2>1, Smallest
<1>3. PICK x \in T : TRUE
  BY <1>2
<1>4. T \ {x} \in F /\ x \in S \ (T \ {x}) /\ T \ {x} \in SUBSET S /\ T = (T \ {x}) \cup {x}
  BY <1>2, <1>3
<1>5. QED
  BY <1>2, <1>4

IntegerOn(f, S) == \A x \in S : f[x] \in Int

LEMMA SumType ==
  ASSUME NEW S, IsFiniteSet(S), NEW f, IntegerOn(f, S)
  PROVE  SumFunctionOnSet(f, S) \in Int
<1> DEFINE F == {T \in SUBSET S : SumFunctionOnSet(f, T) \notin Int}
<1>1. SUFFICES ASSUME F # {} PROVE FALSE
  OBVIOUS
<1>2. PICK T \in F : IsFiniteSet(T) /\ \A U \in F : U \subseteq T => U = T
  <2>1. F \in SUBSET (SUBSET S)
    OBVIOUS
  <2> HIDE DEF F
  <2>2. QED
    BY <1>1, <2>1, Smallest
<1>3. T # {}
  BY <1>2, SumEmpty
<1>4. One(T) \in T
  BY <1>3, OneIsIn
<1>5. SumFunctionOnSet(f, T \ {One(T)}) \in Int
  BY <1>2, <1>4
<1>6. QED
  BY <1>2, <1>3, <1>4, <1>5, SumStep DEF IntegerOn

\* The order does not matter: any element may come last.
LEMMA SumAny ==
  ASSUME NEW S, IsFiniteSet(S), NEW f, IntegerOn(f, S), NEW x \in S
  PROVE  SumFunctionOnSet(f, S) = f[x] + SumFunctionOnSet(f, S \ {x})
<1> DEFINE Without(T, y) == SumFunctionOnSet(f, T) = f[y] + SumFunctionOnSet(f, T \ {y})
           F == {T \in SUBSET S : \E y \in T : ~Without(T, y)}
<1>1. SUFFICES ASSUME F # {} PROVE FALSE
  OBVIOUS
<1>2. PICK T \in F : IsFiniteSet(T) /\ \A U \in F : U \subseteq T => U = T
  <2>1. F \in SUBSET (SUBSET S)
    OBVIOUS
  <2> HIDE DEF F
  <2>2. QED
    BY <1>1, <2>1, Smallest
<1>3. PICK y \in T : ~Without(T, y)
  OBVIOUS
<1> DEFINE o == One(T)
<1>4. o \in T /\ Without(T, o) /\ o # y
  BY <1>2, <1>3, OneIsIn, SumStep
<1>5. Without(T \ {y}, o) /\ Without(T \ {o}, y)
  BY <1>2, <1>3, <1>4
<1>6. (T \ {y}) \ {o} = (T \ {o}) \ {y} /\ IsFiniteSet((T \ {y}) \ {o}) /\ (T \ {y}) \ {o} \in SUBSET S
  BY <1>2, FS_Subset
<1>7. SumFunctionOnSet(f, (T \ {y}) \ {o}) \in Int /\ f[o] \in Int /\ f[y] \in Int
  BY <1>3, <1>4, <1>6, SumType DEF IntegerOn
<1> DEFINE r == SumFunctionOnSet(f, (T \ {y}) \ {o})
<1>8. /\ SumFunctionOnSet(f, T) = f[o] + SumFunctionOnSet(f, T \ {o})
      /\ SumFunctionOnSet(f, T \ {o}) = f[y] + r
      /\ SumFunctionOnSet(f, T \ {y}) = f[o] + r
  BY <1>4, <1>5, <1>6
<1>9. r \in Int
  BY <1>7
<1> HIDE DEF r, o
<1>10. SumFunctionOnSet(f, T) = f[y] + SumFunctionOnSet(f, T \ {y})
  BY <1>7, <1>8, <1>9
<1>11. QED
  BY <1>3, <1>10

LEMMA SumAdding ==
  ASSUME NEW T, IsFiniteSet(T), NEW f, IntegerOn(f, T), NEW x, x \notin T, f[x] \in Int
  PROVE  /\ SumFunctionOnSet(f, T \cup {x}) = f[x] + SumFunctionOnSet(f, T)
         /\ SumFunctionOnSet(f, T) \in Int
<1>1. IsFiniteSet(T \cup {x})
  BY FS_AddElement
<1>2. (T \cup {x}) \ {x} = T
  OBVIOUS
<1>3. IntegerOn(f, T \cup {x})
  BY DEF IntegerOn
<1>4. QED
  BY <1>1, <1>2, <1>3, SumAny, SumType

\* A part of a sum.
LEMMA SumPart ==
  ASSUME NEW S, IsFiniteSet(S), NEW f, IntegerOn(f, S), NEW T \in SUBSET S
  PROVE  IsFiniteSet(T) /\ IntegerOn(f, T) /\ SumFunctionOnSet(f, T) \in Int
<1>1. IsFiniteSet(T) /\ IntegerOn(f, T)
  BY FS_Subset DEF IntegerOn
<1>2. QED
  BY <1>1, SumType

\* Sums of the same values are the same.
LEMMA SumSame ==
  ASSUME NEW S, IsFiniteSet(S), NEW f, NEW g, IntegerOn(f, S), \A x \in S : f[x] = g[x]
  PROVE  SumFunctionOnSet(f, S) = SumFunctionOnSet(g, S)
<1> DEFINE F == {T \in SUBSET S : SumFunctionOnSet(f, T) = SumFunctionOnSet(g, T)}
<1>1. {} \in F
  BY SumEmpty
<1>0. IntegerOn(g, S)
  BY DEF IntegerOn
<1>2. ASSUME NEW T \in F, NEW x \in S \ T, T \in SUBSET S PROVE T \cup {x} \in F
  <2> HIDE DEF F
  <2>1. IsFiniteSet(T) /\ IntegerOn(f, T) /\ f[x] \in Int /\ x \notin T
    BY <1>0, <1>2, SumPart DEF IntegerOn
  <2>2. /\ SumFunctionOnSet(f, T \cup {x}) = f[x] + SumFunctionOnSet(f, T)
        /\ f[x] \in Int /\ SumFunctionOnSet(f, T) \in Int
    BY <2>1, SumAdding
  <2>3. IsFiniteSet(T) /\ IntegerOn(g, T) /\ g[x] \in Int /\ x \notin T
    BY <1>0, <1>2, SumPart DEF IntegerOn
  <2>4. /\ SumFunctionOnSet(g, T \cup {x}) = g[x] + SumFunctionOnSet(g, T)
        /\ g[x] \in Int /\ SumFunctionOnSet(g, T) \in Int
    BY <2>3, SumAdding
  <2>5. SumFunctionOnSet(f, T) = SumFunctionOnSet(g, T)
    BY <1>2 DEF F
  <2>6. QED
    BY <1>2, <2>2, <2>4, <2>5 DEF F
<1>3. S \in F
  <2> HIDE DEF F
  <2>1. QED
    BY <1>1, <1>2, ByAdding
<1>4. QED
  BY <1>3

\* Two disjoint sets.
LEMMA SumUnion ==
  ASSUME NEW S, IsFiniteSet(S), NEW f, IntegerOn(f, S), NEW A \in SUBSET S, NEW B \in SUBSET S,
         A \cap B = {}
  PROVE  SumFunctionOnSet(f, A \cup B) = SumFunctionOnSet(f, A) + SumFunctionOnSet(f, B)
<1> DEFINE Apart(T) == SumFunctionOnSet(f, A \cup T) = SumFunctionOnSet(f, A) + SumFunctionOnSet(f, T)
           F == {T \in SUBSET B : Apart(T)}
<1>1. IsFiniteSet(B) /\ IsFiniteSet(A) /\ IntegerOn(f, A) /\ IntegerOn(f, B)
  BY FS_Subset DEF IntegerOn
<1>2. {} \in F
  BY <1>1, SumEmpty, SumType
<1>3. ASSUME NEW T \in F, NEW x \in B \ T, T \in SUBSET B PROVE T \cup {x} \in F
  <2>1. x \in S \ (A \cup T) /\ (A \cup T) \cup {x} = A \cup (T \cup {x}) /\ A \cup T \in SUBSET S
    BY <1>3
  <2>3. Apart(T)
    OBVIOUS
  <2> HIDE DEF F
  <2>2. /\ SumFunctionOnSet(f, A \cup (T \cup {x})) = f[x] + SumFunctionOnSet(f, A \cup T)
        /\ SumFunctionOnSet(f, T \cup {x}) = f[x] + SumFunctionOnSet(f, T)
        /\ f[x] \in Int /\ SumFunctionOnSet(f, T) \in Int /\ SumFunctionOnSet(f, A) \in Int
    <3> DEFINE U == A \cup T
    <3>1. U \cup {x} = A \cup (T \cup {x}) /\ U \in SUBSET S /\ x \in S \ U
      BY <2>1
    <3> HIDE DEF U
    <3>2. IsFiniteSet(U) /\ IntegerOn(f, U) /\ f[x] \in Int /\ x \notin U
      BY <3>1, SumPart DEF IntegerOn
    <3>3. SumFunctionOnSet(f, U \cup {x}) = f[x] + SumFunctionOnSet(f, U)
      BY <3>2, SumAdding
    <3>4. IsFiniteSet(T) /\ IntegerOn(f, T) /\ x \notin T
      BY <1>1, <1>3, SumPart
    <3>5. /\ SumFunctionOnSet(f, T \cup {x}) = f[x] + SumFunctionOnSet(f, T)
          /\ SumFunctionOnSet(f, T) \in Int
      BY <3>2, <3>4, SumAdding
    <3>6. QED
      BY <3>1, <3>2, <3>3, <3>5, <1>1, SumType DEF U
  <2>4. Apart(T \cup {x})
    BY <2>2, <2>3
  <2>5. QED
    BY <2>4, <1>3 DEF F
<1>4. B \in F
  <2> HIDE DEF F
  <2>1. QED
    BY <1>1, <1>2, <1>3, ByAdding
<1>5. QED
  BY <1>4

\* Larger values have a larger sum.
LEMMA SumOrder ==
  ASSUME NEW S, IsFiniteSet(S), NEW f, NEW g, IntegerOn(f, S), IntegerOn(g, S),
         \A x \in S : f[x] <= g[x]
  PROVE  SumFunctionOnSet(f, S) <= SumFunctionOnSet(g, S)
<1> DEFINE F == {T \in SUBSET S : SumFunctionOnSet(f, T) <= SumFunctionOnSet(g, T)}
<1>1. {} \in F
  BY SumEmpty
<1>2. ASSUME NEW T \in F, NEW x \in S \ T, T \in SUBSET S PROVE T \cup {x} \in F
  <2> HIDE DEF F
  <2>1. IsFiniteSet(T) /\ IntegerOn(f, T) /\ f[x] \in Int /\ x \notin T
    BY <1>2, SumPart DEF IntegerOn
  <2>2. /\ SumFunctionOnSet(f, T \cup {x}) = f[x] + SumFunctionOnSet(f, T)
        /\ f[x] \in Int /\ SumFunctionOnSet(f, T) \in Int
    BY <2>1, SumAdding
  <2>3. IsFiniteSet(T) /\ IntegerOn(g, T) /\ g[x] \in Int /\ x \notin T
    BY <1>2, SumPart DEF IntegerOn
  <2>4. /\ SumFunctionOnSet(g, T \cup {x}) = g[x] + SumFunctionOnSet(g, T)
        /\ g[x] \in Int /\ SumFunctionOnSet(g, T) \in Int
    BY <2>3, SumAdding
  <2>5. SumFunctionOnSet(f, T) <= SumFunctionOnSet(g, T) /\ f[x] <= g[x]
    BY <1>2 DEF F
  <2>6. QED
    BY <1>2, <2>2, <2>4, <2>5 DEF F
<1>3. S \in F
  <2> HIDE DEF F
  <2>1. QED
    BY <1>1, <1>2, ByAdding
<1>4. QED
  BY <1>3

\* Equal values.
LEMMA SumEqual ==
  ASSUME NEW S, IsFiniteSet(S), NEW f, NEW c \in Int, \A x \in S : f[x] = c
  PROVE  SumFunctionOnSet(f, S) = c * Cardinality(S)
<1> DEFINE F == {T \in SUBSET S : SumFunctionOnSet(f, T) = c * Cardinality(T)}
<1>1. {} \in F
  BY SumEmpty, FS_EmptySet
<1>0. IntegerOn(f, S)
  BY DEF IntegerOn
<1>2. ASSUME NEW T \in F, NEW x \in S \ T, T \in SUBSET S PROVE T \cup {x} \in F
  <2>1. SumFunctionOnSet(f, T \cup {x}) = c + SumFunctionOnSet(f, T) /\ IsFiniteSet(T)
    <3>1. IsFiniteSet(T) /\ IntegerOn(f, T) /\ f[x] = c /\ x \notin T
      BY <1>0, <1>2, SumPart
    <3>2. QED
      BY <3>1, SumAdding
  <2>2. Cardinality(T \cup {x}) = Cardinality(T) + 1 /\ Cardinality(T) \in Nat
    BY <1>2, <2>1, FS_AddElement, FS_CardinalityType
  <2>3. \A n \in Nat : c * (n + 1) = c + c * n
    OBVIOUS
  <2>4. QED
    BY <1>2, <2>1, <2>2, <2>3
<1>3. S \in F
  <2> HIDE DEF F
  <2>1. QED
    BY <1>1, <1>2, ByAdding
<1>4. QED
  BY <1>3

LEMMA SumTimes ==
  ASSUME NEW S, IsFiniteSet(S), NEW f, IntegerOn(f, S), NEW c \in Int, NEW g,
         \A x \in S : g[x] = c * f[x]
  PROVE  SumFunctionOnSet(g, S) = c * SumFunctionOnSet(f, S)
<1> DEFINE F == {T \in SUBSET S : SumFunctionOnSet(g, T) = c * SumFunctionOnSet(f, T)}
<1>1. {} \in F
  BY SumEmpty
<1>2. IntegerOn(g, S)
  BY DEF IntegerOn
<1>3. ASSUME NEW T \in F, NEW x \in S \ T, T \in SUBSET S PROVE T \cup {x} \in F
  <2> HIDE DEF F
  <2>1. IsFiniteSet(T) /\ IntegerOn(f, T) /\ IntegerOn(g, T) /\ f[x] \in Int /\ g[x] \in Int /\ x \notin T
    BY <1>2, <1>3, SumPart DEF IntegerOn
  <2>2. /\ SumFunctionOnSet(f, T \cup {x}) = f[x] + SumFunctionOnSet(f, T)
        /\ SumFunctionOnSet(g, T \cup {x}) = g[x] + SumFunctionOnSet(g, T)
        /\ SumFunctionOnSet(f, T) \in Int
    BY <2>1, SumAdding
  <2>3. SumFunctionOnSet(g, T) = c * SumFunctionOnSet(f, T)
    BY <1>3 DEF F
  <2>4. \A a \in Int, b \in Int : c * (a + b) = c * a + c * b
    OBVIOUS
  <2>5. T \cup {x} \in SUBSET S
    BY <1>3
  <2>6. SumFunctionOnSet(g, T \cup {x}) = c * SumFunctionOnSet(f, T \cup {x})
    BY <2>1, <2>2, <2>3, <2>4
  <2>7. QED
    BY <2>5, <2>6 DEF F
<1>4. S \in F
  <2> HIDE DEF F
  <2>1. QED
    BY <1>1, <1>3, ByAdding
<1>5. QED
  BY <1>4

-----------------------------------------------------------------------------
(* Counting a set by a key.                                                 *)

Fibre(key, T, k) == {r \in T : key[r] = k}
Fibres(key, T, K) == [k \in K |-> Cardinality(Fibre(key, T, k))]

LEMMA FibresAreNatural ==
  ASSUME NEW T, IsFiniteSet(T), NEW key, NEW K
  PROVE  IntegerOn(Fibres(key, T, K), K)
<1>1. \A k \in K : Cardinality(Fibre(key, T, k)) \in Nat
  BY FS_Subset, FS_CardinalityType DEF Fibre
<1>2. QED
  BY <1>1 DEF IntegerOn, Fibres

LEMMA CountOneMore ==
  ASSUME NEW K, IsFiniteSet(K), NEW T, IsFiniteSet(T), NEW x, x \notin T, NEW key, key[x] \in K
  PROVE  SumFunctionOnSet(Fibres(key, T \cup {x}, K), K) = SumFunctionOnSet(Fibres(key, T, K), K) + 1
<1> DEFINE f == Fibres(key, T, K)
           g == Fibres(key, T \cup {x}, K)
           k0 == key[x]
           Rest == K \ {k0}
<1>1. IsFiniteSet(T \cup {x}) /\ IsFiniteSet(Rest)
  BY FS_AddElement, FS_Subset
<1>2. IntegerOn(f, K) /\ IntegerOn(g, K)
  BY <1>1, FibresAreNatural
<1>3. g[k0] = f[k0] + 1
  <2> DEFINE U == {r \in T : key[r] = k0}
  <2>1. IsFiniteSet(U) /\ x \notin U /\ {r \in T \cup {x} : key[r] = k0} = U \cup {x}
    BY FS_Subset
  <2>2. f[k0] = Cardinality(U) /\ g[k0] = Cardinality(U \cup {x})
    BY <2>1 DEF Fibres, Fibre
  <2> HIDE DEF U, f, g
  <2>3. QED
    BY <2>1, <2>2, FS_AddElement
<1>4. \A k \in Rest : f[k] = g[k]
  <2> SUFFICES ASSUME NEW k \in Rest PROVE f[k] = g[k]
    OBVIOUS
  <2>1. {r \in T \cup {x} : key[r] = k} = {r \in T : key[r] = k}
    OBVIOUS
  <2>2. QED
    BY <2>1 DEF Fibres, Fibre
<1> HIDE DEF f, g
<1>5. IntegerOn(f, Rest) /\ f[k0] \in Int /\ g[k0] \in Int
  BY <1>2 DEF IntegerOn
<1>6. /\ SumFunctionOnSet(f, K) = f[k0] + SumFunctionOnSet(f, Rest)
      /\ SumFunctionOnSet(g, K) = g[k0] + SumFunctionOnSet(g, Rest)
  BY <1>2, SumAny
<1>7. SumFunctionOnSet(f, Rest) = SumFunctionOnSet(g, Rest) /\ SumFunctionOnSet(f, Rest) \in Int
  BY <1>1, <1>4, <1>5, SumSame, SumType
<1>8. SumFunctionOnSet(g, K) = SumFunctionOnSet(f, K) + 1
  BY <1>3, <1>5, <1>6, <1>7
<1>9. QED
  BY <1>8 DEF f, g

\* A set has as many elements as there are of all keys together.
LEMMA CountByKey ==
  ASSUME NEW R, IsFiniteSet(R), NEW K, IsFiniteSet(K), NEW key, \A r \in R : key[r] \in K
  PROVE  SumFunctionOnSet(Fibres(key, R, K), K) = Cardinality(R)
<1> DEFINE F == {T \in SUBSET R : SumFunctionOnSet(Fibres(key, T, K), K) = Cardinality(T)}
<1>1. {} \in F
  <2> DEFINE f == Fibres(key, {}, K)
  <2>1. \A k \in K : f[k] = 0
    BY FS_EmptySet DEF Fibres, Fibre
  <2> HIDE DEF f
  <2>2. SumFunctionOnSet(f, K) = 0 * Cardinality(K) /\ Cardinality(K) \in Nat
    BY <2>1, SumEqual, FS_CardinalityType
  <2>3. SumFunctionOnSet(f, K) = 0
    BY <2>2
  <2>4. QED
    BY <2>3, FS_EmptySet DEF f
<1>2. ASSUME NEW T \in F, NEW x \in R \ T, T \in SUBSET R PROVE T \cup {x} \in F
  <2>1. IsFiniteSet(T) /\ key[x] \in K /\ x \notin T
    BY FS_Subset
  <2>2. Cardinality(T \cup {x}) = Cardinality(T) + 1
    BY <2>1, FS_AddElement
  <2>3. SumFunctionOnSet(Fibres(key, T \cup {x}, K), K)
          = SumFunctionOnSet(Fibres(key, T, K), K) + 1
    BY <2>1, CountOneMore
  <2>4. QED
    BY <2>2, <2>3
<1>3. R \in F
  <2> HIDE DEF F
  <2>1. QED
    BY <1>1, <1>2, ByAdding
<1>4. QED
  BY <1>3

LEMMA CountBy ==
  ASSUME NEW R, IsFiniteSet(R), NEW K, IsFiniteSet(K), NEW key, \A r \in R : key[r] \in K, NEW f,
         \A k \in K : f[k] = Cardinality(Fibre(key, R, k))
  PROVE  SumFunctionOnSet(f, K) = Cardinality(R)
<1>1. \A k \in K : Fibres(key, R, K)[k] = f[k]
  BY DEF Fibres
<1>2. IntegerOn(Fibres(key, R, K), K)
  BY FibresAreNatural
<1>3. SumFunctionOnSet(Fibres(key, R, K), K) = SumFunctionOnSet(f, K)
  BY <1>1, <1>2, SumSame
<1>4. QED
  BY <1>3, CountByKey

LEMMA OneToOne ==
  ASSUME NEW S, NEW T, IsFiniteSet(S), NEW f \in [S -> T],
         \A x \in S, y \in S : f[x] = f[y] => x = y,
         \A z \in T : \E x \in S : f[x] = z
  PROVE  Cardinality(S) = Cardinality(T)
<1>1. f \in Bijection(S, T)
  BY DEF Bijection, Injection, Surjection, IsInjective
<1>2. QED
  BY <1>1, FS_Bijection DEF ExistsBijection

\* The pairs of R with this first, and with this second element.
Row(R, B, a) == {b \in B : <<a, b>> \in R}
OfRow(R, a) == {r \in R : r[1] = a}
Column(R, A, b) == {a \in A : <<a, b>> \in R}
OfColumn(R, b) == {r \in R : r[2] = b}

LEMMA RowSize ==
  ASSUME NEW B, IsFiniteSet(B), NEW R, NEW a,
         \A r \in R : r = <<r[1], r[2]>> /\ r[2] \in B
  PROVE  Cardinality(OfRow(R, a)) = Cardinality(Row(R, B, a))
<1> DEFINE S == Row(R, B, a)
           T == OfRow(R, a)
           f == [x \in S |-> <<a, x>>]
<1>1. IsFiniteSet(S)
  BY FS_Subset DEF Row
<1>2. f \in [S -> T]
  BY DEF Row, OfRow
<1>3. \A x \in S, y \in S : f[x] = f[y] => x = y
  OBVIOUS
<1>4. \A z \in T : \E x \in S : f[x] = z
  <2> SUFFICES ASSUME NEW z \in T PROVE \E x \in S : f[x] = z
    OBVIOUS
  <2>1. z = <<z[1], z[2]>> /\ z[1] = a /\ z[2] \in S
    BY DEF Row, OfRow
  <2>2. QED
    BY <2>1
<1> HIDE DEF S, T, f
<1>5. Cardinality(S) = Cardinality(T)
  BY <1>1, <1>2, <1>3, <1>4, OneToOne
<1>6. QED
  BY <1>5 DEF S, T

LEMMA ColumnSize ==
  ASSUME NEW A, IsFiniteSet(A), NEW R, NEW b,
         \A r \in R : r = <<r[1], r[2]>> /\ r[1] \in A
  PROVE  Cardinality(OfColumn(R, b)) = Cardinality(Column(R, A, b))
<1> DEFINE S == Column(R, A, b)
           T == OfColumn(R, b)
           f == [x \in S |-> <<x, b>>]
<1>1. IsFiniteSet(S)
  BY FS_Subset DEF Column
<1>2. f \in [S -> T]
  BY DEF Column, OfColumn
<1>3. \A x \in S, y \in S : f[x] = f[y] => x = y
  OBVIOUS
<1>4. \A z \in T : \E x \in S : f[x] = z
  <2> SUFFICES ASSUME NEW z \in T PROVE \E x \in S : f[x] = z
    OBVIOUS
  <2>1. z = <<z[1], z[2]>> /\ z[2] = b /\ z[1] \in S
    BY DEF Column, OfColumn
  <2>2. QED
    BY <2>1
<1> HIDE DEF S, T, f
<1>5. Cardinality(S) = Cardinality(T)
  BY <1>1, <1>2, <1>3, <1>4, OneToOne
<1>6. QED
  BY <1>5 DEF S, T

LEMMA CountByRow ==
  ASSUME NEW A, IsFiniteSet(A), NEW B, IsFiniteSet(B), NEW R \in SUBSET (A \X B), NEW f,
         \A a \in A : f[a] = Cardinality(Row(R, B, a))
  PROVE  SumFunctionOnSet(f, A) = Cardinality(R)
<1> DEFINE key == [r \in R |-> r[1]]
<1>1. IsFiniteSet(R)
  BY FS_Product, FS_Subset
<1>2. \A r \in R : key[r] \in A
  OBVIOUS
<1>3. \A a \in A : f[a] = Cardinality(Fibre(key, R, a))
  <2> SUFFICES ASSUME NEW a \in A PROVE f[a] = Cardinality(Fibre(key, R, a))
    OBVIOUS
  <2>1. Fibre(key, R, a) = OfRow(R, a)
    BY DEF Fibre, OfRow
  <2>2. \A r \in R : r = <<r[1], r[2]>> /\ r[2] \in B
    OBVIOUS
  <2>3. Cardinality(OfRow(R, a)) = Cardinality(Row(R, B, a))
    BY <2>2, RowSize
  <2>4. QED
    BY <2>1, <2>3
<1> HIDE DEF key
<1>4. QED
  BY <1>1, <1>2, <1>3, CountBy

LEMMA CountByColumn ==
  ASSUME NEW A, IsFiniteSet(A), NEW B, IsFiniteSet(B), NEW R \in SUBSET (A \X B), NEW f,
         \A b \in B : f[b] = Cardinality(Column(R, A, b))
  PROVE  SumFunctionOnSet(f, B) = Cardinality(R)
<1> DEFINE key == [r \in R |-> r[2]]
<1>1. IsFiniteSet(R)
  BY FS_Product, FS_Subset
<1>2. \A r \in R : key[r] \in B
  OBVIOUS
<1>3. \A b \in B : f[b] = Cardinality(Fibre(key, R, b))
  <2> SUFFICES ASSUME NEW b \in B PROVE f[b] = Cardinality(Fibre(key, R, b))
    OBVIOUS
  <2>1. Fibre(key, R, b) = OfColumn(R, b)
    BY DEF Fibre, OfColumn
  <2>2. \A r \in R : r = <<r[1], r[2]>> /\ r[1] \in A
    OBVIOUS
  <2>3. Cardinality(OfColumn(R, b)) = Cardinality(Column(R, A, b))
    BY <2>2, ColumnSize
  <2>4. QED
    BY <2>1, <2>3
<1> HIDE DEF key
<1>4. QED
  BY <1>1, <1>2, <1>3, CountBy

-----------------------------------------------------------------------------
(* Percentages.                                                             *)

\* p is a nearest integer to 10000 a / c, and the even one of two.
Nearest(p, a, c) ==
  /\ (2 * p - 1) * c <= 20000 * a /\ 20000 * a <= (2 * p + 1) * c
  /\ p % 2 = 1 => (2 * p - 1) * c < 20000 * a /\ 20000 * a < (2 * p + 1) * c

LEMMA Division ==
  ASSUME NEW a \in Nat, NEW c \in Nat \ {0}
  PROVE  /\ a \div c \in Nat /\ a % c \in Nat /\ a % c < c
         /\ a = (a \div c) * c + (a % c)
<1>1. c > 0
  OBVIOUS
<1>2. a = c * (a \div c) + (a % c)
  BY <1>1
<1>3. a % c \in Nat /\ a % c < c
  BY <1>1
<1>4. a \div c \in Int /\ a \div c >= 0
  BY <1>1
<1>5. c * (a \div c) = (a \div c) * c
  BY <1>4
<1>6. QED
  BY <1>2, <1>3, <1>4, <1>5

LEMMA PercentIsNearest ==
  ASSUME NEW a \in Nat, NEW c \in Nat \ {0}
  PROVE  Percent(a, c) \in Nat /\ Nearest(Percent(a, c), a, c)
<1> DEFINE q == (10000 * a) \div c
           r == (10000 * a) % c
           p == Percent(a, c)
<1>1. 10000 * a \in Nat
  OBVIOUS
<1>2. q \in Nat /\ r \in Nat /\ r < c /\ 10000 * a = q * c + r
  BY <1>1, Division
<1>3. p = IF 2 * r > c \/ (2 * r = c /\ q % 2 = 1) THEN q + 1 ELSE q
  BY DEF Percent
<1>4. PICK m \in Nat : m = q * c
  BY <1>2
<1> HIDE DEF q, r, p
<1>5. /\ (2 * q - 1) * c = 2 * m - c /\ (2 * q + 1) * c = 2 * m + c
      /\ (2 * (q + 1) - 1) * c = 2 * m + c /\ (2 * (q + 1) + 1) * c = 2 * m + 3 * c
  BY <1>2, <1>4
<1>6. 20000 * a = 2 * m + 2 * r
  BY <1>2, <1>4
<1>7. CASE p = q + 1 /\ (2 * r > c \/ (2 * r = c /\ q % 2 = 1))
  <2>1. (q % 2 = 1) => (p % 2 # 1)
    BY <1>2, <1>7
  <2>2. (2 * p - 1) * c = 2 * m + c /\ (2 * p + 1) * c = 2 * m + 3 * c
    BY <1>5, <1>7
  <2>3. QED
    BY <1>2, <1>4, <1>6, <1>7, <2>1, <2>2 DEF Nearest, p
<1>8. CASE p = q /\ ~(2 * r > c \/ (2 * r = c /\ q % 2 = 1))
  <2>1. (2 * p - 1) * c = 2 * m - c /\ (2 * p + 1) * c = 2 * m + c
    BY <1>5, <1>8
  <2>2. QED
    BY <1>2, <1>4, <1>6, <1>8, <2>1 DEF Nearest, p
<1>9. QED
  BY <1>3, <1>7, <1>8

LEMMA TimesOrder ==
  ASSUME NEW x \in Int, NEW y \in Int, x <= y, NEW c \in Nat
  PROVE  x * c <= y * c
OBVIOUS

\* A part is at most 100 %, and below 20000 it is 100 % of the whole alone.
LEMMA PercentOfPart ==
  ASSUME NEW a \in Nat, NEW c \in Nat \ {0}, a <= c
  PROVE  /\ Percent(a, c) \in Percentages
         /\ a = c => Percent(a, c) = Whole
         /\ c < 2 * Whole /\ Percent(a, c) = Whole => a = c
<1>1. PICK p \in Nat : p = Percent(a, c) /\ Nearest(p, a, c)
  BY PercentIsNearest
<1>2. p <= 10000
  <2>1. SUFFICES ASSUME 10001 <= p PROVE FALSE
    BY <1>1
  <2>2. 20001 <= 2 * p - 1
    BY <2>1
  <2>3. 20001 * c <= (2 * p - 1) * c
    BY <2>2, TimesOrder
  <2>4. QED
    BY <1>1, <2>3 DEF Nearest
<1>3. ASSUME a = c PROVE p = 10000
  <2>1. SUFFICES ASSUME p < 10000 PROVE FALSE
    BY <1>2
  <2>2. 2 * p + 1 <= 19999
    BY <2>1
  <2>3. (2 * p + 1) * c <= 19999 * c
    BY <2>2, TimesOrder
  <2>4. QED
    BY <1>1, <1>3, <2>3 DEF Nearest
<1>4. ASSUME c < 20000, p = 10000 PROVE a = c
  <2>1. 19999 * c <= 20000 * a
    BY <1>1, <1>4 DEF Nearest
  <2>2. QED
    BY <1>4, <2>1
<1>5. p \in Percentages
  BY <1>2 DEF Percentages, Whole
<1>6. p = Whole <=> p = 10000
  BY DEF Whole
<1>7. c < 2 * Whole => c < 20000
  BY DEF Whole
<1>8. QED
  BY <1>1, <1>3, <1>4, <1>5, <1>6, <1>7

\* What is nearest to a fraction is nearest to the fraction expanded.
LEMMA NearestScales ==
  ASSUME NEW p \in Int, NEW a \in Nat, NEW c \in Nat, NEW k \in Nat \ {0}, Nearest(p, a, c)
  PROVE  Nearest(p, a * k, c * k)
<1>1. /\ ((2 * p - 1) * c) * k = (2 * p - 1) * (c * k)
      /\ ((2 * p + 1) * c) * k = (2 * p + 1) * (c * k)
      /\ (20000 * a) * k = 20000 * (a * k)
  OBVIOUS
<1>2. \A x \in Int, y \in Int : (x <= y => x * k <= y * k) /\ (x < y => x * k < y * k)
  OBVIOUS
<1>3. (2 * p - 1) * c \in Int /\ (2 * p + 1) * c \in Int /\ 20000 * a \in Int
  OBVIOUS
<1>4. /\ ((2 * p - 1) * c) * k <= (20000 * a) * k /\ (20000 * a) * k <= ((2 * p + 1) * c) * k
      /\ p % 2 = 1 => /\ ((2 * p - 1) * c) * k < (20000 * a) * k
                      /\ (20000 * a) * k < ((2 * p + 1) * c) * k
  BY <1>2, <1>3 DEF Nearest
<1>5. QED
  BY <1>1, <1>4 DEF Nearest

\* The percentage of a mean lies between those of its parts.
LEMMA MeanIsBetween ==
  ASSUME NEW S, IsFiniteSet(S), S # {}, NEW f, \A x \in S : f[x] \in Nat, NEW c \in Nat \ {0},
         NEW low \in Int, NEW high \in Int,
         \A x \in S : \E p \in low..high : Nearest(p, f[x], c)
  PROVE  Percent(SumFunctionOnSet(f, S), Cardinality(S) * c) \in low..high
<1> DEFINE n == Cardinality(S)
           sum == SumFunctionOnSet(f, S)
           g == [x \in S |-> 20000 * f[x]]
           below == IF high % 2 = 1 THEN (2 * high + 1) * c - 1 ELSE (2 * high + 1) * c
           above == IF low % 2 = 1 THEN (2 * low - 1) * c + 1 ELSE (2 * low - 1) * c
           down == [x \in S |-> above]
           up == [x \in S |-> below]
<1>1. n \in Nat \ {0}
  BY FS_CardinalityType, FS_EmptySet
<1>2. IntegerOn(f, S) /\ IntegerOn(g, S) /\ below \in Int /\ above \in Int
  BY DEF IntegerOn
<1>3. \A x \in S : above <= g[x] /\ g[x] <= below
  <2> SUFFICES ASSUME NEW x \in S PROVE above <= g[x] /\ g[x] <= below
    OBVIOUS
  <2>1. PICK p \in low..high : Nearest(p, f[x], c)
    OBVIOUS
  <2>2. (2 * p + 1) * c <= (2 * high + 1) * c /\ (2 * low - 1) * c <= (2 * p - 1) * c
    <3>1. /\ 2 * p + 1 \in Int /\ 2 * high + 1 \in Int /\ 2 * p + 1 <= 2 * high + 1
          /\ 2 * p - 1 \in Int /\ 2 * low - 1 \in Int /\ 2 * low - 1 <= 2 * p - 1
      BY <2>1
    <3>2. QED
      BY <3>1, TimesOrder
  <2>3. p < high => (2 * p + 1) * c < (2 * high + 1) * c
    OBVIOUS
  <2>4. low < p => (2 * low - 1) * c < (2 * p - 1) * c
    OBVIOUS
  <2>5. PICK fx \in Nat, d \in Int, e \in Int, hc \in Int, lc \in Int :
          /\ fx = 20000 * f[x] /\ d = (2 * p - 1) * c /\ e = (2 * p + 1) * c
          /\ hc = (2 * high + 1) * c /\ lc = (2 * low - 1) * c
    OBVIOUS
  <2>6. d <= fx /\ fx <= e /\ (p % 2 = 1 => d < fx /\ fx < e)
    BY <2>1, <2>5 DEF Nearest
  <2>7. e <= hc /\ lc <= d /\ (p < high => e < hc) /\ (low < p => lc < d)
    BY <2>2, <2>3, <2>4, <2>5
  <2>8. below = (IF high % 2 = 1 THEN hc - 1 ELSE hc) /\ above = (IF low % 2 = 1 THEN lc + 1 ELSE lc)
    BY <2>5
  <2>9. g[x] = fx
    BY <2>5
  <2> HIDE DEF below, above, g
  <2>10. fx <= below
    BY <2>1, <2>6, <2>7, <2>8
  <2>11. above <= fx
    BY <2>1, <2>6, <2>7, <2>8
  <2>12. QED
    BY <2>9, <2>10, <2>11
<1>4. sum \in Nat
  <2> DEFINE zero == [x \in S |-> 0]
  <2>1. sum \in Int
    BY <1>2, SumType
  <2>2. SumFunctionOnSet(zero, S) = 0 * n
    BY SumEqual
  <2>3. SumFunctionOnSet(zero, S) <= sum
    <3>1. IntegerOn(zero, S) /\ \A x \in S : zero[x] <= f[x]
      BY DEF IntegerOn
    <3> HIDE DEF zero
    <3>2. QED
      BY <1>2, <3>1, SumOrder
  <2> HIDE DEF sum, zero, n
  <2>4. QED
    BY <1>1, <2>1, <2>2, <2>3
<1>5. above * n <= 20000 * sum /\ 20000 * sum <= below * n
  <2>1. SumFunctionOnSet(g, S) = 20000 * sum
    <3>1. \A x \in S : g[x] = 20000 * f[x]
      OBVIOUS
    <3> HIDE DEF g
    <3>2. QED
      BY <1>2, <3>1, SumTimes
  <2>2. \A x \in S : down[x] = above /\ up[x] = below
    OBVIOUS
  <2> HIDE DEF g, down, up, above, below
  <2>3. SumFunctionOnSet(down, S) = above * n /\ SumFunctionOnSet(up, S) = below * n
    BY <1>2, <2>2, SumEqual
  <2>4. IntegerOn(down, S) /\ IntegerOn(up, S)
    BY <1>2, <2>2 DEF IntegerOn
  <2>5. \A x \in S : down[x] <= g[x] /\ g[x] <= up[x]
    BY <1>3, <2>2
  <2>6. SumFunctionOnSet(down, S) <= SumFunctionOnSet(g, S)
    BY <1>2, <2>4, <2>5, SumOrder
  <2>7. SumFunctionOnSet(g, S) <= SumFunctionOnSet(up, S)
    BY <1>2, <2>4, <2>5, SumOrder
  <2>8. QED
    BY <2>1, <2>3, <2>6, <2>7
<1> HIDE DEF sum, g, down, up
<1>6. PICK d \in Nat \ {0} : d = n * c
  BY <1>1
<1>7. PICK p \in Nat : p = Percent(sum, d) /\ Nearest(p, sum, d)
  BY <1>4, PercentIsNearest
<1>8. p <= high
  <2>1. SUFFICES ASSUME high < p PROVE FALSE
    BY <1>7
  <2>2. (2 * high + 1) * d <= (2 * p - 1) * d
    <3>1. 2 * high + 1 \in Int /\ 2 * p - 1 \in Int /\ 2 * high + 1 <= 2 * p - 1
      BY <2>1
    <3>2. QED
      BY <3>1, TimesOrder
  <2>3. below * n = IF high % 2 = 1 THEN (2 * high + 1) * d - n ELSE (2 * high + 1) * d
    BY <1>1, <1>6
  <2>4. high % 2 # 1 /\ 20000 * sum = (2 * p - 1) * d /\ (2 * high + 1) * d = (2 * p - 1) * d
    <3> HIDE DEF below
    <3>1. PICK h \in Int, q \in Int, t \in Int :
            h = (2 * high + 1) * d /\ q = (2 * p - 1) * d /\ t = 20000 * sum
      BY <1>4
    <3>2. h <= q /\ q <= t /\ t <= below * n
      BY <1>5, <1>7, <2>2, <3>1 DEF Nearest
    <3>3. QED
      BY <1>1, <2>3, <3>1, <3>2
  <2>5. p = high + 1
    <3>1. \A x \in Int, y \in Int : x < y => x * d < y * d
      OBVIOUS
    <3>2. ~ (2 * high + 1 < 2 * p - 1)
      BY <2>4, <3>1
    <3>3. QED
      BY <2>1, <3>2
  <2>6. p % 2 = 1
    BY <2>4, <2>5
  <2>7. QED
    BY <1>4, <1>7, <2>4, <2>6 DEF Nearest
<1>9. low <= p
  <2>1. SUFFICES ASSUME p < low PROVE FALSE
    BY <1>7
  <2>2. (2 * p + 1) * d <= (2 * low - 1) * d
    <3>1. 2 * p + 1 \in Int /\ 2 * low - 1 \in Int /\ 2 * p + 1 <= 2 * low - 1
      BY <2>1
    <3>2. QED
      BY <3>1, TimesOrder
  <2>3. above * n = IF low % 2 = 1 THEN (2 * low - 1) * d + n ELSE (2 * low - 1) * d
    BY <1>1, <1>6
  <2>4. low % 2 # 1 /\ 20000 * sum = (2 * p + 1) * d /\ (2 * p + 1) * d = (2 * low - 1) * d
    <3> HIDE DEF above
    <3>1. PICK h \in Int, q \in Int, t \in Int :
            h = (2 * low - 1) * d /\ q = (2 * p + 1) * d /\ t = 20000 * sum
      BY <1>4
    <3>2. q <= h /\ t <= q /\ above * n <= t
      BY <1>5, <1>7, <2>2, <3>1 DEF Nearest
    <3>3. QED
      BY <1>1, <2>3, <3>1, <3>2
  <2>5. p = low - 1
    <3>1. \A x \in Int, y \in Int : x < y => x * d < y * d
      OBVIOUS
    <3>2. ~ (2 * p + 1 < 2 * low - 1)
      BY <2>4, <3>1
    <3>3. QED
      BY <2>1, <3>2
  <2>6. p % 2 = 1
    BY <2>4, <2>5
  <2>7. QED
    BY <1>4, <1>7, <2>4, <2>6 DEF Nearest
<1>10. QED
  BY <1>6, <1>7, <1>8, <1>9 DEF sum

\* A finite set of integers has a largest and a smallest element.
LEMMA Extremes ==
  ASSUME NEW S \in SUBSET Int, IsFiniteSet(S), S # {}
  PROVE  /\ Max(S) \in S /\ \A y \in S : y <= Max(S)
         /\ Min(S) \in S /\ \A y \in S : Min(S) <= y
<1> DEFINE Bounded(T) == /\ \E x \in T : \A y \in T : x >= y
                         /\ \E x \in T : \A y \in T : x <= y
           F == {T \in SUBSET S : T = {} \/ Bounded(T)}
<1>1. {} \in F
  OBVIOUS
<1>2. ASSUME NEW T \in F, NEW z \in S \ T, T \in SUBSET S PROVE T \cup {z} \in F
  <2>1. CASE T = {}
    BY <2>1
  <2>2. CASE Bounded(T)
    <3>1. \E x \in T \cup {z} : \A y \in T \cup {z} : x >= y
      <4>1. PICK x \in T : \A y \in T : x >= y
        BY <2>2
      <4>2. CASE x >= z
        BY <4>1, <4>2
      <4>3. CASE z >= x
        BY <4>1, <4>3
      <4>4. QED
        BY <4>2, <4>3
    <3>2. \E x \in T \cup {z} : \A y \in T \cup {z} : x <= y
      <4>1. PICK x \in T : \A y \in T : x <= y
        BY <2>2
      <4>2. CASE x <= z
        BY <4>1, <4>2
      <4>3. CASE z <= x
        BY <4>1, <4>3
      <4>4. QED
        BY <4>2, <4>3
    <3>3. QED
      BY <3>1, <3>2
  <2>3. QED
    BY <2>1, <2>2
<1>3. S \in F
  <2> HIDE DEF F
  <2>1. QED
    BY <1>1, <1>2, ByAdding
<1>4. QED
  BY <1>3 DEF Max, Min

-----------------------------------------------------------------------------
(* Attendance.                                                              *)

IsRate(x) == x \in Percentages \cup {None}

LEMMA PercentIsKnown ==
  ASSUME NEW a \in Nat, NEW c \in Nat
  PROVE  /\ Percent(a, c) = None <=> c = 0
         /\ a <= c => IsRate(Percent(a, c))
<1>1. CASE c = 0
  <2>1. Percent(a, c) = None
    BY <1>1 DEF Percent
  <2>2. IsRate(None)
    BY DEF IsRate
  <2>3. QED
    BY <1>1, <2>1, <2>2
<1>2. CASE c # 0
  <2>1. Percent(a, c) \in Nat
    BY <1>2, PercentIsNearest
  <2>2. Percent(a, c) # None
    BY <2>1, NoneAssumption
  <2>3. ASSUME a <= c PROVE IsRate(Percent(a, c))
    <3>1. c \in Nat \ {0}
      BY <1>2
    <3>2. Percent(a, c) \in Percentages
      BY <2>3, <3>1, PercentOfPart
    <3>3. QED
      BY <3>2 DEF IsRate
  <2>4. QED
    BY <1>2, <2>2, <2>3
<1>3. QED
  BY <1>1, <1>2

\* A part of the lectures, of the students, of their marks.
LEMMA SessionsAreFinite ==
  ASSUME NEW s, NEW lectures \in SUBSET Lectures, NEW statuses
  PROVE  /\ IsFiniteSet({l \in lectures : mark[l][s] \in statuses})
         /\ Sessions(s, lectures, statuses) \in Nat
<1>1. IsFiniteSet({l \in lectures : mark[l][s] \in statuses})
  <2>1. {l \in lectures : mark[l][s] \in statuses} \in SUBSET Lectures
    OBVIOUS
  <2>2. QED
    BY <2>1, FiniteAssumption, FS_Subset
<1>2. QED
  BY <1>1, FS_CardinalityType DEF Sessions

\* The marks that count as attended or excused are some of all the marks.
LEMMA AttendedAtMost ==
  ASSUME NEW s, NEW lectures \in SUBSET Lectures
  PROVE  /\ Sessions(s, lectures, Statuses) - Sessions(s, lectures, {"EXCUSED"}) \in Nat
         /\ Sessions(s, lectures, {"PRESENT", "LATE"}) \in Nat
         /\ Sessions(s, lectures, {"PRESENT", "LATE"})
              <= Sessions(s, lectures, Statuses) - Sessions(s, lectures, {"EXCUSED"})
<1> DEFINE A == {l \in lectures : mark[l][s] \in {"PRESENT", "LATE"}}
           X == {l \in lectures : mark[l][s] \in {"EXCUSED"}}
           U == {l \in lectures : mark[l][s] \in Statuses}
<1>1. IsFiniteSet(A) /\ IsFiniteSet(X) /\ IsFiniteSet(U)
  <2>1. A \in SUBSET Lectures /\ X \in SUBSET Lectures /\ U \in SUBSET Lectures
    OBVIOUS
  <2> HIDE DEF A, X, U
  <2>2. QED
    BY <2>1, FiniteAssumption, FS_Subset
<1>2. A \cap X = {} /\ A \cup X \in SUBSET U
  BY DEF Statuses
<1>3. /\ Sessions(s, lectures, {"PRESENT", "LATE"}) = Cardinality(A)
      /\ Sessions(s, lectures, {"EXCUSED"}) = Cardinality(X)
      /\ Sessions(s, lectures, Statuses) = Cardinality(U)
  BY DEF Sessions
<1> HIDE DEF A, X, U
<1>4. Cardinality(A) \in Nat /\ Cardinality(X) \in Nat /\ Cardinality(U) \in Nat
  BY <1>1, FS_CardinalityType
<1>5. Cardinality(A \cup X) = Cardinality(A) + Cardinality(X)
  <2>1. Cardinality(A \cup X) = Cardinality(A) + Cardinality(X) - Cardinality(A \cap X)
    BY <1>1, FS_Union
  <2>2. Cardinality(A \cap X) = 0
    BY <1>2, FS_EmptySet
  <2>3. QED
    BY <1>4, <2>1, <2>2
<1>6. Cardinality(A \cup X) <= Cardinality(U)
  BY <1>1, <1>2, FS_Subset
<1>7. QED
  BY <1>3, <1>4, <1>5, <1>6

\* The rows of the table of marks, by student, and by a key of their lectures.
Marked(statuses) == {k \in Lectures \X Students : mark[k[1]][k[2]] \in statuses}

LEMMA MarksByStudent ==
  ASSUME NEW statuses, NEW f, \A s \in Students : f[s] = Sessions(s, Lectures, statuses)
  PROVE  SumFunctionOnSet(f, Students) = Rows(Lectures, statuses)
<1> DEFINE R == Marked(statuses)
<1>1. R \in SUBSET (Lectures \X Students)
  BY DEF Marked
<1>2. \A s \in Students : f[s] = Cardinality(Column(R, Lectures, s))
  <2> SUFFICES ASSUME NEW s \in Students PROVE f[s] = Cardinality(Column(R, Lectures, s))
    OBVIOUS
  <2>1. Column(R, Lectures, s) = {l \in Lectures : mark[l][s] \in statuses}
    BY DEF Marked, Column
  <2>2. QED
    BY <2>1 DEF Sessions
<1> HIDE DEF R
<1>3. SumFunctionOnSet(f, Students) = Cardinality(R)
  BY <1>1, <1>2, FiniteAssumption, CountByColumn
<1>4. QED
  BY <1>3 DEF R, Marked, Rows

Group(key, k) == {l \in Lectures : key[l] = k}

LEMMA MarksByKey ==
  ASSUME NEW statuses, NEW K, IsFiniteSet(K), NEW key, \A l \in Lectures : key[l] \in K, NEW f,
         \A k \in K : f[k] = Rows(Group(key, k), statuses)
  PROVE  SumFunctionOnSet(f, K) = Rows(Lectures, statuses)
<1> DEFINE R == Marked(statuses)
           by == [r \in R |-> key[r[1]]]
<1>1. IsFiniteSet(R)
  <2>1. R \in SUBSET (Lectures \X Students)
    BY DEF Marked
  <2>2. IsFiniteSet(Lectures \X Students)
    BY FiniteAssumption, FS_Product
  <2> HIDE DEF R
  <2>3. QED
    BY <2>1, <2>2, FS_Subset
<1>2. \A r \in R : by[r] \in K
  BY DEF Marked
<1>3. \A k \in K : f[k] = Cardinality(Fibre(by, R, k))
  <2> SUFFICES ASSUME NEW k \in K PROVE f[k] = Cardinality(Fibre(by, R, k))
    OBVIOUS
  <2>1. Fibre(by, R, k) = {r \in Group(key, k) \X Students : mark[r[1]][r[2]] \in statuses}
    BY DEF Marked, Fibre, Group
  <2>2. QED
    BY <2>1 DEF Rows
<1> HIDE DEF R, by
<1>4. SumFunctionOnSet(f, K) = Cardinality(R)
  BY <1>1, <1>2, <1>3, CountBy
<1>5. QED
  BY <1>4 DEF R, Marked, Rows

Days == [l \in Lectures |-> l]

LEMMA MarksByDay ==
  ASSUME NEW statuses, NEW f, \A l \in Lectures : f[l] = Rows({l}, statuses)
  PROVE  SumFunctionOnSet(f, Lectures) = Rows(Lectures, statuses)
<1>1. \A l \in Lectures : Days[l] \in Lectures
  BY DEF Days
<1>2. \A k \in Lectures : Group(Days, k) = {k}
  BY DEF Days, Group
<1>3. \A k \in Lectures : f[k] = Rows(Group(Days, k), statuses)
  BY <1>2
<1>4. QED
  BY <1>1, <1>3, FiniteAssumption, MarksByKey

Months == {Month[l] : l \in Lectures}

LEMMA MarksByMonth ==
  ASSUME NEW statuses, NEW f,
         \A m \in Months : f[m] = Rows(Group(Month, m), statuses)
  PROVE  SumFunctionOnSet(f, Months) = Rows(Lectures, statuses)
<1>1. IsFiniteSet(Months)
  <2>1. Month \in Surjection(Lectures, Months)
    BY MarksAssumption DEF Months, Surjection
  <2>2. QED
    BY <2>1, FiniteAssumption, FS_Surjection
<1>2. \A l \in Lectures : Month[l] \in Months
  BY DEF Months
<1>3. QED
  BY <1>1, <1>2, MarksByKey

LEMMA DeletedDoNotCount ==
  ASSUME GoneAreEmpty, uncounted = {}, NEW statuses \in SUBSET Statuses
  PROVE  /\ \A s \in Students : Sessions(s, Lectures \ gone, statuses) = Sessions(s, Lectures, statuses)
         /\ Rows(Lectures \ gone, statuses) = Rows(Lectures, statuses)
<1>1. \A l \in gone, s \in Students : mark[l][s] \notin statuses
  BY NoneAssumption DEF GoneAreEmpty
<1>2. ASSUME NEW s \in Students
      PROVE  {l \in Lectures \ gone : mark[l][s] \in statuses} = {l \in Lectures : mark[l][s] \in statuses}
  BY <1>1
<1>3. {k \in (Lectures \ gone) \X Students : mark[k[1]][k[2]] \in statuses}
        = {k \in Lectures \X Students : mark[k[1]][k[2]] \in statuses}
  BY <1>1
<1>4. QED
  BY <1>2, <1>3 DEF Sessions, Rows

LEMMA AttendanceIsTheSame ==
  ASSUME GoneAreEmpty, uncounted = {}, NEW s \in Students
  PROVE  AttendanceOf(s) = Summary(s).percentage
<1>1. /\ Statuses \in SUBSET Statuses /\ {"EXCUSED"} \in SUBSET Statuses
      /\ {"PRESENT", "LATE"} \in SUBSET Statuses
  BY DEF Statuses
<1>2. /\ Sessions(s, Lectures \ gone, Statuses) = Sessions(s, Lectures, Statuses)
      /\ Sessions(s, Lectures \ gone, {"EXCUSED"}) = Sessions(s, Lectures, {"EXCUSED"})
      /\ Sessions(s, Lectures \ gone, {"PRESENT", "LATE"}) = Sessions(s, Lectures, {"PRESENT", "LATE"})
  BY <1>1, DeletedDoNotCount
<1>3. QED
  BY <1>2 DEF AttendanceOf, Summary

\* Who is below the threshold has a row in the report.
LEMMA LowAreReported ==
  ASSUME NEW s \in Students, Summary(s).percentage # None
  PROVE  Sessions(s, Lectures, Statuses) > 0
<1> DEFINE total == Sessions(s, Lectures, Statuses)
           excused == Sessions(s, Lectures, {"EXCUSED"})
           attended == Sessions(s, Lectures, {"PRESENT", "LATE"})
<1>1. Summary(s).percentage = Percent(attended, total - excused)
  BY DEF Summary
<1>2. total \in Nat /\ excused \in Nat /\ attended \in Nat /\ total - excused \in Nat
  BY SessionsAreFinite, AttendedAtMost
<1> HIDE DEF total, excused, attended
<1>3. total - excused # 0
  BY <1>1, <1>2, PercentIsKnown
<1>4. total > 0
  BY <1>2, <1>3
<1>5. QED
  BY <1>4 DEF total

LEMMA ThresholdTells ==
  ASSUME NEW s
  PROVE  Summary(s).below_threshold <=> Summary(s).percentage # None /\ Summary(s).percentage < 7500
<1>1. PICK p, limit :
        /\ p = Percent(Sessions(s, Lectures, {"PRESENT", "LATE"}),
                       Sessions(s, Lectures, Statuses) - Sessions(s, Lectures, {"EXCUSED"}))
        /\ limit = 7500
  OBVIOUS
<1>2. Summary(s).percentage = p
  BY <1>1 DEF Summary
<1>3. Summary(s).below_threshold = (p # None /\ p < limit)
  BY <1>1 DEF Summary
<1>4. Summary(s).below_threshold <=> (p # None /\ p < limit)
  BY <1>3
<1>5. QED
  BY <1>1, <1>2, <1>4

LEMMA AttendanceAgrees ==
  ASSUME GoneAreEmpty
  PROVE  AttendanceReportsAgree
<1> DEFINE summary == [s \in Students |-> Summary(s)]
           day == [l \in Lectures |-> DayCard(l)]
           month == [m \in {Month[l] : l \in Lectures} |-> Trend(m)]
           ofStudents == [s \in Students |-> summary[s].sessions]
           ofMonths == [m \in DOMAIN month |-> month[m].sessions]
           ofDays == [l \in Lectures |-> day[l].todays_marks_recorded]
           attendedMonths == [m \in DOMAIN month |-> month[m].attended]
           attendedStudents == [s \in Students |-> summary[s].attended]
           attended == {"PRESENT", "LATE"}
<1>1. SumFunction(ofStudents) = Rows(Lectures, Statuses)
  <2>1. \A s \in Students : ofStudents[s] = Sessions(s, Lectures, Statuses)
    BY DEF Summary
  <2>2. DOMAIN ofStudents = Students
    OBVIOUS
  <2> HIDE DEF ofStudents
  <2>3. QED
    BY <2>1, <2>2, MarksByStudent DEF SumFunction
<1>2. SumFunction(attendedStudents) = Rows(Lectures, attended)
  <2>1. \A s \in Students : attendedStudents[s] = Sessions(s, Lectures, attended)
    BY DEF Summary
  <2>2. DOMAIN attendedStudents = Students
    OBVIOUS
  <2> HIDE DEF attendedStudents, attended
  <2>3. QED
    BY <2>1, <2>2, MarksByStudent DEF SumFunction
<1>3. SumFunction(ofMonths) = Rows(Lectures, Statuses)
  <2>1. \A m \in Months : ofMonths[m] = Rows(Group(Month, m), Statuses)
    BY DEF Trend, Counted, Months, Group
  <2>2. DOMAIN ofMonths = Months
    BY DEF Months
  <2> HIDE DEF ofMonths
  <2>3. QED
    BY <2>1, <2>2, MarksByMonth DEF SumFunction
<1>4. SumFunction(attendedMonths) = Rows(Lectures, attended)
  <2>1. \A m \in Months : attendedMonths[m] = Rows(Group(Month, m), attended)
    BY DEF Trend, Counted, Months, Group
  <2>2. DOMAIN attendedMonths = Months
    BY DEF Months
  <2> HIDE DEF attendedMonths, attended
  <2>3. QED
    BY <2>1, <2>2, MarksByMonth DEF SumFunction
<1>5. SumFunction(ofDays) = Rows(Lectures, Statuses)
  <2>1. \A l \in Lectures : ofDays[l] = Rows({l}, Statuses)
    BY DEF DayCard, Counted
  <2>2. DOMAIN ofDays = Lectures
    OBVIOUS
  <2> HIDE DEF ofDays
  <2>3. QED
    BY <2>1, <2>2, MarksByDay DEF SumFunction
<1>6. ASSUME uncounted = {}
      PROVE  /\ \A s \in Students : AttendanceOf(s) = summary[s].percentage
             /\ AttendanceBlock.total = SumFunction(ofStudents)
             /\ AttendanceBlock.low = Cardinality(LowAttendance)
             /\ LowAttendance \cap enrolled \subseteq AtRisk
             /\ \A l \in Lectures : day[l].todays_sessions = 0 => day[l].todays_marks_recorded = 0
  <2>1. \A s \in Students : AttendanceOf(s) = Summary(s).percentage
    BY <1>6, AttendanceIsTheSame
  <2>2. AttendanceBlock.total = Rows(Lectures, Statuses)
    <3>1. Statuses \in SUBSET Statuses
      OBVIOUS
    <3>2. Rows(Lectures \ gone, Statuses) = Rows(Lectures, Statuses)
      BY <1>6, <3>1, DeletedDoNotCount
    <3>3. QED
      BY <3>2 DEF AttendanceBlock
  <2>3. \A s \in Students :
          s \in LowAttendance <=> AttendanceOf(s) # None /\ AttendanceOf(s) < 7500
    <3> SUFFICES ASSUME NEW s \in Students
                 PROVE  s \in LowAttendance <=> AttendanceOf(s) # None /\ AttendanceOf(s) < 7500
      OBVIOUS
    <3>1. Summary(s).below_threshold
            <=> Summary(s).percentage # None /\ Summary(s).percentage < 7500
      BY ThresholdTells
    <3>2. s \in LowAttendance <=> s \in Reported /\ Summary(s).below_threshold
      BY DEF LowAttendance
    <3>3. s \in Reported <=> Sessions(s, Lectures, Statuses) > 0
      BY DEF Reported
    <3>4. QED
      BY <2>1, <3>1, <3>2, <3>3, LowAreReported
  <2>4. LowAttendance = {s \in Students : AttendanceOf(s) # None /\ AttendanceOf(s) < 7500}
    <3>1. LowAttendance \subseteq Students
      BY DEF LowAttendance, Reported
    <3>2. QED
      BY <2>3, <3>1
  <2>5. AttendanceBlock.low = Cardinality(LowAttendance)
    BY <2>4 DEF AttendanceBlock, LowAttendanceCount
  <2>6. LowAttendance \cap enrolled \subseteq AtRisk
    <3> SUFFICES ASSUME NEW s \in LowAttendance, s \in enrolled PROVE s \in AtRisk
      OBVIOUS
    <3>1. Below(AttendanceOf(s), 7500)
      BY <2>4 DEF Below
    <3>2. Health(s) = "AT_RISK"
      BY <3>1 DEF Health
    <3>3. Scorecard(s).health = "AT_RISK"
      BY <3>2 DEF Scorecard
    <3>4. QED
      BY <3>3 DEF AtRisk
  <2>7. ASSUME NEW l \in Lectures, day[l].todays_sessions = 0
        PROVE  day[l].todays_marks_recorded = 0
    <3>1. Cardinality({l} \ gone) = 0
      BY <2>7 DEF DayCard
    <3>2. IsFiniteSet({l} \ gone)
      BY FS_Singleton, FS_Difference
    <3>3. {l} \ gone = {}
      BY <3>1, <3>2, FS_EmptySet
    <3>4. l \in gone
      BY <3>3
    <3>5. \A s \in Students : mark[l][s] \notin Statuses
      BY <1>6, <3>4, NoneAssumption DEF GoneAreEmpty
    <3>6. {k \in {l} \X Students : mark[k[1]][k[2]] \in Statuses} = {}
      BY <3>5
    <3>7. Rows({l}, Statuses) = 0
      BY <3>6, FS_EmptySet DEF Rows
    <3>8. QED
      BY <3>7 DEF DayCard, Counted
  <2>8. \A s \in Students : summary[s].percentage = Summary(s).percentage
    OBVIOUS
  <2> HIDE DEF summary, day, ofStudents
  <2>9. QED
    BY <1>1, <2>1, <2>2, <2>5, <2>6, <2>7, <2>8
<1>7. QED
  BY <1>1, <1>2, <1>3, <1>4, <1>5, <1>6 DEF AttendanceReportsAgree

-----------------------------------------------------------------------------
(* Exams.                                                                   *)

LEMMA ResultTypes ==
  ASSUME TypeOK, NEW e \in Exams, NEW s \in Students, result[e][s] # None
  PROVE  /\ result[e][s].marks \in Nat /\ result[e][s].grade \in Letters \cup {"other", None}
         /\ exam[e].total \in Nat /\ exam[e].total \in Totals /\ exam[e].passing \in Nat
<1>1. result[e][s] \in ResultRow
  BY DEF TypeOK
<1>2. exam[e] \in ExamRow
  BY DEF TypeOK
<1>3. QED
  BY <1>1, <1>2, MarksAssumption DEF ResultRow, ExamRow

LEMMA PublishedArePairs ==
  /\ Published \in SUBSET (Exams \X Students) /\ Passed \in SUBSET (Exams \X Students)
  /\ IsFiniteSet(Published) /\ IsFiniteSet(Passed)
<1>1. Published \in SUBSET (Exams \X Students) /\ Passed \in SUBSET (Exams \X Students)
  BY DEF Published, Passed
<1>2. IsFiniteSet(Exams \X Students)
  BY FiniteAssumption, FS_Product
<1>3. QED
  BY <1>1, <1>2, FS_Subset

LEMMA PublishedByExam == \A e \in Exams : Row(Published, Students, e) = Sat(e)
BY DEF Row, Published, Sat

LEMMA PassedByExam ==
  \A e \in Exams :
    Row(Passed, Students, e) = {s \in Sat(e) : result[e][s].marks >= exam[e].passing}
BY DEF Row, Passed, Published, Sat

\* When all the results are of one exam, so are those that pass.
LEMMA OneExamIsAll ==
  ASSUME NEW e \in Exams, Cardinality(Sat(e)) = Cardinality(Published)
  PROVE  Cardinality({s \in Sat(e) : result[e][s].marks >= exam[e].passing}) = Cardinality(Passed)
<1>1. \A r \in Published : r = <<r[1], r[2]>> /\ r[2] \in Students
  BY DEF Published
<1>2. \A r \in Passed : r = <<r[1], r[2]>> /\ r[2] \in Students
  BY DEF Passed, Published
<1>3. Cardinality(OfRow(Published, e)) = Cardinality(Published)
  BY <1>1, FiniteAssumption, RowSize, PublishedByExam
<1>4. OfRow(Published, e) \in SUBSET Published
  BY DEF OfRow
<1>5. OfRow(Published, e) = Published
  BY <1>3, <1>4, PublishedArePairs, FS_Subset
<1>6. OfRow(Passed, e) = Passed
  BY <1>5 DEF OfRow, Passed
<1>7. Cardinality(OfRow(Passed, e)) = Cardinality(Row(Passed, Students, e))
  BY <1>2, FiniteAssumption, RowSize
<1>8. QED
  BY <1>6, <1>7, PassedByExam

LEMMA ShownIsKnown ==
  ASSUME TypeOK, NEW e \in Exams, NEW s \in Students, result[e][s] # None
  PROVE  Shown(e, s) \in Letters \cup {"other"}
BY ResultTypes, GradeIsLetter DEF Shown

LEMMA LettersAreFinite == IsFiniteSet(Letters \cup {"other"})
<1>1. \A S, x : IsFiniteSet(S) => IsFiniteSet(S \cup {x})
  BY FS_AddElement
<1>2. IsFiniteSet({"A+"} \cup {"A"} \cup {"B"} \cup {"C"} \cup {"D"} \cup {"F"} \cup {"other"})
  BY <1>1, FS_Singleton
<1>3. QED
  BY <1>2 DEF Letters

\* What a result counts in an average, and that a score is its nearest percentage.
Point(e, s) == IF exam[e].total = 0 THEN 0 ELSE result[e][s].marks * (Scale \div exam[e].total)

LEMMA ScoreIsNearest ==
  ASSUME TypeOK, NEW e \in Exams, NEW s \in Students, result[e][s] # None
  PROVE  Score(e, s) \in Nat /\ Point(e, s) \in Nat /\ Nearest(Score(e, s), Point(e, s), Scale)
<1>1. result[e][s].marks \in Nat /\ exam[e].total \in Nat /\ exam[e].total \in Totals
  BY ResultTypes
<1>2. PICK m \in Nat, t \in Nat : m = result[e][s].marks /\ t = exam[e].total /\ t \in Totals
  BY <1>1
<1>3. PICK c \in Nat \ {0} : c = Scale /\ (t > 0 => c % t = 0)
  BY <1>2, ScaleAssumption
<1>4. CASE t = 0
  <2>1. Score(e, s) = 0 /\ Point(e, s) = 0
    BY <1>2, <1>4 DEF Score, Point
  <2>2. Nearest(0, 0, c)
    BY DEF Nearest
  <2>3. QED
    BY <1>3, <2>1, <2>2
<1>5. CASE t # 0
  <2>1. t \in Nat \ {0} /\ t > 0
    BY <1>5
  <2>2. PICK k \in Nat : k = c \div t /\ c = k * t + (c % t)
    BY <2>1, Division
  <2>3. c = k * t
    BY <1>3, <2>1, <2>2
  <2>4. k \in Nat \ {0}
    BY <1>3, <2>3
  <2>5. PICK p \in Nat : p = Percent(m, t) /\ Nearest(p, m, t)
    BY <2>1, PercentIsNearest
  <2>6. Nearest(p, m * k, t * k)
    <3>1. p \in Int /\ Nearest(p, m, t)
      BY <2>5
    <3>2. QED
      BY <2>4, <3>1, NearestScales
  <2>7. t * k = c /\ m * k \in Nat
    BY <2>3
  <2>8. Score(e, s) = p /\ Point(e, s) = m * k
    BY <1>2, <1>3, <1>5, <2>2, <2>5 DEF Score, Point
  <2>9. QED
    BY <1>3, <2>6, <2>7, <2>8
<1>6. QED
  BY <1>4, <1>5

\* The average of a student is between the lowest and the top score of the batch.
LEMMA AverageIsBetween ==
  ASSUME TypeOK, NEW s \in Students, NEW taken, taken = {e \in Exams : result[e][s] # None}, taken # {}
  PROVE  ExamAverage(s) \in ExamsBlock.lowest..ExamsBlock.top
<1> DEFINE scores == {Score(r[1], r[2]) : r \in Published}
           points == [e \in taken |-> Point(e, s)]
<1>1. IsFiniteSet(taken)
  BY FiniteAssumption, FS_Subset
<1>2. \A r \in Published : Score(r[1], r[2]) \in Nat
  BY ScoreIsNearest DEF Published
<1>3. scores \in SUBSET Int
  BY <1>2
<1>4. IsFiniteSet(scores)
  <2> DEFINE score == [r \in Published |-> Score(r[1], r[2])]
  <2>1. score \in Surjection(Published, scores)
    BY DEF Surjection
  <2> HIDE DEF score, scores
  <2>2. QED
    BY <2>1, PublishedArePairs, FS_Surjection
<1>5. \A e \in taken : Score(e, s) \in scores
  <2> SUFFICES ASSUME NEW e \in taken PROVE Score(e, s) \in scores
    OBVIOUS
  <2>1. <<e, s>> \in Published
    BY DEF Published
  <2>2. QED
    BY <2>1
<1>6. scores # {}
  BY <1>5
<1>7. ExamsBlock.top = Max(scores) /\ ExamsBlock.lowest = Min(scores)
  BY <1>6 DEF ExamsBlock
<1>8. ExamAverage(s) = Percent(SumFunctionOnSet(points, taken), Cardinality(taken) * Scale)
  <2>1. SumFunction(points) = SumFunctionOnSet(points, taken)
    BY DEF SumFunction
  <2>2. ExamAverage(s) = Percent(SumFunction(points), Cardinality(taken) * Scale)
    BY DEF ExamAverage, Point
  <2>3. QED
    BY <2>1, <2>2
<1>9. \A e \in taken : points[e] \in Nat /\ Score(e, s) \in Nat /\ Nearest(Score(e, s), points[e], Scale)
  BY ScoreIsNearest
<1> HIDE DEF scores, points
<1>10. PICK low \in Int, high \in Int :
         low = Min(scores) /\ high = Max(scores) /\ \A y \in scores : low <= y /\ y <= high
  BY <1>3, <1>4, <1>6, Extremes
<1>11. \A e \in taken : \E p \in low..high : Nearest(p, points[e], Scale)
  BY <1>5, <1>9, <1>10
<1>12. Percent(SumFunctionOnSet(points, taken), Cardinality(taken) * Scale) \in low..high
  BY <1>1, <1>9, <1>11, ScaleAssumption, MeanIsBetween
<1>13. QED
  BY <1>7, <1>8, <1>10, <1>12

LEMMA ExamsAgree ==
  ASSUME TypeOK
  PROVE  ExamReportsAgree
<1> DEFINE block == ExamsBlock
           card == [e \in Exams |-> ExamCard(e)]
           row == [s \in Students |-> Scorecard(s)]
           reported == ReportedGrades
           distribution == GradeDistribution
           counts == [e \in Exams |-> card[e].count]
           takens == [s \in Students |-> row[s].taken]
           passes == [e \in Exams |-> card[e].passed]
<1>1. block.published = Cardinality(Published)
  BY DEF ExamsBlock
<1>2. SumFunction(counts) = Cardinality(Published)
  <2>1. \A e \in Exams : counts[e] = Cardinality(Row(Published, Students, e))
    BY PublishedByExam DEF ExamCard
  <2>2. DOMAIN counts = Exams
    OBVIOUS
  <2> HIDE DEF counts
  <2>3. QED
    BY <2>1, <2>2, PublishedArePairs, FiniteAssumption, CountByRow DEF SumFunction
<1>3. SumFunction(takens) = Cardinality(Published)
  <2>1. \A s \in Students : takens[s] = Cardinality(Column(Published, Exams, s))
    <3>1. \A s \in Students : Column(Published, Exams, s) = {e \in Exams : result[e][s] # None}
      BY DEF Column, Published
    <3>2. QED
      BY <3>1 DEF Scorecard
  <2>2. DOMAIN takens = Students
    OBVIOUS
  <2> HIDE DEF takens
  <2>3. QED
    BY <2>1, <2>2, PublishedArePairs, FiniteAssumption, CountByColumn DEF SumFunction
<1>4. SumFunction(passes) = Cardinality(Passed)
  <2>1. \A e \in Exams : passes[e] = Cardinality(Row(Passed, Students, e))
    BY PassedByExam DEF ExamCard
  <2>2. DOMAIN passes = Exams
    OBVIOUS
  <2> HIDE DEF passes
  <2>3. QED
    BY <2>1, <2>2, PublishedArePairs, FiniteAssumption, CountByRow DEF SumFunction
<1>5. ASSUME NEW e \in Exams
      PROVE  /\ card[e].passed = Performance(e).passed
             /\ card[e].count = block.published => card[e].pass_rate = block.pass_rate
  <2>1. card[e].passed = Performance(e).passed
    BY DEF ExamCard, Performance
  <2>2. ASSUME Cardinality(Sat(e)) = Cardinality(Published)
        PROVE  card[e].pass_rate = block.pass_rate
    BY <2>2, OneExamIsAll DEF ExamCard, ExamsBlock
  <2>3. card[e].count = Cardinality(Sat(e))
    BY DEF ExamCard
  <2>4. QED
    BY <1>1, <2>1, <2>2, <2>3
<1>6. ASSUME NEW g \in Letters PROVE reported[g] = distribution[g]
  <2> DEFINE R == {r \in Published : Shown(r[1], r[2]) = g}
             graded == [e \in Exams |-> Cardinality({s \in Sat(e) : Shown(e, s) = g})]
  <2>1. R \in SUBSET (Exams \X Students)
    BY PublishedArePairs
  <2>2. \A e \in Exams : graded[e] = Cardinality(Row(R, Students, e))
    <3> SUFFICES ASSUME NEW e \in Exams PROVE graded[e] = Cardinality(Row(R, Students, e))
      OBVIOUS
    <3>1. Row(R, Students, e) = {s \in Sat(e) : Shown(e, s) = g}
      BY DEF Row, Published, Sat
    <3>2. QED
      BY <3>1
  <2>3. reported[g] = SumFunction(graded) /\ distribution[g] = Cardinality(R)
    BY DEF ReportedGrades, GradeDistribution
  <2>4. DOMAIN graded = Exams
    OBVIOUS
  <2> HIDE DEF R, graded
  <2>5. SumFunction(graded) = Cardinality(R)
    BY <2>1, <2>2, <2>4, FiniteAssumption, CountByRow DEF SumFunction
  <2>6. QED
    BY <2>3, <2>5
<1>7. SumFunction(distribution) = Cardinality(Published)
  <2> DEFINE K == Letters \cup {"other"}
             key == [r \in Published |-> Shown(r[1], r[2])]
  <2>1. \A r \in Published : key[r] \in K
    BY ShownIsKnown DEF Published
  <2>2. \A k \in K : distribution[k] = Cardinality(Fibre(key, Published, k))
    <3> SUFFICES ASSUME NEW k \in K PROVE distribution[k] = Cardinality(Fibre(key, Published, k))
      OBVIOUS
    <3>1. Fibre(key, Published, k) = {r \in Published : Shown(r[1], r[2]) = k}
      BY DEF Fibre
    <3>2. QED
      BY <3>1 DEF GradeDistribution
  <2>3. DOMAIN distribution = K
    BY DEF GradeDistribution
  <2>4. IsFiniteSet(K)
    BY LettersAreFinite
  <2> HIDE DEF K, key, distribution
  <2>5. SumFunctionOnSet(distribution, K) = Cardinality(Published)
    BY <2>1, <2>2, <2>4, PublishedArePairs, CountBy
  <2>6. QED
    BY <2>3, <2>5 DEF SumFunction
<1>8. ASSUME NEW s \in Students, row[s].taken > 0
      PROVE  row[s].exam_avg \in block.lowest..block.top
  <2> DEFINE taken == {e \in Exams : result[e][s] # None}
  <2>1. row[s].taken = Cardinality(taken) /\ row[s].exam_avg = ExamAverage(s)
    BY DEF Scorecard
  <2>2. taken # {}
    <3>1. Cardinality(taken) > 0
      BY <1>8, <2>1
    <3> HIDE DEF taken
    <3>2. QED
      BY <3>1, FS_EmptySet
  <2>3. ExamAverage(s) \in block.lowest..block.top
    BY <2>2, AverageIsBetween
  <2>4. QED
    BY <2>1, <2>3
<1>9. QED
  BY <1>1, <1>2, <1>3, <1>4, <1>5, <1>6, <1>7, <1>8 DEF ExamReportsAgree

-----------------------------------------------------------------------------
(* Assignments, and the rates.                                              *)

LEMMA LiveIsFinite == Live \in SUBSET Assignments /\ IsFiniteSet(Live) /\ Cardinality(Live) \in Nat
<1>1. Live \in SUBSET Assignments
  BY DEF Live
<1>2. QED
  BY <1>1, FiniteAssumption, FS_Subset, FS_CardinalityType

\* The work of these students.
Work(students) == {r \in Live \X students : submission[r[1]][r[2]] # None}

LEMMA WorkIsFinite ==
  ASSUME NEW students \in SUBSET Students
  PROVE  /\ Work(students) \in SUBSET (Live \X students)
         /\ IsFiniteSet(Live \X students) /\ IsFiniteSet(Work(students))
         /\ IsFiniteSet(students) /\ Cardinality(students) \in Nat
         /\ Cardinality(Live \X students) = Cardinality(Live) * Cardinality(students)
<1>1. IsFiniteSet(students) /\ Cardinality(students) \in Nat
  BY FiniteAssumption, FS_Subset, FS_CardinalityType
<1>2. /\ IsFiniteSet(Live \X students)
      /\ Cardinality(Live \X students) = Cardinality(Live) * Cardinality(students)
  BY <1>1, LiveIsFinite, FS_Product
<1>3. Work(students) \in SUBSET (Live \X students)
  BY DEF Work
<1>4. QED
  BY <1>1, <1>2, <1>3, FS_Subset

LEMMA WorkByStudent ==
  ASSUME NEW students \in SUBSET Students, NEW s \in students
  PROVE  /\ Submitted(s) = Cardinality(Column(Work(students), Live, s))
         /\ Column(Work(students), Live, s) = {a \in Live : submission[a][s] # None}
<1>1. Column(Work(students), Live, s) = {a \in Live : submission[a][s] # None}
  BY DEF Column, Work
<1>2. QED
  BY <1>1 DEF Submitted

LEMMA SubmittedAtMost ==
  ASSUME NEW s
  PROVE  /\ {a \in Live : submission[a][s] # None} \in SUBSET Live
         /\ Submitted(s) \in Nat /\ Submitted(s) <= Cardinality(Live)
<1> DEFINE S == {a \in Live : submission[a][s] # None}
<1>1. S \in SUBSET Live
  OBVIOUS
<1>2. Submitted(s) = Cardinality(S)
  BY DEF Submitted
<1> HIDE DEF S
<1>3. IsFiniteSet(S) /\ Cardinality(S) <= Cardinality(Live)
  BY <1>1, LiveIsFinite, FS_Subset
<1>4. Cardinality(S) \in Nat
  BY <1>3, FS_CardinalityType
<1>5. QED
  BY <1>1, <1>2, <1>3, <1>4 DEF S

\* Nobody outside the roll has handed in work.
OnRoll == {s \in Students : Submitted(s) > 0} \subseteq enrolled

LEMMA SubmittersAreSeen ==
  ASSUME OnRoll, NEW a \in Live, NEW s \in Students, submission[a][s] # None
  PROVE  s \in enrolled
<1> DEFINE S == {x \in Live : submission[x][s] # None}
<1>1. IsFiniteSet(S) /\ S # {}
  BY LiveIsFinite, FS_Subset
<1>2. Submitted(s) = Cardinality(S)
  BY DEF Submitted
<1> HIDE DEF S
<1>3. Cardinality(S) # 0
  BY <1>1, FS_EmptySet
<1>4. Submitted(s) > 0
  BY <1>2, <1>3, SubmittedAtMost
<1>5. QED
  BY <1>4 DEF OnRoll

LEMMA AllIsOfTheRoll ==
  ASSUME TypeOK, OnRoll
  PROVE  /\ SubmissionsReceived = Cardinality(Work(enrolled))
         /\ ExpectedSubmissions = Cardinality(Live \X enrolled)
<1>1. enrolled \in SUBSET Students
  BY DEF TypeOK
<1>2. {r \in Live \X Students : submission[r[1]][r[2]] # None} = Work(enrolled)
  BY <1>1, SubmittersAreSeen DEF Work
<1>3. QED
  BY <1>1, <1>2, WorkIsFinite DEF SubmissionsReceived, ExpectedSubmissions

\* A batch is complete when each of its students is.
LEMMA CompleteTogether ==
  ASSUME TypeOK
  PROVE  Cardinality(Work(enrolled)) = Cardinality(Live \X enrolled)
           <=> \A s \in enrolled : Submitted(s) = Cardinality(Live)
<1>1. enrolled \in SUBSET Students
  BY DEF TypeOK
<1>2. Cardinality(Work(enrolled)) = Cardinality(Live \X enrolled) <=> Work(enrolled) = Live \X enrolled
  BY <1>1, WorkIsFinite, FS_Subset
<1>3. ASSUME NEW s \in enrolled
      PROVE  Submitted(s) = Cardinality(Live) <=> \A a \in Live : submission[a][s] # None
  <2> DEFINE S == {a \in Live : submission[a][s] # None}
  <2>1. Submitted(s) = Cardinality(S) /\ S \in SUBSET Live
    BY DEF Submitted
  <2>2. S = Live <=> \A a \in Live : submission[a][s] # None
    OBVIOUS
  <2> HIDE DEF S
  <2>3. Cardinality(S) = Cardinality(Live) <=> S = Live
    BY <2>1, LiveIsFinite, FS_Subset
  <2>4. QED
    BY <2>1, <2>2, <2>3
<1>4. Work(enrolled) = Live \X enrolled
        <=> \A s \in enrolled : \A a \in Live : submission[a][s] # None
  <2>1. ASSUME Work(enrolled) = Live \X enrolled, NEW s \in enrolled, NEW a \in Live
        PROVE  submission[a][s] # None
    <3>1. <<a, s>> \in Work(enrolled)
      BY <2>1
    <3>2. QED
      BY <3>1 DEF Work
  <2>2. ASSUME \A s \in enrolled : \A a \in Live : submission[a][s] # None
        PROVE  Work(enrolled) = Live \X enrolled
    BY <2>2 DEF Work
  <2>3. QED
    BY <2>1, <2>2
<1>5. QED
  BY <1>2, <1>3, <1>4

LEMMA RateOfBatch ==
  ASSUME TypeOK, OnRoll, ExpectedSubmissions # 0
  PROVE  /\ SubmissionsReceived \in Nat /\ ExpectedSubmissions \in Nat \ {0}
         /\ SubmissionsReceived <= ExpectedSubmissions
         /\ ExpectedSubmissions < 2 * Whole =>
              (Percent(SubmissionsReceived, ExpectedSubmissions) = Whole
                 <=> SubmissionsReceived = ExpectedSubmissions)
<1>1. enrolled \in SUBSET Students
  BY DEF TypeOK
<1>2. PICK r, e : r = SubmissionsReceived /\ e = ExpectedSubmissions
  OBVIOUS
<1>3. r = Cardinality(Work(enrolled)) /\ e = Cardinality(Live \X enrolled)
  BY <1>2, AllIsOfTheRoll
<1>4. r \in Nat /\ e \in Nat /\ r <= e
  BY <1>1, <1>3, WorkIsFinite, FS_Subset, FS_CardinalityType
<1>5. e \in Nat \ {0}
  BY <1>2, <1>4
<1>6. e < 2 * Whole => (Percent(r, e) = Whole <=> r = e)
  BY <1>4, <1>5, PercentOfPart
<1>7. QED
  BY <1>2, <1>4, <1>5, <1>6

LEMMA RateOfStudent ==
  ASSUME NEW s, 0 < Cardinality(Live), Cardinality(Live) < 2 * Whole
  PROVE  Completion(s) = Whole <=> Submitted(s) = Cardinality(Live)
<1>1. Cardinality(Live) \in Nat \ {0}
  BY LiveIsFinite
<1>2. Submitted(s) \in Nat /\ Submitted(s) <= Cardinality(Live)
  BY SubmittedAtMost
<1>3. QED
  BY <1>1, <1>2, PercentOfPart DEF Completion

\* The batch's rate is whole when the students' are.
LEMMA RatesAgree ==
  ASSUME TypeOK, OnRoll, ExpectedSubmissions # 0, ExpectedSubmissions < 2 * Whole
  PROVE  AssignmentsBlock.rate = Whole <=> \A s \in enrolled : Scorecard(s).completion = Whole
<1>1. PICK top \in Nat : top = 2 * Whole /\ ExpectedSubmissions < top
  BY DEF Whole
<1>2. AssignmentsBlock.rate = Percent(SubmissionsReceived, ExpectedSubmissions)
  BY DEF AssignmentsBlock
<1>3. AssignmentsBlock.rate = Whole <=> SubmissionsReceived = ExpectedSubmissions
  BY <1>2, RateOfBatch
<1>4. SubmissionsReceived = ExpectedSubmissions
        <=> \A s \in enrolled : Submitted(s) = Cardinality(Live)
  BY AllIsOfTheRoll, CompleteTogether
<1>5. 0 < Cardinality(Live) /\ Cardinality(Live) < top
  <2>1. enrolled \in SUBSET Students
    BY DEF TypeOK
  <2>2. PICK n \in Nat, m \in Nat : n = Cardinality(Live) /\ m = Cardinality(enrolled)
    <3>1. IsFiniteSet(enrolled) /\ Cardinality(enrolled) \in Nat
      BY <2>1, WorkIsFinite
    <3>2. Cardinality(Live) \in Nat
      BY LiveIsFinite
    <3>3. QED
      BY <3>1, <3>2
  <2>3. ExpectedSubmissions = n * m
    BY <2>2 DEF ExpectedSubmissions
  <2>4. n # 0 /\ m # 0
    BY <1>1, <2>2, <2>3
  <2>5. n <= n * m
    BY <2>4
  <2>6. n * m < top /\ n * m \in Nat
    BY <1>1, <2>3
  <2>7. QED
    BY <2>2, <2>4, <2>5, <2>6
<1>6. \A s \in enrolled : Scorecard(s).completion = Whole <=> Submitted(s) = Cardinality(Live)
  BY <1>1, <1>5, RateOfStudent DEF Scorecard
<1>7. QED
  BY <1>3, <1>4, <1>6

LEMMA SmallBatch == ASSUME NEW x \in Countable PROVE x # 0 /\ x < 2 * Whole
BY DEF Countable, Whole

\* Work that waits for its marks, by assignment.
LEMMA PendingByAssignment ==
  ASSUME NEW f, \A a \in Live : f[a] = AssignmentCard(a).pending
  PROVE  SumFunctionOnSet(f, Live) = Cardinality(Pending)
<1>1. Pending \in SUBSET (Live \X Students)
  BY DEF Pending
<1>2. \A a \in Live : f[a] = Cardinality(Row(Pending, Students, a))
  <2> SUFFICES ASSUME NEW a \in Live PROVE f[a] = Cardinality(Row(Pending, Students, a))
    OBVIOUS
  <2>1. Row(Pending, Students, a)
          = {s \in Students : submission[a][s] # None /\ submission[a][s].marks = None}
    BY DEF Row, Pending
  <2>2. QED
    BY <2>1 DEF AssignmentCard
<1>3. QED
  BY <1>1, <1>2, LiveIsFinite, FiniteAssumption, CountByRow

\* The work of the roll, by assignment and by student.
LEMMA WorkIsTheSame ==
  ASSUME TypeOK, NEW f, \A a \in Live : f[a] = Cardinality(AssignmentCard(a).submitted),
         NEW g, \A s \in enrolled : g[s] = Submitted(s)
  PROVE  SumFunctionOnSet(f, Live) = SumFunctionOnSet(g, enrolled)
<1>1. enrolled \in SUBSET Students
  BY DEF TypeOK
<1>2. Work(enrolled) \in SUBSET (Live \X enrolled) /\ IsFiniteSet(enrolled)
  BY <1>1, WorkIsFinite
<1>3. \A a \in Live : f[a] = Cardinality(Row(Work(enrolled), enrolled, a))
  <2> SUFFICES ASSUME NEW a \in Live PROVE f[a] = Cardinality(Row(Work(enrolled), enrolled, a))
    OBVIOUS
  <2>1. Row(Work(enrolled), enrolled, a) = {s \in enrolled : submission[a][s] # None}
    BY DEF Row, Work
  <2>2. QED
    BY <2>1 DEF AssignmentCard
<1>4. \A s \in enrolled : g[s] = Cardinality(Column(Work(enrolled), Live, s))
  BY <1>1, WorkByStudent
<1>5. SumFunctionOnSet(f, Live) = Cardinality(Work(enrolled))
  BY <1>2, <1>3, LiveIsFinite, CountByRow
<1>6. SumFunctionOnSet(g, enrolled) = Cardinality(Work(enrolled))
  BY <1>2, <1>4, LiveIsFinite, CountByColumn
<1>7. QED
  BY <1>5, <1>6

\* The rate of an assignment: nobody hands in twice.
LEMMA RateOfAssignment ==
  ASSUME TypeOK, OnRoll, NEW a \in Live
  PROVE  AssignmentCard(a).submission_rate \in Percentages
<1> DEFINE S == {s \in Students : submission[a][s] # None}
<1>1. S \in SUBSET enrolled
  BY SubmittersAreSeen
<1>2. enrolled \in SUBSET Students
  BY DEF TypeOK
<1>3. Received(a) = Cardinality(S)
  BY DEF Received
<1> HIDE DEF S
<1>4. IsFiniteSet(enrolled) /\ Cardinality(enrolled) \in Nat
  BY <1>2, WorkIsFinite
<1>5. IsFiniteSet(S) /\ Cardinality(S) <= Cardinality(enrolled)
  BY <1>1, <1>4, FS_Subset
<1>6. PICK r \in Nat, n \in Nat : r = Received(a) /\ n = Cardinality(enrolled) /\ r <= n
  BY <1>3, <1>4, <1>5, FS_CardinalityType
<1>7. AssignmentCard(a).submission_rate = IF n = 0 THEN 0 ELSE Percent(r, n)
  BY <1>6 DEF AssignmentCard
<1>8. CASE n = 0
  BY <1>7, <1>8 DEF Percentages, Whole
<1>9. CASE n # 0
  <2>1. n \in Nat \ {0}
    BY <1>9
  <2>2. Percent(r, n) \in Percentages
    BY <1>6, <2>1, PercentOfPart
  <2>3. AssignmentCard(a).submission_rate = Percent(r, n)
    BY <1>7, <1>9
  <2>4. QED
    BY <2>2, <2>3
<1>10. QED
  BY <1>8, <1>9

LEMMA RatesAreRates ==
  ASSUME TypeOK
  PROVE  RatesArePercentages
<1> DEFINE block == AssignmentsBlock
           pendings == [a \in Live |-> AssignmentCard(a).pending]
           handedIn == [a \in Live |-> Cardinality(AssignmentCard(a).submitted)]
           done == [s \in enrolled |-> Scorecard(s).submitted]
<1>1. ASSUME NEW s \in Students PROVE IsRate(Summary(s).percentage)
  BY SessionsAreFinite, AttendedAtMost, PercentIsKnown DEF Summary
<1>2. ASSUME NEW s \in Students PROVE IsRate(Completion(s))
  BY LiveIsFinite, SubmittedAtMost, PercentIsKnown DEF Completion
<1>3. block.pending = SumFunction(pendings)
  <2>1. \A a \in Live : pendings[a] = AssignmentCard(a).pending
    OBVIOUS
  <2>2. DOMAIN pendings = Live
    OBVIOUS
  <2> HIDE DEF pendings
  <2>3. SumFunction(pendings) = Cardinality(Pending)
    BY <2>1, <2>2, PendingByAssignment DEF SumFunction
  <2>4. block.pending = Cardinality(Pending)
    BY DEF AssignmentsBlock
  <2>5. QED
    BY <2>3, <2>4
<1>4. SumFunction(handedIn) = SumFunction(done)
  <2>1. /\ \A a \in Live : handedIn[a] = Cardinality(AssignmentCard(a).submitted)
        /\ \A s \in enrolled : done[s] = Submitted(s)
    BY DEF Scorecard
  <2>2. DOMAIN handedIn = Live /\ DOMAIN done = enrolled
    OBVIOUS
  <2> HIDE DEF handedIn, done
  <2>3. QED
    BY <2>1, <2>2, WorkIsTheSame DEF SumFunction
<1>5. ASSUME OnRoll
      PROVE  /\ block.received <= block.expected
             /\ \A a \in Live : AssignmentCard(a).submission_rate \in Percentages
             /\ block.expected \in Countable =>
                  (block.rate = Whole <=> \A s \in enrolled : Scorecard(s).completion = Whole)
  <2>1. block.received = SubmissionsReceived /\ block.expected = ExpectedSubmissions
    BY DEF AssignmentsBlock
  <2>2. SubmissionsReceived <= ExpectedSubmissions
    <3>1. enrolled \in SUBSET Students
      BY DEF TypeOK
    <3>2. Cardinality(Work(enrolled)) <= Cardinality(Live \X enrolled)
      BY <3>1, WorkIsFinite, FS_Subset
    <3>3. QED
      BY <1>5, <3>2, AllIsOfTheRoll
  <2>3. ASSUME NEW a \in Live PROVE AssignmentCard(a).submission_rate \in Percentages
    BY <1>5, RateOfAssignment
  <2>4. ASSUME block.expected \in Countable
        PROVE  block.rate = Whole <=> \A s \in enrolled : Scorecard(s).completion = Whole
    <3>1. ExpectedSubmissions # 0 /\ ExpectedSubmissions < 2 * Whole
      BY <2>1, <2>4, SmallBatch
    <3>2. QED
      BY <1>5, <3>1, RatesAgree
  <2>5. QED
    BY <2>1, <2>2, <2>3, <2>4
<1>6. QED
  BY <1>1, <1>2, <1>3, <1>4, <1>5 DEF RatesArePercentages, IsRate, OnRoll

-----------------------------------------------------------------------------
\* The same figures, computed by attendance_service.py, batch_service.py, assignment_service.py,
\* exam_service.py and analytics_service.py, are the same in every state the writers of the
\* tables can reach: the attendance of the students, the days and the months, the exams' cards
\* and the batch's progress, the averages between the lowest and the top score, and the rates.
THEOREM ReportsTellTheSame == Spec => []ReportsAgree
<1>1. IInv => TypeOK
  BY DEF IInv, CourseworkIntegrity
<1>2. MarksStand => GoneAreEmpty
  BY DEF MarksStand
<1>3. TypeOK /\ GoneAreEmpty => ReportsAgree
  BY AttendanceAgrees, ExamsAgree, RatesAreRates DEF ReportsAgree
<1>4. QED
  BY <1>1, <1>2, <1>3, Invariance, DeletedLecturesAreEmpty, PTL
===============================================================================
