----------------------------- MODULE Coursework -----------------------------
(***************************************************************************)
(* The coursework of one batch - assignments and submissions, exams and    *)
(* results - and the reports drawn from it and from the attendance marks:  *)
(* assignment_service.py, exam_service.py, the reports of batch_service.py *)
(* and attendance_service.py, and analytics_service.py.                    *)
(*                                                                         *)
(* Submissions and published results go through update_or_create, which    *)
(* locks the row and writes the columns it names.  Evaluations and the     *)
(* edits of the generic view sets load a row, without a lock, and save all *)
(* of it.  A report is a function of the tables.  Percentages are in       *)
(* hundredths of a percent.                                                *)
(***************************************************************************)
EXTENDS Integers, FiniteSets, FiniteSetsExt

CONSTANTS
  Workers,
  Students,
  Assignments,
  Exams,
  Lectures,
  Files,
  Marks,      \* the marks that may be given
  Totals,     \* the total marks of an assignment or exam
  Passing,    \* the passing marks of an exam
  Month,      \* the month of each lecture
  Scenarios,  \* where the system may start, and the operations asked for
  None

ASSUME MarksAssumption ==
  /\ Marks \subseteq Nat /\ Totals \subseteq Nat /\ Passing \subseteq Nat
  /\ Month \in [Lectures -> Nat]
  /\ Assignments \cap Exams = {}

Statuses == {"PRESENT", "ABSENT", "LATE", "EXCUSED"}
Letters == {"A+", "A", "B", "C", "D", "F"}
SubmissionRow == [file: Files, marks: Marks \cup {None}]
ResultRow == [marks: Marks, grade: Letters \cup {"other", None}]
ExamRow == [total: Totals, passing: Passing]

\* Null is no value of a column, no row and no process.
ASSUME NoneAssumption ==
  None \notin Workers \cup Files \cup Marks \cup Totals \cup SubmissionRow \cup ResultRow \cup ExamRow
            \cup Statuses \cup Letters \cup {"other"} \cup Nat

\* A batch can be counted.
ASSUME FiniteAssumption ==
  IsFiniteSet(Students) /\ IsFiniteSet(Assignments) /\ IsFiniteSet(Exams) /\ IsFiniteSet(Lectures)

ASSUME ScenarioAssumption ==
  \A sc \in Scenarios :
    /\ sc.enrolled \subseteq Students
    /\ sc.assignment \in [Assignments -> Totals \cup {None}]
    /\ sc.exam \in [Exams -> ExamRow \cup {None}]

VARIABLES
  workload,    \* the operations asked for
  enrolled,    \* the students with an ACTIVE enrolment in the batch
  assignment,  \* the total marks of each assignment, None where there is no row
  exam,        \* the table of exams, None where there is no row
  submission,  \* the table of submissions
  result,      \* the table of results
  mark,        \* the table of attendance marks
  gone,        \* the lectures that are soft-deleted
  pc, job,     \* where each worker is, and what it holds in memory
  missed,      \* history: the rows committed by others since a worker loaded its own
  handed,      \* history: the file each student last handed in for each assignment
  overwritten, \* history: the submissions whose file an edit has changed or written back
  regraded,    \* history: the results whose marks, grade or exam an edit has changed since
  uncounted    \* history: the lectures deleted although they had marks by then

coursework == <<assignment, exam, submission, result>>
attendance == <<mark, gone, uncounted>>
history == <<handed, overwritten, regraded>>
vars == <<workload, enrolled, assignment, exam, submission, result, mark, gone, pc, job,
          missed, handed, overwritten, regraded, uncounted>>

NoJob == [op |-> None]

-----------------------------------------------------------------------------
(* Arithmetic.                                                              *)

\* round(a / c * 100, 2), None when there is nothing to divide by.
Percent(a, c) ==
  IF c = 0 THEN None
  ELSE LET q == (10000 * a) \div c
           r == (10000 * a) % c
       IN  IF 2 * r > c \/ (2 * r = c /\ q % 2 = 1) THEN q + 1 ELSE q

\* _grade_for_pct, and its copies in publish_exam_results and batch_service.
Grade(m, total) ==
  LET reaches(pct) == total > 0 /\ 100 * m >= pct * total
  IN  IF reaches(90) THEN "A+" ELSE IF reaches(80) THEN "A" ELSE IF reaches(70) THEN "B"
      ELSE IF reaches(60) THEN "C" ELSE IF reaches(40) THEN "D" ELSE "F"

-----------------------------------------------------------------------------
Init ==
  /\ \E sc \in Scenarios :
       /\ workload = sc.asked
       /\ enrolled = sc.enrolled
       /\ assignment = sc.assignment
       /\ exam = sc.exam
  /\ submission = [a \in Assignments |-> [s \in Students |-> None]]
  /\ result = [e \in Exams |-> [s \in Students |-> None]]
  /\ mark = [l \in Lectures |-> [s \in Students |-> None]]
  /\ gone = {}
  /\ pc = [w \in Workers |-> "idle"]
  /\ job = [w \in Workers |-> NoJob]
  /\ missed = [w \in Workers |-> {}]
  /\ handed = [a \in Assignments |-> [s \in Students |-> None]]
  /\ overwritten = {} /\ regraded = {} /\ uncounted = {}

\* Who is under way and has read these rows missed their change.
Missed(w, rows) ==
  missed' = [v \in Workers |->
               IF v # w /\ pc[v] # "idle" THEN missed[v] \cup (rows \cap job[v].read) ELSE {}]

Request(op, rows) ==
  /\ op \in workload
  /\ Missed(None, rows)
  /\ UNCHANGED <<workload, pc, job>>

Load(w, j) ==
  /\ pc[w] = "idle"
  /\ j.op \in workload
  /\ pc' = [pc EXCEPT ![w] = "loaded"]
  /\ job' = [job EXCEPT ![w] = j]
  /\ UNCHANGED <<workload, enrolled, coursework, attendance, missed, history>>

End(w, rows) ==
  /\ pc' = [pc EXCEPT ![w] = "idle"]
  /\ job' = [job EXCEPT ![w] = NoJob]
  /\ Missed(w, rows)
  /\ UNCHANGED workload

\* The process dies, or the row it refers to is gone.
Abandon(w) ==
  /\ pc[w] # "idle"
  /\ End(w, {})
  /\ UNCHANGED <<enrolled, coursework, attendance, history>>

-----------------------------------------------------------------------------
(* Assignments and submissions.                                             *)

EditAssignment(a) ==
  \E t \in Totals :
    /\ Request("edit_assignment", {a})
    /\ assignment' = [assignment EXCEPT ![a] = t]
    /\ UNCHANGED <<enrolled, exam, submission, result, attendance, history>>

\* The submissions of an assignment go with it.
DeleteAssignment(a) ==
  /\ assignment[a] # None
  /\ Request("delete_assignment", {a} \cup {<<a, s>> : s \in Students})
  /\ assignment' = [assignment EXCEPT ![a] = None]
  /\ submission' = [submission EXCEPT ![a] = [s \in Students |-> None]]
  /\ handed' = [handed EXCEPT ![a] = [s \in Students |-> None]]
  /\ UNCHANGED <<enrolled, exam, result, attendance, overwritten, regraded>>

\* submit_assignment: of anyone, at any time; the marks of an earlier file stay.
Submit(a, s, f) ==
  /\ assignment[a] # None
  /\ Request("submit", {<<a, s>>})
  /\ submission' = [submission EXCEPT ![a][s] =
                      [file |-> f, marks |-> IF @ = None THEN None ELSE @.marks]]
  /\ handed' = [handed EXCEPT ![a][s] = f]
  /\ overwritten' = overwritten \ {<<a, s>>}
  /\ UNCHANGED <<enrolled, assignment, exam, result, attendance, regraded>>

\* evaluate_submission, within the total it has read, and the edits of the generic view set.
LoadSubmission(w) ==
  \E a \in Assignments, s \in Students :
    /\ submission[a][s] # None
    /\ \/ \E m \in Marks :
            /\ m <= assignment[a]
            /\ Load(w, [op |-> "evaluate", row |-> <<a, s>>, read |-> {<<a, s>>},
                        seen |-> submission[a][s], new |-> [submission[a][s] EXCEPT !.marks = m]])
       \/ \E f \in Files :
            Load(w, [op |-> "edit_submission", row |-> <<a, s>>, read |-> {<<a, s>>},
                     seen |-> submission[a][s], new |-> [submission[a][s] EXCEPT !.file = f]])

\* submission.save(): the file as it was loaded, with the marks.  A row that has gone with
\* its assignment cannot come back.
SaveSubmission(w) ==
  LET j == job[w]
      a == j.row[1]
      s == j.row[2]
  IN
  /\ pc[w] = "loaded" /\ j.op \in {"evaluate", "edit_submission"}
  /\ assignment[a] # None
  /\ submission' = [submission EXCEPT ![a][s] = j.new]
  /\ overwritten' = IF j.new.file # j.seen.file \/ j.row \in missed[w]
                    THEN overwritten \cup {j.row} ELSE overwritten
  /\ End(w, {j.row})
  /\ UNCHANGED <<enrolled, assignment, exam, result, attendance, handed, regraded>>

-----------------------------------------------------------------------------
(* Exams and results.                                                       *)

EditExam(e) ==
  \E new \in ExamRow \ {exam[e]} :
    /\ exam[e] # None
    /\ Request("edit_exam", {e})
    /\ exam' = [exam EXCEPT ![e] = new]
    /\ regraded' = IF new.total = exam[e].total THEN regraded
                   ELSE regraded \cup {<<e, s>> : s \in {x \in Students : result[e][x] # None}}
    /\ UNCHANGED <<enrolled, assignment, submission, result, attendance, handed, overwritten>>

\* The results of an exam go with it.
DeleteExam(e) ==
  /\ exam[e] # None
  /\ Request("delete_exam", {e})
  /\ exam' = [exam EXCEPT ![e] = None]
  /\ result' = [result EXCEPT ![e] = [s \in Students |-> None]]
  /\ regraded' = regraded \ {<<e, s>> : s \in Students}
  /\ UNCHANGED <<enrolled, assignment, submission, attendance, handed, overwritten>>

\* A grade may come with the marks.
GivenGrades == IF "give_grade" \in workload THEN {None, "other"} ELSE {None}

\* publish_exam_results reads the exam once; an entry has marks, and a grade or none.
LoadPublish(w) ==
  \E e \in Exams, some \in SUBSET Students \ {{}} :
    \E marks \in [some -> Marks], given \in GivenGrades :
      /\ exam[e] # None
      /\ Load(w, [op |-> "publish", row |-> e, read |-> {e}, marks |-> marks, given |-> given,
                  total |-> exam[e].total])

\* Fault: a result that is there keeps its grade.
PublishKeepsGrade(w) ==
  LET j == job[w]
      e == j.row
  IN
  /\ pc[w] = "loaded" /\ j.op = "publish"
  /\ exam[e] # None
  /\ result' = [result EXCEPT ![e] = [s \in Students |->
                  IF s \notin DOMAIN j.marks THEN @[s]
                  ELSE [marks |-> j.marks[s],
                        grade |-> IF @[s] # None THEN @[s].grade
                                  ELSE IF j.given # None THEN j.given
                                  ELSE Grade(j.marks[s], j.total)]]]
  /\ regraded' = IF e \in missed[w] \/ j.given # None
                 THEN regraded \cup {<<e, s>> : s \in DOMAIN j.marks}
                 ELSE regraded \ {<<e, s>> : s \in DOMAIN j.marks}
  /\ End(w, {<<e, s>> : s \in DOMAIN j.marks})
  /\ UNCHANGED <<enrolled, assignment, exam, submission, attendance, handed, overwritten>>

\* All the entries or none; the marks are not compared with the total.
Publish(w) ==
  LET j == job[w]
      e == j.row
  IN
  /\ pc[w] = "loaded" /\ j.op = "publish"
  /\ exam[e] # None
  /\ result' = [result EXCEPT ![e] = [s \in Students |->
                  IF s \notin DOMAIN j.marks THEN @[s]
                  ELSE [marks |-> j.marks[s],
                        grade |-> IF j.given # None THEN j.given
                                  ELSE Grade(j.marks[s], j.total)]]]
  /\ regraded' = IF e \in missed[w] \/ j.given # None
                 THEN regraded \cup {<<e, s>> : s \in DOMAIN j.marks}
                 ELSE regraded \ {<<e, s>> : s \in DOMAIN j.marks}
  /\ End(w, {<<e, s>> : s \in DOMAIN j.marks})
  /\ UNCHANGED <<enrolled, assignment, exam, submission, attendance, handed, overwritten>>

\* A correction of the marks leaves the grade, unless it blanks it.
LoadResult(w) ==
  \E e \in Exams, s \in Students :
    /\ result[e][s] # None
    /\ \E m \in Marks, g \in {result[e][s].grade, None} :
         Load(w, [op |-> "edit_result", row |-> <<e, s>>, read |-> {<<e, s>>, e},
                  seen |-> result[e][s], new |-> [marks |-> m, grade |-> g]])

SaveResult(w) ==
  LET j == job[w] IN
  /\ pc[w] = "loaded" /\ j.op = "edit_result"
  /\ exam[j.row[1]] # None
  /\ result' = [result EXCEPT ![j.row[1]][j.row[2]] = j.new]
  /\ regraded' = IF j.new # j.seen \/ missed[w] # {}
                 THEN regraded \cup {j.row} ELSE regraded
  /\ End(w, {j.row})
  /\ UNCHANGED <<enrolled, assignment, exam, submission, attendance, handed, overwritten>>

-----------------------------------------------------------------------------
(* What Enrolment and Timetable do to the tables the reports read.          *)

Leave(s) ==
  /\ s \in enrolled
  /\ Request("leave", {})
  /\ enrolled' = enrolled \ {s}
  /\ UNCHANGED <<coursework, attendance, history>>

MarkAttendance(l, s, status) ==
  /\ s \in enrolled /\ l \notin gone
  /\ Request("mark", {l})
  /\ mark' = [mark EXCEPT ![l][s] = status]
  /\ UNCHANGED <<enrolled, coursework, gone, uncounted, history>>

LoadDeleteLecture(w) ==
  \E l \in Lectures \ gone :
    /\ \A s \in Students : mark[l][s] = None
    /\ Load(w, [op |-> "delete_lecture", row |-> l, read |-> {l}])

DeleteLecture(w) ==
  LET l == job[w].row IN
  /\ pc[w] = "loaded" /\ job[w].op = "delete_lecture"
  /\ gone' = gone \cup {l}
  /\ uncounted' = IF l \in missed[w] THEN uncounted \cup {l} ELSE uncounted
  /\ End(w, {})
  /\ UNCHANGED <<enrolled, coursework, mark, history>>

-----------------------------------------------------------------------------
Next ==
  \/ \E a \in Assignments :
       \/ DeleteAssignment(a)
       \/ assignment[a] # None /\ EditAssignment(a)
       \/ \E s \in Students, f \in Files : Submit(a, s, f)
  \/ \E e \in Exams : EditExam(e) \/ DeleteExam(e)
  \/ \E s \in Students : Leave(s)
  \/ \E l \in Lectures, s \in Students, status \in Statuses : MarkAttendance(l, s, status)
  \/ \E w \in Workers :
       \/ LoadSubmission(w) \/ SaveSubmission(w)
       \/ LoadPublish(w) \/ Publish(w) \/ LoadResult(w) \/ SaveResult(w)
       \/ LoadDeleteLecture(w) \/ DeleteLecture(w)
       \/ Abandon(w)

Spec == Init /\ [][Next]_vars

-----------------------------------------------------------------------------
\* Types of the tables.
TypeOK ==
  /\ enrolled \subseteq Students
  /\ assignment \in [Assignments -> Totals \cup {None}]
  /\ exam \in [Exams -> ExamRow \cup {None}]
  /\ submission \in [Assignments -> [Students -> SubmissionRow \cup {None}]]
  /\ \A a \in Assignments, s \in Students : submission[a][s] # None => assignment[a] # None
  /\ result \in [Exams -> [Students -> ResultRow \cup {None}]]
  /\ \A e \in Exams, s \in Students : result[e][s] # None => exam[e] # None
  /\ mark \in [Lectures -> [Students -> Statuses \cup {None}]]
  /\ gone \cup uncounted \subseteq Lectures
  /\ handed \in [Assignments -> [Students -> Files \cup {None}]]

\* The file on record is the one the student last handed in, unless an edit named another,
\* or an evaluation or edit wrote back the one it had loaded before.
WorkSurvives ==
  \A a \in Assignments, s \in Students :
    submission[a][s] # None /\ <<a, s>> \notin overwritten =>
      submission[a][s].file = handed[a][s]

\* A published result has the grade its marks earn, until the marks, the grade or the exam's
\* total are edited - before the publication is through, too.
GradeTellsMarks ==
  \A e \in Exams, s \in Students :
    result[e][s] # None /\ <<e, s>> \notin regraded =>
      result[e][s].grade = Grade(result[e][s].marks, exam[e].total)

\* Rows of their types that refer to rows that are there, no work lost but to an edit or an
\* evaluation, and grades true to their marks.
CourseworkIntegrity == TypeOK /\ WorkSurvives /\ GradeTellsMarks
=============================================================================
