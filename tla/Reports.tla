------------------------------- MODULE Reports -------------------------------
(***************************************************************************)
(* The reports over the tables of Coursework.  The same figures are        *)
(* computed in several places: attendance_service.py, batch_service.py,    *)
(* assignment_service.py, exam_service.py and analytics_service.py.  An    *)
(* administrator sees every row; the figures are those of one batch.       *)
(***************************************************************************)
EXTENDS Coursework

CONSTANT Scale  \* a common multiple of the total marks, in which averages are exact

ASSUME ScaleAssumption ==
  Scale \in Nat \ {0} /\ \A t \in Totals : t > 0 => Scale % t = 0

-----------------------------------------------------------------------------
(* Attendance.                                                              *)

\* The lectures of these at which s has one of these marks, and the marks of all students.
Sessions(s, lectures, statuses) == Cardinality({l \in lectures : mark[l][s] \in statuses})
Rows(lectures, statuses) ==
  Cardinality({k \in lectures \X Students : mark[k[1]][k[2]] \in statuses})

\* student_summary, and a row of batch_report.
Summary(s) ==
  LET total == Sessions(s, Lectures, Statuses)
      excused == Sessions(s, Lectures, {"EXCUSED"})
      attended == Sessions(s, Lectures, {"PRESENT", "LATE"})
      percentage == Percent(attended, total - excused)
  IN  [sessions |-> total, attended |-> attended, excused |-> excused, percentage |-> percentage,
       below_threshold |-> percentage # None /\ percentage < 7500]

\* Who has a row in batch_report, and low_attendance_students.
Reported == {s \in Students : Sessions(s, Lectures, Statuses) > 0}
LowAttendance == {s \in Reported : Summary(s).below_threshold}

\* batch_progress, att_map: the deleted lectures are left out.
AttendanceOf(s) ==
  LET live == Lectures \ gone IN
  Percent(Sessions(s, live, {"PRESENT", "LATE"}),
          Sessions(s, live, Statuses) - Sessions(s, live, {"EXCUSED"}))

LowAttendanceCount ==
  Cardinality({s \in Students : AttendanceOf(s) # None /\ AttendanceOf(s) < 7500})

\* batch_progress, its attendance block without the average.
AttendanceBlock ==
  [total |-> Rows(Lectures \ gone, Statuses),
   low |-> LowAttendanceCount]

\* analytics: the marks of these lectures.
Counted(lectures) ==
  LET total == Rows(lectures, Statuses)
      attended == Rows(lectures, {"PRESENT", "LATE"})
      excused == Rows(lectures, {"EXCUSED"})
  IN  [sessions |-> total, attended |-> attended, excused |-> excused,
       percentage |-> Percent(attended, total - excused)]

\* analytics: _attendance_trend, a month.
Trend(m) == Counted({l \in Lectures : Month[l] = m})

\* analytics: _attendance_card on the day of a lecture; the days are distinct.
DayCard(l) ==
  [todays_attendance_pct |-> Counted({l}).percentage,
   todays_sessions |-> Cardinality({l} \ gone),
   todays_marks_recorded |-> Counted({l}).sessions]

-----------------------------------------------------------------------------
(* Assignments.                                                             *)

Live == {a \in Assignments : assignment[a] # None}
Submitted(s) == Cardinality({a \in Live : submission[a][s] # None})
Received(a) == Cardinality({s \in Students : submission[a][s] # None})

\* batch_progress
SubmissionsReceived ==
  Cardinality({r \in Live \X Students : submission[r[1]][r[2]] # None})
ExpectedSubmissions == Cardinality(Live) * Cardinality(enrolled)

\* Fault: divided by the number of students.
CompletionOfRoll(s) == Percent(Submitted(s), Cardinality(enrolled))

Completion(s) == Percent(Submitted(s), Cardinality(Live))

Pending == {r \in Live \X Students :
              /\ submission[r[1]][r[2]] # None
              /\ submission[r[1]][r[2]].marks = None}

\* batch_progress, its assignments block without the average.
AssignmentsBlock ==
  [total |-> Cardinality(Live), received |-> SubmissionsReceived, expected |-> ExpectedSubmissions,
   rate |-> IF ExpectedSubmissions = 0 THEN 0
            ELSE Percent(SubmissionsReceived, ExpectedSubmissions),
   pending |-> Cardinality(Pending)]

\* batch_assignment_report: a card for each assignment, a row for each enrolled student.
AssignmentCard(a) ==
  LET n == Cardinality(enrolled) IN
  [received |-> Received(a), expected |-> n,
   submission_rate |-> IF n = 0 THEN 0 ELSE Percent(Received(a), n),
   pending |-> Cardinality({s \in Students : submission[a][s] # None /\ submission[a][s].marks = None}),
   submitted |-> {s \in enrolled : submission[a][s] # None}]

-----------------------------------------------------------------------------
(* Exams.                                                                   *)

Sat(e) == {s \in Students : result[e][s] # None}

\* A grade as a report shows it: computed where it is blank.
Shown(e, s) ==
  IF result[e][s].grade # None THEN result[e][s].grade
  ELSE Grade(result[e][s].marks, exam[e].total)

\* batch_exam_report: a card for each exam ...
ExamCard(e) ==
  LET passed == Cardinality({s \in Sat(e) : result[e][s].marks >= exam[e].passing}) IN
  [count |-> Cardinality(Sat(e)), passed |-> passed, pass_rate |-> Percent(passed, Cardinality(Sat(e)))]

\* ... and the distribution of the known grades.
ReportedGrades ==
  [g \in Letters |->
     SumFunction([e \in Exams |-> Cardinality({s \in Sat(e) : Shown(e, s) = g})])]

Published == {r \in Exams \X Students : result[r[1]][r[2]] # None}

\* batch_progress
Passed == {r \in Published : result[r[1]][r[2]].marks >= exam[r[1]].passing}
GradeDistribution ==
  [g \in Letters \cup {"other"} |-> Cardinality({r \in Published : Shown(r[1], r[2]) = g})]

\* exam_scores: without total marks the score is zero.
Score(e, s) ==
  IF exam[e].total = 0 THEN 0 ELSE Percent(result[e][s].marks, exam[e].total)

\* batch_progress, its exams block without the average.
ExamsBlock ==
  LET scores == {Score(r[1], r[2]) : r \in Published} IN
  [total |-> Cardinality({e \in Exams : exam[e] # None}), published |-> Cardinality(Published),
   pass_rate |-> Percent(Cardinality(Passed), Cardinality(Published)),
   top |-> IF scores = {} THEN None ELSE Max(scores),
   lowest |-> IF scores = {} THEN None ELSE Min(scores)]

\* analytics: _exam_performance.
Performance(e) ==
  [candidates |-> Cardinality(Sat(e)),
   passed |-> Cardinality({s \in Sat(e) : result[e][s].marks >= exam[e].passing})]

\* exam_avg_map: the mean of the percentages of a student's results.
ExamAverage(s) ==
  LET taken == {e \in Exams : result[e][s] # None}
      points == [e \in taken |->
                   IF exam[e].total = 0 THEN 0
                   ELSE result[e][s].marks * (Scale \div exam[e].total)]
  IN  Percent(SumFunction(points), Cardinality(taken) * Scale)

-----------------------------------------------------------------------------
(* The scorecard of a student.                                              *)

Below(figure, limit) == figure # None /\ figure < limit

\* _health_flag
Health(s) ==
  IF \/ Below(AttendanceOf(s), 7500) \/ Below(Completion(s), 5000) \/ Below(ExamAverage(s), 4000)
  THEN "AT_RISK"
  ELSE IF \/ Below(AttendanceOf(s), 8500) \/ Below(Completion(s), 7500)
          \/ Below(ExamAverage(s), 6000)
  THEN "NEEDS_ATTENTION"
  ELSE "ON_TRACK"

\* batch_progress: the row of an enrolled student.
Scorecard(s) ==
  [attendance |-> AttendanceOf(s), submitted |-> Submitted(s), completion |-> Completion(s),
   taken |-> Cardinality({e \in Exams : result[e][s] # None}), exam_avg |-> ExamAverage(s),
   health |-> Health(s)]

\* batches_progress_overview: at_risk_count.
AtRisk == {s \in enrolled : Scorecard(s).health = "AT_RISK"}

-----------------------------------------------------------------------------
\* The attendance of a student is the same in the student's summary, the batch's report and
\* the batch's progress, the days of the dashboard and its months add up to it, and whoever is
\* chased for low attendance and still enrolled is at risk on the scorecard - unless a lecture
\* was deleted while it was being marked.
AttendanceReportsAgree ==
  LET summary == [s \in Students |-> Summary(s)]
      day == [l \in Lectures |-> DayCard(l)]
      month == [m \in {Month[l] : l \in Lectures} |-> Trend(m)]
      sessions == SumFunction([s \in Students |-> summary[s].sessions])
      months == SumFunction([m \in DOMAIN month |-> month[m].sessions])
  IN
  /\ uncounted = {} =>
       /\ \A s \in Students : AttendanceOf(s) = summary[s].percentage
       /\ AttendanceBlock.total = sessions
       /\ AttendanceBlock.low = Cardinality(LowAttendance)
       /\ LowAttendance \cap enrolled \subseteq AtRisk
       /\ \A l \in Lectures : day[l].todays_sessions = 0 => day[l].todays_marks_recorded = 0
  /\ months = SumFunction([l \in Lectures |-> day[l].todays_marks_recorded])
  /\ months = sessions
  /\ SumFunction([m \in DOMAIN month |-> month[m].attended]) =
       SumFunction([s \in Students |-> summary[s].attended])

\* The exams' cards, the batch's progress, its scorecards and the dashboard count the same
\* results, passes and grades, and every student's average lies between the lowest and the top
\* score.
ExamReportsAgree ==
  LET block == ExamsBlock
      card == [e \in Exams |-> ExamCard(e)]
      row == [s \in Students |-> Scorecard(s)]
      reported == ReportedGrades
      distribution == GradeDistribution
  IN
  /\ SumFunction([e \in Exams |-> card[e].count]) = block.published
  /\ SumFunction([s \in Students |-> row[s].taken]) = block.published
  /\ SumFunction([e \in Exams |-> card[e].passed]) = Cardinality(Passed)
  /\ \A e \in Exams :
       /\ card[e].passed = Performance(e).passed
       /\ card[e].count = block.published => card[e].pass_rate = block.pass_rate
  /\ \A g \in Letters : reported[g] = distribution[g]
  /\ SumFunction(distribution) = block.published
  /\ \A s \in Students : row[s].taken > 0 => row[s].exam_avg \in block.lowest..block.top

\* 100 %, the percentages, and of how many a rate of 100 % tells all from all but one.
Whole == 10000
Percentages == 0..Whole
Countable == 1..(2 * Whole - 1)

\* No more submissions are received than are expected, and no rate is over 100 %, and the
\* batch is complete when every student's scorecard is, unless somebody outside the batch's roll
\* has handed in work.  Of 20000 submissions a rate of 100 % hides one that is missing.
RatesArePercentages ==
  /\ \A s \in Students : Summary(s).percentage \in Percentages \cup {None}
  /\ \A s \in Students : Completion(s) \in Percentages \cup {None}
  /\ LET block == AssignmentsBlock IN
       /\ {s \in Students : Submitted(s) > 0} \subseteq enrolled =>
            /\ block.received <= block.expected
            /\ \A a \in Live : AssignmentCard(a).submission_rate \in Percentages
            /\ block.expected \in Countable =>
                 (block.rate = Whole <=> \A s \in enrolled : Scorecard(s).completion = Whole)
       /\ block.pending = SumFunction([a \in Live |-> AssignmentCard(a).pending])
  /\ SumFunction([a \in Live |-> Cardinality(AssignmentCard(a).submitted)]) =
       SumFunction([s \in enrolled |-> Scorecard(s).submitted])

\* Five services compute these numbers on their own, and tell the same of one state.
ReportsAgree == AttendanceReportsAgree /\ ExamReportsAgree /\ RatesArePercentages
=============================================================================
