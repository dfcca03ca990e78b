------------------------------ MODULE Catalogue ------------------------------
(***************************************************************************)
(* The institute-wide catalogue: courses, their subjects, and the study    *)
(* material hung off a subject and perhaps a batch (course_service.py and  *)
(* material_service.py), with what the batches and the timetable do to the *)
(* rows those services count.                                              *)
(*                                                                         *)
(* A request loads its row, runs the queries that may refuse it, and saves *)
(* every column of the row as it was loaded.  Nothing is locked.  The      *)
(* requests below are those of a super administrator.                      *)
(***************************************************************************)
EXTENDS Naturals, FiniteSets

CONSTANTS
  Workers,
  Courses,
  Subjects,
  Batches,
  Materials,
  Codes,
  Scenarios,  \* where the system may start, and the operations asked for
  None

CourseRow == [code: Codes, is_deleted: BOOLEAN]
SubjectRow == [course: Courses, code: Codes, is_deleted: BOOLEAN]
BatchRow == [course: Courses, is_deleted: BOOLEAN]
MaterialRow == [subject: Subjects, batch: Batches \cup {None}, is_deleted: BOOLEAN]

ASSUME CatalogueAssumption ==
  /\ None \notin CourseRow \cup SubjectRow \cup BatchRow \cup MaterialRow
  /\ None \notin Workers \cup Courses \cup Subjects \cup Batches \cup Materials
  /\ \A sc \in Scenarios :
       /\ sc.course \in [Courses -> CourseRow \cup {None}]
       /\ sc.subject \in [Subjects -> SubjectRow \cup {None}]
       /\ sc.batch \in [Batches -> BatchRow \cup {None}]

VARIABLES
  workload,  \* the operations asked for
  course,    \* the table of courses, None where there is no row
  subject,   \* the table of subjects
  batch,     \* the table of batches
  material,  \* the table of study material
  slots,     \* the (batch, subject) pairs with a live timetable slot
  pc,        \* where each worker is in its request
  job,       \* its request and the row it holds in memory
  missed,    \* history: the rows committed by others since a worker loaded its row
  unseen,    \* history: those committed since its queries
  displaced  \* history: the materials whose subject or batch has changed course since

catalogue == <<course, subject, batch, material, slots>>
cataloguing == <<workload, course, subject, batch, material, slots, pc, job, missed, unseen,
                 displaced>>

NoJob == [op |-> None]

\* active(Course), active(Subject), active(Batch), active(StudyMaterial)
LiveRows(ids, table) == {r \in ids : table[r] # None /\ ~table[r].is_deleted}
LiveCourses == LiveRows(Courses, course)
LiveSubjects == LiveRows(Subjects, subject)
LiveBatches == LiveRows(Batches, batch)
LiveMaterials == LiveRows(Materials, material)

BatchesOf(c) == {b \in LiveBatches : batch[b].course = c}
SlotsOf(s) == {p \in slots : p[2] = s}

CatalogueInit(sc) ==
  /\ workload = sc.asked
  /\ course = sc.course
  /\ subject = sc.subject
  /\ batch = sc.batch
  /\ material = [m \in Materials |-> None]
  /\ slots = {}
  /\ pc = [w \in Workers |-> "idle"]
  /\ job = [w \in Workers |-> NoJob]
  /\ missed = [w \in Workers |-> {}]
  /\ unseen = [w \in Workers |-> {}]
  /\ displaced = {}

-----------------------------------------------------------------------------
(* A request: loaded, checked, committed.                                   *)

Start(w, phase, j) ==
  /\ pc[w] = "idle"
  /\ j.op \in workload
  /\ pc' = [pc EXCEPT ![w] = phase]
  /\ job' = [job EXCEPT ![w] = j]
  /\ missed' = [missed EXCEPT ![w] = {}]
  /\ unseen' = [unseen EXCEPT ![w] = {}]
  /\ UNCHANGED <<workload, catalogue, displaced>>

Load(w, j) == Start(w, "loaded", j)

\* Who is under way missed these rows.
Overtake(w, rows) ==
  /\ missed' = [v \in Workers |-> IF v = w \/ pc[v] = "idle" THEN missed[v] ELSE missed[v] \cup rows]
  /\ unseen' = [v \in Workers |->
                  IF v = w \/ pc[v] \in {"idle", "loaded"} THEN unseen[v] ELSE unseen[v] \cup rows]

End(w, rows) ==
  /\ pc' = [pc EXCEPT ![w] = "idle"]
  /\ job' = [job EXCEPT ![w] = NoJob]
  /\ missed' = [v \in Workers |->
                  IF v = w \/ pc[v] = "idle" THEN {} ELSE missed[v] \cup rows]
  /\ unseen' = [v \in Workers |->
                  IF v = w \/ pc[v] \in {"idle", "loaded"} THEN {} ELSE unseen[v] \cup rows]
  /\ UNCHANGED workload

\* A duplicate code, a crash, or an audit entry that cannot be written.
RollBack(w) ==
  /\ pc[w] \in {"loaded", "checked"}
  /\ End(w, {})
  /\ UNCHANGED <<catalogue, displaced>>

\* Code taken by a live row: refused.  By a retired one: the unique column refuses it.
CourseCodeFree(code, c) == \A x \in LiveCourses \ {c} : course[x].code # code
CourseCodeUnused(code, c) == \A x \in Courses \ {c} : course[x] # None => course[x].code # code

SubjectCodeFree(row, s) ==
  \A x \in LiveSubjects \ {s} : <<subject[x].course, subject[x].code>> # <<row.course, row.code>>
SubjectCodeUnused(row, s) ==
  \A x \in Subjects \ {s} :
    subject[x] # None => <<subject[x].course, subject[x].code>> # <<row.course, row.code>>

LoadCourse(w) ==
  \/ \E code \in Codes :
       Load(w, [op |-> "create_course", row |-> None, new |-> [code |-> code, is_deleted |-> FALSE]])
  \/ \E c \in LiveCourses, code \in Codes :
       Load(w, [op |-> "update_course", row |-> c, new |-> [course[c] EXCEPT !.code = code]])
  \/ \E c \in LiveCourses : Load(w, [op |-> "soft_delete_course", row |-> c])

\* A subject may be moved to any course.
LoadSubject(w) ==
  \/ \E code \in Codes, c \in Courses :
       /\ course[c] # None
       /\ Load(w, [op |-> "create_subject", row |-> None,
                   new |-> [course |-> c, code |-> code, is_deleted |-> FALSE]])
  \/ \E s \in LiveSubjects, code \in Codes, c \in Courses :
       /\ course[c] # None
       /\ Load(w, [op |-> "update_subject", row |-> s,
                   new |-> [subject[s] EXCEPT !.course = c, !.code = code]])
  \/ \E s \in LiveSubjects : Load(w, [op |-> "soft_delete_subject", row |-> s])

Courseware ==
  {"create_course", "update_course", "soft_delete_course",
   "create_subject", "update_subject", "soft_delete_subject"}

\* Fault: nothing is counted before a row is retired.
PassesUncounted(j) ==
  /\ j.op \in {"create_course", "update_course"} => CourseCodeFree(j.new.code, j.row)
  /\ j.op \in {"create_subject", "update_subject"} => SubjectCodeFree(j.new, j.row)

\* The queries of the services.
Passes(j) ==
  /\ j.op \in {"create_course", "update_course"} => CourseCodeFree(j.new.code, j.row)
  /\ j.op \in {"create_subject", "update_subject"} => SubjectCodeFree(j.new, j.row)
  /\ j.op = "soft_delete_course" => BatchesOf(j.row) = {}
  /\ j.op = "soft_delete_subject" => SlotsOf(j.row) = {}

Check(w) ==
  /\ pc[w] = "loaded" /\ job[w].op \in Courseware
  /\ Passes(job[w])
  /\ pc' = [pc EXCEPT ![w] = "checked"]
  /\ UNCHANGED <<workload, catalogue, job, missed, unseen, displaced>>

Writing(w, ops) == pc[w] = "checked" /\ job[w].op \in ops

\* The row a request saves: its own, or a new one.
Target(j, ids, table) == IF j.row # None THEN {j.row} ELSE {r \in ids : table[r] = None}

\* course.save(): is_deleted as it was loaded.
SaveCourse(w) ==
  LET j == job[w] IN
  /\ Writing(w, {"create_course", "update_course"})
  /\ CourseCodeUnused(j.new.code, j.row)
  /\ \E c \in Target(j, Courses, course) : course' = [course EXCEPT ![c] = j.new] /\ End(w, {c})
  /\ UNCHANGED <<subject, batch, material, slots, displaced>>

DeleteCourse(w) ==
  /\ Writing(w, {"soft_delete_course"})
  /\ course' = [course EXCEPT ![job[w].row].is_deleted = TRUE]
  /\ End(w, {job[w].row})
  /\ UNCHANGED <<subject, batch, material, slots, displaced>>

MaterialsIn(s) == {m \in Materials : material[m] # None /\ material[m].subject = s}

SaveSubject(w) ==
  LET j == job[w] IN
  /\ Writing(w, {"create_subject", "update_subject"})
  /\ SubjectCodeUnused(j.new, j.row)
  /\ \E s \in Target(j, Subjects, subject) :
       /\ subject' = [subject EXCEPT ![s] = j.new]
       /\ displaced' = IF subject[s] # None /\ subject[s].course # j.new.course
                       THEN displaced \cup MaterialsIn(s) ELSE displaced
       /\ End(w, {s})
  /\ UNCHANGED <<course, batch, material, slots>>

DeleteSubject(w) ==
  /\ Writing(w, {"soft_delete_subject"})
  /\ subject' = [subject EXCEPT ![job[w].row].is_deleted = TRUE]
  /\ End(w, {job[w].row})
  /\ UNCHANGED <<course, batch, material, slots, displaced>>

-----------------------------------------------------------------------------
(* Study material.                                                          *)

Fits(row) == row.batch # None => batch[row.batch].course = subject[row.subject].course

\* _validate, on the subject and the batch as they were loaded; retired ones are accepted.
LoadMaterial(w) ==
  \E s \in Subjects, b \in Batches \cup {None} :
    LET new == [subject |-> s, batch |-> b, is_deleted |-> FALSE] IN
    /\ subject[s] # None
    /\ b # None => batch[b] # None
    /\ Fits(new)
    /\ \/ Start(w, "checked", [op |-> "publish_material", row |-> None, seen |-> None, new |-> new])
       \/ \E m \in LiveMaterials :
            Start(w, "checked", [op |-> "update_material", row |-> m, seen |-> material[m],
                                 new |-> new])

LoadDeleteMaterial(w) ==
  \E m \in LiveMaterials : Start(w, "checked", [op |-> "soft_delete_material", row |-> m])

Stale(w, row) == {row.subject, row.batch} \cap missed[w] # {}

WriteMaterial(w, row) ==
  LET j == job[w] IN
  /\ Writing(w, {"publish_material", "update_material"})
  /\ \E m \in Target(j, Materials, material) :
       /\ material' = [material EXCEPT ![m] = row]
       /\ displaced' = IF Stale(w, j.new) THEN displaced \cup {m} ELSE displaced \ {m}
       /\ End(w, {m})
  /\ UNCHANGED <<course, subject, batch, slots>>

\* Fault: only the columns that change are saved.
SaveMaterialColumns(w) ==
  LET j == job[w] IN
  WriteMaterial(w,
    IF j.seen = None THEN j.new
    ELSE [subject |-> IF j.new.subject # j.seen.subject THEN j.new.subject ELSE material[j.row].subject,
          batch |-> IF j.new.batch # j.seen.batch THEN j.new.batch ELSE material[j.row].batch,
          is_deleted |-> material[j.row].is_deleted])

\* material.save(): subject, batch and is_deleted together, as they were checked.
SaveMaterial(w) == WriteMaterial(w, job[w].new)

DeleteMaterial(w) ==
  /\ Writing(w, {"soft_delete_material"})
  /\ material' = [material EXCEPT ![job[w].row].is_deleted = TRUE]
  /\ End(w, {job[w].row})
  /\ UNCHANGED <<course, subject, batch, slots, displaced>>

-----------------------------------------------------------------------------
(* What the batch service and the timetable do to the rows counted here.    *)

Change(op, rows) ==
  /\ op \in workload
  /\ Overtake(None, rows)
  /\ UNCHANGED <<workload, pc, job>>

\* create_batch, on any course.
CreateBatch(b, c) ==
  /\ batch[b] = None /\ course[c] # None
  /\ Change("batch", {b})
  /\ batch' = [batch EXCEPT ![b] = [course |-> c, is_deleted |-> FALSE]]
  /\ UNCHANGED <<course, subject, material, slots, displaced>>

\* update_batch moves a batch nobody is enrolled in; its materials stay behind.
UpdateBatch(b, c) ==
  /\ course[c] # None /\ batch[b].course # c
  /\ Change("batch", {b})
  /\ batch' = [batch EXCEPT ![b].course = c]
  /\ displaced' = displaced \cup {m \in Materials : material[m] # None /\ material[m].batch = b}
  /\ UNCHANGED <<course, subject, material, slots>>

\* soft_delete_batch retires the slots with the batch.
CloseBatch(b) ==
  /\ Change("batch", {b} \cup {p \in slots : p[1] = b})
  /\ batch' = [batch EXCEPT ![b].is_deleted = TRUE]
  /\ slots' = {p \in slots : p[1] # b}
  /\ UNCHANGED <<course, subject, material, displaced>>

\* create_slot, for a subject of the batch's course.
Schedule(b, s) ==
  /\ subject[s] # None
  /\ batch[b].course = subject[s].course
  /\ Change("slot", {<<b, s>>})
  /\ slots' = slots \cup {<<b, s>>}
  /\ UNCHANGED <<course, subject, batch, material, displaced>>

Unschedule(p) ==
  /\ Change("slot", {p})
  /\ slots' = slots \ {p}
  /\ UNCHANGED <<course, subject, batch, material, displaced>>

-----------------------------------------------------------------------------
CatalogueNext ==
  \/ \E w \in Workers :
       \/ LoadCourse(w) \/ LoadSubject(w) \/ LoadMaterial(w) \/ LoadDeleteMaterial(w)
       \/ Check(w) \/ RollBack(w)
       \/ SaveCourse(w) \/ DeleteCourse(w) \/ SaveSubject(w) \/ DeleteSubject(w)
       \/ SaveMaterial(w) \/ DeleteMaterial(w)
  \/ \E b \in Batches :
       \/ \E c \in Courses : CreateBatch(b, c) \/ (b \in LiveBatches /\ UpdateBatch(b, c))
       \/ b \in LiveBatches /\ (CloseBatch(b) \/ \E s \in Subjects : Schedule(b, s))
  \/ \E p \in slots : Unschedule(p)

-----------------------------------------------------------------------------
CatalogueTypeOK ==
  /\ course \in [Courses -> CourseRow \cup {None}]
  /\ subject \in [Subjects -> SubjectRow \cup {None}]
  /\ batch \in [Batches -> BatchRow \cup {None}]
  /\ material \in [Materials -> MaterialRow \cup {None}]
  /\ slots \subseteq LiveBatches \X Subjects
  /\ displaced \subseteq Materials

\* material_service.py: a batch's material is of the batch's course.  Edits of one material
\* overtake each other, each saving the pair it has checked; only a subject or a batch that
\* changes course later, or while the material is on its way, takes it out of the course.
MaterialFitsCohort == \A m \in LiveMaterials : m \in displaced \/ Fits(material[m])

\* Who retires a course or a subject had counted no use of it but what came since; who brings
\* it back had loaded it before it went.
RetiringHeeds ==
  /\ \A c \in Courses : course[c] # None /\ course'[c].is_deleted # course[c].is_deleted =>
       \E w \in Workers :
         /\ pc'[w] # pc[w]
         /\ IF course'[c].is_deleted THEN BatchesOf(c) \subseteq unseen[w] ELSE c \in missed[w]
  /\ \A s \in Subjects : subject[s] # None /\ subject'[s].is_deleted # subject[s].is_deleted =>
       \E w \in Workers :
         /\ pc'[w] # pc[w]
         /\ IF subject'[s].is_deleted THEN SlotsOf(s) \subseteq unseen[w] ELSE s \in missed[w]

\* course_service.py: a course with batches, or a subject on the timetable, is not retired:
\* those that are there when it goes came after the count.  And it comes back only with an
\* edit that had loaded it before.
RetiredUnused == [][RetiringHeeds]_cataloguing
=============================================================================
