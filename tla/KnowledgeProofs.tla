--------------------------- MODULE KnowledgeProofs ---------------------------
(***************************************************************************)
(* Proofs about Catalogue and Knowledge, for any number of workers, rows,  *)
(* documents, policies and ingestion jobs.                                 *)
(***************************************************************************)
EXTENDS Knowledge, FiniteSetTheorems, TLAPS

Writings == {"create_document", "update_document"}
MaterialEdits == {"publish_material", "update_material"}

Phases == {"idle", "loaded", "checked", "saved", "indexing", "reading", "syncing", "absent"}

Shapes ==
  /\ pc \in [Workers -> Phases]
  /\ job = [w \in Workers |-> job[w]]
  /\ missed = [w \in Workers |-> missed[w]]
  /\ unseen = [w \in Workers |-> unseen[w]]

-----------------------------------------------------------------------------
(* The catalogue.                                                           *)

There(ids, table, r) == r \in ids /\ table[r] # None

\* Materials belong to subjects and batches that are there.
Placed(row, S, B) == There(Subjects, S, row.subject) /\ (row.batch # None => There(Batches, B, row.batch))
MaterialsPlaced ==
  \A m \in Materials : material[m] # None => Placed(material[m], subject, batch)

\* A request of the catalogue, on the tables C, S, B and M.
CatalogueJob(phase, j, C, S, B, M) ==
  /\ j.op \in Courseware \cup Writings \cup MaterialEdits \cup {"soft_delete_material"}
  /\ phase = "checked" => j.op \notin Writings
  /\ j.op \in {"create_course", "update_course"} => j.new \in CourseRow /\ ~j.new.is_deleted
  /\ j.op \in {"create_subject", "update_subject"} => j.new \in SubjectRow /\ ~j.new.is_deleted
  /\ j.op \in {"create_course", "create_subject", "publish_material"} => j.row = None
  /\ j.op \in {"update_course", "soft_delete_course"} => There(Courses, C, j.row)
  /\ j.op \in {"update_subject", "soft_delete_subject"} => There(Subjects, S, j.row)
  /\ j.op \in {"update_material", "soft_delete_material"} => There(Materials, M, j.row)
  /\ j.op \in MaterialEdits => j.new \in MaterialRow /\ Placed(j.new, S, B)

CatalogueJobs ==
  \A w \in Workers : pc[w] \in {"loaded", "checked"} =>
    CatalogueJob(pc[w], job[w], course, subject, batch, material)

\* What a count has found still holds of what has not come since.
CountsStand ==
  \A w \in Workers : pc[w] = "checked" =>
    /\ job[w].op = "soft_delete_course" =>
         \A c \in Courses : c = job[w].row => BatchesOf(c) \subseteq unseen[w]
    /\ job[w].op = "soft_delete_subject" =>
         \A s \in Subjects : s = job[w].row => SlotsOf(s) \subseteq unseen[w]

\* A row that is edited is live, unless it was saved since it was loaded.
EditsStand ==
  \A w \in Workers : pc[w] \in {"loaded", "checked"} /\ job[w].row \notin missed[w] =>
    /\ job[w].op = "update_course" => ~course[job[w].row].is_deleted
    /\ job[w].op = "update_subject" => ~subject[job[w].row].is_deleted

\* The pair that was checked still fits, unless its subject or its batch was saved since.
PairsStand ==
  \A w \in Workers : pc[w] = "checked" /\ job[w].op \in MaterialEdits =>
    \A row \in MaterialRow : row = job[w].new => Stale(w, row) \/ Fits(row)

CatalogueInv ==
  /\ CatalogueTypeOK /\ MaterialsPlaced /\ MaterialFitsCohort
  /\ CatalogueJobs /\ CountsStand /\ EditsStand /\ PairsStand

-----------------------------------------------------------------------------
(* The knowledge base.                                                      *)

KnowledgeTypeOK ==
  /\ document \in [Documents -> DocumentRow \cup {None}]
  /\ chunk \in [Documents -> SUBSET Chunk]
  /\ ingestion \in [Jobs -> JobStatuses \cup {None}]
  /\ disturbed \subseteq Documents

WritingJob(j) ==
  /\ j.new \in DocumentRow
  /\ j.op = "create_document" => j.row = None
  /\ j.op = "update_document" => j.row \in Documents

IndexJob ==
  [op: {"index", "sync"}, ingestion: Jobs \cup {None}, at: Nat \ {0},
   row: Documents \cup {None}, text: Texts \cup {None}, old: SUBSET Chunk]

Indexes == {"saved", "indexing"}
Syncs == {"reading", "syncing", "absent"}

IndexingJob(phase, j) ==
  /\ j \in IndexJob
  /\ phase \in Syncs => j.op = "sync"
  /\ j.op = "sync" => j.ingestion \in Jobs
  /\ j.op = "sync" /\ phase \in Indexes \cup {"absent"} => j.at <= Len(Policies)
  /\ phase \in Indexes => j.row \in Documents /\ j.text \in Texts

KnowledgeJobs ==
  \A w \in Workers :
    /\ pc[w] = "loaded" /\ job[w].op \in Writings => WritingJob(job[w])
    /\ pc[w] \in Indexes \cup Syncs => IndexingJob(pc[w], job[w])

\* An indexing that has not been overtaken has the text of its document, and has seen its chunks.
IndexStands(phase, j, since, D, K) ==
  /\ phase \in Indexes /\ j.row \notin since => D[j.row] # None /\ D[j.row].text = j.text
  /\ phase = "indexing" /\ j.row \notin since => j.old = K[j.row]

IndexingsStand == \A w \in Workers : IndexStands(pc[w], job[w], unseen[w], document, chunk)

\* A document left alone has one chunk, cut from the text it has.
ChunksAreCut ==
  \A d \in Documents \ disturbed : document[d] # None =>
    \E c \in Chunk : chunk[d] = {c} /\ c.text = document[d].text

\* A job has provided for the policies before the one it is at, and for that one when it indexes.
Provided(n) == Titled(Policies[n]) # {} \/ Policies[n] \in withdrawn
Past(phase, j) == {n \in 1..Len(Policies) : n < j.at \/ (n = j.at /\ phase \in Indexes)}

PoliciesProvided ==
  /\ \A w \in Workers : pc[w] \in Indexes \cup Syncs /\ job[w].op = "sync" =>
       \A n \in Past(pc[w], job[w]) : Provided(n)
  /\ CompletedIngests

KnowledgeInv ==
  /\ KnowledgeTypeOK /\ KnowledgeJobs /\ IndexingsStand /\ ChunksAreCut /\ PoliciesProvided

IInv == Shapes /\ CatalogueInv /\ KnowledgeInv

-----------------------------------------------------------------------------
(* Steps and what the workers hold.                                         *)

\* After a step that has written these rows, a request under way is one that was, and has missed
\* them.
Written(rows) ==
  \A v \in Workers : pc'[v] # "idle" =>
    /\ pc'[v] = pc[v] /\ job'[v] = job[v] /\ missed'[v] = missed[v] \cup rows
    /\ pc[v] # "loaded" => unseen'[v] = unseen[v] \cup rows

LEMMA EndWrites ==
  ASSUME Shapes, NEW w \in Workers, NEW rows, End(w, rows)
  PROVE  Shapes' /\ Written(rows)
<1>1. Shapes'  BY DEF End, Shapes, Phases
<1>2. Written(rows)  BY DEF End, Shapes, Written
<1>3. QED  BY <1>1, <1>2

LEMMA ChangeWrites ==
  ASSUME Shapes, NEW op, NEW rows, Change(op, rows)
  PROVE  Shapes' /\ Written(rows)
<1>1. \A v \in Workers : v # None  BY CatalogueAssumption
<1>2. QED  BY <1>1 DEF Change, Overtake, Shapes, Written

LEMMA CatalogueJobsKept ==
  ASSUME CatalogueJobs, NEW rows, Written(rows),
         \A c \in Courses : course[c] # None => course'[c] # None,
         \A s \in Subjects : subject[s] # None => subject'[s] # None,
         \A b \in Batches : batch[b] # None => batch'[b] # None,
         \A m \in Materials : material[m] # None => material'[m] # None
  PROVE  CatalogueJobs'
<1> SUFFICES ASSUME NEW v \in Workers, pc'[v] \in {"loaded", "checked"}
             PROVE  CatalogueJob(pc'[v], job'[v], course', subject', batch', material')
  BY DEF CatalogueJobs
<1>1. pc'[v] = pc[v] /\ job'[v] = job[v]  BY DEF Written
<1>2. CatalogueJob(pc[v], job[v], course, subject, batch, material)  BY <1>1 DEF CatalogueJobs
<1>3. QED  BY <1>1, <1>2 DEF CatalogueJob, There, Placed

LEMMA CountsKept ==
  ASSUME CountsStand, NEW rows, Written(rows),
         \A c \in Courses : BatchesOf(c)' \subseteq BatchesOf(c) \cup rows,
         \A s \in Subjects : SlotsOf(s)' \subseteq SlotsOf(s) \cup rows
  PROVE  CountsStand'
<1>1. ASSUME NEW v \in Workers, pc'[v] = "checked"
      PROVE  pc[v] = "checked" /\ job'[v] = job[v] /\ unseen'[v] = unseen[v] \cup rows
  BY <1>1 DEF Written
<1>2. ASSUME NEW v \in Workers, pc'[v] = "checked", job'[v].op = "soft_delete_course",
             NEW c \in Courses, c = job'[v].row
      PROVE  BatchesOf(c)' \subseteq unseen'[v]
  <2>1. BatchesOf(c) \subseteq unseen[v]  BY <1>1, <1>2 DEF CountsStand
  <2>2. BatchesOf(c)' \subseteq BatchesOf(c) \cup rows  OBVIOUS
  <2>3. QED  BY <1>1, <1>2, <2>1, <2>2
<1>3. ASSUME NEW v \in Workers, pc'[v] = "checked", job'[v].op = "soft_delete_subject",
             NEW s \in Subjects, s = job'[v].row
      PROVE  SlotsOf(s)' \subseteq unseen'[v]
  <2>1. SlotsOf(s) \subseteq unseen[v]  BY <1>1, <1>3 DEF CountsStand
  <2>2. SlotsOf(s)' \subseteq SlotsOf(s) \cup rows  OBVIOUS
  <2>3. QED  BY <1>1, <1>3, <2>1, <2>2
<1>4. QED  BY <1>2, <1>3 DEF CountsStand

LEMMA EditsKept ==
  ASSUME CatalogueJobs, EditsStand, NEW rows, Written(rows),
         \A c \in Courses \ rows : course'[c] = course[c],
         \A s \in Subjects \ rows : subject'[s] = subject[s]
  PROVE  EditsStand'
<1> SUFFICES ASSUME NEW v \in Workers, pc'[v] \in {"loaded", "checked"},
                    job'[v].row \notin missed'[v]
             PROVE  /\ job'[v].op = "update_course" => ~course'[job'[v].row].is_deleted
                    /\ job'[v].op = "update_subject" => ~subject'[job'[v].row].is_deleted
  BY DEF EditsStand
<1>1. pc[v] = pc'[v] /\ job'[v] = job[v] /\ missed'[v] = missed[v] \cup rows  BY DEF Written
<1>2. CatalogueJob(pc[v], job[v], course, subject, batch, material)  BY <1>1 DEF CatalogueJobs
<1>3. QED  BY <1>1, <1>2 DEF CatalogueJob, There, EditsStand

LEMMA PairsKept ==
  ASSUME CatalogueJobs, PairsStand, NEW rows, Written(rows),
         \A s \in Subjects \ rows : subject[s] # None => subject'[s].course = subject[s].course,
         \A b \in Batches \ rows : batch[b] # None => batch'[b].course = batch[b].course
  PROVE  PairsStand'
<1> SUFFICES ASSUME NEW v \in Workers, pc'[v] = "checked", job'[v].op \in MaterialEdits,
                    NEW row \in MaterialRow, row = job'[v].new, ~Stale(v, row)'
             PROVE  Fits(row)'
  BY DEF PairsStand
<1>1. pc[v] = "checked" /\ job'[v] = job[v] /\ missed'[v] = missed[v] \cup rows  BY DEF Written
<1>2. CatalogueJob(pc[v], job[v], course, subject, batch, material)  BY <1>1 DEF CatalogueJobs
<1>3. Placed(row, subject, batch)  BY <1>1, <1>2 DEF CatalogueJob
<1>4. row.subject \notin missed'[v] /\ row.batch \notin missed'[v]  BY DEF Stale
<1>5. ~Stale(v, row)  BY <1>1, <1>4 DEF Stale
<1>6. Fits(row)  BY <1>1, <1>5 DEF PairsStand
<1>7. row.batch # None => batch'[row.batch].course = subject'[row.subject].course
  BY <1>1, <1>3, <1>4, <1>6 DEF Fits, Placed, There
<1>8. QED  BY <1>7 DEF Fits

\* A step of the catalogue leaves the knowledge base alone, and the requests to it.
LEMMA KnowledgeAside ==
  ASSUME KnowledgeInv, UNCHANGED knowledge,
         \A v \in Workers : pc'[v] \in Indexes \cup Syncs =>
           pc'[v] = pc[v] /\ job'[v] = job[v] /\ unseen[v] \subseteq unseen'[v],
         \A v \in Workers : pc'[v] = "loaded" /\ job'[v].op \in Writings => WritingJob(job'[v])
  PROVE  KnowledgeInv'
<1>1. UNCHANGED <<document, chunk, ingestion, disturbed, withdrawn>>  BY DEF knowledge
<1>2. KnowledgeTypeOK' /\ ChunksAreCut'  BY <1>1 DEF KnowledgeInv, KnowledgeTypeOK, ChunksAreCut
<1>3. KnowledgeJobs'
  <2>1. ASSUME NEW v \in Workers, pc'[v] \in Indexes \cup Syncs
        PROVE  IndexingJob(pc'[v], job'[v])
    BY <2>1 DEF KnowledgeInv, KnowledgeJobs
  <2>2. QED  BY <2>1 DEF KnowledgeJobs, WritingJob, IndexingJob
<1>4. IndexingsStand'
  <2> SUFFICES ASSUME NEW v \in Workers
               PROVE  IndexStands(pc'[v], job'[v], unseen'[v], document', chunk')
    BY DEF IndexingsStand, IndexStands
  <2>1. CASE pc'[v] \notin Indexes  BY <2>1 DEF IndexStands, Indexes
  <2>2. CASE pc'[v] \in Indexes
    <3>1. pc'[v] = pc[v] /\ job'[v] = job[v] /\ unseen[v] \subseteq unseen'[v]  BY <2>2
    <3>2. IndexStands(pc[v], job[v], unseen[v], document, chunk)
      BY DEF KnowledgeInv, IndexingsStand
    <3>3. QED  BY <1>1, <3>1, <3>2 DEF IndexStands
  <2>3. QED  BY <2>1, <2>2
<1>5. PoliciesProvided'
  <2>1. CompletedIngests'
    BY <1>1 DEF KnowledgeInv, PoliciesProvided, CompletedIngests, Titled
  <2>2. ASSUME NEW v \in Workers, pc'[v] \in Indexes \cup Syncs, job'[v].op = "sync",
               NEW n \in Past(pc'[v], job'[v])
        PROVE  Provided(n)'
    BY <1>1, <2>2 DEF KnowledgeInv, PoliciesProvided, Provided, Titled
  <2>3. QED  BY <2>1, <2>2 DEF PoliciesProvided, Past, Provided, Titled
<1>6. QED  BY <1>2, <1>3, <1>4, <1>5 DEF KnowledgeInv

-----------------------------------------------------------------------------
(* Steps of the catalogue.                                                  *)

\* A request is loaded from the tables as they are.
LEMMA StartKeeps ==
  ASSUME IInv, NEW w \in Workers, NEW phase \in {"loaded", "checked"}, NEW j, Start(w, phase, j),
         CatalogueJob(phase, j, course, subject, batch, material),
         phase = "checked" => j.op \in MaterialEdits \cup {"soft_delete_material"},
         j.op = "update_course" => ~course[j.row].is_deleted,
         j.op = "update_subject" => ~subject[j.row].is_deleted,
         j.op \in MaterialEdits => Fits(j.new),
         j.op \in Writings => WritingJob(j),
         UNCHANGED knowledge
  PROVE  IInv'
<1>1. /\ pc' = [pc EXCEPT ![w] = phase] /\ job' = [job EXCEPT ![w] = j]
      /\ missed' = [missed EXCEPT ![w] = {}] /\ unseen' = [unseen EXCEPT ![w] = {}]
      /\ UNCHANGED <<course, subject, batch, material, slots, displaced>>
  BY DEF Start, catalogue
<1>2. Shapes'  BY <1>1 DEF IInv, Shapes, Phases
<1>3. /\ pc'[w] = phase /\ job'[w] = j
      /\ \A v \in Workers : v # w =>
           /\ pc'[v] = pc[v] /\ job'[v] = job[v]
           /\ missed'[v] = missed[v] /\ unseen'[v] = unseen[v]
  BY <1>1 DEF IInv, Shapes
<1>4. CatalogueTypeOK' /\ MaterialsPlaced'
  BY <1>1 DEF IInv, CatalogueInv, CatalogueTypeOK, MaterialsPlaced, LiveBatches, LiveRows, Placed, There
<1>5. MaterialFitsCohort'
  BY <1>1 DEF IInv, CatalogueInv, MaterialFitsCohort, LiveMaterials, LiveRows, Fits
<1>6. CatalogueJobs'  BY <1>1, <1>3 DEF IInv, CatalogueInv, CatalogueJobs
<1>7. CountsStand'
  BY <1>1, <1>3 DEF IInv, CatalogueInv, CountsStand, BatchesOf, SlotsOf, LiveBatches, LiveRows,
                    MaterialEdits
<1>8. EditsStand'  BY <1>1, <1>3 DEF IInv, CatalogueInv, EditsStand
<1>9. PairsStand'
  <2> SUFFICES ASSUME NEW v \in Workers, pc'[v] = "checked", job'[v].op \in MaterialEdits,
                      NEW row \in MaterialRow, row = job'[v].new, ~Stale(v, row)'
               PROVE  Fits(row)'
    BY DEF PairsStand
  <2>1. Fits(row)
    <3>1. CASE v = w  BY <1>3, <3>1
    <3>2. CASE v # w
      <4>1. ~Stale(v, row)  BY <1>3, <3>2 DEF Stale
      <4>2. QED  BY <1>3, <3>2, <4>1 DEF IInv, CatalogueInv, PairsStand
    <3>3. QED  BY <3>1, <3>2
  <2>2. QED  BY <1>1, <2>1 DEF Fits
<1>10. KnowledgeInv'
  <2>1. \A v \in Workers : pc'[v] \in Indexes \cup Syncs =>
          pc'[v] = pc[v] /\ job'[v] = job[v] /\ unseen[v] \subseteq unseen'[v]
    BY <1>3 DEF Indexes, Syncs
  <2>2. \A v \in Workers : pc'[v] = "loaded" /\ job'[v].op \in Writings => WritingJob(job'[v])
    BY <1>3 DEF IInv, KnowledgeInv, KnowledgeJobs
  <2>3. QED  BY <2>1, <2>2, KnowledgeAside DEF IInv
<1>11. QED  BY <1>2, <1>4, <1>5, <1>6, <1>7, <1>8, <1>9, <1>10 DEF IInv, CatalogueInv

\* A step that writes these rows of the catalogue.
LEMMA WriteKeeps ==
  ASSUME IInv, Shapes', NEW rows, Written(rows), UNCHANGED knowledge,
         \A c \in Courses : course[c] # None => course'[c] # None,
         \A s \in Subjects : subject[s] # None => subject'[s] # None,
         \A b \in Batches : batch[b] # None => batch'[b] # None,
         \A m \in Materials : material[m] # None => material'[m] # None,
         \A c \in Courses : BatchesOf(c)' \subseteq BatchesOf(c) \cup rows,
         \A s \in Subjects : SlotsOf(s)' \subseteq SlotsOf(s) \cup rows,
         \A c \in Courses \ rows : course'[c] = course[c],
         \A s \in Subjects \ rows : subject'[s] = subject[s],
         \A b \in Batches \ rows : batch[b] # None => batch'[b].course = batch[b].course,
         CatalogueTypeOK', MaterialsPlaced', MaterialFitsCohort'
  PROVE  IInv'
<1>1. CatalogueJobs'  BY CatalogueJobsKept DEF IInv, CatalogueInv
<1>2. CountsStand'  BY CountsKept DEF IInv, CatalogueInv
<1>3. EditsStand'  BY EditsKept DEF IInv, CatalogueInv
<1>4. \A s \in Subjects \ rows : subject[s] # None => subject'[s].course = subject[s].course
  OBVIOUS
<1>5. PairsStand'  BY <1>4, PairsKept DEF IInv, CatalogueInv
<1>6. KnowledgeInv'
  <2>1. \A v \in Workers : pc'[v] \in Indexes \cup Syncs =>
          pc'[v] = pc[v] /\ job'[v] = job[v] /\ unseen[v] \subseteq unseen'[v]
    BY DEF Written, Indexes, Syncs
  <2>2. \A v \in Workers : pc'[v] = "loaded" /\ job'[v].op \in Writings => WritingJob(job'[v])
    BY DEF Written, IInv, KnowledgeInv, KnowledgeJobs
  <2>3. QED  BY <2>1, <2>2, KnowledgeAside DEF IInv
<1>7. QED  BY <1>1, <1>2, <1>3, <1>5, <1>6 DEF IInv, CatalogueInv

LEMMA InitFits == Init => IInv
<1> SUFFICES ASSUME Init PROVE IInv  OBVIOUS
<1>1. PICK sc \in Scenarios :
        /\ CatalogueInit(sc) /\ document = sc.document /\ ingestion = sc.ingestion
  BY DEF Init
<1>2. /\ pc = [w \in Workers |-> "idle"] /\ material = [m \in Materials |-> None]
      /\ job = [w \in Workers |-> NoJob]
      /\ missed = [w \in Workers |-> {}] /\ unseen = [w \in Workers |-> {}]
  BY <1>1 DEF CatalogueInit
<1>3. Shapes  BY <1>2 DEF Shapes, Phases
<1>4. CatalogueTypeOK  BY <1>1, CatalogueAssumption DEF CatalogueInit, CatalogueTypeOK
<1>5. MaterialsPlaced /\ MaterialFitsCohort
  BY <1>2 DEF MaterialsPlaced, MaterialFitsCohort, LiveMaterials, LiveRows
<1>6. CatalogueJobs /\ CountsStand /\ EditsStand /\ PairsStand
  BY <1>2 DEF CatalogueJobs, CountsStand, EditsStand, PairsStand
<1>7. document \in [Documents -> DocumentRow \cup {None}]
  BY <1>1, KnowledgeAssumption
<1>8. KnowledgeTypeOK
  BY <1>1, <1>7, KnowledgeAssumption DEF Init, KnowledgeTypeOK, JobStatuses
<1>9. KnowledgeJobs /\ IndexingsStand
  BY <1>2 DEF KnowledgeJobs, IndexingsStand, IndexStands, Indexes, Syncs
<1>10. ChunksAreCut  BY DEF Init, ChunksAreCut
<1>11. PoliciesProvided
  <2>1. CompletedIngests  BY <1>1, KnowledgeAssumption DEF CompletedIngests, JobStatuses
  <2>2. QED  BY <1>2, <2>1 DEF PoliciesProvided, Indexes, Syncs
<1>12. QED
  BY <1>3, <1>4, <1>5, <1>6, <1>8, <1>9, <1>10, <1>11 DEF IInv, CatalogueInv, KnowledgeInv

LEMMA LoadCourseKeeps ==
  ASSUME IInv, NEW w \in Workers, LoadCourse(w), UNCHANGED knowledge
  PROVE  IInv'
<1>1. CASE \E code \in Codes :
        Load(w, [op |-> "create_course", row |-> None, new |-> [code |-> code, is_deleted |-> FALSE]])
  <2>1. PICK code \in Codes :
          Load(w, [op |-> "create_course", row |-> None, new |-> [code |-> code, is_deleted |-> FALSE]])
    BY <1>1
  <2>2. PICK j : j = [op |-> "create_course", row |-> None,
                      new |-> [code |-> code, is_deleted |-> FALSE]]
    OBVIOUS
  <2>3. Start(w, "loaded", j)  BY <2>1, <2>2 DEF Load
  <2>4. CatalogueJob("loaded", j, course, subject, batch, material)
    BY <2>2 DEF CatalogueJob, Courseware, CourseRow, MaterialEdits
  <2>5. j.op \notin MaterialEdits \cup Writings \cup {"update_course", "update_subject"}
    BY <2>2 DEF MaterialEdits, Writings
  <2>6. QED  BY <2>3, <2>4, <2>5, StartKeeps
<1>2. CASE \E c \in LiveCourses, code \in Codes :
        Load(w, [op |-> "update_course", row |-> c, new |-> [course[c] EXCEPT !.code = code]])
  <2>1. PICK c \in LiveCourses, code \in Codes :
          Load(w, [op |-> "update_course", row |-> c, new |-> [course[c] EXCEPT !.code = code]])
    BY <1>2
  <2>2. PICK new : new = [course[c] EXCEPT !.code = code]  OBVIOUS
  <2>3. course[c] \in CourseRow /\ ~course[c].is_deleted /\ c \in Courses /\ course[c] # None
    BY DEF IInv, CatalogueInv, CatalogueTypeOK, LiveCourses, LiveRows
  <2>4. new \in CourseRow /\ ~new.is_deleted  BY <2>2, <2>3 DEF CourseRow
  <2>5. PICK j : j = [op |-> "update_course", row |-> c, new |-> new]  OBVIOUS
  <2>6. Start(w, "loaded", j)  BY <2>1, <2>2, <2>5 DEF Load
  <2>7. CatalogueJob("loaded", j, course, subject, batch, material)
    BY <2>3, <2>4, <2>5 DEF CatalogueJob, Courseware, MaterialEdits, There
  <2>8. j.op \notin MaterialEdits \cup Writings \cup {"update_subject"} /\ ~course[j.row].is_deleted
    BY <2>3, <2>5 DEF MaterialEdits, Writings
  <2>9. QED  BY <2>6, <2>7, <2>8, StartKeeps
<1>3. CASE \E c \in LiveCourses : Load(w, [op |-> "soft_delete_course", row |-> c])
  <2>1. PICK c \in LiveCourses : Load(w, [op |-> "soft_delete_course", row |-> c])  BY <1>3
  <2>2. c \in Courses /\ course[c] # None  BY DEF LiveCourses, LiveRows
  <2>3. PICK j : j = [op |-> "soft_delete_course", row |-> c]  OBVIOUS
  <2>4. Start(w, "loaded", j)  BY <2>1, <2>3 DEF Load
  <2>5. CatalogueJob("loaded", j, course, subject, batch, material)
    BY <2>2, <2>3 DEF CatalogueJob, Courseware, MaterialEdits, There
  <2>6. j.op \notin MaterialEdits \cup Writings \cup {"update_course", "update_subject"}
    BY <2>3 DEF MaterialEdits, Writings
  <2>7. QED  BY <2>4, <2>5, <2>6, StartKeeps
<1>4. QED  BY <1>1, <1>2, <1>3 DEF LoadCourse

LEMMA LoadSubjectKeeps ==
  ASSUME IInv, NEW w \in Workers, LoadSubject(w), UNCHANGED knowledge
  PROVE  IInv'
<1>1. CASE \E code \in Codes, c \in Courses :
        /\ course[c] # None
        /\ Load(w, [op |-> "create_subject", row |-> None,
                    new |-> [course |-> c, code |-> code, is_deleted |-> FALSE]])
  <2>1. PICK code \in Codes, c \in Courses :
          Load(w, [op |-> "create_subject", row |-> None,
                   new |-> [course |-> c, code |-> code, is_deleted |-> FALSE]])
    BY <1>1
  <2>2. PICK j : j = [op |-> "create_subject", row |-> None,
                      new |-> [course |-> c, code |-> code, is_deleted |-> FALSE]]
    OBVIOUS
  <2>3. Start(w, "loaded", j)  BY <2>1, <2>2 DEF Load
  <2>4. CatalogueJob("loaded", j, course, subject, batch, material)
    BY <2>2 DEF CatalogueJob, Courseware, SubjectRow, MaterialEdits
  <2>5. j.op \notin MaterialEdits \cup Writings \cup {"update_course", "update_subject"}
    BY <2>2 DEF MaterialEdits, Writings
  <2>6. QED  BY <2>3, <2>4, <2>5, StartKeeps
<1>2. CASE \E s \in LiveSubjects, code \in Codes, c \in Courses :
        /\ course[c] # None
        /\ Load(w, [op |-> "update_subject", row |-> s,
                    new |-> [subject[s] EXCEPT !.course = c, !.code = code]])
  <2>1. PICK s \in LiveSubjects, code \in Codes, c \in Courses :
          Load(w, [op |-> "update_subject", row |-> s,
                   new |-> [subject[s] EXCEPT !.course = c, !.code = code]])
    BY <1>2
  <2>2. PICK new : new = [subject[s] EXCEPT !.course = c, !.code = code]  OBVIOUS
  <2>3. /\ subject[s] \in SubjectRow /\ ~subject[s].is_deleted
        /\ s \in Subjects /\ subject[s] # None
    BY DEF IInv, CatalogueInv, CatalogueTypeOK, LiveSubjects, LiveRows
  <2>4. new \in SubjectRow /\ ~new.is_deleted  BY <2>2, <2>3 DEF SubjectRow
  <2>5. PICK j : j = [op |-> "update_subject", row |-> s, new |-> new]  OBVIOUS
  <2>6. Start(w, "loaded", j)  BY <2>1, <2>2, <2>5 DEF Load
  <2>7. CatalogueJob("loaded", j, course, subject, batch, material)
    BY <2>3, <2>4, <2>5 DEF CatalogueJob, Courseware, MaterialEdits, There
  <2>8. j.op \notin MaterialEdits \cup Writings \cup {"update_course"} /\ ~subject[j.row].is_deleted
    BY <2>3, <2>5 DEF MaterialEdits, Writings
  <2>9. QED  BY <2>6, <2>7, <2>8, StartKeeps
<1>3. CASE \E s \in LiveSubjects : Load(w, [op |-> "soft_delete_subject", row |-> s])
  <2>1. PICK s \in LiveSubjects : Load(w, [op |-> "soft_delete_subject", row |-> s])  BY <1>3
  <2>2. s \in Subjects /\ subject[s] # None  BY DEF LiveSubjects, LiveRows
  <2>3. PICK j : j = [op |-> "soft_delete_subject", row |-> s]  OBVIOUS
  <2>4. Start(w, "loaded", j)  BY <2>1, <2>3 DEF Load
  <2>5. CatalogueJob("loaded", j, course, subject, batch, material)
    BY <2>2, <2>3 DEF CatalogueJob, Courseware, MaterialEdits, There
  <2>6. j.op \notin MaterialEdits \cup Writings \cup {"update_course", "update_subject"}
    BY <2>3 DEF MaterialEdits, Writings
  <2>7. QED  BY <2>4, <2>5, <2>6, StartKeeps
<1>4. QED  BY <1>1, <1>2, <1>3 DEF LoadSubject

LEMMA LoadMaterialKeeps ==
  ASSUME IInv, NEW w \in Workers, LoadMaterial(w), UNCHANGED knowledge
  PROVE  IInv'
<1>1. PICK s \in Subjects, b \in Batches \cup {None} :
        LET new == [subject |-> s, batch |-> b, is_deleted |-> FALSE] IN
        /\ subject[s] # None
        /\ b # None => batch[b] # None
        /\ Fits(new)
        /\ \/ Start(w, "checked", [op |-> "publish_material", row |-> None, seen |-> None,
                                   new |-> new])
           \/ \E m \in LiveMaterials :
                Start(w, "checked", [op |-> "update_material", row |-> m, seen |-> material[m],
                                     new |-> new])
  BY DEF LoadMaterial
<1>2. PICK new : new = [subject |-> s, batch |-> b, is_deleted |-> FALSE]  OBVIOUS
<1>3. subject[s] # None /\ (b # None => batch[b] # None) /\ Fits(new)  BY <1>1, <1>2
<1>4a. PICK op \in MaterialEdits : \E row, seen :
        /\ Start(w, "checked", [op |-> op, row |-> row, seen |-> seen, new |-> new])
        /\ op = "publish_material" => row = None
        /\ op = "update_material" => row \in LiveMaterials
  BY <1>1, <1>2 DEF MaterialEdits
<1>4. PICK row, seen :
        /\ Start(w, "checked", [op |-> op, row |-> row, seen |-> seen, new |-> new])
        /\ op = "publish_material" => row = None
        /\ op = "update_material" => row \in LiveMaterials
  BY <1>4a
<1>5. PICK j : j = [op |-> op, row |-> row, seen |-> seen, new |-> new]  OBVIOUS
<1>6. new \in MaterialRow  BY <1>2 DEF MaterialRow
<1>7. Placed(new, subject, batch)  BY <1>2, <1>3 DEF Placed, There
<1>8. op = "update_material" => There(Materials, material, row)
  BY <1>4 DEF LiveMaterials, LiveRows, There
<1>9. CatalogueJob("checked", j, course, subject, batch, material)
  BY <1>4, <1>5, <1>6, <1>7, <1>8 DEF CatalogueJob, MaterialEdits, Writings
<1>10. j.op \notin Writings \cup {"update_course", "update_subject"} /\ j.op \in MaterialEdits
  BY <1>5 DEF MaterialEdits, Writings
<1>11. Start(w, "checked", j) /\ Fits(j.new)  BY <1>3, <1>4, <1>5
<1>12. QED  BY <1>9, <1>10, <1>11, StartKeeps

LEMMA LoadDeleteMaterialKeeps ==
  ASSUME IInv, NEW w \in Workers, LoadDeleteMaterial(w), UNCHANGED knowledge
  PROVE  IInv'
<1>1. PICK m \in LiveMaterials : Start(w, "checked", [op |-> "soft_delete_material", row |-> m])
  BY DEF LoadDeleteMaterial
<1>2. m \in Materials /\ material[m] # None  BY DEF LiveMaterials, LiveRows
<1>3. PICK j : j = [op |-> "soft_delete_material", row |-> m]  OBVIOUS
<1>4. Start(w, "checked", j) /\ j.op = "soft_delete_material"  BY <1>1, <1>3
<1>5. CatalogueJob("checked", j, course, subject, batch, material)
  BY <1>2, <1>3 DEF CatalogueJob, MaterialEdits, Writings, There
<1>6. j.op \notin MaterialEdits \cup Writings \cup {"update_course", "update_subject"}
  BY <1>3 DEF MaterialEdits, Writings
<1>7. QED  BY <1>4, <1>5, <1>6, StartKeeps

LEMMA LoadDocumentKeeps ==
  ASSUME IInv, NEW w \in Workers, LoadDocument(w)
  PROVE  IInv'
<1>1. PICK new \in Payloads :
        \/ Load(w, [op |-> "create_document", row |-> None, new |-> new])
        \/ \E d \in Documents :
             /\ document[d] # None
             /\ Load(w, [op |-> "update_document", row |-> d, new |-> new])
  BY DEF LoadDocument
<1>2a. PICK op \in Writings : \E row :
        /\ Load(w, [op |-> op, row |-> row, new |-> new])
        /\ op = "create_document" => row = None
        /\ op = "update_document" => row \in Documents
  BY <1>1 DEF Writings
<1>2. PICK row :
        /\ Load(w, [op |-> op, row |-> row, new |-> new])
        /\ op = "create_document" => row = None
        /\ op = "update_document" => row \in Documents
  BY <1>2a
<1>3. PICK j : j = [op |-> op, row |-> row, new |-> new]  OBVIOUS
<1>4. Start(w, "loaded", j)  BY <1>2, <1>3 DEF Load
<1>5. new \in DocumentRow  BY KnowledgeAssumption
<1>6. WritingJob(j)  BY <1>2, <1>3, <1>5 DEF WritingJob
<1>7. CatalogueJob("loaded", j, course, subject, batch, material)
  BY <1>3 DEF CatalogueJob, Writings, MaterialEdits
<1>8. j.op \notin MaterialEdits \cup {"update_course", "update_subject"}
  BY <1>3 DEF MaterialEdits, Writings
<1>9. UNCHANGED knowledge  BY DEF LoadDocument
<1>10. QED  BY <1>4, <1>6, <1>7, <1>8, <1>9, StartKeeps

LEMMA CheckKeeps ==
  ASSUME IInv, NEW w \in Workers, Check(w), UNCHANGED knowledge
  PROVE  IInv'
<1>1. /\ pc[w] = "loaded" /\ job[w].op \in Courseware /\ Passes(job[w])
      /\ pc' = [pc EXCEPT ![w] = "checked"]
      /\ UNCHANGED <<course, subject, batch, material, slots, displaced, job, missed, unseen>>
  BY DEF Check, catalogue
<1>2. Shapes'  BY <1>1 DEF IInv, Shapes, Phases
<1>3. pc'[w] = "checked" /\ \A v \in Workers : v # w => pc'[v] = pc[v]
  BY <1>1 DEF IInv, Shapes
<1>4. CatalogueTypeOK' /\ MaterialsPlaced'
  BY <1>1 DEF IInv, CatalogueInv, CatalogueTypeOK, MaterialsPlaced, LiveBatches, LiveRows, Placed, There
<1>5. MaterialFitsCohort'
  BY <1>1 DEF IInv, CatalogueInv, MaterialFitsCohort, LiveMaterials, LiveRows, Fits
<1>6. CatalogueJobs'
  <2> SUFFICES ASSUME NEW v \in Workers, pc'[v] \in {"loaded", "checked"}
               PROVE  CatalogueJob(pc'[v], job[v], course, subject, batch, material)
    BY <1>1 DEF CatalogueJobs
  <2>1. CASE v = w
    <3>1. CatalogueJob("loaded", job[w], course, subject, batch, material)
      BY <1>1 DEF IInv, CatalogueInv, CatalogueJobs
    <3>2. QED  BY <1>1, <1>3, <2>1, <3>1 DEF CatalogueJob, Courseware, Writings
  <2>2. CASE v # w  BY <1>3, <2>2 DEF IInv, CatalogueInv, CatalogueJobs
  <2>3. QED  BY <2>1, <2>2
<1>7. CountsStand'
  <2>1. ASSUME NEW v \in Workers, pc'[v] = "checked", job[v].op = "soft_delete_course",
               NEW c \in Courses, c = job[v].row
        PROVE  BatchesOf(c) \subseteq unseen[v]
    BY <1>1, <1>3, <2>1 DEF IInv, CatalogueInv, CountsStand, Passes
  <2>2. ASSUME NEW v \in Workers, pc'[v] = "checked", job[v].op = "soft_delete_subject",
               NEW s \in Subjects, s = job[v].row
        PROVE  SlotsOf(s) \subseteq unseen[v]
    BY <1>1, <1>3, <2>2 DEF IInv, CatalogueInv, CountsStand, Passes
  <2>3. QED  BY <1>1, <2>1, <2>2 DEF CountsStand, BatchesOf, SlotsOf, LiveBatches, LiveRows
<1>8. EditsStand'  BY <1>1, <1>3 DEF IInv, CatalogueInv, EditsStand
<1>9. PairsStand'
  <2>1. job[w].op \notin MaterialEdits  BY <1>1 DEF Courseware, MaterialEdits
  <2>2. QED  BY <1>1, <1>3, <2>1 DEF IInv, CatalogueInv, PairsStand, Stale, Fits
<1>10. KnowledgeInv'
  <2>1. \A v \in Workers : pc'[v] \in Indexes \cup Syncs =>
          pc'[v] = pc[v] /\ job'[v] = job[v] /\ unseen[v] \subseteq unseen'[v]
    BY <1>1, <1>3 DEF Indexes, Syncs
  <2>2. \A v \in Workers : pc'[v] = "loaded" /\ job'[v].op \in Writings => WritingJob(job'[v])
    BY <1>1, <1>3 DEF IInv, KnowledgeInv, KnowledgeJobs
  <2>3. QED  BY <2>1, <2>2, KnowledgeAside DEF IInv
<1>11. QED  BY <1>2, <1>4, <1>5, <1>6, <1>7, <1>8, <1>9, <1>10 DEF IInv, CatalogueInv

LEMMA RollBackKeeps ==
  ASSUME IInv, NEW w \in Workers, RollBack(w), UNCHANGED knowledge
  PROVE  IInv'
<1>1. PICK rows : rows = {}  OBVIOUS
<1>2. End(w, rows) /\ UNCHANGED <<course, subject, batch, material, slots, displaced>>
  BY <1>1 DEF RollBack, catalogue
<1>3. Shapes' /\ Written(rows)  BY <1>2, EndWrites DEF IInv
<1>4. CatalogueTypeOK' /\ MaterialsPlaced'
  BY <1>2 DEF IInv, CatalogueInv, CatalogueTypeOK, MaterialsPlaced, LiveBatches, LiveRows, Placed, There
<1>5. MaterialFitsCohort'
  BY <1>2 DEF IInv, CatalogueInv, MaterialFitsCohort, LiveMaterials, LiveRows, Fits
<1>6. /\ \A c \in Courses : BatchesOf(c)' \subseteq BatchesOf(c) \cup rows
      /\ \A s \in Subjects : SlotsOf(s)' \subseteq SlotsOf(s) \cup rows
  BY <1>2 DEF BatchesOf, SlotsOf, LiveBatches, LiveRows
<1>7. QED  BY <1>2, <1>3, <1>4, <1>5, <1>6, WriteKeeps

\* Writing a course, and leaving the rest alone.
LEMMA CourseWritten ==
  ASSUME IInv, NEW w \in Workers, NEW c \in Courses, NEW row \in CourseRow,
         course' = [course EXCEPT ![c] = row], NEW rows, rows = {c}, End(w, rows),
         UNCHANGED <<subject, batch, material, slots, displaced>>, UNCHANGED knowledge
  PROVE  IInv'
<1>1. Shapes' /\ Written(rows)  BY EndWrites DEF IInv
<1>2. row # None  BY CatalogueAssumption
<1>3. course \in [Courses -> CourseRow \cup {None}]  BY DEF IInv, CatalogueInv, CatalogueTypeOK
<1>4. /\ course' \in [Courses -> CourseRow \cup {None}]
      /\ course'[c] = row /\ \A x \in Courses : x # c => course'[x] = course[x]
  BY <1>3
<1>5. CatalogueTypeOK' /\ MaterialsPlaced'
  BY <1>4 DEF IInv, CatalogueInv, CatalogueTypeOK, MaterialsPlaced, LiveBatches, LiveRows, Placed, There
<1>6. MaterialFitsCohort'
  BY DEF IInv, CatalogueInv, MaterialFitsCohort, LiveMaterials, LiveRows, Fits
<1>7. /\ \A x \in Courses : BatchesOf(x)' \subseteq BatchesOf(x) \cup rows
      /\ \A s \in Subjects : SlotsOf(s)' \subseteq SlotsOf(s) \cup rows
  BY DEF BatchesOf, SlotsOf, LiveBatches, LiveRows
<1>8. \A x \in Courses : course[x] # None => course'[x] # None  BY <1>2, <1>4
<1>9. \A x \in Courses \ rows : course'[x] = course[x]  BY <1>4
<1>10. QED  BY <1>1, <1>5, <1>6, <1>7, <1>8, <1>9, WriteKeeps

LEMMA SaveCourseKeeps ==
  ASSUME IInv, NEW w \in Workers, SaveCourse(w), UNCHANGED knowledge
  PROVE  IInv'
<1>1. CatalogueJob("checked", job[w], course, subject, batch, material)
  BY DEF SaveCourse, Writing, IInv, CatalogueInv, CatalogueJobs
<1>2. job[w].op \in {"create_course", "update_course"}  BY DEF SaveCourse, Writing
<1>3. PICK c \in Target(job[w], Courses, course) :
        course' = [course EXCEPT ![c] = job[w].new] /\ End(w, {c})
  BY DEF SaveCourse
<1>4. c \in Courses  BY <1>1, <1>2, <1>3 DEF Target, CatalogueJob, There
<1>5. PICK row \in CourseRow : row = job[w].new  BY <1>1, <1>2 DEF CatalogueJob
<1>6. PICK rows : rows = {c}  OBVIOUS
<1>7. course' = [course EXCEPT ![c] = row] /\ End(w, rows)  BY <1>3, <1>5, <1>6
<1>8. UNCHANGED <<subject, batch, material, slots, displaced>>  BY DEF SaveCourse
<1>9. QED  BY <1>4, <1>6, <1>7, <1>8, CourseWritten

LEMMA DeleteCourseKeeps ==
  ASSUME IInv, NEW w \in Workers, DeleteCourse(w), UNCHANGED knowledge
  PROVE  IInv'
<1>1. CatalogueJob("checked", job[w], course, subject, batch, material)
  BY DEF DeleteCourse, Writing, IInv, CatalogueInv, CatalogueJobs
<1>2. PICK c \in Courses : c = job[w].row /\ course[c] # None
  BY <1>1 DEF DeleteCourse, Writing, CatalogueJob, There
<1>3. course[c] \in CourseRow  BY <1>2 DEF IInv, CatalogueInv, CatalogueTypeOK
<1>4. PICK row : row = [course[c] EXCEPT !.is_deleted = TRUE]  OBVIOUS
<1>5. row \in CourseRow  BY <1>3, <1>4 DEF CourseRow
<1>6. PICK rows : rows = {c}  OBVIOUS
<1>7. course' = [course EXCEPT ![c] = row] /\ End(w, rows)
  BY <1>2, <1>4, <1>6 DEF DeleteCourse
<1>8. UNCHANGED <<subject, batch, material, slots, displaced>>  BY DEF DeleteCourse
<1>9. QED  BY <1>5, <1>6, <1>7, <1>8, CourseWritten

\* Writing a subject: if its course changes, its materials are displaced.
LEMMA SubjectWritten ==
  ASSUME IInv, NEW w \in Workers, NEW s \in Subjects, NEW row \in SubjectRow,
         subject' = [subject EXCEPT ![s] = row], NEW rows, rows = {s}, End(w, rows),
         displaced' \subseteq Materials, displaced \subseteq displaced',
         subject[s] # None /\ subject[s].course # row.course => MaterialsIn(s) \subseteq displaced',
         UNCHANGED <<course, batch, material, slots>>, UNCHANGED knowledge
  PROVE  IInv'
<1>1. Shapes' /\ Written(rows)  BY EndWrites DEF IInv
<1>2. row # None  BY CatalogueAssumption
<1>3. subject \in [Subjects -> SubjectRow \cup {None}]  BY DEF IInv, CatalogueInv, CatalogueTypeOK
<1>4. /\ subject' \in [Subjects -> SubjectRow \cup {None}]
      /\ subject'[s] = row /\ \A x \in Subjects : x # s => subject'[x] = subject[x]
  BY <1>3
<1>5. \A x \in Subjects : subject[x] # None => subject'[x] # None  BY <1>2, <1>4
<1>6. CatalogueTypeOK'  BY <1>4 DEF IInv, CatalogueInv, CatalogueTypeOK, LiveBatches, LiveRows
<1>7. MaterialsPlaced'  BY <1>5 DEF IInv, CatalogueInv, MaterialsPlaced, Placed, There
<1>8. MaterialFitsCohort'
  <2> SUFFICES ASSUME NEW m \in Materials, material[m] # None, ~material[m].is_deleted,
                      m \notin displaced', material[m].batch # None
               PROVE  batch[material[m].batch].course = subject'[material[m].subject].course
    BY DEF MaterialFitsCohort, LiveMaterials, LiveRows, Fits
  <2>1. batch[material[m].batch].course = subject[material[m].subject].course
    BY DEF IInv, CatalogueInv, MaterialFitsCohort, LiveMaterials, LiveRows, Fits
  <2>2. material[m].subject \in Subjects /\ subject[material[m].subject] # None
    BY DEF IInv, CatalogueInv, MaterialsPlaced, Placed, There
  <2>3. CASE material[m].subject = s
    <3>1. m \in MaterialsIn(s)  BY <2>3 DEF MaterialsIn
    <3>2. subject[s].course = row.course  BY <2>2, <2>3, <3>1
    <3>3. QED  BY <1>4, <2>1, <2>3, <3>2
  <2>4. CASE material[m].subject # s  BY <1>4, <2>1, <2>2, <2>4
  <2>5. QED  BY <2>3, <2>4
<1>9. /\ \A x \in Courses : BatchesOf(x)' \subseteq BatchesOf(x) \cup rows
      /\ \A x \in Subjects : SlotsOf(x)' \subseteq SlotsOf(x) \cup rows
  BY DEF BatchesOf, SlotsOf, LiveBatches, LiveRows
<1>10. \A x \in Subjects \ rows : subject'[x] = subject[x]  BY <1>4
<1>11. QED  BY <1>1, <1>5, <1>6, <1>7, <1>8, <1>9, <1>10, WriteKeeps

LEMMA SaveSubjectKeeps ==
  ASSUME IInv, NEW w \in Workers, SaveSubject(w), UNCHANGED knowledge
  PROVE  IInv'
<1>1. CatalogueJob("checked", job[w], course, subject, batch, material)
  BY DEF SaveSubject, Writing, IInv, CatalogueInv, CatalogueJobs
<1>2. job[w].op \in {"create_subject", "update_subject"}  BY DEF SaveSubject, Writing
<1>3. PICK s \in Target(job[w], Subjects, subject) :
        /\ subject' = [subject EXCEPT ![s] = job[w].new]
        /\ displaced' = IF subject[s] # None /\ subject[s].course # job[w].new.course
                        THEN displaced \cup MaterialsIn(s) ELSE displaced
        /\ End(w, {s})
  BY DEF SaveSubject
<1>4. s \in Subjects  BY <1>1, <1>2, <1>3 DEF Target, CatalogueJob, There
<1>5. PICK row \in SubjectRow : row = job[w].new  BY <1>1, <1>2 DEF CatalogueJob
<1>6. PICK rows : rows = {s}  OBVIOUS
<1>7. subject' = [subject EXCEPT ![s] = row] /\ End(w, rows)  BY <1>3, <1>5, <1>6
<1>8. displaced \subseteq Materials /\ MaterialsIn(s) \subseteq Materials
  BY DEF IInv, CatalogueInv, CatalogueTypeOK, MaterialsIn
<1>9. /\ displaced' \subseteq Materials /\ displaced \subseteq displaced'
      /\ subject[s] # None /\ subject[s].course # row.course => MaterialsIn(s) \subseteq displaced'
  BY <1>3, <1>5, <1>8
<1>10. UNCHANGED <<course, batch, material, slots>>  BY DEF SaveSubject
<1>11. QED  BY <1>4, <1>6, <1>7, <1>9, <1>10, SubjectWritten

LEMMA DeleteSubjectKeeps ==
  ASSUME IInv, NEW w \in Workers, DeleteSubject(w), UNCHANGED knowledge
  PROVE  IInv'
<1>1. CatalogueJob("checked", job[w], course, subject, batch, material)
  BY DEF DeleteSubject, Writing, IInv, CatalogueInv, CatalogueJobs
<1>2. PICK s \in Subjects : s = job[w].row /\ subject[s] # None
  BY <1>1 DEF DeleteSubject, Writing, CatalogueJob, There
<1>3. subject[s] \in SubjectRow  BY <1>2 DEF IInv, CatalogueInv, CatalogueTypeOK
<1>4. PICK row : row = [subject[s] EXCEPT !.is_deleted = TRUE]  OBVIOUS
<1>5. row \in SubjectRow /\ row.course = subject[s].course  BY <1>3, <1>4 DEF SubjectRow
<1>6. PICK rows : rows = {s}  OBVIOUS
<1>7. subject' = [subject EXCEPT ![s] = row] /\ End(w, rows)
  BY <1>2, <1>4, <1>6 DEF DeleteSubject
<1>8. UNCHANGED <<course, batch, material, slots, displaced>>  BY DEF DeleteSubject
<1>9. displaced' \subseteq Materials  BY <1>8 DEF IInv, CatalogueInv, CatalogueTypeOK
<1>10. QED  BY <1>5, <1>6, <1>7, <1>8, <1>9, SubjectWritten

\* Writing a material.
LEMMA MaterialWritten ==
  ASSUME IInv, NEW w \in Workers, NEW m \in Materials, NEW row \in MaterialRow,
         material' = [material EXCEPT ![m] = row], NEW rows, rows = {m}, End(w, rows),
         Placed(row, subject, batch), displaced' \subseteq Materials,
         \A x \in Materials : x # m => (x \in displaced <=> x \in displaced'),
         ~row.is_deleted => m \in displaced' \/ Fits(row),
         UNCHANGED <<course, subject, batch, slots>>, UNCHANGED knowledge
  PROVE  IInv'
<1>1. Shapes' /\ Written(rows)  BY EndWrites DEF IInv
<1>2. row # None  BY CatalogueAssumption
<1>3. material \in [Materials -> MaterialRow \cup {None}]
  BY DEF IInv, CatalogueInv, CatalogueTypeOK
<1>4. /\ material' \in [Materials -> MaterialRow \cup {None}]
      /\ material'[m] = row /\ \A x \in Materials : x # m => material'[x] = material[x]
  BY <1>3
<1>5. \A x \in Materials : material[x] # None => material'[x] # None  BY <1>2, <1>4
<1>6. CatalogueTypeOK'  BY <1>4 DEF IInv, CatalogueInv, CatalogueTypeOK, LiveBatches, LiveRows
<1>7. MaterialsPlaced'  BY <1>4 DEF IInv, CatalogueInv, MaterialsPlaced, Placed, There
<1>8. MaterialFitsCohort'
  <2> SUFFICES ASSUME NEW x \in Materials, material'[x] # None, ~material'[x].is_deleted,
                      x \notin displaced', material'[x].batch # None
               PROVE  batch[material'[x].batch].course = subject[material'[x].subject].course
    BY DEF MaterialFitsCohort, LiveMaterials, LiveRows, Fits
  <2>1. CASE x = m  BY <1>4, <2>1 DEF Fits
  <2>2. CASE x # m
    <3>1. material'[x] = material[x] /\ x \notin displaced  BY <1>4, <2>2
    <3>2. QED
      BY <3>1 DEF IInv, CatalogueInv, MaterialFitsCohort, LiveMaterials, LiveRows, Fits
  <2>3. QED  BY <2>1, <2>2
<1>9. /\ \A x \in Courses : BatchesOf(x)' \subseteq BatchesOf(x) \cup rows
      /\ \A x \in Subjects : SlotsOf(x)' \subseteq SlotsOf(x) \cup rows
  BY DEF BatchesOf, SlotsOf, LiveBatches, LiveRows
<1>10. QED  BY <1>1, <1>5, <1>6, <1>7, <1>8, <1>9, WriteKeeps

LEMMA SaveMaterialKeeps ==
  ASSUME IInv, NEW w \in Workers, SaveMaterial(w), UNCHANGED knowledge
  PROVE  IInv'
<1>1. pc[w] = "checked" /\ job[w].op \in MaterialEdits
  BY DEF SaveMaterial, WriteMaterial, Writing, MaterialEdits
<1>2. CatalogueJob("checked", job[w], course, subject, batch, material)
  BY <1>1 DEF IInv, CatalogueInv, CatalogueJobs
<1>3. PICK m \in Target(job[w], Materials, material) :
        /\ material' = [material EXCEPT ![m] = job[w].new]
        /\ displaced' = IF Stale(w, job[w].new) THEN displaced \cup {m} ELSE displaced \ {m}
        /\ End(w, {m})
  BY DEF SaveMaterial, WriteMaterial
<1>4. m \in Materials
  BY <1>1, <1>2, <1>3 DEF Target, CatalogueJob, There, MaterialEdits
<1>5. PICK row \in MaterialRow : row = job[w].new  BY <1>1, <1>2 DEF CatalogueJob
<1>6. Placed(row, subject, batch)  BY <1>1, <1>2, <1>5 DEF CatalogueJob
<1>7. Stale(w, row) \/ Fits(row)  BY <1>1, <1>5 DEF IInv, CatalogueInv, PairsStand
<1>8. PICK rows : rows = {m}  OBVIOUS
<1>9. material' = [material EXCEPT ![m] = row] /\ End(w, rows)  BY <1>3, <1>5, <1>8
<1>10. displaced' = IF Stale(w, row) THEN displaced \cup {m} ELSE displaced \ {m}
  BY <1>3, <1>5
<1>11. displaced \subseteq Materials  BY DEF IInv, CatalogueInv, CatalogueTypeOK
<1>12. /\ displaced' \subseteq Materials
       /\ \A x \in Materials : x # m => (x \in displaced <=> x \in displaced')
       /\ ~row.is_deleted => m \in displaced' \/ Fits(row)
  BY <1>4, <1>7, <1>10, <1>11
<1>13. UNCHANGED <<course, subject, batch, slots>>  BY DEF SaveMaterial, WriteMaterial
<1>14. QED  BY <1>4, <1>6, <1>8, <1>9, <1>12, <1>13, MaterialWritten

LEMMA DeleteMaterialKeeps ==
  ASSUME IInv, NEW w \in Workers, DeleteMaterial(w), UNCHANGED knowledge
  PROVE  IInv'
<1>1. CatalogueJob("checked", job[w], course, subject, batch, material)
  BY DEF DeleteMaterial, Writing, IInv, CatalogueInv, CatalogueJobs
<1>2. PICK m \in Materials : m = job[w].row /\ material[m] # None
  BY <1>1 DEF DeleteMaterial, Writing, CatalogueJob, There
<1>3. material[m] \in MaterialRow  BY <1>2 DEF IInv, CatalogueInv, CatalogueTypeOK
<1>4. PICK row : row = [material[m] EXCEPT !.is_deleted = TRUE]  OBVIOUS
<1>5. /\ row \in MaterialRow /\ row.is_deleted
      /\ row.subject = material[m].subject /\ row.batch = material[m].batch
  BY <1>3, <1>4 DEF MaterialRow
<1>6. Placed(row, subject, batch)  BY <1>2, <1>5 DEF IInv, CatalogueInv, MaterialsPlaced, Placed
<1>7. PICK rows : rows = {m}  OBVIOUS
<1>8. material' = [material EXCEPT ![m] = row] /\ End(w, rows)
  BY <1>2, <1>4, <1>7 DEF DeleteMaterial
<1>9. UNCHANGED <<course, subject, batch, slots, displaced>>  BY DEF DeleteMaterial
<1>10. displaced' \subseteq Materials  BY <1>9 DEF IInv, CatalogueInv, CatalogueTypeOK
<1>11. QED  BY <1>5, <1>6, <1>7, <1>8, <1>9, <1>10, MaterialWritten

\* Writing a batch: if its course changes, its materials are displaced; its slots stay with it
\* while it is live.
LEMMA BatchWritten ==
  ASSUME IInv, NEW b \in Batches, NEW row \in BatchRow, NEW op, NEW rows, b \in rows,
         Change(op, rows), batch' = [batch EXCEPT ![b] = row],
         displaced' \subseteq Materials, displaced \subseteq displaced',
         \A m \in Materials :
           material[m] # None /\ material[m].batch = b /\ batch[b].course # row.course =>
             m \in displaced',
         slots' \subseteq slots, row.is_deleted => \A p \in slots' : p[1] # b,
         UNCHANGED <<course, subject, material>>, UNCHANGED knowledge
  PROVE  IInv'
<1>1. Shapes' /\ Written(rows)  BY ChangeWrites DEF IInv
<1>2. row # None  BY CatalogueAssumption
<1>3. batch \in [Batches -> BatchRow \cup {None}]  BY DEF IInv, CatalogueInv, CatalogueTypeOK
<1>4. /\ batch' \in [Batches -> BatchRow \cup {None}]
      /\ batch'[b] = row /\ \A x \in Batches : x # b => batch'[x] = batch[x]
  BY <1>3
<1>5. \A x \in Batches : batch[x] # None => batch'[x] # None  BY <1>2, <1>4
<1>6. CatalogueTypeOK'
  <2>1. \A p \in slots' : p \in LiveBatches' \X Subjects
    <3> SUFFICES ASSUME NEW p \in slots'  PROVE p \in LiveBatches' \X Subjects  OBVIOUS
    <3>1. PICK x \in LiveBatches, s \in Subjects : p = <<x, s>>
      BY DEF IInv, CatalogueInv, CatalogueTypeOK
    <3>2. x \in Batches /\ batch[x] # None /\ ~batch[x].is_deleted  BY DEF LiveBatches, LiveRows
    <3>3. ~batch'[x].is_deleted
      <4>1. CASE x = b
        <5>1. ~row.is_deleted  BY <3>1, <4>1
        <5>2. QED  BY <1>4, <4>1, <5>1
      <4>2. CASE x # b  BY <1>4, <3>2, <4>2
      <4>3. QED  BY <4>1, <4>2
    <3>4. x \in LiveBatches'  BY <1>5, <3>2, <3>3 DEF LiveBatches, LiveRows
    <3>5. QED  BY <3>1, <3>4
  <2>2. QED  BY <1>4, <2>1 DEF IInv, CatalogueInv, CatalogueTypeOK
<1>7. MaterialsPlaced'  BY <1>5 DEF IInv, CatalogueInv, MaterialsPlaced, Placed, There
<1>8. MaterialFitsCohort'
  <2> SUFFICES ASSUME NEW m \in Materials, material[m] # None, ~material[m].is_deleted,
                      m \notin displaced', material[m].batch # None
               PROVE  batch'[material[m].batch].course = subject[material[m].subject].course
    BY DEF MaterialFitsCohort, LiveMaterials, LiveRows, Fits
  <2>1. batch[material[m].batch].course = subject[material[m].subject].course
    BY DEF IInv, CatalogueInv, MaterialFitsCohort, LiveMaterials, LiveRows, Fits
  <2>2. material[m].batch \in Batches
    BY DEF IInv, CatalogueInv, MaterialsPlaced, Placed, There
  <2>3. CASE material[m].batch = b
    <3>1. batch[b].course = row.course  BY <2>3
    <3>2. QED  BY <1>4, <2>1, <2>3, <3>1
  <2>4. CASE material[m].batch # b  BY <1>4, <2>1, <2>2, <2>4
  <2>5. QED  BY <2>3, <2>4
<1>9. \A x \in Courses : BatchesOf(x)' \subseteq BatchesOf(x) \cup rows
  BY <1>4 DEF BatchesOf, LiveBatches, LiveRows
<1>10. \A x \in Subjects : SlotsOf(x)' \subseteq SlotsOf(x) \cup rows  BY DEF SlotsOf
<1>11. \A x \in Batches \ rows : batch[x] # None => batch'[x].course = batch[x].course  BY <1>4
<1>12. QED  BY <1>1, <1>5, <1>6, <1>7, <1>8, <1>9, <1>10, <1>11, WriteKeeps

LEMMA CreateBatchKeeps ==
  ASSUME IInv, NEW b \in Batches, NEW c \in Courses, CreateBatch(b, c), UNCHANGED knowledge
  PROVE  IInv'
<1>1. PICK rows : rows = {b}  OBVIOUS
<1>2. PICK row : row = [course |-> c, is_deleted |-> FALSE]  OBVIOUS
<1>3. row \in BatchRow /\ ~row.is_deleted  BY <1>2 DEF BatchRow
<1>4. /\ batch[b] = None /\ Change("batch", rows) /\ batch' = [batch EXCEPT ![b] = row]
      /\ UNCHANGED <<course, subject, material, slots, displaced>>
  BY <1>1, <1>2 DEF CreateBatch
<1>5. \A m \in Materials : material[m] # None => material[m].batch # b
  <2> SUFFICES ASSUME NEW m \in Materials, material[m] # None, material[m].batch = b PROVE FALSE
    OBVIOUS
  <2>1. b # None  BY CatalogueAssumption
  <2>2. batch[b] # None  BY <2>1 DEF IInv, CatalogueInv, MaterialsPlaced, Placed, There
  <2>3. QED  BY <1>4, <2>2
<1>6. displaced' \subseteq Materials  BY <1>4 DEF IInv, CatalogueInv, CatalogueTypeOK
<1>7. QED  BY <1>1, <1>3, <1>4, <1>5, <1>6, BatchWritten

LEMMA UpdateBatchKeeps ==
  ASSUME IInv, NEW b \in LiveBatches, NEW c \in Courses, UpdateBatch(b, c), UNCHANGED knowledge
  PROVE  IInv'
<1>1. PICK rows : rows = {b}  OBVIOUS
<1>2. PICK row : row = [batch[b] EXCEPT !.course = c]  OBVIOUS
<1>3. b \in Batches /\ batch[b] \in BatchRow /\ ~batch[b].is_deleted
  BY DEF IInv, CatalogueInv, CatalogueTypeOK, LiveBatches, LiveRows
<1>4. row \in BatchRow /\ ~row.is_deleted  BY <1>2, <1>3 DEF BatchRow
<1>5. /\ Change("batch", rows) /\ batch' = [batch EXCEPT ![b] = row]
      /\ displaced' = displaced \cup {m \in Materials : material[m] # None /\ material[m].batch = b}
      /\ UNCHANGED <<course, subject, material, slots>>
  BY <1>1, <1>2 DEF UpdateBatch
<1>6. displaced' \subseteq Materials /\ displaced \subseteq displaced'
  BY <1>5 DEF IInv, CatalogueInv, CatalogueTypeOK
<1>7. \A m \in Materials :
        material[m] # None /\ material[m].batch = b /\ batch[b].course # row.course => m \in displaced'
  BY <1>5
<1>8. QED  BY <1>1, <1>3, <1>4, <1>5, <1>6, <1>7, BatchWritten

LEMMA CloseBatchKeeps ==
  ASSUME IInv, NEW b \in LiveBatches, CloseBatch(b), UNCHANGED knowledge
  PROVE  IInv'
<1>1. PICK rows : rows = {b} \cup {p \in slots : p[1] = b}  OBVIOUS
<1>2. PICK row : row = [batch[b] EXCEPT !.is_deleted = TRUE]  OBVIOUS
<1>3. b \in Batches /\ batch[b] \in BatchRow
  BY DEF IInv, CatalogueInv, CatalogueTypeOK, LiveBatches, LiveRows
<1>4. row \in BatchRow /\ row.course = batch[b].course  BY <1>2, <1>3 DEF BatchRow
<1>5. /\ Change("batch", rows) /\ batch' = [batch EXCEPT ![b] = row]
      /\ slots' = {p \in slots : p[1] # b}
      /\ UNCHANGED <<course, subject, material, displaced>>
  BY <1>1, <1>2 DEF CloseBatch
<1>6. displaced' \subseteq Materials  BY <1>5 DEF IInv, CatalogueInv, CatalogueTypeOK
<1>7. slots' \subseteq slots /\ \A p \in slots' : p[1] # b  BY <1>5
<1>8. b \in rows  BY <1>1
<1>9. QED  BY <1>3, <1>4, <1>5, <1>6, <1>7, <1>8, BatchWritten

\* Changing the slots of live batches only.
LEMMA SlotsWritten ==
  ASSUME IInv, NEW op, NEW rows, Change(op, rows), slots' \subseteq slots \cup rows,
         slots' \subseteq LiveBatches \X Subjects,
         UNCHANGED <<course, subject, batch, material, displaced>>, UNCHANGED knowledge
  PROVE  IInv'
<1>1. Shapes' /\ Written(rows)  BY ChangeWrites DEF IInv
<1>2. CatalogueTypeOK' /\ MaterialsPlaced'
  BY DEF IInv, CatalogueInv, CatalogueTypeOK, MaterialsPlaced, LiveBatches, LiveRows, Placed, There
<1>3. MaterialFitsCohort'
  BY DEF IInv, CatalogueInv, MaterialFitsCohort, LiveMaterials, LiveRows, Fits
<1>4. /\ \A x \in Courses : BatchesOf(x)' \subseteq BatchesOf(x) \cup rows
      /\ \A x \in Subjects : SlotsOf(x)' \subseteq SlotsOf(x) \cup rows
  BY DEF BatchesOf, SlotsOf, LiveBatches, LiveRows
<1>5. QED  BY <1>1, <1>2, <1>3, <1>4, WriteKeeps

LEMMA ScheduleKeeps ==
  ASSUME IInv, NEW b \in LiveBatches, NEW s \in Subjects, Schedule(b, s), UNCHANGED knowledge
  PROVE  IInv'
<1>1. PICK rows : rows = {<<b, s>>}  OBVIOUS
<1>2. /\ Change("slot", rows) /\ slots' = slots \cup rows
      /\ UNCHANGED <<course, subject, batch, material, displaced>>
  BY <1>1 DEF Schedule
<1>3. slots' \subseteq LiveBatches \X Subjects
  BY <1>1, <1>2 DEF IInv, CatalogueInv, CatalogueTypeOK
<1>4. QED  BY <1>2, <1>3, SlotsWritten

LEMMA UnscheduleKeeps ==
  ASSUME IInv, NEW p \in slots, Unschedule(p), UNCHANGED knowledge
  PROVE  IInv'
<1>1. PICK rows : rows = {p}  OBVIOUS
<1>2. /\ Change("slot", rows) /\ slots' = slots \ rows
      /\ UNCHANGED <<course, subject, batch, material, displaced>>
  BY <1>1 DEF Unschedule
<1>3. slots' \subseteq LiveBatches \X Subjects
  BY <1>2 DEF IInv, CatalogueInv, CatalogueTypeOK
<1>4. QED  BY <1>2, <1>3, SlotsWritten

LEMMA CatalogueKeeps ==
  ASSUME IInv, CatalogueNext, UNCHANGED knowledge
  PROVE  IInv'
<1>1. ASSUME NEW w \in Workers, LoadCourse(w) \/ LoadSubject(w) PROVE IInv'
  BY <1>1, LoadCourseKeeps, LoadSubjectKeeps
<1>2. ASSUME NEW w \in Workers, LoadMaterial(w) \/ LoadDeleteMaterial(w) PROVE IInv'
  BY <1>2, LoadMaterialKeeps, LoadDeleteMaterialKeeps
<1>3. ASSUME NEW w \in Workers, Check(w) \/ RollBack(w) PROVE IInv'
  BY <1>3, CheckKeeps, RollBackKeeps
<1>4. ASSUME NEW w \in Workers, SaveCourse(w) \/ DeleteCourse(w) PROVE IInv'
  BY <1>4, SaveCourseKeeps, DeleteCourseKeeps
<1>5. ASSUME NEW w \in Workers, SaveSubject(w) \/ DeleteSubject(w) PROVE IInv'
  BY <1>5, SaveSubjectKeeps, DeleteSubjectKeeps
<1>6. ASSUME NEW w \in Workers, SaveMaterial(w) \/ DeleteMaterial(w) PROVE IInv'
  BY <1>6, SaveMaterialKeeps, DeleteMaterialKeeps
<1>7. ASSUME NEW b \in Batches, NEW c \in Courses,
             CreateBatch(b, c) \/ (b \in LiveBatches /\ UpdateBatch(b, c))
      PROVE  IInv'
  BY <1>7, CreateBatchKeeps, UpdateBatchKeeps
<1>8. ASSUME NEW b \in LiveBatches, CloseBatch(b) \/ \E s \in Subjects : Schedule(b, s) PROVE IInv'
  BY <1>8, CloseBatchKeeps, ScheduleKeeps
<1>9. ASSUME NEW p \in slots, Unschedule(p) PROVE IInv'  BY <1>9, UnscheduleKeeps
<1>10. QED
  BY <1>1, <1>2, <1>3, <1>4, <1>5, <1>6, <1>7, <1>8, <1>9 DEF CatalogueNext

-----------------------------------------------------------------------------
(* Steps of the knowledge base.                                             *)

\* After a step of w on these documents the other workers are where they were, and their
\* indexings of these documents are overtaken.
Others(w, docs) ==
  \A v \in Workers : v # w =>
    /\ pc'[v] = pc[v] /\ job'[v] = job[v] /\ missed'[v] = missed[v] /\ unseen[v] \subseteq unseen'[v]
    /\ pc[v] \in Indexes /\ job[v].row \in docs => job[v].row \in unseen'[v]

LEMMA ProceedLeavesOthers ==
  ASSUME Shapes, NEW w \in Workers, NEW phase \in Phases, NEW j, NEW docs,
         Proceed(w, phase, j, docs)
  PROVE  /\ Shapes' /\ Others(w, docs)
         /\ pc'[w] = phase /\ job'[w] = j
         /\ unseen'[w] = IF docs = {} THEN unseen[w] ELSE {}
<1>1. Shapes'  BY DEF Proceed, Notify, Shapes
<1>2. Others(w, docs)  BY DEF Proceed, Notify, Shapes, Others, Indexes
<1>3. QED  BY <1>1, <1>2 DEF Proceed, Notify, Shapes

LEMMA LeaveLeavesOthers ==
  ASSUME Shapes, NEW w \in Workers, Leave(w), NEW docs, docs = {}
  PROVE  Shapes' /\ Others(w, docs) /\ pc'[w] = "idle"
<1>1. Shapes'  BY DEF Leave, Shapes, Phases
<1>2. QED  BY <1>1 DEF Leave, Shapes, Others

LEMMA CatalogueAside ==
  ASSUME IInv, NEW w, NEW docs, Others(w, docs), UNCHANGED <<catalogue, displaced>>,
         w \in Workers => pc'[w] \notin {"loaded", "checked"}
  PROVE  CatalogueInv'
<1>1. UNCHANGED <<course, subject, batch, material, slots, displaced>>  BY DEF catalogue
<1>2. \A v \in Workers : pc'[v] \in {"loaded", "checked"} =>
        /\ pc'[v] = pc[v] /\ job'[v] = job[v]
        /\ missed'[v] = missed[v] /\ unseen[v] \subseteq unseen'[v]
  BY DEF Others
<1>3. CatalogueTypeOK' /\ MaterialsPlaced'
  BY <1>1 DEF IInv, CatalogueInv, CatalogueTypeOK, MaterialsPlaced, LiveBatches, LiveRows, Placed, There
<1>4. MaterialFitsCohort'
  BY <1>1 DEF IInv, CatalogueInv, MaterialFitsCohort, LiveMaterials, LiveRows, Fits
<1>5. CatalogueJobs'  BY <1>1, <1>2 DEF IInv, CatalogueInv, CatalogueJobs
<1>6. CountsStand'
  <2>1. ASSUME NEW v \in Workers, pc'[v] = "checked", job'[v].op = "soft_delete_course",
               NEW c \in Courses, c = job'[v].row
        PROVE  BatchesOf(c) \subseteq unseen'[v]
    <3>1. BatchesOf(c) \subseteq unseen[v]  BY <1>2, <2>1 DEF IInv, CatalogueInv, CountsStand
    <3>2. QED  BY <1>2, <2>1, <3>1
  <2>2. ASSUME NEW v \in Workers, pc'[v] = "checked", job'[v].op = "soft_delete_subject",
               NEW s \in Subjects, s = job'[v].row
        PROVE  SlotsOf(s) \subseteq unseen'[v]
    <3>1. SlotsOf(s) \subseteq unseen[v]  BY <1>2, <2>2 DEF IInv, CatalogueInv, CountsStand
    <3>2. QED  BY <1>2, <2>2, <3>1
  <2>3. QED  BY <1>1, <2>1, <2>2 DEF CountsStand, BatchesOf, SlotsOf, LiveBatches, LiveRows
<1>7. EditsStand'  BY <1>1, <1>2 DEF IInv, CatalogueInv, EditsStand
<1>8. PairsStand'  BY <1>1, <1>2 DEF IInv, CatalogueInv, PairsStand, Stale, Fits
<1>9. QED  BY <1>3, <1>4, <1>5, <1>6, <1>7, <1>8 DEF CatalogueInv

\* A policy with a document has one until the document is deleted or renamed by hand.
LEMMA ProvidedKept ==
  ASSUME withdrawn \subseteq withdrawn', NEW n, Provided(n),
         \A d \in Documents : document[d] # None =>
           \/ document'[d] # None /\ document'[d].title = document[d].title
           \/ document[d].title \in withdrawn'
  PROVE  Provided(n)'
BY DEF Provided, Titled

LEMMA IndexingKeeps ==
  ASSUME IInv, Shapes', NEW w, NEW docs, Others(w, docs), UNCHANGED <<catalogue, displaced>>,
         w \in Workers => pc'[w] \notin {"loaded", "checked"},
         w \in Workers /\ pc'[w] \in Indexes \cup Syncs => IndexingJob(pc'[w], job'[w]),
         w \in Workers => IndexStands(pc'[w], job'[w], unseen'[w], document', chunk'),
         w \in Workers /\ pc'[w] \in Indexes \cup Syncs /\ job'[w].op = "sync" =>
           \A n \in Past(pc'[w], job'[w]) : Provided(n)',
         \A d \in Documents \ docs : document'[d] = document[d] /\ chunk'[d] = chunk[d],
         KnowledgeTypeOK', ChunksAreCut', withdrawn \subseteq withdrawn',
         \A d \in Documents : document[d] # None =>
           \/ document'[d] # None /\ document'[d].title = document[d].title
           \/ document[d].title \in withdrawn',
         \A i \in Jobs : ingestion'[i] = "COMPLETED" =>
           ingestion[i] = "COMPLETED" \/ \A n \in 1..Len(Policies) : Provided(n)'
  PROVE  IInv'
<1>1. CatalogueInv'  BY CatalogueAside
<1>2. KnowledgeJobs'
  <2> SUFFICES ASSUME NEW v \in Workers
               PROVE  /\ pc'[v] = "loaded" /\ job'[v].op \in Writings => WritingJob(job'[v])
                      /\ pc'[v] \in Indexes \cup Syncs => IndexingJob(pc'[v], job'[v])
    BY DEF KnowledgeJobs, WritingJob, IndexingJob
  <2>1. CASE v = w  BY <2>1
  <2>2. CASE v # w
    <3>1. pc'[v] = pc[v] /\ job'[v] = job[v]  BY <2>2 DEF Others
    <3>2. QED  BY <3>1 DEF IInv, KnowledgeInv, KnowledgeJobs
  <2>3. QED  BY <2>1, <2>2
<1>3. IndexingsStand'
  <2> SUFFICES ASSUME NEW v \in Workers
               PROVE  IndexStands(pc'[v], job'[v], unseen'[v], document', chunk')
    BY DEF IndexingsStand, IndexStands
  <2>1. CASE v = w  BY <2>1
  <2>2. CASE v # w /\ pc[v] \notin Indexes
    BY <2>2 DEF Others, IndexStands, Indexes
  <2>3. CASE v # w /\ pc[v] \in Indexes /\ job[v].row \in docs
    BY <2>3 DEF Others, IndexStands
  <2>4. CASE v # w /\ pc[v] \in Indexes /\ job[v].row \notin docs
    <3>1. pc'[v] = pc[v] /\ job'[v] = job[v] /\ unseen[v] \subseteq unseen'[v]  BY <2>4 DEF Others
    <3>2. job[v].row \in Documents
      BY <2>4 DEF IInv, KnowledgeInv, KnowledgeJobs, IndexingJob
    <3>3. IndexStands(pc[v], job[v], unseen[v], document, chunk)
      BY DEF IInv, KnowledgeInv, IndexingsStand
    <3>4. QED  BY <2>4, <3>1, <3>2, <3>3 DEF IndexStands
  <2>5. QED  BY <2>1, <2>2, <2>3, <2>4
<1>4. \A n : Provided(n) => Provided(n)'  BY ProvidedKept
<1>5. CompletedIngests'
  <2> SUFFICES ASSUME NEW i \in Jobs, ingestion'[i] = "COMPLETED", NEW n \in 1..Len(Policies)
               PROVE  Provided(n)'
    BY DEF CompletedIngests, Provided
  <2>1. ingestion[i] = "COMPLETED" => Provided(n)
    BY DEF IInv, KnowledgeInv, PoliciesProvided, CompletedIngests, Provided
  <2>2. QED  BY <1>4, <2>1
<1>6. ASSUME NEW v \in Workers, pc'[v] \in Indexes \cup Syncs, job'[v].op = "sync",
             NEW n \in Past(pc'[v], job'[v])
      PROVE  Provided(n)'
  <2>1. CASE v = w  BY <1>6, <2>1
  <2>2. CASE v # w
    <3>1. pc'[v] = pc[v] /\ job'[v] = job[v]  BY <2>2 DEF Others
    <3>2. Provided(n)  BY <1>6, <3>1 DEF IInv, KnowledgeInv, PoliciesProvided
    <3>3. QED  BY <1>4, <3>2
  <2>3. QED  BY <2>1, <2>2
<1>7. PoliciesProvided'  BY <1>5, <1>6 DEF PoliciesProvided, Past
<1>8. QED  BY <1>1, <1>2, <1>3, <1>7 DEF IInv, KnowledgeInv

\* A document saved by a worker that goes on to index it.
LEMMA DocumentWritten ==
  ASSUME IInv, NEW w \in Workers, NEW d \in Documents, NEW row \in DocumentRow, NEW j,
         NEW docs, docs = {d}, Proceed(w, "saved", j, docs),
         document' = [document EXCEPT ![d] = row], disturbed' = disturbed \cup docs,
         UNCHANGED <<catalogue, displaced, chunk, ingestion>>,
         withdrawn \subseteq withdrawn',
         document[d] # None => row.title = document[d].title \/ document[d].title \in withdrawn',
         IndexingJob("saved", j), j.row = d, j.text = row.text,
         j.op = "sync" => \A n \in Past("saved", j) :
           Provided(n) \/ Policies[n] = row.title
  PROVE  IInv'
<1>1. /\ Shapes' /\ Others(w, docs) /\ pc'[w] = "saved" /\ job'[w] = j
      /\ unseen'[w] = {}
  BY ProceedLeavesOthers DEF IInv, Phases
<1>2. row # None  BY KnowledgeAssumption
<1>3. document \in [Documents -> DocumentRow \cup {None}]  BY DEF IInv, KnowledgeInv, KnowledgeTypeOK
<1>4. /\ document' \in [Documents -> DocumentRow \cup {None}]
      /\ document'[d] = row /\ \A x \in Documents : x # d => document'[x] = document[x]
  BY <1>3
<1>5. KnowledgeTypeOK'  BY <1>4 DEF IInv, KnowledgeInv, KnowledgeTypeOK
<1>6. ChunksAreCut'  BY <1>4 DEF IInv, KnowledgeInv, ChunksAreCut
<1>7. \A x \in Documents : document[x] # None =>
        \/ document'[x] # None /\ document'[x].title = document[x].title
        \/ document[x].title \in withdrawn'
  BY <1>2, <1>4
<1>8. IndexStands(pc'[w], job'[w], unseen'[w], document', chunk')
  BY <1>1, <1>2, <1>4 DEF IndexStands
<1>9. ASSUME j.op = "sync", NEW n \in Past("saved", j)
      PROVE  Provided(n)'
  <2>1. CASE Provided(n)  BY <1>7, <2>1, ProvidedKept
  <2>2. CASE Policies[n] = row.title  BY <1>2, <1>4, <2>2 DEF Provided, Titled
  <2>3. QED  BY <1>9, <2>1, <2>2
<1>10. \A x \in Documents \ docs : document'[x] = document[x] /\ chunk'[x] = chunk[x]  BY <1>4
<1>11. pc'[w] \notin {"loaded", "checked"} /\ IndexingJob(pc'[w], job'[w])  BY <1>1
<1>12. job'[w].op = "sync" => \A n \in Past(pc'[w], job'[w]) : Provided(n)'  BY <1>1, <1>9
<1>13. QED
  BY <1>1, <1>5, <1>6, <1>7, <1>8, <1>10, <1>11, <1>12, IndexingKeeps

LEMMA SaveDocumentKeeps ==
  ASSUME IInv, NEW w \in Workers, SaveDocument(w)
  PROVE  IInv'
<1>1. pc[w] = "loaded" /\ job[w].op \in Writings  BY DEF SaveDocument, Writings
<1>2. WritingJob(job[w])  BY <1>1 DEF IInv, KnowledgeInv, KnowledgeJobs
<1>3. PICK d \in Target(job[w], Documents, document) :
        /\ document' = [document EXCEPT ![d] = job[w].new]
        /\ disturbed' = disturbed \cup {d}
        /\ withdrawn' = IF document[d] # None /\ document[d].title # job[w].new.title
                        THEN withdrawn \cup {document[d].title} ELSE withdrawn
        /\ Proceed(w, "saved", [Indexing EXCEPT !.row = d, !.text = job[w].new.text], {d})
  BY DEF SaveDocument
<1>4. d \in Documents
  BY <1>1, <1>2, <1>3 DEF Target, WritingJob, Writings
<1>5. PICK row \in DocumentRow : row = job[w].new  BY <1>2 DEF WritingJob
<1>6. PICK j : j = [Indexing EXCEPT !.row = d, !.text = row.text]  OBVIOUS
<1>7. PICK docs : docs = {d}  OBVIOUS
<1>8. /\ document' = [document EXCEPT ![d] = row] /\ disturbed' = disturbed \cup docs
      /\ Proceed(w, "saved", j, docs)
  BY <1>3, <1>5, <1>6, <1>7
<1>9. row.text \in Texts  BY DEF DocumentRow
<1>10. j \in IndexJob /\ j.op = "index" /\ j.row = d /\ j.text = row.text
  <2>1. j = [op |-> "index", ingestion |-> None, at |-> 1, row |-> d, text |-> row.text,
             old |-> {}]
    BY <1>6 DEF Indexing
  <2>2. 1 \in Nat \ {0} /\ {} \in SUBSET Chunk  OBVIOUS
  <2>3. QED  BY <1>4, <1>9, <2>1, <2>2 DEF IndexJob
<1>11. IndexingJob("saved", j)
  BY <1>4, <1>9, <1>10 DEF IndexingJob, Syncs
<1>12. /\ withdrawn \subseteq withdrawn'
       /\ document[d] # None => row.title = document[d].title \/ document[d].title \in withdrawn'
  BY <1>3, <1>5
<1>13. UNCHANGED <<catalogue, displaced, chunk, ingestion>>  BY DEF SaveDocument
<1>14. QED  BY <1>4, <1>7, <1>8, <1>10, <1>11, <1>12, <1>13, DocumentWritten

LEMMA DeleteDocumentKeeps ==
  ASSUME IInv, NEW d \in Documents, DeleteDocument(d)
  PROVE  IInv'
<1>1. PICK docs : docs = {d}  OBVIOUS
<1>2. /\ document[d] # None /\ Notify(None, docs)
      /\ document' = [document EXCEPT ![d] = None]
      /\ chunk' = [chunk EXCEPT ![d] = {}]
      /\ disturbed' = disturbed \ docs
      /\ withdrawn' = withdrawn \cup {document[d].title}
      /\ UNCHANGED <<catalogue, pc, job, missed, displaced, ingestion>>
  BY <1>1 DEF DeleteDocument
<1>3. \A v \in Workers : v # None  BY CatalogueAssumption
<1>4. Shapes' /\ Others(None, docs)
  BY <1>2, <1>3 DEF IInv, Shapes, Notify, Others, Indexes
<1>5. /\ document \in [Documents -> DocumentRow \cup {None}]
      /\ chunk \in [Documents -> SUBSET Chunk]
  BY DEF IInv, KnowledgeInv, KnowledgeTypeOK
<1>6. /\ document'[d] = None
      /\ \A x \in Documents : x # d => document'[x] = document[x] /\ chunk'[x] = chunk[x]
  BY <1>2, <1>5
<1>7. KnowledgeTypeOK'  BY <1>2, <1>5 DEF IInv, KnowledgeInv, KnowledgeTypeOK
<1>8. ChunksAreCut'  BY <1>1, <1>2, <1>6 DEF IInv, KnowledgeInv, ChunksAreCut
<1>9. \A x \in Documents : document[x] # None =>
        \/ document'[x] # None /\ document'[x].title = document[x].title
        \/ document[x].title \in withdrawn'
  BY <1>2, <1>6
<1>10. \A x \in Documents \ docs : document'[x] = document[x] /\ chunk'[x] = chunk[x]
  BY <1>1, <1>6
<1>11. None \notin Workers /\ withdrawn \subseteq withdrawn' /\ ingestion' = ingestion
  BY <1>2, <1>3
<1>12. QED
  BY <1>2, <1>4, <1>7, <1>8, <1>9, <1>10, <1>11, IndexingKeeps

LEMMA ClearChunksKeeps ==
  ASSUME IInv, NEW w \in Workers, ClearChunks(w)
  PROVE  IInv'
<1>1. IndexingJob("saved", job[w]) /\ pc[w] = "saved"
  BY DEF ClearChunks, IInv, KnowledgeInv, KnowledgeJobs, Indexes
<1>2. PICK d \in Documents : d = job[w].row  BY <1>1 DEF IndexingJob, Indexes
<1>3. PICK j : j = [job[w] EXCEPT !.old = chunk[d]]  OBVIOUS
<1>4. PICK docs : docs = {}  OBVIOUS
<1>5. Proceed(w, "indexing", j, docs) /\ UNCHANGED <<catalogue, displaced, knowledge>>
  BY <1>2, <1>3, <1>4 DEF ClearChunks
<1>6. UNCHANGED <<document, chunk, ingestion, disturbed, withdrawn>>  BY <1>5 DEF knowledge
<1>7. /\ Shapes' /\ Others(w, docs) /\ pc'[w] = "indexing" /\ job'[w] = j
      /\ unseen'[w] = unseen[w]
  BY <1>4, <1>5, ProceedLeavesOthers DEF IInv, Phases
<1>8. chunk[d] \in SUBSET Chunk  BY DEF IInv, KnowledgeInv, KnowledgeTypeOK
<1>9. /\ j \in IndexJob /\ j.row = d /\ j.text = job[w].text /\ j.old = chunk[d]
      /\ j.op = job[w].op /\ j.at = job[w].at /\ j.ingestion = job[w].ingestion
  BY <1>1, <1>2, <1>3, <1>8 DEF IndexingJob, IndexJob
<1>10. IndexingJob("indexing", j)  BY <1>1, <1>2, <1>9 DEF IndexingJob, Indexes, Syncs
<1>11. IndexStands("saved", job[w], unseen[w], document, chunk)
  BY <1>1 DEF IInv, KnowledgeInv, IndexingsStand
<1>12. IndexStands(pc'[w], job'[w], unseen'[w], document', chunk')
  BY <1>2, <1>6, <1>7, <1>9, <1>11 DEF IndexStands, Indexes
<1>13. ASSUME j.op = "sync", NEW n \in Past("indexing", j)
       PROVE  Provided(n)'
  <2>1. n \in Past("saved", job[w])  BY <1>9, <1>13 DEF Past, Indexes
  <2>2. Provided(n)  BY <1>1, <1>9, <1>13, <2>1 DEF IInv, KnowledgeInv, PoliciesProvided, Indexes
  <2>3. QED  BY <1>6, <2>2 DEF Provided, Titled
<1>14. KnowledgeTypeOK' /\ ChunksAreCut'
  BY <1>6 DEF IInv, KnowledgeInv, KnowledgeTypeOK, ChunksAreCut
<1>15. job'[w].op = "sync" => \A n \in Past(pc'[w], job'[w]) : Provided(n)'  BY <1>7, <1>13
<1>16. pc'[w] \notin {"loaded", "checked"} /\ IndexingJob(pc'[w], job'[w])  BY <1>7, <1>10
<1>17. /\ \A x \in Documents \ docs : document'[x] = document[x] /\ chunk'[x] = chunk[x]
       /\ \A x \in Documents : document[x] # None =>
            \/ document'[x] # None /\ document'[x].title = document[x].title
            \/ document[x].title \in withdrawn'
  BY <1>6
<1>18. withdrawn \subseteq withdrawn' /\ UNCHANGED <<catalogue, displaced>>  BY <1>5, <1>6
<1>19. \A i \in Jobs : ingestion'[i] = "COMPLETED" => ingestion[i] = "COMPLETED"  BY <1>6
<1>20. QED  BY <1>7, <1>12, <1>14, <1>15, <1>16, <1>17, <1>18, <1>19, IndexingKeeps

LEMMA CommitChunksKeeps ==
  ASSUME IInv, NEW w \in Workers, CommitChunks(w)
  PROVE  IInv'
<1>1. IndexingJob("indexing", job[w]) /\ pc[w] = "indexing"
  BY DEF CommitChunks, IInv, KnowledgeInv, KnowledgeJobs, Indexes
<1>2. PICK d \in Documents : d = job[w].row  BY <1>1 DEF IndexingJob, Indexes
<1>3. PICK new \in Chunk : new = [text |-> job[w].text, cut_by |-> w]
  BY <1>1 DEF IndexingJob, Indexes, Chunk
<1>4. PICK docs : docs = {d}  OBVIOUS
<1>5. /\ document[d] # None
      /\ chunk' = [chunk EXCEPT ![d] = (@ \ job[w].old) \cup {new}]
      /\ disturbed' = IF d \in unseen[w] THEN disturbed \cup docs ELSE disturbed \ docs
      /\ AfterIndexing(w, d)
      /\ UNCHANGED <<catalogue, displaced, document, ingestion, withdrawn>>
  BY <1>2, <1>3, <1>4 DEF CommitChunks
<1>6. chunk \in [Documents -> SUBSET Chunk]  BY DEF IInv, KnowledgeInv, KnowledgeTypeOK
<1>7. /\ chunk'[d] = (chunk[d] \ job[w].old) \cup {new}
      /\ \A x \in Documents : x # d => chunk'[x] = chunk[x]
      /\ chunk' \in [Documents -> SUBSET Chunk]
  BY <1>5, <1>6
<1>8. KnowledgeTypeOK'  BY <1>4, <1>5, <1>7 DEF IInv, KnowledgeInv, KnowledgeTypeOK
<1>9. ChunksAreCut'
  <2> SUFFICES ASSUME NEW x \in Documents \ disturbed', document[x] # None
               PROVE  \E c \in Chunk : chunk'[x] = {c} /\ c.text = document[x].text
    BY <1>5 DEF ChunksAreCut
  <2>1. CASE x = d
    <3>1. d \notin unseen[w]  BY <1>4, <1>5, <2>1
    <3>2. document[d].text = job[w].text /\ job[w].old = chunk[d]
      BY <1>1, <1>2, <3>1 DEF IInv, KnowledgeInv, IndexingsStand, IndexStands, Indexes
    <3>3. chunk'[d] = {new}  BY <1>7, <3>2
    <3>4. QED  BY <1>3, <2>1, <3>2, <3>3
  <2>2. CASE x # d
    <3>1. x \notin disturbed  BY <1>4, <1>5, <2>2
    <3>2. QED  BY <1>7, <2>2, <3>1 DEF IInv, KnowledgeInv, ChunksAreCut
  <2>3. QED  BY <2>1, <2>2
<1>10. /\ \A x \in Documents \ docs : document'[x] = document[x] /\ chunk'[x] = chunk[x]
       /\ \A x \in Documents : document[x] # None =>
            \/ document'[x] # None /\ document'[x].title = document[x].title
            \/ document[x].title \in withdrawn'
  BY <1>4, <1>5, <1>7
<1>11. withdrawn \subseteq withdrawn' /\ UNCHANGED <<catalogue, displaced>>  BY <1>5
<1>12. \A i \in Jobs : ingestion'[i] = "COMPLETED" => ingestion[i] = "COMPLETED"  BY <1>5
<1>13. CASE job[w].op = "index"
  <2>1. Proceed(w, "idle", NoJob, docs)  BY <1>4, <1>5, <1>13 DEF AfterIndexing
  <2>2. Shapes' /\ Others(w, docs) /\ pc'[w] = "idle"
    BY <2>1, ProceedLeavesOthers DEF IInv, Phases
  <2>3. /\ pc'[w] \notin {"loaded", "checked"} /\ pc'[w] \notin Indexes \cup Syncs
        /\ IndexStands(pc'[w], job'[w], unseen'[w], document', chunk')
    BY <2>2 DEF Indexes, Syncs, IndexStands
  <2>4. QED  BY <1>8, <1>9, <1>10, <1>11, <1>12, <2>2, <2>3, IndexingKeeps
<1>14. CASE job[w].op = "sync"
  <2>1. /\ job[w].ingestion \in Jobs /\ job[w].at \in Nat \ {0} /\ job[w].at <= Len(Policies)
    BY <1>1, <1>14 DEF IndexingJob, IndexJob, Indexes
  <2>2. PICK j : j = [Syncing(job[w].ingestion) EXCEPT !.at = job[w].at + 1]  OBVIOUS
  <2>3. Proceed(w, "syncing", j, docs)  BY <1>4, <1>5, <1>14, <2>2 DEF AfterIndexing
  <2>4. Shapes' /\ Others(w, docs) /\ pc'[w] = "syncing" /\ job'[w] = j
    BY <2>3, ProceedLeavesOthers DEF IInv, Phases
  <2>5. j \in IndexJob /\ j.op = "sync" /\ j.ingestion \in Jobs /\ j.at = job[w].at + 1
    <3>1. j = [op |-> "sync", ingestion |-> job[w].ingestion, at |-> job[w].at + 1, row |-> None,
               text |-> None, old |-> {}]
      BY <2>2 DEF Syncing, Indexing
    <3>2. job[w].at + 1 \in Nat \ {0} /\ {} \in SUBSET Chunk  BY <2>1
    <3>3. QED  BY <2>1, <3>1, <3>2 DEF IndexJob
  <2>6. IndexingJob("syncing", j)  BY <2>5 DEF IndexingJob, Indexes, Syncs
  <2>7. ASSUME NEW n \in Past("syncing", j)
        PROVE  Provided(n)'
    <3>1. n \in 1..Len(Policies) /\ n < job[w].at + 1  BY <2>5, <2>7 DEF Past, Indexes
    <3>2. n \in Past("indexing", job[w])  BY <2>1, <3>1 DEF Past, Indexes
    <3>3. Provided(n)  BY <1>1, <1>14, <3>2 DEF IInv, KnowledgeInv, PoliciesProvided, Indexes
    <3>4. QED  BY <1>5, <3>3 DEF Provided, Titled
  <2>8. /\ pc'[w] \notin {"loaded", "checked"} /\ IndexingJob(pc'[w], job'[w])
        /\ IndexStands(pc'[w], job'[w], unseen'[w], document', chunk')
        /\ \A n \in Past(pc'[w], job'[w]) : Provided(n)'
    BY <2>4, <2>6, <2>7 DEF Indexes, IndexStands
  <2>9. QED  BY <1>8, <1>9, <1>10, <1>11, <1>12, <2>4, <2>8, IndexingKeeps
<1>15. QED  BY <1>1, <1>13, <1>14 DEF IndexingJob, IndexJob

\* A step that leaves the documents and their chunks as they are, of a worker that does not index.
LEMMA WorkerKeeps ==
  ASSUME IInv, Shapes', NEW w \in Workers, NEW docs, Others(w, docs),
         UNCHANGED <<catalogue, displaced, document, chunk, disturbed, withdrawn>>,
         pc'[w] \in {"idle"} \cup Syncs,
         pc'[w] # "idle" =>
           IndexingJob(pc'[w], job'[w]) /\ \A n \in Past(pc'[w], job'[w]) : Provided(n),
         ingestion' \in [Jobs -> JobStatuses \cup {None}],
         \A i \in Jobs : ingestion'[i] = "COMPLETED" =>
           ingestion[i] = "COMPLETED" \/ \A n \in 1..Len(Policies) : Provided(n)
  PROVE  IInv'
<1>1. KnowledgeTypeOK' /\ ChunksAreCut'  BY DEF IInv, KnowledgeInv, KnowledgeTypeOK, ChunksAreCut
<1>2. \A n : Provided(n) => Provided(n)'  BY DEF Provided, Titled
<1>3. /\ pc'[w] \notin {"loaded", "checked"}
      /\ pc'[w] \in Indexes \cup Syncs => IndexingJob(pc'[w], job'[w])
      /\ IndexStands(pc'[w], job'[w], unseen'[w], document', chunk')
  BY DEF Indexes, Syncs, IndexStands
<1>4. pc'[w] \in Indexes \cup Syncs => \A n \in Past(pc'[w], job'[w]) : Provided(n)'
  BY <1>2 DEF Indexes, Syncs
<1>5. \A i \in Jobs : ingestion'[i] = "COMPLETED" =>
        ingestion[i] = "COMPLETED" \/ \A n \in 1..Len(Policies) : Provided(n)'
  BY <1>2
<1>6. \A d \in Documents : document[d] # None =>
        \/ document'[d] # None /\ document'[d].title = document[d].title
        \/ document[d].title \in withdrawn'
  OBVIOUS
<1>7. /\ \A d \in Documents \ docs : document'[d] = document[d] /\ chunk'[d] = chunk[d]
      /\ withdrawn \subseteq withdrawn'
  OBVIOUS
<1>8. QED  BY <1>1, <1>3, <1>4, <1>5, <1>6, <1>7, IndexingKeeps

LEMMA EndJobKeeps ==
  ASSUME IInv, NEW w \in Workers, NEW status \in JobStatuses, EndJob(w, status),
         status = "COMPLETED" => \A n \in 1..Len(Policies) : Provided(n)
  PROVE  IInv'
<1>1. PICK docs : docs = {}  OBVIOUS
<1>2. Shapes' /\ Others(w, docs) /\ pc'[w] = "idle"
  BY <1>1, LeaveLeavesOthers DEF EndJob, IInv
<1>3. ingestion \in [Jobs -> JobStatuses \cup {None}]  BY DEF IInv, KnowledgeInv, KnowledgeTypeOK
<1>4. ingestion' = [ingestion EXCEPT ![job[w].ingestion] = status]  BY DEF EndJob
<1>5. ingestion' \in [Jobs -> JobStatuses \cup {None}]  BY <1>3, <1>4
<1>6. \A i \in Jobs : ingestion'[i] = "COMPLETED" =>
        ingestion[i] = "COMPLETED" \/ \A n \in 1..Len(Policies) : Provided(n)
  BY <1>3, <1>4
<1>7. UNCHANGED <<catalogue, displaced, document, chunk, disturbed, withdrawn>>  BY DEF EndJob
<1>8. QED  BY <1>2, <1>5, <1>6, <1>7, WorkerKeeps

LEMMA LeaveKeeps ==
  ASSUME IInv, NEW w \in Workers, Leave(w), UNCHANGED <<catalogue, displaced, knowledge>>
  PROVE  IInv'
<1>1. PICK docs : docs = {}  OBVIOUS
<1>2. Shapes' /\ Others(w, docs) /\ pc'[w] = "idle"  BY <1>1, LeaveLeavesOthers DEF IInv
<1>3. UNCHANGED <<catalogue, displaced, document, chunk, ingestion, disturbed, withdrawn>>
  BY DEF knowledge
<1>4. ingestion' \in [Jobs -> JobStatuses \cup {None}]
  BY <1>3 DEF IInv, KnowledgeInv, KnowledgeTypeOK
<1>5. QED  BY <1>2, <1>3, <1>4, WorkerKeeps

LEMMA StartSyncKeeps ==
  ASSUME IInv, NEW w \in Workers, StartSync(w)
  PROVE  IInv'
<1>1. PICK i \in Jobs :
        /\ Start(w, "reading", Syncing(i))
        /\ ingestion' = [ingestion EXCEPT ![i] = "RUNNING"]
        /\ UNCHANGED <<document, chunk, disturbed, withdrawn>>
  BY DEF StartSync
<1>2. PICK j : j = Syncing(i)  OBVIOUS
<1>3. PICK docs : docs = {}  OBVIOUS
<1>4. /\ pc' = [pc EXCEPT ![w] = "reading"] /\ job' = [job EXCEPT ![w] = j]
      /\ missed' = [missed EXCEPT ![w] = {}] /\ unseen' = [unseen EXCEPT ![w] = {}]
      /\ UNCHANGED <<catalogue, displaced>>
  BY <1>1, <1>2 DEF Start
<1>5. Shapes'  BY <1>4 DEF IInv, Shapes, Phases
<1>6. Others(w, docs) /\ pc'[w] = "reading" /\ job'[w] = j
  BY <1>3, <1>4 DEF IInv, Shapes, Others
<1>7. j \in IndexJob /\ j.op = "sync" /\ j.ingestion \in Jobs /\ j.at = 1
  <2>1. j = [op |-> "sync", ingestion |-> i, at |-> 1, row |-> None, text |-> None, old |-> {}]
    BY <1>2 DEF Syncing, Indexing
  <2>2. 1 \in Nat \ {0} /\ {} \in SUBSET Chunk  OBVIOUS
  <2>3. QED  BY <2>1, <2>2 DEF IndexJob
<1>8. IndexingJob("reading", j)  BY <1>7 DEF IndexingJob, Indexes, Syncs
<1>9. \A n \in Past("reading", j) : Provided(n)  BY <1>7 DEF Past, Indexes
<1>10. /\ ingestion' \in [Jobs -> JobStatuses \cup {None}]
       /\ \A x \in Jobs : ingestion'[x] = "COMPLETED" => ingestion[x] = "COMPLETED"
  BY <1>1 DEF IInv, KnowledgeInv, KnowledgeTypeOK, JobStatuses
<1>11. pc'[w] \in {"idle"} \cup Syncs  BY <1>6 DEF Syncs
<1>12. UNCHANGED <<catalogue, displaced, document, chunk, disturbed, withdrawn>>  BY <1>1, <1>4
<1>13. QED  BY <1>5, <1>6, <1>8, <1>9, <1>10, <1>11, <1>12, WorkerKeeps

\* A job that reads on.
LEMMA ReadingKeeps ==
  ASSUME IInv, NEW w \in Workers, pc[w] \in {"reading", "syncing"},
         NEW phase \in {"syncing", "absent"}, NEW docs, docs = {},
         phase = "absent" => job[w].at <= Len(Policies),
         Proceed(w, phase, job[w], docs), UNCHANGED <<catalogue, displaced, knowledge>>
  PROVE  IInv'
<1>1. Shapes' /\ Others(w, docs) /\ pc'[w] = phase /\ job'[w] = job[w]
  BY ProceedLeavesOthers DEF IInv, Phases
<1>2. IndexingJob(pc[w], job[w])  BY DEF IInv, KnowledgeInv, KnowledgeJobs, Indexes, Syncs
<1>3. IndexingJob(phase, job[w])  BY <1>2 DEF IndexingJob, Indexes, Syncs
<1>4. \A n \in Past(phase, job[w]) : Provided(n)
  <2>1. Past(phase, job[w]) = Past(pc[w], job[w])  BY DEF Past, Indexes
  <2>2. job[w].op = "sync"  BY <1>2 DEF IndexingJob, Syncs
  <2>3. QED  BY <2>1, <2>2 DEF IInv, KnowledgeInv, PoliciesProvided, Indexes, Syncs
<1>5. UNCHANGED <<catalogue, displaced, document, chunk, ingestion, disturbed, withdrawn>>
  BY DEF knowledge
<1>6. ingestion' \in [Jobs -> JobStatuses \cup {None}]
  BY <1>5 DEF IInv, KnowledgeInv, KnowledgeTypeOK
<1>7. pc'[w] \in {"idle"} \cup Syncs  BY <1>1 DEF Syncs
<1>8. QED  BY <1>1, <1>3, <1>4, <1>5, <1>6, <1>7, WorkerKeeps

LEMMA ReadCoursesKeeps ==
  ASSUME IInv, NEW w \in Workers, ReadCourses(w)
  PROVE  IInv'
<1>1. CASE EndJob(w, "FAILED")  BY <1>1, EndJobKeeps DEF JobStatuses
<1>2. CASE Proceed(w, "syncing", job[w], {}) /\ UNCHANGED <<catalogue, displaced, knowledge>>
  <2>1. PICK docs : docs = {}  OBVIOUS
  <2>2. Proceed(w, "syncing", job[w], docs)  BY <1>2, <2>1
  <2>3. pc[w] = "reading"  BY DEF ReadCourses
  <2>4. QED  BY <1>2, <2>1, <2>2, <2>3, ReadingKeeps
<1>3. QED  BY <1>1, <1>2 DEF ReadCourses

\* A policy that a job saves.
LEMMA PolicySaved ==
  ASSUME IInv, NEW w \in Workers, pc[w] \in {"syncing", "absent"}, job[w].at <= Len(Policies),
         NEW d \in Documents, NEW row \in DocumentRow,
         row.title = Policies[job[w].at], row.text = Standard,
         document[d] # None => document[d].title = row.title,
         document' = [document EXCEPT ![d] = row], disturbed' = disturbed \cup {d},
         Proceed(w, "saved", [job[w] EXCEPT !.row = d, !.text = Standard], {d}),
         UNCHANGED <<catalogue, displaced, chunk, ingestion, withdrawn>>
  PROVE  IInv'
<1>1. IndexingJob(pc[w], job[w]) /\ job[w].op = "sync"
  BY DEF IInv, KnowledgeInv, KnowledgeJobs, IndexingJob, Indexes, Syncs
<1>2. PICK docs : docs = {d}  OBVIOUS
<1>3. PICK j : j = [job[w] EXCEPT !.row = d, !.text = Standard]  OBVIOUS
<1>4. Proceed(w, "saved", j, docs) /\ disturbed' = disturbed \cup docs  BY <1>2, <1>3
<1>5. Standard \in Texts  BY KnowledgeAssumption
<1>6. /\ j \in IndexJob /\ j.op = "sync" /\ j.ingestion = job[w].ingestion /\ j.at = job[w].at
      /\ j.row = d /\ j.text = Standard
  BY <1>1, <1>3, <1>5 DEF IndexingJob, IndexJob
<1>7. IndexingJob("saved", j)  BY <1>1, <1>5, <1>6 DEF IndexingJob, Indexes, Syncs
<1>8. ASSUME NEW n \in Past("saved", j)
      PROVE  Provided(n) \/ Policies[n] = row.title
  <2>1. CASE n = job[w].at  BY <2>1
  <2>2. CASE n # job[w].at
    <3>1. n \in Past(pc[w], job[w])  BY <1>6, <1>8, <2>2 DEF Past
    <3>2. QED  BY <1>1, <3>1 DEF IInv, KnowledgeInv, PoliciesProvided, Indexes, Syncs
  <2>3. QED  BY <2>1, <2>2
<1>9. QED  BY <1>2, <1>4, <1>6, <1>7, <1>8, DocumentWritten

LEMMA FindPolicyKeeps ==
  ASSUME IInv, NEW w \in Workers, FindPolicy(w)
  PROVE  IInv'
<1>1. pc[w] = "syncing" /\ job[w].at <= Len(Policies)  BY DEF FindPolicy
<1>2. CASE EndJob(w, "FAILED")  BY <1>2, EndJobKeeps DEF JobStatuses
<1>3. CASE Proceed(w, "absent", job[w], {}) /\ UNCHANGED <<catalogue, displaced, knowledge>>
  <2>1. PICK docs : docs = {}  OBVIOUS
  <2>2. Proceed(w, "absent", job[w], docs)  BY <1>3, <2>1
  <2>3. QED  BY <1>1, <1>3, <2>1, <2>2, ReadingKeeps
<1>4. CASE \E d \in Titled(Policies[job[w].at]) :
        /\ document' = [document EXCEPT ![d].text = Standard]
        /\ disturbed' = disturbed \cup {d}
        /\ Proceed(w, "saved", [job[w] EXCEPT !.row = d, !.text = Standard], {d})
        /\ UNCHANGED <<catalogue, displaced, chunk, ingestion, withdrawn>>
  <2>1. PICK d \in Titled(Policies[job[w].at]) :
          /\ document' = [document EXCEPT ![d].text = Standard]
          /\ disturbed' = disturbed \cup {d}
          /\ Proceed(w, "saved", [job[w] EXCEPT !.row = d, !.text = Standard], {d})
          /\ UNCHANGED <<catalogue, displaced, chunk, ingestion, withdrawn>>
    BY <1>4
  <2>2. d \in Documents /\ document[d] # None /\ document[d].title = Policies[job[w].at]
    BY DEF Titled
  <2>3. document[d] \in DocumentRow  BY <2>2 DEF IInv, KnowledgeInv, KnowledgeTypeOK
  <2>4. PICK row : row = [document[d] EXCEPT !.text = Standard]  OBVIOUS
  <2>5. row \in DocumentRow /\ row.title = document[d].title /\ row.text = Standard
    BY <2>3, <2>4, KnowledgeAssumption DEF DocumentRow
  <2>6. document' = [document EXCEPT ![d] = row]  BY <2>1, <2>4
  <2>7. QED  BY <1>1, <2>1, <2>2, <2>5, <2>6, PolicySaved
<1>5. QED  BY <1>2, <1>3, <1>4 DEF FindPolicy

LEMMA CreatePolicyKeeps ==
  ASSUME IInv, NEW w \in Workers, CreatePolicy(w)
  PROVE  IInv'
<1>1. pc[w] = "absent"  BY DEF CreatePolicy
<1>2. IndexingJob("absent", job[w])  BY <1>1 DEF IInv, KnowledgeInv, KnowledgeJobs, Syncs
<1>3. job[w].at \in 1..Len(Policies)  BY <1>2 DEF IndexingJob, IndexJob, Syncs
<1>4. Policies[job[w].at] \in Titles  BY <1>3, KnowledgeAssumption
<1>5. PICK row : row = [title |-> Policies[job[w].at], text |-> Standard, is_published |-> TRUE,
                        internal |-> FALSE]
  OBVIOUS
<1>6. row \in DocumentRow  BY <1>4, <1>5, KnowledgeAssumption DEF DocumentRow
<1>7. PICK d \in Documents :
        /\ document[d] = None
        /\ document' = [document EXCEPT ![d] = row]
        /\ disturbed' = disturbed \cup {d}
        /\ Proceed(w, "saved", [job[w] EXCEPT !.row = d, !.text = Standard], {d})
  BY <1>5 DEF CreatePolicy
<1>8. UNCHANGED <<catalogue, displaced, chunk, ingestion, withdrawn>>  BY DEF CreatePolicy
<1>9. row.title = Policies[job[w].at] /\ row.text = Standard  BY <1>5
<1>10. job[w].at <= Len(Policies)  BY <1>3
<1>11. QED  BY <1>1, <1>6, <1>7, <1>8, <1>9, <1>10, PolicySaved

LEMMA CompleteSyncKeeps ==
  ASSUME IInv, NEW w \in Workers, CompleteSync(w)
  PROVE  IInv'
<1>1. pc[w] = "syncing" /\ job[w].at > Len(Policies) /\ EndJob(w, "COMPLETED")
  BY DEF CompleteSync
<1>2. IndexingJob("syncing", job[w])  BY <1>1 DEF IInv, KnowledgeInv, KnowledgeJobs, Syncs
<1>3. job[w].op = "sync" /\ job[w].at \in Nat  BY <1>2 DEF IndexingJob, IndexJob, Syncs
<1>4. Len(Policies) \in Nat  BY KnowledgeAssumption
<1>5. ASSUME NEW n \in 1..Len(Policies)
      PROVE  Provided(n)
  <2>1. n \in Past("syncing", job[w])  BY <1>1, <1>3, <1>4 DEF Past, Indexes
  <2>2. QED  BY <1>1, <1>3, <2>1 DEF IInv, KnowledgeInv, PoliciesProvided, Syncs
<1>6. QED  BY <1>1, <1>5, EndJobKeeps DEF JobStatuses

LEMMA FailIndexingKeeps ==
  ASSUME IInv, NEW w \in Workers, FailIndexing(w)
  PROVE  IInv'
<1>1. CASE EndJob(w, "FAILED")  BY <1>1, EndJobKeeps DEF JobStatuses
<1>2. CASE Leave(w) /\ UNCHANGED <<catalogue, displaced, knowledge>>  BY <1>2, LeaveKeeps
<1>3. QED  BY <1>1, <1>2 DEF FailIndexing

LEMMA CrashKeeps ==
  ASSUME IInv, NEW w \in Workers, Crash(w)
  PROVE  IInv'
BY LeaveKeeps DEF Crash

-----------------------------------------------------------------------------
LEMMA StutterKeeps == IInv /\ UNCHANGED vars => IInv'
<1> SUFFICES ASSUME IInv, UNCHANGED vars PROVE IInv'  OBVIOUS
<1>1. /\ UNCHANGED <<course, subject, batch, material, slots, pc, job, missed, unseen, displaced>>
      /\ UNCHANGED knowledge
  BY DEF vars, knowledge
<1>2. Shapes'  BY <1>1 DEF IInv, Shapes
<1>3. CatalogueTypeOK' /\ MaterialsPlaced' /\ MaterialFitsCohort'
  BY <1>1 DEF IInv, CatalogueInv, CatalogueTypeOK, MaterialsPlaced, LiveBatches, LiveRows, Placed,
              There, MaterialFitsCohort, LiveMaterials, Fits
<1>4. CatalogueJobs' /\ EditsStand'  BY <1>1 DEF IInv, CatalogueInv, CatalogueJobs, EditsStand
<1>5. CountsStand'
  BY <1>1 DEF IInv, CatalogueInv, CountsStand, BatchesOf, SlotsOf, LiveBatches, LiveRows
<1>6. PairsStand'  BY <1>1 DEF IInv, CatalogueInv, PairsStand, Stale, Fits
<1>7. KnowledgeInv'
  <2>1. \A v \in Workers : pc'[v] = "loaded" /\ job'[v].op \in Writings => WritingJob(job'[v])
    BY <1>1 DEF IInv, KnowledgeInv, KnowledgeJobs
  <2>2. QED  BY <1>1, <2>1, KnowledgeAside DEF IInv
<1>8. QED  BY <1>2, <1>3, <1>4, <1>5, <1>6, <1>7 DEF IInv, CatalogueInv

LEMMA StepKeeps == IInv /\ [Next]_vars => IInv'
<1> SUFFICES ASSUME IInv, [Next]_vars PROVE IInv'  OBVIOUS
<1>1. CASE CatalogueNext /\ UNCHANGED knowledge  BY <1>1, CatalogueKeeps
<1>2. ASSUME NEW d \in Documents, DeleteDocument(d) PROVE IInv'  BY <1>2, DeleteDocumentKeeps
<1>3. ASSUME NEW w \in Workers, LoadDocument(w) \/ SaveDocument(w) PROVE IInv'
  BY <1>3, LoadDocumentKeeps, SaveDocumentKeeps
<1>4. ASSUME NEW w \in Workers, ClearChunks(w) \/ CommitChunks(w) PROVE IInv'
  BY <1>4, ClearChunksKeeps, CommitChunksKeeps
<1>5. ASSUME NEW w \in Workers, StartSync(w) \/ ReadCourses(w) PROVE IInv'
  BY <1>5, StartSyncKeeps, ReadCoursesKeeps
<1>6. ASSUME NEW w \in Workers, FindPolicy(w) \/ CreatePolicy(w) PROVE IInv'
  BY <1>6, FindPolicyKeeps, CreatePolicyKeeps
<1>7. ASSUME NEW w \in Workers, CompleteSync(w) \/ FailIndexing(w) \/ Crash(w) PROVE IInv'
  BY <1>7, CompleteSyncKeeps, FailIndexingKeeps, CrashKeeps
<1>8. CASE UNCHANGED vars  BY <1>8, StutterKeeps
<1>9. QED  BY <1>1, <1>2, <1>3, <1>4, <1>5, <1>6, <1>7, <1>8 DEF Next

\* What a request has read, counted or checked stands in the tables until a commit it has missed,
\* and the safety of the catalogue and of the knowledge base with it.
THEOREM Invariance == Spec => []IInv
<1>1. Init => IInv  BY InitFits
<1>2. IInv /\ [Next]_vars => IInv'  BY StepKeeps
<1>3. QED  BY <1>1, <1>2, PTL DEF Spec

\* Rows of their types, and live materials of the course of their subject and batch, unless one
\* of these was moved since (material_service.py).
THEOREM MaterialsFit == Spec => []KnowledgeIntegrity
<1>1. IInv => KnowledgeIntegrity
  BY DEF IInv, CatalogueInv, KnowledgeInv, KnowledgeTypeOK, KnowledgeIntegrity, TypeOK
<1>2. QED  BY <1>1, Invariance, PTL

\* The assistant quotes each published document once, in the words it has, unless an indexing of
\* it was overtaken or cut short since its last save (rag/services.py).
THEOREM AnswersCurrent == Spec => []AnswersAreCurrent
<1>1. IInv => AnswersAreCurrent
  <2> SUFFICES ASSUME IInv PROVE AnswersAreCurrent  OBVIOUS
  <2>1. ASSUME NEW d \in Documents \ disturbed, document[d] # None
        PROVE  \E c \in Chunk : chunk[d] = {c} /\ c.text = document[d].text
    BY <2>1 DEF IInv, KnowledgeInv, ChunksAreCut
  <2>2. ASSUME NEW insider \in BOOLEAN, NEW q \in Quotable(insider), q[1] \notin disturbed
        PROVE  q[2].text = document[q[1]].text
    BY <2>1, <2>2 DEF Quotable
  <2>3. ASSUME NEW insider \in BOOLEAN, NEW d \in Documents \ disturbed,
               document[d] # None, document[d].is_published, document[d].internal => insider
        PROVE  Cardinality({q \in Quotable(insider) : q[1] = d}) = 1
    <3>1. PICK c \in Chunk : chunk[d] = {c}  BY <2>1, <2>3
    <3>2. {q \in Quotable(insider) : q[1] = d} = {<<d, c>>}  BY <2>3, <3>1 DEF Quotable
    <3>3. QED  BY <3>2, FS_Singleton
  <2>4. QED  BY <2>2, <2>3 DEF AnswersAreCurrent, Answers
<1>2. QED  BY <1>1, Invariance, PTL

\* A COMPLETED job has left a document for every standard policy, unless it was deleted or renamed
\* by hand (rag/services.py).
THEOREM JobsIngest == Spec => []CompletedIngests
<1>1. IInv => CompletedIngests  BY DEF IInv, KnowledgeInv, PoliciesProvided
<1>2. QED  BY <1>1, Invariance, PTL

LEMMA CourseRetired ==
  ASSUME IInv, NEW w \in Workers, SaveCourse(w) \/ DeleteCourse(w)
  PROVE  RetiringHeeds
<1>1. /\ pc[w] = "checked" /\ pc'[w] = "idle" /\ UNCHANGED subject
      /\ CatalogueJob("checked", job[w], course, subject, batch, material)
  BY DEF SaveCourse, DeleteCourse, Writing, End, IInv, Shapes, CatalogueInv, CatalogueJobs
<1> SUFFICES ASSUME NEW c \in Courses, course[c] # None, course'[c].is_deleted # course[c].is_deleted
             PROVE  IF course'[c].is_deleted THEN BatchesOf(c) \subseteq unseen[w]
                    ELSE c \in missed[w]
  BY <1>1 DEF RetiringHeeds
<1>2. course \in [Courses -> CourseRow \cup {None}]  BY DEF IInv, CatalogueInv, CatalogueTypeOK
<1>3. course[c] \in CourseRow  BY <1>2
<1>4. CASE DeleteCourse(w)
  <2>1. job[w].op = "soft_delete_course" /\ c = job[w].row  BY <1>2, <1>4 DEF DeleteCourse, Writing
  <2>2. BatchesOf(c) \subseteq unseen[w]  BY <1>1, <2>1 DEF IInv, CatalogueInv, CountsStand
  <2>3. course'[c].is_deleted  BY <1>2, <1>3, <1>4, <2>1 DEF DeleteCourse, CourseRow
  <2>4. QED  BY <2>2, <2>3
<1>5. CASE SaveCourse(w)
  <2>1. job[w].op \in {"create_course", "update_course"}  BY <1>5 DEF SaveCourse, Writing
  <2>2. PICK x \in Target(job[w], Courses, course) : course' = [course EXCEPT ![x] = job[w].new]
    BY <1>5 DEF SaveCourse
  <2>3. c = x /\ course'[c] = job[w].new  BY <1>2, <2>2
  <2>4. job[w].new \in CourseRow /\ ~job[w].new.is_deleted  BY <1>1, <2>1 DEF CatalogueJob
  <2>5. course[c].is_deleted  BY <1>3, <2>3, <2>4 DEF CourseRow
  <2>6. job[w].row = c /\ job[w].op = "update_course"
    BY <1>1, <2>1, <2>2, <2>3 DEF Target, CatalogueJob
  <2>7. c \in missed[w]  BY <1>1, <2>5, <2>6 DEF IInv, CatalogueInv, EditsStand
  <2>8. QED  BY <2>3, <2>4, <2>7
<1>6. QED  BY <1>4, <1>5

LEMMA SubjectRetired ==
  ASSUME IInv, NEW w \in Workers, SaveSubject(w) \/ DeleteSubject(w)
  PROVE  RetiringHeeds
<1>1. /\ pc[w] = "checked" /\ pc'[w] = "idle" /\ UNCHANGED course
      /\ CatalogueJob("checked", job[w], course, subject, batch, material)
  BY DEF SaveSubject, DeleteSubject, Writing, End, IInv, Shapes, CatalogueInv, CatalogueJobs
<1> SUFFICES ASSUME NEW s \in Subjects, subject[s] # None,
                    subject'[s].is_deleted # subject[s].is_deleted
             PROVE  IF subject'[s].is_deleted THEN SlotsOf(s) \subseteq unseen[w]
                    ELSE s \in missed[w]
  BY <1>1 DEF RetiringHeeds
<1>2. subject \in [Subjects -> SubjectRow \cup {None}]  BY DEF IInv, CatalogueInv, CatalogueTypeOK
<1>3. subject[s] \in SubjectRow  BY <1>2
<1>4. CASE DeleteSubject(w)
  <2>1. job[w].op = "soft_delete_subject" /\ s = job[w].row
    BY <1>2, <1>4 DEF DeleteSubject, Writing
  <2>2. SlotsOf(s) \subseteq unseen[w]  BY <1>1, <2>1 DEF IInv, CatalogueInv, CountsStand
  <2>3. subject'[s].is_deleted  BY <1>2, <1>3, <1>4, <2>1 DEF DeleteSubject, SubjectRow
  <2>4. QED  BY <2>2, <2>3
<1>5. CASE SaveSubject(w)
  <2>1. job[w].op \in {"create_subject", "update_subject"}  BY <1>5 DEF SaveSubject, Writing
  <2>2. PICK x \in Target(job[w], Subjects, subject) : subject' = [subject EXCEPT ![x] = job[w].new]
    BY <1>5 DEF SaveSubject
  <2>3. s = x /\ subject'[s] = job[w].new  BY <1>2, <2>2
  <2>4. job[w].new \in SubjectRow /\ ~job[w].new.is_deleted  BY <1>1, <2>1 DEF CatalogueJob
  <2>5. subject[s].is_deleted  BY <1>3, <2>3, <2>4 DEF SubjectRow
  <2>6. job[w].row = s /\ job[w].op = "update_subject"
    BY <1>1, <2>1, <2>2, <2>3 DEF Target, CatalogueJob
  <2>7. s \in missed[w]  BY <1>1, <2>5, <2>6 DEF IInv, CatalogueInv, EditsStand
  <2>8. QED  BY <2>3, <2>4, <2>7
<1>6. QED  BY <1>4, <1>5

\* A course with batches or a subject on the timetable is retired only by who has counted none
\* of them: those there are came after the count; and only an edit that had loaded the row while
\* it was live brings it back (course_service.py).
THEOREM RetiringIsChecked == Spec => RetiredUnused
<1>1. IInv /\ [Next]_vars => [RetiringHeeds]_cataloguing
  <2> SUFFICES ASSUME IInv, [Next]_vars PROVE RetiringHeeds \/ UNCHANGED cataloguing  OBVIOUS
  <2>1. CASE UNCHANGED <<course, subject>>  BY <2>1 DEF RetiringHeeds
  <2>2. CASE \E w \in Workers : SaveCourse(w) \/ DeleteCourse(w)  BY <2>2, CourseRetired
  <2>3. CASE \E w \in Workers : SaveSubject(w) \/ DeleteSubject(w)  BY <2>3, SubjectRetired
  <2>4. CatalogueNext =>
          \/ UNCHANGED <<course, subject>>
          \/ \E w \in Workers : SaveCourse(w) \/ DeleteCourse(w)
          \/ \E w \in Workers : SaveSubject(w) \/ DeleteSubject(w)
    <3>1. ASSUME NEW w \in Workers, LoadCourse(w) \/ LoadSubject(w)
          PROVE  UNCHANGED <<course, subject>>
      BY <3>1 DEF LoadCourse, LoadSubject, Load, Start, catalogue
    <3>2. ASSUME NEW w \in Workers, LoadMaterial(w) \/ LoadDeleteMaterial(w)
          PROVE  UNCHANGED <<course, subject>>
      BY <3>2 DEF LoadMaterial, LoadDeleteMaterial, Start, catalogue
    <3>3. ASSUME NEW w \in Workers,
                 Check(w) \/ RollBack(w) \/ SaveMaterial(w) \/ DeleteMaterial(w)
          PROVE  UNCHANGED <<course, subject>>
      BY <3>3 DEF Check, RollBack, SaveMaterial, WriteMaterial, DeleteMaterial, catalogue
    <3>4. ASSUME NEW b \in Batches, NEW c \in Courses, CreateBatch(b, c) \/ UpdateBatch(b, c)
          PROVE  UNCHANGED <<course, subject>>
      BY <3>4 DEF CreateBatch, UpdateBatch
    <3>5. ASSUME NEW b \in Batches, CloseBatch(b) \/ \E s \in Subjects : Schedule(b, s)
          PROVE  UNCHANGED <<course, subject>>
      BY <3>5 DEF CloseBatch, Schedule
    <3>6. ASSUME NEW p, Unschedule(p)  PROVE UNCHANGED <<course, subject>>
      BY <3>6 DEF Unschedule
    <3>7. QED  BY <3>1, <3>2, <3>3, <3>4, <3>5, <3>6 DEF CatalogueNext
  <2>5. ASSUME NEW w \in Workers, LoadDocument(w) \/ SaveDocument(w) \/ ClearChunks(w) \/ CommitChunks(w)
        PROVE  UNCHANGED <<course, subject>>
    BY <2>5 DEF LoadDocument, Load, Start, SaveDocument, ClearChunks, CommitChunks, catalogue
  <2>6. ASSUME NEW w \in Workers, StartSync(w) \/ ReadCourses(w) \/ FindPolicy(w) \/ CreatePolicy(w)
        PROVE  UNCHANGED <<course, subject>>
    BY <2>6 DEF StartSync, Start, ReadCourses, EndJob, FindPolicy, CreatePolicy, catalogue
  <2>7. ASSUME NEW w \in Workers, CompleteSync(w) \/ FailIndexing(w) \/ Crash(w)
        PROVE  UNCHANGED <<course, subject>>
    BY <2>7 DEF CompleteSync, FailIndexing, Crash, EndJob, catalogue
  <2>8. ASSUME NEW d \in Documents, DeleteDocument(d)
        PROVE  UNCHANGED <<course, subject>>
    BY <2>8 DEF DeleteDocument, catalogue
  <2>9. UNCHANGED vars => UNCHANGED <<course, subject>>  BY DEF vars
  <2>10. QED  BY <2>1, <2>2, <2>3, <2>4, <2>5, <2>6, <2>7, <2>8, <2>9 DEF Next
<1>2. QED  BY <1>1, Invariance, PTL DEF Spec, RetiredUnused

===============================================================================
