------------------------------ MODULE Knowledge ------------------------------
(***************************************************************************)
(* The knowledge base of the assistant (rag/): documents, the chunks they  *)
(* are cut into, the jobs that ingest the catalogue and the standard       *)
(* policies, and what a question may be answered from.                     *)
(*                                                                         *)
(* A document is saved in one transaction and indexed in the next; an      *)
(* indexing deletes the chunks its DELETE sees and inserts the new ones.   *)
(* All the chunks of one indexing are one chunk here: the text they were   *)
(* cut from, and who cut it.  Embeddings fall back to a local one and do   *)
(* not fail.  A title stands for a title with its category, which          *)
(* update_or_create looks up together.  A job goes through the policies in *)
(* order.                                                                  *)
(***************************************************************************)
EXTENDS Catalogue, Sequences

CONSTANTS
  Documents,
  Titles,
  Policies,  \* the titles of the standard policies, in order
  Texts,
  Standard,  \* the standard text of a policy
  Payloads,  \* the rows that requests write
  Jobs

\* internal: for one role or branch, and not for everybody.
DocumentRow == [title: Titles, text: Texts, is_published: BOOLEAN, internal: BOOLEAN]

Chunk == [text: Texts, cut_by: Workers]
JobStatuses == {"RUNNING", "COMPLETED", "FAILED"}

ASSUME KnowledgeAssumption ==
  /\ None \notin DocumentRow \cup Documents \cup JobStatuses
  /\ Policies \in Seq(Titles)
  /\ Standard \in Texts
  /\ Payloads \subseteq DocumentRow
  /\ Documents \cap (Courses \cup Subjects \cup Batches \cup Materials) = {}
  /\ \A sc \in Scenarios :
       /\ sc.document \in [Documents -> Payloads \cup {None}]
       /\ sc.ingestion \in [Jobs -> {"RUNNING", None}]

VARIABLES
  document,   \* the table of documents, None where there is no row
  chunk,      \* the chunks of each document
  ingestion,  \* the table of ingestion jobs: their status
  disturbed,  \* history: the documents saved, or whose indexing was overtaken, since the last
              \* indexing that followed its own save without another between
  withdrawn   \* history: the titles of the documents deleted or renamed by hand

knowledge == <<document, chunk, ingestion, disturbed, withdrawn>>
vars == <<workload, course, subject, batch, material, slots, pc, job, missed, unseen,
          displaced, document, chunk, ingestion, disturbed, withdrawn>>

Titled(t) == {d \in Documents : document[d] # None /\ document[d].title = t}

Init ==
  /\ \E sc \in Scenarios :
       /\ CatalogueInit(sc)
       /\ document = sc.document
       /\ ingestion = sc.ingestion
  /\ chunk = [d \in Documents |-> {}]
  /\ disturbed = {d \in Documents : document[d] # None}
  /\ withdrawn = {}

\* These documents have changed, for those who are between their save and its indexing.
Notify(w, documents) ==
  unseen' = [v \in Workers |->
               IF v = w THEN (IF documents = {} THEN unseen[v] ELSE {})
               ELSE IF pc[v] \in {"saved", "indexing"} THEN unseen[v] \cup ({job[v].row} \cap documents)
               ELSE unseen[v]]

\* The request goes on, or ends, after a commit to these documents.
Proceed(w, phase, j, documents) ==
  /\ pc' = [pc EXCEPT ![w] = phase]
  /\ job' = [job EXCEPT ![w] = j]
  /\ Notify(w, documents)
  /\ UNCHANGED <<workload, missed>>

Leave(w) ==
  /\ pc' = [pc EXCEPT ![w] = "idle"]
  /\ job' = [job EXCEPT ![w] = NoJob]
  /\ missed' = [missed EXCEPT ![w] = {}]
  /\ unseen' = [unseen EXCEPT ![w] = {}]
  /\ UNCHANGED workload

\* An indexing by itself, and those of an ingestion job: the policy it is at, the document it
\* has saved, and the chunks it has deleted.
Indexing == [op |-> "index", ingestion |-> None, at |-> 1, row |-> None, text |-> None, old |-> {}]
Syncing(i) == [Indexing EXCEPT !.op = "sync", !.ingestion = i]

-----------------------------------------------------------------------------
(* Documents edited by hand.                                                *)

\* POST and PATCH documents: a title may be that of another document.
LoadDocument(w) ==
  \E new \in Payloads :
    /\ \/ Load(w, [op |-> "create_document", row |-> None, new |-> new])
       \/ \E d \in Documents :
            /\ document[d] # None
            /\ Load(w, [op |-> "update_document", row |-> d, new |-> new])
    /\ UNCHANGED knowledge

\* serializer.save(): every column; an UPDATE that finds no row inserts it.
SaveDocument(w) ==
  LET j == job[w] IN
  /\ pc[w] = "loaded" /\ j.op \in {"create_document", "update_document"}
  /\ \E d \in Target(j, Documents, document) :
       /\ document' = [document EXCEPT ![d] = j.new]
       /\ disturbed' = disturbed \cup {d}
       /\ withdrawn' = IF document[d] # None /\ document[d].title # j.new.title
                       THEN withdrawn \cup {document[d].title} ELSE withdrawn
       /\ Proceed(w, "saved", [Indexing EXCEPT !.row = d, !.text = j.new.text], {d})
  /\ UNCHANGED <<catalogue, displaced, chunk, ingestion>>

\* DELETE documents: the row and its chunks.
DeleteDocument(d) ==
  /\ document[d] # None
  /\ "delete_document" \in workload
  /\ Notify(None, {d})
  /\ document' = [document EXCEPT ![d] = None]
  /\ chunk' = [chunk EXCEPT ![d] = {}]
  /\ disturbed' = disturbed \ {d}
  /\ withdrawn' = withdrawn \cup {document[d].title}
  /\ UNCHANGED <<workload, catalogue, pc, job, missed, displaced, ingestion>>

-----------------------------------------------------------------------------
(* Indexing.                                                                *)

\* document.chunks.all().delete(): the chunks committed by then.
ClearChunks(w) ==
  /\ pc[w] = "saved"
  /\ Proceed(w, "indexing", [job[w] EXCEPT !.old = chunk[job[w].row]], {})
  /\ UNCHANGED <<catalogue, displaced, knowledge>>

\* What a finished indexing leads to: the next policy, or the end of the request.
AfterIndexing(w, d) ==
  IF job[w].op = "index" THEN Proceed(w, "idle", NoJob, {d})
  ELSE Proceed(w, "syncing", [Syncing(job[w].ingestion) EXCEPT !.at = job[w].at + 1], {d})

\* Fault: the old chunks stay.
AddChunks(w) ==
  LET j == job[w] IN
  /\ pc[w] = "indexing"
  /\ document[j.row] # None
  /\ chunk' = [chunk EXCEPT ![j.row] = @ \cup {[text |-> j.text, cut_by |-> w]}]
  /\ disturbed' = IF j.row \in unseen[w] THEN disturbed \cup {j.row} ELSE disturbed \ {j.row}
  /\ AfterIndexing(w, j.row)
  /\ UNCHANGED <<catalogue, displaced, document, ingestion, withdrawn>>

\* The inserts and the commit.
CommitChunks(w) ==
  LET j == job[w] IN
  /\ pc[w] = "indexing"
  /\ document[j.row] # None
  /\ chunk' = [chunk EXCEPT ![j.row] = (@ \ j.old) \cup {[text |-> j.text, cut_by |-> w]}]
  /\ disturbed' = IF j.row \in unseen[w] THEN disturbed \cup {j.row} ELSE disturbed \ {j.row}
  /\ AfterIndexing(w, j.row)
  /\ UNCHANGED <<catalogue, displaced, document, ingestion, withdrawn>>

-----------------------------------------------------------------------------
(* The ingestion job.                                                       *)

EndJob(w, status) ==
  /\ ingestion' = [ingestion EXCEPT ![job[w].ingestion] = status]
  /\ Leave(w)
  /\ UNCHANGED <<catalogue, displaced, document, chunk, disturbed, withdrawn>>

StartSync(w) ==
  \E i \in Jobs :
    /\ ingestion[i] = None
    /\ Start(w, "reading", Syncing(i))
    /\ ingestion' = [ingestion EXCEPT ![i] = "RUNNING"]
    /\ UNCHANGED <<document, chunk, disturbed, withdrawn>>

\* The text of a course names columns that courses and subjects do not have.
ReadCourses(w) ==
  /\ pc[w] = "reading"
  /\ IF LiveCourses # {} THEN EndJob(w, "FAILED")
     ELSE /\ Proceed(w, "syncing", job[w], {})
          /\ UNCHANGED <<catalogue, displaced, knowledge>>

\* update_or_create: a title with two documents is an error.
FindPolicy(w) ==
  LET j == job[w] IN
  /\ pc[w] = "syncing" /\ j.at <= Len(Policies)
  /\ LET found == Titled(Policies[j.at]) IN
     \/ /\ Cardinality(found) > 1
        /\ EndJob(w, "FAILED")
     \/ /\ found = {}
        /\ Proceed(w, "absent", j, {})
        /\ UNCHANGED <<catalogue, displaced, knowledge>>
     \/ \E d \in found :
          /\ found = {d}
          /\ document' = [document EXCEPT ![d].text = Standard]
          /\ disturbed' = disturbed \cup {d}
          /\ Proceed(w, "saved", [j EXCEPT !.row = d, !.text = Standard], {d})
          /\ UNCHANGED <<catalogue, displaced, chunk, ingestion, withdrawn>>

\* Titles are not unique: whoever found none creates one.
CreatePolicy(w) ==
  LET j == job[w] IN
  /\ pc[w] = "absent"
  /\ \E d \in Documents :
       /\ document[d] = None
       /\ document' = [document EXCEPT ![d] =
                         [title |-> Policies[j.at], text |-> Standard, is_published |-> TRUE,
                          internal |-> FALSE]]
       /\ disturbed' = disturbed \cup {d}
       /\ Proceed(w, "saved", [j EXCEPT !.row = d, !.text = Standard], {d})
  /\ UNCHANGED <<catalogue, displaced, chunk, ingestion, withdrawn>>

CompleteSync(w) ==
  /\ pc[w] = "syncing" /\ job[w].at > Len(Policies)
  /\ EndJob(w, "COMPLETED")

\* Fault: an error in one policy is passed over, not recorded.
PassOver(w) ==
  /\ pc[w] = "indexing" /\ document[job[w].row] = None
  /\ IF job[w].op = "sync" THEN EndJob(w, "COMPLETED")
     ELSE Leave(w) /\ UNCHANGED <<catalogue, displaced, knowledge>>

\* The document has gone: its chunks cannot refer to it.
FailIndexing(w) ==
  /\ pc[w] = "indexing" /\ document[job[w].row] = None
  /\ IF job[w].op = "sync" THEN EndJob(w, "FAILED")
     ELSE Leave(w) /\ UNCHANGED <<catalogue, displaced, knowledge>>

\* A crash: what is committed stays, a job stays RUNNING.
Crash(w) ==
  /\ pc[w] \in {"saved", "indexing", "reading", "syncing", "absent"}
  /\ Leave(w)
  /\ UNCHANGED <<catalogue, displaced, knowledge>>

-----------------------------------------------------------------------------
Next ==
  \/ CatalogueNext /\ UNCHANGED knowledge
  \/ \E d \in Documents : DeleteDocument(d)
  \/ \E w \in Workers :
       \/ LoadDocument(w) \/ SaveDocument(w) \/ ClearChunks(w) \/ CommitChunks(w)
       \/ StartSync(w) \/ ReadCourses(w) \/ FindPolicy(w) \/ CreatePolicy(w)
       \/ CompleteSync(w) \/ FailIndexing(w) \/ Crash(w)

Spec == Init /\ [][Next]_vars

-----------------------------------------------------------------------------
\* Types of the tables.
TypeOK ==
  /\ CatalogueTypeOK
  /\ document \in [Documents -> DocumentRow \cup {None}]
  /\ chunk \in [Documents -> SUBSET Chunk]
  /\ ingestion \in [Jobs -> JobStatuses \cup {None}]
  /\ disturbed \subseteq Documents

\* retrieve_context: the chunks that may be quoted to the public, or to the insiders.
Quotable(insider) ==
  {q \in Documents \X Chunk :
     LET d == q[1] IN
     /\ document[d] # None /\ document[d].is_published
     /\ document[d].internal => insider
     /\ q[2] \in chunk[d]}

TopK == 4

\* answer_query: it cites at most TopK of them, and without any says that it does not know.
Answers(insider) ==
  {[citations |-> cited, grounded |-> cited # {}] :
     cited \in {some \in SUBSET Quotable(insider) : Cardinality(some) <= TopK}}

\* The assistant answers from each document once, in the words it now has, unless an indexing
\* was overtaken or cut short; the next one that is left alone puts it right.
AnswersAreCurrent ==
  \A insider \in BOOLEAN :
    /\ \A answer \in Answers(insider) : answer.grounded =>
         \A q \in answer.citations : q[1] \notin disturbed => q[2].text = document[q[1]].text
    /\ \A d \in Documents \ disturbed :
         document[d] # None /\ document[d].is_published /\ (document[d].internal => insider) =>
           Cardinality({q \in Quotable(insider) : q[1] = d}) = 1

\* Once a job has COMPLETED every standard policy has a document, unless one of that title
\* was deleted or renamed by hand.  What the documents are indexed as is the subject of
\* AnswersAreCurrent.
CompletedIngests ==
  (\E i \in Jobs : ingestion[i] = "COMPLETED") =>
    \A n \in 1..Len(Policies) : Titled(Policies[n]) # {} \/ Policies[n] \in withdrawn

\* Rows of their types, and materials of the course of their subject and batch.
KnowledgeIntegrity == TypeOK /\ MaterialFitsCohort

=============================================================================
