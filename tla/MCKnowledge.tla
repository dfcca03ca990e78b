----------------------------- MODULE MCKnowledge -----------------------------
(***************************************************************************)
(* Instances of Knowledge for TLC.                                         *)
(***************************************************************************)
EXTENDS Knowledge, TLC

CONSTANTS c1, c2, s1, s2, b1, k1, k2, t1, t2, d1, d2, std, revised, i1, i2

OnCourse(c, k) == [course |-> c, code |-> k, is_deleted |-> FALSE]

Notice(t, text, internal) ==
  [title |-> t, text |-> text, is_published |-> TRUE, internal |-> internal]

\* A notice for everybody, and another text of it for some only.  Written over the document of
\* the other policy it renames it.
MCPayloads == {Notice(t1, revised, FALSE), Notice(t1, std, TRUE)}

Beginning(courses, subjects, batches, documents, ops) ==
  [asked |-> ops,
   course |-> [c \in Courses |->
     IF c \in courses THEN [code |-> IF c = c1 THEN k1 ELSE k2, is_deleted |-> FALSE] ELSE None],
   subject |-> [s \in Subjects |-> IF s \in subjects THEN OnCourse(c1, k1) ELSE None],
   batch |-> [b \in Batches |->
     IF b \in batches THEN [course |-> c1, is_deleted |-> FALSE] ELSE None],
   document |-> [d \in Documents |-> IF d \in documents THEN Notice(t1, revised, FALSE) ELSE None],
   ingestion |-> [i \in Jobs |-> None]]

\* The same, after a crash has left a job behind.
Resuming(sc) == [sc EXCEPT !.ingestion[i1] = "RUNNING"]

\* Courses and their batches, subjects and their slots, the material of one batch.
CatalogueScenarios ==
  {Beginning({c1}, {}, {}, {},
          {"create_course", "update_course", "soft_delete_course", "batch"}),
   Beginning({c1}, {s1}, {b1}, {}, {"create_subject", "update_subject", "soft_delete_subject"}),
   Beginning({c1}, {s1}, {b1}, {}, {"update_subject", "soft_delete_subject", "slot"}),
   Beginning({c1}, {s1}, {b1}, {}, {"create_subject", "soft_delete_subject", "slot"}),
   Beginning({c1, c2}, {s1}, {b1}, {},
          {"publish_material", "update_material", "soft_delete_material", "batch"}),
   Beginning({c1, c2}, {s1}, {b1}, {},
          {"publish_material", "update_material", "soft_delete_material", "update_subject"})}

\* Documents edited while others edit or delete them; jobs among themselves and among edits.
KnowledgeScenarios ==
  {Beginning({}, {}, {}, {d1}, {"update_document", "delete_document"}),
   Beginning({}, {}, {}, {}, {"sync", "delete_document"}),
   Resuming(Beginning({}, {}, {}, {d1}, {"sync", "update_document"})),
   Beginning({}, {}, {}, {d1, d2}, {"sync", "delete_document"}),
   Beginning({}, {}, {}, {}, {"create_document"}),
   Beginning({c1}, {}, {}, {}, {"sync", "soft_delete_course"})}

MCScenarios == CatalogueScenarios \cup KnowledgeScenarios
MCPolicies == <<t1, t2>>
Symmetry == Permutations(Workers)
=============================================================================
