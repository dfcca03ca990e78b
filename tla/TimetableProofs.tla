--------------------------- MODULE TimetableProofs ---------------------------
(***************************************************************************)
(* Proofs about Timetable and Access, for any number of workers, rows,     *)
(* students, cohorts, teachers, rooms and dates.                           *)
(***************************************************************************)
EXTENDS Access, TLAPS

Live(row) == row # None /\ ~row.is_deleted

\* The rows there are stay, a lecture with its slot.
Kept(S, L, M, S2, L2, M2) ==
  /\ \A s \in Slots : S[s] # None => S2[s] # None
  /\ \A l \in Lectures : L[l] # None => L2[l] # None /\ L2[l].slot = L[l].slot
  /\ \A k \in Keys : M[k] # None => M2[k] # None

Loadable ==
  {"update_slot", "soft_delete_slot", "soft_delete_batch", "update_lecture", "cancel_lecture",
   "soft_delete_lecture", "generate_from_timetable", "mark_bulk_attendance", "amend_attendance",
   "soft_delete_attendance"}

\* A request the view has loaded, on the tables S, L and M.
Request(j, S, L, M) ==
  /\ j.op \in Loadable
  /\ j.op \in {"update_slot", "soft_delete_slot", "generate_from_timetable"} =>
       j.slot \in Slots /\ S[j.slot] # None
  /\ j.op = "update_slot" => j.new \in Session /\ ValidSession(j.new)
  /\ j.op \in {"update_lecture", "cancel_lecture", "soft_delete_lecture", "mark_bulk_attendance"} =>
       j.lecture \in Lectures /\ L[j.lecture] # None
  /\ j.op = "update_lecture" =>
       /\ j.seen \in LectureRow /\ ~j.seen.is_deleted /\ j.seen.slot = L[j.lecture].slot
       /\ j.date \in Dates /\ j.status \in LectureStatuses
  /\ j.op = "mark_bulk_attendance" => j.students \subseteq Students /\ j.status \in Statuses
  /\ j.op \in {"amend_attendance", "soft_delete_attendance"} =>
       j.key \in Keys /\ M[j.key] # None
  /\ j.op = "amend_attendance" => j.status \in Statuses

\* A request that has passed its queries, and what they have found.
Checked(j, S, L, M) ==
  /\ j.op \in Loadable \cup {"create_slot", "create_lecture"}
  /\ j.op = "create_slot" => j.request \in Session /\ ValidSession(j.request)
  /\ j.op = "create_lecture" =>
       /\ j.request.slot \in Slots /\ S[j.request.slot] # None
       /\ j.request.date \in Dates /\ j.request.status \in LectureStatuses
  /\ j.op \in Loadable => j.op = j.request.op /\ Request(j.request, S, L, M)
  /\ j.op = "soft_delete_slot" => \A l \in j.found : l \in Lectures /\ L[l] # None
  /\ j.op = "soft_delete_batch" => \A s \in j.found : s \in Slots /\ S[s] # None
  /\ j.op = "generate_from_timetable" => j.found \subseteq Dates

JobsTyped ==
  /\ pc \in [Workers -> {"idle", "loaded", "checked"}]
  /\ job = [w \in Workers |-> job[w]]
  /\ \A w \in Workers : /\ pc[w] = "loaded" => Request(job[w], slot, lecture, mark)
                        /\ pc[w] = "checked" => Checked(job[w], slot, lecture, mark)

\* Two sessions that may not both be live.
Clash(a, b) ==
  /\ Overlap(a, b)
  /\ a.teacher = b.teacher \/ a.batch = b.batch \/ (a.room # DefaultRoom /\ SameRoom(a, b))

\* What the queries of a request have found still holds of the rows outside "unseen".
Holds(j, S, L, M, unseen) ==
  /\ j.op = "create_slot" =>
       \A t \in Slots \ unseen : Live(S[t]) => ~Clash(j.request, S[t].session)
  /\ j.op = "update_slot" =>
       \A t \in Slots \ (unseen \cup {j.request.slot}) :
         Live(S[t]) => ~Clash(j.request.new, S[t].session)
  /\ j.op = "create_lecture" =>
       \A m \in Lectures \ unseen :
         ~(Live(L[m]) /\ L[m].slot = j.request.slot /\ L[m].date = j.request.date)
  /\ j.op = "generate_from_timetable" =>
       \A m \in Lectures \ unseen :
         Live(L[m]) /\ L[m].slot = j.request.slot => L[m].date \notin j.found
  /\ j.op = "soft_delete_slot" => \A l \in j.found \ unseen : L[l].status = "SCHEDULED"
  /\ j.op = "soft_delete_lecture" =>
       \A s \in Students : j.request.lecture \notin unseen => ~Live(M[<<j.request.lecture, s>>])

QueriesHold ==
  \A w \in Workers : pc[w] = "checked" => Holds(job[w], slot, lecture, mark, missed[w])

\* Sessions are valid ones, and lectures have a slot.
RowsFit ==
  /\ \A s \in Slots : slot[s] # None => ValidSession(slot[s].session)
  /\ \A l \in Lectures : lecture[l] # None => slot[lecture[l].slot] # None

\* An attendance record is of a lecture.
MarksFit == \A l \in Lectures, s \in Students : mark[<<l, s>>] # None => lecture[l] # None

IInv ==
  /\ TypeOK /\ JobsTyped /\ QueriesHold /\ RowsFit /\ MarksFit
  /\ ClashNeedsRace /\ DuplicateNeedsRace

-----------------------------------------------------------------------------
(* What one commit leaves of the requests that are under way.               *)

\* Two tables agree on the rows outside "rows", a record counting as its lecture.
Elsewhere(rows, S, L, M, S2, L2, M2) ==
  /\ \A s \in Slots : s \notin rows => S2[s] = S[s]
  /\ \A l \in Lectures : l \notin rows => L2[l] = L[l]
  /\ \A l \in Lectures, s \in Students : l \notin rows => M2[<<l, s>>] = M[<<l, s>>]

LEMMA RequestKept ==
  ASSUME NEW j, NEW S, NEW L, NEW M, NEW S2, NEW L2, NEW M2,
         Request(j, S, L, M), Kept(S, L, M, S2, L2, M2)
  PROVE  Request(j, S2, L2, M2)
  BY DEF Request, Kept

LEMMA CheckedKept ==
  ASSUME NEW j, NEW S, NEW L, NEW M, NEW S2, NEW L2, NEW M2,
         Checked(j, S, L, M), Kept(S, L, M, S2, L2, M2)
  PROVE  Checked(j, S2, L2, M2)
<1>1. j.op \in Loadable => Request(j.request, S2, L2, M2)
  BY RequestKept DEF Checked
<1> QED BY <1>1 DEF Checked, Kept

\* What a request has found stays true of the rows no commit has touched since.
LEMMA HoldsKept ==
  ASSUME NEW j, NEW S, NEW L, NEW M, NEW S2, NEW L2, NEW M2, NEW unseen, NEW rows,
         Checked(j, S, L, M), Holds(j, S, L, M, unseen),
         Elsewhere(rows, S, L, M, S2, L2, M2)
  PROVE  Holds(j, S2, L2, M2, unseen \cup rows)
<1>1. ASSUME j.op = "create_slot"
      PROVE  \A t \in Slots \ (unseen \cup rows) : Live(S2[t]) => ~Clash(j.request, S2[t].session)
  BY <1>1 DEF Holds, Elsewhere
<1>2. ASSUME j.op = "update_slot"
      PROVE  \A t \in Slots \ (unseen \cup rows \cup {j.request.slot}) :
               Live(S2[t]) => ~Clash(j.request.new, S2[t].session)
  BY <1>2 DEF Holds, Elsewhere
<1>3. ASSUME j.op = "create_lecture"
      PROVE  \A m \in Lectures \ (unseen \cup rows) :
               ~(Live(L2[m]) /\ L2[m].slot = j.request.slot /\ L2[m].date = j.request.date)
  BY <1>3 DEF Holds, Elsewhere
<1>4. ASSUME j.op = "generate_from_timetable"
      PROVE  \A m \in Lectures \ (unseen \cup rows) :
               Live(L2[m]) /\ L2[m].slot = j.request.slot => L2[m].date \notin j.found
  BY <1>4 DEF Holds, Elsewhere
<1>5. ASSUME j.op = "soft_delete_slot"
      PROVE  \A l \in j.found \ (unseen \cup rows) : L2[l].status = "SCHEDULED"
  BY <1>5 DEF Holds, Checked, Elsewhere
<1>6. ASSUME j.op = "soft_delete_lecture", NEW s \in Students,
             j.request.lecture \notin unseen \cup rows
      PROVE  ~Live(M2[<<j.request.lecture, s>>])
  <2>1. j.request.lecture \in Lectures
    BY <1>6 DEF Checked, Request, Loadable
  <2> QED BY <1>6, <2>1 DEF Holds, Elsewhere
<1> QED BY <1>1, <1>2, <1>3, <1>4, <1>5, <1>6 DEF Holds

LEMMA ClashSymmetric ==
  ASSUME NEW a, NEW b, Clash(a, b)
  PROVE  Clash(b, a)
  BY DEF Clash, Overlap, SameRoom

-----------------------------------------------------------------------------
(* The commits.                                                             *)

\* What the invariant needs to know of a commit of w that wrote rows.
Writes(w, rows) ==
  /\ rows \subseteq Slots \cup Lectures
  /\ Commit(w, rows)
  /\ slot' \in [Slots -> SlotRow \cup {None}]
  /\ lecture' \in [Lectures -> LectureRow \cup {None}]
  /\ mark' \in [Keys -> MarkRow \cup {None}]
  /\ Kept(slot, lecture, mark, slot', lecture', mark')
  /\ Elsewhere(rows, slot, lecture, mark, slot', lecture', mark')
  /\ \A l \in Lectures, s \in Students :
       mark'[<<l, s>>] # None => mark[<<l, s>>] # None \/ lecture[l] # None

\* No row goes for good, and no lecture changes its slot.
RowsStay == Kept(slot, lecture, mark, slot', lecture', mark')

LEMMA CommitTypes ==
  ASSUME IInv, NEW w \in Workers, NEW rows, Writes(w, rows)
  PROVE  TypeOK'
<1> USE DEF IInv, TypeOK, Writes, Commit
<1>1. workload' \subseteq Operations /\ roster' \in [Batches -> SUBSET Students]
  OBVIOUS
<1>2. pc' \in [Workers -> {"idle", "loaded", "checked"}]
  OBVIOUS
<1>3. missed' \in [Workers -> SUBSET (Slots \cup Lectures)]
  OBVIOUS
<1>4. raced' \subseteq SUBSET (Slots \cup Lectures)
  <2>1. missed[w] \subseteq Slots \cup Lectures
    OBVIOUS
  <2>2. Unread(job[w].op) \subseteq Lectures
    BY DEF Unread
  <2> QED BY <2>1, <2>2
<1> QED BY <1>1, <1>2, <1>3, <1>4

LEMMA CommitJobs ==
  ASSUME IInv, NEW w \in Workers, NEW rows, Writes(w, rows)
  PROVE  JobsTyped' /\ QueriesHold'
<1>1. /\ pc' = [pc EXCEPT ![w] = "idle"]
      /\ job' = [job EXCEPT ![w] = NoJob]
      /\ missed' = [v \in Workers |->
                      IF v # w /\ pc[v] = "checked" THEN missed[v] \cup rows ELSE {}]
  BY DEF Writes, Commit
<1>2. pc \in [Workers -> {"idle", "loaded", "checked"}] /\ job = [v \in Workers |-> job[v]]
  BY DEF IInv, JobsTyped
<1>3. /\ Kept(slot, lecture, mark, slot', lecture', mark')
      /\ Elsewhere(rows, slot, lecture, mark, slot', lecture', mark')
  BY DEF Writes
<1>4. pc' \in [Workers -> {"idle", "loaded", "checked"}] /\ job' = [v \in Workers |-> job'[v]]
  BY <1>1, <1>2
<1>5. ASSUME NEW v \in Workers, pc'[v] = "loaded"
      PROVE  Request(job'[v], slot', lecture', mark')
  <2>1. pc[v] = "loaded" /\ job'[v] = job[v]
    BY <1>1, <1>2, <1>5
  <2>2. Request(job[v], slot, lecture, mark)
    BY <2>1 DEF IInv, JobsTyped
  <2>3. Request(job[v], slot', lecture', mark')
    BY <1>3, <2>2, RequestKept
  <2> QED BY <2>1, <2>3
<1>6. ASSUME NEW v \in Workers, pc'[v] = "checked"
      PROVE  /\ Checked(job'[v], slot', lecture', mark')
             /\ Holds(job'[v], slot', lecture', mark', missed'[v])
  <2>1. pc[v] = "checked" /\ job'[v] = job[v] /\ missed'[v] = missed[v] \cup rows
    BY <1>1, <1>2, <1>6
  <2>2. /\ Checked(job[v], slot, lecture, mark)
        /\ Holds(job[v], slot, lecture, mark, missed[v])
    BY <2>1 DEF IInv, JobsTyped, QueriesHold
  <2>3. Checked(job[v], slot', lecture', mark')
    BY <1>3, <2>2, CheckedKept
  <2>4. Holds(job[v], slot', lecture', mark', missed[v] \cup rows)
    BY <1>3, <2>2, HoldsKept
  <2> QED BY <2>1, <2>3, <2>4
<1> QED BY <1>4, <1>5, <1>6 DEF JobsTyped, QueriesHold

\* It is enough to look at the pairs with a row that was written.
LEMMA CommitClashes ==
  ASSUME IInv, NEW w \in Workers, NEW rows, Writes(w, rows),
         ASSUME NEW s \in Slots, NEW t \in Slots, s \in rows, s # t,
                Live(slot'[s]), Live(slot'[t]), Clash(slot'[s].session, slot'[t].session)
         PROVE  {s, t} \in raced'
  PROVE  ClashNeedsRace'
<1> SUFFICES ASSUME NEW s \in Slots, NEW t \in Slots, s # t, Live(slot'[s]), Live(slot'[t]),
                    Clash(slot'[s].session, slot'[t].session)
             PROVE  {s, t} \in raced'
  BY DEF ClashNeedsRace, LiveSlots, Live, Clash
<1>1. CASE s \in rows
  BY <1>1
<1>2. CASE t \in rows
  <2>1. Clash(slot'[t].session, slot'[s].session)
    BY ClashSymmetric
  <2>2. {t, s} \in raced'
    BY <1>2, <2>1
  <2>3. {t, s} = {s, t}
    OBVIOUS
  <2> QED BY <2>2, <2>3
<1>3. CASE s \notin rows /\ t \notin rows
  <2>1. slot'[s] = slot[s] /\ slot'[t] = slot[t]
    BY <1>3 DEF Writes, Elsewhere
  <2>2. {s, t} \in raced
    BY <2>1 DEF IInv, ClashNeedsRace, LiveSlots, Live, Clash
  <2> QED BY <2>2 DEF Writes, Commit
<1> QED BY <1>1, <1>2, <1>3

LEMMA CommitDuplicates ==
  ASSUME IInv, NEW w \in Workers, NEW rows, Writes(w, rows),
         ASSUME NEW l \in Lectures, NEW m \in Lectures, l \in rows, l # m,
                Live(lecture'[l]), Live(lecture'[m]),
                lecture'[l].slot = lecture'[m].slot, lecture'[l].date = lecture'[m].date
         PROVE  {l, m} \in raced'
  PROVE  DuplicateNeedsRace'
<1> SUFFICES ASSUME NEW l \in Lectures, NEW m \in Lectures, l # m,
                    Live(lecture'[l]), Live(lecture'[m]),
                    lecture'[l].slot = lecture'[m].slot, lecture'[l].date = lecture'[m].date
             PROVE  {l, m} \in raced'
  BY DEF DuplicateNeedsRace, LiveLectures, Live
<1>1. CASE l \in rows
  BY <1>1
<1>2. CASE m \in rows
  <2>1. {m, l} \in raced'
    BY <1>2
  <2>2. {m, l} = {l, m}
    OBVIOUS
  <2> QED BY <2>1, <2>2
<1>3. CASE l \notin rows /\ m \notin rows
  <2>1. lecture'[l] = lecture[l] /\ lecture'[m] = lecture[m]
    BY <1>3 DEF Writes, Elsewhere
  <2>2. {l, m} \in raced
    BY <2>1 DEF IInv, DuplicateNeedsRace, LiveLectures, Live
  <2> QED BY <2>2 DEF Writes, Commit
<1> QED BY <1>1, <1>2, <1>3

\* A row that was written and a row the request could not see are a raced pair.
LEMMA RacedPair ==
  ASSUME NEW w \in Workers, NEW rows, Commit(w, rows), NEW r \in rows,
         NEW m, m \in missed[w] \/ m \in Unread(job[w].op)
  PROVE  {r, m} \in raced'
  BY DEF Commit

LEMMA CommitKeeps ==
  ASSUME IInv, NEW w \in Workers, NEW rows, Writes(w, rows), RowsFit',
         ASSUME NEW s \in Slots, NEW t \in Slots, s \in rows, s # t,
                Live(slot'[s]), Live(slot'[t]), Clash(slot'[s].session, slot'[t].session)
         PROVE  {s, t} \in raced',
         ASSUME NEW l \in Lectures, NEW m \in Lectures, l \in rows, l # m,
                Live(lecture'[l]), Live(lecture'[m]),
                lecture'[l].slot = lecture'[m].slot, lecture'[l].date = lecture'[m].date
         PROVE  {l, m} \in raced'
  PROVE  IInv' /\ RowsStay
<1>1. TypeOK'
  BY CommitTypes
<1>2. JobsTyped' /\ QueriesHold'
  BY CommitJobs
<1>3. ClashNeedsRace'
  BY CommitClashes
<1>4. DuplicateNeedsRace'
  BY CommitDuplicates
<1>5. MarksFit'
  BY DEF IInv, MarksFit, Writes, Kept
<1>6. RowsStay
  BY DEF Writes, RowsStay
<1> QED BY <1>1, <1>2, <1>3, <1>4, <1>5, <1>6 DEF IInv

\* A request past its queries: what it holds, and what they found.
LEMMA Ready ==
  ASSUME IInv, NEW w \in Workers, NEW op, Writing(w, op)
  PROVE  /\ job[w].op = op
         /\ pc[w] = "checked"
         /\ Checked(job[w], slot, lecture, mark)
         /\ Holds(job[w], slot, lecture, mark, missed[w])
  BY DEF IInv, JobsTyped, QueriesHold, Writing

LEMMA Tables ==
  ASSUME IInv
  PROVE  /\ slot \in [Slots -> SlotRow \cup {None}]
         /\ lecture \in [Lectures -> LectureRow \cup {None}]
         /\ mark \in [Keys -> MarkRow \cup {None}]
  BY DEF IInv, TypeOK

\* A row of a table is not None, and None is no row.
LEMMA NoneIsNoRow == None \notin SlotRow /\ None \notin LectureRow /\ None \notin MarkRow
  BY ScenarioAssumption

LEMMA CreateSlotStep ==
  ASSUME IInv, NEW w \in Workers, CreateSlot(w)
  PROVE  IInv' /\ RowsStay
<1>0. /\ slot \in [Slots -> SlotRow \cup {None}]
      /\ lecture \in [Lectures -> LectureRow \cup {None}]
      /\ mark \in [Keys -> MarkRow \cup {None}]
  BY Tables
<1> USE <1>0, NoneIsNoRow, ConstantsAssumption
<1>1. PICK s \in Slots :
        /\ slot[s] = None
        /\ slot' = [slot EXCEPT ![s] = [session |-> job[w].request, is_deleted |-> FALSE]]
        /\ Commit(w, {s})
  BY DEF CreateSlot
<1>2. PICK rows : rows = {s}
  OBVIOUS
<1>3. lecture' = lecture /\ mark' = mark /\ Commit(w, rows)
  BY <1>1, <1>2 DEF CreateSlot
<1>4. /\ job[w].op = "create_slot"
      /\ job[w].request \in Session /\ ValidSession(job[w].request)
  BY Ready DEF CreateSlot, Checked
<1>5. \A t \in Slots \ missed[w] : Live(slot[t]) => ~Clash(job[w].request, slot[t].session)
  BY <1>4, Ready DEF CreateSlot, Holds
<1>6. slot' \in [Slots -> SlotRow \cup {None}]
  BY <1>1, <1>4 DEF SlotRow
<1>7. Writes(w, rows)
  BY <1>1, <1>2, <1>3, <1>6 DEF Writes, Kept, Elsewhere
<1>8. ASSUME NEW r \in Slots, NEW t \in Slots, r \in rows, r # t,
             Live(slot'[r]), Live(slot'[t]), Clash(slot'[r].session, slot'[t].session)
      PROVE  {r, t} \in raced'
  <2>1. slot'[r].session = job[w].request /\ slot'[t] = slot[t]
    BY <1>1, <1>2, <1>8
  <2>2. t \in missed[w]
    BY <1>5, <1>8, <2>1
  <2> QED BY <1>3, <1>8, <2>2, RacedPair
<1>9. ASSUME NEW l \in Lectures, l \in rows
      PROVE  FALSE
  BY <1>2, <1>9
<1>10. RowsFit'
  BY <1>1, <1>3, <1>4 DEF IInv, RowsFit, TypeOK, LectureRow
<1> QED BY <1>7, <1>8, <1>9, <1>10, CommitKeeps

LEMMA UpdateSlotStep ==
  ASSUME IInv, NEW w \in Workers, UpdateSlot(w)
  PROVE  IInv' /\ RowsStay
<1>0. /\ slot \in [Slots -> SlotRow \cup {None}]
      /\ lecture \in [Lectures -> LectureRow \cup {None}]
      /\ mark \in [Keys -> MarkRow \cup {None}]
  BY Tables
<1> USE <1>0, NoneIsNoRow, ConstantsAssumption
<1> DEFINE j == job[w].request
<1>1. /\ slot' = [slot EXCEPT ![j.slot] = [session |-> j.new, is_deleted |-> FALSE]]
      /\ Commit(w, {j.slot})
      /\ lecture' = lecture /\ mark' = mark
  BY DEF UpdateSlot
<1>2. PICK rows : rows = {j.slot}
  OBVIOUS
<1>3. Commit(w, rows)
  BY <1>1, <1>2
<1>4. /\ job[w].op = "update_slot"
      /\ j.slot \in Slots /\ slot[j.slot] # None
      /\ j.new \in Session /\ ValidSession(j.new)
  BY Ready DEF UpdateSlot, Checked, Request, Loadable
<1>5. \A t \in Slots \ (missed[w] \cup {j.slot}) : Live(slot[t]) => ~Clash(j.new, slot[t].session)
  BY <1>4, Ready DEF UpdateSlot, Holds
<1> HIDE DEF j
<1>6. slot' \in [Slots -> SlotRow \cup {None}]
  BY <1>1, <1>4 DEF SlotRow
<1>7. Writes(w, rows)
  <2>1. \A s \in Slots : s \notin rows => slot'[s] = slot[s]
    BY <1>1, <1>2
  <2>2. slot'[j.slot] # None
    <3>1. slot'[j.slot] = [session |-> j.new, is_deleted |-> FALSE]
      BY <1>1, <1>4
    <3>2. slot'[j.slot] \in SlotRow
      BY <1>4, <3>1 DEF SlotRow
    <3> QED BY <3>2
  <2>3. Kept(slot, lecture, mark, slot', lecture', mark')
    BY <1>1, <1>2, <2>1, <2>2 DEF Kept
  <2>4. Elsewhere(rows, slot, lecture, mark, slot', lecture', mark')
    BY <1>1, <2>1 DEF Elsewhere
  <2> QED BY <1>1, <1>2, <1>3, <1>4, <1>6, <2>3, <2>4 DEF Writes
<1>8. ASSUME NEW r \in Slots, NEW t \in Slots, r \in rows, r # t,
             Live(slot'[r]), Live(slot'[t]), Clash(slot'[r].session, slot'[t].session)
      PROVE  {r, t} \in raced'
  <2>1. slot'[r].session = j.new /\ slot'[t] = slot[t] /\ t # j.slot
    BY <1>1, <1>2, <1>8
  <2>2. t \in missed[w]
    BY <1>5, <1>8, <2>1
  <2> QED BY <1>3, <1>8, <2>2, RacedPair
<1>9. ASSUME NEW l \in Lectures, l \in rows
      PROVE  FALSE
  BY <1>2, <1>4, <1>9
<1>10. RowsFit'
  <2>1. \A s \in Slots : slot'[s] # None => ValidSession(slot'[s].session)
    BY <1>1, <1>4 DEF IInv, RowsFit
  <2>2. \A l \in Lectures : lecture'[l] # None => slot'[lecture'[l].slot] # None
    BY <1>1, <1>7 DEF IInv, RowsFit, Writes, Kept, LectureRow
  <2> QED BY <2>1, <2>2 DEF RowsFit
<1> QED BY <1>7, <1>8, <1>9, <1>10, CommitKeeps

\* A pair whose rows were live and alike before is raced already.
LEMMA OldDuplicate ==
  ASSUME IInv, NEW w \in Workers, NEW rows, Commit(w, rows),
         NEW l \in Lectures, NEW m \in Lectures, l # m, Live(lecture[l]), Live(lecture[m]),
         lecture[l].slot = lecture[m].slot, lecture[l].date = lecture[m].date
  PROVE  {l, m} \in raced'
  BY DEF IInv, DuplicateNeedsRace, LiveLectures, Live, Commit

LEMMA DeleteSlotStep ==
  ASSUME IInv, NEW w \in Workers, DeleteSlot(w)
  PROVE  IInv' /\ RowsStay
<1>0. /\ slot \in [Slots -> SlotRow \cup {None}]
      /\ lecture \in [Lectures -> LectureRow \cup {None}]
      /\ mark \in [Keys -> MarkRow \cup {None}]
  BY Tables
<1> USE <1>0, NoneIsNoRow, ConstantsAssumption
<1> DEFINE s == job[w].request.slot
           withdrawn == job[w].found
<1>1. /\ slot' = [slot EXCEPT ![s].is_deleted = TRUE]
      /\ lecture' = [l \in Lectures |->
                       IF l \in withdrawn THEN [lecture[l] EXCEPT !.is_deleted = TRUE]
                                          ELSE lecture[l]]
      /\ Commit(w, {s} \cup withdrawn)
      /\ mark' = mark
  BY DEF DeleteSlot
<1>2. PICK rows : rows = {s} \cup withdrawn
  OBVIOUS
<1>3. Commit(w, rows)
  BY <1>1, <1>2
<1>4. /\ s \in Slots /\ slot[s] # None
      /\ \A l \in withdrawn : l \in Lectures /\ lecture[l] # None
  BY Ready DEF DeleteSlot, Checked, Request, Loadable
<1> HIDE DEF s, withdrawn
<1>5. slot' \in [Slots -> SlotRow \cup {None}]
  BY <1>1, <1>4 DEF SlotRow
<1>6. \A l \in Lectures :
        /\ l \notin withdrawn => lecture'[l] = lecture[l]
        /\ l \in withdrawn => /\ lecture'[l] \in LectureRow /\ lecture'[l].is_deleted
                              /\ lecture'[l].slot = lecture[l].slot
  <2> TAKE l \in Lectures
  <2>1. CASE l \in withdrawn
    <3>1. lecture[l] \in LectureRow /\ lecture'[l] = [lecture[l] EXCEPT !.is_deleted = TRUE]
      BY <1>1, <1>4, <2>1
    <3> QED BY <2>1, <3>1 DEF LectureRow
  <2>2. CASE l \notin withdrawn
    BY <1>1, <2>2
  <2> QED BY <2>1, <2>2
<1>6a. lecture' \in [Lectures -> LectureRow \cup {None}]
  <2>1. lecture' = [l \in Lectures |-> lecture'[l]]
    BY <1>1
  <2>2. \A l \in Lectures : lecture'[l] \in LectureRow \cup {None}
    BY <1>6
  <2> QED BY <2>1, <2>2
<1>7. Writes(w, rows)
  <2>1. \A r \in Slots : r # s => slot'[r] = slot[r]
    BY <1>1
  <2>2. slot'[s] # None
    BY <1>1, <1>4 DEF SlotRow
  <2>3. Kept(slot, lecture, mark, slot', lecture', mark')
    BY <1>1, <1>6, <2>1, <2>2 DEF Kept
  <2>4. Elsewhere(rows, slot, lecture, mark, slot', lecture', mark')
    BY <1>1, <1>2, <1>6, <2>1 DEF Elsewhere
  <2> QED BY <1>1, <1>2, <1>3, <1>4, <1>5, <1>6a, <2>3, <2>4 DEF Writes
<1>8. ASSUME NEW r \in Slots, r \in rows, Live(slot'[r])
      PROVE  FALSE
  BY <1>1, <1>2, <1>4, <1>8 DEF Live, SlotRow
<1>9. ASSUME NEW l \in Lectures, l \in rows, Live(lecture'[l])
      PROVE  FALSE
  BY <1>2, <1>4, <1>6, <1>9 DEF Live
<1>10. RowsFit'
  <2>1. \A r \in Slots : slot'[r] # None => slot[r] # None /\ slot'[r].session = slot[r].session
    BY <1>1, <1>4 DEF SlotRow
  <2>2. \A l \in Lectures :
          lecture'[l] # None => lecture[l] # None /\ lecture'[l].slot = lecture[l].slot
    BY <1>4, <1>6
  <2>3. \A r \in Slots : slot[r] # None => slot'[r] # None
    BY <1>7 DEF Writes, Kept
  <2> QED BY <2>1, <2>2, <2>3 DEF IInv, RowsFit, LectureRow
<1> QED BY <1>7, <1>8, <1>9, <1>10, CommitKeeps

LEMMA DeleteBatchStep ==
  ASSUME IInv, NEW w \in Workers, DeleteBatch(w)
  PROVE  IInv' /\ RowsStay
<1>0. /\ slot \in [Slots -> SlotRow \cup {None}]
      /\ lecture \in [Lectures -> LectureRow \cup {None}]
      /\ mark \in [Keys -> MarkRow \cup {None}]
  BY Tables
<1> USE <1>0, NoneIsNoRow, ConstantsAssumption
<1> DEFINE found == job[w].found
<1>1. /\ slot' = [s \in Slots |->
                    IF s \in found THEN [slot[s] EXCEPT !.is_deleted = TRUE] ELSE slot[s]]
      /\ Commit(w, found)
      /\ lecture' = lecture /\ mark' = mark
  BY DEF DeleteBatch
<1>2. \A s \in found : s \in Slots /\ slot[s] # None
  BY Ready DEF DeleteBatch, Checked
<1> HIDE DEF found
<1>3. slot' \in [Slots -> SlotRow \cup {None}]
  BY <1>1, <1>2 DEF SlotRow
<1>4. Writes(w, found)
  BY <1>1, <1>2, <1>3 DEF Writes, Kept, Elsewhere, SlotRow
<1>5. ASSUME NEW r \in Slots, r \in found, Live(slot'[r])
      PROVE  FALSE
  BY <1>1, <1>2, <1>5 DEF Live, SlotRow
<1>6. ASSUME NEW l \in Lectures, l \in found
      PROVE  FALSE
  BY <1>2, <1>6
<1>7. RowsFit'
  BY <1>1, <1>2 DEF IInv, RowsFit, LectureRow, SlotRow
<1> QED BY <1>4, <1>5, <1>6, <1>7, CommitKeeps

\* A commit that leaves the slots alone and writes lectures that have a slot.
LEMMA LectureCommit ==
  ASSUME IInv, NEW w \in Workers, NEW rows, Commit(w, rows),
         \A r \in rows : r \in Lectures,
         slot' = slot,
         lecture' \in [Lectures -> LectureRow \cup {None}],
         mark' \in [Keys -> MarkRow \cup {None}],
         Kept(slot, lecture, mark, slot, lecture', mark'),
         Elsewhere(rows, slot, lecture, mark, slot, lecture', mark'),
         \A l \in Lectures, s \in Students :
           mark'[<<l, s>>] # None => mark[<<l, s>>] # None \/ lecture[l] # None,
         \A l \in rows : lecture'[l] # None => slot[lecture'[l].slot] # None,
         ASSUME NEW l \in Lectures, NEW m \in Lectures, l \in rows, l # m,
                Live(lecture'[l]), Live(lecture'[m]),
                lecture'[l].slot = lecture'[m].slot, lecture'[l].date = lecture'[m].date
         PROVE  {l, m} \in raced'
  PROVE  IInv' /\ RowsStay
<1>1. Writes(w, rows)
  BY Tables DEF Writes
<1>2. ASSUME NEW r \in Slots, r \in rows
      PROVE  FALSE
  BY <1>2, ConstantsAssumption
<1>3. RowsFit'
  BY DEF IInv, RowsFit, Elsewhere
<1> QED BY <1>1, <1>2, <1>3, CommitKeeps

LEMMA CreateLectureStep ==
  ASSUME IInv, NEW w \in Workers, CreateLecture(w)
  PROVE  IInv' /\ RowsStay
<1>0. /\ slot \in [Slots -> SlotRow \cup {None}]
      /\ lecture \in [Lectures -> LectureRow \cup {None}]
      /\ mark \in [Keys -> MarkRow \cup {None}]
  BY Tables
<1> USE <1>0, NoneIsNoRow
<1> DEFINE j == job[w].request
<1>1. PICK l \in Lectures :
        /\ lecture[l] = None
        /\ lecture' = [lecture EXCEPT ![l] = NewLecture(j.slot, j.date, j.status)]
        /\ Commit(w, {l})
  BY DEF CreateLecture
<1>2. PICK rows : rows = {l}
  OBVIOUS
<1>3. slot' = slot /\ mark' = mark /\ Commit(w, rows)
  BY <1>1, <1>2 DEF CreateLecture
<1>4. /\ job[w].op = "create_lecture"
      /\ j.slot \in Slots /\ slot[j.slot] # None /\ j.date \in Dates /\ j.status \in LectureStatuses
  BY Ready DEF CreateLecture, Checked
<1>5. \A m \in Lectures \ missed[w] :
        ~(Live(lecture[m]) /\ lecture[m].slot = j.slot /\ lecture[m].date = j.date)
  BY <1>4, Ready DEF CreateLecture, Holds
<1> HIDE DEF j
<1>6. lecture' \in [Lectures -> LectureRow \cup {None}]
  BY <1>1, <1>4 DEF LectureRow, NewLecture
<1>7. /\ Kept(slot, lecture, mark, slot, lecture', mark')
      /\ Elsewhere(rows, slot, lecture, mark, slot, lecture', mark')
  BY <1>1, <1>2, <1>3 DEF Kept, Elsewhere
<1>8. ASSUME NEW k \in Lectures, NEW m \in Lectures, k \in rows, k # m,
             Live(lecture'[k]), Live(lecture'[m]),
             lecture'[k].slot = lecture'[m].slot, lecture'[k].date = lecture'[m].date
      PROVE  {k, m} \in raced'
  <2>1. lecture'[k].slot = j.slot /\ lecture'[k].date = j.date /\ lecture'[m] = lecture[m]
    BY <1>1, <1>2, <1>8 DEF NewLecture
  <2>2. m \in missed[w]
    BY <1>5, <1>8, <2>1
  <2> QED BY <1>3, <1>8, <2>2, RacedPair
<1>9. \A k \in rows : k \in Lectures /\ (lecture'[k] # None => slot[lecture'[k].slot] # None)
  BY <1>1, <1>2, <1>4 DEF NewLecture
<1> QED BY <1>3, <1>6, <1>7, <1>8, <1>9, LectureCommit

LEMMA GenerateStep ==
  ASSUME IInv, NEW w \in Workers, Generate(w)
  PROVE  IInv' /\ RowsStay
<1>0. /\ slot \in [Slots -> SlotRow \cup {None}]
      /\ lecture \in [Lectures -> LectureRow \cup {None}]
      /\ mark \in [Keys -> MarkRow \cup {None}]
  BY Tables
<1> USE <1>0, NoneIsNoRow
<1> DEFINE j == job[w].request
           dates == job[w].found
<1>1. PICK row \in [dates -> {l \in Lectures : lecture[l] = None}] :
        /\ \A d, e \in dates : row[d] = row[e] => d = e
        /\ lecture' = [l \in Lectures |->
              IF l \in {row[d] : d \in dates}
                THEN NewLecture(j.slot, CHOOSE d \in dates : row[d] = l, "SCHEDULED")
                ELSE lecture[l]]
        /\ Commit(w, {row[d] : d \in dates})
  BY DEF Generate
<1>2. PICK rows : rows = {row[d] : d \in dates}
  OBVIOUS
<1>3. slot' = slot /\ mark' = mark /\ Commit(w, rows)
  BY <1>1, <1>2 DEF Generate
<1>4. /\ job[w].op = "generate_from_timetable"
      /\ j.slot \in Slots /\ slot[j.slot] # None
      /\ dates \subseteq Dates
  BY Ready DEF Generate, Checked, Request, Loadable
<1>5. \A m \in Lectures \ missed[w] :
        Live(lecture[m]) /\ lecture[m].slot = j.slot => lecture[m].date \notin dates
  BY <1>4, Ready DEF Generate, Holds
<1> HIDE DEF j, dates
<1>5a. PICK date : date = [l \in rows |-> CHOOSE d \in dates : row[d] = l]
  OBVIOUS
<1>6. \A l \in rows : /\ l \in Lectures /\ lecture[l] = None
                      /\ date[l] \in dates /\ row[date[l]] = l
  BY <1>1, <1>2, <1>5a
<1>7. \A l \in rows : lecture'[l] = NewLecture(j.slot, date[l], "SCHEDULED")
  BY <1>1, <1>2, <1>5a, <1>6
<1>7a. \A l \in rows : /\ lecture'[l] \in LectureRow
                        /\ lecture'[l].slot = j.slot /\ lecture'[l].date = date[l]
  <2> TAKE l \in rows
  <2>1. lecture'[l] = [slot |-> j.slot, date |-> date[l], status |-> "SCHEDULED",
                       is_deleted |-> FALSE]
    BY <1>7 DEF NewLecture
  <2>2. date[l] \in Dates
    BY <1>4, <1>6
  <2> QED BY <1>4, <2>1, <2>2 DEF LectureRow, LectureStatuses
<1>8. \A l \in Lectures : l \notin rows => lecture'[l] = lecture[l]
  BY <1>1, <1>2
<1>9. lecture' = [l \in Lectures |-> lecture'[l]]
  BY <1>1
<1>10. lecture' \in [Lectures -> LectureRow \cup {None}]
  <2>1. \A l \in Lectures : lecture'[l] \in LectureRow \cup {None}
    BY <1>6, <1>7a, <1>8
  <2> QED BY <1>9, <2>1
<1>11. /\ Kept(slot, lecture, mark, slot, lecture', mark')
       /\ Elsewhere(rows, slot, lecture, mark, slot, lecture', mark')
  BY <1>3, <1>6, <1>8 DEF Kept, Elsewhere
<1>12. ASSUME NEW k \in Lectures, NEW m \in Lectures, k \in rows, k # m,
              Live(lecture'[k]), Live(lecture'[m]),
              lecture'[k].slot = lecture'[m].slot, lecture'[k].date = lecture'[m].date
       PROVE  {k, m} \in raced'
  <2>1. lecture'[k].slot = j.slot /\ lecture'[k].date = date[k]
    BY <1>7a, <1>12
  <2>2. m \notin rows
    <3>1. m \in rows => row[date[k]] = row[date[m]]
      BY <1>7a, <1>12
    <3> QED BY <1>6, <1>12, <3>1
  <2>3. m \in missed[w]
    BY <1>5, <1>6, <1>8, <1>12, <2>1, <2>2
  <2> QED BY <1>3, <1>12, <2>3, RacedPair
<1>13. \A k \in rows : k \in Lectures /\ (lecture'[k] # None => slot[lecture'[k].slot] # None)
  BY <1>4, <1>6, <1>7a
<1> QED BY <1>3, <1>10, <1>11, <1>12, <1>13, LectureCommit

LEMMA UpdateLectureStep ==
  ASSUME IInv, NEW w \in Workers, UpdateLecture(w)
  PROVE  IInv' /\ RowsStay
<1>0. /\ slot \in [Slots -> SlotRow \cup {None}]
      /\ lecture \in [Lectures -> LectureRow \cup {None}]
      /\ mark \in [Keys -> MarkRow \cup {None}]
  BY Tables
<1> USE <1>0, NoneIsNoRow
<1> DEFINE j == job[w].request
<1>1. /\ lecture' = [lecture EXCEPT ![j.lecture] =
                       [j.seen EXCEPT !.date = j.date, !.status = j.status]]
      /\ Commit(w, {j.lecture})
      /\ slot' = slot /\ mark' = mark
  BY DEF UpdateLecture
<1>2. PICK rows : rows = {j.lecture}
  OBVIOUS
<1>3. Commit(w, rows)
  BY <1>1, <1>2
<1>4. /\ job[w].op = "update_lecture"
      /\ j.lecture \in Lectures /\ lecture[j.lecture] # None
      /\ j.seen \in LectureRow /\ j.seen.slot = lecture[j.lecture].slot
      /\ j.date \in Dates /\ j.status \in LectureStatuses
  BY Ready DEF UpdateLecture, Checked, Request, Loadable
<1> HIDE DEF j
<1>5. lecture'[j.lecture] \in LectureRow /\ lecture'[j.lecture].slot = lecture[j.lecture].slot
  <2>1. lecture'[j.lecture] = [j.seen EXCEPT !.date = j.date, !.status = j.status]
    BY <1>1, <1>4
  <2> QED BY <1>4, <2>1 DEF LectureRow
<1>6. \A l \in Lectures : l # j.lecture => lecture'[l] = lecture[l]
  BY <1>1
<1>7. lecture' \in [Lectures -> LectureRow \cup {None}]
  BY <1>1, <1>5, <1>6
<1>8. Kept(slot, lecture, mark, slot, lecture', mark')
  BY <1>1, <1>5, <1>6 DEF Kept
<1>9. Elsewhere(rows, slot, lecture, mark, slot, lecture', mark')
  BY <1>1, <1>2, <1>6 DEF Elsewhere
<1>10. ASSUME NEW k \in Lectures, NEW m \in Lectures, k \in rows
       PROVE  {k, m} \in raced'
  <2>1. m \in Unread(job[w].op)
    BY <1>4 DEF Unread
  <2> QED BY <1>3, <1>10, <2>1, RacedPair
<1>11. \A k \in rows : k \in Lectures /\ (lecture'[k] # None => slot[lecture'[k].slot] # None)
  BY <1>2, <1>4, <1>5 DEF IInv, RowsFit
<1> QED BY <1>1, <1>3, <1>7, <1>8, <1>9, <1>10, <1>11, LectureCommit

\* A commit that changes neither slot nor date of one lecture, and does not bring it back.
LEMMA StatusCommit ==
  ASSUME IInv, NEW w \in Workers, NEW k \in Lectures, NEW rows, rows = {k}, Commit(w, rows),
         lecture[k] # None,
         slot' = slot,
         NEW row \in LectureRow, lecture' = [lecture EXCEPT ![k] = row],
         row.slot = lecture[k].slot, row.date = lecture[k].date,
         lecture[k].is_deleted => row.is_deleted,
         mark' \in [Keys -> MarkRow \cup {None}],
         \A x \in Keys : mark[x] # None => mark'[x] # None,
         \A l \in Lectures, s \in Students : l # k => mark'[<<l, s>>] = mark[<<l, s>>]
  PROVE  IInv' /\ RowsStay
<1>0. /\ slot \in [Slots -> SlotRow \cup {None}]
      /\ lecture \in [Lectures -> LectureRow \cup {None}]
  BY Tables
<1>1. lecture' \in [Lectures -> LectureRow \cup {None}]
  BY <1>0
<1>1a. \A l \in Lectures, s \in Students :
         mark'[<<l, s>>] # None => mark[<<l, s>>] # None \/ lecture[l] # None
  OBVIOUS
<1>2. lecture'[k] = row /\ \A l \in Lectures : l # k => lecture'[l] = lecture[l]
  BY <1>0
<1>3. Kept(slot, lecture, mark, slot, lecture', mark')
  BY <1>2, NoneIsNoRow DEF Kept
<1>4. Elsewhere(rows, slot, lecture, mark, slot, lecture', mark')
  BY <1>2 DEF Elsewhere
<1>5. ASSUME NEW l \in Lectures, NEW m \in Lectures, l \in rows, l # m,
             Live(lecture'[l]), Live(lecture'[m]),
             lecture'[l].slot = lecture'[m].slot, lecture'[l].date = lecture'[m].date
      PROVE  {l, m} \in raced'
  <2>1. /\ Live(lecture[l]) /\ Live(lecture[m])
        /\ lecture[l].slot = lecture[m].slot /\ lecture[l].date = lecture[m].date
    BY <1>2, <1>5 DEF Live
  <2> QED BY <1>5, <2>1, OldDuplicate
<1>6. \A l \in rows : l \in Lectures /\ (lecture'[l] # None => slot[lecture'[l].slot] # None)
  BY <1>2 DEF IInv, RowsFit
<1> QED BY <1>1, <1>1a, <1>3, <1>4, <1>5, <1>6, LectureCommit

LEMMA CancelLectureStep ==
  ASSUME IInv, NEW w \in Workers, CancelLecture(w)
  PROVE  IInv' /\ RowsStay
<1>0. /\ lecture \in [Lectures -> LectureRow \cup {None}]
      /\ mark \in [Keys -> MarkRow \cup {None}]
  BY Tables
<1> DEFINE l == job[w].request.lecture
<1>1. /\ lecture' = [lecture EXCEPT ![l].status = "CANCELLED"]
      /\ Commit(w, {l})
      /\ slot' = slot /\ mark' = mark
  BY DEF CancelLecture
<1>2. PICK rows : rows = {l}
  OBVIOUS
<1>3. Commit(w, rows)
  BY <1>1, <1>2
<1>4. l \in Lectures /\ lecture[l] # None
  BY Ready DEF CancelLecture, Checked, Request, Loadable
<1> HIDE DEF l
<1>5. PICK row : row = [lecture[l] EXCEPT !.status = "CANCELLED"]
  OBVIOUS
<1>6. /\ row \in LectureRow
      /\ row.slot = lecture[l].slot /\ row.date = lecture[l].date
      /\ row.is_deleted = lecture[l].is_deleted
  <2>1. lecture[l] \in LectureRow
    BY <1>0, <1>4
  <2> QED BY <1>5, <2>1 DEF LectureRow, LectureStatuses
<1>7. lecture' = [lecture EXCEPT ![l] = row]
  BY <1>0, <1>1, <1>4, <1>5
<1> QED BY <1>0, <1>1, <1>2, <1>3, <1>4, <1>6, <1>7, StatusCommit

LEMMA DeleteLectureStep ==
  ASSUME IInv, NEW w \in Workers, DeleteLecture(w)
  PROVE  IInv' /\ RowsStay
<1>0. /\ lecture \in [Lectures -> LectureRow \cup {None}]
      /\ mark \in [Keys -> MarkRow \cup {None}]
  BY Tables
<1> DEFINE l == job[w].request.lecture
<1>1. /\ lecture' = [lecture EXCEPT ![l].is_deleted = TRUE]
      /\ Commit(w, {l})
      /\ slot' = slot /\ mark' = mark
  BY DEF DeleteLecture
<1>2. PICK rows : rows = {l}
  OBVIOUS
<1>3. Commit(w, rows)
  BY <1>1, <1>2
<1>4. l \in Lectures /\ lecture[l] # None
  BY Ready DEF DeleteLecture, Checked, Request, Loadable
<1> HIDE DEF l
<1>5. PICK row : row = [lecture[l] EXCEPT !.is_deleted = TRUE]
  OBVIOUS
<1>6. /\ row \in LectureRow
      /\ row.slot = lecture[l].slot /\ row.date = lecture[l].date
      /\ row.is_deleted
  <2>1. lecture[l] \in LectureRow
    BY <1>0, <1>4
  <2> QED BY <1>5, <2>1 DEF LectureRow, LectureStatuses
<1>7. lecture' = [lecture EXCEPT ![l] = row]
  BY <1>0, <1>1, <1>4, <1>5
<1> QED BY <1>0, <1>1, <1>2, <1>3, <1>4, <1>6, <1>7, StatusCommit

LEMMA MarkAttendanceStep ==
  ASSUME IInv, NEW w \in Workers, MarkAttendance(w)
  PROVE  IInv' /\ RowsStay
<1>0. /\ lecture \in [Lectures -> LectureRow \cup {None}]
      /\ mark \in [Keys -> MarkRow \cup {None}]
  BY Tables
<1> DEFINE j == job[w].request
           keys == {<<j.lecture, s>> : s \in j.students}
           new == [status |-> j.status, is_deleted |-> FALSE]
<1>1. /\ mark' = [k \in Keys |-> IF k \in keys THEN new ELSE mark[k]]
      /\ lecture' = [lecture EXCEPT ![j.lecture].status = IF j.complete THEN "COMPLETED" ELSE @]
      /\ Commit(w, {j.lecture})
      /\ slot' = slot
  BY DEF MarkAttendance
<1>2. PICK rows : rows = {j.lecture}
  OBVIOUS
<1>3. Commit(w, rows)
  BY <1>1, <1>2
<1>4. /\ j.lecture \in Lectures /\ lecture[j.lecture] # None
      /\ j.students \subseteq Students /\ j.status \in Statuses
  BY Ready DEF MarkAttendance, Checked, Request, Loadable
<1>5. new \in MarkRow
  BY <1>4 DEF MarkRow
<1>6. \A l \in Lectures, s \in Students : l # j.lecture => <<l, s>> \notin keys
  OBVIOUS
<1> HIDE DEF j, keys, new
<1>7. mark' \in [Keys -> MarkRow \cup {None}]
  BY <1>0, <1>1, <1>5
<1>8. \A x \in Keys : mark[x] # None => mark'[x] # None
  BY <1>1, <1>5, NoneIsNoRow
<1>9. \A l \in Lectures, s \in Students : l # j.lecture => mark'[<<l, s>>] = mark[<<l, s>>]
  BY <1>1, <1>6 DEF Keys
<1>10. PICK row : row = [lecture[j.lecture] EXCEPT !.status = IF j.complete THEN "COMPLETED" ELSE @]
  OBVIOUS
<1>11. /\ row \in LectureRow
       /\ row.slot = lecture[j.lecture].slot /\ row.date = lecture[j.lecture].date
       /\ row.is_deleted = lecture[j.lecture].is_deleted
  <2>1. lecture[j.lecture] \in LectureRow
    BY <1>0, <1>4
  <2> QED BY <1>10, <2>1 DEF LectureRow, LectureStatuses
<1>12. lecture' = [lecture EXCEPT ![j.lecture] = row]
  BY <1>0, <1>1, <1>4, <1>10
<1> QED BY <1>1, <1>2, <1>3, <1>4, <1>7, <1>8, <1>9, <1>11, <1>12, StatusCommit

\* A commit that writes one attendance record there is, or nothing.
LEMMA MarkCommit ==
  ASSUME IInv, NEW w \in Workers, NEW rows, Commit(w, rows),
         \A r \in rows : r \in Lectures /\ lecture[r] # None,
         slot' = slot, lecture' = lecture,
         mark' \in [Keys -> MarkRow \cup {None}],
         \A x \in Keys : mark[x] # None => mark'[x] # None,
         \A l \in Lectures, s \in Students : l \notin rows => mark'[<<l, s>>] = mark[<<l, s>>]
  PROVE  IInv' /\ RowsStay
<1>0. /\ slot \in [Slots -> SlotRow \cup {None}]
      /\ lecture \in [Lectures -> LectureRow \cup {None}]
  BY Tables
<1>1. Kept(slot, lecture, mark, slot, lecture', mark')
  BY DEF Kept
<1>2. Elsewhere(rows, slot, lecture, mark, slot, lecture', mark')
  BY DEF Elsewhere
<1>3. ASSUME NEW l \in Lectures, NEW m \in Lectures, l \in rows, l # m,
             Live(lecture'[l]), Live(lecture'[m]),
             lecture'[l].slot = lecture'[m].slot, lecture'[l].date = lecture'[m].date
      PROVE  {l, m} \in raced'
  BY <1>3, OldDuplicate
<1>4. \A l \in rows : lecture'[l] # None => slot[lecture'[l].slot] # None
  BY DEF IInv, RowsFit
<1>5. \A l \in Lectures, s \in Students :
        mark'[<<l, s>>] # None => mark[<<l, s>>] # None \/ lecture[l] # None
  OBVIOUS
<1> QED BY <1>0, <1>1, <1>2, <1>3, <1>4, <1>5, LectureCommit

LEMMA MarkConflictStep ==
  ASSUME IInv, NEW w \in Workers, MarkConflict(w)
  PROVE  IInv' /\ RowsStay
<1>0. mark \in [Keys -> MarkRow \cup {None}]
  BY Tables
<1>1. PICK rows : rows = {}
  OBVIOUS
<1>2. Commit(w, rows) /\ slot' = slot /\ lecture' = lecture /\ mark' = mark
  BY <1>1 DEF MarkConflict
<1>3. \A r \in rows : r \in Lectures /\ lecture[r] # None
  BY <1>1
<1> QED BY <1>0, <1>2, <1>3, MarkCommit

LEMMA AmendAttendanceStep ==
  ASSUME IInv, NEW w \in Workers, AmendAttendance(w)
  PROVE  IInv' /\ RowsStay
<1>0. mark \in [Keys -> MarkRow \cup {None}]
  BY Tables
<1> DEFINE j == job[w].request
<1>1. PICK rows : rows = {j.key[1]}
  OBVIOUS
<1>2. /\ Commit(w, rows) /\ slot' = slot /\ lecture' = lecture
      /\ mark' = [mark EXCEPT ![j.key].status = j.status]
  BY <1>1 DEF AmendAttendance
<1>3. j.key \in Keys /\ mark[j.key] # None /\ j.status \in Statuses
  BY Ready DEF AmendAttendance, Checked, Request, Loadable
<1> HIDE DEF j
<1>4. mark'[j.key] \in MarkRow /\ \A x \in Keys : x # j.key => mark'[x] = mark[x]
  <2>1. mark[j.key] \in MarkRow /\ mark'[j.key] = [mark[j.key] EXCEPT !.status = j.status]
    BY <1>0, <1>2, <1>3
  <2> QED BY <1>0, <1>2, <1>3, <2>1 DEF MarkRow
<1>5. mark' \in [Keys -> MarkRow \cup {None}]
  BY <1>0, <1>2, <1>4
<1>6. \A x \in Keys : mark[x] # None => mark'[x] # None
  BY <1>4, NoneIsNoRow
<1>7. \A l \in Lectures, s \in Students : l \notin rows => mark'[<<l, s>>] = mark[<<l, s>>]
  BY <1>1, <1>4 DEF Keys
<1>8. \A r \in rows : r \in Lectures /\ lecture[r] # None
  BY <1>1, <1>3 DEF Keys, IInv, MarksFit
<1> QED BY <1>2, <1>5, <1>6, <1>7, <1>8, MarkCommit

LEMMA DeleteAttendanceStep ==
  ASSUME IInv, NEW w \in Workers, DeleteAttendance(w)
  PROVE  IInv' /\ RowsStay
<1>0. mark \in [Keys -> MarkRow \cup {None}]
  BY Tables
<1> DEFINE key == job[w].request.key
<1>1. PICK rows : rows = {key[1]}
  OBVIOUS
<1>2. /\ Commit(w, rows) /\ slot' = slot /\ lecture' = lecture
      /\ mark' = [mark EXCEPT ![key].is_deleted = TRUE]
  BY <1>1 DEF DeleteAttendance
<1>3. key \in Keys /\ mark[key] # None
  BY Ready DEF DeleteAttendance, Checked, Request, Loadable
<1> HIDE DEF key
<1>4. mark'[key] \in MarkRow /\ \A x \in Keys : x # key => mark'[x] = mark[x]
  <2>1. mark[key] \in MarkRow /\ mark'[key] = [mark[key] EXCEPT !.is_deleted = TRUE]
    BY <1>0, <1>2, <1>3
  <2> QED BY <1>0, <1>2, <1>3, <2>1 DEF MarkRow
<1>5. mark' \in [Keys -> MarkRow \cup {None}]
  BY <1>0, <1>2, <1>4
<1>6. \A x \in Keys : mark[x] # None => mark'[x] # None
  BY <1>4, NoneIsNoRow
<1>7. \A l \in Lectures, s \in Students : l \notin rows => mark'[<<l, s>>] = mark[<<l, s>>]
  BY <1>1, <1>4 DEF Keys
<1>8. \A r \in rows : r \in Lectures /\ lecture[r] # None
  BY <1>1, <1>3 DEF Keys, IInv, MarksFit
<1> QED BY <1>2, <1>5, <1>6, <1>7, <1>8, MarkCommit

LEMMA CommitStep ==
  ASSUME IInv, NEW w \in Workers, Commits(w)
  PROVE  IInv' /\ RowsStay
  BY CreateSlotStep, UpdateSlotStep, DeleteSlotStep, DeleteBatchStep, CreateLectureStep,
     GenerateStep, UpdateLectureStep, CancelLectureStep, DeleteLectureStep, MarkAttendanceStep,
     MarkConflictStep, AmendAttendanceStep, DeleteAttendanceStep DEF Commits

-----------------------------------------------------------------------------
(* The requests before their commit.                                        *)

\* A step of w that leaves tables and races alone, and what w may hold after it.
LEMMA QuietStep ==
  ASSUME IInv, NEW w \in Workers, NEW place \in {"idle", "loaded", "checked"}, NEW j,
         pc' = [pc EXCEPT ![w] = place], job' = [job EXCEPT ![w] = j],
         missed' = missed \/ missed' = [missed EXCEPT ![w] = {}],
         UNCHANGED <<workload, tables, raced>>,
         place = "loaded" => Request(j, slot, lecture, mark),
         place = "checked" =>
           Checked(j, slot, lecture, mark) /\ Holds(j, slot, lecture, mark, missed'[w])
  PROVE  IInv'
<1>1. /\ slot' = slot /\ lecture' = lecture /\ mark' = mark /\ roster' = roster
      /\ workload' = workload /\ raced' = raced
  BY DEF tables
<1>2. /\ pc \in [Workers -> {"idle", "loaded", "checked"}] /\ job = [v \in Workers |-> job[v]]
      /\ missed \in [Workers -> SUBSET (Slots \cup Lectures)]
  BY DEF IInv, JobsTyped, TypeOK
<1>3. TypeOK'
  BY <1>1, <1>2 DEF IInv, TypeOK
<1>4. /\ pc'[w] = place /\ job'[w] = j
      /\ \A v \in Workers : v # w => pc'[v] = pc[v] /\ job'[v] = job[v] /\ missed'[v] = missed[v]
  BY <1>2
<1>5. JobsTyped'
  <2>1. pc' \in [Workers -> {"idle", "loaded", "checked"}] /\ job' = [v \in Workers |-> job'[v]]
    BY <1>2
  <2>2. ASSUME NEW v \in Workers
        PROVE  /\ pc'[v] = "loaded" => Request(job'[v], slot', lecture', mark')
               /\ pc'[v] = "checked" => Checked(job'[v], slot', lecture', mark')
    <3>1. CASE v = w
      BY <1>1, <1>4, <3>1
    <3>2. CASE v # w
      BY <1>1, <1>4, <3>2 DEF IInv, JobsTyped
    <3> QED BY <3>1, <3>2
  <2> QED BY <2>1, <2>2 DEF JobsTyped
<1>6. QueriesHold'
  <2> SUFFICES ASSUME NEW v \in Workers, pc'[v] = "checked"
               PROVE  Holds(job'[v], slot', lecture', mark', missed'[v])
    BY DEF QueriesHold
  <2>1. CASE v = w
    BY <1>1, <1>4, <2>1
  <2>2. CASE v # w
    BY <1>1, <1>4, <2>2 DEF IInv, QueriesHold
  <2> QED BY <2>1, <2>2
<1>7. RowsFit' /\ MarksFit'
  BY <1>1 DEF IInv, RowsFit, MarksFit
<1>8. ClashNeedsRace' /\ DuplicateNeedsRace'
  BY <1>1 DEF IInv, ClashNeedsRace, DuplicateNeedsRace, LiveSlots, LiveLectures
<1> QED BY <1>3, <1>5, <1>6, <1>7, <1>8 DEF IInv

LEMMA LoadKeeps ==
  ASSUME IInv, NEW w \in Workers, NEW j, Load(w, j), Request(j, slot, lecture, mark)
  PROVE  IInv'
<1>1. /\ pc' = [pc EXCEPT ![w] = "loaded"] /\ job' = [job EXCEPT ![w] = j]
      /\ UNCHANGED <<workload, tables, raced>> /\ missed' = missed
  BY DEF Load, history
<1> QED BY <1>1, QuietStep

LEMMA LoadStep ==
  ASSUME IInv, NEW w \in Workers, Loads(w)
  PROVE  IInv'
<1>0. /\ slot \in [Slots -> SlotRow \cup {None}]
      /\ lecture \in [Lectures -> LectureRow \cup {None}]
  BY Tables
<1>1. CASE LoadUpdateSlot(w)
  <2>1. PICK s \in LiveSlots, new \in Session :
          ValidSession(new) /\ Load(w, [op |-> "update_slot", slot |-> s, new |-> new])
    BY <1>1 DEF LoadUpdateSlot
  <2>2. Request([op |-> "update_slot", slot |-> s, new |-> new], slot, lecture, mark)
    BY <2>1 DEF Request, Loadable, LiveSlots
  <2> QED BY <2>1, <2>2, LoadKeeps
<1>2. CASE LoadDeleteSlot(w)
  <2>1. PICK s \in LiveSlots : Load(w, [op |-> "soft_delete_slot", slot |-> s])
    BY <1>2 DEF LoadDeleteSlot
  <2>2. Request([op |-> "soft_delete_slot", slot |-> s], slot, lecture, mark)
    BY DEF Request, Loadable, LiveSlots
  <2> QED BY <2>1, <2>2, LoadKeeps
<1>3. CASE LoadDeleteBatch(w)
  <2>1. PICK b \in Batches : Load(w, [op |-> "soft_delete_batch", batch |-> b])
    BY <1>3 DEF LoadDeleteBatch
  <2>2. Request([op |-> "soft_delete_batch", batch |-> b], slot, lecture, mark)
    BY DEF Request, Loadable
  <2> QED BY <2>1, <2>2, LoadKeeps
<1>4. CASE LoadUpdateLecture(w)
  <2>1. PICK l \in LiveLectures, d \in Dates, status \in LectureStatuses :
          Load(w, [op |-> "update_lecture", lecture |-> l, seen |-> lecture[l],
                   date |-> d, status |-> status])
    BY <1>4 DEF LoadUpdateLecture
  <2>2. Request([op |-> "update_lecture", lecture |-> l, seen |-> lecture[l],
                 date |-> d, status |-> status], slot, lecture, mark)
    BY <1>0 DEF Request, Loadable, LiveLectures
  <2> QED BY <2>1, <2>2, LoadKeeps
<1>5. CASE LoadCancel(w)
  <2>1. PICK l \in LiveLectures : Load(w, [op |-> "cancel_lecture", lecture |-> l])
    BY <1>5 DEF LoadCancel
  <2>2. Request([op |-> "cancel_lecture", lecture |-> l], slot, lecture, mark)
    BY DEF Request, Loadable, LiveLectures
  <2> QED BY <2>1, <2>2, LoadKeeps
<1>6. CASE LoadDeleteLecture(w)
  <2>1. PICK l \in LiveLectures : Load(w, [op |-> "soft_delete_lecture", lecture |-> l])
    BY <1>6 DEF LoadDeleteLecture
  <2>2. Request([op |-> "soft_delete_lecture", lecture |-> l], slot, lecture, mark)
    BY DEF Request, Loadable, LiveLectures
  <2> QED BY <2>1, <2>2, LoadKeeps
<1>7. CASE LoadGenerate(w)
  <2>1. PICK s \in LiveSlots, from \in Dates, to \in Dates :
          Load(w, [op |-> "generate_from_timetable", slot |-> s, day |-> slot[s].session.day,
                   from |-> from, to |-> to])
    BY <1>7 DEF LoadGenerate
  <2>2. Request([op |-> "generate_from_timetable", slot |-> s, day |-> slot[s].session.day,
                 from |-> from, to |-> to], slot, lecture, mark)
    BY DEF Request, Loadable, LiveSlots
  <2> QED BY <2>1, <2>2, LoadKeeps
<1>8. CASE LoadMark(w)
  <2>1. PICK l \in LiveLectures, S \in SUBSET Students, status \in Statuses, complete \in BOOLEAN :
          Load(w, [op |-> "mark_bulk_attendance", lecture |-> l, students |-> S,
                   status |-> status, complete |-> complete,
                   batch |-> slot[lecture[l].slot].session.batch])
    BY <1>8 DEF LoadMark
  <2>2. Request([op |-> "mark_bulk_attendance", lecture |-> l, students |-> S,
                 status |-> status, complete |-> complete,
                 batch |-> slot[lecture[l].slot].session.batch], slot, lecture, mark)
    BY DEF Request, Loadable, LiveLectures
  <2> QED BY <2>1, <2>2, LoadKeeps
<1>9. CASE LoadAmend(w)
  <2>1. PICK k \in LiveMarks, status \in Statuses :
          Load(w, [op |-> "amend_attendance", key |-> k, status |-> status])
    BY <1>9 DEF LoadAmend
  <2>2. Request([op |-> "amend_attendance", key |-> k, status |-> status], slot, lecture, mark)
    BY DEF Request, Loadable, LiveMarks
  <2> QED BY <2>1, <2>2, LoadKeeps
<1>10. CASE LoadDeleteMark(w)
  <2>1. PICK k \in LiveMarks : Load(w, [op |-> "soft_delete_attendance", key |-> k])
    BY <1>10 DEF LoadDeleteMark
  <2>2. Request([op |-> "soft_delete_attendance", key |-> k], slot, lecture, mark)
    BY DEF Request, Loadable, LiveMarks
  <2> QED BY <2>1, <2>2, LoadKeeps
<1> QED BY <1>1, <1>2, <1>3, <1>4, <1>5, <1>6, <1>7, <1>8, <1>9, <1>10 DEF Loads

LEMMA QueriedKeeps ==
  ASSUME IInv, NEW w \in Workers, NEW op, NEW request, NEW found,
         Queried(w, op, request, found), NEW j,
         j = [op |-> op, request |-> request, found |-> found],
         Checked(j, slot, lecture, mark), Holds(j, slot, lecture, mark, {})
  PROVE  IInv'
<1>1. /\ pc' = [pc EXCEPT ![w] = "checked"] /\ job' = [job EXCEPT ![w] = j]
      /\ missed' = [missed EXCEPT ![w] = {}]
      /\ UNCHANGED <<workload, tables, raced>>
  BY DEF Queried
<1>2. missed'[w] = {}
  BY <1>1 DEF IInv, TypeOK
<1>3. Holds(j, slot, lecture, mark, missed'[w])
  BY <1>2
<1> QED BY <1>1, <1>3, QuietStep

LEMMA ConflictsAreClashes ==
  ASSUME NEW new \in Session, NEW room \in Rooms \cup {None}, NEW excluded,
         new.room = IF room = None THEN DefaultRoom ELSE room,
         slot \in [Slots -> SlotRow \cup {None}],
         Conflicts(new, room, excluded) = {}
  PROVE  \A t \in Slots \ excluded : Live(slot[t]) => ~Clash(new, slot[t].session)
<1> SUFFICES ASSUME NEW t \in Slots, t \notin excluded, Live(slot[t]),
                    Clash(new, slot[t].session)
             PROVE  FALSE
  OBVIOUS
<1>1. slot[t].session \in Session
  BY NoneIsNoRow DEF Live, SlotRow
<1> DEFINE other == slot[t].session
<1>2. Overlap(other, new)
  BY DEF Clash, Overlap
<1>3. other.teacher = new.teacher \/ other.batch = new.batch
        \/ (room # None /\ SameRoom(other, [new EXCEPT !.room = room]))
  BY <1>1 DEF Clash, SameRoom, Session
<1>4. t \in Conflicts(new, room, excluded)
  BY <1>2, <1>3 DEF Conflicts, LiveSlots, Live
<1> QED BY <1>4

LEMMA CheckCreateSlotStep ==
  ASSUME IInv, NEW w \in Workers, CheckCreateSlot(w)
  PROVE  IInv'
<1>0. slot \in [Slots -> SlotRow \cup {None}]
  BY Tables
<1>1. PICK new \in Session, room \in Rooms \cup {None} :
        /\ new.room = IF room = None THEN DefaultRoom ELSE room
        /\ ValidSession(new)
        /\ Conflicts(new, room, {}) = {}
        /\ Queried(w, "create_slot", new, {})
  BY DEF CheckCreateSlot
<1>2. PICK none : none = {}
  OBVIOUS
<1>3. \A t \in Slots \ none : Live(slot[t]) => ~Clash(new, slot[t].session)
  BY <1>0, <1>1, <1>2, ConflictsAreClashes
<1>4. PICK j : j = [op |-> "create_slot", request |-> new, found |-> {}]
  OBVIOUS
<1>5. Checked(j, slot, lecture, mark)
  BY <1>1, <1>4 DEF Checked, Loadable
<1>6. Holds(j, slot, lecture, mark, {})
  BY <1>2, <1>3, <1>4 DEF Holds
<1> QED BY <1>1, <1>4, <1>5, <1>6, QueriedKeeps

LEMMA CheckCreateLectureStep ==
  ASSUME IInv, NEW w \in Workers, CheckCreateLecture(w)
  PROVE  IInv'
<1>1. PICK s \in Slots, d \in Dates, status \in LectureStatuses :
        /\ slot[s] # None
        /\ ~\E l \in LiveLectures : lecture[l].slot = s /\ lecture[l].date = d
        /\ Queried(w, "create_lecture", [slot |-> s, date |-> d, status |-> status], {})
  BY DEF CheckCreateLecture
<1>2. PICK j : j = [op |-> "create_lecture", request |-> [slot |-> s, date |-> d, status |-> status],
                    found |-> {}]
  OBVIOUS
<1>3. Checked(j, slot, lecture, mark)
  BY <1>1, <1>2 DEF Checked, Loadable
<1>4. Holds(j, slot, lecture, mark, {})
  BY <1>1, <1>2 DEF Holds, LiveLectures, Live
<1> QED BY <1>1, <1>2, <1>3, <1>4, QueriedKeeps

LEMMA CheckStep ==
  ASSUME IInv, NEW w \in Workers, Check(w)
  PROVE  IInv'
<1>0. /\ slot \in [Slots -> SlotRow \cup {None}]
      /\ lecture \in [Lectures -> LectureRow \cup {None}]
  BY Tables
<1>1. pc[w] = "loaded" /\ Passes(w) /\ Queried(w, job[w].op, job[w], Found(w))
  BY DEF Check
<1>2. Request(job[w], slot, lecture, mark)
  BY <1>1 DEF IInv, JobsTyped
<1>3. PICK r : r = job[w]
  OBVIOUS
<1>4. PICK found : found = Found(w)
  OBVIOUS
<1>5. PICK j : j = [op |-> r.op, request |-> r, found |-> found]
  OBVIOUS
<1>6. j.op = r.op /\ j.request = r /\ j.found = found /\ r.op \in Loadable
  BY <1>2, <1>3, <1>5 DEF Request
<1>7. /\ r.op = "soft_delete_slot" => found = Future(r.slot)
      /\ r.op = "soft_delete_batch" => found = {s \in LiveSlots : slot[s].session.batch = r.batch}
      /\ r.op = "generate_from_timetable" => found = Missing(r.slot, r.day, r.from, r.to)
  BY <1>3, <1>4 DEF Found
<1>8. Checked(j, slot, lecture, mark)
  <2>1. r.op = "soft_delete_slot" => \A l \in found : l \in Lectures /\ lecture[l] # None
    BY <1>7 DEF Future, LiveLectures
  <2>2. r.op = "soft_delete_batch" => \A s \in found : s \in Slots /\ slot[s] # None
    BY <1>7 DEF LiveSlots
  <2>3. r.op = "generate_from_timetable" => found \subseteq Dates
    BY <1>7 DEF Missing
  <2>4. j.op \notin {"create_slot", "create_lecture"}
    BY <1>6 DEF Loadable
  <2> QED BY <1>2, <1>3, <1>6, <2>1, <2>2, <2>3, <2>4 DEF Checked
<1>9. Holds(j, slot, lecture, mark, {})
  <2>1. j.op \notin {"create_slot", "create_lecture"}
    BY <1>6 DEF Loadable
  <2>2. ASSUME r.op = "update_slot"
        PROVE  \A t \in Slots \ ({} \cup {r.slot}) : Live(slot[t]) => ~Clash(r.new, slot[t].session)
    <3>1. PICK only : only = {r.slot}
      OBVIOUS
    <3>2. Conflicts(r.new, r.new.room, only) = {}
      BY <1>1, <1>3, <2>2, <3>1 DEF Passes
    <3>3. r.new \in Session /\ r.new.room \in Rooms
      BY <1>2, <1>3, <2>2 DEF Request, Session
    <3>4. r.new.room # None
      BY <3>3, ConstantsAssumption
    <3>5. \A t \in Slots \ only : Live(slot[t]) => ~Clash(r.new, slot[t].session)
      BY <1>0, <3>2, <3>3, <3>4, ConflictsAreClashes
    <3> QED BY <3>1, <3>5
  <2>3. ASSUME r.op = "generate_from_timetable", NEW m \in Lectures, Live(lecture[m]),
               lecture[m].slot = r.slot
        PROVE  lecture[m].date \notin found
    BY <1>7, <2>3 DEF Missing, LiveLectures, Live
  <2>4. ASSUME r.op = "soft_delete_slot", NEW l \in found
        PROVE  lecture[l].status = "SCHEDULED"
    BY <1>7, <2>4 DEF Future
  <2>5. ASSUME r.op = "soft_delete_lecture", NEW s \in Students
        PROVE  ~Live(mark[<<r.lecture, s>>])
    <3>1. r.lecture \in Lectures
      BY <1>2, <1>3, <2>5 DEF Request
    <3>2. <<r.lecture, s>> \notin LiveMarks
      BY <1>1, <1>3, <2>5 DEF Passes
    <3> QED BY <3>1, <3>2 DEF LiveMarks, Live, Keys
  <2> QED BY <1>6, <2>1, <2>2, <2>3, <2>4, <2>5 DEF Holds
<1>10. Queried(w, r.op, r, found)
  BY <1>1, <1>3, <1>4
<1> QED BY <1>5, <1>8, <1>9, <1>10, QueriedKeeps

LEMMA RefuseOrCrashStep ==
  ASSUME IInv, NEW w \in Workers, Refuse(w) \/ Crash(w)
  PROVE  IInv'
<1>1. /\ pc' = [pc EXCEPT ![w] = "idle"] /\ job' = [job EXCEPT ![w] = NoJob]
      /\ missed' = missed \/ missed' = [missed EXCEPT ![w] = {}]
      /\ UNCHANGED <<workload, tables, raced>>
  BY DEF Refuse, Crash, history
<1> QED BY <1>1, QuietStep

LEMMA RosterStep ==
  ASSUME IInv, NEW b \in Batches, NEW s \in Students, RosterChange(b, s)
  PROVE  IInv'
<1>1. /\ slot' = slot /\ lecture' = lecture /\ mark' = mark /\ pc' = pc /\ job' = job
      /\ workload' = workload /\ missed' = missed /\ raced' = raced
      /\ roster' = [roster EXCEPT ![b] = IF s \in @ THEN @ \ {s} ELSE @ \cup {s}]
  BY DEF RosterChange, history
<1>2. TypeOK'
  BY <1>1 DEF IInv, TypeOK
<1>3. JobsTyped' /\ QueriesHold'
  BY <1>1 DEF IInv, JobsTyped, QueriesHold
<1>4. RowsFit' /\ MarksFit' /\ ClashNeedsRace' /\ DuplicateNeedsRace'
  BY <1>1 DEF IInv, RowsFit, MarksFit, ClashNeedsRace, DuplicateNeedsRace, LiveSlots, LiveLectures
<1> QED BY <1>2, <1>3, <1>4 DEF IInv

-----------------------------------------------------------------------------
LEMMA InitInvariant == Init => IInv
<1> SUFFICES ASSUME Init
             PROVE  IInv
  OBVIOUS
<1>1. PICK sc \in Scenarios : workload = sc.asked /\ slot = sc.slot /\ lecture = sc.lecture
  BY DEF Init
<1>2. /\ workload \subseteq Operations
      /\ slot \in [Slots -> SlotRow \cup {None}]
      /\ lecture \in [Lectures -> LectureRow \cup {None}]
      /\ \A s \in Slots : slot[s] # None => ValidSession(slot[s].session)
      /\ \A l \in Lectures : lecture[l] # None => slot[lecture[l].slot] # None
      /\ ClashFree(slot) /\ NoDuplicate(lecture)
  BY <1>1, ScenarioAssumption
<1>3. TypeOK
  BY <1>2 DEF Init, TypeOK
<1>4. JobsTyped /\ QueriesHold
  BY DEF Init, JobsTyped, QueriesHold
<1>5. RowsFit /\ MarksFit
  BY <1>2 DEF RowsFit, Init, MarksFit, Keys
<1>6. ClashNeedsRace
  BY <1>2 DEF ClashFree, ClashNeedsRace, LiveSlots, SharesResource
<1>7. DuplicateNeedsRace
  BY <1>2 DEF NoDuplicate, DuplicateNeedsRace, LiveLectures
<1> QED BY <1>3, <1>4, <1>5, <1>6, <1>7 DEF IInv

LEMMA NextInvariant == IInv /\ [Next]_vars => IInv'
<1> SUFFICES ASSUME IInv, [Next]_vars
             PROVE  IInv'
  OBVIOUS
<1>1. ASSUME NEW w \in Workers,
             Loads(w) \/ CheckCreateSlot(w) \/ CheckCreateLecture(w) \/ Check(w) \/ Refuse(w)
               \/ Commits(w) \/ Crash(w)
      PROVE  IInv'
  BY <1>1, LoadStep, CheckCreateSlotStep, CheckCreateLectureStep, CheckStep, RefuseOrCrashStep,
     CommitStep
<1>2. ASSUME NEW b \in Batches, NEW s \in Students, RosterChange(b, s)
      PROVE  IInv'
  BY <1>2, RosterStep
<1>3. CASE UNCHANGED vars
  BY <1>3 DEF vars, IInv, TypeOK, JobsTyped, QueriesHold, RowsFit, MarksFit,
     ClashNeedsRace, DuplicateNeedsRace, LiveSlots, LiveLectures
<1> QED BY <1>1, <1>2, <1>3 DEF Next

\* The inductive invariant holds throughout, for any number of workers and rows.
THEOREM Invariance == Spec => []IInv
<1>1. Init => IInv
  BY InitInvariant
<1>2. IInv /\ [Next]_vars => IInv'
  BY NextInvariant
<1> QED BY <1>1, <1>2, PTL DEF Spec

\* No constraint of the database keeps two sessions of one teacher, cohort or room apart, nor
\* two lectures of one slot and date: the queries before the inserts do, and only requests
\* that overlapped get past them, however many workers there are.
THEOREM TimetableIsSound == Spec => []TimetableIntegrity
<1>1. IInv => TimetableIntegrity
  BY DEF IInv, TimetableIntegrity
<1> QED BY <1>1, Invariance, PTL

-----------------------------------------------------------------------------
(* What a step may do to lectures, attendance records and sessions.         *)

\* Loads, queries, refusals, crashes and the enrolment desk write no row.
LEMMA OnlyCommitsWrite ==
  ASSUME Next
  PROVE  \/ slot' = slot /\ lecture' = lecture /\ mark' = mark
         \/ \E w \in Workers : Commits(w)
<1>1. ASSUME NEW w \in Workers, Loads(w)
      PROVE  slot' = slot /\ lecture' = lecture /\ mark' = mark
  BY <1>1 DEF Loads, LoadUpdateSlot, LoadDeleteSlot, LoadDeleteBatch, LoadUpdateLecture,
     LoadCancel, LoadDeleteLecture, LoadGenerate, LoadMark, LoadAmend, LoadDeleteMark, Load, tables
<1>2. ASSUME NEW w \in Workers, CheckCreateSlot(w) \/ CheckCreateLecture(w) \/ Check(w)
      PROVE  slot' = slot /\ lecture' = lecture /\ mark' = mark
  BY <1>2 DEF CheckCreateSlot, CheckCreateLecture, Check, Queried, tables
<1>3. ASSUME NEW w \in Workers, Refuse(w) \/ Crash(w)
      PROVE  slot' = slot /\ lecture' = lecture /\ mark' = mark
  BY <1>3 DEF Refuse, Crash, tables
<1>4. ASSUME NEW b \in Batches, NEW s \in Students, RosterChange(b, s)
      PROVE  slot' = slot /\ lecture' = lecture /\ mark' = mark
  BY <1>4 DEF RosterChange
<1> QED BY <1>1, <1>2, <1>3, <1>4 DEF Next

\* A lecture is withdrawn by the deletion of its slot or its own, and by nothing else.
LEMMA WhoWithdraws ==
  ASSUME IInv, NEW w \in Workers, Commits(w), NEW l \in Lectures, l \in LiveLectures,
         l \notin LiveLectures'
  PROVE  \/ DeleteSlot(w) /\ l \in job[w].found
         \/ DeleteLecture(w) /\ l = job[w].request.lecture
<1>0. /\ lecture \in [Lectures -> LectureRow \cup {None}]
      /\ lecture[l] # None /\ ~lecture[l].is_deleted
      /\ lecture'[l].is_deleted
  BY Tables, CommitStep DEF LiveLectures, RowsStay, Kept
<1>1. CASE CreateSlot(w) \/ UpdateSlot(w) \/ DeleteBatch(w) \/ MarkConflict(w)
             \/ AmendAttendance(w) \/ DeleteAttendance(w)
  BY <1>0, <1>1 DEF CreateSlot, UpdateSlot, DeleteBatch, MarkConflict, AmendAttendance,
     DeleteAttendance
<1>2. CASE DeleteSlot(w)
  BY <1>0, <1>2 DEF DeleteSlot
<1>3. CASE CreateLecture(w)
  BY <1>0, <1>3 DEF CreateLecture
<1>4. CASE Generate(w)
  <2>1. PICK row \in [job[w].found -> {x \in Lectures : lecture[x] = None}] :
          lecture' = [x \in Lectures |->
            IF x \in {row[d] : d \in job[w].found}
              THEN NewLecture(job[w].request.slot, CHOOSE d \in job[w].found : row[d] = x, "SCHEDULED")
              ELSE lecture[x]]
    BY <1>4 DEF Generate
  <2>2. l \notin {row[d] : d \in job[w].found}
    BY <1>0
  <2> QED BY <1>0, <2>1, <2>2
<1>5. CASE UpdateLecture(w)
  <2> DEFINE j == job[w].request
  <2>1. j.seen \in LectureRow /\ ~j.seen.is_deleted
    BY <1>5, Ready DEF UpdateLecture, Checked, Request, Loadable
  <2>2. lecture' = [lecture EXCEPT ![j.lecture] = [j.seen EXCEPT !.date = j.date, !.status = j.status]]
    BY <1>5 DEF UpdateLecture
  <2> HIDE DEF j
  <2>3. CASE l = j.lecture
    <3>1. lecture'[l] = [j.seen EXCEPT !.date = j.date, !.status = j.status]
      BY <1>0, <2>2, <2>3
    <3>2. lecture'[l].is_deleted = j.seen.is_deleted
      BY <2>1, <3>1 DEF LectureRow
    <3> QED BY <1>0, <2>1, <3>2
  <2>4. CASE l # j.lecture
    BY <1>0, <2>2, <2>4
  <2> QED BY <2>3, <2>4
<1>6. CASE CancelLecture(w)
  <2> DEFINE k == job[w].request.lecture
  <2>1. lecture' = [lecture EXCEPT ![k].status = "CANCELLED"]
    BY <1>6 DEF CancelLecture
  <2> HIDE DEF k
  <2>2. lecture[l] \in LectureRow /\ (l = k => lecture'[l] = [lecture[l] EXCEPT !.status = "CANCELLED"])
    BY <1>0, <2>1
  <2>3. l # k => lecture'[l] = lecture[l]
    BY <1>0, <2>1
  <2>4. lecture'[l].is_deleted = lecture[l].is_deleted
    BY <2>2, <2>3 DEF LectureRow
  <2> QED BY <1>0, <2>4
<1>7. CASE DeleteLecture(w)
  BY <1>0, <1>7 DEF DeleteLecture
<1>8. CASE MarkAttendance(w)
  <2> DEFINE j == job[w].request
  <2>1. lecture' = [lecture EXCEPT ![j.lecture].status = IF j.complete THEN "COMPLETED" ELSE @]
    BY <1>8 DEF MarkAttendance
  <2> HIDE DEF j
  <2>2. PICK status : l = j.lecture => lecture'[l] = [lecture[l] EXCEPT !.status = status]
    BY <1>0, <2>1
  <2>3. l # j.lecture => lecture'[l] = lecture[l]
    BY <1>0, <2>1
  <2>4. lecture[l] \in LectureRow
    BY <1>0
  <2>5. lecture'[l].is_deleted = lecture[l].is_deleted
    BY <2>2, <2>3, <2>4 DEF LectureRow
  <2> QED BY <1>0, <2>5
<1> QED BY <1>1, <1>2, <1>3, <1>4, <1>5, <1>6, <1>7, <1>8 DEF Commits

LEMMA HeldSurvive ==
  ASSUME IInv, Next
  PROVE  HeldLecturesSurvive
<1> SUFFICES ASSUME NEW l \in Lectures, Held(l), l \notin LiveLectures'
             PROVE  \E w \in Workers : pc[w] = "checked" /\ pc'[w] = "idle" /\ l \in missed[w]
  BY DEF HeldLecturesSurvive
<1>1. l \in LiveLectures /\ lecture[l].status = "COMPLETED"
      /\ \E s \in Students : <<l, s>> \in LiveMarks
  BY DEF Held
<1>2. lecture' # lecture
  BY <1>1 DEF LiveLectures
<1>3. PICK w \in Workers : Commits(w)
  BY <1>2, OnlyCommitsWrite
<1>4. \/ DeleteSlot(w) /\ l \in job[w].found
      \/ DeleteLecture(w) /\ l = job[w].request.lecture
  BY <1>1, <1>3, WhoWithdraws
<1>5. pc \in [Workers -> {"idle", "loaded", "checked"}]
  BY DEF IInv, TypeOK
<1>6. CASE DeleteSlot(w) /\ l \in job[w].found
  <2>1. pc[w] = "checked" /\ pc'[w] = "idle"
    BY <1>5, <1>6 DEF DeleteSlot, Writing, Commit
  <2>2. \A k \in job[w].found \ missed[w] : lecture[k].status = "SCHEDULED"
    BY <1>6, Ready DEF DeleteSlot, Holds
  <2> QED BY <1>1, <1>6, <2>1, <2>2
<1>7. CASE DeleteLecture(w) /\ l = job[w].request.lecture
  <2>1. pc[w] = "checked" /\ pc'[w] = "idle"
    BY <1>5, <1>7 DEF DeleteLecture, Writing, Commit
  <2>2. \A s \in Students : l \notin missed[w] => ~Live(mark[<<l, s>>])
    BY <1>7, Ready DEF DeleteLecture, Holds
  <2> QED BY <1>1, <2>1, <2>2 DEF LiveMarks, Live
<1> QED BY <1>4, <1>6, <1>7

\* The attendance records are written by a roll call, a correction and a deletion.
LEMMA WhoMarks ==
  ASSUME IInv, Next, NEW k \in Keys, mark'[k] # mark[k]
  PROVE  \E w \in Workers :
           \/ MarkAttendance(w) /\ job[w].request.lecture = k[1]
           \/ /\ AmendAttendance(w) \/ DeleteAttendance(w)
              /\ job[w].request.key = k
              /\ mark[k] # None /\ mark'[k] # None
              /\ mark[k].is_deleted => mark'[k].is_deleted
<1>0. mark \in [Keys -> MarkRow \cup {None}]
  BY Tables
<1>1. PICK w \in Workers : Commits(w)
  BY OnlyCommitsWrite
<1>2. MarkAttendance(w) \/ AmendAttendance(w) \/ DeleteAttendance(w)
  BY <1>1 DEF Commits, CreateSlot, UpdateSlot, DeleteSlot, DeleteBatch, CreateLecture, Generate,
     UpdateLecture, CancelLecture, DeleteLecture, MarkConflict
<1>3. CASE MarkAttendance(w)
  <2> DEFINE j == job[w].request
  <2>1. mark' = [x \in Keys |-> IF x \in {<<j.lecture, s>> : s \in j.students}
                                THEN [status |-> j.status, is_deleted |-> FALSE] ELSE mark[x]]
    BY <1>3 DEF MarkAttendance
  <2>2. k \in {<<j.lecture, s>> : s \in j.students}
    BY <2>1
  <2>3. k[1] = j.lecture
    BY <2>2
  <2> QED BY <1>3, <2>3
<1>4. CASE AmendAttendance(w)
  <2> DEFINE j == job[w].request
  <2>1. mark' = [mark EXCEPT ![j.key].status = j.status]
    BY <1>4 DEF AmendAttendance
  <2>2. j.key \in Keys /\ mark[j.key] # None
    BY <1>4, Ready DEF AmendAttendance, Checked, Request, Loadable
  <2> HIDE DEF j
  <2>3. k = j.key
    BY <1>0, <2>1
  <2>4. mark[k] \in MarkRow /\ mark'[k] = [mark[k] EXCEPT !.status = j.status]
    BY <1>0, <2>1, <2>2, <2>3
  <2>5. mark'[k].is_deleted = mark[k].is_deleted
    BY <2>4 DEF MarkRow
  <2>6. mark'[k] # None
    BY <1>1, <2>2, <2>3, CommitStep DEF RowsStay, Kept
  <2> QED BY <1>4, <2>2, <2>3, <2>5, <2>6 DEF j
<1>5. CASE DeleteAttendance(w)
  <2> DEFINE key == job[w].request.key
  <2>1. mark' = [mark EXCEPT ![key].is_deleted = TRUE]
    BY <1>5 DEF DeleteAttendance
  <2>2. key \in Keys /\ mark[key] # None
    BY <1>5, Ready DEF DeleteAttendance, Checked, Request, Loadable
  <2> HIDE DEF key
  <2>3. k = key
    BY <1>0, <2>1
  <2>4. mark[k] \in MarkRow /\ mark'[k] = [mark[k] EXCEPT !.is_deleted = TRUE]
    BY <1>0, <2>1, <2>2, <2>3
  <2>5. mark'[k].is_deleted = TRUE
    BY <2>4 DEF MarkRow
  <2>6. mark'[k] # None
    BY <1>1, <2>2, <2>3, CommitStep DEF RowsStay, Kept
  <2> QED BY <1>5, <2>2, <2>3, <2>5, <2>6 DEF key
<1> QED BY <1>2, <1>3, <1>4, <1>5

LEMMA DeletedStayOut ==
  ASSUME IInv, Next
  PROVE  DeletedMarkStaysOut
<1> SUFFICES ASSUME NEW k \in Keys, mark[k] # None
             PROVE  /\ mark'[k] # None
                    /\ k \notin LiveMarks /\ k \in LiveMarks' =>
                         \E w \in Workers : MarkAttendance(w) /\ job[w].request.lecture = k[1]
  BY DEF DeletedMarkStaysOut
<1>1. mark'[k] # None
  BY OnlyCommitsWrite, CommitStep DEF RowsStay, Kept
<1>2. ASSUME k \notin LiveMarks, k \in LiveMarks'
      PROVE  \E w \in Workers : MarkAttendance(w) /\ job[w].request.lecture = k[1]
  <2>1. mark[k].is_deleted /\ ~mark'[k].is_deleted
    BY <1>2 DEF LiveMarks
  <2>2. mark'[k] # mark[k]
    BY <2>1
  <2> QED BY <2>1, <2>2, WhoMarks
<1> QED BY <1>1, <1>2

LEMMA RegistersHold ==
  ASSUME IInv, Next
  PROVE  RegisterHolds
<1> SUFFICES ASSUME NEW l \in Lectures, lecture[l] # None,
                    NEW s \in DOMAIN Register(l) \cap DOMAIN Register(l)',
                    Register(l)[s] # Register(l)'[s]
             PROVE  \E w \in Workers :
                      \/ MarkAttendance(w) /\ job[w].request.lecture = l
                      \/ (AmendAttendance(w) \/ DeleteAttendance(w)) /\ job[w].request.key = <<l, s>>
  BY DEF RegisterHolds
<1>1. /\ Register(l)[s] = IF <<l, s>> \in LiveMarks THEN mark[<<l, s>>].status ELSE None
      /\ Register(l)'[s] = IF <<l, s>> \in LiveMarks' THEN mark'[<<l, s>>].status ELSE None
  BY DEF Register
<1>2. <<l, s>> \in Keys /\ mark'[<<l, s>>] # mark[<<l, s>>]
  BY <1>1 DEF LiveMarks
<1>3. PICK k : k = <<l, s>>
  OBVIOUS
<1>4. k \in Keys /\ mark'[k] # mark[k] /\ k[1] = l
  BY <1>2, <1>3
<1> QED BY <1>3, <1>4, WhoMarks

\* What a roll call records outlives the requests that do not know of it, for any number of
\* workers: a deletion that finds a lecture unmarked, or only scheduled, removes it later
\* only if it was written in between.
THEOREM RollCallsLast == Spec => AttendanceSurvives
<1>1. IInv /\ [Next]_vars => [HeldLecturesSurvive /\ DeletedMarkStaysOut /\ RegisterHolds]_vars
  BY HeldSurvive, DeletedStayOut, RegistersHold
<1> QED BY <1>1, Invariance, PTL DEF Spec, AttendanceSurvives

-----------------------------------------------------------------------------
(* What teachers see.                                                       *)

\* Whatever the schedule, what a teacher with a branch is shown and may act on agree: the
\* services compare branches in different places, and the slots' validation makes up for it.
THEOREM TeachersSee == Spec => []TeachersSeeWhatTheyDo
<1>1. IInv => TeachersSeeWhatTheyDo
  <2> SUFFICES ASSUME IInv, NEW t \in Teachers, Home[t] # None
               PROVE  /\ \A l \in LiveLectures :
                           /\ MayMark(t, l) <=> SeesLecture(t, l)
                           /\ SeesLecture(t, l) /\ lecture[l].slot \in LiveSlots =>
                                SeesRoster(t, BatchOf(lecture[l].slot))
                           /\ \A s \in Students : SeesMark(t, <<l, s>>) => SeesLecture(t, l)
                      /\ \A s \in Slots : SeesSlot(t, s) => SeesRoster(t, BatchOf(s))
                      /\ \A b \in Batches :
                           /\ MaySend(t, b) <=> MayPublish(t, b)
                           /\ MaySend(t, b) => SeesRoster(t, b) /\ SeesProfiles(t, b)
                           /\ SeesRoster(t, b) =>
                                /\ SeesExams(t, b) /\ SeesResults(t, b)
                                /\ SeesAssignments(t, b) /\ SeesSubmissions(t, b)
    BY DEF TeachersSeeWhatTheyDo
  <2>1. ASSUME NEW l \in LiveLectures
        PROVE  /\ MayMark(t, l) <=> SeesLecture(t, l)
               /\ SeesLecture(t, l) /\ lecture[l].slot \in LiveSlots =>
                    SeesRoster(t, BatchOf(lecture[l].slot))
               /\ \A s \in Students : SeesMark(t, <<l, s>>) => SeesLecture(t, l)
    BY DEF MayMark, SeesLecture, SeesRoster, SeesMark, OnSlot
  <2>2. ASSUME NEW s \in Slots, SeesSlot(t, s)
        PROVE  SeesRoster(t, BatchOf(s))
    BY <2>2 DEF SeesSlot, SeesRoster, OnSlot
  <2>3. ASSUME NEW s \in LiveSlots, slot[s].session.teacher = t
        PROVE  Home[t] = Branch[BatchOf(s)]
    <3>1. <<t, BatchOf(s)>> \in Qualified
      BY <2>3 DEF IInv, RowsFit, LiveSlots, ValidSession, BatchOf
    <3> QED BY <3>1, AccessAssumption
  <2>4. ASSUME NEW b \in Batches
        PROVE  /\ MaySend(t, b) <=> MayPublish(t, b)
               /\ MaySend(t, b) => SeesRoster(t, b) /\ SeesProfiles(t, b)
    BY <2>3 DEF MaySend, MayPublish, SeesRoster, InScope, SeesProfiles, EverTaught, LiveSlots
  <2>5. ASSUME NEW b \in Batches, SeesRoster(t, b)
        PROVE  /\ SeesExams(t, b) /\ SeesResults(t, b)
               /\ SeesAssignments(t, b) /\ SeesSubmissions(t, b)
    BY <2>5 DEF SeesRoster, SeesExams, SeesResults, SeesAssignments, SeesSubmissions, EverTaught,
       LiveSlots
  <2> QED BY <2>1, <2>2, <2>4, <2>5
<1> QED BY <1>1, Invariance, PTL

\* A session changes by an edit of its slot, and by nothing else.
LEMMA WhoEdits ==
  ASSUME IInv, Next, NEW s \in Slots, slot[s] # None,
         ~\E w \in Workers : UpdateSlot(w) /\ job[w].request.slot = s
  PROVE  slot'[s].session = slot[s].session
<1>0. slot \in [Slots -> SlotRow \cup {None}] /\ slot[s] \in SlotRow
  BY Tables
<1> SUFFICES ASSUME slot' # slot
             PROVE  slot'[s].session = slot[s].session
  OBVIOUS
<1>1. PICK w \in Workers : Commits(w)
  BY OnlyCommitsWrite
<1>2. CreateSlot(w) \/ UpdateSlot(w) \/ DeleteSlot(w) \/ DeleteBatch(w)
  BY <1>1 DEF Commits, CreateLecture, Generate, UpdateLecture, CancelLecture, DeleteLecture,
     MarkAttendance, MarkConflict, AmendAttendance, DeleteAttendance
<1>3. CASE CreateSlot(w)
  BY <1>0, <1>3 DEF CreateSlot
<1>4. CASE UpdateSlot(w)
  BY <1>0, <1>4 DEF UpdateSlot
<1>5. CASE DeleteSlot(w)
  <2>1. PICK r : slot' = [slot EXCEPT ![r].is_deleted = TRUE]
    BY <1>5 DEF DeleteSlot
  <2>2. slot'[s] = IF s = r THEN [slot[s] EXCEPT !.is_deleted = TRUE] ELSE slot[s]
    BY <1>0, <2>1
  <2> QED BY <1>0, <2>2 DEF SlotRow
<1>6. CASE DeleteBatch(w)
  <2>1. slot'[s] = [slot[s] EXCEPT !.is_deleted = TRUE] \/ slot'[s] = slot[s]
    BY <1>6 DEF DeleteBatch
  <2> QED BY <1>0, <2>1 DEF SlotRow
<1> QED BY <1>2, <1>3, <1>4, <1>5, <1>6

\* Neither the deletion of a slot nor that of a batch takes a lecture or an attendance record
\* out of its teacher's sight, for any schedule and any number of requests.
THEOREM TeachersKeep == Spec => TeachersKeepHistory
<1> DEFINE Edited(l) ==
             \E w \in Workers : UpdateSlot(w) /\ job[w].request.slot = lecture[l].slot
           Keeps(t, l) ==
             /\ SeesLecture(t, l) /\ l \in LiveLectures' => SeesLecture(t, l)' \/ Edited(l)
             /\ \A s \in Students :
                  <<l, s>> \in LiveMarks /\ <<l, s>> \in LiveMarks' /\ SeesMark(t, <<l, s>>) =>
                    SeesMark(t, <<l, s>>)' \/ Edited(l)
<1>1. ASSUME IInv, Next, NEW l \in Lectures, lecture[l] # None, ~Edited(l)
      PROVE  /\ lecture'[l].slot = lecture[l].slot
             /\ slot'[lecture[l].slot].session = slot[lecture[l].slot].session
  <2>1. lecture'[l].slot = lecture[l].slot
    BY <1>1, OnlyCommitsWrite, CommitStep DEF RowsStay, Kept
  <2>2. lecture[l].slot \in Slots /\ slot[lecture[l].slot] # None
    BY <1>1, Tables DEF IInv, RowsFit, LectureRow
  <2> QED BY <1>1, <2>1, <2>2, WhoEdits
<1>2. ASSUME IInv, Next, NEW t \in Teachers, NEW l \in Lectures
      PROVE  Keeps(t, l)
  <2>1. ASSUME SeesLecture(t, l), l \in LiveLectures', ~Edited(l)
        PROVE  SeesLecture(t, l)'
    <3>1. lecture[l] # None
      BY <2>1 DEF SeesLecture, LiveLectures
    <3> QED BY <1>1, <1>2, <2>1, <3>1 DEF SeesLecture, OnSlot, BatchOf, InScope
  <2>2. ASSUME NEW s \in Students, <<l, s>> \in LiveMarks, <<l, s>> \in LiveMarks',
               SeesMark(t, <<l, s>>), ~Edited(l)
        PROVE  SeesMark(t, <<l, s>>)'
    <3>1. lecture[l] # None
      BY <1>2, <2>2 DEF IInv, MarksFit, LiveMarks
    <3>2. <<l, s>>[1] = l
      OBVIOUS
    <3> QED BY <1>1, <1>2, <2>2, <3>1, <3>2 DEF SeesMark, OnSlot, BatchOf, InScope
  <2> QED BY <2>1, <2>2
<1>3. IInv /\ [Next]_vars => [\A t \in Teachers, l \in Lectures : Keeps(t, l)]_vars
  BY <1>2
<1> QED BY <1>3, Invariance, PTL DEF Spec, TeachersKeepHistory
=============================================================================
