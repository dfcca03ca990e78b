--------------------------- MODULE DeliveryProofs ---------------------------
(***************************************************************************)
(* Proofs about Delivery, for any number of processes, deliveries,         *)
(* recipients, messages and retries.                                       *)
(***************************************************************************)
EXTENDS Delivery, FiniteSetTheorems, TLAPS

\* A request in hand is a callback or a list of deliveries, never both.
LEMMA Disjoint ==
  ASSUME NEW r \in Callback
  PROVE  r \notin Enqueuing
<1>1. DOMAIN r = {"delivery", "row", "report"}
  BY DEF Callback
<1>2. ASSUME r \in Enqueuing
      PROVE  FALSE
  <2>1. DOMAIN r = {"rest", "ready"}
    BY <1>2 DEF Enqueuing
  <2>2. "delivery" \in {"rest", "ready"}
    BY <1>1, <2>1
  <2>3. QED
    BY <2>2
<1>3. QED
  BY <1>2

LEMMA WebType ==
  ASSUME TypeOK, HandedRowsExist, NEW p \in Web, WebNext(p)
  PROVE  TypeOK'
<1> USE ConstantsAssumption
<1>1. CASE CreateCampaign(p)
  BY <1>1 DEF CreateCampaign, TypeOK, DeliveryRow, Statuses, Enqueuing
<1>2. CASE ListFailed(p)
  BY <1>2 DEF ListFailed, TypeOK, Failed, Enqueuing
<1>3. ASSUME NEW d \in Deliveries, ResetFailed(p, d)
      PROVE  TypeOK'
  <2>1. delivery[d] \in DeliveryRow
    BY <1>3 DEF ResetFailed, HandedRowsExist, TypeOK
  <2>2. delivery' \in [Deliveries -> DeliveryRow \cup {None}]
    BY <1>3, <2>1 DEF ResetFailed, TypeOK, DeliveryRow, Statuses
  <2>3. request' \in [Web -> Callback \cup Enqueuing \cup {None}]
    BY <1>3 DEF ResetFailed, TypeOK, Enqueuing
  <2>4. QED
    BY <1>3, <2>2, <2>3 DEF ResetFailed, TypeOK
<1>4. ASSUME NEW d \in Deliveries, Enqueue(p, d)
      PROVE  TypeOK'
  <2>1. broker' \in [Deliveries \X Retries -> Nat]
    BY <1>4 DEF Enqueue, TypeOK, Retries
  <2>2. request' \in [Web -> Callback \cup Enqueuing \cup {None}]
    BY <1>4 DEF Enqueue, TypeOK, Enqueuing
  <2>3. QED
    BY <1>4, <2>1, <2>2 DEF Enqueue, TypeOK
<1>5. CASE AbandonRequest(p)
  BY <1>5 DEF AbandonRequest, TypeOK, Enqueuing
<1>6. ASSUME NEW m \in Messages, NEW report \in Reports, LoadCallback(p, m, report)
      PROVE  TypeOK'
  <2>1. PICK d \in Deliveries :
          /\ delivery[d] # None
          /\ request' = [request EXCEPT ![p] =
                           [delivery |-> d, row |-> delivery[d], report |-> report]]
    BY <1>6 DEF LoadCallback
  <2>2. [delivery |-> d, row |-> delivery[d], report |-> report] \in Callback
    BY <2>1 DEF TypeOK, Callback
  <2>3. QED
    BY <1>6, <2>1, <2>2 DEF LoadCallback, TypeOK
<1>7. CASE SaveCallback(p)
  <2>1. [request[p].row EXCEPT !.status = request[p].report] \in DeliveryRow
    BY <1>7 DEF SaveCallback, Callback, DeliveryRow, Reports, Statuses
  <2>2. QED
    BY <1>7, <2>1 DEF SaveCallback, TypeOK, Callback
<1>8. CASE CrashCallback(p)
  BY <1>8 DEF CrashCallback, TypeOK
<1>9. QED
  BY <1>1, <1>2, <1>3, <1>4, <1>5, <1>6, <1>7, <1>8 DEF WebNext

\* The task of a process is typed, and so are the tasks its steps make of it.
LEMMA TaskRow ==
  ASSUME TypeOK, HandedRowsExist, NEW p \in Tasks, task[p] # None
  PROVE  /\ task[p] \in Task
         /\ delivery[task[p].delivery] \in DeliveryRow
         /\ task[p].step = "suppress" => task[p].verdict \in {"SKIPPED", "OPTED_OUT"}
BY ConstantsAssumption DEF TypeOK, HandedRowsExist, Task

LEMMA RunType ==
  ASSUME TypeOK, HandedRowsExist, NEW p \in Tasks, Run(p)
  PROVE  TypeOK'
<1> USE ConstantsAssumption
<1>0. task[p] # None
  BY DEF Run, Suppress, MarkQueued, Accept, Refuse, SaveSubmitted, SaveRetry, SaveFailed, At
<1>1. /\ task[p] \in Task
      /\ delivery[task[p].delivery] \in DeliveryRow
      /\ task[p].step = "suppress" => task[p].verdict \in {"SKIPPED", "OPTED_OUT"}
  BY <1>0, TaskRow
<1>2. CASE Suppress(p)
  <2>1. [delivery[task[p].delivery] EXCEPT !.status = task[p].verdict] \in DeliveryRow
    BY <1>1, <1>2 DEF Suppress, At, DeliveryRow, Statuses
  <2>2. QED
    BY <1>1, <1>2, <2>1 DEF Task, Suppress, TypeOK
<1>3. CASE MarkQueued(p)
  <2> DEFINE t == task[p]
             attempts == t.row.attempts + 1
  <2>1. attempts \in Nat
    BY <1>1 DEF Task, DeliveryRow
  <2>2. [delivery[t.delivery] EXCEPT !.status = "QUEUED", !.attempts = attempts] \in DeliveryRow
    BY <1>1, <2>1 DEF DeliveryRow, Statuses
  <2>3. delivery' = [delivery EXCEPT ![t.delivery] =
                       [delivery[t.delivery] EXCEPT !.status = "QUEUED", !.attempts = attempts]]
    BY <1>1, <1>3 DEF MarkQueued, TypeOK, Task
  <2>4. [t.row EXCEPT !.status = "QUEUED", !.attempts = attempts] \in DeliveryRow
    BY <1>1, <2>1 DEF Task, DeliveryRow, Statuses
  <2>5. [t EXCEPT !.step = "send",
                  !.row = [t.row EXCEPT !.status = "QUEUED", !.attempts = attempts]] \in Task
    BY <1>1, <2>4 DEF Task, Steps
  <2>6. task' \in [Tasks -> Task \cup {None}]
    BY <1>3, <2>5 DEF MarkQueued, TypeOK
  <2>7. QED
    BY <1>1, <1>3, <2>2, <2>3, <2>6 DEF MarkQueued, TypeOK, Task
<1>4. ASSUME NEW result \in Messages \cup {"transient", "permanent"}, Answered(p, result)
      PROVE  task' \in [Tasks -> Task \cup {None}]
  <2>1. [task[p] EXCEPT !.step = "save", !.result = result] \in Task
    BY <1>1 DEF Task, Steps
  <2>2. QED
    BY <1>4, <2>1 DEF Answered, TypeOK
<1>5. ASSUME NEW m \in Messages, NEW answered \in Answers, Accept(p, m, answered)
      PROVE  TypeOK'
  <2>1. [delivery |-> task[p].delivery, reports |-> {}] \in MessageRow
    BY <1>1 DEF Task, MessageRow
  <2>2. task' \in [Tasks -> Task \cup {None}]
    BY <1>4, <1>5 DEF Accept
  <2>3. QED
    BY <1>5, <2>1, <2>2 DEF Accept, TypeOK
<1>6. ASSUME NEW result \in {"transient", "permanent"}, Refuse(p, result)
      PROVE  TypeOK'
  BY <1>4, <1>6 DEF Refuse, TypeOK
<1>7. ASSUME NEW row \in DeliveryRow, Done(p, row)
      PROVE  /\ delivery' \in [Deliveries -> DeliveryRow \cup {None}]
             /\ task' \in [Tasks -> Task \cup {None}]
  BY <1>1, <1>7 DEF Done, TypeOK
<1>8. CASE SaveSubmitted(p)
  <2>1. [task[p].row EXCEPT !.status = "SUBMITTED", !.message = task[p].result] \in DeliveryRow
    BY <1>1, <1>8 DEF SaveSubmitted, Task, DeliveryRow, Statuses
  <2>2. QED
    BY <1>7, <1>8, <2>1 DEF SaveSubmitted, TypeOK
<1>9. CASE SaveRetry(p)
  <2>1. task[p].row \in DeliveryRow /\ task[p].delivery \in Deliveries /\ task[p].retries \in Retries
    BY <1>1 DEF Task
  <2>2. broker' \in [Deliveries \X Retries -> Nat]
    BY <1>9, <2>1 DEF SaveRetry, TypeOK, Retries
  <2>3. lost' \subseteq Deliveries
    BY <1>9, <2>1 DEF SaveRetry, TypeOK
  <2>4. QED
    BY <1>7, <1>9, <2>1, <2>2, <2>3 DEF SaveRetry, TypeOK
<1>10. CASE SaveFailed(p)
  <2>1. [task[p].row EXCEPT !.status = "FAILED"] \in DeliveryRow
    BY <1>1 DEF Task, DeliveryRow, Statuses
  <2>2. QED
    BY <1>7, <1>10, <2>1 DEF SaveFailed, TypeOK
<1>11. QED
  BY <1>2, <1>3, <1>5, <1>6, <1>8, <1>9, <1>10 DEF Run

LEMMA TaskType ==
  ASSUME TypeOK, HandedRowsExist, NEW p \in Tasks, TaskNext(p)
  PROVE  TypeOK'
<1> USE ConstantsAssumption
<1>1. ASSUME NEW d \in Deliveries, NEW r \in Retries, TakeTask(p, d, r)
      PROVE  TypeOK'
  <2>1. delivery[d] \in DeliveryRow
    BY <1>1 DEF TakeTask, HandedRowsExist, TypeOK
  <2>2. Verdict(Recipient[d]) \in {"eligible", "SKIPPED", "OPTED_OUT"}
    BY DEF Verdict
  <2>3. [delivery |-> d, retries |-> r, row |-> delivery[d], verdict |-> Verdict(Recipient[d]),
         step |-> IF Verdict(Recipient[d]) = "eligible" THEN "queue" ELSE "suppress",
         result |-> None] \in Task
    BY <2>1, <2>2 DEF Task, Steps
  <2>4. task' \in [Tasks -> Task \cup {None}]
    BY <1>1, <2>3 DEF TakeTask, TypeOK
  <2>5. broker' \in [Deliveries \X Retries -> Nat]
    BY <1>1 DEF TakeTask, TypeOK
  <2>6. QED
    BY <1>1, <2>4, <2>5 DEF TakeTask, TypeOK
<1>2. CASE CrashTask(p)
  BY <1>2 DEF CrashTask, TypeOK, Task
<1>3. QED
  BY <1>1, <1>2, RunType DEF TaskNext

LEMMA ProviderType ==
  ASSUME TypeOK, Provider
  PROVE  TypeOK'
<1> USE ConstantsAssumption
<1>1. ASSUME NEW m \in Messages, NEW report \in Reports, Progress(m, report)
      PROVE  TypeOK'
  <2>1. message[m] \in MessageRow
    BY <1>1 DEF Progress, TypeOK
  <2>2. [message[m] EXCEPT !.reports = @ \cup {report}] \in MessageRow
    BY <2>1 DEF MessageRow
  <2>3. QED
    BY <1>1, <2>2 DEF Progress, TypeOK
<1>2. ASSUME NEW phone \in Phones, InboundStop(phone) \/ InboundStart(phone)
      PROVE  TypeOK'
  <2>1. FirstUser(phone) \in Users
    BY DEF FirstUser, Phones
  <2>2. QED
    BY <1>2, <2>1 DEF InboundStop, InboundStart, TypeOK
<1>3. QED
  BY <1>1, <1>2 DEF Provider

LEMMA TypeStep ==
  ASSUME TypeOK, HandedRowsExist, [Next]_vars
  PROVE  TypeOK'
<1>1. CASE UNCHANGED vars
  BY <1>1 DEF TypeOK, vars
<1>2. QED
  BY <1>1, WebType, TaskType, ProviderType DEF Next

-----------------------------------------------------------------------------
\* A step of a task replaces its row by another row.
LEMMA RunRow ==
  ASSUME TypeOK, HandedRowsExist, NEW p \in Tasks, Run(p)
  PROVE  \E d \in Deliveries, row \in DeliveryRow : delivery' = [delivery EXCEPT ![d] = row]
<1> DEFINE t == task[p]
           old == delivery[t.delivery]
<1>1. t # None
  BY DEF Run, Suppress, MarkQueued, Accept, Refuse, SaveSubmitted, SaveRetry, SaveFailed, At
<1>2. /\ t \in Task
      /\ old \in DeliveryRow
      /\ t.step = "suppress" => t.verdict \in {"SKIPPED", "OPTED_OUT"}
  BY <1>1, TaskRow
<1>3. t.delivery \in Deliveries /\ t.row \in DeliveryRow
  BY <1>2 DEF Task
<1>4. CASE Suppress(p)
  <2>1. [old EXCEPT !.status = t.verdict] \in DeliveryRow
    BY <1>2, <1>4 DEF Suppress, At, DeliveryRow, Statuses
  <2>2. delivery' = [delivery EXCEPT ![t.delivery] = [old EXCEPT !.status = t.verdict]]
    BY <1>3, <1>4 DEF Suppress
  <2>3. QED
    BY <1>3, <2>1, <2>2
<1>5. CASE MarkQueued(p)
  <2> DEFINE attempts == t.row.attempts + 1
  <2>1. attempts \in Nat
    BY <1>3 DEF DeliveryRow
  <2>2. [old EXCEPT !.status = "QUEUED", !.attempts = attempts] \in DeliveryRow
    BY <1>2, <2>1 DEF DeliveryRow, Statuses
  <2>3. delivery' = [delivery EXCEPT ![t.delivery] =
                       [old EXCEPT !.status = "QUEUED", !.attempts = attempts]]
    BY <1>3, <1>5 DEF MarkQueued, TypeOK
  <2>4. QED
    BY <1>3, <2>2, <2>3
<1>6. CASE SaveSubmitted(p)
  <2>1. [t.row EXCEPT !.status = "SUBMITTED", !.message = t.result] \in DeliveryRow
    BY <1>3, <1>6 DEF SaveSubmitted, DeliveryRow, Statuses
  <2>2. QED
    BY <1>3, <1>6, <2>1 DEF SaveSubmitted, Done
<1>7. CASE SaveRetry(p)
  BY <1>3, <1>7 DEF SaveRetry, Done
<1>8. CASE SaveFailed(p)
  <2>1. [t.row EXCEPT !.status = "FAILED"] \in DeliveryRow
    BY <1>3 DEF DeliveryRow, Statuses
  <2>2. QED
    BY <1>3, <1>8, <2>1 DEF SaveFailed, Done
<1>9. ASSUME UNCHANGED delivery
      PROVE  \E d \in Deliveries, row \in DeliveryRow : delivery' = [delivery EXCEPT ![d] = row]
  <2>1. delivery' = [delivery EXCEPT ![t.delivery] = old]
    BY <1>9 DEF TypeOK
  <2>2. QED
    BY <1>2, <1>3, <2>1
<1>10. QED
  BY <1>4, <1>5, <1>6, <1>7, <1>8, <1>9 DEF Run, Accept, Refuse

\* Rows are never removed.
LEMMA RowsStay ==
  ASSUME TypeOK, HandedRowsExist, [Next]_vars, NEW d \in Deliveries, delivery[d] # None
  PROVE  delivery'[d] # None
<1> USE ConstantsAssumption
<1>1. ASSUME NEW p \in Web, WebNext(p)
      PROVE  delivery'[d] # None
  <2>1. CASE CreateCampaign(p)
    BY <2>1 DEF CreateCampaign
  <2>2. ASSUME NEW e \in Deliveries, ResetFailed(p, e)
        PROVE  delivery'[d] # None
    <3>1. delivery[d] \in DeliveryRow
      BY DEF TypeOK
    <3>2. [delivery[d] EXCEPT !.status = "PENDING"] \in DeliveryRow
      BY <3>1 DEF DeliveryRow, Statuses
    <3>3. delivery'[d] \in DeliveryRow
      BY <2>2, <3>1, <3>2 DEF ResetFailed, TypeOK
    <3>4. QED
      BY <3>3
  <2>3. CASE SaveCallback(p)
    <3>1. delivery[d] \in DeliveryRow
      BY DEF TypeOK
    <3>2. [request[p].row EXCEPT !.status = request[p].report] \in DeliveryRow
      BY <2>3 DEF SaveCallback, Callback, DeliveryRow, Reports, Statuses
    <3>3. delivery'[d] \in DeliveryRow
      BY <2>3, <3>1, <3>2 DEF SaveCallback, TypeOK
    <3>4. QED
      BY <3>3
  <2>4. QED
    BY <1>1, <2>1, <2>2, <2>3 DEF WebNext, ListFailed, Enqueue, AbandonRequest, LoadCallback,
       CrashCallback
<1>2. ASSUME NEW p \in Tasks, TaskNext(p)
      PROVE  delivery'[d] # None
  <2>1. CASE Run(p)
    <3>1. PICK e \in Deliveries, row \in DeliveryRow : delivery' = [delivery EXCEPT ![e] = row]
      BY <2>1, RunRow
    <3>2. QED
      BY <3>1 DEF TypeOK
  <2>2. QED
    BY <1>2, <2>1 DEF TaskNext, TakeTask, CrashTask
<1>3. CASE Provider
  BY <1>3 DEF Provider, Progress, InboundStop, InboundStart
<1>4. CASE UNCHANGED vars
  BY <1>4 DEF vars
<1>5. QED
  BY <1>1, <1>2, <1>3, <1>4 DEF Next

LEMMA HandedStep ==
  ASSUME TypeOK, HandedRowsExist, [Next]_vars
  PROVE  HandedRowsExist'
<1> USE ConstantsAssumption
<1>0. \A d \in Deliveries : delivery[d] # None => delivery'[d] # None
  BY RowsStay
<1>1. ASSUME NEW p \in Web, CreateCampaign(p)
      PROVE  HandedRowsExist'
  <2>1. \A d \in Deliveries : delivery'[d] # None
    <3>1. [status |-> "PENDING", attempts |-> 0, message |-> None] \in DeliveryRow
      BY DEF DeliveryRow, Statuses
    <3>2. QED
      BY <1>1, <3>1 DEF CreateCampaign
  <2>2. \A q \in Tasks : task'[q] # None => task'[q] \in Task
    BY <1>1 DEF CreateCampaign, TypeOK
  <2>3. \A q \in Web : request'[q] \in Enqueuing =>
          request'[q].rest \cup request'[q].ready \subseteq Deliveries
    BY DEF Enqueuing
  <2>4. QED
    BY <1>1, <2>1, <2>2, <2>3 DEF CreateCampaign, HandedRowsExist, Task
<1>2. ASSUME NEW p \in Web, ListFailed(p)
      PROVE  HandedRowsExist'
  <2>1. request'[p] = [rest |-> Failed, ready |-> {}]
    BY <1>2 DEF ListFailed, TypeOK
  <2>2. \A d \in Failed : delivery[d] # None
    BY DEF Failed
  <2>3. \A q \in Web \ {p} : request'[q] = request[q]
    BY <1>2 DEF ListFailed, TypeOK
  <2>4. UNCHANGED <<delivery, broker, task>>
    BY <1>2 DEF ListFailed
  <2>5. \A q \in Web : request'[q] \in Enqueuing =>
          \A d \in request'[q].rest \cup request'[q].ready : delivery[d] # None
    BY <2>1, <2>2, <2>3 DEF HandedRowsExist
  <2>6. QED
    BY <2>4, <2>5 DEF HandedRowsExist
<1>3. ASSUME NEW p \in Web, NEW d \in Deliveries, ResetFailed(p, d)
      PROVE  HandedRowsExist'
  <2>1. \A q \in Tasks : task[q] # None => task[q].delivery \in Deliveries
    BY DEF TypeOK, Task
  <2>2. \A q \in Web : request[q] \in Enqueuing =>
          request[q].rest \subseteq Deliveries /\ request[q].ready \subseteq Deliveries
    BY DEF Enqueuing
  <2>3. request[p] \in Enqueuing /\ d \in request[p].rest
    BY <1>3 DEF ResetFailed
  <2>4. request'[p].rest \subseteq request[p].rest /\ request'[p].ready \subseteq request[p].rest
    BY <1>3, <2>3 DEF ResetFailed, Enqueuing, TypeOK
  <2>5. \A q \in Web \ {p} : request'[q] = request[q]
    BY <1>3 DEF ResetFailed, TypeOK
  <2>6. UNCHANGED <<broker, task>>
    BY <1>3 DEF ResetFailed
  <2>7. \A q \in Web : request'[q] \in Enqueuing =>
          \A e \in request'[q].rest \cup request'[q].ready : delivery'[e] # None
    BY <1>0, <2>2, <2>3, <2>4, <2>5 DEF HandedRowsExist
  <2>8. QED
    BY <1>0, <2>1, <2>6, <2>7 DEF HandedRowsExist
<1>4. ASSUME NEW p \in Web, NEW d \in Deliveries, Enqueue(p, d)
      PROVE  HandedRowsExist'
  <2>1. delivery[d] # None
    BY <1>4 DEF Enqueue, HandedRowsExist
  <2>2. \A e \in Deliveries, r \in Retries : broker'[<<e, r>>] > 0 => delivery[e] # None
    BY <1>4, <2>1 DEF Enqueue, HandedRowsExist, TypeOK
  <2>3. \A q \in Web : request'[q] \in Enqueuing =>
          /\ request[q] \in Enqueuing
          /\ request'[q].rest \subseteq request[q].rest
          /\ request'[q].ready \subseteq request[q].ready
    BY <1>4 DEF Enqueue, TypeOK, Enqueuing
  <2>4. QED
    BY <1>4, <2>2, <2>3 DEF Enqueue, HandedRowsExist
<1>5. ASSUME NEW p \in Web,
             \/ AbandonRequest(p)
             \/ \E m \in Messages, report \in Reports : LoadCallback(p, m, report)
             \/ SaveCallback(p)
             \/ CrashCallback(p)
      PROVE  HandedRowsExist'
  <2>1. \A q \in Web \ {p} : request'[q] = request[q]
    BY <1>5 DEF AbandonRequest, LoadCallback, SaveCallback, CrashCallback, TypeOK
  <2>2. request'[p] \notin Enqueuing
    <3>1. CASE request'[p] = None
      BY <3>1
    <3>2. ASSUME NEW m \in Messages, NEW report \in Reports, LoadCallback(p, m, report)
          PROVE  request'[p] \notin Enqueuing
      <4>1. PICK d \in Deliveries :
              /\ delivery[d] # None
              /\ request'[p] = [delivery |-> d, row |-> delivery[d], report |-> report]
        BY <3>2 DEF LoadCallback, TypeOK
      <4>2. request'[p] \in Callback
        BY <4>1 DEF Callback, TypeOK
      <4>3. QED
        BY <4>2, Disjoint
    <3>3. QED
      BY <1>5, <3>1, <3>2 DEF AbandonRequest, SaveCallback, CrashCallback, TypeOK
  <2>3. UNCHANGED <<broker, task>>
    BY <1>5 DEF AbandonRequest, LoadCallback, SaveCallback, CrashCallback
  <2>4. \A q \in Tasks : task[q] # None => task[q].delivery \in Deliveries
    BY DEF TypeOK, Task
  <2>5. \A q \in Web : request[q] \in Enqueuing =>
          request[q].rest \cup request[q].ready \subseteq Deliveries
    BY DEF Enqueuing
  <2>6. QED
    BY <1>0, <2>1, <2>2, <2>3, <2>4, <2>5 DEF HandedRowsExist
<1>6. ASSUME NEW p \in Tasks, NEW d \in Deliveries, NEW r \in Retries, TakeTask(p, d, r)
      PROVE  HandedRowsExist'
  <2>1. delivery[d] # None
    BY <1>6 DEF TakeTask, HandedRowsExist
  <2>2. \A e \in Deliveries, s \in Retries : broker'[<<e, s>>] > 0 => broker[<<e, s>>] > 0
    BY <1>6 DEF TakeTask, TypeOK
  <2>3. task'[p] # None => task'[p].delivery = d
                           /\ (task'[p].step = "suppress" => task'[p].verdict # "eligible")
    BY <1>6 DEF TakeTask, TypeOK
  <2>4. \A q \in Tasks \ {p} : task'[q] = task[q]
    BY <1>6 DEF TakeTask, TypeOK
  <2>5. UNCHANGED <<delivery, request>>
    BY <1>6 DEF TakeTask
  <2>6. QED
    BY <2>1, <2>2, <2>3, <2>4, <2>5 DEF HandedRowsExist
<1>7. ASSUME NEW p \in Tasks, Run(p) \/ CrashTask(p)
      PROVE  HandedRowsExist'
  <2>1. task[p] # None
    BY <1>7 DEF Run, Suppress, MarkQueued, Accept, Refuse, SaveSubmitted, SaveRetry,
       SaveFailed, CrashTask, At
  <2>2. task[p] \in Task /\ delivery[task[p].delivery] # None
    BY <2>1 DEF TypeOK, HandedRowsExist
  <2>3. task'[p] # None => task'[p].delivery = task[p].delivery /\ task'[p].step # "suppress"
    BY <1>7, <2>2 DEF Run, Suppress, MarkQueued, Accept, Refuse, Answered, SaveSubmitted,
       SaveRetry, SaveFailed, Done, CrashTask, TypeOK, Task
  <2>4. \A q \in Tasks \ {p} : task'[q] = task[q]
    BY <1>7 DEF Run, Suppress, MarkQueued, Accept, Refuse, Answered, SaveSubmitted, SaveRetry,
       SaveFailed, Done, CrashTask, TypeOK
  <2>5. \A q \in Tasks : task[q] # None => task[q].delivery \in Deliveries
    BY DEF TypeOK, Task
  <2>6. \A q \in Tasks : task'[q] # None =>
          /\ delivery'[task'[q].delivery] # None
          /\ task'[q].step = "suppress" => task'[q].verdict # "eligible"
    BY <1>0, <2>2, <2>3, <2>4, <2>5 DEF HandedRowsExist
  <2>7. \A e \in Deliveries, s \in Retries : broker'[<<e, s>>] > 0 => delivery'[e] # None
    <3>1. CASE UNCHANGED broker
      BY <1>0, <3>1 DEF HandedRowsExist
    <3>2. CASE broker' = [broker EXCEPT ![<<task[p].delivery, task[p].retries + 1>>] = @ + 1]
      BY <1>0, <2>2, <3>2 DEF HandedRowsExist, TypeOK
    <3>3. QED
      BY <1>7, <3>1, <3>2 DEF Run, Suppress, MarkQueued, Accept, Refuse, SaveSubmitted,
         SaveRetry, SaveFailed, CrashTask
  <2>8. UNCHANGED request
    BY <1>7 DEF Run, Suppress, MarkQueued, Accept, Refuse, SaveSubmitted, SaveRetry,
       SaveFailed, CrashTask
  <2>9. \A q \in Web : request[q] \in Enqueuing =>
          request[q].rest \cup request[q].ready \subseteq Deliveries
    BY DEF Enqueuing
  <2>10. QED
    BY <1>0, <2>6, <2>7, <2>8, <2>9 DEF HandedRowsExist
<1>8. CASE Provider
  BY <1>8 DEF Provider, Progress, InboundStop, InboundStart, HandedRowsExist
<1>9. CASE UNCHANGED vars
  BY <1>9 DEF vars, HandedRowsExist
<1>10. QED
  BY <1>1, <1>2, <1>3, <1>4, <1>5, <1>6, <1>7, <1>8, <1>9 DEF Next, WebNext, TaskNext

-----------------------------------------------------------------------------
\* A message stays what it is about and keeps what was reported of it.
Grows == \A m \in Messages : message[m] # None =>
           /\ message'[m] # None
           /\ message'[m].delivery = message[m].delivery
           /\ message[m].reports \subseteq message'[m].reports

LEMMA MessagesGrow ==
  ASSUME TypeOK, [Next]_vars
  PROVE  Grows
<1> USE ConstantsAssumption
<1>1. CASE UNCHANGED message
  BY <1>1 DEF Grows
<1>2. ASSUME NEW p \in Tasks, NEW m \in Messages, NEW answered \in Answers, Accept(p, m, answered)
      PROVE  Grows
  BY <1>2 DEF Accept, Grows, TypeOK
<1>3. ASSUME NEW m \in Messages, NEW report \in Reports, Progress(m, report)
      PROVE  Grows
  <2>1. message[m] \in MessageRow
    BY <1>3 DEF Progress, TypeOK
  <2>2. message' = [message EXCEPT ![m] =
                      [message[m] EXCEPT !.reports = message[m].reports \cup {report}]]
    BY <1>3 DEF Progress
  <2>3. [message[m] EXCEPT !.reports = message[m].reports \cup {report}] \in MessageRow
    BY <2>1 DEF MessageRow
  <2>4. \A n \in Messages \ {m} : message'[n] = message[n]
    BY <2>2 DEF TypeOK
  <2>5. /\ message'[m] \in MessageRow
        /\ message'[m].delivery = message[m].delivery
        /\ message[m].reports \subseteq message'[m].reports
    BY <2>1, <2>2, <2>3 DEF TypeOK, MessageRow
  <2>6. QED
    BY <2>4, <2>5 DEF Grows
<1>4. QED
  BY <1>1, <1>2, <1>3 DEF Next, WebNext, TaskNext, Run, Provider, vars, CreateCampaign, ListFailed,
     ResetFailed, Enqueue, AbandonRequest, LoadCallback, SaveCallback, CrashCallback, TakeTask,
     CrashTask, Suppress, MarkQueued, Refuse, SaveSubmitted, SaveRetry, SaveFailed, InboundStop,
     InboundStart

\* What is backed stays backed.
LEMMA BackedStays ==
  ASSUME Grows, NEW d \in Deliveries, NEW row \in DeliveryRow, Backed(d, row)
  PROVE  Backed(d, row)'
BY ConstantsAssumption DEF Grows, Backed, DeliveryRow

\* A status that claims nothing may be written on any backed row.
LEMMA Unclaimed ==
  ASSUME NEW d \in Deliveries, NEW row \in DeliveryRow, Backed(d, row),
         NEW status \in {"PENDING", "QUEUED", "FAILED", "SKIPPED", "OPTED_OUT"}
  PROVE  Backed(d, [row EXCEPT !.status = status])
BY DEF Backed, DeliveryRow

\* The rows of the table and the copies in memory, one by one.
BackedCopy(p) ==
  task[p] # None =>
    /\ Backed(task[p].delivery, task[p].row)
    /\ task[p].result \in Messages =>
         message[task[p].result] # None /\ message[task[p].result].delivery = task[p].delivery

BackedCallback(p) ==
  request[p] \in Callback =>
    /\ Backed(request[p].delivery, request[p].row)
    /\ request[p].row.message # None
    /\ request[p].report \in message[request[p].row.message].reports

LEMMA RowStays ==
  ASSUME TypeOK, StatusIsBacked, Grows, NEW d \in Deliveries, delivery'[d] = delivery[d]
  PROVE  (delivery[d] # None => Backed(d, delivery[d]))'
<1>1. delivery[d] # None => delivery[d] \in DeliveryRow /\ Backed(d, delivery[d])
  BY DEF TypeOK, StatusIsBacked
<1>2. \A row \in DeliveryRow : Backed(d, row) => Backed(d, row)'
  BY BackedStays
<1>3. QED
  BY <1>1, <1>2 DEF Backed

LEMMA CopyStays ==
  ASSUME TypeOK, Grows, NEW p \in Tasks, BackedCopy(p), task'[p] = task[p]
  PROVE  BackedCopy(p)'
<1>1. task[p] # None => task[p] \in Task
  BY DEF TypeOK
<1>2. \A d \in Deliveries, row \in DeliveryRow : Backed(d, row) => Backed(d, row)'
  BY BackedStays
<1>3. task[p] # None => (Backed(task[p].delivery, task[p].row))'
  BY <1>1, <1>2 DEF BackedCopy, Task, Backed
<1>4. QED
  BY <1>1, <1>3 DEF BackedCopy, Grows, Task

LEMMA CallbackStays ==
  ASSUME TypeOK, Grows, NEW p \in Web, BackedCallback(p), request'[p] = request[p]
  PROVE  BackedCallback(p)'
<1>0. \A d \in Deliveries, row \in DeliveryRow : Backed(d, row) => Backed(d, row)'
  BY BackedStays
<1>1. request[p] \in Callback => Backed(request[p].delivery, request[p].row)'
  BY <1>0 DEF BackedCallback, Callback, Backed
<1>2. request[p] \in Callback =>
        /\ request[p].row.message \in Messages
        /\ message[request[p].row.message] # None
  BY DEF BackedCallback, Callback, Backed, DeliveryRow
<1>3. QED
  BY <1>1, <1>2 DEF BackedCallback, Grows

\* One row is written, with what it may claim; the copies do not change.
LEMMA WebBacked ==
  ASSUME TypeOK, HandedRowsExist, StatusIsBacked, CopiesAreBacked, Grows,
         NEW p \in Web, WebNext(p)
  PROVE  StatusIsBacked' /\ CopiesAreBacked'
<1> USE ConstantsAssumption
<1>0. /\ \A q \in Tasks : BackedCopy(q)
      /\ \A q \in Web : BackedCallback(q)
  BY DEF CopiesAreBacked, BackedCopy, BackedCallback
<1>1. UNCHANGED <<message, task>>
  BY DEF WebNext, CreateCampaign, ListFailed, ResetFailed, Enqueue, AbandonRequest, LoadCallback,
     SaveCallback, CrashCallback
<1>2. \A q \in Web \ {p} : request'[q] = request[q]
  BY DEF WebNext, CreateCampaign, ListFailed, ResetFailed, Enqueue, AbandonRequest, LoadCallback,
     SaveCallback, CrashCallback, TypeOK
<1>3. \A q \in Tasks : BackedCopy(q)'
  BY <1>0, <1>1, CopyStays
<1>4. \A q \in Web \ {p} : BackedCallback(q)'
  BY <1>0, <1>2, CallbackStays
<1>5. BackedCallback(p)'
  <2>1. CASE request'[p] = None
    BY <2>1 DEF BackedCallback
  <2>2. CASE request'[p] \in Enqueuing
    BY <2>2, Disjoint DEF BackedCallback
  <2>3. ASSUME NEW m \in Messages, NEW report \in Reports, LoadCallback(p, m, report)
        PROVE  BackedCallback(p)'
    <3>1. PICK d \in Deliveries :
            /\ delivery[d] # None
            /\ delivery[d].message = m
            /\ request' = [request EXCEPT ![p] =
                             [delivery |-> d, row |-> delivery[d], report |-> report]]
      BY <2>3 DEF LoadCallback
    <3>2. Backed(d, delivery[d]) /\ m # None /\ report \in message[m].reports
      BY <2>3, <3>1 DEF StatusIsBacked, LoadCallback
    <3>3. request'[p] = [delivery |-> d, row |-> delivery[d], report |-> report]
      BY <3>1 DEF TypeOK
    <3>4. QED
      BY <1>1, <3>1, <3>2, <3>3 DEF BackedCallback, Backed
  <2>4. CreateCampaign(p) \/ ListFailed(p) => request'[p] \in Enqueuing
    BY DEF CreateCampaign, ListFailed, TypeOK, Enqueuing, Failed
  <2>5. ASSUME NEW d \in Deliveries, ResetFailed(p, d) \/ Enqueue(p, d)
        PROVE  request'[p] = None \/ request'[p] \in Enqueuing
    <3>1. request[p] \in Enqueuing
      BY <2>5 DEF ResetFailed, Enqueue
    <3>2. CASE ResetFailed(p, d)
      BY <3>1, <3>2 DEF ResetFailed, TypeOK, Enqueuing
    <3>3. CASE Enqueue(p, d)
      BY <3>1, <3>3 DEF Enqueue, TypeOK, Enqueuing
    <3>4. QED
      BY <2>5, <3>2, <3>3
  <2>6. AbandonRequest(p) \/ SaveCallback(p) \/ CrashCallback(p) => request'[p] = None
    BY DEF AbandonRequest, SaveCallback, CrashCallback, TypeOK
  <2>7. QED
    BY <2>1, <2>2, <2>3, <2>4, <2>5, <2>6 DEF WebNext
<1>6. ASSUME NEW d \in Deliveries
      PROVE  (delivery[d] # None => Backed(d, delivery[d]))'
  <2>1. CASE delivery'[d] = delivery[d]
    BY <2>1, RowStays
  <2>2. CASE CreateCampaign(p)
    BY <2>2 DEF CreateCampaign, Backed
  <2>3. ASSUME NEW e \in Deliveries, ResetFailed(p, e), e = d
        PROVE  (delivery[d] # None => Backed(d, delivery[d]))'
    <3>1. delivery[d] \in DeliveryRow /\ Backed(d, delivery[d])
      BY <2>3 DEF ResetFailed, HandedRowsExist, TypeOK, StatusIsBacked
    <3>2. Backed(d, [delivery[d] EXCEPT !.status = "PENDING"])
      BY <3>1, Unclaimed
    <3>3. delivery'[d] = [delivery[d] EXCEPT !.status = "PENDING"]
      BY <2>3 DEF ResetFailed, TypeOK
    <3>4. QED
      BY <1>1, <3>2, <3>3 DEF Backed
  <2>4. ASSUME SaveCallback(p), request[p].delivery = d
        PROVE  (delivery[d] # None => Backed(d, delivery[d]))'
    <3> DEFINE row == request[p].row
               report == request[p].report
    <3>1. /\ request[p] \in Callback
          /\ delivery'[d] = [row EXCEPT !.status = report]
      BY <2>4 DEF SaveCallback, TypeOK
    <3>2. /\ row \in DeliveryRow /\ report \in Reports
          /\ Backed(d, row) /\ row.message # None /\ report \in message[row.message].reports
      BY <1>0, <2>4, <3>1 DEF BackedCallback, Callback
    <3>3. Backed(d, [row EXCEPT !.status = report])
      BY <3>2 DEF Backed, DeliveryRow, Reports
    <3>4. QED
      BY <1>1, <3>1, <3>3 DEF Backed
  <2>5. QED
    BY <2>1, <2>2, <2>3, <2>4 DEF WebNext, ListFailed, ResetFailed, Enqueue, AbandonRequest,
       LoadCallback, SaveCallback, CrashCallback, TypeOK
<1>7. QED
  BY <1>3, <1>4, <1>5, <1>6 DEF StatusIsBacked, CopiesAreBacked, BackedCopy, BackedCallback

LEMMA TaskBacked ==
  ASSUME TypeOK, HandedRowsExist, StatusIsBacked, CopiesAreBacked, Grows,
         NEW p \in Tasks, TaskNext(p)
  PROVE  StatusIsBacked' /\ CopiesAreBacked'
<1> USE ConstantsAssumption
<1> DEFINE t == task[p]
<1>0. /\ \A q \in Tasks : BackedCopy(q)
      /\ \A q \in Web : BackedCallback(q)
  BY DEF CopiesAreBacked, BackedCopy, BackedCallback
<1>1. UNCHANGED request
  BY DEF TaskNext, TakeTask, CrashTask, Run, Suppress, MarkQueued, Accept, Refuse, SaveSubmitted,
     SaveRetry, SaveFailed
<1>2. \A q \in Tasks \ {p} : task'[q] = task[q]
  BY DEF TaskNext, TakeTask, CrashTask, Run, Suppress, MarkQueued, Accept, Refuse, Answered,
     SaveSubmitted, SaveRetry, SaveFailed, Done, TypeOK
<1>3. \A q \in Web : BackedCallback(q)'
  BY <1>0, <1>1, CallbackStays
<1>4. \A q \in Tasks \ {p} : BackedCopy(q)'
  BY <1>0, <1>2, CopyStays
<1>5. ASSUME NEW d \in Deliveries, delivery'[d] = delivery[d]
      PROVE  (delivery[d] # None => Backed(d, delivery[d]))'
  BY <1>5, RowStays
<1>6. ASSUME UNCHANGED delivery, BackedCopy(p)'
      PROVE  StatusIsBacked' /\ CopiesAreBacked'
  BY <1>3, <1>4, <1>5, <1>6 DEF StatusIsBacked, CopiesAreBacked, BackedCopy, BackedCallback
<1>7. ASSUME NEW d \in Deliveries, NEW r \in Retries, TakeTask(p, d, r)
      PROVE  StatusIsBacked' /\ CopiesAreBacked'
  <2>1. delivery[d] # None /\ Backed(d, delivery[d])
    BY <1>7 DEF TakeTask, HandedRowsExist, StatusIsBacked
  <2>2. task'[p] # None =>
          task'[p].delivery = d /\ task'[p].row = delivery[d] /\ task'[p].result = None
    BY <1>7 DEF TakeTask, TypeOK
  <2>3. UNCHANGED <<delivery, message>>
    BY <1>7 DEF TakeTask
  <2>4. BackedCopy(p)'
    BY <2>1, <2>2, <2>3 DEF BackedCopy, Backed
  <2>5. QED
    BY <1>6, <2>3, <2>4
<1>8. CASE CrashTask(p)
  <2>1. BackedCopy(p)'
    BY <1>8 DEF CrashTask, TypeOK, BackedCopy
  <2>2. QED
    BY <1>6, <1>8, <2>1 DEF CrashTask
<1>9. ASSUME Run(p)
      PROVE  StatusIsBacked' /\ CopiesAreBacked'
  <2>1. t # None
    BY <1>9 DEF Run, Suppress, MarkQueued, Accept, Refuse, SaveSubmitted, SaveRetry, SaveFailed, At
  <2>2. /\ t \in Task
        /\ delivery[t.delivery] \in DeliveryRow
        /\ t.step = "suppress" => t.verdict \in {"SKIPPED", "OPTED_OUT"}
    BY <2>1, TaskRow
  <2>3. t.delivery \in Deliveries /\ t.row \in DeliveryRow
    BY <2>2 DEF Task
  <2>4. Backed(t.delivery, t.row) /\ Backed(t.delivery, delivery[t.delivery])
    BY <1>0, <2>1, <2>2, <2>3 DEF BackedCopy, StatusIsBacked
  <2>5. ASSUME NEW row \in DeliveryRow, Backed(t.delivery, row), UNCHANGED message,
               delivery' = [delivery EXCEPT ![t.delivery] = row], BackedCopy(p)'
        PROVE  StatusIsBacked' /\ CopiesAreBacked'
    <3>1. \A d \in Deliveries : (delivery[d] # None => Backed(d, delivery[d]))'
      <4> SUFFICES ASSUME NEW d \in Deliveries
                   PROVE  (delivery[d] # None => Backed(d, delivery[d]))'
        OBVIOUS
      <4>1. CASE d = t.delivery
        BY <2>3, <2>5, <4>1 DEF TypeOK, Backed
      <4>2. CASE d # t.delivery
        BY <1>5, <2>3, <2>5, <4>2 DEF TypeOK
      <4>3. QED
        BY <4>1, <4>2
    <3>2. QED
      BY <1>3, <1>4, <2>5, <3>1 DEF StatusIsBacked, CopiesAreBacked, BackedCopy, BackedCallback
  <2>6. ASSUME task'[p] = None
        PROVE  BackedCopy(p)'
    BY <2>6 DEF BackedCopy
  <2>7. CASE Suppress(p)
    <3> DEFINE row == [delivery[t.delivery] EXCEPT !.status = t.verdict]
    <3>1. t.verdict \in {"SKIPPED", "OPTED_OUT"}
      BY <2>2, <2>7 DEF Suppress, At
    <3>2. row \in DeliveryRow
      BY <2>2, <3>1 DEF DeliveryRow, Statuses
    <3>3. Backed(t.delivery, row)
      BY <2>2, <2>3, <2>4, <3>1, Unclaimed
    <3>4. delivery' = [delivery EXCEPT ![t.delivery] = row] /\ task'[p] = None /\ UNCHANGED message
      BY <2>7 DEF Suppress, TypeOK
    <3>5. QED
      BY <2>5, <2>6, <3>2, <3>3, <3>4
  <2>8. CASE MarkQueued(p)
    <3> DEFINE old == delivery[t.delivery]
               attempts == t.row.attempts + 1
               row == [old EXCEPT !.status = "QUEUED", !.attempts = attempts]
    <3>1. attempts \in Nat
      BY <2>3 DEF DeliveryRow
    <3>2. row \in DeliveryRow /\ Backed(t.delivery, row)
      BY <2>2, <2>4, <3>1 DEF DeliveryRow, Statuses, Backed
    <3>3. delivery' = [delivery EXCEPT ![t.delivery] = row] /\ UNCHANGED message
      BY <2>3, <2>8 DEF MarkQueued, TypeOK
    <3>4. /\ task'[p].delivery = t.delivery
          /\ task'[p].row = [t.row EXCEPT !.status = "QUEUED", !.attempts = attempts]
          /\ task'[p].result = t.result
      BY <2>2, <2>8 DEF MarkQueued, TypeOK, Task
    <3>5. Backed(t.delivery, [t.row EXCEPT !.status = "QUEUED", !.attempts = attempts])
      BY <2>3, <2>4, <3>1 DEF DeliveryRow, Backed
    <3>6. BackedCopy(p)'
      BY <1>0, <2>1, <3>3, <3>4, <3>5 DEF BackedCopy, Backed
    <3>7. QED
      BY <2>5, <3>2, <3>3, <3>6
  <2>9. ASSUME NEW m \in Messages, NEW answered \in Answers, Accept(p, m, answered)
        PROVE  StatusIsBacked' /\ CopiesAreBacked'
    <3>1. [delivery |-> t.delivery, reports |-> {}] \in MessageRow
      BY <2>3 DEF MessageRow
    <3>2. message'[m] = [delivery |-> t.delivery, reports |-> {}] /\ message'[m] # None
      BY <2>9, <3>1 DEF Accept, TypeOK
    <3>3. /\ task'[p].delivery = t.delivery /\ task'[p].row = t.row
          /\ task'[p].result \in {m, "transient"}
      BY <2>2, <2>9 DEF Accept, Answered, TypeOK, Task
    <3>4. (Backed(task[p].delivery, task[p].row))'
      <4>1. \A d \in Deliveries, row \in DeliveryRow : Backed(d, row) => Backed(d, row)'
        BY BackedStays
      <4>2. QED
        BY <2>3, <2>4, <3>3, <4>1 DEF Backed
    <3>5. BackedCopy(p)'
      BY <3>2, <3>3, <3>4 DEF BackedCopy
    <3>6. QED
      BY <1>6, <2>9, <3>5 DEF Accept
  <2>10. ASSUME NEW result \in {"transient", "permanent"}, Refuse(p, result)
         PROVE  StatusIsBacked' /\ CopiesAreBacked'
    <3>1. /\ task'[p].delivery = t.delivery /\ task'[p].row = t.row
          /\ task'[p].result \notin Messages
      BY <2>2, <2>10 DEF Refuse, Answered, TypeOK, Task
    <3>2. BackedCopy(p)'
      BY <2>4, <2>10, <3>1 DEF BackedCopy, Backed, Refuse
    <3>3. QED
      BY <1>6, <2>10, <3>2 DEF Refuse
  <2>11. CASE SaveSubmitted(p)
    <3> DEFINE row == [t.row EXCEPT !.status = "SUBMITTED", !.message = t.result]
    <3>1. message[t.result] # None /\ message[t.result].delivery = t.delivery
      BY <1>0, <2>1, <2>11 DEF SaveSubmitted, BackedCopy
    <3>2. row \in DeliveryRow /\ Backed(t.delivery, row)
      BY <2>3, <2>11, <3>1 DEF SaveSubmitted, DeliveryRow, Statuses, Backed
    <3>3. delivery' = [delivery EXCEPT ![t.delivery] = row] /\ task'[p] = None /\ UNCHANGED message
      BY <2>11 DEF SaveSubmitted, Done, TypeOK
    <3>4. QED
      BY <2>5, <2>6, <3>2, <3>3
  <2>12. CASE SaveRetry(p)
    <3>1. delivery' = [delivery EXCEPT ![t.delivery] = t.row] /\ task'[p] = None /\ UNCHANGED message
      BY <2>12 DEF SaveRetry, Done, TypeOK
    <3>2. QED
      BY <2>3, <2>4, <2>5, <2>6, <3>1
  <2>13. CASE SaveFailed(p)
    <3> DEFINE row == [t.row EXCEPT !.status = "FAILED"]
    <3>1. row \in DeliveryRow /\ Backed(t.delivery, row)
      BY <2>3, <2>4, Unclaimed DEF DeliveryRow, Statuses
    <3>2. delivery' = [delivery EXCEPT ![t.delivery] = row] /\ task'[p] = None /\ UNCHANGED message
      BY <2>13 DEF SaveFailed, Done, TypeOK
    <3>3. QED
      BY <2>5, <2>6, <3>1, <3>2
  <2>14. QED
    BY <1>9, <2>7, <2>8, <2>9, <2>10, <2>11, <2>12, <2>13 DEF Run
<1>10. QED
  BY <1>7, <1>8, <1>9 DEF TaskNext

LEMMA BackedStep ==
  ASSUME TypeOK, HandedRowsExist, StatusIsBacked, CopiesAreBacked, [Next]_vars
  PROVE  StatusIsBacked' /\ CopiesAreBacked'
<1>1. Grows
  BY MessagesGrow
<1>2. ASSUME UNCHANGED <<delivery, task, request>>
      PROVE  StatusIsBacked' /\ CopiesAreBacked'
  <2>1. \A d \in Deliveries : (delivery[d] # None => Backed(d, delivery[d]))'
    BY <1>1, <1>2, RowStays
  <2>2. \A q \in Tasks : BackedCopy(q)'
    BY <1>1, <1>2, CopyStays DEF CopiesAreBacked, BackedCopy
  <2>3. \A q \in Web : BackedCallback(q)'
    BY <1>1, <1>2, CallbackStays DEF CopiesAreBacked, BackedCallback
  <2>4. QED
    BY <2>1, <2>2, <2>3 DEF StatusIsBacked, CopiesAreBacked, BackedCopy, BackedCallback
<1>3. CASE Provider
  BY <1>2, <1>3 DEF Provider, Progress, InboundStop, InboundStart
<1>4. CASE UNCHANGED vars
  BY <1>2, <1>4 DEF vars
<1>5. QED
  BY <1>1, <1>3, <1>4, WebBacked, TaskBacked DEF Next

-----------------------------------------------------------------------------
\* The inductive invariant holds in every reachable state.
THEOREM Invariance == Spec => []IInv
<1> USE ConstantsAssumption
<1>1. Init => IInv
  BY DEF Init, IInv, TypeOK, HandedRowsExist, StatusIsBacked, CopiesAreBacked
<1>2. IInv /\ [Next]_vars => IInv'
  BY TypeStep, HandedStep, BackedStep DEF IInv
<1>3. QED
  BY <1>1, <1>2, PTL DEF Spec

\* What the delivery funnel shows of a row is true of one of its messages, whatever stale
\* copies tasks and callbacks save over each other.
THEOREM Backing == Spec => []StatusIsBacked
<1>1. IInv => StatusIsBacked
  BY DEF IInv
<1>2. QED
  BY <1>1, Invariance, PTL

-----------------------------------------------------------------------------
\* A delivery that stays in hand, or is resolved, is not forgotten.
LEMMA RunRemembers ==
  ASSUME TypeOK, HandedRowsExist, NothingForgotten, NEW p \in Tasks, Run(p)
  PROVE  NothingForgotten'
<1> USE ConstantsAssumption
<1> DEFINE t == task[p]
<1>1. t # None
  BY DEF Run, Suppress, MarkQueued, Accept, Refuse, SaveSubmitted, SaveRetry, SaveFailed, At
<1>2. /\ t \in Task
      /\ delivery[t.delivery] \in DeliveryRow
      /\ t.step = "suppress" => t.verdict \in {"SKIPPED", "OPTED_OUT"}
  BY <1>1, TaskRow
<1>3. t.delivery \in Deliveries /\ t.row \in DeliveryRow /\ t.retries \in Retries
  BY <1>2 DEF Task
<1>4. PICK e \in Deliveries : e = t.delivery
  BY <1>3
<1>5. /\ \A q \in Tasks \ {p} : task'[q] = task[q]
      /\ \A d \in Deliveries \ {e} : delivery'[d] = delivery[d]
      /\ UNCHANGED request
      /\ lost \subseteq lost'
  BY <1>4 DEF Run, Suppress, MarkQueued, Accept, Refuse, Answered, SaveSubmitted, SaveRetry,
     SaveFailed, Done, TypeOK
<1>6. \A d \in Deliveries, r \in Retries : broker[<<d, r>>] > 0 => broker'[<<d, r>>] > 0
  <2>1. CASE UNCHANGED broker
    BY <2>1
  <2>2. CASE broker' = [broker EXCEPT ![<<e, t.retries + 1>>] = @ + 1]
    BY <2>2 DEF TypeOK
  <2>3. QED
    BY <1>4, <2>1, <2>2 DEF Run, Suppress, MarkQueued, Accept, Refuse, SaveSubmitted, SaveRetry,
       SaveFailed
<1>7. ASSUME NEW d \in Deliveries \ {e}, Unresolved(d)'
      PROVE  InHand(d)' \/ d \in lost'
  <2>1. InHand(d) \/ d \in lost
    BY <1>5, <1>7 DEF Unresolved, NothingForgotten
  <2>2. InHand(d) => InHand(d)'
    BY <1>4, <1>5, <1>6, <1>7 DEF InHand
  <2>3. QED
    BY <1>5, <2>1, <2>2
<1>8. Unresolved(e)' => InHand(e)' \/ e \in lost'
  <2>1. CASE Suppress(p)
    <3>1. delivery'[e].status \in {"SKIPPED", "OPTED_OUT"}
      BY <1>2, <1>4, <2>1 DEF Suppress, At, TypeOK, DeliveryRow
    <3>2. QED
      BY <3>1 DEF Unresolved
  <2>2. ASSUME task'[p].delivery = e, task'[p] # None
        PROVE  InHand(e)'
    BY <2>2 DEF InHand
  <2>3. ASSUME NEW result \in Messages \cup {"transient", "permanent"}, Answered(p, result)
        PROVE  task'[p].delivery = e /\ task'[p] # None
    <3>1. [t EXCEPT !.step = "save", !.result = result] \in Task
      BY <1>2 DEF Task, Steps
    <3>2. task'[p] = [t EXCEPT !.step = "save", !.result = result]
      BY <2>3 DEF Answered, TypeOK
    <3>3. QED
      BY <1>2, <1>4, <3>1, <3>2 DEF Task
  <2>4. CASE MarkQueued(p)
    <3> DEFINE row == [t.row EXCEPT !.status = "QUEUED", !.attempts = t.row.attempts + 1]
    <3>0. t.row.attempts + 1 \in Nat
      BY <1>3 DEF DeliveryRow
    <3>1. row \in DeliveryRow
      BY <1>3, <3>0 DEF DeliveryRow, Statuses
    <3>2. [t EXCEPT !.step = "send", !.row = row] \in Task
      BY <1>2, <3>1 DEF Task, Steps
    <3>3. task'[p] = [t EXCEPT !.step = "send", !.row = row]
      BY <2>4 DEF MarkQueued, TypeOK
    <3>4. task'[p].delivery = e /\ task'[p] # None
      BY <1>2, <1>4, <3>2, <3>3 DEF Task
    <3>5. QED
      BY <2>2, <3>4
  <2>5. CASE SaveSubmitted(p) \/ SaveFailed(p)
    <3>1. SaveSubmitted(p) => delivery'[e].status = "SUBMITTED"
      BY <1>3, <1>4 DEF SaveSubmitted, Done, TypeOK, DeliveryRow
    <3>2. SaveFailed(p) => delivery'[e].status = "FAILED"
      BY <1>3, <1>4 DEF SaveFailed, Done, TypeOK, DeliveryRow
    <3>3. QED
      BY <2>5, <3>1, <3>2 DEF Unresolved
  <2>6. CASE SaveRetry(p)
    <3>1. CASE t.retries < MaxRetries
      <4>1. PICK r \in Retries : r = t.retries + 1
        BY <1>3, <3>1 DEF Retries
      <4>2. broker'[<<e, r>>] > 0
        BY <1>4, <2>6, <3>1, <4>1 DEF SaveRetry, TypeOK
      <4>3. QED
        BY <4>2 DEF InHand
    <3>2. CASE ~(t.retries < MaxRetries)
      BY <1>4, <2>6, <3>2 DEF SaveRetry
    <3>3. QED
      BY <3>1, <3>2
  <2>7. QED
    BY <2>1, <2>2, <2>3, <2>4, <2>5, <2>6 DEF Run, Accept, Refuse
<1>9. QED
  BY <1>7, <1>8 DEF NothingForgotten

LEMMA WebRemembers ==
  ASSUME TypeOK, HandedRowsExist, NothingForgotten, NEW p \in Web, WebNext(p)
  PROVE  NothingForgotten'
<1> USE ConstantsAssumption
<1>1. UNCHANGED task /\ lost \subseteq lost'
  BY DEF WebNext, CreateCampaign, ListFailed, ResetFailed, Enqueue, AbandonRequest, LoadCallback,
     SaveCallback, CrashCallback
<1>2. \A d \in Deliveries, r \in Retries : broker[<<d, r>>] > 0 => broker'[<<d, r>>] > 0
  <2>1. CASE UNCHANGED broker
    BY <2>1
  <2>2. ASSUME NEW d \in Deliveries, Enqueue(p, d)
        PROVE  \A e \in Deliveries, r \in Retries : broker[<<e, r>>] > 0 => broker'[<<e, r>>] > 0
    BY <2>2 DEF Enqueue, TypeOK
  <2>3. QED
    BY <2>1, <2>2 DEF WebNext, CreateCampaign, ListFailed, ResetFailed, AbandonRequest,
       LoadCallback, SaveCallback, CrashCallback
<1>3. \A q \in Web \ {p} : request'[q] = request[q]
  BY DEF WebNext, CreateCampaign, ListFailed, ResetFailed, Enqueue, AbandonRequest, LoadCallback,
     SaveCallback, CrashCallback, TypeOK
<1>4. ASSUME NEW d \in Deliveries, delivery'[d] = delivery[d] \/ ~Unresolved(d)',
             request[p] \in Enqueuing /\ d \in request[p].ready =>
               InHand(d)' \/ d \in lost'
      PROVE  Unresolved(d)' => InHand(d)' \/ d \in lost'
  <2> SUFFICES ASSUME Unresolved(d)'
               PROVE  InHand(d)' \/ d \in lost'
    OBVIOUS
  <2>1. InHand(d) \/ d \in lost
    BY <1>4 DEF Unresolved, NothingForgotten
  <2>2. InHand(d) => InHand(d)' \/ d \in lost'
    BY <1>1, <1>2, <1>3, <1>4 DEF InHand
  <2>3. QED
    BY <1>1, <2>1, <2>2
<1>5. CASE CreateCampaign(p)
  <2>1. request'[p] \in Enqueuing /\ request'[p].ready = Deliveries
    BY <1>5 DEF CreateCampaign, TypeOK, Enqueuing
  <2>2. QED
    BY <2>1 DEF NothingForgotten, InHand
<1>6. CASE ListFailed(p) \/ \E m \in Messages, report \in Reports : LoadCallback(p, m, report)
  <2>1. UNCHANGED delivery /\ request[p] \notin Enqueuing
    BY <1>6 DEF ListFailed, LoadCallback
  <2>2. QED
    BY <1>4, <2>1 DEF NothingForgotten
<1>7. ASSUME NEW d \in Deliveries, ResetFailed(p, d)
      PROVE  NothingForgotten'
  <2>1. /\ request[p] \in Enqueuing
        /\ request[p].ready = {}
        /\ \A e \in Deliveries \ {d} : delivery'[e] = delivery[e]
    BY <1>7 DEF ResetFailed, TypeOK
  <2>2. request'[p] \in Enqueuing /\ request'[p].ready = {d}
    BY <1>7, <2>1 DEF ResetFailed, TypeOK, Enqueuing
  <2>3. InHand(d)'
    BY <2>2 DEF InHand
  <2>4. \A e \in Deliveries \ {d} : Unresolved(e)' => InHand(e)' \/ e \in lost'
    BY <1>4, <2>1
  <2>5. QED
    BY <2>3, <2>4 DEF NothingForgotten
<1>8. ASSUME NEW d \in Deliveries, Enqueue(p, d)
      PROVE  NothingForgotten'
  <2>1. request[p] \in Enqueuing /\ UNCHANGED delivery
    BY <1>8 DEF Enqueue
  <2>2. broker'[<<d, 0>>] > 0 /\ 0 \in Retries
    BY <1>8 DEF Enqueue, TypeOK, Retries
  <2>3. ASSUME NEW e \in Deliveries, e \in request[p].ready
        PROVE  InHand(e)'
    <3>1. CASE e = d
      BY <2>2, <3>1 DEF InHand
    <3>2. CASE e # d
      <4>1. request'[p] \in Enqueuing /\ e \in request'[p].ready
        BY <1>8, <2>1, <2>3, <3>2 DEF Enqueue, TypeOK, Enqueuing
      <4>2. QED
        BY <4>1 DEF InHand
    <3>3. QED
      BY <3>1, <3>2
  <2>4. QED
    BY <1>4, <2>1, <2>3 DEF NothingForgotten
<1>9. CASE AbandonRequest(p)
  BY <1>4, <1>9 DEF AbandonRequest, NothingForgotten
<1>10. CASE SaveCallback(p)
  <2>1. request[p] \in Callback /\ request[p] \notin Enqueuing
    BY <1>10, Disjoint DEF SaveCallback
  <2>2. ASSUME NEW d \in Deliveries, delivery'[d] # delivery[d]
        PROVE  ~Unresolved(d)'
    BY <1>10, <2>1, <2>2 DEF SaveCallback, TypeOK, Callback, DeliveryRow, Reports, Unresolved
  <2>3. QED
    BY <1>4, <2>1, <2>2 DEF NothingForgotten
<1>11. CASE CrashCallback(p)
  BY <1>4, <1>11, Disjoint DEF CrashCallback, NothingForgotten
<1>12. QED
  BY <1>5, <1>6, <1>7, <1>8, <1>9, <1>10, <1>11 DEF WebNext

LEMMA TakeRemembers ==
  ASSUME TypeOK, HandedRowsExist, NothingForgotten,
         NEW p \in Tasks, NEW d \in Deliveries, NEW r \in Retries, TakeTask(p, d, r)
  PROVE  NothingForgotten'
<1> USE ConstantsAssumption
<1>1. /\ UNCHANGED <<delivery, request, lost>>
      /\ \A q \in Tasks \ {p} : task'[q] = task[q]
      /\ task[p] = None
  BY DEF TakeTask, TypeOK
<1>2. Unresolved(d) => InHand(d)'
  <2> SUFFICES ASSUME Unresolved(d)
               PROVE  InHand(d)'
    OBVIOUS
  <2>1. ~AlreadyDispatched(delivery[d])
    BY DEF Unresolved, AlreadyDispatched
  <2>2. task' \in [Tasks -> Task \cup {None}]
    BY TaskType DEF TaskNext, TypeOK
  <2>3. task'[p] = [delivery |-> d, retries |-> r, row |-> delivery[d],
                    verdict |-> Verdict(Recipient[d]),
                    step |-> IF Verdict(Recipient[d]) = "eligible" THEN "queue" ELSE "suppress",
                    result |-> None]
    BY <2>1 DEF TakeTask, TypeOK
  <2>4. delivery[d] \in DeliveryRow
    BY DEF Unresolved, TypeOK
  <2>5. task'[p] \in Task
    BY <2>3, <2>4 DEF Task, Steps, Verdict
  <2>6. task'[p] # None /\ task'[p].delivery = d
    BY <2>3, <2>5
  <2>7. QED
    BY <2>6 DEF InHand
<1>3. ASSUME NEW e \in Deliveries \ {d}
      PROVE  InHand(e) => InHand(e)'
  <2>1. \A s \in Retries : broker'[<<e, s>>] = broker[<<e, s>>]
    BY <1>3 DEF TakeTask, TypeOK
  <2>2. QED
    BY <1>1, <2>1 DEF InHand
<1>4. QED
  BY <1>1, <1>2, <1>3 DEF NothingForgotten, Unresolved

LEMMA RemembersStep ==
  ASSUME TypeOK, HandedRowsExist, NothingForgotten, [Next]_vars
  PROVE  NothingForgotten'
<1> USE ConstantsAssumption
<1>1. ASSUME NEW p \in Tasks, CrashTask(p)
      PROVE  NothingForgotten'
  BY <1>1 DEF CrashTask, TypeOK, NothingForgotten, Unresolved, InHand
<1>2. CASE Provider \/ UNCHANGED vars
  <2>1. UNCHANGED <<delivery, broker, task, request, lost>>
    BY <1>2 DEF Provider, Progress, InboundStop, InboundStart, vars
  <2>2. QED
    BY <2>1 DEF NothingForgotten, Unresolved, InHand
<1>3. QED
  BY <1>1, <1>2, WebRemembers, RunRemembers, TakeRemembers DEF Next, TaskNext

\* A delivery that is PENDING or QUEUED is waited for by a task, in hand, or known to be
\* lost: no interleaving of tasks, callbacks and retries drops it silently.
THEOREM Remembering == Spec => []NothingForgotten
<1>1. Init => NothingForgotten
  BY DEF Init, NothingForgotten, Unresolved
<1>2. IInv /\ NothingForgotten /\ [Next]_vars => NothingForgotten'
  BY RemembersStep DEF IInv
<1>3. QED
  BY <1>1, <1>2, Invariance, PTL DEF Spec

-----------------------------------------------------------------------------
\* A process that takes a task of a recipient who has opted out suppresses it.
LEMMA TakeQuiet ==
  ASSUME TypeOK, NEW d \in Deliveries, Quiet(d),
         NEW p \in Tasks, NEW e \in Deliveries, NEW r \in Retries, TakeTask(p, e, r)
  PROVE  Quiet(d)'
<1>1. /\ UNCHANGED opted_out
      /\ \A q \in Tasks \ {p} : task'[q] = task[q]
  BY DEF TakeTask, TypeOK
<1>2. task'[p] # None /\ task'[p].delivery = d => task'[p].step = "suppress"
  <2>1. task'[p] = None \/ task'[p] =
          [delivery |-> e, retries |-> r, row |-> delivery[e], verdict |-> Verdict(Recipient[e]),
           step |-> IF Verdict(Recipient[e]) = "eligible" THEN "queue" ELSE "suppress",
           result |-> None]
    BY DEF TakeTask, TypeOK
  <2>2. Verdict(Recipient[d]) # "eligible"
    BY DEF Quiet, Verdict
  <2>3. QED
    BY <2>1, <2>2
<1>3. QED
  BY <1>1, <1>2 DEF Quiet

\* The task under way of a quiet delivery ends; the others are none of its business.
LEMMA RunQuiet ==
  ASSUME TypeOK, NEW d \in Deliveries, Quiet(d), NEW p \in Tasks, Run(p)
  PROVE  Quiet(d)' /\ (SentFor(d)' = SentFor(d))
<1> USE ConstantsAssumption
<1>1. task[p] # None
  BY DEF Run, Suppress, MarkQueued, Accept, Refuse, SaveSubmitted, SaveRetry, SaveFailed, At
<1>2. task[p] \in Task
  BY <1>1 DEF TypeOK
<1>3. UNCHANGED opted_out
  BY DEF Run, Suppress, MarkQueued, Accept, Refuse, SaveSubmitted, SaveRetry, SaveFailed
<1>4. \A q \in Tasks \ {p} : task'[q] = task[q]
  BY DEF Run, Suppress, MarkQueued, Accept, Refuse, Answered, SaveSubmitted, SaveRetry,
     SaveFailed, Done, TypeOK
<1>5. CASE task[p].delivery = d
  <2>1. Suppress(p)
    BY <1>1, <1>5 DEF Quiet, Run, Suppress, MarkQueued, Accept, Refuse, SaveSubmitted,
       SaveRetry, SaveFailed, At
  <2>2. task'[p] = None /\ UNCHANGED message
    BY <2>1 DEF Suppress, TypeOK
  <2>3. QED
    BY <1>3, <1>4, <2>2 DEF Quiet, SentFor
<1>6. CASE task[p].delivery # d
  <2>1. task'[p] # None => task'[p].delivery # d
    BY <1>2, <1>6 DEF Run, Suppress, MarkQueued, Accept, Refuse, Answered, SaveSubmitted,
       SaveRetry, SaveFailed, Done, TypeOK, Task
  <2>2. Quiet(d)'
    BY <1>3, <1>4, <2>1 DEF Quiet
  <2>3. CASE UNCHANGED message
    BY <2>2, <2>3 DEF SentFor
  <2>4. ASSUME NEW m \in Messages, NEW answered \in Answers, Accept(p, m, answered)
        PROVE  SentFor(d)' = SentFor(d)
    <3>1. message[m] = None /\ message'[m].delivery # d
      BY <1>6, <2>4 DEF Accept, TypeOK
    <3>2. \A n \in Messages \ {m} : message'[n] = message[n]
      BY <2>4 DEF Accept, TypeOK
    <3>3. QED
      BY <3>1, <3>2 DEF SentFor
  <2>5. QED
    BY <2>2, <2>3, <2>4 DEF Run, Suppress, MarkQueued, Refuse, SaveSubmitted, SaveRetry, SaveFailed
<1>7. QED
  BY <1>5, <1>6

LEMMA QuietStep ==
  ASSUME TypeOK, [Next]_vars, NEW d \in Deliveries, Quiet(d), Recipient[d] \in opted_out'
  PROVE  Quiet(d)' /\ (SentFor(d)' = SentFor(d))
<1> USE ConstantsAssumption
<1>1. CASE UNCHANGED <<task, message>>
  BY <1>1 DEF Quiet, SentFor
<1>2. ASSUME NEW p \in Tasks, CrashTask(p)
      PROVE  Quiet(d)' /\ (SentFor(d)' = SentFor(d))
  BY <1>2 DEF CrashTask, Quiet, SentFor, TypeOK
<1>3. ASSUME NEW m \in Messages, NEW report \in Reports, Progress(m, report)
      PROVE  Quiet(d)' /\ (SentFor(d)' = SentFor(d))
  <2>1. message[m] \in MessageRow
    BY <1>3 DEF Progress, TypeOK
  <2>2. message' = [message EXCEPT ![m] =
                      [message[m] EXCEPT !.reports = message[m].reports \cup {report}]]
    BY <1>3 DEF Progress
  <2>3. [message[m] EXCEPT !.reports = message[m].reports \cup {report}] \in MessageRow
    BY <2>1 DEF MessageRow
  <2>4. message'[m] # None /\ message'[m].delivery = message[m].delivery
    BY <2>1, <2>2, <2>3 DEF TypeOK, MessageRow
  <2>5. \A n \in Messages \ {m} : message'[n] = message[n]
    BY <2>2 DEF TypeOK
  <2>6. SentFor(d)' = SentFor(d)
    BY <1>3, <2>4, <2>5 DEF SentFor, Progress
  <2>7. QED
    BY <1>3, <2>6 DEF Progress, Quiet
<1>4. ASSUME NEW p \in Tasks, NEW e \in Deliveries, NEW r \in Retries, TakeTask(p, e, r)
      PROVE  Quiet(d)' /\ (SentFor(d)' = SentFor(d))
  BY <1>4, TakeQuiet DEF TakeTask, SentFor
<1>5. QED
  BY <1>1, <1>2, <1>3, <1>4, RunQuiet DEF Next, WebNext, TaskNext, Provider, vars, CreateCampaign,
     ListFailed, ResetFailed, Enqueue, AbandonRequest, LoadCallback, SaveCallback, CrashCallback,
     InboundStop, InboundStart

\* Once a STOP is recorded and the tasks that had looked before it are over, the provider is
\* sent nothing more for the recipient until a START.
THEOREM Silence == Spec => StopStaysQuiet
<1>1. IInv /\ [Next]_vars =>
        [\A d \in Deliveries : Quiet(d) /\ Recipient[d] \in opted_out' =>
           Quiet(d)' /\ SentFor(d)' = SentFor(d)]_vars
  BY QuietStep DEF IInv
<1>2. QED
  BY <1>1, Invariance, PTL DEF StopStaysQuiet, Spec

-----------------------------------------------------------------------------
\* The sizes of a set of recipients cut in two.
LEMMA DisjointSizes ==
  ASSUME NEW S \in SUBSET Users, NEW T \in SUBSET Users, S \cap T = {}
  PROVE  /\ IsFiniteSet(S) /\ IsFiniteSet(T)
         /\ Cardinality(S) \in Nat /\ Cardinality(T) \in Nat
         /\ Cardinality(S \cup T) = Cardinality(S) + Cardinality(T)
<1>1. IsFiniteSet(S) /\ IsFiniteSet(T)
  BY ConstantsAssumption, FS_Subset
<1>2. Cardinality(S) \in Nat /\ Cardinality(T) \in Nat
  BY <1>1, FS_CardinalityType
<1>3. Cardinality(S \cup T) = Cardinality(S) + Cardinality(T) - Cardinality(S \cap T)
  BY <1>1, FS_Union
<1>4. Cardinality(S \cap T) = 0
  BY FS_EmptySet
<1>5. QED
  BY <1>1, <1>2, <1>3, <1>4

\* The composer and the task agree on every recipient, for any audience and any history of
\* STOP and START: the preview and the verdict read the same three facts in different orders.
THEOREM PreviewAgrees == Spec => []PreviewTellsVerdict
<1>1. PreviewTellsVerdict
  <2> DEFINE missing == {u \in Users : Phone[u] = None}
             out == {u \in Users \ missing : u \in opted_out \/ u \notin OptedIn}
             skipped == {u \in Users : Verdict(u) = "SKIPPED"}
             stopped == {u \in Users : Verdict(u) = "OPTED_OUT"}
             eligible == {u \in Users : Verdict(u) = "eligible"}
  <2>1. /\ missing \cap out = {} /\ skipped \cap stopped = {}
        /\ missing \cup out = skipped \cup stopped
        /\ missing \subseteq skipped /\ stopped \subseteq out
        /\ Users \ (missing \cup out) = eligible
    BY DEF Verdict
  <2>2. /\ missing \in SUBSET Users /\ out \in SUBSET Users
        /\ skipped \in SUBSET Users /\ stopped \in SUBSET Users
    OBVIOUS
  <2> HIDE DEF missing, out, skipped, stopped, eligible
  <2>3. /\ IsFiniteSet(missing) /\ IsFiniteSet(out)
        /\ Cardinality(missing \cup out) = Cardinality(missing) + Cardinality(out)
    BY <2>1, <2>2, DisjointSizes
  <2>4. /\ IsFiniteSet(skipped) /\ IsFiniteSet(stopped)
        /\ Cardinality(skipped \cup stopped) = Cardinality(skipped) + Cardinality(stopped)
    BY <2>1, <2>2, DisjointSizes
  <2>5. Cardinality(missing) + Cardinality(out) = Cardinality(skipped) + Cardinality(stopped)
    BY <2>1, <2>3, <2>4
  <2>6. Cardinality(missing) <= Cardinality(skipped)
    BY <2>1, <2>4, FS_Subset
  <2>7. Cardinality(stopped) <= Cardinality(out)
    BY <2>1, <2>3, FS_Subset
  <2>8. Preview(Users) =
          [total_recipients |-> Cardinality(Users), missing_phone |-> Cardinality(missing),
           opted_out |-> Cardinality(out), whatsapp_eligible |-> Cardinality(Users \ (missing \cup out))]
    BY DEF Preview, missing, out
  <2>9. /\ Preview(Users).missing_phone = Cardinality(missing)
        /\ Preview(Users).opted_out = Cardinality(out)
        /\ Preview(Users).whatsapp_eligible = Cardinality(eligible)
    BY <2>1, <2>8
  <2>10. QED
    BY <2>5, <2>6, <2>7, <2>9 DEF PreviewTellsVerdict, skipped, stopped, eligible
<1>2. QED
  BY <1>1, PTL
=============================================================================
