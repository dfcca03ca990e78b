------------------------------ MODULE Delivery ------------------------------
(***************************************************************************)
(* WhatsApp deliveries: a campaign writes one row per recipient and, after *)
(* its commit, enqueues one Celery task per row                            *)
(* (communications/services/communication_service.py); the task calls the  *)
(* provider and retries what may pass (communications/tasks.py); the       *)
(* provider calls back with the progress of the messages it accepted and   *)
(* with the recipients' STOP and START (communications/webhooks.py); an    *)
(* operator re-enqueues what failed.                                       *)
(*                                                                         *)
(* None of this runs in a transaction of more than one statement, except   *)
(* the creation of the rows: tasks and callbacks load a row, work on the   *)
(* copy in memory, and save it, whatever the row has become.               *)
(***************************************************************************)
EXTENDS Naturals, FiniteSets

CONSTANTS
  Tasks,        \* the processes of the Celery worker
  Web,          \* the processes serving callbacks and operators
  Deliveries,   \* the rows of one campaign
  Users,        \* the recipients
  Recipient,    \* the recipient of every delivery
  Phone,        \* WhatsAppPreference.whatsapp_phone, None without preference or number
  OptedIn,      \* the users with opt_in_transactional
  Messages,     \* the ids the provider gives to what it accepts: bounds the sends
  Answers,      \* whether the provider's answer arrives: TRUE, FALSE (time-out), or both
  MaxRetries,   \* MAX_RETRIES
  MaxClicks,    \* bounds the operator's retries
  None

Statuses ==
  {"PENDING", "QUEUED", "SUBMITTED", "SENT", "DELIVERED", "READ", "FAILED", "SKIPPED",
   "OPTED_OUT"}

Phones == {Phone[u] : u \in Users} \ {None}

\* provider_message_id is message, attempt_count is attempts.
DeliveryRow == [status: Statuses, attempts: Nat, message: Messages \cup {None}]

\* What the provider reports of a message it accepted.
Reports == {"SENT", "DELIVERED", "READ", "FAILED"}
MessageRow == [delivery: Deliveries, reports: SUBSET Reports]

Retries == 0..MaxRetries

\* A task in a process: the arguments, the row in memory, and what it does next.  result is
\* the provider's answer: a message, or "transient" or "permanent".
Steps == {"suppress", "queue", "send", "save"}
Task ==
  [delivery: Deliveries, retries: Retries, row: DeliveryRow, step: Steps,
   verdict: {"eligible", "SKIPPED", "OPTED_OUT"},
   result: Messages \cup {None, "transient", "permanent"}]

\* A callback being applied, or deliveries being reset (rest) and enqueued (ready).
Callback == [delivery: Deliveries, row: DeliveryRow, report: Reports]
Enqueuing == [rest: SUBSET Deliveries, ready: SUBSET Deliveries]

ASSUME ConstantsAssumption ==
  /\ Recipient \in [Deliveries -> Users]
  /\ IsFiniteSet(Users)
  /\ OptedIn \subseteq Users
  /\ Answers \subseteq BOOLEAN
  /\ None \notin Messages \cup DeliveryRow \cup MessageRow \cup Task \cup Callback \cup Enqueuing
  /\ {"transient", "permanent"} \cap Messages = {}
  /\ MaxRetries \in Nat
  /\ MaxClicks \in Nat

VARIABLES
  delivery,    \* the table of deliveries, None before the campaign
  opted_out,   \* the users whose opted_out_at is set
  broker,      \* how many tasks wait, by delivery and number of Celery retries
  message,     \* the provider's messages, None while the id is unused
  task,        \* what each Celery process is doing, None when it waits
  request,     \* what each web process is doing, None when it waits
  clicks,      \* the operator's retries so far
  lost         \* history: the deliveries of which a task or an enqueue was lost

vars == <<delivery, opted_out, broker, message, task, request, clicks, lost>>

Init ==
  /\ delivery = [d \in Deliveries |-> None]
  /\ opted_out = {}
  /\ broker = [x \in Deliveries \X Retries |-> 0]
  /\ message = [m \in Messages |-> None]
  /\ task = [p \in Tasks |-> None]
  /\ request = [p \in Web |-> None]
  /\ clicks = 0
  /\ lost = {}

-----------------------------------------------------------------------------
(* Campaigns and retries: web processes.                                    *)

\* create_notification_campaign: a request it refuses, for its sender, its fields or its batch,
\* leaves nothing; one it accepts commits a row per recipient, and the tasks are enqueued one
\* by one after the commit.
CreateCampaign(p) ==
  /\ request[p] = None
  /\ \A d \in Deliveries : delivery[d] = None
  /\ delivery' = [d \in Deliveries |-> [status |-> "PENDING", attempts |-> 0, message |-> None]]
  /\ request' = [request EXCEPT ![p] = [rest |-> {}, ready |-> Deliveries]]
  /\ UNCHANGED <<opted_out, broker, message, task, clicks, lost>>

Failed == {d \in Deliveries : delivery[d] # None /\ delivery[d].status = "FAILED"}

\* retry_failed_deliveries lists the failed rows ...
ListFailed(p) ==
  /\ request[p] = None
  /\ clicks < MaxClicks
  /\ Failed # {}
  /\ clicks' = clicks + 1
  /\ request' = [request EXCEPT ![p] = [rest |-> Failed, ready |-> {}]]
  /\ UNCHANGED <<delivery, opted_out, broker, message, task, lost>>

\* ... and resets them one by one, saving only the status, without looking at them again.
ResetFailed(p, d) ==
  /\ request[p] \in Enqueuing
  /\ d \in request[p].rest
  /\ request[p].ready = {}
  /\ delivery' = [delivery EXCEPT ![d].status = "PENDING"]
  /\ request' = [request EXCEPT ![p].rest = @ \ {d}, ![p].ready = {d}]
  /\ UNCHANGED <<opted_out, broker, message, task, clicks, lost>>

\* The request is over when its last task is enqueued.
Enqueue(p, d) ==
  LET left == [request[p] EXCEPT !.ready = @ \ {d}] IN
  /\ request[p] \in Enqueuing
  /\ d \in request[p].ready
  /\ broker' = [broker EXCEPT ![<<d, 0>>] = @ + 1]
  /\ request' = [request EXCEPT ![p] =
                    IF left.rest = {} /\ left.ready = {} THEN None ELSE left]
  /\ UNCHANGED <<delivery, opted_out, message, task, clicks, lost>>

\* The process dies or the broker refuses a task: what was not enqueued never is.
AbandonRequest(p) ==
  /\ request[p] \in Enqueuing
  /\ lost' = lost \cup request[p].ready
  /\ request' = [request EXCEPT ![p] = None]
  /\ UNCHANGED <<delivery, opted_out, broker, message, task, clicks>>

-----------------------------------------------------------------------------
(* dispatch_whatsapp_delivery_task: Celery processes.                       *)

AlreadyDispatched(row) ==
  row.status \in {"SENT", "DELIVERED", "READ", "SUBMITTED"} /\ row.message # None

\* Fault: the opt-out is not looked at again.
ForgetfulVerdict(u) == IF Phone[u] = None \/ u \notin OptedIn THEN "SKIPPED" ELSE "eligible"

\* is_eligible_transactional, and how an ineligible recipient is recorded.
Verdict(u) ==
  IF Phone[u] = None THEN "SKIPPED"
  ELSE IF u \in opted_out THEN "OPTED_OUT"
  ELSE IF u \in OptedIn THEN "eligible" ELSE "SKIPPED"

\* preview_audience: what the composer is told of these recipients before the campaign.
Preview(recipients) ==
  LET missing == {u \in recipients : Phone[u] = None}
      out == {u \in recipients \ missing : u \in opted_out \/ u \notin OptedIn}
  IN  [total_recipients |-> Cardinality(recipients), missing_phone |-> Cardinality(missing),
       opted_out |-> Cardinality(out),
       whatsapp_eligible |-> Cardinality(recipients \ (missing \cup out))]

\* The broker forgets a task when a process takes it (early acknowledgement).  One query
\* loads the row and the recipient's preference; a delivery under way is left alone.
TakeTask(p, d, r) ==
  LET row == delivery[d]
      verdict == Verdict(Recipient[d])
  IN
  /\ task[p] = None
  /\ broker[<<d, r>>] > 0
  /\ broker' = [broker EXCEPT ![<<d, r>>] = @ - 1]
  /\ task' = [task EXCEPT ![p] =
                IF AlreadyDispatched(row) THEN None
                ELSE [delivery |-> d, retries |-> r, row |-> row, verdict |-> verdict,
                      step |-> IF verdict = "eligible" THEN "queue" ELSE "suppress",
                      result |-> None]]
  /\ UNCHANGED <<delivery, opted_out, message, request, clicks, lost>>

At(p, step) == task[p] # None /\ task[p].step = step

\* No number, no consent or opted out: only the status is saved.
Suppress(p) ==
  /\ At(p, "suppress")
  /\ delivery' = [delivery EXCEPT ![task[p].delivery].status = task[p].verdict]
  /\ task' = [task EXCEPT ![p] = None]
  /\ UNCHANGED <<opted_out, broker, message, request, clicks, lost>>

\* The attempt is counted from the row in memory; the status and the count are saved.
MarkQueued(p) ==
  LET t == task[p]
      attempts == t.row.attempts + 1
  IN
  /\ At(p, "queue")
  /\ delivery' = [delivery EXCEPT ![t.delivery].status = "QUEUED",
                                  ![t.delivery].attempts = attempts]
  /\ task' = [task EXCEPT ![p].step = "send",
                          ![p].row = [@ EXCEPT !.status = "QUEUED", !.attempts = attempts]]
  /\ UNCHANGED <<opted_out, broker, message, request, clicks, lost>>

Answered(p, result) == task' = [task EXCEPT ![p].step = "save", ![p].result = result]

\* The provider accepts the message; a time-out of the answer counts as a transient
\* failure.  The idempotency key is not part of the payload.
Accept(p, m, answered) ==
  /\ At(p, "send")
  /\ message[m] = None
  /\ message' = [message EXCEPT ![m] = [delivery |-> task[p].delivery, reports |-> {}]]
  /\ Answered(p, IF answered THEN m ELSE "transient")
  /\ UNCHANGED <<delivery, opted_out, broker, request, clicks, lost>>

Refuse(p, result) ==
  /\ At(p, "send")
  /\ Answered(p, result)
  /\ UNCHANGED <<delivery, opted_out, broker, message, request, clicks, lost>>

Done(p, row) ==
  /\ delivery' = [delivery EXCEPT ![task[p].delivery] = row]
  /\ task' = [task EXCEPT ![p] = None]

SaveSubmitted(p) ==
  /\ At(p, "save")
  /\ task[p].result \in Messages
  /\ Done(p, [task[p].row EXCEPT !.status = "SUBMITTED", !.message = task[p].result])
  /\ UNCHANGED <<opted_out, broker, message, request, clicks, lost>>

MayRetry(p) == task[p].result = "transient" /\ task[p].row.attempts <= MaxRetries

\* Fault: the retry is forgotten after the save.
SaveNoRetry(p) ==
  /\ At(p, "save")
  /\ MayRetry(p)
  /\ Done(p, task[p].row)
  /\ UNCHANGED <<opted_out, broker, message, request, clicks, lost>>

\* The row is saved as it is, QUEUED, and the task goes back to the broker; Celery refuses
\* when the task has used up its own retries, and the exception ends it.
SaveRetry(p) ==
  LET t == task[p]
      again == t.retries < MaxRetries
  IN
  /\ At(p, "save")
  /\ MayRetry(p)
  /\ Done(p, t.row)
  /\ broker' = IF again THEN [broker EXCEPT ![<<t.delivery, t.retries + 1>>] = @ + 1] ELSE broker
  /\ lost' = IF again THEN lost ELSE lost \cup {t.delivery}
  /\ UNCHANGED <<opted_out, message, request, clicks>>

\* Fault: an exhausted delivery keeps its status.
SaveExhausted(p) ==
  /\ At(p, "save")
  /\ task[p].result \in {"transient", "permanent"}
  /\ ~MayRetry(p)
  /\ Done(p, task[p].row)
  /\ UNCHANGED <<opted_out, broker, message, request, clicks, lost>>

SaveFailed(p) ==
  /\ At(p, "save")
  /\ task[p].result \in {"transient", "permanent"}
  /\ ~MayRetry(p)
  /\ Done(p, [task[p].row EXCEPT !.status = "FAILED"])
  /\ UNCHANGED <<opted_out, broker, message, request, clicks, lost>>

\* A Celery process dies: its task was acknowledged and is gone.
CrashTask(p) ==
  /\ task[p] # None
  /\ lost' = lost \cup {task[p].delivery}
  /\ task' = [task EXCEPT ![p] = None]
  /\ UNCHANGED <<delivery, opted_out, broker, message, request, clicks>>

-----------------------------------------------------------------------------
(* The provider and its callbacks.                                          *)

\* A message is sent, delivered and read, or fails before it is delivered.
Progress(m, report) ==
  /\ message[m] # None
  /\ report \notin message[m].reports
  /\ "FAILED" \notin message[m].reports
  /\ report = "DELIVERED" => "SENT" \in message[m].reports
  /\ report = "READ" => "DELIVERED" \in message[m].reports
  /\ report = "FAILED" => "DELIVERED" \notin message[m].reports
  /\ message' = [message EXCEPT ![m].reports = @ \cup {report}]
  /\ UNCHANGED <<delivery, opted_out, broker, task, request, clicks, lost>>

Rank ==
  [PENDING |-> 0, QUEUED |-> 1, SUBMITTED |-> 2, SENT |-> 3, DELIVERED |-> 4, READ |-> 5,
   FAILED |-> 6, SKIPPED |-> 6, OPTED_OUT |-> 6]

Applies(status, report) ==
  /\ Rank[report] >= Rank[status] \/ report = "FAILED"
  /\ ~(report = "FAILED" /\ status = "READ")

\* _apply_status_update loads the delivery by the message's id.  Callbacks come in any
\* order and any number of times; one that finds no delivery or does not apply to the row
\* as loaded is dropped, which is no step.
LoadCallback(p, m, report) ==
  /\ request[p] = None
  /\ message[m] # None
  /\ report \in message[m].reports
  /\ \E d \in Deliveries :
       /\ delivery[d] # None
       /\ delivery[d].message = m
       /\ Applies(delivery[d].status, report)
       /\ request' = [request EXCEPT ![p] =
                        [delivery |-> d, row |-> delivery[d], report |-> report]]
  /\ UNCHANGED <<delivery, opted_out, broker, message, task, clicks, lost>>

\* Fault: only the status is saved.
SaveCallbackStatus(p) ==
  /\ request[p] \in Callback
  /\ delivery' = [delivery EXCEPT ![request[p].delivery].status = request[p].report]
  /\ request' = [request EXCEPT ![p] = None]
  /\ UNCHANGED <<opted_out, broker, message, task, clicks, lost>>

\* delivery.save(): every column, from the row in memory.
SaveCallback(p) ==
  /\ request[p] \in Callback
  /\ delivery' = [delivery EXCEPT ![request[p].delivery] =
                    [request[p].row EXCEPT !.status = request[p].report]]
  /\ request' = [request EXCEPT ![p] = None]
  /\ UNCHANGED <<opted_out, broker, message, task, clicks, lost>>

\* A web process dies with a callback in hand; the provider calls again.
CrashCallback(p) ==
  /\ request[p] \in Callback
  /\ request' = [request EXCEPT ![p] = None]
  /\ UNCHANGED <<delivery, opted_out, broker, message, task, clicks, lost>>

\* _handle_inbound_message: the first preference with that number.
FirstUser(phone) == CHOOSE u \in Users : Phone[u] = phone

InboundStop(phone) ==
  /\ opted_out' = opted_out \cup {FirstUser(phone)}
  /\ UNCHANGED <<delivery, broker, message, task, request, clicks, lost>>

InboundStart(phone) ==
  /\ opted_out' = opted_out \ {FirstUser(phone)}
  /\ UNCHANGED <<delivery, broker, message, task, request, clicks, lost>>

-----------------------------------------------------------------------------
WebNext(p) ==
  \/ CreateCampaign(p)
  \/ ListFailed(p)
  \/ \E d \in Deliveries : ResetFailed(p, d) \/ Enqueue(p, d)
  \/ AbandonRequest(p)
  \/ \E m \in Messages, report \in Reports : LoadCallback(p, m, report)
  \/ SaveCallback(p)
  \/ CrashCallback(p)

\* What a Celery process does with a task it has taken.
Run(p) ==
  \/ Suppress(p)
  \/ MarkQueued(p)
  \/ \E m \in Messages, answered \in Answers : Accept(p, m, answered)
  \/ \E result \in {"transient", "permanent"} : Refuse(p, result)
  \/ SaveSubmitted(p)
  \/ SaveRetry(p)
  \/ SaveFailed(p)

TaskNext(p) ==
  \/ \E d \in Deliveries, r \in Retries : TakeTask(p, d, r)
  \/ Run(p)
  \/ CrashTask(p)

Provider ==
  \/ \E m \in Messages, report \in Reports : Progress(m, report)
  \/ \E phone \in Phones : InboundStop(phone) \/ InboundStart(phone)

Next == (\E p \in Web : WebNext(p)) \/ (\E p \in Tasks : TaskNext(p)) \/ Provider

Spec == Init /\ [][Next]_vars

(***************************************************************************)
(* Every process executes its next statement, the provider answers or the  *)
(* call times out, and the broker hands every waiting task to some process *)
(* in the end.  Nothing makes the provider call back, an operator retry or *)
(* a recipient write.                                                      *)
(***************************************************************************)
Fairness ==
  /\ \A p \in Tasks : WF_vars(Run(p))
  /\ \A p \in Web, d \in Deliveries : WF_vars(ResetFailed(p, d)) /\ WF_vars(Enqueue(p, d))
  /\ \A p \in Web : WF_vars(SaveCallback(p))
  /\ \A d \in Deliveries, r \in Retries : SF_vars(\E p \in Tasks : TakeTask(p, d, r))

FairSpec == Spec /\ Fairness

-----------------------------------------------------------------------------
\* Types of the rows, of the broker and of what the processes hold.
TypeOK ==
  /\ delivery \in [Deliveries -> DeliveryRow \cup {None}]
  /\ opted_out \subseteq Users
  /\ broker \in [Deliveries \X Retries -> Nat]
  /\ message \in [Messages -> MessageRow \cup {None}]
  /\ task \in [Tasks -> Task \cup {None}]
  /\ request \in [Web -> Callback \cup Enqueuing \cup {None}]
  /\ clicks \in Nat
  /\ lost \subseteq Deliveries

\* A row of delivery d never claims more than the provider reported: SENT, DELIVERED and
\* READ are reports of the very message whose id the row carries, and SUBMITTED has an id.
Backed(d, row) ==
  /\ row.message # None =>
       message[row.message] # None /\ message[row.message].delivery = d
  /\ row.status \in {"SUBMITTED", "SENT", "DELIVERED", "READ"} => row.message # None
  /\ row.status \in {"SENT", "DELIVERED", "READ"} =>
       row.status \in message[row.message].reports

\* However stale the rows that tasks and callbacks save over each other, what the delivery
\* funnel shows of a row is true of one of its messages.
StatusIsBacked == \A d \in Deliveries : delivery[d] # None => Backed(d, delivery[d])

\* The rows in memory are backed too, and so are the reports being applied.
CopiesAreBacked ==
  /\ \A p \in Tasks : task[p] # None =>
       /\ Backed(task[p].delivery, task[p].row)
       /\ task[p].result \in Messages =>
            message[task[p].result] # None /\ message[task[p].result].delivery = task[p].delivery
  /\ \A p \in Web : request[p] \in Callback =>
       /\ Backed(request[p].delivery, request[p].row)
       /\ request[p].row.message # None
       /\ request[p].report \in message[request[p].row.message].reports

\* Tasks and requests work on deliveries that have a row, and a task suppresses only for a
\* reason.
HandedRowsExist ==
  /\ \A d \in Deliveries, r \in Retries : broker[<<d, r>>] > 0 => delivery[d] # None
  /\ \A p \in Tasks : task[p] # None =>
       /\ delivery[task[p].delivery] # None
       /\ task[p].step = "suppress" => task[p].verdict # "eligible"
  /\ \A p \in Web : request[p] \in Enqueuing =>
       \A d \in request[p].rest \cup request[p].ready : delivery[d] # None

\* The inductive invariant.
IInv == TypeOK /\ HandedRowsExist /\ StatusIsBacked /\ CopiesAreBacked

\* Somebody still has the delivery in hand.
InHand(d) ==
  \/ \E r \in Retries : broker[<<d, r>>] > 0
  \/ \E p \in Tasks : task[p] # None /\ task[p].delivery = d
  \/ \E p \in Web : request[p] \in Enqueuing /\ d \in request[p].ready

Unresolved(d) == delivery[d] # None /\ delivery[d].status \in {"PENDING", "QUEUED"}

\* There is no sweeper: a delivery that is PENDING or QUEUED has a task that will work on
\* it, unless a crash, a refusing broker or Celery's own limit took it.
NothingForgotten == \A d \in Deliveries : Unresolved(d) => InHand(d) \/ d \in lost

\* Every delivery is submitted, suppressed or failed in the end, or was lost.
DeliveriesResolve == \A d \in Deliveries : Unresolved(d) ~> (~Unresolved(d) \/ d \in lost)

\* The recipient has opted out, and no task is under way that had looked before.
Quiet(d) ==
  /\ Recipient[d] \in opted_out
  /\ \A p \in Tasks : task[p] # None /\ task[p].delivery = d => task[p].step = "suppress"

SentFor(d) == {m \in Messages : message[m] # None /\ message[m].delivery = d}

\* Once a STOP is recorded and the tasks under way have ended, no waiting task, no retry and
\* no row saved over a newer one makes the provider send, until the recipient's START.
StopStaysQuiet ==
  [][\A d \in Deliveries : Quiet(d) /\ Recipient[d] \in opted_out' =>
       Quiet(d)' /\ SentFor(d)' = SentFor(d)]_vars

\* The preview and the task decide on the same consent in two places of the code: after any
\* sequence of STOP and START, as many recipients are previewed as eligible as a task taken
\* now would send to, and everybody a task would suppress is previewed as without number or
\* as opted out, nobody twice.
PreviewTellsVerdict ==
  LET told == Preview(Users)
      decided(verdict) == Cardinality({u \in Users : Verdict(u) = verdict})
  IN  /\ told.whatsapp_eligible = decided("eligible")
      /\ told.missing_phone + told.opted_out = decided("SKIPPED") + decided("OPTED_OUT")
      /\ told.missing_phone <= decided("SKIPPED")
      /\ decided("OPTED_OUT") <= told.opted_out

=============================================================================
