----------------------------- MODULE Admissions -----------------------------
(***************************************************************************)
(* Leads, their conversion into students, and the fees of the students     *)
(* (crm_leads/services/lead_service.py, finance/services/                  *)
(* finance_service.py and the two apps' view sets).                        *)
(*                                                                         *)
(* A conversion locks the lead, a payment the installment; both write all  *)
(* their rows in one transaction and send a mail before it commits.  The   *)
(* generic view sets load a row without a lock, save it whole - a row that *)
(* has vanished is inserted again - and delete rows for good, with all     *)
(* that refers to them; any of them may be posted as well.  Seats are the  *)
(* subject of Enrolment.  Amounts are in the smallest unit of the          *)
(* currency.                                                               *)
(***************************************************************************)
EXTENDS Integers, FiniteSets, Functions

CONSTANTS
  Workers,
  Leads,
  Students,
  Payments,
  Fees,             \* the fees a counsellor may agree on
  EditedAmounts,    \* the amounts an edit or a POST of an installment may name
  MaxInstallments,
  Scenarios,        \* where the system may start, and the operations asked for
  None

\* Primary keys of installments: those drawn for a student, by the conversion in the order of
\* installment_number, and by any POST.  No rule reads the number once the row is there.
Slots == Students \X (1..MaxInstallments)
Stages == {"open", "lost", "admitted"}  \* the stages before the last two are alike
Statuses == {"PENDING", "PAID", "OVERDUE"}
InstallmentRow == [student: Students, amount: Int, status: Statuses]
PaymentRow == [student: Students, installment: Slots \cup {None}, receipt: BOOLEAN]
StudentRow == [lead: Leads, fee: Nat, installments: 0..MaxInstallments]

VARIABLES
  workload,     \* the operations asked for, and the columns that edits of installments name
  lead,         \* the table of leads: their stage, None where there is no row
  student,      \* the students conversions have created, with the terms of their admission
  admission,    \* the students whose admission is on file
  structure,    \* num_installments of the course's fee structure, None when there is none
  installment,  \* the table of installments
  payment,      \* the table of payments, each with or without its receipt
  pc, job,      \* where each worker is, and what it holds in memory
  missed,       \* history: the rows committed by others since a worker loaded its own
  reopened,     \* history: the leads with a student that an edit has put back to another stage
  paid,         \* history: the installments record_payment has marked
  overwritten,  \* history: those of them whose status an edit has written over
  amended       \* history: the students whose schedule an edit or a POST has changed

tables == <<lead, student, admission, structure, installment, payment>>
history == <<missed, reopened, paid, overwritten, amended>>
vars == <<workload, lead, student, admission, structure, installment, payment, pc, job,
          missed, reopened, paid, overwritten, amended>>

NoJob == [op |-> None]

ASSUME ScenarioAssumption ==
  /\ Fees \subseteq Nat /\ EditedAmounts \subseteq Int
  /\ MaxInstallments \in Nat /\ MaxInstallments >= 3
  /\ Students \cap Payments = {}
  /\ \A sc \in Scenarios :
       /\ sc.lead \in [Leads -> Stages \cup {None}]
       /\ sc.structure \in 0..MaxInstallments \cup {None}

ASSUME NoneAssumption ==
  /\ None \notin Workers \cup Leads \cup Students \cup Payments \cup Slots \cup Stages
  /\ None \notin 0..MaxInstallments
  /\ None \notin StudentRow \cup InstallmentRow \cup PaymentRow

\* The leads and the students of an institute can be counted.
ASSUME FiniteAssumption == IsFiniteSet(Leads) /\ IsFiniteSet(Students)

\* Fault: record_payment reads the installment without locking it.
LockedLeads(r) == \E w \in Workers : pc[w] \in {"working", "mailed"} /\ r = job[w].lead

\* The rows a transaction under way holds locked.
Locked(r) ==
  \E w \in Workers : pc[w] \in {"working", "mailed"} /\ r \in {job[w].lead, job[w].installment}

\* A new primary key is one no transaction has drawn.
Fresh(k) == \A w \in Workers : pc[w] # "idle" => job[w].key # k

FreshInstallment(i) ==
  /\ installment[i] = None /\ i \notin paid
  /\ \A w \in Workers : pc[w] # "idle" => job[w].installment # i

FreshLead(l) ==
  /\ \A s \in Students : student[s] # None => student[s].lead # l
  /\ \A w \in Workers : pc[w] # "idle" => job[w].lead # l

-----------------------------------------------------------------------------
(* The schedule of fees.                                                    *)

\* Fault: the amounts are cut off.
CutOff(fee, n) == fee \div n

\* agreed_fee / num_inst, as the numeric column stores it: rounded, a half away from zero.
Rounded(fee, n) == IF 2 * (fee % n) >= n THEN fee \div n + 1 ELSE fee \div n

\* fee_structure.num_installments or 3; without a fee structure there is no schedule.
Number(s) == IF s = None THEN 0 ELSE IF s = 0 THEN 3 ELSE s

-----------------------------------------------------------------------------
Init ==
  /\ \E sc \in Scenarios :
       /\ workload = sc.asked
       /\ lead = sc.lead
       /\ structure = sc.structure
  /\ student = [s \in Students |-> None]
  /\ admission = {}
  /\ installment = [i \in Slots |-> None]
  /\ payment = [p \in Payments |-> None]
  /\ pc = [w \in Workers |-> "idle"]
  /\ job = [w \in Workers |-> NoJob]
  /\ missed = [w \in Workers |-> {}]
  /\ reopened = {} /\ paid = {} /\ overwritten = {} /\ amended = {}

-----------------------------------------------------------------------------
(* Requests of one step, and the rows they commit.                          *)

\* Who is under way missed these rows.
Missed(w, rows) ==
  missed' = [v \in Workers |-> IF v # w /\ pc[v] # "idle" THEN missed[v] \cup rows ELSE {}]

Request(op, rows) ==
  /\ op \in workload
  /\ Missed(None, rows)
  /\ UNCHANGED <<workload, pc, job, reopened, paid, overwritten>>

\* bulk_import_leads, create_public_enquiry and POST: the leads of one request, or none.  A
\* POST may name any stage.
CreateLeads(new) ==
  /\ Request("create_lead", DOMAIN new)
  /\ \A l \in DOMAIN new : lead[l] = None /\ FreshLead(l)
  /\ lead' = [l \in Leads |-> IF l \in DOMAIN new THEN new[l] ELSE lead[l]]
  /\ UNCHANGED <<student, admission, structure, installment, payment, amended>>

\* The admissions of a lead go with it.
DeleteLead(l) ==
  /\ lead[l] # None /\ ~Locked(l)
  /\ Request("delete_lead", {l})
  /\ lead' = [lead EXCEPT ![l] = None]
  /\ admission' = {s \in admission : student[s].lead # l}
  /\ UNCHANGED <<student, structure, installment, payment, amended>>

\* A payment outlives the installment it was made for.
Forget(slots) ==
  payment' = [p \in Payments |->
                IF payment[p] # None /\ payment[p].installment \in slots
                THEN [payment[p] EXCEPT !.installment = None]
                ELSE payment[p]]

DeleteInstallment(i) ==
  /\ installment[i] # None /\ ~Locked(i)
  /\ Request("delete_installment", {i})
  /\ installment' = [installment EXCEPT ![i] = None]
  /\ Forget({i})
  /\ UNCHANGED <<lead, student, admission, structure, amended>>

\* POST: an installment for any student, of any amount, beside those of the conversion.
PostInstallment(i) ==
  \E amount \in EditedAmounts, status \in Statuses :
    /\ student[i[1]] # None /\ structure # None
    /\ FreshInstallment(i)
    /\ Request("post_installment", {i})
    /\ installment' = [installment EXCEPT ![i] =
                         [student |-> i[1], amount |-> amount, status |-> status]]
    /\ amended' = amended \cup {i[1]}
    /\ UNCHANGED <<lead, student, admission, structure, payment>>

\* The installments of every student go with the fee structure.
DeleteStructure ==
  /\ structure # None
  /\ \A i \in Slots : ~Locked(i)
  /\ Request("delete_structure", {i \in Slots : installment[i] # None})
  /\ structure' = None
  /\ installment' = [i \in Slots |-> None]
  /\ Forget(Slots)
  /\ UNCHANGED <<lead, student, admission, amended>>

EditStructure(n) ==
  /\ structure # None
  /\ Request("edit_structure", {})
  /\ structure' = n
  /\ UNCHANGED <<lead, student, admission, installment, payment, amended>>

\* POST, PUT and DELETE of a payment leave the installment and its status alone; the receipt
\* goes with the payment.
WritePayment(p, row) ==
  /\ Request("write_payment", {})
  /\ payment' = [payment EXCEPT ![p] = row]
  /\ UNCHANGED <<lead, student, admission, structure, installment, amended>>

PostPayment(p) ==
  \E s \in Students, i \in Slots :
    /\ payment[p] = None /\ Fresh(p)
    /\ student[s] # None /\ installment[i] # None
    /\ WritePayment(p, [student |-> s, installment |-> i, receipt |-> FALSE])

MovePayment(p) ==
  \E i \in Slots :
    /\ payment[p] # None /\ installment[i] # None
    /\ WritePayment(p, [payment[p] EXCEPT !.installment = i])

DeletePayment(p) == payment[p] # None /\ WritePayment(p, None)

-----------------------------------------------------------------------------
(* What the dashboard tells: analytics_service.py.                          *)

\* The sum of the amounts of these installments.
Amounts(slots) == SumFunction([i \in slots |-> installment[i].amount])

\* Every stage, the empty ones included.
LeadFunnel == [stage \in Stages |-> Cardinality({l \in Leads : lead[l] = stage})]

\* The cards of operations and finance, but for the sums of the payments.  All admissions
\* are of this month.
Cards ==
  [open_leads |-> Cardinality({l \in Leads : lead[l] # None /\ lead[l] \notin {"admitted", "lost"}}),
   admissions_this_month |-> Cardinality(admission),
   pending_fees |->
     Amounts({i \in Slots : installment[i] # None
                            /\ installment[i].status \in {"PENDING", "OVERDUE"}})]

-----------------------------------------------------------------------------
(* Requests of several steps.                                               *)

Begin(w, at, j) ==
  /\ pc[w] = "idle"
  /\ j.op \in workload
  /\ pc' = [pc EXCEPT ![w] = at]
  /\ job' = [job EXCEPT ![w] = j]
  /\ UNCHANGED <<workload, tables, history>>

End(w, rows) ==
  /\ pc' = [pc EXCEPT ![w] = "idle"]
  /\ job' = [job EXCEPT ![w] = NoJob]
  /\ Missed(w, rows)
  /\ UNCHANGED workload

\* The process dies, the mail client raises, or a row referred to is gone at the commit.
RollBack(w) ==
  /\ pc[w] # "idle"
  /\ End(w, {})
  /\ UNCHANGED <<tables, reopened, paid, overwritten, amended>>

\* The mail is sent, or SES refuses it and the refusal is logged, with the rows still uncommitted.
SendMail(w) ==
  /\ pc[w] = "working"
  /\ pc' = [pc EXCEPT ![w] = "mailed"]
  /\ UNCHANGED <<workload, tables, job, history>>

\* Fault: the stage is looked at before the lock is had.
ConvertUnlocked(w) ==
  \E l \in Leads, f \in Fees, s \in Students :
    /\ lead[l] \in Stages \ {"admitted"}
    /\ student[s] = None /\ Fresh(s)
    /\ Begin(w, "working", [op |-> "convert", lead |-> l, installment |-> None, key |-> s,
                            fee |-> f, structure |-> structure])

\* convert_lead_to_student: the lead is locked and not yet admitted.
Convert(w) ==
  \E l \in Leads, f \in Fees, s \in Students :
    /\ ~Locked(l)
    /\ lead[l] \in Stages \ {"admitted"}
    /\ student[s] = None /\ Fresh(s)
    /\ Begin(w, "working", [op |-> "convert", lead |-> l, installment |-> None, key |-> s,
                            fee |-> f, structure |-> structure])

\* Fault: the stage of the lead is left to the counsellor.
CommitKeepsStage(w) ==
  LET j == job[w]
      n == Number(j.structure)
  IN
  /\ pc[w] = "mailed" /\ j.op = "convert"
  /\ j.structure # None => structure # None
  /\ student' = [student EXCEPT ![j.key] = [lead |-> j.lead, fee |-> j.fee, installments |-> n]]
  /\ admission' = admission \cup {j.key}
  /\ installment' = [i \in Slots |-> IF i \in {j.key} \X (1..n)
                                     THEN [student |-> j.key, amount |-> Rounded(j.fee, n),
                                           status |-> "PENDING"]
                                     ELSE installment[i]]
  /\ End(w, {j.lead})
  /\ UNCHANGED <<lead, structure, payment, reopened, paid, overwritten, amended>>

\* The user, the profile, the enrolment, the admission and the installments become visible;
\* the fee structure they refer to must still be there.
CommitConversion(w) ==
  LET j == job[w]
      n == Number(j.structure)
  IN
  /\ pc[w] = "mailed" /\ j.op = "convert"
  /\ j.structure # None => structure # None
  /\ student' = [student EXCEPT ![j.key] = [lead |-> j.lead, fee |-> j.fee, installments |-> n]]
  /\ admission' = admission \cup {j.key}
  /\ installment' = [i \in Slots |-> IF i \in {j.key} \X (1..n)
                                     THEN [student |-> j.key, amount |-> Rounded(j.fee, n),
                                           status |-> "PENDING"]
                                     ELSE installment[i]]
  /\ lead' = [lead EXCEPT ![j.lead] = "admitted"]
  /\ End(w, {j.lead})
  /\ UNCHANGED <<structure, payment, reopened, paid, overwritten, amended>>

\* record_payment: neither the installment's status nor whose it is is asked.
Pay(w) ==
  \E s \in Students, i \in Slots \cup {None}, p \in Payments :
    /\ student[s] # None
    /\ i # None => installment[i] # None /\ ~Locked(i)
    /\ payment[p] = None /\ Fresh(p)
    /\ Begin(w, "working", [op |-> "pay", lead |-> None, installment |-> i, key |-> p,
                            student |-> s])

\* Fault: paid for is what is not paid yet.
CommitPaymentOnce(w) ==
  LET j == job[w] IN
  /\ pc[w] = "mailed" /\ j.op = "pay"
  /\ payment' = [payment EXCEPT ![j.key] =
                   [student |-> j.student, installment |-> j.installment, receipt |-> TRUE]]
  /\ installment' = [i \in Slots |->
                       IF i # j.installment THEN installment[i]
                       ELSE [installment[i] EXCEPT !.status =
                               IF @ = "OVERDUE" THEN "PENDING" ELSE "PAID"]]
  /\ paid' = paid \cup ({j.installment} \ {None})
  /\ overwritten' = overwritten \ {j.installment}
  /\ End(w, {j.installment})
  /\ UNCHANGED <<lead, student, admission, structure, reopened, amended>>

\* The payment, its receipt and the status of the installment.
CommitPayment(w) ==
  LET j == job[w] IN
  /\ pc[w] = "mailed" /\ j.op = "pay"
  /\ payment' = [payment EXCEPT ![j.key] =
                   [student |-> j.student, installment |-> j.installment, receipt |-> TRUE]]
  /\ installment' = [i \in Slots |->
                       IF i # j.installment THEN installment[i]
                       ELSE [installment[i] EXCEPT !.status = "PAID"]]
  /\ paid' = paid \cup ({j.installment} \ {None})
  /\ overwritten' = overwritten \ {j.installment}
  /\ End(w, {j.installment})
  /\ UNCHANGED <<lead, student, admission, structure, reopened, amended>>

\* An edit names a stage (a status), or leaves the one it has loaded.
LoadLead(w) ==
  \E l \in Leads, stage \in Stages :
    /\ lead[l] # None
    /\ Begin(w, "loaded", [op |-> "edit_lead", lead |-> l, installment |-> None, key |-> None, new |-> stage])

SaveLead(w) ==
  LET j == job[w] IN
  /\ pc[w] = "loaded" /\ j.op = "edit_lead"
  /\ ~Locked(j.lead)
  /\ lead' = [lead EXCEPT ![j.lead] = j.new]
  /\ reopened' = IF j.new # "admitted" /\ \E s \in Students :
                      student[s] # None /\ student[s].lead = j.lead
                 THEN reopened \cup {j.lead}
                 ELSE reopened
  /\ End(w, {j.lead})
  /\ UNCHANGED <<student, admission, structure, installment, payment, paid, overwritten, amended>>

\* What an installment asks, and of whom.
Claim(row) == <<row.student, row.amount>>

\* An edit may name another status, another amount and another student, or some of them.
LoadInstallment(w) ==
  \E i \in Slots :
    /\ installment[i] # None
    /\ \E s \in Students, amount \in EditedAmounts \cup {installment[i].amount}, status \in Statuses :
         LET new == [student |-> s, amount |-> amount, status |-> status] IN
         /\ student[s] # None
         /\ \A c \in DOMAIN new : new[c] # installment[i][c] => c \in workload
         /\ Begin(w, "loaded", [op |-> "edit_installment", lead |-> None, installment |-> i,
                                key |-> None, seen |-> installment[i], new |-> new])

\* The fee structure the row refers to must still be there.
SaveInstallment(w) ==
  LET j == job[w] IN
  /\ pc[w] = "loaded" /\ j.op = "edit_installment"
  /\ ~Locked(j.installment)
  /\ structure # None
  /\ installment' = [installment EXCEPT ![j.installment] = j.new]
  /\ overwritten' = IF j.new.status # j.seen.status \/ j.installment \in missed[w]
                    THEN overwritten \cup {j.installment}
                    ELSE overwritten
  /\ amended' = IF Claim(j.new) # Claim(j.seen)
                THEN amended \cup {j.seen.student, j.new.student}
                ELSE amended
  /\ End(w, {j.installment})
  /\ UNCHANGED <<lead, student, admission, structure, payment, reopened, paid>>

-----------------------------------------------------------------------------
Next ==
  \/ \E some \in SUBSET Leads : \E new \in [some -> Stages] : some # {} /\ CreateLeads(new)
  \/ \E l \in Leads : DeleteLead(l)
  \/ \E i \in Slots : DeleteInstallment(i) \/ PostInstallment(i)
  \/ DeleteStructure
  \/ \E n \in 0..MaxInstallments : EditStructure(n)
  \/ \E p \in Payments : PostPayment(p) \/ MovePayment(p) \/ DeletePayment(p)
  \/ \E w \in Workers :
       \/ Convert(w) \/ Pay(w) \/ SendMail(w) \/ RollBack(w)
       \/ CommitConversion(w) \/ CommitPayment(w)
       \/ LoadLead(w) \/ SaveLead(w) \/ LoadInstallment(w) \/ SaveInstallment(w)

Spec == Init /\ [][Next]_vars

-----------------------------------------------------------------------------
\* Types of the tables, and what the foreign keys guarantee.
TypeOK ==
  /\ lead \in [Leads -> Stages \cup {None}]
  /\ student \in [Students -> StudentRow \cup {None}]
  /\ admission \subseteq Students
  /\ \A s \in admission : student[s] # None /\ lead[student[s].lead] # None
  /\ structure \in 0..MaxInstallments \cup {None}
  /\ installment \in [Slots -> InstallmentRow \cup {None}]
  /\ \A i \in Slots : installment[i] # None =>
       structure # None /\ student[i[1]] # None /\ student[installment[i].student] # None
  /\ payment \in [Payments -> PaymentRow \cup {None}]
  /\ \A p \in Payments :
       payment[p] # None /\ payment[p].installment # None =>
         installment[payment[p].installment] # None
  /\ paid \cup overwritten \subseteq Slots
  /\ amended \subseteq Students

\* lead_service.py:36 "is already admitted": a lead becomes a second student only after an
\* edit of the lead has put its stage back.
OneStudentPerLead ==
  \A s, t \in Students :
    s # t /\ student[s] # None /\ student[t] # None /\ student[s].lead = student[t].lead
      => student[s].lead \in reopened

\* Rows of their types that refer to rows that are there, and one student for a lead.
AdmissionsIntegrity == TypeOK /\ OneStudentPerLead

\* finance/views.py:33: the view set lets amounts, students and rows be written as one pleases.
\* Until it does, a student has at most the installments of the conversion, and all of them
\* together ask for the agreed fee, but for half a unit of currency per installment, whatever
\* is paid, deleted or written back meanwhile.
ScheduleCoversFee ==
  \A s \in Students \ amended : student[s] # None =>
    LET n == student[s].installments
        due == {i \in Slots : installment[i] # None /\ installment[i].student = s}
    IN  /\ Cardinality(due) <= n
        /\ n > 0 /\ Cardinality(due) = n => 2 * (Amounts(due) - student[s].fee) \in -n..n

\* An installment that record_payment has marked stays PAID, until an edit names another
\* status or writes back a row it had loaded before.
PaymentHolds ==
  \A i \in paid \ overwritten : installment[i] # None => installment[i].status = "PAID"

\* The welcome and the receipt are mailed before the transaction commits.  What they tell of
\* can still be committed then: nobody admits or deletes the lead, or deletes the installment,
\* in between.  Only a dying process, the database, or a fee structure deleted meanwhile makes
\* a mail speak of nothing.
MailedWorkStands ==
  \A w \in Workers : pc[w] = "mailed" =>
    LET j == job[w] IN
    /\ j.op = "convert" => lead[j.lead] \in Stages \ {"admitted"} /\ student[j.key] = None
    /\ j.op = "pay" => /\ student[j.student] # None
                       /\ j.installment # None => installment[j.installment] # None

\* The cards of the dashboard and its funnel agree: every admission shown is of a lead shown
\* as admitted, but for the leads an edit has put back, and what is shown as pending is not
\* what record_payment has marked, as long as nobody has made an amount negative.
DashboardTellsAdmissions ==
  LET shown == Cardinality({s \in admission : student[s].lead \in reopened})
      settled == {i \in paid \ overwritten : installment[i] # None}
  IN  /\ Cards.admissions_this_month - shown <= LeadFunnel["admitted"]
      /\ Cards.open_leads <= Cardinality({l \in Leads : lead[l] # None}) - LeadFunnel["admitted"]
      /\ (\A i \in Slots : installment[i] # None => installment[i].amount >= 0) =>
           Cards.pending_fees + Amounts(settled)
             <= Amounts({i \in Slots : installment[i] # None})
=============================================================================
