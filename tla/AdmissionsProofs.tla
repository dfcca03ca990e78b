-------------------------- MODULE AdmissionsProofs --------------------------
(***************************************************************************)
(* Proofs about Admissions, for any number of workers, leads, students,    *)
(* payments, fees and installments.                                        *)
(***************************************************************************)
EXTENDS Admissions, FiniteSetTheorems, TLAPS

Conversion ==
  [op: {"convert"}, lead: Leads, installment: {None}, key: Students, fee: Fees,
   structure: 0..MaxInstallments \cup {None}]
PaymentMade ==
  [op: {"pay"}, lead: {None}, installment: Slots \cup {None}, key: Payments, student: Students]
LeadEdit ==
  [op: {"edit_lead"}, lead: Leads, installment: {None}, key: {None}, new: Stages]
InstallmentEdit ==
  [op: {"edit_installment"}, lead: {None}, installment: Slots, key: {None},
   seen: InstallmentRow, new: InstallmentRow]

\* A worker under way holds a request of the kind its phase is for.
Under(w) ==
  \/ pc[w] \in {"working", "mailed"} /\ job[w] \in Conversion \cup PaymentMade
  \/ pc[w] = "loaded" /\ job[w] \in LeadEdit \cup InstallmentEdit

JobsTyped ==
  /\ pc \in [Workers -> {"idle", "loaded", "working", "mailed"}]
  /\ job = [w \in Workers |-> job[w]]
  /\ \A w \in Workers : pc[w] # "idle" => Under(w)
  /\ reopened \subseteq Leads

Converts(w) == pc[w] \in {"working", "mailed"} /\ job[w].op = "convert"
Pays(w) == pc[w] \in {"working", "mailed"} /\ job[w].op = "pay"
EditsInstallment(w) == pc[w] = "loaded" /\ job[w].op = "edit_installment"

\* A new key is drawn once, and a lead or an installment is locked by one worker.
KeysApart ==
  \A v, w \in Workers : v # w /\ pc[v] # "idle" /\ pc[w] # "idle" /\ job[v].key # None =>
    job[v].key # job[w].key
LeadsLocked ==
  \A v, w \in Workers : v # w /\ Converts(v) /\ Converts(w) => job[v].lead # job[w].lead

\* The rows a request refers to are there, and what it is about to create is not.
JobsBacked ==
  \A w \in Workers :
    /\ Converts(w) => lead[job[w].lead] \in Stages \ {"admitted"} /\ student[job[w].key] = None
    /\ Pays(w) => /\ student[job[w].student] # None
                  /\ job[w].installment # None => installment[job[w].installment] # None
    /\ EditsInstallment(w) => /\ student[job[w].installment[1]] # None
                              /\ student[job[w].new.student] # None

\* A lead with a student is admitted or deleted, unless an edit has put it back.
LeadsSettled ==
  \A s \in Students : student[s] # None =>
    student[s].lead \in reopened \/ lead[student[s].lead] \in {"admitted", None}

\* A row is as the conversion has written it, or an edit or a POST has changed the schedule of
\* the student it was written for and of the one it is asked of.
WrittenBy(students, changed, i, row) ==
  LET s == students[i[1]]
  IN  \/ /\ row.student = i[1]
         /\ i[2] \in 1..s.installments
         /\ row.amount = Rounded(s.fee, s.installments)
      \/ {i[1], row.student} \subseteq changed

SharesAreWritten ==
  \A i \in Slots : installment[i] # None => WrittenBy(student, amended, i, installment[i])

\* An edit that has missed nothing holds the row on record.
EditsCurrent ==
  \A w \in Workers : EditsInstallment(w) =>
    /\ job[w].installment \notin missed[w] => installment[job[w].installment] = job[w].seen
    /\ WrittenBy(student, amended, job[w].installment, job[w].seen)

\* record_payment marks installments of students on record.
PaidOnRecord == \A i \in paid : student[i[1]] # None

IInv ==
  /\ TypeOK /\ JobsTyped /\ KeysApart /\ LeadsLocked /\ JobsBacked
  /\ LeadsSettled /\ OneStudentPerLead
  /\ EditsCurrent /\ PaidOnRecord /\ SharesAreWritten /\ PaymentHolds

-----------------------------------------------------------------------------
(* Who is under way.                                                        *)

Jobs == JobsTyped /\ KeysApart /\ LeadsLocked

\* What a worker holds in each phase.
LEMMA JobKinds ==
  ASSUME JobsTyped, NEW w \in Workers
  PROVE  /\ Converts(w) => job[w] \in Conversion
         /\ Pays(w) => job[w] \in PaymentMade
         /\ EditsInstallment(w) => job[w] \in InstallmentEdit
         /\ pc[w] = "loaded" /\ job[w].op = "edit_lead" => job[w] \in LeadEdit
         /\ pc[w] \in {"working", "mailed"} => Converts(w) \/ Pays(w)
         /\ pc[w] = "loaded" => EditsInstallment(w) \/ job[w].op = "edit_lead"
BY DEF JobsTyped, Under, Converts, Pays, EditsInstallment, Conversion, PaymentMade, LeadEdit,
       InstallmentEdit

\* A request of one step leaves those under way alone.
LEMMA RequestJobs ==
  ASSUME NEW op, NEW rows, Request(op, rows)
  PROVE  /\ pc' = pc /\ job' = job /\ reopened' = reopened /\ paid' = paid
         /\ overwritten' = overwritten
         /\ \A w \in Workers : /\ Converts(w)' <=> Converts(w)
                               /\ Pays(w)' <=> Pays(w)
                               /\ EditsInstallment(w)' <=> EditsInstallment(w)
         /\ Jobs => Jobs'
<1>1. /\ pc' = pc /\ job' = job /\ reopened' = reopened /\ paid' = paid
      /\ overwritten' = overwritten
  BY DEF Request
<1>2. Jobs => Jobs'
  BY <1>1 DEF Jobs, JobsTyped, Under, KeysApart, LeadsLocked, Converts
<1>3. QED
  BY <1>1, <1>2 DEF Converts, Pays, EditsInstallment

\* The end of a request leaves the others alone.
LEMMA EndJobs ==
  ASSUME Jobs, NEW w \in Workers, NEW rows, End(w, rows), reopened' \subseteq Leads
  PROVE  /\ \A v \in Workers \ {w} : pc'[v] = pc[v] /\ job'[v] = job[v]
         /\ \A v \in Workers : Converts(v)' => v # w /\ Converts(v)
         /\ \A v \in Workers : Pays(v)' => v # w /\ Pays(v)
         /\ \A v \in Workers : EditsInstallment(v)' => v # w /\ EditsInstallment(v)
         /\ Jobs'
<1>1. /\ pc'[w] = "idle"
      /\ \A v \in Workers \ {w} : pc'[v] = pc[v] /\ job'[v] = job[v]
  BY DEF End, Jobs, JobsTyped
<1>2. /\ \A v \in Workers : Converts(v)' => v # w /\ Converts(v)
      /\ \A v \in Workers : Pays(v)' => v # w /\ Pays(v)
      /\ \A v \in Workers : EditsInstallment(v)' => v # w /\ EditsInstallment(v)
  BY <1>1 DEF Converts, Pays, EditsInstallment
<1>3. JobsTyped'
  <2>1. job' = [v \in Workers |-> job'[v]]
    BY DEF End, Jobs, JobsTyped
  <2>2. pc' \in [Workers -> {"idle", "loaded", "working", "mailed"}]
    BY DEF End, Jobs, JobsTyped
  <2>3. \A v \in Workers : pc'[v] # "idle" => Under(v)'
    BY <1>1 DEF Jobs, JobsTyped, Under
  <2>4. QED
    BY <2>1, <2>2, <2>3 DEF JobsTyped
<1>4. KeysApart' /\ LeadsLocked'
  BY <1>1, <1>2 DEF Jobs, KeysApart, LeadsLocked
<1>5. QED
  BY <1>1, <1>2, <1>3, <1>4 DEF Jobs

\* A request begins with a new key, and a conversion with a lead nobody has locked.
LEMMA BeginJobs ==
  ASSUME Jobs, NoneAssumption, NEW w \in Workers, NEW at, NEW j, Begin(w, at, j),
         \/ at = "working" /\ j \in Conversion \cup PaymentMade
         \/ at = "loaded" /\ j \in LeadEdit \cup InstallmentEdit,
         j.key # None => Fresh(j.key),
         j \in Conversion => ~Locked(j.lead)
  PROVE  /\ pc'[w] = at /\ job'[w] = j
         /\ \A v \in Workers \ {w} : pc'[v] = pc[v] /\ job'[v] = job[v]
         /\ Jobs'
<1>1. /\ pc'[w] = at /\ job'[w] = j
      /\ \A v \in Workers \ {w} : pc'[v] = pc[v] /\ job'[v] = job[v]
  BY DEF Begin, Jobs, JobsTyped
<1>2. JobsTyped'
  <2>1. job' = [v \in Workers |-> job'[v]]
    BY DEF Begin, Jobs, JobsTyped
  <2>2. pc' \in [Workers -> {"idle", "loaded", "working", "mailed"}]
    BY DEF Begin, Jobs, JobsTyped
  <2>3. \A v \in Workers : pc'[v] # "idle" => Under(v)'
    BY <1>1 DEF Jobs, JobsTyped, Under
  <2>4. reopened' \subseteq Leads
    BY DEF Begin, history, Jobs, JobsTyped
  <2>5. QED
    BY <2>1, <2>2, <2>3, <2>4 DEF JobsTyped
<1>3. KeysApart'
  <2>1. \A v \in Workers \ {w} : pc[v] # "idle" /\ (j.key # None \/ job[v].key # None)
                                   => job[v].key # j.key
    BY DEF Fresh
  <2>2. QED
    BY <1>1, <2>1 DEF Jobs, KeysApart
<1>4. LeadsLocked'
  <2>1. ASSUME NEW v \in Workers \ {w}, Converts(v), Converts(w)'
        PROVE  job[v].lead # j.lead
    <3>1. j \in Conversion
      BY <1>1, <2>1 DEF Converts, Conversion, PaymentMade
    <3>2. QED
      BY <2>1, <3>1 DEF Locked, Converts
  <2>2. QED
    BY <1>1, <2>1 DEF Jobs, LeadsLocked, Converts
<1>5. QED
  BY <1>1, <1>2, <1>3, <1>4 DEF Jobs

LEMMA SendMailJobs ==
  ASSUME Jobs, NEW w \in Workers, SendMail(w)
  PROVE  /\ job' = job
         /\ \A v \in Workers : (pc'[v] = "idle" <=> pc[v] = "idle")
         /\ \A v \in Workers : /\ Converts(v)' <=> Converts(v)
                               /\ Pays(v)' <=> Pays(v)
                               /\ EditsInstallment(v)' <=> EditsInstallment(v)
         /\ Jobs'
<1>1. /\ job' = job /\ reopened' = reopened
      /\ pc' = [pc EXCEPT ![w] = "mailed"] /\ pc[w] = "working"
      /\ pc \in [Workers -> {"idle", "loaded", "working", "mailed"}]
  BY DEF SendMail, Jobs, JobsTyped, history
<1>2. /\ \A v \in Workers : (pc'[v] = "idle" <=> pc[v] = "idle")
      /\ \A v \in Workers : /\ Converts(v)' <=> Converts(v)
                            /\ Pays(v)' <=> Pays(v)
                            /\ EditsInstallment(v)' <=> EditsInstallment(v)
  BY <1>1 DEF Converts, Pays, EditsInstallment
<1>3. \A v \in Workers : Under(v) => Under(v)'
  BY <1>1 DEF Under
<1>4. QED
  BY <1>1, <1>2, <1>3 DEF Jobs, JobsTyped, KeysApart, LeadsLocked

-----------------------------------------------------------------------------
(* What disturbs no conjunct.                                               *)

\* A row committed is missed by everybody else under way.
LEMMA MissedGrows ==
  ASSUME NEW w, NEW rows, Missed(w, rows), NEW v \in Workers, v # w, pc[v] # "idle"
  PROVE  missed'[v] = missed[v] \cup rows
BY DEF Missed

\* Students are never withdrawn and their terms never change.
StudentsStay == \A s \in Students : student[s] # None => student'[s] = student[s]

\* What is known of a row stays true.
LEMMA WrittenStays ==
  ASSUME StudentsStay, amended \subseteq amended', NEW i \in Slots, NEW row,
         student[i[1]] # None, WrittenBy(student, amended, i, row)
  PROVE  WrittenBy(student', amended', i, row)
<1>1. student'[i[1]] = student[i[1]]
  BY DEF StudentsStay, Slots
<1>2. QED
  BY <1>1 DEF WrittenBy

\* The edits under way stay current when whoever changes an installment makes them miss it.
LEMMA EditsStay ==
  ASSUME EditsCurrent, JobsBacked, JobsTyped, JobsTyped', StudentsStay,
         amended \subseteq amended', NEW rows,
         \A v \in Workers : EditsInstallment(v)' =>
           /\ EditsInstallment(v) /\ job'[v] = job[v]
           /\ missed[v] \cup rows \subseteq missed'[v],
         \A v \in Workers : EditsInstallment(v)' /\ job[v].installment \notin rows
                              => installment'[job[v].installment] = installment[job[v].installment]
  PROVE  EditsCurrent'
<1> SUFFICES ASSUME NEW v \in Workers, EditsInstallment(v)'
             PROVE  /\ job'[v].installment \notin missed'[v] =>
                         installment'[job'[v].installment] = job'[v].seen
                    /\ WrittenBy(student', amended', job'[v].installment, job'[v].seen)
  BY DEF EditsCurrent
<1>1. EditsInstallment(v) /\ job'[v] = job[v]
  OBVIOUS
<1>2. job[v].installment \in Slots /\ student[job[v].installment[1]] # None
  BY <1>1, JobKinds DEF JobsBacked, InstallmentEdit
<1>3. WrittenBy(student, amended, job[v].installment, job[v].seen)
  BY <1>1 DEF EditsCurrent
<1>4. WrittenBy(student', amended', job[v].installment, job[v].seen)
  BY <1>2, <1>3, WrittenStays
<1>5. QED
  BY <1>1, <1>4 DEF EditsCurrent

\* Nor does a row lose what is known of it that is left alone.
LEMMA SharesStay ==
  ASSUME IInv, StudentsStay, amended \subseteq amended', NEW i \in Slots, installment[i] # None
  PROVE  WrittenBy(student', amended', i, installment[i])
BY WrittenStays DEF IInv, TypeOK, SharesAreWritten

\* A request of one step on the leads alone, or on the payments alone, or on the structure.
LEMMA RequestStays ==
  ASSUME IInv, NoneAssumption, NEW op, NEW rows, Request(op, rows), UNCHANGED student
  PROVE  /\ Jobs' /\ StudentsStay
         /\ OneStudentPerLead' /\ PaidOnRecord'
         /\ \A v \in Workers : EditsInstallment(v)' =>
              /\ EditsInstallment(v) /\ job'[v] = job[v]
              /\ missed[v] \cup rows \subseteq missed'[v]
<1>1. Jobs' /\ StudentsStay
  BY RequestJobs DEF IInv, Jobs, StudentsStay
<1>2. OneStudentPerLead' /\ PaidOnRecord'
  BY RequestJobs DEF IInv, OneStudentPerLead, PaidOnRecord
<1>4. ASSUME NEW v \in Workers, EditsInstallment(v)'
      PROVE  /\ EditsInstallment(v) /\ job'[v] = job[v]
             /\ missed[v] \cup rows \subseteq missed'[v]
  <2>1. EditsInstallment(v) /\ job'[v] = job[v]
    BY <1>4, RequestJobs
  <2>2. Missed(None, rows) /\ v # None
    BY NoneAssumption DEF Request
  <2>3. missed'[v] = missed[v] \cup rows
    BY <2>1, <2>2, MissedGrows DEF EditsInstallment
  <2>4. QED
    BY <2>1, <2>3
<1>5. QED
  BY <1>1, <1>2, <1>4

-----------------------------------------------------------------------------
(* Requests of one step.                                                    *)

LEMMA CreateLeadsStep ==
  ASSUME IInv, NoneAssumption, NEW some \in SUBSET Leads, NEW new \in [some -> Stages],
         CreateLeads(new)
  PROVE  IInv'
<1>1. /\ Request("create_lead", DOMAIN new)
      /\ UNCHANGED <<student, admission, structure, installment, payment, amended>>
      /\ \A l \in DOMAIN new : lead[l] = None /\ FreshLead(l)
      /\ lead' = [l \in Leads |-> IF l \in DOMAIN new THEN new[l] ELSE lead[l]]
  BY DEF CreateLeads
<1>2. /\ Jobs' /\ StudentsStay
      /\ OneStudentPerLead' /\ PaidOnRecord'
      /\ \A v \in Workers : EditsInstallment(v)' =>
           /\ EditsInstallment(v) /\ job'[v] = job[v]
           /\ missed[v] \cup DOMAIN new \subseteq missed'[v]
  BY <1>1, RequestStays
<1>3. TypeOK'
  <2>1. lead' \in [Leads -> Stages \cup {None}]
    BY <1>1 DEF IInv, TypeOK
  <2>2. ASSUME NEW s \in admission PROVE lead'[student[s].lead] # None
    <3>1. student[s].lead \in Leads /\ lead[student[s].lead] # None
      BY DEF IInv, TypeOK, StudentRow
    <3>2. QED
      BY <1>1, <3>1
  <2>3. QED
    BY <1>1, <2>1, <2>2, RequestJobs DEF IInv, TypeOK
<1>4. JobsBacked'
  <2>1. ASSUME NEW w \in Workers, Converts(w) PROVE lead'[job[w].lead] = lead[job[w].lead]
    BY <2>1, <1>1, JobKinds, NoneAssumption DEF IInv, JobsBacked, Conversion
  <2>2. QED
    BY <1>1, <2>1, RequestJobs DEF IInv, JobsBacked
<1>5. LeadsSettled'
  <2>1. \A s \in Students : student[s] # None => student[s].lead \in Leads \ DOMAIN new
    BY <1>1 DEF IInv, TypeOK, StudentRow, FreshLead
  <2>2. QED
    BY <1>1, <2>1, RequestJobs DEF IInv, LeadsSettled
<1>6. EditsCurrent'
  BY <1>1, <1>2, EditsStay DEF IInv, Jobs
<1>7. SharesAreWritten' /\ PaymentHolds'
  BY <1>1, RequestJobs DEF IInv, SharesAreWritten, PaymentHolds
<1>8. QED
  BY <1>2, <1>3, <1>4, <1>5, <1>6, <1>7 DEF IInv, Jobs

LEMMA DeleteLeadStep ==
  ASSUME IInv, NoneAssumption, NEW l \in Leads, DeleteLead(l)
  PROVE  IInv'
<1>1. /\ Request("delete_lead", {l})
      /\ UNCHANGED <<student, structure, installment, payment, amended>>
      /\ ~Locked(l)
      /\ lead' = [lead EXCEPT ![l] = None]
      /\ admission' = {s \in admission : student[s].lead # l}
  BY DEF DeleteLead
<1>2. /\ Jobs' /\ StudentsStay
      /\ OneStudentPerLead' /\ PaidOnRecord'
      /\ \A v \in Workers : EditsInstallment(v)' =>
           /\ EditsInstallment(v) /\ job'[v] = job[v]
           /\ missed[v] \cup {l} \subseteq missed'[v]
  BY <1>1, RequestStays
<1>3. TypeOK'
  BY <1>1, RequestJobs, NoneAssumption DEF IInv, TypeOK
<1>4. JobsBacked'
  <2>1. ASSUME NEW w \in Workers, Converts(w) PROVE lead'[job[w].lead] = lead[job[w].lead]
    BY <2>1, <1>1 DEF IInv, TypeOK, Locked, Converts
  <2>2. QED
    BY <1>1, <2>1, RequestJobs DEF IInv, JobsBacked
<1>5. LeadsSettled'
  BY <1>1, RequestJobs DEF IInv, TypeOK, LeadsSettled
<1>6. EditsCurrent'
  BY <1>1, <1>2, EditsStay DEF IInv, Jobs
<1>7. SharesAreWritten' /\ PaymentHolds'
  BY <1>1, RequestJobs DEF IInv, SharesAreWritten, PaymentHolds
<1>8. QED
  BY <1>2, <1>3, <1>4, <1>5, <1>6, <1>7 DEF IInv, Jobs

\* Deleting installments no payment has locked, with the references to them.
LEMMA ForgetTyped ==
  ASSUME TypeOK, NoneAssumption, NEW slots \in SUBSET Slots, Forget(slots),
         installment' = [i \in Slots |-> IF i \in slots THEN None ELSE installment[i]]
  PROVE  /\ payment' \in [Payments -> PaymentRow \cup {None}]
         /\ \A p \in Payments :
              payment'[p] # None /\ payment'[p].installment # None =>
                installment'[payment'[p].installment] # None
<1>1. payment' \in [Payments -> PaymentRow \cup {None}]
  BY DEF TypeOK, Forget, PaymentRow
<1>2. ASSUME NEW p \in Payments, payment'[p] # None, payment'[p].installment # None
      PROVE  installment'[payment'[p].installment] # None
  <2>1. payment[p] # None /\ payment[p] \in PaymentRow /\ payment[p].installment \notin slots
          /\ payment'[p] = payment[p]
    BY <1>2, NoneAssumption DEF TypeOK, Forget, PaymentRow
  <2>2. QED
    BY <1>2, <2>1 DEF TypeOK, PaymentRow
<1>3. QED
  BY <1>1, <1>2

LEMMA DeletionStep ==
  ASSUME IInv, NoneAssumption, NEW slots \in SUBSET Slots, NEW op, NEW rows,
         Request(op, rows), \A i \in slots : installment[i] # None => i \in rows,
         \A i \in slots : ~Locked(i), Forget(slots),
         installment' = [i \in Slots |-> IF i \in slots THEN None ELSE installment[i]],
         structure' = structure \/ (structure' = None /\ slots = Slots),
         UNCHANGED <<lead, student, admission, amended>>
  PROVE  IInv'
<1>2. /\ Jobs' /\ StudentsStay
      /\ OneStudentPerLead' /\ PaidOnRecord'
      /\ \A v \in Workers : EditsInstallment(v)' =>
           /\ EditsInstallment(v) /\ job'[v] = job[v]
           /\ missed[v] \cup rows \subseteq missed'[v]
  BY RequestStays
<1>3. TypeOK'
  <2>1. installment' \in [Slots -> InstallmentRow \cup {None}]
    BY DEF IInv, TypeOK
  <2>2. \A i \in Slots : installment'[i] # None =>
          structure' # None /\ student'[i[1]] # None /\ student'[installment'[i].student] # None
    BY DEF IInv, TypeOK
  <2>3. QED
    BY <2>1, <2>2, ForgetTyped, RequestJobs DEF IInv, TypeOK
<1>4. JobsBacked'
  <2>1. ASSUME NEW w \in Workers, Pays(w), job[w].installment # None
        PROVE  installment'[job[w].installment] = installment[job[w].installment]
    <3>1. job[w].installment \in Slots
      BY <2>1, JobKinds DEF IInv, PaymentMade
    <3>2. job[w].installment \notin slots
      BY <2>1 DEF Locked, Pays
    <3>3. QED
      BY <3>1, <3>2
  <2>2. QED
    BY <2>1, RequestJobs DEF IInv, JobsBacked
<1>5. LeadsSettled'
  BY RequestJobs DEF IInv, LeadsSettled
<1>6. EditsCurrent'
  <2>1. ASSUME NEW v \in Workers, EditsInstallment(v)', job[v].installment \notin rows
        PROVE  installment'[job[v].installment] = installment[job[v].installment]
    <3>1. job[v].installment \in Slots
      BY <2>1, <1>2, JobKinds DEF IInv, InstallmentEdit
    <3>2. QED
      BY <2>1, <3>1
  <2>2. QED
    BY <1>2, <2>1, EditsStay DEF IInv, Jobs
<1>7. SharesAreWritten' /\ PaymentHolds'
  BY RequestJobs DEF IInv, TypeOK, SharesAreWritten, PaymentHolds
<1>8. QED
  BY <1>2, <1>3, <1>4, <1>5, <1>6, <1>7 DEF IInv, Jobs

LEMMA DeleteInstallmentStep ==
  ASSUME IInv, NoneAssumption, NEW i \in Slots, DeleteInstallment(i)
  PROVE  IInv'
<1>1. PICK slots \in SUBSET Slots : slots = {i}
  OBVIOUS
<1>2. /\ Request("delete_installment", slots) /\ Forget(slots)
      /\ structure' = structure /\ UNCHANGED <<lead, student, admission, amended>>
  BY <1>1 DEF DeleteInstallment
<1>3. \A k \in slots : ~Locked(k)
  BY <1>1 DEF DeleteInstallment
<1>4. installment' = [k \in Slots |-> IF k \in slots THEN None ELSE installment[k]]
  BY <1>1 DEF DeleteInstallment, IInv, TypeOK
<1>5. \A k \in slots : installment[k] # None => k \in slots
  OBVIOUS
<1>6. slots \in SUBSET Slots
  BY <1>1
<1>7. (structure' = structure \/ (structure' = None /\ slots = Slots)) /\ lead' = lead /\ student' = student
        /\ admission' = admission /\ amended' = amended
  BY <1>2
<1>8. Request("delete_installment", slots) /\ Forget(slots) 
  BY <1>2
<1>9. QED
  BY <1>3, <1>4, <1>5, <1>6, <1>7, <1>8, DeletionStep

LEMMA PostInstallmentStep ==
  ASSUME IInv, NoneAssumption, ScenarioAssumption, NEW i \in Slots, PostInstallment(i)
  PROVE  IInv'
<1>1. PICK amount \in EditedAmounts, status \in Statuses :
        /\ student[i[1]] # None /\ structure # None
        /\ FreshInstallment(i)
        /\ Request("post_installment", {i})
        /\ installment' = [installment EXCEPT ![i] =
                             [student |-> i[1], amount |-> amount, status |-> status]]
        /\ amended' = amended \cup {i[1]}
        /\ UNCHANGED <<lead, student, admission, structure, payment>>
  BY DEF PostInstallment
<1> DEFINE row == [student |-> i[1], amount |-> amount, status |-> status]
<1>2. PICK rows : rows = {i}
  OBVIOUS
<1>3. Request("post_installment", rows)
  BY <1>1, <1>2
<1>4. /\ Jobs' /\ StudentsStay
      /\ OneStudentPerLead' /\ PaidOnRecord'
      /\ \A v \in Workers : EditsInstallment(v)' =>
           /\ EditsInstallment(v) /\ job'[v] = job[v]
           /\ missed[v] \cup rows \subseteq missed'[v]
  BY <1>1, <1>3, RequestStays
<1>5. row \in InstallmentRow /\ row # None /\ row.student = i[1] /\ i[1] \in Students
  BY ScenarioAssumption, NoneAssumption DEF InstallmentRow, Slots
<1> HIDE DEF row
<1>6. /\ installment' \in [Slots -> InstallmentRow \cup {None}] /\ installment'[i] = row
      /\ \A k \in Slots : k # i => installment'[k] = installment[k]
  BY <1>1, <1>5 DEF IInv, TypeOK, row
<1>7. TypeOK'
  <2>1. \A k \in Slots : installment'[k] # None =>
          structure' # None /\ student'[k[1]] # None /\ student'[installment'[k].student] # None
    BY <1>1, <1>5, <1>6 DEF IInv, TypeOK
  <2>2. \A p \in Payments : payment[p] # None /\ payment[p].installment # None =>
          installment'[payment[p].installment] # None
    BY <1>5, <1>6 DEF IInv, TypeOK, PaymentRow
  <2>3. QED
    BY <1>1, <1>5, <1>6, <2>1, <2>2, RequestJobs DEF IInv, TypeOK
<1>8. JobsBacked'
  <2>1. ASSUME NEW w \in Workers, Pays(w), job[w].installment # None
        PROVE  installment'[job[w].installment] # None
    BY <2>1, <1>5, <1>6, JobKinds DEF IInv, JobsBacked, PaymentMade
  <2>2. QED
    BY <1>1, <2>1, RequestJobs DEF IInv, JobsBacked
<1>9. LeadsSettled'
  BY <1>1, RequestJobs DEF IInv, LeadsSettled
<1>10. EditsCurrent'
  <2>1. ASSUME NEW v \in Workers, EditsInstallment(v)', job[v].installment \notin rows
        PROVE  installment'[job[v].installment] = installment[job[v].installment]
    BY <2>1, <1>2, <1>4, <1>6, JobKinds DEF IInv, InstallmentEdit
  <2>2. amended \subseteq amended'
    BY <1>1
  <2>3. QED
    BY <1>4, <2>1, <2>2, EditsStay DEF IInv, Jobs
<1>11. SharesAreWritten'
  <2>1. WrittenBy(student', amended', i, row)
    BY <1>1, <1>5 DEF WrittenBy
  <2>2. amended \subseteq amended'
    BY <1>1
  <2>3. QED
    BY <1>4, <1>6, <2>1, <2>2, SharesStay DEF SharesAreWritten
<1>12. PaymentHolds'
  <2>1. i \notin paid
    BY <1>1 DEF FreshInstallment
  <2>2. paid' = paid /\ overwritten' = overwritten
    BY <1>3, RequestJobs
  <2>3. \A k \in paid : k \in Slots
    BY DEF IInv, TypeOK
  <2>4. QED
    BY <1>6, <2>1, <2>2, <2>3 DEF IInv, PaymentHolds
<1>13. QED
  BY <1>4, <1>7, <1>8, <1>9, <1>10, <1>11, <1>12 DEF IInv, Jobs

LEMMA DeleteStructureStep ==
  ASSUME IInv, NoneAssumption, DeleteStructure
  PROVE  IInv'
<1>1. installment' = [k \in Slots |-> IF k \in Slots THEN None ELSE installment[k]]
  BY DEF DeleteStructure
<1>2. QED
  BY <1>1, DeletionStep DEF DeleteStructure

\* An edit of the structure, or of a payment, touches nothing the conjuncts speak of.
LEMMA LooseRowsStay ==
  ASSUME IInv, NoneAssumption, NEW op, Request(op, {}),
         UNCHANGED <<lead, student, admission, installment, amended>>
  PROVE  /\ Jobs' /\ OneStudentPerLead' /\ PaidOnRecord'
         /\ JobsBacked' /\ LeadsSettled' /\ EditsCurrent' /\ SharesAreWritten' /\ PaymentHolds'
<1>2. /\ Jobs' /\ StudentsStay
      /\ OneStudentPerLead' /\ PaidOnRecord'
      /\ \A v \in Workers : EditsInstallment(v)' =>
           /\ EditsInstallment(v) /\ job'[v] = job[v]
           /\ missed[v] \cup {} \subseteq missed'[v]
  BY RequestStays
<1>3. JobsBacked' /\ LeadsSettled' /\ SharesAreWritten' /\ PaymentHolds'
  BY RequestJobs DEF IInv, JobsBacked, LeadsSettled, SharesAreWritten, PaymentHolds
<1>4. EditsCurrent'
  BY <1>2, EditsStay DEF IInv, Jobs
<1>5. QED
  BY <1>2, <1>3, <1>4

LEMMA EditStructureStep ==
  ASSUME IInv, NoneAssumption, NEW n \in 0..MaxInstallments, EditStructure(n)
  PROVE  IInv'
<1>1. TypeOK'
  BY RequestJobs, NoneAssumption DEF EditStructure, IInv, TypeOK
<1>2. QED
  BY <1>1, LooseRowsStay DEF EditStructure, IInv, Jobs

LEMMA WritePaymentStep ==
  ASSUME IInv, NoneAssumption, NEW p \in Payments, NEW row \in PaymentRow \cup {None},
         WritePayment(p, row),
         row # None /\ row.installment # None => installment[row.installment] # None
  PROVE  IInv'
<1>1. /\ payment' = [payment EXCEPT ![p] = row]
      /\ UNCHANGED <<lead, student, admission, structure, installment, amended>>
  BY DEF WritePayment
<1>2. payment' \in [Payments -> PaymentRow \cup {None}]
  BY <1>1 DEF IInv, TypeOK
<1>3. \A q \in Payments : payment'[q] # None /\ payment'[q].installment # None =>
        installment[payment'[q].installment] # None
  BY <1>1 DEF IInv, TypeOK
<1>4. TypeOK'
  BY <1>1, <1>2, <1>3, RequestJobs DEF WritePayment, IInv, TypeOK
<1>5. QED
  BY <1>4, LooseRowsStay DEF WritePayment, IInv, Jobs

LEMMA PaymentSteps ==
  ASSUME IInv, NoneAssumption, NEW p \in Payments,
         PostPayment(p) \/ MovePayment(p) \/ DeletePayment(p)
  PROVE  IInv'
<1>1. CASE PostPayment(p)
  <2>1. PICK s \in Students, i \in Slots :
          /\ installment[i] # None
          /\ WritePayment(p, [student |-> s, installment |-> i, receipt |-> FALSE])
    BY <1>1 DEF PostPayment
  <2>2. [student |-> s, installment |-> i, receipt |-> FALSE] \in PaymentRow
    BY DEF PaymentRow
  <2>3. QED
    BY <2>1, <2>2, WritePaymentStep
<1>2. CASE MovePayment(p)
  <2>1. PICK i \in Slots :
          /\ payment[p] # None /\ installment[i] # None
          /\ WritePayment(p, [payment[p] EXCEPT !.installment = i])
    BY <1>2 DEF MovePayment
  <2>2. [payment[p] EXCEPT !.installment = i] \in PaymentRow
          /\ [payment[p] EXCEPT !.installment = i].installment = i
    BY <2>1 DEF PaymentRow, IInv, TypeOK
  <2>3. QED
    BY <2>1, <2>2, WritePaymentStep
<1>3. CASE DeletePayment(p)
  BY <1>3, WritePaymentStep DEF DeletePayment
<1>4. QED
  BY <1>1, <1>2, <1>3

-----------------------------------------------------------------------------
(* Requests of several steps.                                               *)

LEMMA BeginStep ==
  ASSUME IInv, NoneAssumption, NEW w \in Workers, NEW at, NEW j, Begin(w, at, j),
         \/ at = "working" /\ j \in Conversion \cup PaymentMade
         \/ at = "loaded" /\ j \in LeadEdit \cup InstallmentEdit,
         j.key # None => Fresh(j.key),
         j \in Conversion => /\ ~Locked(j.lead) /\ lead[j.lead] \in Stages \ {"admitted"}
                             /\ student[j.key] = None,
         j \in PaymentMade => /\ student[j.student] # None
                              /\ j.installment # None => installment[j.installment] # None,
         j \in InstallmentEdit => /\ installment[j.installment] # None
                                  /\ installment[j.installment] = j.seen
                                  /\ student[j.new.student] # None
  PROVE  IInv'
<1>1. UNCHANGED <<lead, student, admission, structure, installment, payment>>
        /\ UNCHANGED <<missed, reopened, paid, overwritten, amended>> /\ pc[w] = "idle"
  BY DEF Begin, tables, history
<1>2. /\ pc'[w] = at /\ job'[w] = j
      /\ \A v \in Workers \ {w} : pc'[v] = pc[v] /\ job'[v] = job[v]
      /\ Jobs'
  BY BeginJobs DEF IInv, Jobs
<1>3. TypeOK' /\ LeadsSettled' /\ OneStudentPerLead' /\ PaidOnRecord' /\ SharesAreWritten'
        /\ PaymentHolds'
  BY <1>1 DEF IInv, TypeOK, LeadsSettled, OneStudentPerLead, PaidOnRecord, SharesAreWritten,
              PaymentHolds
<1>4. JobsBacked'
  <2>1. \A v \in Workers \ {w} :
          /\ Converts(v)' <=> Converts(v)
          /\ Pays(v)' <=> Pays(v)
          /\ EditsInstallment(v)' <=> EditsInstallment(v)
    BY <1>2 DEF Converts, Pays, EditsInstallment
  <2>2. /\ Converts(w)' => j \in Conversion
        /\ Pays(w)' => j \in PaymentMade
        /\ EditsInstallment(w)' => j \in InstallmentEdit
    BY <1>2 DEF Converts, Pays, EditsInstallment, Conversion, PaymentMade, LeadEdit, InstallmentEdit
  <2>3. EditsInstallment(w)' =>
          student[j.installment[1]] # None /\ student[j.new.student] # None
    BY <2>2 DEF IInv, TypeOK, InstallmentEdit
  <2>4. QED
    BY <1>1, <1>2, <2>1, <2>2, <2>3 DEF IInv, JobsBacked
<1>5. EditsCurrent'
  <2>1. \A v \in Workers \ {w} : EditsInstallment(v)' <=> EditsInstallment(v)
    BY <1>2 DEF EditsInstallment
  <2>2. EditsInstallment(w)' => j \in InstallmentEdit
    BY <1>2 DEF EditsInstallment, Conversion, PaymentMade, LeadEdit, InstallmentEdit
  <2>3. EditsInstallment(w)' => WrittenBy(student, amended, j.installment, j.seen)
    BY <2>2 DEF IInv, SharesAreWritten, InstallmentEdit
  <2>4. QED
    BY <1>1, <1>2, <2>1, <2>2, <2>3 DEF IInv, EditsCurrent
<1>6. QED
  BY <1>2, <1>3, <1>4, <1>5 DEF IInv, Jobs

LEMMA ConvertStep ==
  ASSUME IInv, NoneAssumption, NEW w \in Workers, Convert(w)
  PROVE  IInv'
<1>1. PICK l \in Leads, f \in Fees, s \in Students :
        /\ ~Locked(l)
        /\ lead[l] \in Stages \ {"admitted"}
        /\ student[s] = None /\ Fresh(s)
        /\ Begin(w, "working", [op |-> "convert", lead |-> l, installment |-> None, key |-> s,
                                fee |-> f, structure |-> structure])
  BY DEF Convert
<1> DEFINE j == [op |-> "convert", lead |-> l, installment |-> None, key |-> s,
                 fee |-> f, structure |-> structure]
<1>2. j \in Conversion
  BY DEF Conversion, IInv, TypeOK
<1>3. j \notin PaymentMade /\ j \notin InstallmentEdit /\ j.lead = l /\ j.key = s
  BY DEF PaymentMade, InstallmentEdit
<1>4. Begin(w, "working", j)
  BY <1>1
<1> HIDE DEF j
<1>5. QED
  BY <1>1, <1>2, <1>3, <1>4, BeginStep

LEMMA PayStep ==
  ASSUME IInv, NoneAssumption, NEW w \in Workers, Pay(w)
  PROVE  IInv'
<1>1. PICK s \in Students, i \in Slots \cup {None}, p \in Payments :
        /\ student[s] # None
        /\ i # None => installment[i] # None
        /\ Fresh(p)
        /\ Begin(w, "working", [op |-> "pay", lead |-> None, installment |-> i, key |-> p,
                                student |-> s])
  BY DEF Pay
<1> DEFINE j == [op |-> "pay", lead |-> None, installment |-> i, key |-> p, student |-> s]
<1>2. j \in PaymentMade
  BY DEF PaymentMade
<1>3. /\ j \notin Conversion /\ j \notin InstallmentEdit
      /\ j.installment = i /\ j.key = p /\ j.student = s
  BY DEF Conversion, InstallmentEdit
<1>4. Begin(w, "working", j)
  BY <1>1
<1> HIDE DEF j
<1>5. QED
  BY <1>1, <1>2, <1>3, <1>4, BeginStep

LEMMA LoadLeadStep ==
  ASSUME IInv, NoneAssumption, NEW w \in Workers, LoadLead(w)
  PROVE  IInv'
<1>1. PICK l \in Leads, stage \in Stages :
        Begin(w, "loaded", [op |-> "edit_lead", lead |-> l, installment |-> None, key |-> None,
                            new |-> stage])
  BY DEF LoadLead
<1> DEFINE j == [op |-> "edit_lead", lead |-> l, installment |-> None, key |-> None, new |-> stage]
<1>2. j \in LeadEdit
  BY DEF LeadEdit
<1>3. j \notin Conversion /\ j \notin PaymentMade /\ j \notin InstallmentEdit /\ j.key = None
  BY DEF Conversion, PaymentMade, InstallmentEdit
<1>4. Begin(w, "loaded", j)
  BY <1>1
<1> HIDE DEF j
<1>5. QED
  BY <1>2, <1>3, <1>4, BeginStep

LEMMA LoadInstallmentStep ==
  ASSUME IInv, NoneAssumption, ScenarioAssumption, NEW w \in Workers, LoadInstallment(w)
  PROVE  IInv'
<1>1. PICK i \in Slots : /\ installment[i] # None
                         /\ \E s \in Students, amount \in EditedAmounts \cup {installment[i].amount},
                               status \in Statuses :
                              LET new == [student |-> s, amount |-> amount, status |-> status] IN
                              /\ student[s] # None
                              /\ Begin(w, "loaded",
                                       [op |-> "edit_installment", lead |-> None, installment |-> i,
                                        key |-> None, seen |-> installment[i], new |-> new])
  BY DEF LoadInstallment
<1>2. PICK s \in Students, amount \in EditedAmounts \cup {installment[i].amount}, status \in Statuses :
        /\ student[s] # None
        /\ Begin(w, "loaded",
                 [op |-> "edit_installment", lead |-> None, installment |-> i,
                  key |-> None, seen |-> installment[i],
                  new |-> [student |-> s, amount |-> amount, status |-> status]])
  BY <1>1
<1> DEFINE new == [student |-> s, amount |-> amount, status |-> status]
           j == [op |-> "edit_installment", lead |-> None, installment |-> i,
                 key |-> None, seen |-> installment[i], new |-> new]
<1>3. installment[i] \in InstallmentRow /\ new \in InstallmentRow /\ new.student = s
  BY <1>1, ScenarioAssumption DEF IInv, TypeOK, InstallmentRow
<1>4. j \in InstallmentEdit /\ j.new.student = s
  BY <1>3 DEF InstallmentEdit
<1>5. /\ j \notin Conversion /\ j \notin PaymentMade /\ j.key = None
      /\ j.installment = i /\ j.seen = installment[i]
  BY DEF Conversion, PaymentMade
<1>6. Begin(w, "loaded", j)
  BY <1>2
<1> HIDE DEF j
<1>7. QED
  BY <1>1, <1>2, <1>4, <1>5, <1>6, BeginStep

LEMMA SendMailStep ==
  ASSUME IInv, NoneAssumption, NEW w \in Workers, SendMail(w)
  PROVE  IInv'
<1>1. /\ UNCHANGED <<lead, student, admission, structure, installment, payment>>
      /\ UNCHANGED <<job, missed, reopened, paid, overwritten, amended>>
      /\ pc[w] = "working" /\ pc' = [pc EXCEPT ![w] = "mailed"]
  BY DEF SendMail, tables, history
<1>2. /\ \A v \in Workers : /\ Converts(v)' <=> Converts(v)
                            /\ Pays(v)' <=> Pays(v)
                            /\ EditsInstallment(v)' <=> EditsInstallment(v)
      /\ Jobs'
  BY SendMailJobs DEF IInv, Jobs
<1>3. TypeOK' /\ LeadsSettled' /\ OneStudentPerLead' /\ PaidOnRecord' /\ SharesAreWritten'
        /\ PaymentHolds'
  BY <1>1 DEF IInv, TypeOK, LeadsSettled, OneStudentPerLead, PaidOnRecord, SharesAreWritten,
              PaymentHolds
<1>4. JobsBacked' /\ EditsCurrent'
  BY <1>1, <1>2 DEF IInv, JobsBacked, EditsCurrent
<1>5. QED
  BY <1>2, <1>3, <1>4 DEF IInv, Jobs

\* The end of a request that changes these rows.
LEMMA EndStays ==
  ASSUME IInv, NEW w \in Workers, NEW rows, End(w, rows)
  PROVE  \A v \in Workers : EditsInstallment(v)' =>
           /\ v # w /\ EditsInstallment(v) /\ job'[v] = job[v]
           /\ missed[v] \cup rows \subseteq missed'[v]
<1>1. /\ pc'[w] = "idle" /\ Missed(w, rows)
      /\ \A v \in Workers \ {w} : pc'[v] = pc[v] /\ job'[v] = job[v]
  BY DEF End, IInv, JobsTyped
<1> SUFFICES ASSUME NEW v \in Workers, EditsInstallment(v)'
             PROVE  /\ v # w /\ EditsInstallment(v) /\ job'[v] = job[v]
                    /\ missed[v] \cup rows \subseteq missed'[v]
  OBVIOUS
<1>2. v # w /\ EditsInstallment(v) /\ job'[v] = job[v]
  BY <1>1 DEF EditsInstallment
<1>3. missed'[v] = missed[v] \cup rows
  BY <1>1, <1>2, MissedGrows DEF EditsInstallment
<1>4. QED
  BY <1>2, <1>3

LEMMA RollBackStep ==
  ASSUME IInv, NoneAssumption, NEW w \in Workers, RollBack(w)
  PROVE  IInv'
<1>1. /\ UNCHANGED <<lead, student, admission, structure, installment, payment>>
      /\ UNCHANGED <<reopened, paid, overwritten, amended>>
      /\ pc[w] # "idle" /\ End(w, {})
  BY DEF RollBack, tables
<1>2. /\ \A v \in Workers \ {w} : pc'[v] = pc[v] /\ job'[v] = job[v]
      /\ \A v \in Workers : Converts(v)' => v # w /\ Converts(v)
      /\ \A v \in Workers : Pays(v)' => v # w /\ Pays(v)
      /\ \A v \in Workers : EditsInstallment(v)' => v # w /\ EditsInstallment(v)
      /\ Jobs'
  BY <1>1, EndJobs DEF IInv, Jobs, JobsTyped
<1>4. TypeOK' /\ LeadsSettled' /\ OneStudentPerLead' /\ PaidOnRecord' /\ SharesAreWritten'
        /\ PaymentHolds'
  BY <1>1 DEF IInv, TypeOK, LeadsSettled, OneStudentPerLead, PaidOnRecord, SharesAreWritten,
              PaymentHolds
<1>5. JobsBacked'
  BY <1>1, <1>2 DEF IInv, JobsBacked
<1>6. EditsCurrent'
  BY <1>1, <1>2, EndStays, EditsStay DEF IInv, Jobs, StudentsStay
<1>7. QED
  BY <1>2, <1>4, <1>5, <1>6 DEF IInv, Jobs

LEMMA NumberTyped ==
  ASSUME ScenarioAssumption, NEW n \in 0..MaxInstallments \cup {None}
  PROVE  Number(n) \in 0..MaxInstallments
BY DEF ScenarioAssumption, Number

\* Rounded is the nearest number of units, so that n shares miss the fee by half a unit each.
LEMMA RoundedNearest ==
  ASSUME NEW fee \in Nat, NEW n \in Nat \ {0}
  PROVE  /\ Rounded(fee, n) \in Int
         /\ 2 * (n * Rounded(fee, n) - fee) \in -n..n
<1> DEFINE q == fee \div n
           r == fee % n
<1>1. q \in Int /\ r \in 0..(n - 1) /\ fee = n * q + r
  OBVIOUS
<1>2. Rounded(fee, n) \in {q, q + 1}
  BY DEF Rounded
<1>3. Rounded(fee, n) = q => 2 * r <= n
  BY <1>1 DEF Rounded
<1>4. Rounded(fee, n) = q + 1 => 2 * r >= n
  BY <1>1 DEF Rounded
<1>5. n * (q + 1) = n * q + n
  BY <1>1
<1> HIDE DEF q, r
<1>6. CASE Rounded(fee, n) = q
  BY <1>1, <1>3, <1>6
<1>7. CASE Rounded(fee, n) = q + 1
  <2>1. n * Rounded(fee, n) - fee = n - r
    BY <1>1, <1>5, <1>7
  <2>2. QED
    BY <1>1, <1>4, <1>7, <2>1
<1>8. QED
  BY <1>2, <1>6, <1>7

LEMMA CommitConversionStep ==
  ASSUME IInv, NoneAssumption, ScenarioAssumption, NEW w \in Workers, CommitConversion(w)
  PROVE  IInv'
<1> DEFINE j == job[w]
           n == Number(j.structure)
<1>1. /\ pc[w] = "mailed" /\ j.op = "convert"
      /\ j.structure # None => structure # None
      /\ student' = [student EXCEPT ![j.key] =
                       [lead |-> j.lead, fee |-> j.fee, installments |-> n]]
      /\ admission' = admission \cup {j.key}
      /\ installment' = [i \in Slots |-> IF i \in {j.key} \X (1..n)
                                         THEN [student |-> j.key, amount |-> Rounded(j.fee, n),
                                               status |-> "PENDING"]
                                         ELSE installment[i]]
      /\ lead' = [lead EXCEPT ![j.lead] = "admitted"]
      /\ End(w, {j.lead})
      /\ UNCHANGED <<structure, payment, reopened, paid, overwritten, amended>>
  BY DEF CommitConversion
<1>2. /\ \A v \in Workers \ {w} : pc'[v] = pc[v] /\ job'[v] = job[v]
      /\ \A v \in Workers : Converts(v)' => v # w /\ Converts(v)
      /\ \A v \in Workers : Pays(v)' => v # w /\ Pays(v)
      /\ \A v \in Workers : EditsInstallment(v)' => v # w /\ EditsInstallment(v)
      /\ Jobs'
  BY <1>1, EndJobs DEF IInv, Jobs, JobsTyped
<1>3. Converts(w) /\ j \in Conversion
  BY <1>1, JobKinds DEF IInv, Converts
<1>4. /\ j.lead \in Leads /\ j.key \in Students /\ j.fee \in Nat /\ n \in 0..MaxInstallments
      /\ lead[j.lead] \in Stages \ {"admitted"} /\ student[j.key] = None
  BY <1>3, NumberTyped DEF Conversion, ScenarioAssumption, IInv, JobsBacked
<1>5. n # 0 => structure # None
  BY <1>1 DEF Number
<1>6. n # 0 => Rounded(j.fee, n) \in Int
  BY <1>4, RoundedNearest DEF ScenarioAssumption
<1> HIDE DEF j, n
<1> DEFINE row == [lead |-> j.lead, fee |-> j.fee, installments |-> n]
           share == [student |-> j.key, amount |-> Rounded(j.fee, n), status |-> "PENDING"]
<1>7. row \in StudentRow /\ row # None /\ student' = [student EXCEPT ![j.key] = row]
  BY <1>1, <1>4, NoneAssumption DEF StudentRow
<1>8. StudentsStay /\ \A s \in Students : s # j.key => student'[s] = student[s]
  BY <1>4, <1>7 DEF StudentsStay, IInv, TypeOK
<1>9. \A i \in Slots :
        IF i[1] = j.key /\ i[2] \in 1..n
        THEN installment'[i] = share /\ share \in InstallmentRow
        ELSE installment'[i] = installment[i]
  <2>1. \A i \in Slots : i[1] = j.key /\ i[2] \in 1..n <=> i \in {j.key} \X (1..n)
    BY DEF Slots
  <2>2. n # 0 => share \in InstallmentRow
    BY <1>4, <1>6 DEF InstallmentRow, Statuses
  <2>3. QED
    BY <1>1, <1>4, <2>1, <2>2
<1>10. \A i \in Slots : i[1] = j.key => installment[i] = None
  BY <1>4 DEF IInv, TypeOK
<1>11. lead' \in [Leads -> Stages \cup {None}] /\ lead'[j.lead] = "admitted"
         /\ \A l \in Leads : l # j.lead => lead'[l] = lead[l]
  BY <1>1, <1>4 DEF IInv, TypeOK, Stages
<1>12. TypeOK'
  <2>1. student' \in [Students -> StudentRow \cup {None}]
    BY <1>7 DEF IInv, TypeOK
  <2>2. admission' \subseteq Students
          /\ \A s \in admission' : student'[s] # None /\ lead'[student'[s].lead] # None
    <3>1. student'[j.key] = row /\ row.lead = j.lead
      BY <1>4, <1>7 DEF IInv, TypeOK
    <3>2. \A s \in admission : s # j.key => student[s].lead \in Leads
      BY DEF IInv, TypeOK, StudentRow
    <3>3. QED
      BY <1>1, <1>4, <1>7, <1>8, <1>11, <3>1, <3>2, NoneAssumption DEF IInv, TypeOK, Stages
  <2>3. installment' \in [Slots -> InstallmentRow \cup {None}]
    BY <1>1, <1>9 DEF IInv, TypeOK
  <2>4. \A i \in Slots : installment'[i] # None =>
          structure' # None /\ student'[i[1]] # None /\ student'[installment'[i].student] # None
    <3>1. ASSUME NEW i \in Slots, installment'[i] # None
          PROVE  /\ structure' # None /\ student'[i[1]] # None
                 /\ student'[installment'[i].student] # None
      <4>1. CASE i[1] = j.key /\ i[2] \in 1..n
        BY <4>1, <1>1, <1>4, <1>5, <1>7, <1>9 DEF IInv, TypeOK
      <4>2. CASE ~(i[1] = j.key /\ i[2] \in 1..n)
        BY <4>2, <3>1, <1>1, <1>8, <1>9 DEF IInv, TypeOK, StudentsStay, Slots, InstallmentRow
      <4>3. QED
        BY <4>1, <4>2
    <3>2. QED
      BY <3>1
  <2>5. \A p \in Payments : payment'[p] # None /\ payment'[p].installment # None =>
          installment'[payment'[p].installment] # None
    <3>1. ASSUME NEW p \in Payments, payment[p] # None, payment[p].installment # None
          PROVE  installment'[payment[p].installment] # None
      <4>1. payment[p].installment \in Slots /\ installment[payment[p].installment] # None
        BY <3>1 DEF IInv, TypeOK, PaymentRow
      <4>2. QED
        BY <4>1, <1>9, <1>10
    <3>2. QED
      BY <1>1, <3>1
  <2>6. QED
    BY <1>1, <1>11, <2>1, <2>2, <2>3, <2>4, <2>5 DEF IInv, TypeOK
<1>13. JobsBacked'
  <2> SUFFICES ASSUME NEW v \in Workers
               PROVE  /\ Converts(v)' => /\ lead'[job'[v].lead] \in Stages \ {"admitted"}
                                         /\ student'[job'[v].key] = None
                      /\ Pays(v)' => /\ student'[job'[v].student] # None
                                     /\ job'[v].installment # None =>
                                          installment'[job'[v].installment] # None
                      /\ EditsInstallment(v)' => /\ student'[job'[v].installment[1]] # None
                                                 /\ student'[job'[v].new.student] # None
    BY DEF JobsBacked
  <2>1. ASSUME Converts(v)'
        PROVE  lead'[job'[v].lead] \in Stages \ {"admitted"} /\ student'[job'[v].key] = None
    <3>1. v # w /\ Converts(v) /\ job'[v] = job[v] /\ job[v] \in Conversion
      BY <2>1, <1>2, JobKinds DEF IInv
    <3>2. job[v].lead # j.lead /\ job[v].key # j.key
      BY <3>1, <1>3, NoneAssumption DEF IInv, LeadsLocked, KeysApart, Converts, Conversion, j
    <3>3. QED
      BY <3>1, <3>2, <1>8, <1>11 DEF IInv, JobsBacked, Conversion
  <2>2. ASSUME Pays(v)'
        PROVE  /\ student'[job'[v].student] # None
               /\ job'[v].installment # None => installment'[job'[v].installment] # None
    <3>1. v # w /\ Pays(v) /\ job'[v] = job[v] /\ job[v] \in PaymentMade
      BY <2>2, <1>2, JobKinds DEF IInv
    <3>2. QED
      BY <3>1, <1>8, <1>9, <1>10 DEF IInv, JobsBacked, PaymentMade, StudentsStay
  <2>3. ASSUME EditsInstallment(v)'
        PROVE  student'[job'[v].installment[1]] # None /\ student'[job'[v].new.student] # None
    <3>1. v # w /\ EditsInstallment(v) /\ job'[v] = job[v] /\ job[v] \in InstallmentEdit
      BY <2>3, <1>2, JobKinds DEF IInv
    <3>2. QED
      BY <3>1, <1>8 DEF IInv, JobsBacked, InstallmentEdit, InstallmentRow, StudentsStay, Slots
  <2>4. QED
    BY <2>1, <2>2, <2>3
<1>14. LeadsSettled' /\ OneStudentPerLead'
  <2>1. student'[j.key].lead = j.lead
    BY <1>4, <1>7 DEF IInv, TypeOK
  <2>2. \A s \in Students : student[s] # None => student[s].lead \in Leads
    BY DEF IInv, TypeOK, StudentRow
  <2>3. \A s \in Students : student[s] # None /\ student[s].lead = j.lead => j.lead \in reopened
    BY <1>4, NoneAssumption DEF IInv, LeadsSettled
  <2>4. LeadsSettled'
    BY <1>1, <1>8, <1>11, <2>1, <2>2 DEF IInv, LeadsSettled
  <2>5. OneStudentPerLead'
    BY <1>1, <1>8, <2>1, <2>3 DEF IInv, OneStudentPerLead
  <2>6. QED
    BY <2>4, <2>5
<1>15. EditsCurrent'
  <2>1. ASSUME NEW v \in Workers, EditsInstallment(v)'
        PROVE  installment'[job[v].installment] = installment[job[v].installment]
    <3>1. job[v].installment \in Slots /\ student[job[v].installment[1]] # None
      BY <2>1, <1>2, JobKinds DEF IInv, JobsBacked, InstallmentEdit
    <3>2. QED
      BY <3>1, <1>4, <1>9
  <2>2. \A v \in Workers : EditsInstallment(v)' =>
          /\ EditsInstallment(v) /\ job'[v] = job[v]
          /\ missed[v] \cup {j.lead} \subseteq missed'[v]
    BY <1>1, EndStays
  <2>3. amended \subseteq amended'
    BY <1>1
  <2>4. QED
    BY <1>2, <1>8, <2>1, <2>2, <2>3, EditsStay DEF IInv, Jobs
<1>16. PaidOnRecord' /\ PaymentHolds'
  <2>1. \A i \in paid : i \in Slots /\ i[1] # j.key
    BY <1>4 DEF IInv, TypeOK, PaidOnRecord
  <2>2. QED
    BY <1>1, <1>8, <1>9, <2>1 DEF IInv, PaidOnRecord, PaymentHolds, StudentsStay, Slots
<1>17. SharesAreWritten'
  <2> SUFFICES ASSUME NEW i \in Slots, installment'[i] # None
               PROVE  WrittenBy(student', amended', i, installment'[i])
    BY DEF SharesAreWritten
  <2>1. CASE i[1] = j.key /\ i[2] \in 1..n
    BY <2>1, <1>4, <1>7, <1>9 DEF IInv, TypeOK, WrittenBy
  <2>2. CASE ~(i[1] = j.key /\ i[2] \in 1..n)
    <3>1. installment[i] # None /\ installment'[i] = installment[i] /\ amended' = amended
      BY <2>2, <1>1, <1>9
    <3>2. QED
      BY <3>1, <1>8, SharesStay
  <2>3. QED
    BY <2>1, <2>2
<1>18. QED
  BY <1>2, <1>12, <1>13, <1>14, <1>15, <1>16, <1>17 DEF IInv, Jobs

LEMMA CommitPaymentStep ==
  ASSUME IInv, NoneAssumption, ScenarioAssumption, NEW w \in Workers, CommitPayment(w)
  PROVE  IInv'
<1> DEFINE j == job[w]
           row == [student |-> j.student, installment |-> j.installment, receipt |-> TRUE]
<1>1. /\ pc[w] = "mailed" /\ j.op = "pay"
      /\ payment' = [payment EXCEPT ![j.key] = row]
      /\ installment' = [i \in Slots |->
                           IF i # j.installment THEN installment[i]
                           ELSE [installment[i] EXCEPT !.status = "PAID"]]
      /\ paid' = paid \cup ({j.installment} \ {None})
      /\ overwritten' = overwritten \ {j.installment}
      /\ End(w, {j.installment})
      /\ UNCHANGED <<lead, student, admission, structure, reopened, amended>>
  BY DEF CommitPayment
<1>2. /\ \A v \in Workers \ {w} : pc'[v] = pc[v] /\ job'[v] = job[v]
      /\ \A v \in Workers : Converts(v)' => v # w /\ Converts(v)
      /\ \A v \in Workers : Pays(v)' => v # w /\ Pays(v)
      /\ \A v \in Workers : EditsInstallment(v)' => v # w /\ EditsInstallment(v)
      /\ Jobs'
  BY <1>1, EndJobs DEF IInv, Jobs, JobsTyped
<1>3. Pays(w) /\ j \in PaymentMade
  BY <1>1, JobKinds DEF IInv, Pays
<1>4. /\ j.key \in Payments /\ j.student \in Students
      /\ j.installment \in Slots \cup {None}
      /\ j.installment # None => installment[j.installment] # None
  BY <1>3 DEF PaymentMade, IInv, JobsBacked
<1> HIDE DEF j
<1>5. StudentsStay
  BY <1>1 DEF StudentsStay
<1>6. /\ \A i \in Slots : i # j.installment => installment'[i] = installment[i]
      /\ j.installment \in Slots =>
           /\ installment'[j.installment] \in InstallmentRow
           /\ installment'[j.installment].status = "PAID"
           /\ installment'[j.installment].amount = installment[j.installment].amount
           /\ installment'[j.installment].student = installment[j.installment].student
  BY <1>1, <1>4, NoneAssumption DEF IInv, TypeOK, InstallmentRow, Statuses
<1>7. \A i \in Slots : installment'[i] # None <=> installment[i] # None
  BY <1>4, <1>6, NoneAssumption
<1>8. TypeOK'
  <2>1. installment' \in [Slots -> InstallmentRow \cup {None}]
    <3>1. \A i \in Slots : installment'[i] \in InstallmentRow \cup {None}
      BY <1>6 DEF IInv, TypeOK
    <3>2. QED
      BY <1>1, <3>1
  <2>2. payment' \in [Payments -> PaymentRow \cup {None}]
    BY <1>1, <1>4 DEF IInv, TypeOK, PaymentRow
  <2>3. \A p \in Payments : payment'[p] # None /\ payment'[p].installment # None =>
          installment'[payment'[p].installment] # None
    <3>1. ASSUME NEW p \in Payments, payment'[p] # None, payment'[p].installment # None
          PROVE  installment'[payment'[p].installment] # None
      <4>1. CASE p = j.key
        BY <4>1, <3>1, <1>1, <1>4, <1>7 DEF IInv, TypeOK
      <4>2. CASE p # j.key
        <5>1. payment'[p] = payment[p] /\ payment[p].installment \in Slots
          BY <4>2, <3>1, <1>1 DEF IInv, TypeOK, PaymentRow
        <5>2. QED
          BY <5>1, <3>1, <1>7 DEF IInv, TypeOK
      <4>3. QED
        BY <4>1, <4>2
    <3>2. QED
      BY <3>1
  <2>4. \A i \in Slots : installment'[i] # None => student[installment'[i].student] # None
    BY <1>4, <1>6, <1>7 DEF IInv, TypeOK
  <2>5. QED
    BY <1>1, <1>4, <1>7, <2>1, <2>2, <2>3, <2>4 DEF IInv, TypeOK
<1>9. JobsBacked'
  <2>1. ASSUME NEW v \in Workers, Pays(v)', job'[v].installment # None
        PROVE  installment'[job'[v].installment] # None
    BY <2>1, <1>2, <1>7, JobKinds DEF IInv, JobsBacked, PaymentMade
  <2>2. QED
    BY <1>1, <1>2, <2>1 DEF IInv, JobsBacked
<1>10. LeadsSettled' /\ OneStudentPerLead'
  BY <1>1 DEF IInv, LeadsSettled, OneStudentPerLead
<1>11. EditsCurrent'
  <2>1. PICK rows : rows = {j.installment}
    OBVIOUS
  <2>2. \A v \in Workers : EditsInstallment(v)' =>
          /\ EditsInstallment(v) /\ job'[v] = job[v]
          /\ missed[v] \cup rows \subseteq missed'[v]
    BY <1>1, <2>1, EndStays
  <2>3. ASSUME NEW v \in Workers, EditsInstallment(v)', job[v].installment \notin rows
        PROVE  installment'[job[v].installment] = installment[job[v].installment]
    BY <2>1, <2>2, <2>3, <1>6, JobKinds DEF IInv, InstallmentEdit
  <2>4. amended \subseteq amended'
    BY <1>1
  <2>5. EditsCurrent /\ JobsBacked /\ JobsTyped /\ JobsTyped'
    BY <1>2 DEF IInv, Jobs
  <2>6. QED
    BY <1>5, <2>2, <2>3, <2>4, <2>5, EditsStay
<1>12. PaidOnRecord' /\ PaymentHolds' /\ SharesAreWritten'
  <2>1. PaidOnRecord'
    BY <1>1, <1>4 DEF IInv, TypeOK, PaidOnRecord
  <2>2. PaymentHolds'
    BY <1>1, <1>4, <1>6 DEF IInv, TypeOK, PaymentHolds
  <2>3. SharesAreWritten'
    BY <1>1, <1>4, <1>6, <1>7 DEF IInv, SharesAreWritten, WrittenBy
  <2>4. QED
    BY <2>1, <2>2, <2>3
<1>13. QED
  BY <1>2, <1>8, <1>9, <1>10, <1>11, <1>12 DEF IInv, Jobs

LEMMA SaveLeadStep ==
  ASSUME IInv, NoneAssumption, NEW w \in Workers, SaveLead(w)
  PROVE  IInv'
<1> DEFINE j == job[w]
<1>1. /\ pc[w] = "loaded" /\ j.op = "edit_lead" /\ ~Locked(j.lead)
      /\ lead' = [lead EXCEPT ![j.lead] = j.new]
      /\ reopened' = IF j.new # "admitted" /\ \E s \in Students :
                          student[s] # None /\ student[s].lead = j.lead
                     THEN reopened \cup {j.lead}
                     ELSE reopened
      /\ End(w, {j.lead})
      /\ UNCHANGED <<student, admission, structure, installment, payment>>
      /\ UNCHANGED <<paid, overwritten, amended>>
  BY DEF SaveLead
<1>2. j \in LeadEdit /\ j.lead \in Leads /\ j.new \in Stages
  BY <1>1, JobKinds DEF IInv, LeadEdit
<1>3. /\ \A v \in Workers \ {w} : pc'[v] = pc[v] /\ job'[v] = job[v]
      /\ \A v \in Workers : Converts(v)' => v # w /\ Converts(v)
      /\ \A v \in Workers : Pays(v)' => v # w /\ Pays(v)
      /\ \A v \in Workers : EditsInstallment(v)' => v # w /\ EditsInstallment(v)
      /\ Jobs'
  BY <1>1, <1>2, EndJobs DEF IInv, Jobs, JobsTyped
<1> HIDE DEF j
<1>4. /\ lead' \in [Leads -> Stages \cup {None}] /\ lead'[j.lead] = j.new
      /\ \A l \in Leads : l # j.lead => lead'[l] = lead[l]
  BY <1>1, <1>2 DEF IInv, TypeOK
<1>5. \A s \in Students : student[s] # None => student[s].lead \in Leads
  BY DEF IInv, TypeOK, StudentRow
<1>6. TypeOK'
  <2>1. \A s \in admission : lead'[student[s].lead] # None
    BY <1>2, <1>4, <1>5, NoneAssumption DEF IInv, TypeOK
  <2>2. QED
    BY <1>1, <1>4, <2>1 DEF IInv, TypeOK
<1>7. JobsBacked'
  <2>1. ASSUME NEW v \in Workers, Converts(v)
        PROVE  job[v].lead \in Leads /\ job[v].lead # j.lead
    BY <2>1, <1>1, JobKinds DEF IInv, Locked, Converts, Conversion
  <2>2. QED
    BY <1>1, <1>3, <1>4, <2>1 DEF IInv, JobsBacked
<1>8. LeadsSettled'
  BY <1>1, <1>2, <1>4, <1>5 DEF IInv, LeadsSettled
<1>9. OneStudentPerLead'
  BY <1>1 DEF IInv, OneStudentPerLead
<1>10. EditsCurrent'
  <2>1. \A v \in Workers : EditsInstallment(v)' =>
          /\ EditsInstallment(v) /\ job'[v] = job[v]
          /\ missed[v] \cup {j.lead} \subseteq missed'[v]
    BY <1>1, EndStays
  <2>2. QED
    BY <1>1, <1>3, <2>1, EditsStay DEF IInv, Jobs, StudentsStay
<1>11. PaidOnRecord' /\ PaymentHolds' /\ SharesAreWritten'
  BY <1>1 DEF IInv, PaidOnRecord, PaymentHolds, SharesAreWritten
<1>12. QED
  BY <1>3, <1>6, <1>7, <1>8, <1>9, <1>10, <1>11 DEF IInv, Jobs

LEMMA SaveInstallmentStep ==
  ASSUME IInv, NoneAssumption, NEW w \in Workers, SaveInstallment(w)
  PROVE  IInv'
<1> DEFINE j == job[w]
<1>1. /\ pc[w] = "loaded" /\ j.op = "edit_installment"
      /\ structure # None
      /\ installment' = [installment EXCEPT ![j.installment] = j.new]
      /\ overwritten' = IF j.new.status # j.seen.status \/ j.installment \in missed[w]
                        THEN overwritten \cup {j.installment}
                        ELSE overwritten
      /\ amended' = IF Claim(j.new) # Claim(j.seen)
                    THEN amended \cup {j.seen.student, j.new.student}
                    ELSE amended
      /\ End(w, {j.installment})
      /\ UNCHANGED <<lead, student, admission, structure, payment>>
      /\ UNCHANGED <<reopened, paid>>
  BY DEF SaveInstallment
<1>2. EditsInstallment(w) /\ j \in InstallmentEdit
  BY <1>1, JobKinds DEF IInv, EditsInstallment
<1>3. /\ j.installment \in Slots /\ j.seen \in InstallmentRow /\ j.new \in InstallmentRow
      /\ j.new # None /\ student[j.installment[1]] # None /\ student[j.new.student] # None
      /\ j.installment \notin missed[w] => installment[j.installment] = j.seen
      /\ WrittenBy(student, amended, j.installment, j.seen)
  BY <1>2, NoneAssumption DEF InstallmentEdit, IInv, JobsBacked, EditsCurrent
<1>4. /\ \A v \in Workers \ {w} : pc'[v] = pc[v] /\ job'[v] = job[v]
      /\ \A v \in Workers : Converts(v)' => v # w /\ Converts(v)
      /\ \A v \in Workers : Pays(v)' => v # w /\ Pays(v)
      /\ \A v \in Workers : EditsInstallment(v)' => v # w /\ EditsInstallment(v)
      /\ Jobs'
  BY <1>1, EndJobs DEF IInv, Jobs, JobsTyped
<1> HIDE DEF j
<1>5. /\ installment' \in [Slots -> InstallmentRow \cup {None}]
      /\ installment'[j.installment] = j.new
      /\ \A i \in Slots : i # j.installment => installment'[i] = installment[i]
  BY <1>1, <1>3 DEF IInv, TypeOK
<1>6. TypeOK'
  <2>1. \A p \in Payments : payment[p] # None /\ payment[p].installment # None =>
          installment'[payment[p].installment] # None
    BY <1>3, <1>5 DEF IInv, TypeOK, PaymentRow
  <2>2. amended' \subseteq Students
    BY <1>1, <1>3 DEF IInv, TypeOK, InstallmentRow
  <2>3. QED
    BY <1>1, <1>3, <1>5, <2>1, <2>2 DEF IInv, TypeOK
<1>7. JobsBacked'
  <2>1. ASSUME NEW v \in Workers, Pays(v)', job'[v].installment # None
        PROVE  installment'[job'[v].installment] # None
    BY <2>1, <1>3, <1>4, <1>5, JobKinds DEF IInv, JobsBacked, PaymentMade
  <2>2. QED
    BY <1>1, <1>4, <2>1 DEF IInv, JobsBacked
<1>8. LeadsSettled' /\ OneStudentPerLead' /\ PaidOnRecord'
  BY <1>1 DEF IInv, LeadsSettled, OneStudentPerLead, PaidOnRecord
<1>9. EditsCurrent'
  <2>1. PICK rows : rows = {j.installment}
    OBVIOUS
  <2>2. \A v \in Workers : EditsInstallment(v)' =>
          /\ EditsInstallment(v) /\ job'[v] = job[v]
          /\ missed[v] \cup rows \subseteq missed'[v]
    BY <1>1, <2>1, EndStays
  <2>3. ASSUME NEW v \in Workers, EditsInstallment(v)', job[v].installment \notin rows
        PROVE  installment'[job[v].installment] = installment[job[v].installment]
    BY <2>1, <2>2, <2>3, <1>5, JobKinds DEF IInv, InstallmentEdit
  <2>4. StudentsStay /\ amended \subseteq amended'
    BY <1>1 DEF StudentsStay
  <2>5. QED
    BY <1>4, <2>2, <2>3, <2>4, EditsStay DEF IInv, Jobs
<1>10. PaymentHolds'
  BY <1>1, <1>3, <1>5 DEF IInv, TypeOK, PaymentHolds
<1>11. SharesAreWritten'
  <2>1. WrittenBy(student, amended', j.installment, j.new)
    <3>1. CASE Claim(j.new) = Claim(j.seen)
      BY <3>1, <1>1, <1>3 DEF Claim, WrittenBy
    <3>2. CASE Claim(j.new) # Claim(j.seen)
      <4>1. amended' = amended \cup {j.seen.student, j.new.student}
        BY <3>2, <1>1
      <4>2. QED
        BY <4>1, <1>3 DEF WrittenBy
    <3>3. QED
      BY <3>1, <3>2
  <2>2. StudentsStay /\ amended \subseteq amended'
    BY <1>1 DEF StudentsStay
  <2>3. QED
    BY <1>1, <1>3, <1>5, <2>1, <2>2, SharesStay DEF SharesAreWritten
<1>12. QED
  BY <1>4, <1>6, <1>7, <1>8, <1>9, <1>10, <1>11 DEF IInv, Jobs

-----------------------------------------------------------------------------
LEMMA IInvStep ==
  ASSUME IInv, NoneAssumption, ScenarioAssumption, [Next]_vars
  PROVE  IInv'
<1>1. CASE \E some \in SUBSET Leads : \E new \in [some -> Stages] : some # {} /\ CreateLeads(new)
  BY <1>1, CreateLeadsStep
<1>2. CASE \E l \in Leads : DeleteLead(l)
  BY <1>2, DeleteLeadStep
<1>3. CASE \E i \in Slots : DeleteInstallment(i) \/ PostInstallment(i)
  BY <1>3, DeleteInstallmentStep, PostInstallmentStep
<1>4. CASE DeleteStructure
  BY <1>4, DeleteStructureStep
<1>5. CASE \E n \in 0..MaxInstallments : EditStructure(n)
  BY <1>5, EditStructureStep
<1>6. CASE \E p \in Payments : PostPayment(p) \/ MovePayment(p) \/ DeletePayment(p)
  BY <1>6, PaymentSteps
<1>7. CASE \E w \in Workers :
             \/ Convert(w) \/ Pay(w) \/ SendMail(w) \/ RollBack(w)
             \/ CommitConversion(w) \/ CommitPayment(w)
             \/ LoadLead(w) \/ SaveLead(w) \/ LoadInstallment(w) \/ SaveInstallment(w)
  BY <1>7, ConvertStep, PayStep, SendMailStep, RollBackStep, CommitConversionStep,
     CommitPaymentStep, LoadLeadStep, SaveLeadStep, LoadInstallmentStep, SaveInstallmentStep
<1>8. CASE UNCHANGED vars
  <2>1. Jobs'
    BY <1>8 DEF vars, IInv, Jobs, JobsTyped, Under, KeysApart, LeadsLocked, Converts
  <2>2. TypeOK' /\ LeadsSettled' /\ OneStudentPerLead' /\ PaidOnRecord' /\ SharesAreWritten'
          /\ PaymentHolds'
    BY <1>8 DEF vars, IInv, TypeOK, LeadsSettled, OneStudentPerLead, PaidOnRecord,
                SharesAreWritten, PaymentHolds
  <2>3. JobsBacked' /\ EditsCurrent'
    BY <1>8 DEF vars, IInv, JobsBacked, EditsCurrent, Converts, Pays, EditsInstallment
  <2>4. QED
    BY <2>1, <2>2, <2>3 DEF IInv, Jobs
<1>9. QED
  BY <1>1, <1>2, <1>3, <1>4, <1>5, <1>6, <1>7, <1>8 DEF Next

LEMMA IInvInit ==
  ASSUME Init, NoneAssumption, ScenarioAssumption
  PROVE  IInv
<1>1. /\ lead \in [Leads -> Stages \cup {None}] /\ structure \in 0..MaxInstallments \cup {None}
  BY DEF Init, ScenarioAssumption
<1>2. /\ student = [s \in Students |-> None] /\ admission = {}
      /\ installment = [i \in Slots |-> None] /\ payment = [p \in Payments |-> None]
      /\ pc = [w \in Workers |-> "idle"] /\ job = [w \in Workers |-> NoJob]
      /\ reopened = {} /\ paid = {} /\ overwritten = {} /\ amended = {}
  BY DEF Init
<1>3. TypeOK
  BY <1>1, <1>2 DEF TypeOK
<1>4. JobsTyped /\ KeysApart /\ LeadsLocked
  BY <1>2 DEF JobsTyped, KeysApart, LeadsLocked, Converts
<1>5. JobsBacked /\ EditsCurrent
  BY <1>2 DEF JobsBacked, EditsCurrent, Converts, Pays, EditsInstallment
<1>6. LeadsSettled /\ OneStudentPerLead /\ PaidOnRecord /\ SharesAreWritten /\ PaymentHolds
  BY <1>2 DEF LeadsSettled, OneStudentPerLead, PaidOnRecord, SharesAreWritten, PaymentHolds
<1>7. QED
  BY <1>3, <1>4, <1>5, <1>6 DEF IInv

\* What the finance and lead services keep between any two of their steps: the rows' shapes, what
\* a request in flight may rely on, and the properties below.
THEOREM Invariance == Spec => []IInv
<1>1. Init => IInv
  BY IInvInit, NoneAssumption, ScenarioAssumption
<1>2. IInv /\ [Next]_vars => IInv'
  BY IInvStep, NoneAssumption, ScenarioAssumption
<1>3. QED
  BY <1>1, <1>2, PTL DEF Spec

\* Rows refer to rows that are there, and a lead becomes one student unless an edit puts it
\* back: the conversion looks at the stage under the lead's row lock.
THEOREM AdmissionsAreSound == Spec => []AdmissionsIntegrity
<1>1. IInv => AdmissionsIntegrity
  BY DEF IInv, AdmissionsIntegrity
<1>2. QED
  BY <1>1, Invariance, PTL

\* What record_payment has marked stays PAID but for the edits that name another status or
\* write back an older row.
THEOREM PaymentsHold == Spec => []PaymentHolds
<1>1. IInv => PaymentHolds
  BY DEF IInv
<1>2. QED
  BY <1>1, Invariance, PTL

\* Between the mail of a conversion or a payment and its commit nobody admits or deletes the lead,
\* nor deletes the installment (select_for_update in convert_lead_to_student and record_payment).
THEOREM MailedWorkIsKept == Spec => []MailedWorkStands
<1>1. IInv => MailedWorkStands
  BY DEF IInv, JobsBacked, Converts, Pays, MailedWorkStands
<1>2. QED
  BY <1>1, Invariance, PTL

-----------------------------------------------------------------------------
(* Sums over finite sets, whose running totals SumFunctionOnSet defines.      *)

\* The library adds up over a set one chosen element at a time, by a function on its subsets.
One(s) == CHOOSE x \in s : TRUE
Adds(f, S, g) == g = [s \in SUBSET S |-> IF s = {} THEN 0 ELSE f[One(s)] + g[s \ {One(s)}]]
Running(f, S) == CHOOSE g : Adds(f, S, g)

\* Of a family of subsets of a finite set, one contains no other.
LEMMA Smallest ==
  ASSUME NEW S, IsFiniteSet(S), NEW F \in SUBSET (SUBSET S), F # {}
  PROVE  \E T \in F : IsFiniteSet(T) /\ \A U \in F : U \subseteq T => U = T
<1>1. IsWellFoundedOn(StrictSubsetOrdering(S), FiniteSubsetsOf(S))
  BY FS_StrictSubsetOrderingWellFounded
<1>2. F \subseteq FiniteSubsetsOf(S)
  BY FS_Subset DEF FiniteSubsetsOf
<1>3. PICK T \in F : \A U \in F : ~ (<<U, T>> \in StrictSubsetOrdering(S))
  BY <1>1, <1>2, WFMin
<1>4. \A U \in F : U \subseteq T => U = T
  BY <1>3 DEF StrictSubsetOrdering
<1>5. QED
  BY <1>2, <1>4 DEF FiniteSubsetsOf

LEMMA OneIsIn == ASSUME NEW s, s # {} PROVE One(s) \in s
BY DEF One

\* The running sums over two sets agree where both are defined.
LEMMA RunningAgree ==
  ASSUME NEW S, IsFiniteSet(S), NEW T \in SUBSET S, NEW f, NEW g, NEW h, Adds(f, S, g), Adds(f, T, h)
  PROVE  \A s \in SUBSET T : g[s] = h[s]
<1> DEFINE F == {s \in SUBSET T : g[s] # h[s]}
<1>1. SUFFICES ASSUME F # {} PROVE FALSE
  OBVIOUS
<1>2. IsFiniteSet(T)
  BY FS_Subset
<1>3. PICK s \in F : \A u \in F : u \subseteq s => u = s
  <2>1. F \in SUBSET (SUBSET T)
    OBVIOUS
  <2> HIDE DEF F
  <2>2. QED
    BY <1>1, <1>2, <2>1, Smallest
<1>4. s \in SUBSET T /\ s \in SUBSET S /\ g[s] # h[s]
  OBVIOUS
<1>5. /\ g[s] = IF s = {} THEN 0 ELSE f[One(s)] + g[s \ {One(s)}]
      /\ h[s] = IF s = {} THEN 0 ELSE f[One(s)] + h[s \ {One(s)}]
  BY <1>4 DEF Adds
<1>6. s # {}
  BY <1>4, <1>5
<1>7. One(s) \in s
  BY <1>6, OneIsIn
<1>8. s \ {One(s)} \in SUBSET T /\ s \ {One(s)} \subseteq s /\ s \ {One(s)} # s
  BY <1>4, <1>7
<1>9. g[s \ {One(s)}] = h[s \ {One(s)}]
  BY <1>3, <1>8
<1>10. QED
  BY <1>4, <1>5, <1>6, <1>9

\* There are running sums over every finite set.
LEMMA RunningAdds ==
  ASSUME NEW S, IsFiniteSet(S), NEW f
  PROVE  Adds(f, S, Running(f, S))
<1> DEFINE F == {T \in SUBSET S : ~ \E g : Adds(f, T, g)}
<1>1. SUFFICES ASSUME F # {} PROVE FALSE
  BY DEF Running
<1>2. PICK T \in F : IsFiniteSet(T) /\ \A U \in F : U \subseteq T => U = T
  <2>1. F \in SUBSET (SUBSET S)
    OBVIOUS
  <2> HIDE DEF F
  <2>2. QED
    BY <1>1, <2>1, Smallest
<1>3. T \in SUBSET S /\ ~ \E g : Adds(f, T, g)
  OBVIOUS
<1>4. ASSUME NEW U \in SUBSET T, U # T PROVE Adds(f, U, Running(f, U))
  BY <1>2, <1>3, <1>4 DEF Running
<1> DEFINE Rest(s) == s \ {One(s)}
<1> DEFINE g == [s \in SUBSET T |-> IF s = {} THEN 0 ELSE f[One(s)] + Running(f, Rest(s))[Rest(s)]]
<1>5. ASSUME NEW s \in SUBSET T, s # {}
      PROVE  g[Rest(s)] = Running(f, Rest(s))[Rest(s)]
  <2>1. One(s) \in s
    BY <1>5, OneIsIn
  <2>2. /\ Rest(s) \in SUBSET T /\ Rest(s) # T /\ IsFiniteSet(Rest(s))
        /\ Adds(f, Rest(s), Running(f, Rest(s)))
    <3>1. Rest(s) \in SUBSET T /\ Rest(s) # T
      BY <2>1
    <3>2. QED
      BY <3>1, <1>2, <1>4, FS_Subset
  <2>3. CASE Rest(s) = {}
    BY <2>2, <2>3 DEF Adds
  <2>4. CASE Rest(s) # {}
    <3> DEFINE r == Rest(s)
               q == Rest(Rest(s))
    <3>1. One(r) \in r /\ q \in SUBSET r /\ q # T /\ q \in SUBSET T /\ IsFiniteSet(r)
      BY <2>2, <2>4, OneIsIn
    <3>2. Adds(f, q, Running(f, q)) /\ Adds(f, r, Running(f, r))
      BY <2>2, <3>1, <1>4
    <3> HIDE DEF q, r, Rest
    <3>3. Running(f, r)[q] = Running(f, q)[q]
      BY <3>1, <3>2, RunningAgree
    <3>4. Running(f, r)[r] = f[One(r)] + Running(f, r)[q]
      BY <3>2, <2>4 DEF Adds, q, r, Rest
    <3>5. g[r] = f[One(r)] + Running(f, q)[q]
      BY <2>2, <2>4 DEF q, r
    <3>6. QED
      BY <3>3, <3>4, <3>5 DEF r
  <2>5. QED
    BY <2>3, <2>4
<1>6. Adds(f, T, g)
  <2>1. g = [s \in SUBSET T |-> IF s = {} THEN 0 ELSE f[One(s)] + g[s \ {One(s)}]]
    <3>1. \A s \in SUBSET T : s # {} => g[s] = f[One(s)] + g[s \ {One(s)}]
      BY <1>5
    <3>2. g[{}] = 0
      OBVIOUS
    <3>3. QED
      BY <3>1, <3>2
  <2>2. QED
    BY <2>1 DEF Adds
<1>7. QED
  BY <1>3, <1>6

LEMMA SumRuns ==
  ASSUME NEW f, NEW S
  PROVE  SumFunctionOnSet(f, S) = Running(f, S)[S]
BY DEF SumFunctionOnSet, FoldFunctionOnSet, MapThenFoldSet, Running, Adds, One

LEMMA SumEmpty ==
  ASSUME NEW f
  PROVE  SumFunctionOnSet(f, {}) = 0
<1>1. Adds(f, {}, Running(f, {}))
  BY RunningAdds, FS_EmptySet
<1>2. QED
  BY <1>1, SumRuns DEF Adds

LEMMA SumStep ==
  ASSUME NEW f, NEW S, IsFiniteSet(S), S # {}
  PROVE  SumFunctionOnSet(f, S) = f[One(S)] + SumFunctionOnSet(f, S \ {One(S)})
<1> DEFINE T == S \ {One(S)}
<1>1. IsFiniteSet(T) /\ T \in SUBSET S
  BY FS_Subset
<1>2. Adds(f, T, Running(f, T)) /\ Adds(f, S, Running(f, S))
  BY <1>1, RunningAdds
<1>3. Running(f, S)[T] = Running(f, T)[T]
  BY <1>1, <1>2, RunningAgree
<1>4. Running(f, S)[S] = f[One(S)] + Running(f, S)[T]
  BY <1>2 DEF Adds
<1>5. QED
  BY <1>3, <1>4, SumRuns

\* A family that has the empty set, and with a subset of S what comes of adding an element, has S.
LEMMA ByAdding ==
  ASSUME NEW S, IsFiniteSet(S), NEW F, {} \in F,
         \A T \in F : \A x \in S \ T : T \in SUBSET S => T \cup {x} \in F
  PROVE  S \in F
<1> DEFINE Out == {T \in SUBSET S : T \notin F}
<1>1. SUFFICES ASSUME Out # {} PROVE FALSE
  OBVIOUS
<1>2. PICK T \in Out : \A U \in Out : U \subseteq T => U = T
  <2>1. Out \in SUBSET (SUBSET S)
    OBVIOUS
  <2> HIDE DEF Out
  <2>2. QED
    BY <1>1, <2>1, Smallest
<1>3. PICK x \in T : TRUE
  BY <1>2
<1>4. T \ {x} \in F /\ x \in S \ (T \ {x}) /\ T \ {x} \in SUBSET S /\ T = (T \ {x}) \cup {x}
  BY <1>2, <1>3
<1>5. QED
  BY <1>2, <1>4

IntegerOn(f, S) == \A x \in S : f[x] \in Int

LEMMA SumType ==
  ASSUME NEW S, IsFiniteSet(S), NEW f, IntegerOn(f, S)
  PROVE  SumFunctionOnSet(f, S) \in Int
<1> DEFINE F == {T \in SUBSET S : SumFunctionOnSet(f, T) \notin Int}
<1>1. SUFFICES ASSUME F # {} PROVE FALSE
  OBVIOUS
<1>2. PICK T \in F : IsFiniteSet(T) /\ \A U \in F : U \subseteq T => U = T
  <2>1. F \in SUBSET (SUBSET S)
    OBVIOUS
  <2> HIDE DEF F
  <2>2. QED
    BY <1>1, <2>1, Smallest
<1>3. T # {}
  BY <1>2, SumEmpty
<1>4. One(T) \in T
  BY <1>3, OneIsIn
<1>5. SumFunctionOnSet(f, T \ {One(T)}) \in Int
  BY <1>2, <1>4
<1>6. QED
  BY <1>2, <1>3, <1>4, <1>5, SumStep DEF IntegerOn

\* The order does not matter: any element may come last.
LEMMA SumAny ==
  ASSUME NEW S, IsFiniteSet(S), NEW f, IntegerOn(f, S), NEW x \in S
  PROVE  SumFunctionOnSet(f, S) = f[x] + SumFunctionOnSet(f, S \ {x})
<1> DEFINE Without(T, y) == SumFunctionOnSet(f, T) = f[y] + SumFunctionOnSet(f, T \ {y})
           F == {T \in SUBSET S : \E y \in T : ~Without(T, y)}
<1>1. SUFFICES ASSUME F # {} PROVE FALSE
  OBVIOUS
<1>2. PICK T \in F : IsFiniteSet(T) /\ \A U \in F : U \subseteq T => U = T
  <2>1. F \in SUBSET (SUBSET S)
    OBVIOUS
  <2> HIDE DEF F
  <2>2. QED
    BY <1>1, <2>1, Smallest
<1>3. PICK y \in T : ~Without(T, y)
  OBVIOUS
<1> DEFINE o == One(T)
<1>4. o \in T /\ Without(T, o) /\ o # y
  BY <1>2, <1>3, OneIsIn, SumStep
<1>5. Without(T \ {y}, o) /\ Without(T \ {o}, y)
  BY <1>2, <1>3, <1>4
<1>6. (T \ {y}) \ {o} = (T \ {o}) \ {y} /\ IsFiniteSet((T \ {y}) \ {o}) /\ (T \ {y}) \ {o} \in SUBSET S
  BY <1>2, FS_Subset
<1>7. SumFunctionOnSet(f, (T \ {y}) \ {o}) \in Int /\ f[o] \in Int /\ f[y] \in Int
  BY <1>3, <1>4, <1>6, SumType DEF IntegerOn
<1> DEFINE r == SumFunctionOnSet(f, (T \ {y}) \ {o})
<1>8. /\ SumFunctionOnSet(f, T) = f[o] + SumFunctionOnSet(f, T \ {o})
      /\ SumFunctionOnSet(f, T \ {o}) = f[y] + r
      /\ SumFunctionOnSet(f, T \ {y}) = f[o] + r
  BY <1>4, <1>5, <1>6
<1>9. r \in Int
  BY <1>7
<1> HIDE DEF r, o
<1>10. SumFunctionOnSet(f, T) = f[y] + SumFunctionOnSet(f, T \ {y})
  BY <1>7, <1>8, <1>9
<1>11. QED
  BY <1>3, <1>10

LEMMA SumAdding ==
  ASSUME NEW T, IsFiniteSet(T), NEW f, IntegerOn(f, T), NEW x, x \notin T, f[x] \in Int
  PROVE  /\ SumFunctionOnSet(f, T \cup {x}) = f[x] + SumFunctionOnSet(f, T)
         /\ SumFunctionOnSet(f, T) \in Int
<1>1. IsFiniteSet(T \cup {x})
  BY FS_AddElement
<1>2. (T \cup {x}) \ {x} = T
  OBVIOUS
<1>3. IntegerOn(f, T \cup {x})
  BY DEF IntegerOn
<1>4. QED
  BY <1>1, <1>2, <1>3, SumAny, SumType

\* A part of a sum.
LEMMA SumPart ==
  ASSUME NEW S, IsFiniteSet(S), NEW f, IntegerOn(f, S), NEW T \in SUBSET S
  PROVE  IsFiniteSet(T) /\ IntegerOn(f, T) /\ SumFunctionOnSet(f, T) \in Int
<1>1. IsFiniteSet(T) /\ IntegerOn(f, T)
  BY FS_Subset DEF IntegerOn
<1>2. QED
  BY <1>1, SumType

\* Sums of the same values are the same.
LEMMA SumSame ==
  ASSUME NEW S, IsFiniteSet(S), NEW f, NEW g, IntegerOn(f, S), \A x \in S : f[x] = g[x]
  PROVE  SumFunctionOnSet(f, S) = SumFunctionOnSet(g, S)
<1> DEFINE F == {T \in SUBSET S : SumFunctionOnSet(f, T) = SumFunctionOnSet(g, T)}
<1>1. {} \in F
  BY SumEmpty
<1>0. IntegerOn(g, S)
  BY DEF IntegerOn
<1>2. ASSUME NEW T \in F, NEW x \in S \ T, T \in SUBSET S PROVE T \cup {x} \in F
  <2> HIDE DEF F
  <2>1. IsFiniteSet(T) /\ IntegerOn(f, T) /\ f[x] \in Int /\ x \notin T
    BY <1>0, <1>2, SumPart DEF IntegerOn
  <2>2. /\ SumFunctionOnSet(f, T \cup {x}) = f[x] + SumFunctionOnSet(f, T)
        /\ f[x] \in Int /\ SumFunctionOnSet(f, T) \in Int
    BY <2>1, SumAdding
  <2>3. IsFiniteSet(T) /\ IntegerOn(g, T) /\ g[x] \in Int /\ x \notin T
    BY <1>0, <1>2, SumPart DEF IntegerOn
  <2>4. /\ SumFunctionOnSet(g, T \cup {x}) = g[x] + SumFunctionOnSet(g, T)
        /\ g[x] \in Int /\ SumFunctionOnSet(g, T) \in Int
    BY <2>3, SumAdding
  <2>5. SumFunctionOnSet(f, T) = SumFunctionOnSet(g, T)
    BY <1>2 DEF F
  <2>6. QED
    BY <1>2, <2>2, <2>4, <2>5 DEF F
<1>3. S \in F
  <2> HIDE DEF F
  <2>1. QED
    BY <1>1, <1>2, ByAdding
<1>4. QED
  BY <1>3

\* Two disjoint sets.
LEMMA SumUnion ==
  ASSUME NEW S, IsFiniteSet(S), NEW f, IntegerOn(f, S), NEW A \in SUBSET S, NEW B \in SUBSET S,
         A \cap B = {}
  PROVE  SumFunctionOnSet(f, A \cup B) = SumFunctionOnSet(f, A) + SumFunctionOnSet(f, B)
<1> DEFINE Apart(T) == SumFunctionOnSet(f, A \cup T) = SumFunctionOnSet(f, A) + SumFunctionOnSet(f, T)
           F == {T \in SUBSET B : Apart(T)}
<1>1. IsFiniteSet(B) /\ IsFiniteSet(A) /\ IntegerOn(f, A) /\ IntegerOn(f, B)
  BY FS_Subset DEF IntegerOn
<1>2. {} \in F
  BY <1>1, SumEmpty, SumType
<1>3. ASSUME NEW T \in F, NEW x \in B \ T, T \in SUBSET B PROVE T \cup {x} \in F
  <2>1. x \in S \ (A \cup T) /\ (A \cup T) \cup {x} = A \cup (T \cup {x}) /\ A \cup T \in SUBSET S
    BY <1>3
  <2>3. Apart(T)
    OBVIOUS
  <2> HIDE DEF F
  <2>2. /\ SumFunctionOnSet(f, A \cup (T \cup {x})) = f[x] + SumFunctionOnSet(f, A \cup T)
        /\ SumFunctionOnSet(f, T \cup {x}) = f[x] + SumFunctionOnSet(f, T)
        /\ f[x] \in Int /\ SumFunctionOnSet(f, T) \in Int /\ SumFunctionOnSet(f, A) \in Int
    <3> DEFINE U == A \cup T
    <3>1. U \cup {x} = A \cup (T \cup {x}) /\ U \in SUBSET S /\ x \in S \ U
      BY <2>1
    <3> HIDE DEF U
    <3>2. IsFiniteSet(U) /\ IntegerOn(f, U) /\ f[x] \in Int /\ x \notin U
      BY <3>1, SumPart DEF IntegerOn
    <3>3. SumFunctionOnSet(f, U \cup {x}) = f[x] + SumFunctionOnSet(f, U)
      BY <3>2, SumAdding
    <3>4. IsFiniteSet(T) /\ IntegerOn(f, T) /\ x \notin T
      BY <1>1, <1>3, SumPart
    <3>5. /\ SumFunctionOnSet(f, T \cup {x}) = f[x] + SumFunctionOnSet(f, T)
          /\ SumFunctionOnSet(f, T) \in Int
      BY <3>2, <3>4, SumAdding
    <3>6. QED
      BY <3>1, <3>2, <3>3, <3>5, <1>1, SumType DEF U
  <2>4. Apart(T \cup {x})
    BY <2>2, <2>3
  <2>5. QED
    BY <2>4, <1>3 DEF F
<1>4. B \in F
  <2> HIDE DEF F
  <2>1. QED
    BY <1>1, <1>2, <1>3, ByAdding
<1>5. QED
  BY <1>4

\* Larger values have a larger sum.
LEMMA SumOrder ==
  ASSUME NEW S, IsFiniteSet(S), NEW f, NEW g, IntegerOn(f, S), IntegerOn(g, S),
         \A x \in S : f[x] <= g[x]
  PROVE  SumFunctionOnSet(f, S) <= SumFunctionOnSet(g, S)
<1> DEFINE F == {T \in SUBSET S : SumFunctionOnSet(f, T) <= SumFunctionOnSet(g, T)}
<1>1. {} \in F
  BY SumEmpty
<1>2. ASSUME NEW T \in F, NEW x \in S \ T, T \in SUBSET S PROVE T \cup {x} \in F
  <2> HIDE DEF F
  <2>1. IsFiniteSet(T) /\ IntegerOn(f, T) /\ f[x] \in Int /\ x \notin T
    BY <1>2, SumPart DEF IntegerOn
  <2>2. /\ SumFunctionOnSet(f, T \cup {x}) = f[x] + SumFunctionOnSet(f, T)
        /\ f[x] \in Int /\ SumFunctionOnSet(f, T) \in Int
    BY <2>1, SumAdding
  <2>3. IsFiniteSet(T) /\ IntegerOn(g, T) /\ g[x] \in Int /\ x \notin T
    BY <1>2, SumPart DEF IntegerOn
  <2>4. /\ SumFunctionOnSet(g, T \cup {x}) = g[x] + SumFunctionOnSet(g, T)
        /\ g[x] \in Int /\ SumFunctionOnSet(g, T) \in Int
    BY <2>3, SumAdding
  <2>5. SumFunctionOnSet(f, T) <= SumFunctionOnSet(g, T) /\ f[x] <= g[x]
    BY <1>2 DEF F
  <2>6. QED
    BY <1>2, <2>2, <2>4, <2>5 DEF F
<1>3. S \in F
  <2> HIDE DEF F
  <2>1. QED
    BY <1>1, <1>2, ByAdding
<1>4. QED
  BY <1>3

\* Equal values.
LEMMA SumEqual ==
  ASSUME NEW S, IsFiniteSet(S), NEW f, NEW c \in Int, \A x \in S : f[x] = c
  PROVE  SumFunctionOnSet(f, S) = c * Cardinality(S)
<1> DEFINE F == {T \in SUBSET S : SumFunctionOnSet(f, T) = c * Cardinality(T)}
<1>1. {} \in F
  BY SumEmpty, FS_EmptySet
<1>0. IntegerOn(f, S)
  BY DEF IntegerOn
<1>2. ASSUME NEW T \in F, NEW x \in S \ T, T \in SUBSET S PROVE T \cup {x} \in F
  <2>1. SumFunctionOnSet(f, T \cup {x}) = c + SumFunctionOnSet(f, T) /\ IsFiniteSet(T)
    <3>1. IsFiniteSet(T) /\ IntegerOn(f, T) /\ f[x] = c /\ x \notin T
      BY <1>0, <1>2, SumPart
    <3>2. QED
      BY <3>1, SumAdding
  <2>2. Cardinality(T \cup {x}) = Cardinality(T) + 1 /\ Cardinality(T) \in Nat
    BY <1>2, <2>1, FS_AddElement, FS_CardinalityType
  <2>3. \A n \in Nat : c * (n + 1) = c + c * n
    OBVIOUS
  <2>4. QED
    BY <1>2, <2>1, <2>2, <2>3
<1>3. S \in F
  <2> HIDE DEF F
  <2>1. QED
    BY <1>1, <1>2, ByAdding
<1>4. QED
  BY <1>3

-----------------------------------------------------------------------------
(* What is counted and added up.                                            *)

\* Amounts, of slots that have a row.
Due(slots) == slots \subseteq Slots /\ \A i \in slots : installment[i] # None

LEMMA SlotsAreFinite == IsFiniteSet(Slots)
<1>1. 1 \in Int /\ MaxInstallments \in Int
  BY ScenarioAssumption
<1>2. IsFiniteSet(1..MaxInstallments)
  BY <1>1, FS_Interval
<1>3. QED
  BY <1>2, FiniteAssumption, FS_Product DEF Slots

LEMMA AmountsAreIntegers ==
  ASSUME IInv, NEW i \in Slots, installment[i] # None
  PROVE  installment[i].amount \in Int
BY DEF IInv, TypeOK, InstallmentRow

\* The installments a student owes before an edit or a POST changes the schedule are among those
\* the conversion has written, each of the share it has computed.
LEMMA WrittenSchedule ==
  ASSUME IInv, NEW s \in Students \ amended, student[s] # None,
         NEW i \in Slots, installment[i] # None, installment[i].student = s
  PROVE  /\ i \in {s} \X (1..student[s].installments)
         /\ installment[i].amount = Rounded(student[s].fee, student[s].installments)
<1>1. i = <<i[1], i[2]>> /\ WrittenBy(student, amended, i, installment[i])
  BY DEF IInv, SharesAreWritten, Slots
<1>2. ~({i[1], installment[i].student} \subseteq amended)
  OBVIOUS
<1>3. i[1] = s /\ i[2] \in 1..student[s].installments
      /\ installment[i].amount = Rounded(student[s].fee, student[s].installments)
  BY <1>1, <1>2 DEF WrittenBy
<1>4. QED
  BY <1>1, <1>3

\* The amounts of installments on record, as one function.
AmountOf == [i \in Slots |-> IF installment[i] = None THEN 0 ELSE installment[i].amount]

LEMMA AmountsAdd ==
  ASSUME IInv, NEW slots, Due(slots)
  PROVE  Amounts(slots) = SumFunctionOnSet(AmountOf, slots) /\ IsFiniteSet(slots)
<1> DEFINE these == [i \in slots |-> installment[i].amount]
<1>1. IsFiniteSet(slots)
  BY SlotsAreFinite, FS_Subset DEF Due
<1>2. IntegerOn(these, slots) /\ \A i \in slots : these[i] = AmountOf[i]
  BY AmountsAreIntegers DEF Due, IntegerOn, AmountOf
<1>3. SumFunctionOnSet(these, slots) = SumFunctionOnSet(AmountOf, slots)
  <2> HIDE DEF these
  <2>1. QED
    BY <1>1, <1>2, SumSame
<1>4. QED
  BY <1>1, <1>3 DEF Amounts, SumFunction

LEMMA AmountIsInteger ==
  ASSUME IInv
  PROVE  IntegerOn(AmountOf, Slots)
BY AmountsAreIntegers DEF IntegerOn, AmountOf

\* Two parts of what is due, without an installment in common, are together at most all of it, as
\* long as no amount is negative.
LEMMA PartsAreDue ==
  ASSUME IInv, \A i \in Slots : installment[i] # None => installment[i].amount >= 0,
         NEW A, NEW B, NEW C, Due(C), A \cup B \subseteq C, A \cap B = {}
  PROVE  Amounts(A) + Amounts(B) <= Amounts(C)
<1> DEFINE R == C \ (A \cup B)
<1>1. Due(A) /\ Due(B) /\ Due(R)
  BY DEF Due
<1>2. IsFiniteSet(C) /\ IntegerOn(AmountOf, C) /\ \A i \in C : AmountOf[i] >= 0
  BY AmountsAdd, AmountIsInteger DEF Due, IntegerOn, AmountOf
<1>3. SumFunctionOnSet(AmountOf, A \cup B) = Amounts(A) + Amounts(B)
  BY <1>1, <1>2, AmountsAdd, SumUnion
<1>4. SumFunctionOnSet(AmountOf, (A \cup B) \cup R) = SumFunctionOnSet(AmountOf, A \cup B) + SumFunctionOnSet(AmountOf, R)
  <2>1. A \cup B \in SUBSET C /\ R \in SUBSET C /\ (A \cup B) \cap R = {}
    OBVIOUS
  <2> DEFINE AB == A \cup B
  <2> HIDE DEF R, AB
  <2>2. SumFunctionOnSet(AmountOf, AB \cup R) = SumFunctionOnSet(AmountOf, AB) + SumFunctionOnSet(AmountOf, R)
    BY <1>2, <2>1, SumUnion DEF AB
  <2>3. QED
    BY <2>2 DEF AB
<1>5. (A \cup B) \cup R = C
  OBVIOUS
<1>6. SumFunctionOnSet(AmountOf, R) >= 0 /\ SumFunctionOnSet(AmountOf, R) \in Int
  <2> DEFINE zero == [i \in R |-> 0]
  <2>2. \A i \in R : zero[i] = 0
    OBVIOUS
  <2>0. IsFiniteSet(R)
    BY <1>2, FS_Difference
  <2>1. IsFiniteSet(R) /\ IntegerOn(AmountOf, R) /\ IntegerOn(zero, R) /\ \A i \in R : zero[i] <= AmountOf[i]
    <3>1. \A i \in R : AmountOf[i] \in Int /\ AmountOf[i] >= 0
      BY <1>2 DEF IntegerOn
    <3> HIDE DEF zero, R
    <3>2. QED
      BY <2>0, <2>2, <3>1 DEF IntegerOn
  <2> HIDE DEF zero, R
  <2>3. SumFunctionOnSet(zero, R) = 0 * Cardinality(R) /\ Cardinality(R) \in Nat
    BY <2>1, <2>2, SumEqual, FS_CardinalityType
  <2>4. SumFunctionOnSet(zero, R) <= SumFunctionOnSet(AmountOf, R) /\ SumFunctionOnSet(AmountOf, R) \in Int
    BY <2>1, SumOrder, SumType
  <2>5. QED
    BY <2>3, <2>4
<1>7. Amounts(A) \in Int /\ Amounts(B) \in Int
  <2>1. IsFiniteSet(A) /\ IntegerOn(AmountOf, A) /\ IsFiniteSet(B) /\ IntegerOn(AmountOf, B)
    BY <1>1, <1>2, AmountsAdd DEF IntegerOn
  <2>2. QED
    BY <1>1, <2>1, AmountsAdd, SumType
<1>8. Amounts(C) = SumFunctionOnSet(AmountOf, C)
  BY AmountsAdd
<1>9. SumFunctionOnSet(AmountOf, C) = Amounts(A) + Amounts(B) + SumFunctionOnSet(AmountOf, R)
  BY <1>3, <1>4, <1>5
<1> HIDE DEF R
<1>10. QED
  BY <1>6, <1>7, <1>8, <1>9

\* Whatever the fee and the number of installments that convert_lead divides it into, and
\* whatever is paid, deleted or written back since: until the installment view set changes what a
\* student is asked for, no more installments than agreed ask for it, and all of them together ask
\* for the agreed fee but for half a unit of currency each.
THEOREM SchedulesCoverFees == Spec => []ScheduleCoversFee
<1>1. ASSUME IInv, NEW s \in Students \ amended, student[s] # None,
             NEW n, n = student[s].installments,
             NEW due, due = {i \in Slots : installment[i] # None /\ installment[i].student = s}
      PROVE  /\ Cardinality(due) <= n
             /\ n > 0 /\ Cardinality(due) = n => 2 * (Amounts(due) - student[s].fee) \in -n..n
  <2> DEFINE slots == {s} \X (1..n)
             share == Rounded(student[s].fee, n)
  <2>1. student[s] \in StudentRow /\ n \in Nat /\ student[s].fee \in Nat
    BY <1>1, ScenarioAssumption DEF IInv, TypeOK, StudentRow
  <2>2. due \subseteq slots /\ \A i \in due : installment[i].amount = share
    BY <1>1, WrittenSchedule
  <2>3. Due(due)
    BY <1>1 DEF Due
  <2>4. IsFiniteSet(slots) /\ Cardinality(slots) = n
    <3>1. IsFiniteSet({s}) /\ Cardinality({s}) = 1
      BY FS_Singleton
    <3>2. IsFiniteSet(1..n) /\ Cardinality(1..n) = n
      BY <2>1, FS_Interval
    <3>3. 1 * n = n
      BY <2>1
    <3> DEFINE one == {s}
               numbers == 1..n
    <3> HIDE DEF one, numbers
    <3>4. /\ IsFiniteSet(one \X numbers)
          /\ Cardinality(one \X numbers) = Cardinality(one) * Cardinality(numbers)
      BY <3>1, <3>2, FS_Product DEF one, numbers
    <3>5. QED
      BY <3>1, <3>2, <3>3, <3>4 DEF one, numbers
  <2> HIDE DEF slots, share
  <2>5. IsFiniteSet(due) /\ Cardinality(due) <= n
    BY <2>2, <2>4, FS_Subset
  <2>6. ASSUME n > 0, Cardinality(due) = n
        PROVE  2 * (Amounts(due) - student[s].fee) \in -n..n
    <3>1. share \in Int /\ 2 * (n * share - student[s].fee) \in -n..n
      BY <2>1, <2>6, RoundedNearest DEF share
    <3>2. \A i \in due : AmountOf[i] = share
      BY <2>2, <2>3 DEF Due, AmountOf
    <3>3. Amounts(due) = share * n
      BY <1>1, <2>3, <2>5, <2>6, <3>1, <3>2, AmountsAdd, SumEqual
    <3>4. share * n = n * share
      BY <2>1, <3>1
    <3>5. QED
      BY <3>1, <3>3, <3>4
  <2>7. QED
    BY <2>5, <2>6
<1>2. IInv => ScheduleCoversFee
  BY <1>1 DEF ScheduleCoversFee
<1>3. QED
  BY <1>2, Invariance, PTL

\* An admission whose lead nothing has put back stands for a lead of its own that the funnel shows
\* as admitted.
LEMMA AdmissionsAreShown ==
  ASSUME IInv
  PROVE  LET put == {s \in admission : student[s].lead \in reopened}
         IN  /\ Cardinality(admission) - Cardinality(put) <= LeadFunnel["admitted"]
             /\ IsFiniteSet(admission)
<1> DEFINE put == {s \in admission : student[s].lead \in reopened}
           rest == admission \ put
           shown == {l \in Leads : lead[l] = "admitted"}
           lead_of == [s \in rest |-> student[s].lead]
<1>1. IsFiniteSet(admission) /\ IsFiniteSet(put) /\ IsFiniteSet(rest) /\ IsFiniteSet(shown)
  <2>1. admission \in SUBSET Students /\ put \in SUBSET Students /\ rest \in SUBSET Students
        /\ shown \in SUBSET Leads
    BY DEF IInv, TypeOK
  <2>2. QED
    BY <2>1, FiniteAssumption, FS_Subset
<1>2. \A s \in rest : /\ s \in Students /\ student[s] # None /\ student[s].lead \notin reopened
                      /\ student[s].lead \in Leads /\ lead[student[s].lead] # None
  BY DEF IInv, TypeOK, StudentRow
<1>3. \A s \in rest : student[s].lead \in shown
  BY <1>2 DEF IInv, LeadsSettled
<1>4. \A s, t \in rest : student[s].lead = student[t].lead => s = t
  BY <1>2 DEF IInv, OneStudentPerLead
<1>5. lead_of \in Injection(rest, shown)
  BY <1>3, <1>4 DEF Injection, IsInjective
<1>6. Cardinality(rest) <= Cardinality(shown)
  <2> HIDE DEF rest, shown, lead_of
  <2>1. QED
    BY <1>1, <1>5, FS_Injection
<1>7. Cardinality(rest) = Cardinality(admission) - Cardinality(put)
  <2>1. admission \cap put = put
    OBVIOUS
  <2>2. QED
    BY <1>1, <2>1, FS_Difference
<1>8. LeadFunnel["admitted"] = Cardinality(shown)
  BY DEF LeadFunnel, Stages
<1>9. QED
  BY <1>1, <1>6, <1>7, <1>8

\* An open lead is none that the funnel shows as admitted.
LEMMA OpenLeadsAreNotAdmitted ==
  Cards.open_leads <= Cardinality({l \in Leads : lead[l] # None}) - LeadFunnel["admitted"]
<1> DEFINE all == {l \in Leads : lead[l] # None}
           open == {l \in Leads : lead[l] # None /\ lead[l] \notin {"admitted", "lost"}}
           shown == {l \in Leads : lead[l] = "admitted"}
<1>1. IsFiniteSet(all) /\ open \in SUBSET (all \ shown) /\ all \cap shown = shown
  BY FiniteAssumption, FS_Subset, NoneAssumption DEF Stages
<1>2. IsFiniteSet(shown) /\ IsFiniteSet(all \ shown) /\ IsFiniteSet(open)
      /\ Cardinality(all \ shown) = Cardinality(all) - Cardinality(shown)
      /\ Cardinality(open) <= Cardinality(all \ shown)
  <2> HIDE DEF all, open, shown
  <2>1. QED
    BY <1>1, FS_Difference, FS_Subset, FS_Intersection
<1>3. LeadFunnel["admitted"] = Cardinality(shown) /\ Cards.open_leads = Cardinality(open)
  BY DEF LeadFunnel, Stages, Cards
<1>4. QED
  BY <1>2, <1>3

\* What the dashboard tells of one state is consistent: every admission on its cards is of a lead
\* its funnel shows as admitted, unless an edit put the lead back; open leads are not among those;
\* and unless an amount is negative, the pending fees leave out what record_payment has marked
\* (_cards and _lead_funnel of analytics_service.py).
THEOREM DashboardIsConsistent == Spec => []DashboardTellsAdmissions
<1>1. IInv => DashboardTellsAdmissions
  <2> SUFFICES ASSUME IInv PROVE DashboardTellsAdmissions
    OBVIOUS
  <2> DEFINE put == {s \in admission : student[s].lead \in reopened}
             settled == {i \in paid \ overwritten : installment[i] # None}
             all == {i \in Slots : installment[i] # None}
             pending == {i \in Slots : installment[i] # None
                                       /\ installment[i].status \in {"PENDING", "OVERDUE"}}
  <2>1. Cards.admissions_this_month - Cardinality(put) <= LeadFunnel["admitted"]
    BY AdmissionsAreShown DEF Cards
  <2>2. ASSUME \A i \in Slots : installment[i] # None => installment[i].amount >= 0
        PROVE  Amounts(pending) + Amounts(settled) <= Amounts(all)
    <3>1. Due(all)
      BY DEF Due
    <3>2. pending \cup settled \subseteq all
      BY DEF IInv, TypeOK
    <3>3. pending \cap settled = {}
      BY DEF IInv, PaymentHolds
    <3> HIDE DEF pending, settled, all
    <3>4. QED
      BY <2>2, <3>1, <3>2, <3>3, PartsAreDue
  <2>3. Cards.pending_fees = Amounts(pending)
    BY DEF Cards
  <2>4. QED
    BY <2>1, <2>2, <2>3, OpenLeadsAreNotAdmitted DEF DashboardTellsAdmissions
<1>2. QED
  BY <1>1, Invariance, PTL
=============================================================================
