--------------------------- MODULE SessionsProofs ---------------------------
(***************************************************************************)
(* Proofs about Sessions, for any number of processes, threads, tokens,    *)
(* outages and deaths, and, in the second half, about Handset.             *)
(***************************************************************************)
EXTENDS Sessions, Handset, FiniteSetTheorems, TLAPS

\* The types, without the ones that depend on the tokens minted so far.
Typed ==
  /\ schema \in Schemas /\ reachable \in BOOLEAN
  /\ lock \in Processes \cup {None}
  /\ boot \in [Processes -> Phases]
  /\ cache \in [Processes -> Answers]
  /\ thread \in [Threads -> Request \cup {None}]
  /\ budget \in [outages: 0..MaxOutages, deaths: 0..MaxDeaths]
  /\ guessed \subseteq Processes /\ slipped \subseteq Processes
  /\ doubled \in BOOLEAN /\ collided \in BOOLEAN
  /\ minted \in Nat

\* The lock belongs to a migrating process, and a process whose connection has not been
\* replaced migrates under it.
LockHeld ==
  /\ lock # None => boot[lock] \in {"plan", "apply"}
  /\ \A p \in Processes \ slipped : boot[p] \in {"plan", "apply"} => lock = p

\* A migration under its lock has looked at tables nobody else has created since.
TurnsTaken ==
  \/ slipped # {}
  \/ ~collided /\ \A p \in Processes : boot[p] = "apply" => schema # "repaired"

\* The threads that may mint a token.
Minting == {t \in Threads : thread[t] # None /\ thread[t].op # "logout"}

\* The bound leaves room for the token of every one of them.
RoomToMint == minted + Cardinality(Minting) <= MaxTokens

\* Requests carry tokens that have been minted, and so do the books about them.
TokensKnown ==
  /\ spent \subseteq 1..minted
  /\ blacklist \cup unrecorded \cup late \subseteq spent
  /\ \A t \in Threads :
       thread[t] # None /\ thread[t].op # "login" => thread[t].token \in 1..minted

\* A request that has passed its check with a token spent before it came in owes it to a use
\* that left no row.
Remembered ==
  /\ spent \subseteq blacklist \cup unrecorded
  /\ \A t \in Threads : thread[t] # None =>
       /\ ~thread[t].afresh => thread[t].token \in spent
       /\ thread[t].verified => thread[t].class # "unknown"
       /\ thread[t].verified /\ thread[t].class = "yes" /\ ~thread[t].afresh
            => thread[t].token \in unrecorded

IInv ==
  /\ Typed /\ LockHeld /\ TurnsTaken /\ RoomToMint /\ TokensKnown /\ Remembered
  /\ TrustNeedsEvidence /\ SpentStaysSpent /\ WritesRunOnce

-----------------------------------------------------------------------------
(* Types.                                                                   *)

LEMMA BootTyped ==
  ASSUME Typed, NEW p \in Processes,
         StartProcess(p) \/ BootStep(p) \/ BreakBoot(p) \/ Die(p)
  PROVE  Typed'
<1>1. CASE StartProcess(p)
  BY <1>1 DEF StartProcess, Booting, Phases, Typed, database, session
<1>2. CASE ProbeAtBoot(p)
  BY <1>2 DEF ProbeAtBoot, Booting, Phases, Typed, database, session
<1>3. CASE TakeLock(p)
  BY <1>3 DEF TakeLock, Booting, Phases, Typed, database, session
<1>4. CASE PlanMigration(p)
  BY <1>4 DEF PlanMigration, Booting, Released, Phases, Typed, database, session
<1>5. CASE ApplyMigration(p)
  BY <1>5 DEF ApplyMigration, Booting, Released, Phases, Schemas, Typed, session
<1>6. CASE Recheck(p)
  <2>1. cache' \in [Processes -> Answers]
    BY <1>6 DEF Recheck, Typed, Answers
  <2>2. QED
    BY <1>6, <2>1 DEF Recheck, Booting, Phases, Typed, database, session
<1>7. CASE BreakBoot(p)
  <2>1. budget' \in [outages: 0..MaxOutages, deaths: 0..MaxDeaths]
    BY <1>7, ConstantsAssumption DEF BreakBoot, Breaking, Typed
  <2>2. boot' \in [Processes -> Phases] /\ slipped' \subseteq Processes
    BY <1>7 DEF BreakBoot, Phases, Typed
  <2>3. QED
    BY <1>7, <2>1, <2>2 DEF BreakBoot, Released, Typed, database, session
<1>8. CASE Die(p)
  <2>1. budget' \in [outages: 0..MaxOutages, deaths: 0..MaxDeaths]
    BY <1>8, ConstantsAssumption DEF Die, Typed
  <2>2. thread' \in [Threads -> Request \cup {None}]
    BY <1>8 DEF Die, Typed
  <2>3. QED
    BY <1>8, <2>1, <2>2 DEF Die, Released, Phases, Answers, Typed, database, session
<1>9. QED
  BY <1>1, <1>2, <1>3, <1>4, <1>5, <1>6, <1>7, <1>8 DEF BootStep

LEMMA EnvironmentTyped ==
  ASSUME Typed, Outage \/ Recovery \/ Deploy
  PROVE  Typed'
<1>1. CASE Outage
  <2>1. budget' \in [outages: 0..MaxOutages, deaths: 0..MaxDeaths]
    BY <1>1, ConstantsAssumption DEF Outage, Typed
  <2>2. QED
    BY <1>1, <2>1 DEF Outage, Phases, Typed, session
<1>2. CASE Recovery
  BY <1>2 DEF Recovery, Typed, booting, session
<1>3. CASE Deploy
  BY <1>3 DEF Deploy, Schemas, Typed, booting, session
<1>4. QED
  BY <1>1, <1>2, <1>3

\* What the threads do leaves a typed request, or none.
LEMMA ArriveTyped ==
  ASSUME Typed, NEW t \in Threads, NEW op \in Operations,
         NEW k \in Tokens \cup {None}, Arrive(t, op, k)
  PROVE  Typed'
<1>1. [op |-> op, token |-> k, class |-> "unknown", verified |-> FALSE, afresh |-> k \notin spent]
        \in Request
  BY DEF Request, Answers
<1>2. QED
  BY <1>1 DEF Arrive, Typed, database, booting, session

LEMMA ArrivalTyped ==
  ASSUME Typed, TokensKnown, RoomToMint, NEW t \in Threads,
         ArriveLogin(t) \/ ArriveRefresh(t) \/ ArriveLogout(t)
  PROVE  Typed'
<1>1. 1..minted \subseteq Tokens
  <2>1. Cardinality(Minting) \in Nat
    BY ConstantsAssumption, FS_Subset, FS_CardinalityType DEF Minting
  <2>2. QED
    BY <2>1, ConstantsAssumption DEF RoomToMint, Tokens, Typed
<1>2. \E op \in Operations, k \in Tokens \cup {None} : Arrive(t, op, k)
  BY <1>1 DEF ArriveLogin, ArriveRefresh, ArriveLogout, Operations
<1>3. QED
  BY <1>2, ArriveTyped

LEMMA RequestTyped ==
  ASSUME Typed, NEW t \in Threads, RequestStep(t) \/ BreakRequest(t)
  PROVE  Typed'
<1>1. CASE PickClass(t)
  <2>1. \E answer \in Answers :
          /\ cache' = [cache EXCEPT ![Home[t]] = answer]
          /\ thread' = [thread EXCEPT ![t].class = answer]
    BY <1>1, ConstantsAssumption DEF PickClass, Answer, Answers, Typed
  <2>2. thread[t] \in Request
    BY <1>1 DEF PickClass, Typed
  <2>3. thread' \in [Threads -> Request \cup {None}]
    BY <2>1, <2>2 DEF Typed, Request
  <2>4. guessed' \subseteq Processes
    BY <1>1, ConstantsAssumption DEF PickClass, Typed
  <2>5. QED
    BY <1>1, <2>1, <2>3, <2>4 DEF PickClass, Typed, database, booting, session
<1>2. CASE MintAtLogin(t)
  BY <1>2 DEF MintAtLogin, Respond, Typed, database, booting
<1>3. CASE FailRequest(t)
  BY <1>3 DEF FailRequest, Respond, Typed, database, booting, session
<1>4. CASE VerifyRefresh(t)
  <2>1. thread[t] \in Request
    BY <1>4 DEF VerifyRefresh, Working, Typed
  <2>2. thread' \in [Threads -> Request \cup {None}]
    BY <1>4, <2>1 DEF VerifyRefresh, Typed, Request
  <2>3. QED
    BY <1>4, <2>2 DEF VerifyRefresh, Typed, database, booting, session
<1>5. CASE RejectRefresh(t)
  BY <1>5 DEF RejectRefresh, Respond, Typed, database, booting, session
<1>6. CASE Rotate(t)
  BY <1>6 DEF Rotate, Respond, Typed, database, booting
<1>7. CASE Logout(t)
  BY <1>7 DEF Logout, Respond, Typed, database, booting
<1>8. CASE BreakRequest(t)
  <2>1. budget' \in [outages: 0..MaxOutages, deaths: 0..MaxDeaths]
    BY <1>8, ConstantsAssumption DEF BreakRequest, Breaking, Typed
  <2>2. doubled' \in BOOLEAN
    BY <1>8 DEF BreakRequest, Typed
  <2>3. QED
    BY <1>8, <2>1, <2>2 DEF BreakRequest, Respond, Typed, database, booting
<1>9. QED
  BY <1>1, <1>2, <1>3, <1>4, <1>5, <1>6, <1>7, <1>8 DEF RequestStep

LEMMA TypedStep ==
  ASSUME Typed, TokensKnown, RoomToMint, [Next]_vars
  PROVE  Typed'
<1>1. CASE UNCHANGED vars
  BY <1>1 DEF vars, Typed
<1>2. CASE Next
  BY <1>2, BootTyped, EnvironmentTyped, ArrivalTyped, RequestTyped DEF Next
<1>3. QED
  BY <1>1, <1>2

-----------------------------------------------------------------------------
(* Boots.                                                                   *)

\* The requests of the threads leave the boots, the lock and the tables alone.
LEMMA RequestsLeaveBoots ==
  ASSUME NEW t \in Threads,
         \/ ArriveLogin(t) \/ ArriveRefresh(t) \/ ArriveLogout(t)
         \/ RequestStep(t) \/ BreakRequest(t)
  PROVE  UNCHANGED <<schema, reachable, lock, boot, slipped, collided>>
<1>1. CASE ArriveLogin(t) \/ ArriveRefresh(t) \/ ArriveLogout(t)
  BY <1>1 DEF ArriveLogin, ArriveRefresh, ArriveLogout, Arrive, database, booting
<1>2. CASE RequestStep(t)
  BY <1>2 DEF RequestStep, PickClass, MintAtLogin, FailRequest, VerifyRefresh, RejectRefresh,
              Rotate, Logout, database, booting
<1>3. CASE BreakRequest(t)
  BY <1>3 DEF BreakRequest, database, booting
<1>4. QED
  BY <1>1, <1>2, <1>3

\* The retry of the engine never touches the transaction that applies a migration.
LEMMA AppliesOnce == ~should_retry(TRUE, Stmt("create"), Broken)
BY DEF should_retry

LEMMA LockHeldStep ==
  ASSUME Typed, LockHeld, [Next]_vars
  PROVE  LockHeld'
<1> USE ConstantsAssumption
<1>1. ASSUME NEW p \in Processes, StartProcess(p)
      PROVE  LockHeld'
  BY <1>1 DEF StartProcess, Booting, Typed, LockHeld
<1>2. ASSUME NEW p \in Processes, ProbeAtBoot(p)
      PROVE  LockHeld'
  BY <1>2 DEF ProbeAtBoot, Booting, Typed, LockHeld
<1>3. ASSUME NEW p \in Processes, TakeLock(p)
      PROVE  LockHeld'
  BY <1>3 DEF TakeLock, Booting, Typed, LockHeld
<1>4. ASSUME NEW p \in Processes, PlanMigration(p)
      PROVE  LockHeld'
  BY <1>4 DEF PlanMigration, Booting, Released, Typed, LockHeld
<1>5. ASSUME NEW p \in Processes, ApplyMigration(p)
      PROVE  LockHeld'
  BY <1>5 DEF ApplyMigration, Booting, Released, Typed, LockHeld
<1>6. ASSUME NEW p \in Processes, Recheck(p)
      PROVE  LockHeld'
  BY <1>6 DEF Recheck, Booting, Typed, LockHeld
<1>7. ASSUME NEW p \in Processes, BreakBoot(p)
      PROVE  LockHeld'
  <2>1. lock # p => lock' = lock
    BY <1>7 DEF BreakBoot, Released
  <2>2. lock = p => lock' = None
    BY <1>7 DEF BreakBoot, Released
  <2>3. CASE boot[p] = "plan" /\ slipped' = slipped \cup {p} /\ boot' = boot
    BY <2>1, <2>2, <2>3 DEF LockHeld
  <2>4. CASE boot[p] = "apply" /\ boot' = [boot EXCEPT ![p] = "recheck"] /\ slipped' = slipped
    BY <2>1, <2>2, <2>4 DEF LockHeld, Typed
  <2>5. QED
    BY <1>7, <2>3, <2>4 DEF BreakBoot
<1>8. ASSUME NEW p \in Processes, Die(p)
      PROVE  LockHeld'
  BY <1>8 DEF Die, Released, Typed, LockHeld
<1>9. CASE Outage
  BY <1>9 DEF Outage, InSession, Typed, LockHeld
<1>10. CASE Recovery \/ Deploy \/ UNCHANGED vars
  BY <1>10 DEF Recovery, Deploy, vars, booting, LockHeld
<1>11. ASSUME NEW t \in Threads,
              \/ ArriveLogin(t) \/ ArriveRefresh(t) \/ ArriveLogout(t)
              \/ RequestStep(t) \/ BreakRequest(t)
       PROVE  LockHeld'
  BY <1>11, RequestsLeaveBoots DEF LockHeld
<1>12. QED
  BY <1>1, <1>2, <1>3, <1>4, <1>5, <1>6, <1>7, <1>8, <1>9, <1>10, <1>11 DEF Next, BootStep

LEMMA TurnsTakenStep ==
  ASSUME Typed, LockHeld, TurnsTaken, [Next]_vars
  PROVE  TurnsTaken'
<1> USE ConstantsAssumption
<1>1. ASSUME NEW p \in Processes, StartProcess(p) \/ ProbeAtBoot(p) \/ TakeLock(p) \/ Recheck(p)
      PROVE  TurnsTaken'
  BY <1>1 DEF StartProcess, ProbeAtBoot, TakeLock, Recheck, Booting, database, Typed, TurnsTaken
\* Whoever goes on to apply has just seen that the tables are missing.
<1>2. ASSUME NEW p \in Processes, PlanMigration(p)
      PROVE  TurnsTaken'
  BY <1>2 DEF PlanMigration, Booting, tables, database, Typed, TurnsTaken
\* Whoever applies holds the lock, so nobody else is about to.
<1>3. ASSUME NEW p \in Processes, ApplyMigration(p)
      PROVE  TurnsTaken'
  <2>1. CASE slipped # {}
    BY <1>3, <2>1 DEF ApplyMigration, TurnsTaken
  <2>2. CASE slipped = {}
    <3>1. \A q \in Processes : boot[q] = "apply" => q = p
      BY <1>3, <2>2 DEF ApplyMigration, Booting, LockHeld
    <3>2. \A q \in Processes : boot'[q] # "apply"
      BY <1>3, <3>1 DEF ApplyMigration, Booting, Typed
    <3>3. ~collided'
      BY <1>3, <2>2 DEF ApplyMigration, Booting, TurnsTaken
    <3>4. QED
      BY <3>2, <3>3 DEF TurnsTaken
  <2>3. QED
    BY <2>1, <2>2
<1>4. ASSUME NEW p \in Processes, BreakBoot(p)
      PROVE  TurnsTaken'
  BY <1>4 DEF BreakBoot, database, Typed, TurnsTaken
<1>5. ASSUME NEW p \in Processes, Die(p)
      PROVE  TurnsTaken'
  BY <1>5 DEF Die, database, Typed, TurnsTaken
<1>6. CASE Outage
  BY <1>6 DEF Outage, InSession, Typed, TurnsTaken
<1>7. CASE Recovery \/ Deploy \/ UNCHANGED vars
  BY <1>7 DEF Recovery, Deploy, vars, booting, TurnsTaken
<1>8. ASSUME NEW t \in Threads,
             \/ ArriveLogin(t) \/ ArriveRefresh(t) \/ ArriveLogout(t)
             \/ RequestStep(t) \/ BreakRequest(t)
      PROVE  TurnsTaken'
  BY <1>8, RequestsLeaveBoots DEF TurnsTaken
<1>9. QED
  BY <1>1, <1>2, <1>3, <1>4, <1>5, <1>6, <1>7, <1>8 DEF Next, BootStep

-----------------------------------------------------------------------------
(* The answer a process keeps.                                              *)

LEMMA TrustStep ==
  ASSUME Typed, TrustNeedsEvidence, [Next]_vars
  PROVE  TrustNeedsEvidence'
<1> USE ConstantsAssumption
<1>1. ASSUME NEW p \in Processes,
             \/ StartProcess(p) \/ ProbeAtBoot(p) \/ TakeLock(p) \/ PlanMigration(p)
             \/ BreakBoot(p)
      PROVE  TrustNeedsEvidence'
  BY <1>1 DEF StartProcess, ProbeAtBoot, TakeLock, PlanMigration, BreakBoot,
              TrustNeedsEvidence, tables, database
\* A migration that fails leaves the tables as they were, one that succeeds makes them.
<1>2. ASSUME NEW p \in Processes, ApplyMigration(p)
      PROVE  TrustNeedsEvidence'
  BY <1>2 DEF ApplyMigration, TrustNeedsEvidence, tables, Typed, Schemas
<1>3. ASSUME NEW p \in Processes, Recheck(p)
      PROVE  TrustNeedsEvidence'
  BY <1>3 DEF Recheck, TrustNeedsEvidence, tables, database, Typed
<1>4. ASSUME NEW p \in Processes, Die(p)
      PROVE  TrustNeedsEvidence'
  BY <1>4 DEF Die, TrustNeedsEvidence, tables, database, Typed
<1>5. CASE Outage \/ Recovery \/ Deploy \/ UNCHANGED vars
  BY <1>5 DEF Outage, Recovery, Deploy, vars, TrustNeedsEvidence, tables
\* "yes" for want of an answer is a guess.
<1>6. ASSUME NEW t \in Threads, PickClass(t)
      PROVE  TrustNeedsEvidence'
  <2>1. Home[t] \in Processes /\ UNCHANGED <<schema, reachable>>
    BY <1>6 DEF PickClass, database
  <2>2. SUFFICES ASSUME NEW q \in Processes, cache'[q] = "yes", ~tables
                 PROVE  q \in guessed'
    BY <2>1 DEF TrustNeedsEvidence, tables
  <2>3. CASE q # Home[t] \/ cache[q] # "unknown"
    BY <1>6, <2>1, <2>2, <2>3 DEF PickClass, TrustNeedsEvidence, Typed
  <2>4. CASE q = Home[t] /\ cache[q] = "unknown"
    <3>1. Answer = "yes"
      BY <1>6, <2>1, <2>2, <2>4 DEF PickClass, Typed
    <3>2. ~reachable
      BY <3>1, <2>2 DEF Answer
    <3>3. QED
      BY <1>6, <2>1, <2>4, <3>2 DEF PickClass
  <2>5. QED
    BY <2>3, <2>4
<1>7. ASSUME NEW t \in Threads,
             \/ ArriveLogin(t) \/ ArriveRefresh(t) \/ ArriveLogout(t)
             \/ MintAtLogin(t) \/ FailRequest(t) \/ VerifyRefresh(t) \/ RejectRefresh(t)
             \/ Rotate(t) \/ Logout(t) \/ BreakRequest(t)
      PROVE  TrustNeedsEvidence'
  BY <1>7 DEF ArriveLogin, ArriveRefresh, ArriveLogout, Arrive, MintAtLogin, FailRequest,
              VerifyRefresh, RejectRefresh, Rotate, Logout, BreakRequest,
              TrustNeedsEvidence, tables, database
<1>8. QED
  BY <1>1, <1>2, <1>3, <1>4, <1>5, <1>6, <1>7 DEF Next, BootStep, RequestStep

-----------------------------------------------------------------------------
(* The retry of the engine.                                                 *)

\* Whatever may change data is not replayable, so it is attempted once.
LEMMA WritesAttemptedOnce ==
  ASSUME NEW s \in Statements, Writes(s), NEW applied \in BOOLEAN
  PROVE  ~(Runs(Execute(FALSE, s, BreaksOff(applied, Broken), Done)) > 1)
<1>1. ~is_replayable(s)
  BY DEF Writes, is_replayable, ReadOnly, Statements
<1>2. Execute(FALSE, s, BreaksOff(applied, Broken), Done) = <<BreaksOff(applied, Broken)>>
  BY <1>1 DEF Execute, should_retry
<1> DEFINE attempts == <<BreaksOff(applied, Broken)>>
           ran == {i \in DOMAIN attempts : attempts[i].ran}
<1>3. ran \subseteq {1}
  BY DEF BreaksOff
<1>4. IsFiniteSet({1}) /\ Cardinality({1}) = 1
  BY FS_Singleton
<1>5. Cardinality(ran) \in Nat /\ Cardinality(ran) <= 1
  BY <1>3, <1>4, FS_Subset, FS_CardinalityType
<1>6. Runs(Execute(FALSE, s, BreaksOff(applied, Broken), Done)) = Cardinality(ran)
  BY <1>2, Zenon DEF Runs
<1>7. QED
  <2> HIDE DEF ran
  <2>1. ~(Cardinality(ran) > 1)
    BY <1>5
  <2>2. QED
    BY <1>6, <2>1, Zenon

LEMMA WritesStep ==
  ASSUME WritesRunOnce, [Next]_vars
  PROVE  WritesRunOnce'
<1>1. ASSUME NEW t \in Threads, BreakRequest(t)
      PROVE  WritesRunOnce'
  BY <1>1, WritesAttemptedOnce DEF BreakRequest, WritesRunOnce
<1>2. ASSUME NEW p \in Processes, StartProcess(p) \/ BootStep(p) \/ BreakBoot(p) \/ Die(p)
      PROVE  WritesRunOnce'
  BY <1>2 DEF StartProcess, BootStep, ProbeAtBoot, TakeLock, PlanMigration, ApplyMigration,
              Recheck, BreakBoot, Die, WritesRunOnce
<1>3. CASE Outage \/ Recovery \/ Deploy \/ UNCHANGED vars
  BY <1>3 DEF Outage, Recovery, Deploy, vars, WritesRunOnce
<1>4. ASSUME NEW t \in Threads,
             ArriveLogin(t) \/ ArriveRefresh(t) \/ ArriveLogout(t) \/ RequestStep(t)
      PROVE  WritesRunOnce'
  BY <1>4 DEF ArriveLogin, ArriveRefresh, ArriveLogout, Arrive, RequestStep, PickClass,
              MintAtLogin, FailRequest, VerifyRefresh, RejectRefresh, Rotate, Logout,
              WritesRunOnce
<1>5. QED
  BY <1>1, <1>2, <1>3, <1>4 DEF Next

-----------------------------------------------------------------------------
(* Tokens: the bound, and what the books say of those that were spent.      *)

\* Boots, outages and deploys touch no token, and no request except those of the dead.
LEMMA BootsLeaveTokens ==
  ASSUME Typed,
         \/ \E p \in Processes : StartProcess(p) \/ BootStep(p) \/ BreakBoot(p) \/ Die(p)
         \/ Outage \/ Recovery \/ Deploy \/ UNCHANGED vars
  PROVE  /\ UNCHANGED session
         /\ \A t \in Threads : thread'[t] # None => thread'[t] = thread[t]
<1>1. ASSUME NEW p \in Processes, StartProcess(p) \/ BootStep(p) \/ BreakBoot(p)
      PROVE  UNCHANGED <<session, thread>>
  BY <1>1 DEF StartProcess, BootStep, ProbeAtBoot, TakeLock, PlanMigration, ApplyMigration,
              Recheck, BreakBoot
<1>2. ASSUME NEW p \in Processes, Die(p)
      PROVE  UNCHANGED session /\ \A t \in Threads : thread'[t] # None => thread'[t] = thread[t]
  BY <1>2 DEF Die
<1>3. CASE Outage \/ Recovery \/ Deploy \/ UNCHANGED vars
  BY <1>3 DEF Outage, Recovery, Deploy, vars, session
<1>4. QED
  BY <1>1, <1>2, <1>3

\* What an arriving request looks like, and that nothing else is new.
LEMMA Arrival ==
  ASSUME Typed, NEW t \in Threads, ArriveLogin(t) \/ ArriveRefresh(t) \/ ArriveLogout(t)
  PROVE  /\ UNCHANGED session
         /\ \A q \in Threads \ {t} : thread'[q] = thread[q]
         /\ thread'[t].op = "login" \/ thread'[t].token \in 1..minted
         /\ thread'[t].op # "logout" => MayMint
         /\ ~thread'[t].verified
         /\ thread'[t].afresh = (thread'[t].token \notin spent)
<1>1. ASSUME NEW op \in Operations, NEW k, Arrive(t, op, k)
      PROVE  /\ UNCHANGED session
             /\ thread' = [thread EXCEPT ![t] = [op |-> op, token |-> k, class |-> "unknown",
                                                 verified |-> FALSE, afresh |-> k \notin spent]]
  BY <1>1 DEF Arrive
<1>2. \E op \in Operations, k \in 1..minted \cup {None} :
        /\ Arrive(t, op, k)
        /\ op = "login" \/ k \in 1..minted
        /\ op # "logout" => MayMint
  BY DEF ArriveLogin, ArriveRefresh, ArriveLogout, Operations
<1>3. PICK op \in Operations, k \in 1..minted \cup {None} :
        /\ Arrive(t, op, k)
        /\ op = "login" \/ k \in 1..minted
        /\ op # "logout" => MayMint
  BY <1>2
<1> DEFINE fresh == [op |-> op, token |-> k, class |-> "unknown",
                     verified |-> FALSE, afresh |-> k \notin spent]
<1>4. thread' = [thread EXCEPT ![t] = fresh] /\ DOMAIN thread = Threads
  BY <1>1, <1>3 DEF Typed
<1>5. thread'[t] = fresh /\ \A q \in Threads \ {t} : thread'[q] = thread[q]
  <2> HIDE DEF fresh
  <2>1. QED
    BY <1>4
<1>6. QED
  BY <1>1, <1>3, <1>5

\* A request that only gets on with its checks stays the same request.
LEMMA Checking ==
  ASSUME Typed, NEW t \in Threads, PickClass(t) \/ VerifyRefresh(t)
  PROVE  /\ UNCHANGED session
         /\ thread[t] # None
         /\ \A q \in Threads \ {t} : thread'[q] = thread[q]
         /\ thread'[t].op = thread[t].op
         /\ thread'[t].token = thread[t].token
         /\ thread'[t].afresh = thread[t].afresh
<1>1. thread[t] \in Request
  BY DEF PickClass, VerifyRefresh, Working, Typed
<1>2. CASE PickClass(t)
  BY <1>1, <1>2 DEF PickClass, Typed, Request
<1>3. CASE VerifyRefresh(t)
  BY <1>1, <1>3 DEF VerifyRefresh, Working, Typed, Request
<1>4. QED
  BY <1>2, <1>3

\* A request that is answered leaves its thread, and no other thread changes.
LEMMA ThreadIsLeft ==
  ASSUME Typed, NEW t \in Threads, Respond(t)
  PROVE  thread'[t] = None /\ \A q \in Threads \ {t} : thread'[q] = thread[q]
BY DEF Respond, Typed

LEMMA Smaller ==
  ASSUME NEW A \in SUBSET Threads, NEW B \in SUBSET A
  PROVE  /\ IsFiniteSet(A) /\ Cardinality(A) \in Nat
         /\ Cardinality(B) \in Nat /\ Cardinality(B) <= Cardinality(A)
BY ConstantsAssumption, FS_Subset, FS_CardinalityType

\* Fewer requests, or other ones, and no new token.
LEMMA RoomKept ==
  ASSUME Typed, RoomToMint, minted' = minted, Minting' \subseteq Minting
  PROVE  RoomToMint'
<1>1. Minting \in SUBSET Threads
  BY DEF Minting
<1>2. Cardinality(Minting') <= Cardinality(Minting) /\ Cardinality(Minting') \in Nat
      /\ Cardinality(Minting) \in Nat
  BY <1>1, Smaller
<1>3. QED
  BY <1>2, ConstantsAssumption DEF RoomToMint, Typed

\* A token minted for a request that leaves.
LEMMA RoomUsed ==
  ASSUME Typed, RoomToMint, NEW t \in Minting, minted' = minted + 1,
         Minting' \subseteq Minting \ {t}
  PROVE  RoomToMint'
<1>1. Minting \in SUBSET Threads /\ Minting \ {t} \in SUBSET Threads
  BY DEF Minting
<1>2. IsFiniteSet(Minting) /\ Cardinality(Minting) \in Nat
  BY <1>1, Smaller
<1>3. Cardinality(Minting \ {t}) = Cardinality(Minting) - 1
  BY <1>2, FS_RemoveElement
<1>4. Cardinality(Minting') \in Nat /\ Cardinality(Minting') <= Cardinality(Minting \ {t})
  BY <1>1, Smaller
<1>5. QED
  BY <1>2, <1>3, <1>4, ConstantsAssumption DEF RoomToMint, Typed

LEMMA RoomStep ==
  ASSUME Typed, RoomToMint, [Next]_vars
  PROVE  RoomToMint'
<1>1. CASE \/ \E p \in Processes : StartProcess(p) \/ BootStep(p) \/ BreakBoot(p) \/ Die(p)
           \/ Outage \/ Recovery \/ Deploy \/ UNCHANGED vars
  <2>1. minted' = minted /\ Minting' \subseteq Minting
    BY <1>1, BootsLeaveTokens DEF session, Minting
  <2>2. QED
    BY <2>1, RoomKept
<1>2. ASSUME NEW t \in Threads, ArriveLogin(t) \/ ArriveRefresh(t) \/ ArriveLogout(t)
      PROVE  RoomToMint'
  <2> DEFINE busy == {q \in Threads : thread[q] # None}
  <2>1. minted' = minted
    BY <1>2, Arrival DEF session
  <2>2. CASE MayMint
    <3>1. minted + Cardinality(busy) < MaxTokens
      BY <2>2 DEF MayMint
    <3>2. Minting' \subseteq busy \cup {t}
      BY <1>2, Arrival DEF Minting
    <3>3. busy \in SUBSET Threads /\ busy \cup {t} \in SUBSET Threads
      OBVIOUS
    <3> HIDE DEF busy
    <3>4. IsFiniteSet(busy) /\ Cardinality(busy) \in Nat
      BY <3>3, Smaller
    <3>5. Cardinality(busy \cup {t}) \in Nat /\ Cardinality(busy \cup {t}) <= Cardinality(busy) + 1
      BY <3>4, FS_AddElement
    <3>6. Cardinality(Minting') \in Nat /\ Cardinality(Minting') <= Cardinality(busy \cup {t})
      BY <3>2, <3>3, Smaller
    <3>7. QED
      BY <2>1, <3>1, <3>4, <3>5, <3>6, ConstantsAssumption DEF RoomToMint, Typed
  <2>3. CASE ~MayMint
    <3>1. Minting' \subseteq Minting
      BY <1>2, <2>3, Arrival DEF Minting
    <3>2. QED
      BY <2>1, <3>1, RoomKept
  <2>4. QED
    BY <2>2, <2>3
<1>3. ASSUME NEW t \in Threads, PickClass(t) \/ VerifyRefresh(t)
      PROVE  RoomToMint'
  <2>1. minted' = minted /\ Minting' \subseteq Minting
    BY <1>3, Checking DEF session, Minting
  <2>2. QED
    BY <2>1, RoomKept
<1>4. ASSUME NEW t \in Threads,
             FailRequest(t) \/ RejectRefresh(t) \/ Logout(t) \/ BreakRequest(t)
      PROVE  RoomToMint'
  <2>1. Respond(t) /\ minted' = minted
    BY <1>4 DEF FailRequest, RejectRefresh, Logout, BreakRequest, session
  <2>2. Minting' \subseteq Minting
    BY <2>1, ThreadIsLeft DEF Minting
  <2>3. QED
    BY <2>1, <2>2, RoomKept
<1>5. ASSUME NEW t \in Threads, MintAtLogin(t) \/ Rotate(t)
      PROVE  RoomToMint'
  <2>1. Respond(t) /\ minted' = minted + 1 /\ t \in Minting
    BY <1>5 DEF MintAtLogin, Rotate, Working, Minting
  <2>2. Minting' \subseteq Minting \ {t}
    BY <2>1, ThreadIsLeft DEF Minting
  <2>3. QED
    BY <2>1, <2>2, RoomUsed
<1>6. QED
  BY <1>1, <1>2, <1>3, <1>4, <1>5 DEF Next, RequestStep

\* The books after a request has been answered: a token of its own is added to them or none.
LEMMA SpentOne ==
  ASSUME Typed, NEW t \in Threads,
         Rotate(t) \/ Logout(t) \/ BreakRequest(t)
  PROVE  \/ UNCHANGED <<spent, blacklist, unrecorded, late, minted>>
         \/ \E recorded \in BOOLEAN : /\ thread[t].op # "login"
                                      /\ Spend(thread[t].token, recorded)
                                      /\ minted' \in {minted, minted + 1}
<1>1. CASE Rotate(t)
  BY <1>1 DEF Rotate, Working
<1>2. CASE Logout(t)
  BY <1>2 DEF Logout, Working, Recording
<1>3. CASE BreakRequest(t)
  BY <1>3 DEF BreakRequest
<1>4. QED
  BY <1>1, <1>2, <1>3

LEMMA LateOne ==
  ASSUME NEW t \in Threads, Rotate(t) \/ Logout(t) \/ BreakRequest(t)
  PROVE  late' \subseteq late \/ (Rotate(t) /\ late' \subseteq late \cup {thread[t].token})
BY DEF Rotate, Logout, BreakRequest

LEMMA TokensKnownStep ==
  ASSUME Typed, TokensKnown, [Next]_vars
  PROVE  TokensKnown'
<1>1. CASE \/ \E p \in Processes : StartProcess(p) \/ BootStep(p) \/ BreakBoot(p) \/ Die(p)
           \/ Outage \/ Recovery \/ Deploy \/ UNCHANGED vars
  BY <1>1, BootsLeaveTokens DEF session, TokensKnown
<1>2. ASSUME NEW t \in Threads, ArriveLogin(t) \/ ArriveRefresh(t) \/ ArriveLogout(t)
      PROVE  TokensKnown'
  BY <1>2, Arrival DEF session, TokensKnown
<1>3. ASSUME NEW t \in Threads, PickClass(t) \/ VerifyRefresh(t)
      PROVE  TokensKnown'
  <2>1. /\ UNCHANGED session /\ thread[t] # None
        /\ \A q \in Threads \ {t} : thread'[q] = thread[q]
        /\ thread'[t].op = thread[t].op /\ thread'[t].token = thread[t].token
    BY <1>3, Checking
  <2>2. QED
    BY <2>1 DEF session, TokensKnown
<1>4. ASSUME NEW t \in Threads, FailRequest(t) \/ RejectRefresh(t)
      PROVE  TokensKnown'
  <2>1. Respond(t) /\ UNCHANGED session
    BY <1>4 DEF FailRequest, RejectRefresh
  <2>2. QED
    BY <2>1, ThreadIsLeft DEF session, TokensKnown
<1>5. ASSUME NEW t \in Threads, MintAtLogin(t)
      PROVE  TokensKnown'
  <2>1. /\ Respond(t) /\ minted' = minted + 1
        /\ UNCHANGED <<blacklist, spent, unrecorded, late>>
    BY <1>5 DEF MintAtLogin
  <2>2. 1..minted \subseteq 1..minted'
    BY <2>1 DEF Typed
  <2>3. QED
    BY <2>1, <2>2, ThreadIsLeft DEF TokensKnown
<1>6. ASSUME NEW t \in Threads, Rotate(t) \/ Logout(t) \/ BreakRequest(t)
      PROVE  TokensKnown'
  <2>1. Respond(t) /\ thread[t] # None
    BY <1>6 DEF Rotate, Logout, BreakRequest, Working
  <2>2. 1..minted \subseteq 1..minted'
    <3>1. minted' = minted \/ minted' = minted + 1
      BY <1>6 DEF Rotate, Logout, BreakRequest
    <3>2. QED
      BY <3>1 DEF Typed
  <2>3. \A q \in Threads :
          thread'[q] # None /\ thread'[q].op # "login" => thread'[q].token \in 1..minted'
    BY <2>1, <2>2, ThreadIsLeft DEF TokensKnown
  <2>4. thread[t].op # "login" => thread[t].token \in 1..minted
    BY <2>1 DEF TokensKnown
  <2>5. CASE UNCHANGED <<spent, blacklist, unrecorded, late, minted>>
    BY <2>3, <2>5 DEF TokensKnown
  <2>6. ASSUME NEW recorded \in BOOLEAN, thread[t].op # "login", Spend(thread[t].token, recorded)
        PROVE  TokensKnown'
    <3>1. spent' = spent \cup {thread[t].token}
          /\ blacklist' \cup unrecorded' \subseteq blacklist \cup unrecorded \cup {thread[t].token}
      BY <2>6 DEF Spend
    <3>2. late' \subseteq late \cup {thread[t].token}
      BY <1>6, LateOne
    <3>3. QED
      BY <2>2, <2>3, <2>4, <2>6, <3>1, <3>2 DEF TokensKnown
  <2>7. QED
    BY <1>6, <2>5, <2>6, SpentOne
<1>7. QED
  BY <1>1, <1>2, <1>3, <1>4, <1>5, <1>6 DEF Next, RequestStep

\* A request that has passed its check with a token spent before it came in, and what is left
\* of it once the token is spent again.
LEMMA RedeemedUnrecorded ==
  ASSUME Remembered, NEW t \in Threads, Rotate(t), ~thread[t].afresh
  PROVE  thread[t].token \in unrecorded'
<1>1. thread[t] # None /\ thread[t].verified /\ thread[t].class \in {"yes", "no"}
  BY DEF Rotate, Working, Recording
<1>2. CASE thread[t].class = "yes"
  BY <1>1, <1>2 DEF Rotate, Spend, Remembered
<1>3. CASE thread[t].class = "no"
  BY <1>3 DEF Rotate, Spend
<1>4. QED
  BY <1>1, <1>2, <1>3

LEMMA RememberedStep ==
  ASSUME Typed, Remembered, SpentStaysSpent, [Next]_vars
  PROVE  Remembered' /\ SpentStaysSpent'
<1>1. CASE \/ \E p \in Processes : StartProcess(p) \/ BootStep(p) \/ BreakBoot(p) \/ Die(p)
           \/ Outage \/ Recovery \/ Deploy \/ UNCHANGED vars
  BY <1>1, BootsLeaveTokens DEF session, Remembered, SpentStaysSpent
<1>2. ASSUME NEW t \in Threads, ArriveLogin(t) \/ ArriveRefresh(t) \/ ArriveLogout(t)
      PROVE  Remembered' /\ SpentStaysSpent'
  <2>1. /\ UNCHANGED session
        /\ \A q \in Threads \ {t} : thread'[q] = thread[q]
        /\ ~thread'[t].verified
        /\ thread'[t].afresh = (thread'[t].token \notin spent)
    BY <1>2, Arrival
  <2>2. ~thread'[t].afresh => thread'[t].token \in spent
    BY <2>1
  <2>3. QED
    BY <2>1, <2>2 DEF session, Remembered, SpentStaysSpent
\* The class is picked before the check, so picking it vouches for nothing.
<1>3. ASSUME NEW t \in Threads, PickClass(t)
      PROVE  Remembered' /\ SpentStaysSpent'
  <2>1. /\ UNCHANGED session /\ thread[t] # None
        /\ \A q \in Threads \ {t} : thread'[q] = thread[q]
        /\ thread'[t].token = thread[t].token /\ thread'[t].afresh = thread[t].afresh
    BY <1>3, Checking
  <2>2. thread'[t].verified = thread[t].verified
    BY <1>3 DEF PickClass, Typed, Request
  <2>3. ~thread[t].verified
    BY <1>3 DEF PickClass, Remembered
  <2>4. QED
    BY <2>1, <2>2, <2>3 DEF session, Remembered, SpentStaysSpent
\* A spent token that is not on the blacklist has been spent without a row.
<1>4. ASSUME NEW t \in Threads, VerifyRefresh(t)
      PROVE  Remembered' /\ SpentStaysSpent'
  <2>1. /\ UNCHANGED session /\ thread[t] # None
        /\ \A q \in Threads \ {t} : thread'[q] = thread[q]
        /\ thread'[t].token = thread[t].token /\ thread'[t].afresh = thread[t].afresh
    BY <1>4, Checking
  <2>2. thread'[t].class = thread[t].class /\ thread[t].class # "unknown"
    BY <1>4 DEF VerifyRefresh, Working, Typed, Request
  <2>3. thread[t].class = "yes" => thread[t].token \notin blacklist
    BY <1>4 DEF VerifyRefresh
  <2>4. thread[t].class = "yes" /\ ~thread[t].afresh => thread[t].token \in unrecorded
    BY <2>1, <2>3 DEF Remembered
  <2>5. QED
    BY <2>1, <2>2, <2>4 DEF session, Remembered, SpentStaysSpent
<1>5. ASSUME NEW t \in Threads, FailRequest(t) \/ RejectRefresh(t) \/ MintAtLogin(t)
      PROVE  Remembered' /\ SpentStaysSpent'
  <2>1. Respond(t) /\ UNCHANGED <<spent, blacklist, unrecorded, late>>
    BY <1>5 DEF FailRequest, RejectRefresh, MintAtLogin, session
  <2>2. QED
    BY <2>1, ThreadIsLeft DEF Remembered, SpentStaysSpent
<1>6. ASSUME NEW t \in Threads, Rotate(t) \/ Logout(t) \/ BreakRequest(t)
      PROVE  Remembered' /\ SpentStaysSpent'
  <2>1. Respond(t)
    BY <1>6 DEF Rotate, Logout, BreakRequest
  <2>2. /\ unrecorded \subseteq unrecorded' /\ spent \subseteq spent'
        /\ spent' \subseteq blacklist' \cup unrecorded'
    BY <1>6, SpentOne DEF Spend, Remembered
  <2>3. Remembered'
    BY <2>1, <2>2, ThreadIsLeft DEF Remembered
  <2>4. late' \subseteq unrecorded'
    <3>1. CASE late' \subseteq late
      BY <2>2, <3>1 DEF SpentStaysSpent
    <3>2. CASE Rotate(t) /\ ~thread[t].afresh
      <4>1. late' = late \cup {thread[t].token}
        BY <3>2 DEF Rotate
      <4>2. QED
        BY <2>2, <3>2, <4>1, RedeemedUnrecorded DEF SpentStaysSpent
    <3>3. QED
      BY <1>6, <3>1, <3>2, LateOne DEF Rotate
  <2>5. QED
    BY <2>3, <2>4 DEF SpentStaysSpent
<1>7. QED
  BY <1>1, <1>2, <1>3, <1>4, <1>5, <1>6 DEF Next, RequestStep

-----------------------------------------------------------------------------
(* The invariant, and what follows from it.                                 *)

LEMMA InitIInv == Init => IInv
<1> SUFFICES ASSUME Init
             PROVE  IInv
  OBVIOUS
<1>1. Typed
  <2>1. budget \in [outages: 0..MaxOutages, deaths: 0..MaxDeaths] /\ minted \in Nat
    BY ConstantsAssumption DEF Init
  <2>2. schema \in Schemas /\ reachable \in BOOLEAN /\ lock \in Processes \cup {None}
    BY DEF Init
  <2>3. boot \in [Processes -> Phases] /\ cache \in [Processes -> Answers]
    BY DEF Init, Phases, Answers
  <2>4. thread \in [Threads -> Request \cup {None}]
    BY DEF Init
  <2>5. guessed \subseteq Processes /\ slipped \subseteq Processes
    BY DEF Init
  <2>6. doubled \in BOOLEAN /\ collided \in BOOLEAN
    BY DEF Init
  <2>7. QED
    BY <2>1, <2>2, <2>3, <2>4, <2>5, <2>6 DEF Typed
<1>2. LockHeld /\ TurnsTaken /\ TokensKnown /\ Remembered
  BY DEF Init, LockHeld, TurnsTaken, TokensKnown, Remembered
<1>3. TrustNeedsEvidence /\ SpentStaysSpent /\ WritesRunOnce
  BY DEF Init, TrustNeedsEvidence, SpentStaysSpent, WritesRunOnce
<1>4. RoomToMint
  <2>1. Minting = {}
    BY DEF Init, Minting
  <2>2. minted = 0
    BY DEF Init
  <2>3. QED
    BY <2>1, <2>2, FS_EmptySet, ConstantsAssumption DEF RoomToMint
<1>5. QED
  BY <1>1, <1>2, <1>3, <1>4 DEF IInv

LEMMA IInvStep == IInv /\ [Next]_vars => IInv'
BY TypedStep, LockHeldStep, TurnsTakenStep, RoomStep, TokensKnownStep, RememberedStep,
   TrustStep, WritesStep DEF IInv

LEMMA Invariance == Spec => []IInv
BY InitIInv, IInvStep, PTL DEF Spec

\* The state is well typed, the lock is held only by a process that migrates, no more tokens
\* are minted than the bound allows and the books speak of minted tokens only.
THEOREM TypeCorrect == Spec => []TypeOK
<1>1. ASSUME IInv
      PROVE  TypeOK
  <2>1. minted \in 0..MaxTokens
    <3>1. Cardinality(Minting) \in Nat
      BY Smaller DEF Minting
    <3>2. QED
      BY <1>1, <3>1, ConstantsAssumption DEF IInv, RoomToMint, Typed
  <2>2. QED
    BY <1>1, <2>1 DEF IInv, Typed, LockHeld, TokensKnown, TypeOK
<1>2. QED
  BY <1>1, Invariance, PTL

\* A process trusts tables that are not there only if it asked for them while the database
\* could not answer (usable() in token_revocation.py).
THEOREM TrustIsEvidenced == Spec => []TrustNeedsEvidence
<1>1. IInv => TrustNeedsEvidence
  BY DEF IInv
<1>2. QED
  BY <1>1, Invariance, PTL

\* A spent token is redeemed by a later request only if one of its uses left no row, be it the
\* use of a process that goes by a "no" older than the tables (refresh_tokens and logout in
\* auth_service.py, _usable_cache in token_revocation.py).
THEOREM TokensAreSpentOnce == Spec => []SpentStaysSpent
<1>1. IInv => SpentStaysSpent
  BY DEF IInv
<1>2. QED
  BY <1>1, Invariance, PTL

\* Workers that find the tables missing create them one at a time, unless one of them has
\* gone on after its connection was replaced (repair_missing_tables and the engine's retry).
THEOREM RepairsTakeTurns == Spec => []MigrationsTakeTurns
<1>1. IInv => MigrationsTakeTurns
  BY DEF IInv, TurnsTaken, MigrationsTakeTurns
<1>2. QED
  BY <1>1, Invariance, PTL

\* The engine's retry never runs a statement twice that may change data (should_retry and
\* is_replayable in postgresql_backend/base.py).
THEOREM RetriesWriteNothing == Spec => []WritesRunOnce
<1>1. IInv => WritesRunOnce
  BY DEF IInv
<1>2. QED
  BY <1>1, Invariance, PTL
-----------------------------------------------------------------------------
(* The mobile app's half of the sessions: proofs about Handset, for any    *)
(* number of users, token pairs and faults.                                *)

USE DEF Callers, Boot, Entry, Exit, Push, Profile

\* The state by its parts, over the pairs m minted so far.
Stores(m) == [access: m \cup {Null}, refresh: m \cup {Null}, expiry: m \cup {Null}, user: Users \cup {Null}]
Refreshes(m) == [at: {"none", "posted", "failed", "granted", "stored", "void"},
                 token: m \cup {Null}, got: m \cup {Null}]
Launches == [at: {"idle", "reads", "asks", "lets go", "shows"}, user: Users \cup {Null}, pair: {Null}]
Entries(m) == [at: {"idle", "asks", "stores", "caches", "checks"}, user: Users \cup {Null}, pair: m \cup {Null}]
Exits(m) == [at: {"idle", "silences", "logs out"}, user: Users \cup {Null}, pair: m \cup {Null}]
Devices == [user: Users \cup {Null}, active: BOOLEAN]

PartsTyped(m) ==
  /\ live \subseteq m /\ expired \subseteq m
  /\ device \in Devices /\ store \in Stores(m)
  /\ status \in {"loading", "signed-out", "signed-in"} /\ shown \in Users \cup {Null}
  /\ refresh \in Refreshes(m) /\ call \in [Callers -> Call]
  /\ launch \in Launches /\ entry \in Entries(m) /\ exit \in Exits(m)
  /\ faults \in 0..MaxFaults /\ left \in Users \cup {Null}
  /\ crossed \in BOOLEAN /\ unheard \in BOOLEAN

OwnersTyped == owner \in Seq(Users) /\ Len(owner) <= MaxPairs

WaitersHaveRefresh == \A c \in Callers : call[c].at \in Waiting => Refreshing

PhoneTyped == OwnersTyped /\ PartsTyped(issued) /\ WaitersHaveRefresh

Idle(c) == call[c].at = "idle"

\* A request is one of the task that waits for it, and an answer was let in by a token.
CallsMatchTasks ==
  /\ \A c \in Callers :
       /\ call[c].token \in issued \cup {Null}
       /\ call[c].at = "ok" => call[c].token # Null
  /\ ~Idle(Boot) => launch.at \in {"asks", "lets go"} /\ call[Boot].purpose = "me"
  /\ ~Idle(Entry) => entry.at = "asks" /\ call[Entry].purpose = "login"
  /\ ~Idle(Exit) =>
       /\ exit.at # "idle"
       /\ call[Exit].purpose = IF exit.at = "silences" THEN "unregister-all" ELSE "logout"
  /\ ~Idle(Push) => call[Push].purpose = "register"
  /\ ~Idle(Profile) => call[Profile].purpose = "me"
  /\ exit.at # "idle" => ~Idle(Exit)

\* What a task or a refresh has gone on with is there.
WorkIsKnown ==
  /\ launch.at \in {"asks", "shows"} => launch.user # Null
  /\ entry.at # "idle" => entry.user # Null
  /\ entry.at \in {"stores", "caches", "checks"} => entry.pair # Null
  /\ refresh.at \in {"posted", "granted"} => refresh.token # Null
  /\ refresh.at \in {"granted", "stored"} => refresh.got # Null

\* Until the boot has asked, nothing else runs; the refresh it waits for is its own.
BootIsAlone ==
  /\ status = "loading" => Idle(Push) /\ Idle(Profile) /\ exit.at = "idle"
  /\ launch.at \in {"reads", "asks"} => status = "loading" /\ entry.at = "idle"
  /\ launch.at = "reads" => ~Refreshing
  /\ launch.at = "asks" /\ Refreshing => call[Boot].at \in Waiting

\* As long as no session is changed under a task that works on it, the tasks take turns, and an
\* open app has a token to refresh with.
TasksTakeTurns ==
  /\ launch.at = "shows" => status = "loading" /\ entry.at = "idle" /\ ~Refreshing
  /\ launch.at \in {"asks", "shows"} => store.refresh # Null
  /\ entry.at # "idle" => status # "signed-in"
  /\ entry.at \in {"caches", "checks"} =>
       /\ Idle(Profile) /\ exit.at = "idle"
       /\ store.access # Null => store.refresh # Null
       /\ refresh.at = "stored" => store.refresh # Null
  /\ status = "signed-in" => store.refresh # Null

\* Everything kept, shown, under way or waited for is s's, but what the session before left: the
\* cached user of a sign-in about to replace it, the calls no task listens to.
SessionOf(s) ==
  /\ \A n \in issued : n \in {store.access, store.refresh} => owner[n] = s
  /\ entry.at = "caches" \/ store.user \in {s, Null}
  /\ status = "signed-in" \/ launch.at = "shows" => shown = s
  /\ refresh.at \in {"posted", "granted"} => owner[refresh.token] = s
  /\ refresh.at \in {"granted", "stored"} => owner[refresh.got] = s
  /\ \A n \in issued :
       \/ n = call[Profile].token /\ call[Profile].at # "idle"
       \/ n = call[Exit].token /\ call[Exit].at # "idle"
       \/ launch.at = "asks" /\ n = call[Boot].token
       => owner[n] = s
  /\ launch.at \in {"asks", "shows"} => launch.user = s
  /\ exit.at # "idle" => exit.user = s
  /\ entry.at \in {"caches", "checks"} => entry.user = s /\ owner[entry.pair] = s

OneSession == \E s \in Users \cup {Null} : SessionOf(s)

EntryIsGranted == entry.at = "stores" => owner[entry.pair] = entry.user

\* After a sign-out no task is left that could fill the store but a sign-in.
SessionIsOver ==
  left # Null =>
    /\ store.refresh = Null /\ status # "signed-in" /\ ~Refreshing
    /\ Idle(Profile) /\ exit.at = "idle"
    /\ launch.at \notin {"asks", "shows"} /\ entry.at \notin {"caches", "checks"}

Silent(u) == ~(device.active /\ device.user = u)

\* A sign-out that was heard has silenced the handset, and no registration is under way.
HeardOut ==
  ~unheard =>
    /\ exit.at # "idle" => Idle(Push)
    /\ exit.at = "silences" /\ call[Exit].at = "ok" => Silent(exit.user)
    /\ exit.at = "logs out" => Silent(exit.user)
    /\ left # Null => Idle(Push) /\ Silent(left)

RetryIsGood ==
  call[Profile].at = "sent" /\ call[Profile].retried => Authorised(call[Profile])

\* The stored refresh token is good, or the refresh under way is about to replace it by one that is.
SessionGoesOn ==
  /\ refresh.at # "failed"
  /\ refresh.at = "posted" => refresh.token = store.refresh
  /\ refresh.at # "granted" /\ store.refresh # Null => store.refresh \in live
  /\ refresh.at \in {"granted", "stored"} =>
       refresh.got \in live /\ refresh.got \notin expired /\ refresh.got # store.access
  /\ entry.at = "stores" => entry.pair \in live /\ entry.pair \notin {store.refresh, refresh.got}
  /\ call[Profile].at = "refused" => refresh.at = "void"
  /\ RetryIsGood

\* It does as long as nothing has failed and nobody signs out.
SessionLives == faults = MaxFaults /\ exit.at = "idle" => SessionGoesOn

Undisturbed ==
  TasksTakeTurns /\ OneSession /\ EntryIsGranted /\ SessionIsOver /\ HeardOut /\ SessionLives

PhoneKnown == PhoneTyped /\ CallsMatchTasks /\ WorkIsKnown /\ BootIsAlone

PhoneInv == PhoneKnown /\ (~crossed => Undisturbed)

-----------------------------------------------------------------------------
(* What the client does with a request and with the refresh.                *)

\* The refresh under way is joined, or one is begun, or there is nothing to refresh with.
RefreshJoined ==
  \/ UNCHANGED refresh
  \/ /\ refresh.at = "none" /\ store.refresh # Null
     /\ refresh' = [at |-> "posted", token |-> store.refresh, got |-> Null]
  \/ /\ refresh.at = "void" \/ (refresh.at = "none" /\ store.refresh = Null)
     /\ refresh' = [at |-> "void", token |-> Null, got |-> Null]

\* A request begins: it is sent with what the store holds, or waits for a refresh.
Sends(c, purpose) ==
  /\ RefreshJoined
  /\ \E j \in Call :
       /\ call' = [call EXCEPT ![c] = j]
       /\ j.purpose = purpose /\ ~j.retried
       /\ \/ /\ j.at = "sent" /\ j.token \in {Null, store.access}
             /\ UNCHANGED refresh \/ refresh'.at = "void"
          \/ j.at = "waits first" /\ j.token = Null /\ Refreshing'

\* A request is refused: it waits for a refresh, or stays refused.
Refuses(c) ==
  /\ RefreshJoined
  /\ \E j \in Call :
       /\ call' = [call EXCEPT ![c] = j]
       /\ j.purpose = call[c].purpose /\ j.token = Null
       /\ \/ j.at = "waits again" /\ Refreshing'
          \/ j.at = "refused" /\ (refresh'.at = "void" \/ (call[c].retried /\ UNCHANGED refresh))

\* The promise resolves: whoever waits is sent with the token, or refused without one.
Resolves(got) ==
  /\ call' \in [Callers -> Call]
  /\ \A c \in Callers :
       /\ call'[c].purpose = call[c].purpose /\ call'[c].retried = call[c].retried
       /\ call[c].at \notin Waiting => call'[c] = call[c]
       /\ call[c].at \in Waiting =>
            \/ call'[c].at = "sent" /\ call'[c].token = got
            \/ call'[c].at = "refused" /\ call'[c].token = call[c].token /\ got = Null

\* A request with nothing to wait for goes on at once.
Joins(c, k) ==
  /\ RefreshJoined
  /\ \E j \in Call :
       /\ call' = [call EXCEPT ![c] = j]
       /\ j.purpose = k.purpose /\ j.retried = k.retried
       /\ \/ j = k /\ Refreshing'
          \/ /\ refresh'.at = "void"
             /\ k.at = "waits first" => j.at = "sent" /\ j.token = Null
             /\ k.at = "waits again" => j.at = "refused" /\ j.token = k.token

LEMMA TypedParts ==
  PhoneTyped <=> HandsetTypeOK
BY DEF PhoneTyped, OwnersTyped, PartsTyped, WaitersHaveRefresh, HandsetTypeOK, Stores, Refreshes,
   Launches, Entries, Exits, Devices

LEMMA MintedArePairs ==
  ASSUME PhoneTyped
  PROVE  issued \subseteq Pairs /\ Len(owner) \in Nat
<1>1. owner \in Seq(Users) /\ Len(owner) <= MaxPairs
  BY DEF PhoneTyped, OwnersTyped, PartsTyped
<1>. Len(owner) \in Nat
  BY <1>1
<1>2. MaxPairs \in Nat
  BY HandsetAssumption
<1>. QED
  BY <1>1, <1>2 DEF issued, Pairs

LEMMA JoinJoins ==
  ASSUME PhoneTyped, NEW c \in Callers, NEW k \in Call,
         k.at \in Waiting, Join(c, k)
  PROVE  Joins(c, k)
<1>1. CASE refresh.at = "none" /\ store.refresh # Null
  <2>1. call' = [call EXCEPT ![c] = k] /\ refresh' = Post
    BY <1>1 DEF Join
  <2>2. refresh' = [at |-> "posted", token |-> store.refresh, got |-> Null]
    BY <2>1 DEF Post, NoRefresh
  <2>3. Refreshing'
    BY <2>2 DEF Refreshing
  <2>. QED
    BY <1>1, <2>1, <2>2, <2>3 DEF Joins, RefreshJoined
<1>2. CASE refresh.at = "void" \/ (refresh.at = "none" /\ store.refresh = Null)
  <2>1. /\ call' = [call EXCEPT ![c] = Resume(k, Null)]
        /\ refresh' = [at |-> "void", token |-> Null, got |-> Null]
    BY <1>2 DEF Join, NoRefresh
  <2>2. PICK j : j = Resume(k, Null)
    OBVIOUS
  <2>3. /\ j \in Call /\ j.purpose = k.purpose /\ j.retried = k.retried
        /\ k.at = "waits first" => j.at = "sent" /\ j.token = Null
        /\ k.at = "waits again" => j.at = "refused" /\ j.token = k.token
    BY <2>2 DEF Resume, Call, Waiting, Answered
  <2>. QED
    BY <1>2, <2>1, <2>2, <2>3 DEF Joins, RefreshJoined
<1>3. CASE refresh.at \notin {"none", "void"}
  <2>1. call' = [call EXCEPT ![c] = k] /\ UNCHANGED refresh
    BY <1>3 DEF Join
  <2>2. Refreshing'
    BY <1>3, <2>1 DEF PhoneTyped, PartsTyped, Refreshes, Refreshing
  <2>. QED
    BY <2>1, <2>2 DEF Joins, RefreshJoined
<1>. QED
  BY <1>1, <1>2, <1>3

LEMMA SendSends ==
  ASSUME PhoneTyped, NEW c \in Callers, NEW purpose \in Purposes,
         Send(c, purpose)
  PROVE  Sends(c, purpose)
<1>1. PICK k : k = [NoCall EXCEPT !.purpose = purpose]
  OBVIOUS
<1>2. k = [at |-> "idle", purpose |-> purpose, token |-> Null, retried |-> FALSE]
  BY <1>1 DEF NoCall
<1>3. CASE Stale
  <2>1. PICK w : w = [k EXCEPT !.at = "waits first"]
    OBVIOUS
  <2>2. w \in Call /\ w.at = "waits first" /\ w.purpose = purpose /\ ~w.retried /\ w.token = Null
    BY <1>2, <2>1 DEF Call, Waiting
  <2>3. Join(c, w)
    BY <1>1, <1>3, <2>1 DEF Send
  <2>4. w.at \in Waiting
    BY <2>2 DEF Waiting
  <2>5. Joins(c, w)
    BY <2>2, <2>3, <2>4, JoinJoins
  <2>. QED
    BY <2>2, <2>5 DEF Joins, Sends
<1>4. CASE ~Stale
  <2>1. PICK w : w = [k EXCEPT !.at = "sent", !.token = store.access]
    OBVIOUS
  <2>2. store.access \in Pairs \cup {Null}
    BY MintedArePairs DEF PhoneTyped, PartsTyped, Stores
  <2>3. w \in Call /\ w.at = "sent" /\ w.purpose = purpose /\ ~w.retried /\ w.token = store.access
    BY <1>2, <2>1, <2>2 DEF Call
  <2>4. call' = [call EXCEPT ![c] = w] /\ UNCHANGED refresh
    BY <1>1, <1>4, <2>1 DEF Send
  <2>. QED
    BY <2>3, <2>4 DEF Sends, RefreshJoined
<1>. QED
  BY <1>3, <1>4

LEMMA RefuseRefuses ==
  ASSUME PhoneTyped, NEW c \in Callers, Refuse(c)
  PROVE  Refuses(c)
<1>1. call[c] \in Call
  BY DEF PhoneTyped, OwnersTyped, PartsTyped
<1>2. CASE call[c].retried
  <2>1. PICK j : j = [NoCall EXCEPT !.at = "refused", !.purpose = call[c].purpose]
    OBVIOUS
  <2>2. j \in Call /\ j.at = "refused" /\ j.purpose = call[c].purpose /\ j.token = Null
    BY <1>1, <2>1 DEF NoCall, Call, Answered
  <2>3. call' = [call EXCEPT ![c] = j] /\ UNCHANGED refresh
    BY <1>2, <2>1 DEF Refuse
  <2>. QED
    BY <1>2, <2>2, <2>3 DEF Refuses, RefreshJoined
<1>3. CASE ~call[c].retried
  <2>1. PICK k : k = [call[c] EXCEPT !.at = "waits again", !.token = Null, !.retried = TRUE]
    OBVIOUS
  <2>2. k \in Call /\ k.at = "waits again" /\ k.purpose = call[c].purpose /\ k.token = Null
    BY <1>1, <2>1 DEF Call, Waiting
  <2>3. Join(c, k)
    BY <1>3, <2>1 DEF Refuse
  <2>4. k.at \in Waiting
    BY <2>2 DEF Waiting
  <2>5. Joins(c, k)
    BY <2>2, <2>3, <2>4, JoinJoins
  <2>. QED
    BY <2>2, <2>5 DEF Joins, Refuses
<1>. QED
  BY <1>2, <1>3

LEMMA ResolveResolves ==
  ASSUME PhoneTyped, NEW got \in Pairs \cup {Null}, Resolve(got)
  PROVE  Resolves(got)
<1>1. call \in [Callers -> Call]
  BY DEF PhoneTyped, OwnersTyped, PartsTyped
<1>2. call' = [c \in Callers |-> Resume(call[c], got)]
  BY DEF Resolve
<1>3. ASSUME NEW k \in Call
      PROVE  /\ Resume(k, got) \in Call
             /\ Resume(k, got).purpose = k.purpose /\ Resume(k, got).retried = k.retried
             /\ k.at \notin Waiting => Resume(k, got) = k
             /\ k.at \in Waiting =>
                  \/ Resume(k, got).at = "sent" /\ Resume(k, got).token = got
                  \/ /\ Resume(k, got).at = "refused"
                     /\ Resume(k, got).token = k.token /\ got = Null
  BY DEF Resume, Call, Waiting, Answered
<1>. QED
  BY <1>1, <1>2, <1>3 DEF Resolves

-----------------------------------------------------------------------------
(* Types, and what the tasks know.                                          *)

USE DEF server, screen, tasks, history

LEMMA MintGrows ==
  ASSUME owner \in Seq(Users), NEW u \in Users, Mint(u)
  PROVE  /\ OwnersTyped'
         /\ issued' = issued \cup {Len(owner')}
         /\ Len(owner') \notin issued /\ Len(owner') # Null
         /\ owner'[Len(owner')] = u
         /\ \A n \in issued : owner'[n] = owner[n]
<1>1. owner' = Append(owner, u) /\ Len(owner) < MaxPairs
  BY DEF Mint
<1>2. Len(owner) \in Nat /\ MaxPairs \in Nat
  BY HandsetAssumption
<1>3. owner' \in Seq(Users) /\ Len(owner') = Len(owner) + 1
  BY <1>1
<1>4. Len(owner') <= MaxPairs
  BY <1>1, <1>2, <1>3
<1>5. \A n \in 1..Len(owner) : owner'[n] = owner[n]
  BY <1>1
<1>6. owner'[Len(owner')] = u
  BY <1>1
<1>7. Len(owner') # Null
  BY <1>2, <1>3, HandsetAssumption
<1>. QED
  BY <1>2, <1>3, <1>4, <1>5, <1>6, <1>7 DEF OwnersTyped, issued

\* Nothing that is typed stops being so when a pair is minted.
LEMMA PartsGrow ==
  ASSUME NEW m, NEW n, m \subseteq n, PartsTyped(m)
  PROVE  PartsTyped(n)
<1>1. store \in Stores(n) /\ refresh \in Refreshes(n) /\ entry \in Entries(n) /\ exit \in Exits(n)
  BY DEF PartsTyped, Stores, Refreshes, Entries, Exits
<1>. QED
  BY <1>1 DEF PartsTyped

LEMMA MintedKept ==
  ASSUME UNCHANGED owner, OwnersTyped
  PROVE  OwnersTyped' /\ issued' = issued
BY DEF OwnersTyped, issued

LEMMA NoneIsNoPair ==
  ASSUME PhoneTyped
  PROVE  Null \notin issued /\ Null \notin Users
BY MintedArePairs, HandsetAssumption DEF Pairs

LEMMA OwnersAreUsers ==
  ASSUME PhoneTyped, NEW n \in issued
  PROVE  owner[n] \in Users
BY DEF PhoneTyped, OwnersTyped, issued

LEMMA Supersedes ==
  ASSUME launch \in Launches, Supersede
  PROVE  /\ launch' \in Launches
         /\ launch'.at \in {"idle", "lets go", "shows"}
         /\ launch.at \in {"asks", "lets go"} => launch'.at = "lets go"
         /\ launch'.at = "shows" => launch' = launch
BY DEF Launches, Supersede, Away

LEMMA FaultsFall ==
  ASSUME faults \in 0..MaxFaults, faults > 0, faults' = faults - 1
  PROVE  faults' \in 0..MaxFaults /\ faults' # MaxFaults
BY HandsetAssumption

-----------------------------------------------------------------------------
(* What a refresh does, and what goes on outside the app.                   *)

LEMMA RedeemDoes ==
  ASSUME PhoneKnown, Redeem
  PROVE  /\ refresh.at = "posted" /\ refresh.token \in live /\ refresh.token \in issued
         /\ OwnersTyped'
         /\ issued' = issued \cup {Len(owner')}
         /\ Len(owner') \notin issued /\ Len(owner') # Null
         /\ owner'[Len(owner')] = owner[refresh.token]
         /\ \A n \in issued : owner'[n] = owner[n]
         /\ live' = (live \ {refresh.token}) \cup {Len(owner')}
         /\ refresh' \in Refreshes(issued') /\ refresh'.at = "granted"
         /\ refresh'.token = refresh.token /\ refresh'.got = Len(owner')
         /\ UNCHANGED <<expired, device, store, status, shown, call, launch, entry, exit, faults,
                        left, crossed, unheard>>
<1>1. /\ refresh.at = "posted" /\ refresh.token \in live /\ refresh.token \in issued
      /\ Mint(owner[refresh.token])
      /\ live' = (live \ {refresh.token}) \cup {Len(owner')}
      /\ refresh' = [refresh EXCEPT !.at = "granted", !.got = Len(owner')]
      /\ UNCHANGED <<expired, device, store, status, shown, call, launch, entry, exit, faults,
                     left, crossed, unheard>>
  BY DEF Redeem, PhoneKnown, PhoneTyped, PartsTyped
<1>2. owner[refresh.token] \in Users
  BY <1>1, OwnersAreUsers DEF PhoneKnown
<1>3. /\ OwnersTyped'
      /\ issued' = issued \cup {Len(owner')}
      /\ Len(owner') \notin issued /\ Len(owner') # Null
      /\ owner'[Len(owner')] = owner[refresh.token]
      /\ \A n \in issued : owner'[n] = owner[n]
  BY <1>1, <1>2, MintGrows DEF PhoneKnown, PhoneTyped, OwnersTyped
<1>4. /\ refresh' \in Refreshes(issued') /\ refresh'.at = "granted"
      /\ refresh'.token = refresh.token /\ refresh'.got = Len(owner')
  BY <1>1, <1>3 DEF PhoneKnown, PhoneTyped, PartsTyped, Refreshes
<1>. QED
  BY <1>1, <1>3, <1>4

LEMMA RejectDoes ==
  ASSUME PhoneKnown, RefuseRefresh \/ LoseRefresh
  PROVE  /\ refresh.at \in {"posted", "granted"}
         /\ refresh' \in Refreshes(issued) /\ refresh'.at = "failed"
         /\ \/ refresh.at = "posted" /\ refresh.token \notin live /\ UNCHANGED faults
            \/ faults > 0 /\ faults' = faults - 1
         /\ UNCHANGED <<owner, live, expired, device, store, status, shown, call, launch, entry, exit,
                        left, crossed, unheard>>
<1>1. refresh' \in Refreshes(issued) /\ refresh'.at = "failed"
  BY DEF PhoneKnown, PhoneTyped, PartsTyped, Refreshes, RefuseRefresh, LoseRefresh
<1>. QED
  BY <1>1 DEF RefuseRefresh, LoseRefresh

LEMMA StoreRefreshDoes ==
  ASSUME PhoneKnown, StoreRefresh
  PROVE  /\ refresh.at = "granted"
         /\ refresh' \in Refreshes(issued) /\ refresh'.at = "stored" /\ refresh'.got = refresh.got
         /\ store' \in Stores(issued) /\ store'.refresh = refresh.got
         /\ store'.access = store.access /\ store'.user = store.user
         /\ UNCHANGED <<owner, live, expired, device, status, shown, call, launch, entry, exit, faults,
                        left, crossed, unheard>>
<1>1. refresh \in Refreshes(issued) /\ store \in Stores(issued)
  BY DEF PhoneKnown, PhoneTyped, PartsTyped
<1>2. refresh' \in Refreshes(issued) /\ refresh'.at = "stored" /\ refresh'.got = refresh.got
  BY <1>1 DEF Refreshes, StoreRefresh
<1>3. /\ store' \in Stores(issued) /\ store'.refresh = refresh.got
      /\ store'.access = store.access /\ store'.user = store.user
  BY <1>1 DEF Stores, Refreshes, StoreRefresh
<1>. QED
  BY <1>2, <1>3 DEF StoreRefresh

LEMMA FinishDoes ==
  ASSUME PhoneKnown, FinishRefresh
  PROVE  /\ refresh.at = "stored" /\ refresh.got \in issued
         /\ Resolves(refresh.got)
         /\ refresh' \in Refreshes(issued) /\ refresh'.at = "none" /\ refresh'.got = Null
         /\ store' \in Stores(issued) /\ store'.access = refresh.got
         /\ store'.refresh = store.refresh /\ store'.user = store.user
         /\ UNCHANGED <<owner, live, expired, device, status, shown, launch, entry, exit, faults,
                        left, crossed, unheard>>
<1>1. /\ refresh.at = "stored" /\ refresh.got \in issued
      /\ store' = [store EXCEPT !.access = refresh.got, !.expiry = refresh.got]
      /\ refresh' = [at |-> "none", token |-> Null, got |-> Null]
      /\ UNCHANGED <<owner, live, expired, device, status, shown, launch, entry, exit, faults,
                     left, crossed, unheard>>
  BY DEF PhoneKnown, PhoneTyped, PartsTyped, Refreshes, WorkIsKnown, FinishRefresh, NoRefresh
<1>2. Resolves(refresh.got)
  <2>1. refresh.got \in Pairs
    BY <1>1, MintedArePairs DEF PhoneKnown
  <2>. QED
    BY <2>1, ResolveResolves DEF PhoneKnown, FinishRefresh
<1>3. /\ store' \in Stores(issued) /\ store'.access = refresh.got
      /\ store'.refresh = store.refresh /\ store'.user = store.user
  BY <1>1 DEF PhoneKnown, PhoneTyped, PartsTyped, Stores
<1>4. refresh' \in Refreshes(issued) /\ refresh'.at = "none" /\ refresh'.got = Null
  BY <1>1 DEF Refreshes
<1>. QED
  BY <1>1, <1>2, <1>3, <1>4

LEMMA FailDoes ==
  ASSUME PhoneKnown, FailRefresh
  PROVE  /\ refresh.at = "failed"
         /\ Resolves(Null)
         /\ refresh' \in Refreshes(issued) /\ refresh'.at = "none"
         /\ store' \in Stores(issued) /\ store'.user = store.user
         /\ store'.access = Null /\ store'.refresh = Null
         /\ status' = "signed-out" /\ shown' = Null
         /\ launch' \in Launches /\ launch'.at \in {"idle", "lets go", "shows"}
         /\ launch.at \in {"asks", "lets go"} => launch'.at = "lets go"
         /\ launch'.at = "shows" => launch' = launch
         /\ UNCHANGED <<owner, live, expired, device, entry, exit, faults, left, crossed, unheard>>
<1>1. Resolves(Null)
  BY ResolveResolves DEF PhoneKnown, FailRefresh
<1>2. /\ refresh.at = "failed"
      /\ refresh' = [at |-> "none", token |-> Null, got |-> Null]
      /\ store' = [access |-> Null, refresh |-> Null, expiry |-> Null, user |-> store.user]
      /\ status' = "signed-out" /\ shown' = Null /\ Supersede
      /\ UNCHANGED <<owner, live, expired, device, entry, exit, faults, left, crossed, unheard>>
  BY DEF FailRefresh, NoRefresh, Empty
<1>3. /\ store' \in Stores(issued) /\ store'.user = store.user
      /\ store'.access = Null /\ store'.refresh = Null
  BY <1>2 DEF PhoneKnown, PhoneTyped, PartsTyped, Stores
<1>4. launch \in Launches
  BY DEF PhoneKnown, PhoneTyped, PartsTyped
<1>5. refresh' \in Refreshes(issued) /\ refresh'.at = "none"
  BY <1>2 DEF Refreshes
<1>. QED
  BY <1>1, <1>2, <1>3, <1>4, <1>5, Supersedes

LEMMA OutsideDoes ==
  ASSUME PhoneKnown, Expire \/ \E n \in issued : EndElsewhere(n)
  PROVE  /\ \/ /\ UNCHANGED <<live, faults>>
               /\ expired' = expired \cup {store.access} /\ store.access \in issued
               /\ \A c \in Callers : ~call[c].retried
            \/ live' \subseteq live /\ UNCHANGED expired /\ faults > 0 /\ faults' = faults - 1
         /\ UNCHANGED <<owner, device, store, status, shown, refresh, call, launch, entry, exit,
                        left, crossed, unheard>>
BY DEF PhoneKnown, PhoneTyped, PartsTyped, Stores, Expire, EndElsewhere

LEMMA EffectDoes ==
  ASSUME PhoneTyped, NEW k \in Call, k.token \in issued, Effect(k)
  PROVE  /\ live' \subseteq live /\ device' \in Devices
         /\ k.purpose # "logout" => live' = live
         /\ k.purpose \notin {"register", "unregister-all"} => device' = device
         /\ k.purpose # "register" => device' = device \/ ~device'.active
         /\ k.purpose = "unregister-all" => ~(device'.active /\ device'.user = owner[k.token])
         /\ k.purpose = "unregister-all" => device'.user = device.user
<1>1. owner[k.token] \in Users
  BY OwnersAreUsers
<1>2. device \in Devices
  BY DEF PhoneTyped, PartsTyped
<1>3. CASE k.purpose = "me"
  BY <1>2, <1>3 DEF Effect
<1>4. CASE k.purpose = "register"
  <2>1. device' = [user |-> owner[k.token], active |-> TRUE] /\ live' = live
    BY <1>4 DEF Effect, Register
  <2>2. device' \in Devices
    BY <1>1, <2>1 DEF Devices
  <2>. QED
    BY <1>4, <2>1, <2>2
<1>5. CASE k.purpose = "unregister-all"
  <2>1. /\ live' = live
        /\ device' = IF device.user = owner[k.token] /\ device.active
                     THEN [device EXCEPT !.active = FALSE] ELSE device
    BY <1>5 DEF Effect, UnregisterAll
  <2>2. CASE device.user = owner[k.token] /\ device.active
    <3>1. device' \in Devices /\ ~device'.active /\ device'.user = device.user
      BY <1>2, <2>1, <2>2 DEF Devices
    <3>. QED
      BY <1>5, <2>1, <3>1
  <2>3. CASE ~(device.user = owner[k.token] /\ device.active)
    <3>1. device' = device /\ UNCHANGED live
      BY <2>1, <2>3
    <3>2. ~(device'.active /\ device'.user = owner[k.token])
      BY <2>3, <3>1
    <3>. QED
      BY <1>2, <1>5, <3>1, <3>2
  <2>. QED
    BY <2>2, <2>3
<1>6. CASE k.purpose = "logout"
  BY <1>2, <1>6 DEF Effect, Retire
<1>. QED
  BY <1>3, <1>4, <1>5, <1>6 DEF Effect

\* What a request that is begun, refused or waiting means for its row.
LEMMA SendsTyped ==
  ASSUME PhoneTyped, NEW c \in Callers, NEW purpose, Sends(c, purpose)
  PROVE  /\ refresh' \in Refreshes(issued)
         /\ call' \in [Callers -> Call]
         /\ \A d \in Callers : d # c => call'[d] = call[d]
         /\ call'[c].purpose = purpose /\ ~call'[c].retried
         /\ call'[c].at \in {"sent", "waits first"}
         /\ call'[c].token \in issued \cup {Null} /\ call'[c].token \in {Null, store.access}
         /\ call'[c].at = "sent" => UNCHANGED refresh \/ refresh'.at = "void"
         /\ WaitersHaveRefresh'
         /\ Refreshing => UNCHANGED refresh
<1>1. PICK j \in Call :
        /\ call' = [call EXCEPT ![c] = j]
        /\ j.purpose = purpose /\ ~j.retried
        /\ \/ /\ j.at = "sent" /\ j.token \in {Null, store.access}
              /\ UNCHANGED refresh \/ refresh'.at = "void"
           \/ j.at = "waits first" /\ j.token = Null /\ Refreshing'
  BY DEF Sends
<1>2. /\ store \in Stores(issued) /\ refresh \in Refreshes(issued)
      /\ call \in [Callers -> Call]
  BY DEF PhoneTyped, PartsTyped
<1>3. refresh' \in Refreshes(issued) /\ (Refreshing => UNCHANGED refresh)
  <2>1. CASE UNCHANGED refresh
    BY <1>2, <2>1
  <2>2. CASE /\ refresh.at = "none" /\ store.refresh # Null
             /\ refresh' = [at |-> "posted", token |-> store.refresh, got |-> Null]
    BY <1>2, <2>2 DEF Stores, Refreshes, Refreshing
  <2>3. CASE /\ refresh.at \in {"void", "none"}
             /\ refresh' = [at |-> "void", token |-> Null, got |-> Null]
    BY <2>3 DEF Refreshes, Refreshing
  <2>. QED
    BY <2>1, <2>2, <2>3 DEF Sends, RefreshJoined
<1>4. store.access \in issued \cup {Null}
  BY <1>2 DEF Stores
<1>5. /\ call' \in [Callers -> Call]
      /\ call'[c] = j
      /\ \A d \in Callers : d # c => call'[d] = call[d]
  BY <1>1, <1>2
<1>6. WaitersHaveRefresh'
  <2>1. call'[c].at \in Waiting => Refreshing'
    BY <1>1, <1>5 DEF Waiting
  <2>2. ASSUME NEW d \in Callers, d # c, call'[d].at \in Waiting
        PROVE  Refreshing'
    BY <1>3, <1>5, <2>2 DEF PhoneTyped, WaitersHaveRefresh, Refreshing
  <2>. QED
    BY <2>1, <2>2 DEF WaitersHaveRefresh
<1>. QED
  BY <1>1, <1>3, <1>4, <1>5, <1>6

LEMMA RefusesTyped ==
  ASSUME PhoneTyped, NEW c \in Callers, Refuses(c)
  PROVE  /\ refresh' \in Refreshes(issued)
         /\ call' \in [Callers -> Call]
         /\ \A d \in Callers : d # c => call'[d] = call[d]
         /\ call'[c].purpose = call[c].purpose /\ call'[c].token = Null
         /\ \/ call'[c].at = "waits again" /\ Refreshing'
            \/ call'[c].at = "refused" /\ (refresh'.at = "void" \/ (call[c].retried /\ UNCHANGED refresh))
         /\ WaitersHaveRefresh'
         /\ Refreshing => UNCHANGED refresh
<1>1. PICK j \in Call :
        /\ call' = [call EXCEPT ![c] = j]
        /\ j.purpose = call[c].purpose /\ j.token = Null
        /\ \/ j.at = "waits again" /\ Refreshing'
           \/ j.at = "refused" /\ (refresh'.at = "void" \/ (call[c].retried /\ UNCHANGED refresh))
  BY DEF Refuses
<1>2. /\ store \in Stores(issued) /\ refresh \in Refreshes(issued)
      /\ call \in [Callers -> Call]
  BY DEF PhoneTyped, PartsTyped
<1>3. refresh' \in Refreshes(issued) /\ (Refreshing => UNCHANGED refresh)
  <2>1. CASE UNCHANGED refresh
    BY <1>2, <2>1
  <2>2. CASE /\ refresh.at = "none" /\ store.refresh # Null
             /\ refresh' = [at |-> "posted", token |-> store.refresh, got |-> Null]
    BY <1>2, <2>2 DEF Stores, Refreshes, Refreshing
  <2>3. CASE /\ refresh.at \in {"void", "none"}
             /\ refresh' = [at |-> "void", token |-> Null, got |-> Null]
    BY <2>3 DEF Refreshes, Refreshing
  <2>. QED
    BY <2>1, <2>2, <2>3 DEF Refuses, RefreshJoined
<1>4. /\ call' \in [Callers -> Call]
      /\ call'[c] = j
      /\ \A d \in Callers : d # c => call'[d] = call[d]
  BY <1>1, <1>2
<1>5. WaitersHaveRefresh'
  <2>1. call'[c].at \in Waiting => Refreshing'
    BY <1>1, <1>4 DEF Waiting
  <2>2. ASSUME NEW d \in Callers, d # c, call'[d].at \in Waiting
        PROVE  Refreshing'
    BY <1>3, <1>4, <2>2 DEF PhoneTyped, WaitersHaveRefresh, Refreshing
  <2>. QED
    BY <2>1, <2>2 DEF WaitersHaveRefresh
<1>. QED
  BY <1>1, <1>3, <1>4, <1>5

\* A task hangs up, or its request comes to an end with nothing to wait for.
LEMMA EndsTyped ==
  ASSUME PhoneTyped, UNCHANGED refresh, NEW c \in Callers, NEW j \in Call,
         call' = [call EXCEPT ![c] = j], j.at \notin Waiting
  PROVE  /\ call' \in [Callers -> Call]
         /\ call'[c] = j
         /\ \A d \in Callers : d # c => call'[d] = call[d]
         /\ WaitersHaveRefresh'
<1>1. /\ call' \in [Callers -> Call]
      /\ call'[c] = j
      /\ \A d \in Callers : d # c => call'[d] = call[d]
  BY DEF PhoneTyped, PartsTyped
<1>. QED
  BY <1>1 DEF PhoneTyped, WaitersHaveRefresh, Refreshing

LEMMA NoCallIsCall ==
  NoCall \in Call /\ NoCall.at = "idle" /\ NoCall.token = Null
BY DEF NoCall, Call, Purposes

LEMMA HangupTyped ==
  ASSUME PhoneTyped, UNCHANGED refresh, NEW c \in Callers, Hangup(c)
  PROVE  /\ call' \in [Callers -> Call]
         /\ call'[c].at = "idle" /\ call'[c].token = Null
         /\ \A d \in Callers : d # c => call'[d] = call[d]
         /\ WaitersHaveRefresh'
<1>1. call' = [call EXCEPT ![c] = NoCall] /\ NoCall.at \notin Waiting
  BY NoCallIsCall DEF Hangup, Waiting
<1>2. PICK j \in Call : j = NoCall
  BY NoCallIsCall
<1>. QED
  BY <1>1, <1>2, EndsTyped, NoCallIsCall

LEMMA ServeDoes ==
  ASSUME PhoneKnown, NEW c \in Callers, Serve(c)
  PROVE  /\ call[c].at = "sent" /\ call[c].purpose # "login" /\ Authorised(call[c])
         /\ call[c].token \in issued /\ Effect(call[c])
         /\ call' \in [Callers -> Call]
         /\ call'[c].at = "ok" /\ call'[c].purpose = call[c].purpose /\ call'[c].token = call[c].token
         /\ \A d \in Callers : d # c => call'[d] = call[d]
         /\ WaitersHaveRefresh'
         /\ UNCHANGED <<owner, expired, store, status, shown, refresh, launch, entry, exit, faults,
                        left, crossed, unheard>>
<1>1. /\ call[c].at = "sent" /\ call[c].purpose # "login" /\ Authorised(call[c])
      /\ call[c].token \in issued /\ Effect(call[c])
  BY DEF Serve, Sent, Authorised, PhoneKnown, CallsMatchTasks
<1>2. UNCHANGED <<owner, expired, store, status, shown, refresh, launch, entry, exit, faults,
                  left, crossed, unheard>>
  BY DEF Serve
<1>3. call \in [Callers -> Call]
  BY DEF PhoneKnown, PhoneTyped, PartsTyped
<1>4. PICK j : j = [call[c] EXCEPT !.at = "ok", !.retried = FALSE]
  OBVIOUS
<1>5. /\ j \in Call /\ j.at = "ok" /\ j.purpose = call[c].purpose /\ j.token = call[c].token
      /\ j.at \notin Waiting
  BY <1>3, <1>4 DEF Call, Answered, Waiting
<1>6. call' = [call EXCEPT ![c] = j]
  BY <1>3, <1>4 DEF Serve, Call
<1>. QED
  BY <1>1, <1>2, <1>5, <1>6, EndsTyped DEF PhoneKnown

LEMMA LoseDoes ==
  ASSUME PhoneKnown, NEW c \in Callers, Lose(c)
  PROVE  /\ call[c].at = "sent" /\ call[c].purpose # "login"
         /\ \/ UNCHANGED <<live, device>>
            \/ call[c].token \in issued /\ Effect(call[c])
         /\ call' \in [Callers -> Call]
         /\ call'[c].at = "lost" /\ call'[c].purpose = call[c].purpose /\ call'[c].token = Null
         /\ \A d \in Callers : d # c => call'[d] = call[d]
         /\ WaitersHaveRefresh'
         /\ faults > 0 /\ faults' = faults - 1
         /\ UNCHANGED <<owner, expired, store, status, shown, refresh, launch, entry, exit,
                        left, crossed, unheard>>
<1>1. /\ call[c].at = "sent" /\ call[c].purpose # "login"
      /\ \/ UNCHANGED <<live, device>>
         \/ call[c].token \in issued /\ Effect(call[c])
      /\ faults > 0 /\ faults' = faults - 1
      /\ UNCHANGED <<owner, expired, store, status, shown, refresh, launch, entry, exit,
                     left, crossed, unheard>>
  BY DEF Lose, Sent, Authorised, PhoneKnown, CallsMatchTasks
<1>2. call \in [Callers -> Call]
  BY DEF PhoneKnown, PhoneTyped, PartsTyped
<1>3. PICK j : j = [NoCall EXCEPT !.at = "lost", !.purpose = call[c].purpose]
  OBVIOUS
<1>4. /\ j \in Call /\ j.at = "lost" /\ j.purpose = call[c].purpose /\ j.token = Null
      /\ j.at \notin Waiting
  BY <1>2, <1>3 DEF NoCall, Call, Answered, Waiting
<1>5. call' = [call EXCEPT ![c] = j]
  BY <1>3 DEF Lose
<1>. QED
  BY <1>1, <1>4, <1>5, EndsTyped DEF PhoneKnown

LEMMA RefuseDoes ==
  ASSUME PhoneKnown, NEW c \in Callers, Refuse(c)
  PROVE  /\ call[c].at = "sent" /\ call[c].purpose # "login" /\ ~Authorised(call[c])
         /\ Refuses(c)
         /\ UNCHANGED <<owner, live, expired, device, store, status, shown, launch, entry, exit,
                        faults, left, crossed, unheard>>
<1>1. Refuses(c)
  BY RefuseRefuses DEF PhoneKnown
<1>. QED
  BY <1>1 DEF Refuse, Sent

-----------------------------------------------------------------------------
(* What the boot, the sign-in and the sign-out do.                          *)

LEMMA AwayIsTyped ==
  ASSUME NEW m
  PROVE  /\ Away \in Launches /\ Away \in Entries(m) /\ Away \in Exits(m)
         /\ Away.at = "idle"
         /\ Empty \in Stores(m)
         /\ Empty.access = Null /\ Empty.refresh = Null /\ Empty.user = Null
BY DEF Away, Empty, Launches, Entries, Exits, Stores

LEMMA ReadDoes ==
  ASSUME PhoneKnown, ReadSession
  PROVE  /\ launch.at = "reads" /\ launch' \in Launches
         /\ UNCHANGED <<owner, live, expired, device, store, shown, entry, exit, faults, left, crossed, unheard>>
         /\ \/ /\ status' = "signed-out" /\ launch'.at = "idle"
               /\ UNCHANGED <<call, refresh>>
            \/ /\ store.refresh # Null /\ store.user # Null
               /\ launch'.at = "asks" /\ launch'.user = store.user
               /\ Sends(Boot, "me") /\ UNCHANGED status
<1>1. launch \in Launches /\ store \in Stores(issued)
  BY DEF PhoneKnown, PhoneTyped, PartsTyped
<1>2. CASE store.refresh = Null \/ store.user = Null
  <2>1. launch' = Away /\ status' = "signed-out" /\ UNCHANGED <<call, refresh>>
    BY <1>2 DEF ReadSession
  <2>. QED
    BY <2>1, AwayIsTyped DEF ReadSession
<1>3. CASE store.refresh # Null /\ store.user # Null
  <2>1. /\ launch' = [launch EXCEPT !.at = "asks", !.user = store.user]
        /\ Send(Boot, "me") /\ UNCHANGED status
    BY <1>3 DEF ReadSession
  <2>2. launch' \in Launches /\ launch'.at = "asks" /\ launch'.user = store.user
    BY <1>1, <2>1 DEF Launches, Stores
  <2>3. Sends(Boot, "me")
    <3>1. "me" \in Purposes /\ Boot \in Callers
      BY DEF Purposes
    <3>. QED
      BY <2>1, <3>1, SendSends DEF PhoneKnown
  <2>. QED
    BY <1>3, <2>1, <2>2, <2>3 DEF ReadSession
<1>. QED
  BY <1>2, <1>3

LEMMA DecideDoes ==
  ASSUME PhoneKnown, Decide
  PROVE  /\ launch.at \in {"asks", "lets go"} /\ Returned(Boot)
         /\ launch' \in Launches /\ store' \in Stores(issued) /\ shown' \in Users \cup {Null}
         /\ UNCHANGED <<owner, live, expired, device, refresh, entry, exit, faults, left, crossed, unheard>>
         /\ call' \in [Callers -> Call]
         /\ call'[Boot].at = "idle" /\ call'[Boot].token = Null
         /\ \A d \in Callers : d # Boot => call'[d] = call[d]
         /\ WaitersHaveRefresh'
         /\ \/ launch.at = "lets go" /\ launch'.at = "idle" /\ UNCHANGED <<store, status, shown>>
            \/ /\ launch.at = "asks" /\ call[Boot].token \in issued
               /\ launch'.at = "shows" /\ launch'.user = owner[call[Boot].token]
               /\ launch'.user # Null /\ shown' = launch'.user /\ UNCHANGED <<store, status>>
            \/ /\ launch.at = "asks" /\ launch'.at = "idle"
               /\ store' = Empty /\ status' = "signed-out" /\ UNCHANGED shown
            \/ /\ launch.at = "asks" /\ launch'.at = "idle"
               /\ shown' = launch.user /\ status' = "signed-in" /\ UNCHANGED store
<1>. USE DEF PhoneKnown
<1>1. /\ launch \in Launches /\ store \in Stores(issued) /\ shown \in Users \cup {Null}
      /\ launch.user \in Users \cup {Null}
  BY DEF PhoneTyped, PartsTyped, Launches
<1>2. /\ launch.at \in {"asks", "lets go"} /\ Returned(Boot) /\ Hangup(Boot)
      /\ UNCHANGED <<owner, live, expired, device, refresh, entry, exit, faults, left, crossed, unheard>>
  BY DEF Decide
<1>3. /\ call' \in [Callers -> Call]
      /\ call'[Boot].at = "idle" /\ call'[Boot].token = Null
      /\ \A d \in Callers : d # Boot => call'[d] = call[d]
      /\ WaitersHaveRefresh'
  <2>1. Boot \in Callers
    OBVIOUS
  <2>. QED
    BY <1>2, <2>1, HangupTyped
<1>4. CASE launch.at = "lets go" /\ launch' = Away /\ UNCHANGED <<store, status, shown>>
  BY <1>1, <1>2, <1>3, <1>4, AwayIsTyped
<1>5. CASE /\ launch.at = "asks" /\ call[Boot].at = "ok"
           /\ shown' = owner[call[Boot].token]
           /\ launch' = [launch EXCEPT !.at = "shows", !.user = shown']
           /\ UNCHANGED <<store, status>>
  <2>1. call[Boot].token \in issued
    BY <1>5 DEF CallsMatchTasks
  <2>2. owner[call[Boot].token] \in Users
    BY <2>1, OwnersAreUsers
  <2>3. owner[call[Boot].token] # Null
    BY <2>2, NoneIsNoPair
  <2>4. launch' \in Launches /\ launch'.at = "shows" /\ launch'.user = owner[call[Boot].token]
    BY <1>1, <1>5, <2>2 DEF Launches
  <2>. QED
    BY <1>1, <1>2, <1>3, <1>5, <2>1, <2>2, <2>3, <2>4
<1>6. CASE /\ launch.at = "asks" /\ launch' = Away
           /\ store' = Empty /\ status' = "signed-out" /\ UNCHANGED shown
  BY <1>1, <1>2, <1>3, <1>6, AwayIsTyped
<1>7. CASE /\ launch.at = "asks" /\ launch' = Away
           /\ shown' = launch.user /\ status' = "signed-in" /\ UNCHANGED store
  BY <1>1, <1>2, <1>3, <1>7, AwayIsTyped
<1>. QED
  BY <1>4, <1>5, <1>6, <1>7 DEF Decide

LEMMA OpenDoes ==
  ASSUME PhoneKnown, OpenApp
  PROVE  /\ launch.at = "shows"
         /\ store' \in Stores(issued)
         /\ store'.access = store.access /\ store'.refresh = store.refresh /\ store'.user = launch.user
         /\ status' = "signed-in" /\ launch' \in Launches /\ launch'.at = "idle"
         /\ UNCHANGED <<owner, live, expired, device, shown, refresh, call, entry, exit, faults,
                        left, crossed, unheard>>
<1>1. /\ launch.at = "shows" /\ store' = [store EXCEPT !.user = launch.user]
      /\ status' = "signed-in" /\ launch' = Away
      /\ UNCHANGED <<owner, live, expired, device, shown, refresh, call, entry, exit, faults,
                     left, crossed, unheard>>
  BY DEF OpenApp
<1>2. store \in Stores(issued) /\ launch.user \in Users \cup {Null}
  BY DEF PhoneKnown, PhoneTyped, PartsTyped, Launches
<1>3. /\ store' \in Stores(issued)
      /\ store'.access = store.access /\ store'.refresh = store.refresh /\ store'.user = launch.user
  BY <1>1, <1>2 DEF Stores
<1>. QED
  BY <1>1, <1>3, AwayIsTyped

LEMMA SignInDoes ==
  ASSUME PhoneKnown, NEW u \in Users, SignIn(u)
  PROVE  /\ entry.at = "idle" /\ status # "signed-in"
         /\ launch' \in Launches /\ launch'.at \in {"idle", "lets go", "shows"}
         /\ launch.at \in {"asks", "lets go"} => launch'.at = "lets go"
         /\ launch'.at = "shows" => launch' = launch
         /\ entry' \in Entries(issued) /\ entry'.at = "asks" /\ entry'.user = u
         /\ Sends(Entry, "login")
         /\ crossed' = (crossed \/ launch.at = "shows") /\ crossed' \in BOOLEAN
         /\ UNCHANGED <<owner, live, expired, device, store, status, shown, exit, faults, left, unheard>>
<1>1. /\ entry.at = "idle" /\ status # "signed-in" /\ Supersede
      /\ entry' = [at |-> "asks", user |-> u, pair |-> Null]
      /\ Send(Entry, "login")
      /\ crossed' = (crossed \/ launch.at = "shows")
      /\ UNCHANGED <<owner, live, expired, device, store, status, shown, exit, faults, left, unheard>>
  BY DEF SignIn
<1>2. entry' \in Entries(issued) /\ entry'.at = "asks" /\ entry'.user = u
  BY <1>1 DEF Entries
<1>3. Sends(Entry, "login")
  <2>1. "login" \in Purposes /\ Entry \in Callers
    BY DEF Purposes
  <2>. QED
    BY <1>1, <2>1, SendSends DEF PhoneKnown
<1>4. launch \in Launches
  BY DEF PhoneKnown, PhoneTyped, PartsTyped
<1>5. crossed' \in BOOLEAN
  BY <1>1
<1>. QED
  BY <1>1, <1>2, <1>3, <1>4, <1>5, Supersedes

LEMMA LoginDoes ==
  ASSUME PhoneKnown, Login
  PROVE  /\ call[Entry].at = "sent" /\ entry.at = "asks"
         /\ OwnersTyped'
         /\ issued' = issued \cup {Len(owner')}
         /\ Len(owner') \notin issued /\ Len(owner') # Null
         /\ owner'[Len(owner')] = entry.user
         /\ \A n \in issued : owner'[n] = owner[n]
         /\ live' = live \cup {Len(owner')}
         /\ entry' \in Entries(issued') /\ entry'.at = "stores"
         /\ entry'.user = entry.user /\ entry'.pair = Len(owner')
         /\ call' \in [Callers -> Call]
         /\ call'[Entry].at = "idle" /\ call'[Entry].token = Null
         /\ \A d \in Callers : d # Entry => call'[d] = call[d]
         /\ WaitersHaveRefresh'
         /\ UNCHANGED <<expired, device, store, status, shown, refresh, launch, exit, faults,
                        left, crossed, unheard>>
<1>1. /\ call[Entry].at = "sent" /\ Mint(entry.user)
      /\ live' = live \cup {Len(owner')}
      /\ entry' = [entry EXCEPT !.at = "stores", !.pair = Len(owner')]
      /\ Hangup(Entry)
      /\ UNCHANGED <<expired, device, store, status, shown, refresh, launch, exit, faults,
                     left, crossed, unheard>>
  BY DEF Login
<1>2. entry.at = "asks" /\ entry \in Entries(issued) /\ entry.user \in Users
  BY <1>1 DEF PhoneKnown, CallsMatchTasks, WorkIsKnown, Idle, PhoneTyped, PartsTyped, Entries
<1>3. /\ OwnersTyped'
      /\ issued' = issued \cup {Len(owner')}
      /\ Len(owner') \notin issued /\ Len(owner') # Null
      /\ owner'[Len(owner')] = entry.user
      /\ \A n \in issued : owner'[n] = owner[n]
  BY <1>1, <1>2, MintGrows DEF PhoneKnown, PhoneTyped, OwnersTyped
<1>4. /\ entry' \in Entries(issued') /\ entry'.at = "stores"
      /\ entry'.user = entry.user /\ entry'.pair = Len(owner')
  BY <1>1, <1>2, <1>3 DEF Entries
<1>5. /\ call' \in [Callers -> Call]
      /\ call'[Entry].at = "idle" /\ call'[Entry].token = Null
      /\ \A d \in Callers : d # Entry => call'[d] = call[d]
      /\ WaitersHaveRefresh'
  <2>1. Entry \in Callers
    OBVIOUS
  <2>. QED
    BY <1>1, <2>1, HangupTyped DEF PhoneKnown
<1>. QED
  BY <1>1, <1>2, <1>3, <1>4, <1>5

LEMMA FailLoginDoes ==
  ASSUME PhoneKnown, FailLogin
  PROVE  /\ entry.at = "asks" /\ entry' \in Entries(issued) /\ entry'.at = "idle"
         /\ call' \in [Callers -> Call]
         /\ call'[Entry].at = "idle" /\ call'[Entry].token = Null
         /\ \A d \in Callers : d # Entry => call'[d] = call[d]
         /\ WaitersHaveRefresh'
         /\ UNCHANGED <<owner, live, expired, device, store, status, shown, refresh, launch, exit, faults,
                        left, crossed, unheard>>
<1>1. /\ call[Entry].at = "sent" /\ entry' = Away /\ Hangup(Entry)
      /\ UNCHANGED <<owner, live, expired, device, store, status, shown, refresh, launch, exit, faults,
                     left, crossed, unheard>>
  BY DEF FailLogin
<1>2. entry.at = "asks"
  BY <1>1 DEF PhoneKnown, CallsMatchTasks, Idle
<1>3. Entry \in Callers
  OBVIOUS
<1>. QED
  BY <1>1, <1>2, <1>3, HangupTyped, AwayIsTyped DEF PhoneKnown

LEMMA StoreDoes ==
  ASSUME PhoneKnown, StoreTokens
  PROVE  /\ entry.at = "stores" /\ entry.pair \in issued
         /\ store' \in Stores(issued)
         /\ store'.access = entry.pair /\ store'.refresh = entry.pair
         /\ entry' \in Entries(issued) /\ entry'.at = "caches"
         /\ entry'.user = entry.user /\ entry'.pair = entry.pair
         /\ crossed' = (crossed \/ Refreshing \/ Rechecking \/ exit.at # "idle")
         /\ crossed' \in BOOLEAN
         /\ left' = Null
         /\ unheard' = (unheard /\ exit.at # "idle") /\ unheard' \in BOOLEAN
         /\ UNCHANGED <<owner, live, expired, device, status, shown, refresh, call, launch, exit, faults>>
<1>1. /\ entry.at = "stores"
      /\ store' = [store EXCEPT !.access = entry.pair, !.refresh = entry.pair]
      /\ entry' = [entry EXCEPT !.at = "caches"]
      /\ crossed' = (crossed \/ Refreshing \/ Rechecking \/ exit.at # "idle")
      /\ left' = Null
      /\ unheard' = (unheard /\ exit.at # "idle")
      /\ UNCHANGED <<owner, live, expired, device, status, shown, refresh, call, launch, exit, faults>>
  BY DEF StoreTokens
<1>2. store \in Stores(issued) /\ entry \in Entries(issued)
  BY DEF PhoneKnown, PhoneTyped, PartsTyped
<1>3. entry.pair \in issued
  BY <1>1, <1>2 DEF PhoneKnown, WorkIsKnown, Entries
<1>4. /\ store' \in Stores(issued)
      /\ store'.access = entry.pair /\ store'.refresh = entry.pair
  BY <1>1, <1>2, <1>3 DEF Stores
<1>5. /\ entry' \in Entries(issued) /\ entry'.at = "caches"
      /\ entry'.user = entry.user /\ entry'.pair = entry.pair
  BY <1>1, <1>2 DEF Entries
<1>6. crossed' \in BOOLEAN /\ unheard' \in BOOLEAN
  BY <1>1
<1>. QED
  BY <1>1, <1>3, <1>4, <1>5, <1>6

LEMMA CacheDoes ==
  ASSUME PhoneKnown, CacheUser
  PROVE  /\ entry.at = "caches" /\ entry.user \in Users /\ entry.pair \in issued
         /\ store' \in Stores(issued)
         /\ store'.access = store.access /\ store'.refresh = store.refresh /\ store'.user = entry.user
         /\ entry' \in Entries(issued) /\ entry'.at = "checks"
         /\ entry'.user = entry.user /\ entry'.pair = entry.pair
         /\ UNCHANGED <<owner, live, expired, device, status, shown, refresh, call, launch, exit, faults,
                        left, crossed, unheard>>
<1>1. /\ entry.at = "caches"
      /\ store' = [store EXCEPT !.expiry = entry.pair, !.user = entry.user]
      /\ entry' = [entry EXCEPT !.at = "checks"]
      /\ UNCHANGED <<owner, live, expired, device, status, shown, refresh, call, launch, exit, faults,
                     left, crossed, unheard>>
  BY DEF CacheUser
<1>2. store \in Stores(issued) /\ entry \in Entries(issued)
  BY DEF PhoneKnown, PhoneTyped, PartsTyped
<1>3. entry.user \in Users /\ entry.pair \in issued
  BY <1>1, <1>2 DEF PhoneKnown, WorkIsKnown, Entries
<1>4. /\ store' \in Stores(issued)
      /\ store'.access = store.access /\ store'.refresh = store.refresh /\ store'.user = entry.user
  BY <1>1, <1>2, <1>3 DEF Stores
<1>5. /\ entry' \in Entries(issued) /\ entry'.at = "checks"
      /\ entry'.user = entry.user /\ entry'.pair = entry.pair
  BY <1>1, <1>2 DEF Entries
<1>. QED
  BY <1>1, <1>3, <1>4, <1>5

LEMMA ReadBackDoes ==
  ASSUME PhoneKnown, ReadBack
  PROVE  /\ entry.at = "checks" /\ entry.user \in Users /\ entry.pair \in issued
         /\ \/ /\ store.access = entry.pair
               /\ shown' = entry.user /\ status' = "signed-in"
            \/ UNCHANGED <<shown, status>>
         /\ entry' \in Entries(issued) /\ entry'.at = "idle"
         /\ UNCHANGED <<owner, live, expired, device, store, refresh, call, launch, exit, faults,
                        left, crossed, unheard>>
<1>1. entry.at = "checks" /\ entry' = Away
  BY DEF ReadBack
<1>2. entry.user \in Users /\ entry.pair \in issued
  BY <1>1 DEF PhoneKnown, PhoneTyped, PartsTyped, WorkIsKnown, Entries
<1>. QED
  BY <1>1, <1>2, AwayIsTyped DEF ReadBack

LEMMA SignOutDoes ==
  ASSUME PhoneKnown, SignOut
  PROVE  /\ exit.at = "idle" /\ status = "signed-in"
         /\ launch' \in Launches /\ launch'.at \in {"idle", "lets go", "shows"}
         /\ launch.at \in {"asks", "lets go"} => launch'.at = "lets go"
         /\ launch'.at = "shows" => launch' = launch
         /\ exit' \in Exits(issued) /\ exit'.at = "silences" /\ exit'.user = shown
         /\ Sends(Exit, "unregister-all")
         /\ unheard' = ~Idle(Push) /\ unheard' \in BOOLEAN
         /\ UNCHANGED <<owner, live, expired, device, store, status, shown, entry, faults, left, crossed>>
<1>1. /\ exit.at = "idle" /\ status = "signed-in" /\ Supersede
      /\ exit' = [at |-> "silences", user |-> shown, pair |-> Null]
      /\ Send(Exit, "unregister-all")
      /\ unheard' = ~Idle(Push)
      /\ UNCHANGED <<owner, live, expired, device, store, status, shown, entry, faults, left, crossed>>
  BY DEF SignOut, Registering, Idle
<1>2. launch \in Launches /\ shown \in Users \cup {Null}
  BY DEF PhoneKnown, PhoneTyped, PartsTyped
<1>3. exit' \in Exits(issued) /\ exit'.at = "silences" /\ exit'.user = shown
  BY <1>1, <1>2 DEF Exits
<1>4. Sends(Exit, "unregister-all")
  <2>1. "unregister-all" \in Purposes /\ Exit \in Callers
    BY DEF Purposes
  <2>. QED
    BY <1>1, <2>1, SendSends DEF PhoneKnown
<1>5. unheard' \in BOOLEAN
  BY <1>1
<1>. QED
  BY <1>1, <1>2, <1>3, <1>4, <1>5, Supersedes

LEMMA SendLogoutDoes ==
  ASSUME PhoneKnown, SendLogout
  PROVE  /\ exit.at = "silences" /\ Returned(Exit)
         /\ exit' \in Exits(issued) /\ exit'.at = "logs out" /\ exit'.user = exit.user
         /\ Sends(Exit, "logout")
         /\ unheard' = (unheard \/ call[Exit].at # "ok") /\ unheard' \in BOOLEAN
         /\ UNCHANGED <<owner, live, expired, device, store, status, shown, launch, entry, faults, left, crossed>>
<1>1. /\ exit.at = "silences" /\ Returned(Exit)
      /\ exit' = [exit EXCEPT !.at = "logs out", !.pair = store.refresh]
      /\ Send(Exit, "logout")
      /\ unheard' = (unheard \/ call[Exit].at # "ok")
      /\ UNCHANGED <<owner, live, expired, device, store, status, shown, launch, entry, faults, left, crossed>>
  BY DEF SendLogout
<1>2. exit \in Exits(issued) /\ store.refresh \in issued \cup {Null}
  BY DEF PhoneKnown, PhoneTyped, PartsTyped, Stores
<1>3. exit' \in Exits(issued) /\ exit'.at = "logs out" /\ exit'.user = exit.user
  BY <1>1, <1>2 DEF Exits
<1>4. Sends(Exit, "logout")
  <2>1. "logout" \in Purposes /\ Exit \in Callers
    BY DEF Purposes
  <2>. QED
    BY <1>1, <2>1, SendSends DEF PhoneKnown
<1>5. unheard' \in BOOLEAN
  BY <1>1
<1>. QED
  BY <1>1, <1>3, <1>4, <1>5

LEMMA LeaveDoes ==
  ASSUME PhoneKnown, Leave
  PROVE  /\ exit.at = "logs out"
         /\ store' = Empty /\ status' = "signed-out" /\ shown' = Null
         /\ exit' \in Exits(issued) /\ exit'.at = "idle"
         /\ left' = exit.user /\ left' \in Users \cup {Null}
         /\ crossed' = (crossed \/ Refreshing \/ ~Idle(Profile) \/ entry.at # "idle")
         /\ crossed' \in BOOLEAN
         /\ call' \in [Callers -> Call]
         /\ call'[Exit].at = "idle" /\ call'[Exit].token = Null
         /\ \A d \in Callers : d # Exit => call'[d] = call[d]
         /\ WaitersHaveRefresh'
         /\ UNCHANGED <<owner, live, expired, device, refresh, launch, entry, faults, unheard>>
<1>1. /\ exit.at = "logs out" /\ Hangup(Exit)
      /\ store' = Empty /\ status' = "signed-out" /\ shown' = Null
      /\ exit' = Away
      /\ left' = exit.user
      /\ crossed' = (crossed \/ Refreshing \/ ~Idle(Profile) \/ entry.at # "idle")
      /\ UNCHANGED <<owner, live, expired, device, refresh, launch, entry, faults, unheard>>
  BY DEF Leave, Rechecking, Idle
<1>2. left' \in Users \cup {Null}
  BY <1>1 DEF PhoneKnown, PhoneTyped, PartsTyped, Exits
<1>3. crossed' \in BOOLEAN
  BY <1>1
<1>4. Exit \in Callers
  OBVIOUS
<1>. QED
  BY <1>1, <1>2, <1>3, <1>4, HangupTyped, AwayIsTyped DEF PhoneKnown

LEMMA SendRegistrationDoes ==
  ASSUME PhoneKnown, SendRegistration
  PROVE  /\ Idle(Push) /\ status = "signed-in" /\ Sends(Push, "register")
         /\ unheard' = (unheard \/ exit.at # "idle") /\ unheard' \in BOOLEAN
         /\ UNCHANGED <<owner, live, expired, device, store, status, shown, launch, entry, exit,
                        faults, left, crossed>>
<1>1. "register" \in Purposes /\ Push \in Callers
  BY DEF Purposes
<1>2. Sends(Push, "register")
  BY <1>1, SendSends DEF PhoneKnown, SendRegistration
<1>3. unheard' = (unheard \/ exit.at # "idle")
  BY DEF SendRegistration
<1>4. unheard' \in BOOLEAN
  BY <1>3
<1>. QED
  BY <1>2, <1>3, <1>4 DEF SendRegistration, Idle

LEMMA SendRecheckDoes ==
  ASSUME PhoneKnown, SendRecheck
  PROVE  /\ Idle(Profile) /\ status = "signed-in" /\ Sends(Profile, "me")
         /\ UNCHANGED <<owner, live, expired, device, store, status, shown, launch, entry, exit,
                        faults, left, crossed, unheard>>
<1>1. "me" \in Purposes /\ Profile \in Callers
  BY DEF Purposes
<1>2. Sends(Profile, "me")
  BY <1>1, SendSends DEF PhoneKnown, SendRecheck
<1>. QED
  BY <1>2 DEF SendRecheck, Idle

LEMMA EndRegistrationDoes ==
  ASSUME PhoneKnown, EndRegistration
  PROVE  /\ Returned(Push)
         /\ call' \in [Callers -> Call]
         /\ call'[Push].at = "idle" /\ call'[Push].token = Null
         /\ \A d \in Callers : d # Push => call'[d] = call[d]
         /\ WaitersHaveRefresh'
         /\ UNCHANGED <<owner, live, expired, device, store, status, shown, refresh, launch, entry, exit,
                        faults, left, crossed, unheard>>
<1>1. /\ Returned(Push) /\ Hangup(Push)
      /\ UNCHANGED <<owner, live, expired, device, store, status, shown, refresh, launch, entry, exit,
                     faults, left, crossed, unheard>>
  BY DEF EndRegistration
<1>2. Push \in Callers
  OBVIOUS
<1>. QED
  BY <1>1, <1>2, HangupTyped DEF PhoneKnown

LEMMA EndRecheckDoes ==
  ASSUME PhoneKnown, EndRecheck
  PROVE  /\ Returned(Profile)
         /\ call' \in [Callers -> Call]
         /\ call'[Profile].at = "idle" /\ call'[Profile].token = Null
         /\ \A d \in Callers : d # Profile => call'[d] = call[d]
         /\ WaitersHaveRefresh'
         /\ \/ /\ call[Profile].at = "ok" /\ call[Profile].token \in issued
               /\ shown' = owner[call[Profile].token] /\ shown' \in Users
               /\ store' \in Stores(issued)
               /\ store'.access = store.access /\ store'.refresh = store.refresh /\ store'.user = shown'
               /\ UNCHANGED status
            \/ /\ call[Profile].at = "refused"
               /\ store' = Empty /\ shown' = Null /\ status' = "signed-out"
            \/ UNCHANGED <<store, shown, status>>
         /\ UNCHANGED <<owner, live, expired, device, refresh, launch, entry, exit,
                        faults, left, crossed, unheard>>
<1>1. /\ Returned(Profile) /\ Hangup(Profile)
      /\ UNCHANGED <<owner, live, expired, device, refresh, launch, entry, exit,
                     faults, left, crossed, unheard>>
  BY DEF EndRecheck
<1>2. /\ call' \in [Callers -> Call]
      /\ call'[Profile].at = "idle" /\ call'[Profile].token = Null
      /\ \A d \in Callers : d # Profile => call'[d] = call[d]
      /\ WaitersHaveRefresh'
  <2>1. Profile \in Callers
    OBVIOUS
  <2>. QED
    BY <1>1, <2>1, HangupTyped DEF PhoneKnown
<1>3. CASE /\ call[Profile].at = "ok"
           /\ shown' = owner[call[Profile].token] /\ store' = [store EXCEPT !.user = shown']
           /\ UNCHANGED status
  <2>1. call[Profile].token \in issued
    BY <1>3 DEF PhoneKnown, CallsMatchTasks
  <2>2. shown' \in Users
    BY <1>3, <2>1, OwnersAreUsers DEF PhoneKnown
  <2>3. store \in Stores(issued)
    BY DEF PhoneKnown, PhoneTyped, PartsTyped
  <2>4. /\ store' \in Stores(issued)
        /\ store'.access = store.access /\ store'.refresh = store.refresh /\ store'.user = shown'
    BY <1>3, <2>2, <2>3 DEF Stores
  <2>. QED
    BY <1>1, <1>2, <1>3, <2>1, <2>2, <2>4
<1>4. CASE ~(call[Profile].at = "ok")
  BY <1>1, <1>2, <1>4 DEF EndRecheck
<1>. QED
  BY <1>3, <1>4 DEF EndRecheck

LEMMA RestartDoes ==
  ASSUME PhoneKnown, Restart
  PROVE  /\ faults > 0 /\ faults' = faults - 1
         /\ status' = "loading" /\ shown' = Null
         /\ refresh' \in Refreshes(issued) /\ refresh'.at = "none"
         /\ call' \in [Callers -> Call]
         /\ \A c \in Callers : call'[c].at = "idle" /\ call'[c].token = Null
         /\ launch' \in Launches /\ launch'.at = "reads"
         /\ entry' \in Entries(issued) /\ entry'.at = "idle"
         /\ exit' \in Exits(issued) /\ exit'.at = "idle"
         /\ crossed' = (crossed \/ entry.at = "caches") /\ crossed' \in BOOLEAN
         /\ UNCHANGED <<owner, live, expired, device, store, left, unheard>>
<1>1. /\ faults > 0 /\ faults' = faults - 1
      /\ status' = "loading" /\ shown' = Null
      /\ refresh' = NoRefresh
      /\ call' = [c \in Callers |-> NoCall]
      /\ launch' = [Away EXCEPT !.at = "reads"] /\ entry' = Away /\ exit' = Away
      /\ crossed' = (crossed \/ entry.at = "caches")
      /\ UNCHANGED <<owner, live, expired, device, store, left, unheard>>
  BY DEF Restart
<1>2. refresh' \in Refreshes(issued) /\ refresh'.at = "none"
  BY <1>1 DEF NoRefresh, Refreshes
<1>3. /\ call' \in [Callers -> Call]
      /\ \A c \in Callers : call'[c].at = "idle" /\ call'[c].token = Null
  BY <1>1, NoCallIsCall
<1>4. launch' \in Launches /\ launch'.at = "reads"
  BY <1>1 DEF Away, Launches
<1>5. crossed' \in BOOLEAN
  BY <1>1
<1>. QED
  BY <1>1, <1>2, <1>3, <1>4, <1>5, AwayIsTyped

-----------------------------------------------------------------------------
(* What is known stays known.                                               *)

\* A call that goes on says no more than it did.
LEMMA CallsGoOn ==
  ASSUME CallsMatchTasks, UNCHANGED <<launch, entry, exit>>,
         \A d \in Callers :
           /\ call'[d].at = "idle" <=> call[d].at = "idle"
           /\ call'[d].purpose = call[d].purpose
           /\ call'[d].token \in issued' \cup {Null}
           /\ call'[d].at = "ok" => call'[d].token # Null
  PROVE  CallsMatchTasks'
BY DEF CallsMatchTasks, Idle

LEMMA JoinedKnown ==
  ASSUME WorkIsKnown, RefreshJoined
  PROVE  /\ refresh'.at \in {"posted", "granted"} => refresh'.token # Null
         /\ refresh'.at \in {"granted", "stored"} => refresh'.got # Null
BY DEF WorkIsKnown, RefreshJoined

LEMMA ServeKnown ==
  ASSUME PhoneKnown, NEW c \in Callers, Serve(c) \/ Lose(c), faults' \in 0..MaxFaults
  PROVE  PhoneKnown'
<1>1. /\ call[c].at = "sent" /\ call[c].purpose # "login"
      /\ \/ UNCHANGED <<live, device>>
         \/ call[c].token \in issued /\ Effect(call[c])
      /\ call' \in [Callers -> Call]
      /\ call'[c].at \in {"ok", "lost"} /\ call'[c].purpose = call[c].purpose
      /\ call'[c].token = IF call'[c].at = "ok" THEN call[c].token ELSE Null
      /\ call'[c].at = "ok" => call[c].token \in issued
      /\ \A d \in Callers : d # c => call'[d] = call[d]
      /\ WaitersHaveRefresh'
      /\ UNCHANGED <<owner, expired, store, status, shown, refresh, launch, entry, exit,
                     left, crossed, unheard>>
  <2>1. CASE Serve(c)
    BY <2>1, ServeDoes
  <2>2. CASE Lose(c)
    BY <2>2, LoseDoes
  <2>. QED
    BY <2>1, <2>2
<1>2. OwnersTyped' /\ issued' = issued
  BY <1>1, MintedKept DEF PhoneKnown, PhoneTyped
<1>3. live' \subseteq live /\ device' \in Devices
  BY <1>1, EffectDoes DEF PhoneKnown, PhoneTyped, PartsTyped
<1>4. PhoneTyped'
  BY <1>1, <1>2, <1>3 DEF PhoneKnown, PhoneTyped, PartsTyped
<1>5. CallsMatchTasks'
  <2>1. ASSUME NEW d \in Callers
        PROVE  /\ call'[d].at = "idle" <=> call[d].at = "idle"
               /\ call'[d].purpose = call[d].purpose
               /\ call'[d].token \in issued' \cup {Null}
               /\ call'[d].at = "ok" => call'[d].token # Null
    <3>1. CASE d = c
      BY <1>1, <1>2, <3>1, NoneIsNoPair DEF PhoneKnown
    <3>2. CASE d # c
      BY <1>1, <1>2, <3>2 DEF PhoneKnown, CallsMatchTasks
    <3>. QED
      BY <3>1, <3>2
  <2>. QED
    BY <1>1, <2>1, CallsGoOn DEF PhoneKnown
<1>6. WorkIsKnown'
  BY <1>1 DEF PhoneKnown, WorkIsKnown
<1>7. BootIsAlone'
  BY <1>1 DEF PhoneKnown, BootIsAlone, Idle, Refreshing, Waiting
<1>. QED
  BY <1>4, <1>5, <1>6, <1>7 DEF PhoneKnown

LEMMA RefuseKnown ==
  ASSUME PhoneKnown, NEW c \in Callers, Refuse(c)
  PROVE  PhoneKnown'
<1>1. /\ call[c].at = "sent" /\ call[c].purpose # "login"
      /\ Refuses(c)
      /\ UNCHANGED <<owner, live, expired, device, store, status, shown, launch, entry, exit,
                     faults, left, crossed, unheard>>
  BY RefuseDoes
<1>2. OwnersTyped' /\ issued' = issued
  BY <1>1, MintedKept DEF PhoneKnown, PhoneTyped
<1>3. /\ refresh' \in Refreshes(issued)
      /\ call' \in [Callers -> Call]
      /\ \A d \in Callers : d # c => call'[d] = call[d]
      /\ call'[c].purpose = call[c].purpose /\ call'[c].token = Null
      /\ \/ call'[c].at = "waits again" /\ Refreshing'
         \/ call'[c].at = "refused" /\ (refresh'.at = "void" \/ (call[c].retried /\ UNCHANGED refresh))
      /\ WaitersHaveRefresh'
  BY <1>1, RefusesTyped DEF PhoneKnown
<1>4. PhoneTyped'
  BY <1>1, <1>2, <1>3 DEF PhoneKnown, PhoneTyped, PartsTyped
<1>5. CallsMatchTasks'
  <2>1. ASSUME NEW d \in Callers
        PROVE  /\ call'[d].at = "idle" <=> call[d].at = "idle"
               /\ call'[d].purpose = call[d].purpose
               /\ call'[d].token \in issued' \cup {Null}
               /\ call'[d].at = "ok" => call'[d].token # Null
    <3>1. CASE d = c
      BY <1>1, <1>3, <3>1
    <3>2. CASE d # c
      <4>1. call'[d] = call[d]
        BY <1>3, <3>2
      <4>2. call[d].token \in issued \cup {Null} /\ (call[d].at = "ok" => call[d].token # Null)
        BY DEF PhoneKnown, CallsMatchTasks
      <4>. QED
        BY <1>2, <4>1, <4>2
    <3>. QED
      BY <3>1, <3>2
  <2>. QED
    BY <1>1, <2>1, CallsGoOn DEF PhoneKnown
<1>6. WorkIsKnown'
  BY <1>1, JoinedKnown DEF PhoneKnown, WorkIsKnown, Refuses
<1>7. BootIsAlone'
  BY <1>1, <1>3 DEF PhoneKnown, BootIsAlone, CallsMatchTasks, Idle, Refreshing, Waiting
<1>. QED
  BY <1>4, <1>5, <1>6, <1>7 DEF PhoneKnown

LEMMA RedeemKnown ==
  ASSUME PhoneKnown, Redeem
  PROVE  PhoneKnown'
<1>1. PartsTyped(issued')
  BY RedeemDoes, PartsGrow DEF PhoneKnown, PhoneTyped
<1>2. PhoneTyped'
  BY <1>1, RedeemDoes DEF PhoneKnown, PhoneTyped, PartsTyped, WaitersHaveRefresh, Refreshing
<1>3. CallsMatchTasks'
  BY RedeemDoes DEF PhoneKnown, CallsMatchTasks, Idle
<1>4. WorkIsKnown' /\ BootIsAlone'
  BY RedeemDoes, NoneIsNoPair DEF PhoneKnown, WorkIsKnown, BootIsAlone, Idle, Refreshing
<1>. QED
  BY <1>2, <1>3, <1>4 DEF PhoneKnown

LEMMA RejectKnown ==
  ASSUME PhoneKnown, RefuseRefresh \/ LoseRefresh
  PROVE  PhoneKnown'
<1>1. OwnersTyped' /\ issued' = issued
  BY RejectDoes, MintedKept DEF PhoneKnown, PhoneTyped
<1>2. PhoneTyped'
  BY <1>1, RejectDoes, FaultsFall DEF PhoneKnown, PhoneTyped, PartsTyped, WaitersHaveRefresh, Refreshing
<1>3. CallsMatchTasks'
  BY <1>1, RejectDoes DEF PhoneKnown, CallsMatchTasks, Idle
<1>4. WorkIsKnown' /\ BootIsAlone'
  BY RejectDoes DEF PhoneKnown, WorkIsKnown, BootIsAlone, Idle, Refreshing
<1>. QED
  BY <1>2, <1>3, <1>4 DEF PhoneKnown

LEMMA StoreRefreshKnown ==
  ASSUME PhoneKnown, StoreRefresh
  PROVE  PhoneKnown'
<1>1. OwnersTyped' /\ issued' = issued
  BY StoreRefreshDoes, MintedKept DEF PhoneKnown, PhoneTyped
<1>2. PhoneTyped'
  BY <1>1, StoreRefreshDoes DEF PhoneKnown, PhoneTyped, PartsTyped, WaitersHaveRefresh, Refreshing
<1>3. CallsMatchTasks'
  BY <1>1, StoreRefreshDoes DEF PhoneKnown, CallsMatchTasks, Idle
<1>4. WorkIsKnown' /\ BootIsAlone'
  BY StoreRefreshDoes DEF PhoneKnown, WorkIsKnown, BootIsAlone, Idle, Refreshing
<1>. QED
  BY <1>2, <1>3, <1>4 DEF PhoneKnown

LEMMA OutsideKnown ==
  ASSUME PhoneKnown, Expire \/ \E n \in issued : EndElsewhere(n)
  PROVE  PhoneKnown'
<1>1. OwnersTyped' /\ issued' = issued
  BY OutsideDoes, MintedKept DEF PhoneKnown, PhoneTyped
<1>2. PhoneTyped'
  BY <1>1, OutsideDoes, FaultsFall DEF PhoneKnown, PhoneTyped, PartsTyped, WaitersHaveRefresh, Refreshing
<1>3. CallsMatchTasks'
  BY <1>1, OutsideDoes DEF PhoneKnown, CallsMatchTasks, Idle
<1>4. WorkIsKnown' /\ BootIsAlone'
  BY OutsideDoes DEF PhoneKnown, WorkIsKnown, BootIsAlone, Idle, Refreshing
<1>. QED
  BY <1>2, <1>3, <1>4 DEF PhoneKnown

LEMMA ResolvedCalls ==
  ASSUME PhoneKnown, NEW got \in issued \cup {Null}, Resolves(got)
  PROVE  /\ call' \in [Callers -> Call]
         /\ \A d \in Callers :
              /\ call'[d].at \notin Waiting
              /\ call'[d].at = "idle" <=> call[d].at = "idle"
              /\ call'[d].purpose = call[d].purpose
              /\ call'[d].token \in issued \cup {Null}
              /\ call'[d].at = "ok" => call'[d].token # Null
<1>. SUFFICES ASSUME NEW d \in Callers
     PROVE  /\ call'[d].at \notin Waiting
            /\ call'[d].at = "idle" <=> call[d].at = "idle"
            /\ call'[d].purpose = call[d].purpose
            /\ call'[d].token \in issued \cup {Null}
            /\ call'[d].at = "ok" => call'[d].token # Null
  BY DEF Resolves
<1>1. /\ call[d].token \in issued \cup {Null}
      /\ call[d].at = "ok" => call[d].token # Null
  BY DEF PhoneKnown, CallsMatchTasks
<1>2. CASE call[d].at \in Waiting
  BY <1>1, <1>2 DEF Resolves, Waiting
<1>3. CASE call[d].at \notin Waiting
  BY <1>1, <1>3 DEF Resolves
<1>. QED
  BY <1>2, <1>3

LEMMA FinishKnown ==
  ASSUME PhoneKnown, FinishRefresh
  PROVE  PhoneKnown'
<1>1. OwnersTyped' /\ issued' = issued
  BY FinishDoes, MintedKept DEF PhoneKnown, PhoneTyped
<1>2. /\ call' \in [Callers -> Call]
      /\ \A d \in Callers :
           /\ call'[d].at \notin Waiting
           /\ call'[d].at = "idle" <=> call[d].at = "idle"
           /\ call'[d].purpose = call[d].purpose
           /\ call'[d].token \in issued \cup {Null}
           /\ call'[d].at = "ok" => call'[d].token # Null
  BY FinishDoes, ResolvedCalls
<1>3. PhoneTyped'
  BY <1>1, <1>2, FinishDoes DEF PhoneKnown, PhoneTyped, PartsTyped, WaitersHaveRefresh
<1>4. CallsMatchTasks'
  BY <1>1, <1>2, FinishDoes, CallsGoOn DEF PhoneKnown
<1>5. WorkIsKnown'
  BY FinishDoes DEF PhoneKnown, WorkIsKnown
<1>6. BootIsAlone'
  BY <1>2, FinishDoes DEF PhoneKnown, BootIsAlone, Idle, Refreshing
<1>. QED
  BY <1>3, <1>4, <1>5, <1>6 DEF PhoneKnown

LEMMA FailKnown ==
  ASSUME PhoneKnown, FailRefresh
  PROVE  PhoneKnown'
<1>1. OwnersTyped' /\ issued' = issued
  BY FailDoes, MintedKept DEF PhoneKnown, PhoneTyped
<1>2. /\ call' \in [Callers -> Call]
      /\ \A d \in Callers :
           /\ call'[d].at \notin Waiting
           /\ call'[d].at = "idle" <=> call[d].at = "idle"
           /\ call'[d].purpose = call[d].purpose
           /\ call'[d].token \in issued \cup {Null}
           /\ call'[d].at = "ok" => call'[d].token # Null
  BY FailDoes, ResolvedCalls
<1>3. PhoneTyped'
  BY <1>1, <1>2, FailDoes DEF PhoneKnown, PhoneTyped, PartsTyped, WaitersHaveRefresh
<1>4. CallsMatchTasks'
  BY <1>1, <1>2, FailDoes DEF PhoneKnown, CallsMatchTasks, Idle
<1>5. WorkIsKnown'
  BY FailDoes DEF PhoneKnown, WorkIsKnown
<1>6. BootIsAlone'
  BY <1>2, FailDoes DEF PhoneKnown, BootIsAlone, Idle, Refreshing
<1>. QED
  BY <1>3, <1>4, <1>5, <1>6 DEF PhoneKnown

LEMMA SignInKnown ==
  ASSUME PhoneKnown, NEW u \in Users, SignIn(u)
  PROVE  PhoneKnown'
<1>1. Sends(Entry, "login") /\ UNCHANGED <<owner, store>>
  BY SignInDoes
<1>2. OwnersTyped' /\ issued' = issued
  BY <1>1, MintedKept DEF PhoneKnown, PhoneTyped
<1>3. Entry \in Callers
  OBVIOUS
<1>4. /\ refresh' \in Refreshes(issued) /\ call' \in [Callers -> Call]
      /\ \A d \in Callers : d # Entry => call'[d] = call[d]
      /\ call'[Entry].purpose = "login" /\ call'[Entry].at \in {"sent", "waits first"}
      /\ call'[Entry].token \in issued \cup {Null}
      /\ call'[Entry].at = "sent" => UNCHANGED refresh \/ refresh'.at = "void"
      /\ WaitersHaveRefresh'
      /\ Refreshing => UNCHANGED refresh
  BY <1>1, <1>3, SendsTyped DEF PhoneKnown
<1>5. PhoneTyped'
  BY <1>2, <1>4, SignInDoes DEF PhoneKnown, PhoneTyped, PartsTyped
<1>6. CallsMatchTasks'
  BY <1>2, <1>4, SignInDoes DEF PhoneKnown, CallsMatchTasks, Idle
<1>7. WorkIsKnown'
  BY <1>1, SignInDoes, JoinedKnown, NoneIsNoPair DEF PhoneKnown, WorkIsKnown, Sends
<1>8. BootIsAlone'
  BY <1>4, SignInDoes DEF PhoneKnown, CallsMatchTasks, BootIsAlone, Idle, Refreshing, Waiting
<1>. QED
  BY <1>5, <1>6, <1>7, <1>8 DEF PhoneKnown

LEMMA SignOutKnown ==
  ASSUME PhoneKnown, SignOut
  PROVE  PhoneKnown'
<1>1. Sends(Exit, "unregister-all") /\ UNCHANGED <<owner, store>>
  BY SignOutDoes
<1>2. OwnersTyped' /\ issued' = issued
  BY <1>1, MintedKept DEF PhoneKnown, PhoneTyped
<1>3. Exit \in Callers
  OBVIOUS
<1>4. /\ refresh' \in Refreshes(issued) /\ call' \in [Callers -> Call]
      /\ \A d \in Callers : d # Exit => call'[d] = call[d]
      /\ call'[Exit].purpose = "unregister-all" /\ call'[Exit].at \in {"sent", "waits first"}
      /\ call'[Exit].token \in issued \cup {Null}
      /\ call'[Exit].at = "sent" => UNCHANGED refresh \/ refresh'.at = "void"
      /\ WaitersHaveRefresh'
      /\ Refreshing => UNCHANGED refresh
  BY <1>1, <1>3, SendsTyped DEF PhoneKnown
<1>5. PhoneTyped'
  BY <1>2, <1>4, SignOutDoes DEF PhoneKnown, PhoneTyped, PartsTyped
<1>6. CallsMatchTasks'
  BY <1>2, <1>4, SignOutDoes DEF PhoneKnown, CallsMatchTasks, Idle
<1>7. WorkIsKnown'
  BY <1>1, SignOutDoes, JoinedKnown, NoneIsNoPair DEF PhoneKnown, WorkIsKnown, Sends
<1>8. BootIsAlone'
  BY <1>4, SignOutDoes DEF PhoneKnown, CallsMatchTasks, BootIsAlone, Idle, Refreshing, Waiting
<1>. QED
  BY <1>5, <1>6, <1>7, <1>8 DEF PhoneKnown

LEMMA SendLogoutKnown ==
  ASSUME PhoneKnown, SendLogout
  PROVE  PhoneKnown'
<1>1. Sends(Exit, "logout") /\ UNCHANGED <<owner, store>>
  BY SendLogoutDoes
<1>2. OwnersTyped' /\ issued' = issued
  BY <1>1, MintedKept DEF PhoneKnown, PhoneTyped
<1>3. Exit \in Callers
  OBVIOUS
<1>4. /\ refresh' \in Refreshes(issued) /\ call' \in [Callers -> Call]
      /\ \A d \in Callers : d # Exit => call'[d] = call[d]
      /\ call'[Exit].purpose = "logout" /\ call'[Exit].at \in {"sent", "waits first"}
      /\ call'[Exit].token \in issued \cup {Null}
      /\ call'[Exit].at = "sent" => UNCHANGED refresh \/ refresh'.at = "void"
      /\ WaitersHaveRefresh'
      /\ Refreshing => UNCHANGED refresh
  BY <1>1, <1>3, SendsTyped DEF PhoneKnown
<1>5. PhoneTyped'
  BY <1>2, <1>4, SendLogoutDoes DEF PhoneKnown, PhoneTyped, PartsTyped
<1>6. CallsMatchTasks'
  BY <1>2, <1>4, SendLogoutDoes DEF PhoneKnown, CallsMatchTasks, Idle
<1>7. WorkIsKnown'
  BY <1>1, SendLogoutDoes, JoinedKnown, NoneIsNoPair DEF PhoneKnown, WorkIsKnown, Sends
<1>8. BootIsAlone'
  BY <1>4, SendLogoutDoes DEF PhoneKnown, CallsMatchTasks, BootIsAlone, Idle, Refreshing, Waiting
<1>. QED
  BY <1>5, <1>6, <1>7, <1>8 DEF PhoneKnown

LEMMA SendRegistrationKnown ==
  ASSUME PhoneKnown, SendRegistration
  PROVE  PhoneKnown'
<1>1. Sends(Push, "register") /\ UNCHANGED <<owner, store>>
  BY SendRegistrationDoes
<1>2. OwnersTyped' /\ issued' = issued
  BY <1>1, MintedKept DEF PhoneKnown, PhoneTyped
<1>3. Push \in Callers
  OBVIOUS
<1>4. /\ refresh' \in Refreshes(issued) /\ call' \in [Callers -> Call]
      /\ \A d \in Callers : d # Push => call'[d] = call[d]
      /\ call'[Push].purpose = "register" /\ call'[Push].at \in {"sent", "waits first"}
      /\ call'[Push].token \in issued \cup {Null}
      /\ call'[Push].at = "sent" => UNCHANGED refresh \/ refresh'.at = "void"
      /\ WaitersHaveRefresh'
      /\ Refreshing => UNCHANGED refresh
  BY <1>1, <1>3, SendsTyped DEF PhoneKnown
<1>5. PhoneTyped'
  BY <1>2, <1>4, SendRegistrationDoes DEF PhoneKnown, PhoneTyped, PartsTyped
<1>6. CallsMatchTasks'
  BY <1>2, <1>4, SendRegistrationDoes DEF PhoneKnown, CallsMatchTasks, Idle
<1>7. WorkIsKnown'
  BY <1>1, SendRegistrationDoes, JoinedKnown, NoneIsNoPair DEF PhoneKnown, WorkIsKnown, Sends
<1>8. BootIsAlone'
  BY <1>4, SendRegistrationDoes DEF PhoneKnown, CallsMatchTasks, BootIsAlone, Idle, Refreshing, Waiting
<1>. QED
  BY <1>5, <1>6, <1>7, <1>8 DEF PhoneKnown

LEMMA SendRecheckKnown ==
  ASSUME PhoneKnown, SendRecheck
  PROVE  PhoneKnown'
<1>1. Sends(Profile, "me") /\ UNCHANGED <<owner, store>>
  BY SendRecheckDoes
<1>2. OwnersTyped' /\ issued' = issued
  BY <1>1, MintedKept DEF PhoneKnown, PhoneTyped
<1>3. Profile \in Callers
  OBVIOUS
<1>4. /\ refresh' \in Refreshes(issued) /\ call' \in [Callers -> Call]
      /\ \A d \in Callers : d # Profile => call'[d] = call[d]
      /\ call'[Profile].purpose = "me" /\ call'[Profile].at \in {"sent", "waits first"}
      /\ call'[Profile].token \in issued \cup {Null}
      /\ call'[Profile].at = "sent" => UNCHANGED refresh \/ refresh'.at = "void"
      /\ WaitersHaveRefresh'
      /\ Refreshing => UNCHANGED refresh
  BY <1>1, <1>3, SendsTyped DEF PhoneKnown
<1>5. PhoneTyped'
  BY <1>2, <1>4, SendRecheckDoes DEF PhoneKnown, PhoneTyped, PartsTyped
<1>6. CallsMatchTasks'
  BY <1>2, <1>4, SendRecheckDoes DEF PhoneKnown, CallsMatchTasks, Idle
<1>7. WorkIsKnown'
  BY <1>1, SendRecheckDoes, JoinedKnown, NoneIsNoPair DEF PhoneKnown, WorkIsKnown, Sends
<1>8. BootIsAlone'
  BY <1>4, SendRecheckDoes DEF PhoneKnown, CallsMatchTasks, BootIsAlone, Idle, Refreshing, Waiting
<1>. QED
  BY <1>5, <1>6, <1>7, <1>8 DEF PhoneKnown

LEMMA DecideKnown ==
  ASSUME PhoneKnown, Decide
  PROVE  PhoneKnown'
<1>1. OwnersTyped' /\ issued' = issued
  BY DecideDoes, MintedKept DEF PhoneKnown, PhoneTyped
<1>2. PhoneTyped'
  BY <1>1, DecideDoes DEF PhoneKnown, PhoneTyped, PartsTyped, WaitersHaveRefresh, Refreshing
<1>3. CallsMatchTasks'
  BY <1>1, DecideDoes DEF PhoneKnown, CallsMatchTasks, Idle
<1>4. WorkIsKnown'
  BY DecideDoes, NoneIsNoPair DEF PhoneKnown, WorkIsKnown
<1>5. BootIsAlone'
  BY DecideDoes DEF PhoneKnown, CallsMatchTasks, BootIsAlone, Idle, Refreshing
<1>. QED
  BY <1>2, <1>3, <1>4, <1>5 DEF PhoneKnown

LEMMA FailLoginKnown ==
  ASSUME PhoneKnown, FailLogin
  PROVE  PhoneKnown'
<1>1. OwnersTyped' /\ issued' = issued
  BY FailLoginDoes, MintedKept DEF PhoneKnown, PhoneTyped
<1>2. PhoneTyped'
  BY <1>1, FailLoginDoes DEF PhoneKnown, PhoneTyped, PartsTyped, WaitersHaveRefresh, Refreshing
<1>3. CallsMatchTasks'
  BY <1>1, FailLoginDoes DEF PhoneKnown, CallsMatchTasks, Idle
<1>4. WorkIsKnown'
  BY FailLoginDoes, NoneIsNoPair DEF PhoneKnown, WorkIsKnown
<1>5. BootIsAlone'
  BY FailLoginDoes DEF PhoneKnown, CallsMatchTasks, BootIsAlone, Idle, Refreshing
<1>. QED
  BY <1>2, <1>3, <1>4, <1>5 DEF PhoneKnown

LEMMA StoreKnown ==
  ASSUME PhoneKnown, StoreTokens
  PROVE  PhoneKnown'
<1>1. OwnersTyped' /\ issued' = issued
  BY StoreDoes, MintedKept DEF PhoneKnown, PhoneTyped
<1>2. PhoneTyped'
  BY <1>1, StoreDoes DEF PhoneKnown, PhoneTyped, PartsTyped, WaitersHaveRefresh, Refreshing
<1>3. CallsMatchTasks'
  BY <1>1, StoreDoes DEF PhoneKnown, CallsMatchTasks, Idle
<1>4. WorkIsKnown'
  BY StoreDoes, NoneIsNoPair DEF PhoneKnown, WorkIsKnown
<1>5. BootIsAlone'
  BY StoreDoes DEF PhoneKnown, CallsMatchTasks, BootIsAlone, Idle, Refreshing
<1>. QED
  BY <1>2, <1>3, <1>4, <1>5 DEF PhoneKnown

LEMMA CacheKnown ==
  ASSUME PhoneKnown, CacheUser
  PROVE  PhoneKnown'
<1>1. OwnersTyped' /\ issued' = issued
  BY CacheDoes, MintedKept DEF PhoneKnown, PhoneTyped
<1>2. PhoneTyped'
  BY <1>1, CacheDoes DEF PhoneKnown, PhoneTyped, PartsTyped, WaitersHaveRefresh, Refreshing
<1>3. CallsMatchTasks'
  BY <1>1, CacheDoes DEF PhoneKnown, CallsMatchTasks, Idle
<1>4. WorkIsKnown'
  BY CacheDoes, NoneIsNoPair DEF PhoneKnown, WorkIsKnown
<1>5. BootIsAlone'
  BY CacheDoes DEF PhoneKnown, CallsMatchTasks, BootIsAlone, Idle, Refreshing
<1>. QED
  BY <1>2, <1>3, <1>4, <1>5 DEF PhoneKnown

LEMMA ReadBackKnown ==
  ASSUME PhoneKnown, ReadBack
  PROVE  PhoneKnown'
<1>1. OwnersTyped' /\ issued' = issued
  BY ReadBackDoes, MintedKept DEF PhoneKnown, PhoneTyped
<1>2. PhoneTyped'
  BY <1>1, ReadBackDoes DEF PhoneKnown, PhoneTyped, PartsTyped, WaitersHaveRefresh, Refreshing
<1>3. CallsMatchTasks'
  BY <1>1, ReadBackDoes DEF PhoneKnown, CallsMatchTasks, Idle
<1>4. WorkIsKnown'
  BY ReadBackDoes, NoneIsNoPair DEF PhoneKnown, WorkIsKnown
<1>5. BootIsAlone'
  BY ReadBackDoes DEF PhoneKnown, CallsMatchTasks, BootIsAlone, Idle, Refreshing
<1>. QED
  BY <1>2, <1>3, <1>4, <1>5 DEF PhoneKnown

LEMMA LeaveKnown ==
  ASSUME PhoneKnown, Leave
  PROVE  PhoneKnown'
<1>1. OwnersTyped' /\ issued' = issued
  BY LeaveDoes, MintedKept DEF PhoneKnown, PhoneTyped
<1>2. PhoneTyped'
  BY <1>1, LeaveDoes, AwayIsTyped DEF PhoneKnown, PhoneTyped, PartsTyped, WaitersHaveRefresh, Refreshing
<1>3. CallsMatchTasks'
  BY <1>1, LeaveDoes DEF PhoneKnown, CallsMatchTasks, Idle
<1>4. WorkIsKnown'
  BY LeaveDoes, NoneIsNoPair DEF PhoneKnown, WorkIsKnown
<1>5. BootIsAlone'
  BY LeaveDoes DEF PhoneKnown, CallsMatchTasks, BootIsAlone, Idle, Refreshing
<1>. QED
  BY <1>2, <1>3, <1>4, <1>5 DEF PhoneKnown

LEMMA EndRegistrationKnown ==
  ASSUME PhoneKnown, EndRegistration
  PROVE  PhoneKnown'
<1>1. OwnersTyped' /\ issued' = issued
  BY EndRegistrationDoes, MintedKept DEF PhoneKnown, PhoneTyped
<1>2. PhoneTyped'
  BY <1>1, EndRegistrationDoes DEF PhoneKnown, PhoneTyped, PartsTyped, WaitersHaveRefresh, Refreshing
<1>3. CallsMatchTasks'
  BY <1>1, EndRegistrationDoes DEF PhoneKnown, CallsMatchTasks, Idle
<1>4. WorkIsKnown'
  BY EndRegistrationDoes, NoneIsNoPair DEF PhoneKnown, WorkIsKnown
<1>5. BootIsAlone'
  BY EndRegistrationDoes DEF PhoneKnown, CallsMatchTasks, BootIsAlone, Idle, Refreshing
<1>. QED
  BY <1>2, <1>3, <1>4, <1>5 DEF PhoneKnown

LEMMA EndRecheckKnown ==
  ASSUME PhoneKnown, EndRecheck
  PROVE  PhoneKnown'
<1>1. OwnersTyped' /\ issued' = issued
  BY EndRecheckDoes, MintedKept DEF PhoneKnown, PhoneTyped
<1>2. PhoneTyped'
  BY <1>1, EndRecheckDoes, AwayIsTyped DEF PhoneKnown, PhoneTyped, PartsTyped, WaitersHaveRefresh, Refreshing
<1>3. CallsMatchTasks'
  BY <1>1, EndRecheckDoes DEF PhoneKnown, CallsMatchTasks, Idle
<1>4. WorkIsKnown'
  BY EndRecheckDoes, NoneIsNoPair DEF PhoneKnown, WorkIsKnown
<1>5. BootIsAlone'
  BY EndRecheckDoes DEF PhoneKnown, CallsMatchTasks, BootIsAlone, Idle, Refreshing
<1>. QED
  BY <1>2, <1>3, <1>4, <1>5 DEF PhoneKnown

LEMMA RestartKnown ==
  ASSUME PhoneKnown, Restart
  PROVE  PhoneKnown'
<1>1. OwnersTyped' /\ issued' = issued
  BY RestartDoes, MintedKept DEF PhoneKnown, PhoneTyped
<1>2. PhoneTyped'
  BY <1>1, RestartDoes, FaultsFall DEF PhoneKnown, PhoneTyped, PartsTyped, WaitersHaveRefresh, Waiting
<1>3. CallsMatchTasks'
  BY <1>1, RestartDoes DEF PhoneKnown, CallsMatchTasks, Idle
<1>4. WorkIsKnown'
  BY RestartDoes, NoneIsNoPair DEF PhoneKnown, WorkIsKnown
<1>5. BootIsAlone'
  BY RestartDoes DEF PhoneKnown, CallsMatchTasks, BootIsAlone, Idle, Refreshing
<1>. QED
  BY <1>2, <1>3, <1>4, <1>5 DEF PhoneKnown

LEMMA ReadKnown ==
  ASSUME PhoneKnown, ReadSession
  PROVE  PhoneKnown'
<1>1. OwnersTyped' /\ issued' = issued
  BY ReadDoes, MintedKept DEF PhoneKnown, PhoneTyped
<1>2. CASE status' = "signed-out" /\ launch'.at = "idle" /\ UNCHANGED <<call, refresh>>
  <2>1. PhoneTyped'
    BY <1>1, <1>2, ReadDoes DEF PhoneKnown, PhoneTyped, PartsTyped, WaitersHaveRefresh, Refreshing
  <2>2. CallsMatchTasks'
    BY <1>1, <1>2, ReadDoes DEF PhoneKnown, CallsMatchTasks, Idle
  <2>3. WorkIsKnown' /\ BootIsAlone'
    BY <1>2, ReadDoes DEF PhoneKnown, WorkIsKnown, BootIsAlone
  <2>. QED
    BY <2>1, <2>2, <2>3 DEF PhoneKnown
<1>3. CASE /\ store.refresh # Null /\ store.user # Null
           /\ launch'.at = "asks" /\ launch'.user = store.user
           /\ Sends(Boot, "me") /\ UNCHANGED status
  <2>1. Boot \in Callers
    OBVIOUS
  <2>2. /\ refresh' \in Refreshes(issued) /\ call' \in [Callers -> Call]
        /\ \A d \in Callers : d # Boot => call'[d] = call[d]
        /\ call'[Boot].purpose = "me" /\ call'[Boot].at \in {"sent", "waits first"}
        /\ call'[Boot].token \in issued \cup {Null}
        /\ call'[Boot].at = "sent" => UNCHANGED refresh \/ refresh'.at = "void"
        /\ WaitersHaveRefresh'
        /\ Refreshing => UNCHANGED refresh
    BY <1>3, <2>1, SendsTyped DEF PhoneKnown
  <2>3. PhoneTyped'
    BY <1>1, <1>3, <2>2, ReadDoes DEF PhoneKnown, PhoneTyped, PartsTyped
  <2>4. CallsMatchTasks'
    BY <1>1, <1>3, <2>2, ReadDoes DEF PhoneKnown, CallsMatchTasks, Idle
  <2>5. WorkIsKnown'
    BY <1>3, ReadDoes, JoinedKnown DEF PhoneKnown, WorkIsKnown, Sends
  <2>6. BootIsAlone'
    BY <1>3, <2>2, ReadDoes DEF PhoneKnown, BootIsAlone, Idle, Refreshing, Waiting
  <2>. QED
    BY <2>3, <2>4, <2>5, <2>6 DEF PhoneKnown
<1>. QED
  BY <1>2, <1>3, ReadDoes

LEMMA OpenKnown ==
  ASSUME PhoneKnown, OpenApp
  PROVE  PhoneKnown'
<1>1. OwnersTyped' /\ issued' = issued
  BY OpenDoes, MintedKept DEF PhoneKnown, PhoneTyped
<1>2. PhoneTyped'
  BY <1>1, OpenDoes DEF PhoneKnown, PhoneTyped, PartsTyped, WaitersHaveRefresh, Refreshing
<1>3. CallsMatchTasks'
  BY <1>1, OpenDoes DEF PhoneKnown, CallsMatchTasks, Idle
<1>. QED
  BY <1>2, <1>3, OpenDoes DEF PhoneKnown, WorkIsKnown, BootIsAlone

LEMMA LoginKnown ==
  ASSUME PhoneKnown, Login
  PROVE  PhoneKnown'
<1>1. PartsTyped(issued')
  BY LoginDoes, PartsGrow DEF PhoneKnown, PhoneTyped
<1>2. PhoneTyped'
  BY <1>1, LoginDoes DEF PhoneKnown, PhoneTyped, PartsTyped
<1>3. CallsMatchTasks'
  BY LoginDoes DEF PhoneKnown, CallsMatchTasks, Idle
<1>4. WorkIsKnown' /\ BootIsAlone'
  BY LoginDoes DEF PhoneKnown, WorkIsKnown, BootIsAlone, Idle, Refreshing
<1>. QED
  BY <1>2, <1>3, <1>4 DEF PhoneKnown

LEMMA PairsAreMinted ==
  ASSUME PhoneKnown
  PROVE  /\ Null \notin issued
         /\ store.access \in issued \cup {Null} /\ store.refresh \in issued \cup {Null}
         /\ refresh.token \in issued \cup {Null} /\ refresh.got \in issued \cup {Null}
         /\ entry.pair \in issued \cup {Null}
         /\ live \subseteq issued /\ expired \subseteq issued /\ faults \in 0..MaxFaults
BY NoneIsNoPair DEF PhoneKnown, PhoneTyped, PartsTyped, Stores, Refreshes, Entries

-----------------------------------------------------------------------------
(* As long as nothing is crossed.                                           *)

\* Nothing is heard of a step that leaves the sign-out alone, begins no registration and sets the
\* device row for a registration only.
LEMMA HeardOutKept ==
  ASSUME HeardOut, UNCHANGED <<unheard, left, exit>>,
         Idle(Push) => Idle(Push)' /\ (device' = device \/ ~device'.active),
         exit.at = "silences" /\ call'[Exit].at = "ok" =>
           call[Exit].at = "ok" \/ Silent(exit.user)'
  PROVE  HeardOut'
<1>1. ASSUME NEW u, Silent(u), Idle(Push) PROVE Silent(u)'
  BY <1>1 DEF Silent
<1>. QED
  BY <1>1 DEF HeardOut

\* Which task a request belongs to.
LEMMA WhoCalls ==
  ASSUME CallsMatchTasks, NEW c \in Callers, ~Idle(c)
  PROVE  /\ call[c].purpose = "logout" => c = Exit /\ exit.at # "idle"
         /\ call[c].purpose = "unregister-all" => c = Exit /\ exit.at = "silences"
         /\ call[c].purpose = "register" => c = Push
         /\ c = Exit /\ exit.at = "silences" => call[c].purpose = "unregister-all"
BY DEF CallsMatchTasks, Idle

LEMMA ResolvedOrKept ==
  ASSUME NEW got, Resolves(got)
  PROVE  \A d \in Callers :
           /\ \/ call'[d] = call[d]
              \/ call'[d].at = "sent" /\ call'[d].token = got
              \/ call'[d].at = "refused" /\ call'[d].token = call[d].token /\ got = Null
           /\ call'[d].token \in {call[d].token, got}
           /\ call'[d].at = "refused" => call[d].at = "refused" \/ got = Null
BY DEF Resolves

\* What becomes of the refresh when a request begins or is refused.
RefreshFollows ==
  \/ UNCHANGED refresh
  \/ /\ refresh.at = "none" /\ store.refresh # Null
     /\ refresh'.at = "posted" /\ refresh'.token = store.refresh /\ refresh'.got = Null
  \/ refresh.at \in {"none", "void"} /\ refresh'.at = "void" /\ refresh'.got = Null

LEMMA JoinedFollows ==
  ASSUME RefreshJoined
  PROVE  RefreshFollows
BY DEF RefreshJoined, RefreshFollows

LEMMA FaultsCount ==
  ASSUME faults' # MaxFaults
  PROVE  SessionLives'
BY DEF SessionLives

LEMMA RetryKept ==
  ASSUME RetryIsGood, UNCHANGED expired, call'[Profile] = call[Profile]
  PROVE  RetryIsGood'
BY DEF RetryIsGood, Authorised

LEMMA RetryOver ==
  ASSUME call'[Profile].at # "sent" \/ (call'[Profile].token # Null /\ call'[Profile].token \notin expired')
  PROVE  RetryIsGood'
BY DEF RetryIsGood, Authorised

LEMMA RedeemUndisturbed ==
  ASSUME PhoneInv, Redeem, ~crossed'
  PROVE  Undisturbed'
<1>1. PhoneKnown /\ ~crossed
  <2>1. PhoneKnown
    BY DEF PhoneInv
  <2>2. ~crossed
    BY <2>1, RedeemDoes
  <2>. QED
    BY <2>1, <2>2
<1>2. Undisturbed
  BY <1>1 DEF PhoneInv
<1>3. PICK s \in Users \cup {Null} : SessionOf(s)
  BY <1>2 DEF Undisturbed, OneSession
<1>4. /\ Null \notin issued
      /\ store.access \in issued \cup {Null} /\ store.refresh \in issued \cup {Null}
      /\ refresh.token \in issued \cup {Null} /\ refresh.got \in issued \cup {Null}
      /\ entry.pair \in issued \cup {Null}
      /\ live \subseteq issued /\ expired \subseteq issued /\ faults \in 0..MaxFaults
  BY <1>1, PairsAreMinted
<1>5. TasksTakeTurns'
  BY <1>1, <1>2, RedeemDoes DEF Undisturbed, TasksTakeTurns, Idle, Refreshing
<1>6. SessionOf(s)'
  <2>1. \A n \in issued' : n \in {store'.access, store'.refresh} => owner'[n] = s
    BY <1>1, <1>3, RedeemDoes DEF SessionOf
  <2>2. entry'.at = "caches" \/ store'.user \in {s, Null}
    BY <1>1, <1>3, RedeemDoes DEF SessionOf
  <2>3. status' = "signed-in" \/ launch'.at = "shows" => shown' = s
    BY <1>1, <1>3, RedeemDoes DEF SessionOf
  <2>4. refresh'.at \in {"posted", "granted"} => owner'[refresh'.token] = s
    BY <1>1, <1>3, RedeemDoes DEF SessionOf
  <2>5. refresh'.at \in {"granted", "stored"} => owner'[refresh'.got] = s
    BY <1>1, <1>3, RedeemDoes DEF SessionOf
  <2>6. \A n \in issued' : (n = call'[Profile].token /\ call'[Profile].at # "idle")
          \/ (n = call'[Exit].token /\ call'[Exit].at # "idle") => owner'[n] = s
    BY <1>1, <1>3, RedeemDoes DEF SessionOf
  <2>7. \A n \in issued' : launch'.at = "asks" /\ n = call'[Boot].token => owner'[n] = s
    BY <1>1, <1>3, RedeemDoes DEF SessionOf
  <2>8. launch'.at \in {"asks", "shows"} => launch'.user = s
    BY <1>1, <1>3, RedeemDoes DEF SessionOf
  <2>9. exit'.at # "idle" => exit'.user = s
    BY <1>1, <1>3, RedeemDoes DEF SessionOf
  <2>10. entry'.at \in {"caches", "checks"} => entry'.user = s /\ owner'[entry'.pair] = s
    BY <1>1, <1>4, <1>3, <1>2, RedeemDoes DEF Undisturbed, PhoneKnown, WorkIsKnown, TasksTakeTurns, SessionOf
  <2>. QED
    BY <2>1, <2>2, <2>3, <2>4, <2>5, <2>6, <2>7, <2>8, <2>9, <2>10 DEF SessionOf
<1>7. EntryIsGranted'
  BY <1>1, <1>4, <1>2, RedeemDoes DEF Undisturbed, PhoneKnown, WorkIsKnown, EntryIsGranted
<1>8. SessionIsOver'
  BY <1>1, <1>2, RedeemDoes DEF Undisturbed, SessionIsOver, Refreshing
<1>9. HeardOut'
  <2>1. /\ HeardOut /\ UNCHANGED <<unheard, left, exit>>
        /\ Idle(Push) => Idle(Push)' /\ (device' = device \/ ~device'.active)
        /\ call'[Exit].at = "ok" => call[Exit].at = "ok"
    BY <1>1, <1>2, RedeemDoes DEF Undisturbed, Idle
  <2>. QED
    BY <2>1, HeardOutKept
<1>10. SessionLives'
  <2>. SUFFICES ASSUME faults' = MaxFaults, exit'.at = "idle"
       PROVE  SessionGoesOn'
    BY DEF SessionLives
  <2>1. SessionGoesOn /\ exit.at = "idle"
    BY <1>1, <1>2, RedeemDoes DEF Undisturbed, SessionLives
  <2>2. refresh'.at # "failed"
    BY <1>1, <2>1, RedeemDoes DEF SessionGoesOn
  <2>3. refresh'.at = "posted" => refresh'.token = store'.refresh
    BY <1>1, <2>1, RedeemDoes DEF SessionGoesOn
  <2>4. refresh'.at # "granted" /\ store'.refresh # Null => store'.refresh \in live'
    BY <1>1, <2>1, RedeemDoes DEF SessionGoesOn
  <2>5. refresh'.at \in {"granted", "stored"} =>
          refresh'.got \in live' /\ refresh'.got \notin expired' /\ refresh'.got # store'.access
    BY <1>1, <1>4, <2>1, RedeemDoes DEF SessionGoesOn
  <2>6. entry'.at = "stores" => entry'.pair \in live' /\ entry'.pair \notin {store'.refresh, refresh'.got}
    BY <1>1, <1>4, <2>1, RedeemDoes DEF SessionGoesOn
  <2>7. call'[Profile].at = "refused" => refresh'.at = "void"
    BY <1>1, <2>1, RedeemDoes DEF SessionGoesOn
  <2>8. RetryIsGood'
    BY <1>1, <2>1, RedeemDoes, RetryKept DEF SessionGoesOn
  <2>. QED
    BY <2>2, <2>3, <2>4, <2>5, <2>6, <2>7, <2>8 DEF SessionGoesOn
<1>. QED
  BY <1>5, <1>6, <1>7, <1>8, <1>9, <1>10 DEF Undisturbed, OneSession

LEMMA RejectUndisturbed ==
  ASSUME PhoneInv, RefuseRefresh \/ LoseRefresh, ~crossed'
  PROVE  Undisturbed'
<1>1. PhoneKnown /\ ~crossed
  <2>1. PhoneKnown
    BY DEF PhoneInv
  <2>2. ~crossed
    BY <2>1, RejectDoes
  <2>. QED
    BY <2>1, <2>2
<1>2. Undisturbed
  BY <1>1 DEF PhoneInv
<1>3. PICK s \in Users \cup {Null} : SessionOf(s)
  BY <1>2 DEF Undisturbed, OneSession
<1>4. /\ Null \notin issued
      /\ store.access \in issued \cup {Null} /\ store.refresh \in issued \cup {Null}
      /\ refresh.token \in issued \cup {Null} /\ refresh.got \in issued \cup {Null}
      /\ entry.pair \in issued \cup {Null}
      /\ live \subseteq issued /\ expired \subseteq issued /\ faults \in 0..MaxFaults
  BY <1>1, PairsAreMinted
<1>5. UNCHANGED owner /\ issued' = issued
  BY <1>1, RejectDoes, MintedKept DEF PhoneKnown, PhoneTyped
<1>6. TasksTakeTurns'
  BY <1>1, <1>2, RejectDoes DEF Undisturbed, TasksTakeTurns, Idle, Refreshing
<1>7. SessionOf(s)'
  BY <1>1, <1>5, <1>3, RejectDoes DEF SessionOf
<1>8. EntryIsGranted'
  BY <1>1, <1>2, RejectDoes DEF Undisturbed, EntryIsGranted
<1>9. SessionIsOver'
  BY <1>1, <1>2, RejectDoes DEF Undisturbed, SessionIsOver, Refreshing
<1>10. HeardOut'
  <2>1. /\ HeardOut /\ UNCHANGED <<unheard, left, exit>>
        /\ Idle(Push) => Idle(Push)' /\ (device' = device \/ ~device'.active)
        /\ call'[Exit].at = "ok" => call[Exit].at = "ok"
    BY <1>1, <1>2, RejectDoes DEF Undisturbed, Idle
  <2>. QED
    BY <2>1, HeardOutKept
<1>11. SessionLives'
  BY <1>1, <1>4, <1>2, RejectDoes, FaultsFall DEF Undisturbed, PhoneKnown, WorkIsKnown, SessionLives, SessionGoesOn
<1>. QED
  BY <1>6, <1>7, <1>8, <1>9, <1>10, <1>11 DEF Undisturbed, OneSession

LEMMA StoreRefreshUndisturbed ==
  ASSUME PhoneInv, StoreRefresh, ~crossed'
  PROVE  Undisturbed'
<1>1. PhoneKnown /\ ~crossed
  <2>1. PhoneKnown
    BY DEF PhoneInv
  <2>2. ~crossed
    BY <2>1, StoreRefreshDoes
  <2>. QED
    BY <2>1, <2>2
<1>2. Undisturbed
  BY <1>1 DEF PhoneInv
<1>3. PICK s \in Users \cup {Null} : SessionOf(s)
  BY <1>2 DEF Undisturbed, OneSession
<1>4. /\ Null \notin issued
      /\ store.access \in issued \cup {Null} /\ store.refresh \in issued \cup {Null}
      /\ refresh.token \in issued \cup {Null} /\ refresh.got \in issued \cup {Null}
      /\ entry.pair \in issued \cup {Null}
      /\ live \subseteq issued /\ expired \subseteq issued /\ faults \in 0..MaxFaults
  BY <1>1, PairsAreMinted
<1>5. UNCHANGED owner /\ issued' = issued
  BY <1>1, StoreRefreshDoes, MintedKept DEF PhoneKnown, PhoneTyped
<1>6. TasksTakeTurns'
  BY <1>1, <1>2, StoreRefreshDoes DEF Undisturbed, PhoneKnown, WorkIsKnown, TasksTakeTurns, Idle, Refreshing
<1>7. SessionOf(s)'
  BY <1>1, <1>5, <1>3, StoreRefreshDoes DEF SessionOf
<1>8. EntryIsGranted'
  BY <1>1, <1>2, StoreRefreshDoes DEF Undisturbed, EntryIsGranted
<1>9. SessionIsOver'
  BY <1>1, <1>2, StoreRefreshDoes DEF Undisturbed, SessionIsOver, Refreshing
<1>10. HeardOut'
  <2>1. /\ HeardOut /\ UNCHANGED <<unheard, left, exit>>
        /\ Idle(Push) => Idle(Push)' /\ (device' = device \/ ~device'.active)
        /\ call'[Exit].at = "ok" => call[Exit].at = "ok"
    BY <1>1, <1>2, StoreRefreshDoes DEF Undisturbed, Idle
  <2>. QED
    BY <2>1, HeardOutKept
<1>11. SessionLives'
  <2>. SUFFICES ASSUME faults' = MaxFaults, exit'.at = "idle"
       PROVE  SessionGoesOn'
    BY DEF SessionLives
  <2>1. SessionGoesOn /\ exit.at = "idle"
    BY <1>1, <1>2, StoreRefreshDoes DEF Undisturbed, SessionLives
  <2>2. refresh'.at # "failed"
    BY <1>1, <2>1, StoreRefreshDoes DEF SessionGoesOn
  <2>3. refresh'.at = "posted" => refresh'.token = store'.refresh
    BY <1>1, <2>1, StoreRefreshDoes DEF SessionGoesOn
  <2>4. refresh'.at # "granted" /\ store'.refresh # Null => store'.refresh \in live'
    BY <1>1, <2>1, StoreRefreshDoes DEF SessionGoesOn
  <2>5. refresh'.at \in {"granted", "stored"} =>
          refresh'.got \in live' /\ refresh'.got \notin expired' /\ refresh'.got # store'.access
    BY <1>1, <2>1, StoreRefreshDoes DEF SessionGoesOn
  <2>6. entry'.at = "stores" => entry'.pair \in live' /\ entry'.pair \notin {store'.refresh, refresh'.got}
    BY <1>1, <2>1, StoreRefreshDoes DEF SessionGoesOn
  <2>7. call'[Profile].at = "refused" => refresh'.at = "void"
    BY <1>1, <2>1, StoreRefreshDoes DEF SessionGoesOn
  <2>8. RetryIsGood'
    BY <1>1, <2>1, StoreRefreshDoes, RetryKept DEF SessionGoesOn
  <2>. QED
    BY <2>2, <2>3, <2>4, <2>5, <2>6, <2>7, <2>8 DEF SessionGoesOn
<1>. QED
  BY <1>6, <1>7, <1>8, <1>9, <1>10, <1>11 DEF Undisturbed, OneSession

LEMMA FinishUndisturbed ==
  ASSUME PhoneInv, FinishRefresh, ~crossed'
  PROVE  Undisturbed'
<1>1. PhoneKnown /\ ~crossed
  <2>1. PhoneKnown
    BY DEF PhoneInv
  <2>2. ~crossed
    BY <2>1, FinishDoes
  <2>. QED
    BY <2>1, <2>2
<1>2. Undisturbed
  BY <1>1 DEF PhoneInv
<1>3. PICK s \in Users \cup {Null} : SessionOf(s)
  BY <1>2 DEF Undisturbed, OneSession
<1>4. /\ Null \notin issued
      /\ store.access \in issued \cup {Null} /\ store.refresh \in issued \cup {Null}
      /\ refresh.token \in issued \cup {Null} /\ refresh.got \in issued \cup {Null}
      /\ entry.pair \in issued \cup {Null}
      /\ live \subseteq issued /\ expired \subseteq issued /\ faults \in 0..MaxFaults
  BY <1>1, PairsAreMinted
<1>5. UNCHANGED owner /\ issued' = issued
  BY <1>1, FinishDoes, MintedKept DEF PhoneKnown, PhoneTyped
<1>6. /\ call' \in [Callers -> Call]
      /\ \A d \in Callers :
           /\ call'[d].at \notin Waiting
           /\ call'[d].at = "idle" <=> call[d].at = "idle"
           /\ call'[d].token \in issued \cup {Null}
           /\ call'[d] = call[d] \/ (call'[d].at = "sent" /\ call'[d].token = refresh.got)
           /\ call'[d].token \in {call[d].token, refresh.got}
           /\ call'[d].at = "refused" => call[d].at = "refused"
  <2>1. Resolves(refresh.got) /\ refresh.got \in issued \cup {Null} /\ refresh.got # Null
    BY <1>1, <1>4, FinishDoes
  <2>. QED
    BY <1>1, <2>1, ResolvedCalls, ResolvedOrKept
<1>7. TasksTakeTurns'
  BY <1>1, <1>6, <1>2, FinishDoes DEF Undisturbed, TasksTakeTurns, Idle, Refreshing
<1>8. SessionOf(s)'
  <2>1. \A n \in issued' : n \in {store'.access, store'.refresh} => owner'[n] = s
    BY <1>1, <1>5, <1>3, FinishDoes DEF SessionOf
  <2>2. entry'.at = "caches" \/ store'.user \in {s, Null}
    BY <1>1, <1>3, FinishDoes DEF SessionOf
  <2>3. status' = "signed-in" \/ launch'.at = "shows" => shown' = s
    BY <1>1, <1>3, FinishDoes DEF SessionOf
  <2>4. refresh'.at \in {"posted", "granted"} => owner'[refresh'.token] = s
    BY <1>1, <1>3, FinishDoes DEF SessionOf
  <2>5. refresh'.at \in {"granted", "stored"} => owner'[refresh'.got] = s
    BY <1>1, <1>3, FinishDoes DEF SessionOf
  <2>6. \A n \in issued' : (n = call'[Profile].token /\ call'[Profile].at # "idle")
          \/ (n = call'[Exit].token /\ call'[Exit].at # "idle") => owner'[n] = s
    BY <1>1, <1>5, <1>6, <1>3, FinishDoes DEF SessionOf
  <2>7. \A n \in issued' : launch'.at = "asks" /\ n = call'[Boot].token => owner'[n] = s
    BY <1>1, <1>5, <1>6, <1>3, FinishDoes DEF SessionOf
  <2>8. launch'.at \in {"asks", "shows"} => launch'.user = s
    BY <1>1, <1>3, FinishDoes DEF SessionOf
  <2>9. exit'.at # "idle" => exit'.user = s
    BY <1>1, <1>3, FinishDoes DEF SessionOf
  <2>10. entry'.at \in {"caches", "checks"} => entry'.user = s /\ owner'[entry'.pair] = s
    BY <1>1, <1>3, FinishDoes DEF SessionOf
  <2>. QED
    BY <2>1, <2>2, <2>3, <2>4, <2>5, <2>6, <2>7, <2>8, <2>9, <2>10 DEF SessionOf
<1>9. EntryIsGranted'
  BY <1>1, <1>2, FinishDoes DEF Undisturbed, EntryIsGranted
<1>10. SessionIsOver'
  BY <1>1, <1>2, FinishDoes DEF Undisturbed, SessionIsOver, Refreshing
<1>11. HeardOut'
  <2>1. /\ HeardOut /\ UNCHANGED <<unheard, left, exit>>
        /\ Idle(Push) => Idle(Push)' /\ (device' = device \/ ~device'.active)
        /\ call'[Exit].at = "ok" => call[Exit].at = "ok"
    BY <1>1, <1>6, <1>2, FinishDoes DEF Undisturbed, Idle
  <2>. QED
    BY <2>1, HeardOutKept
<1>12. SessionLives'
  <2>. SUFFICES ASSUME faults' = MaxFaults, exit'.at = "idle"
       PROVE  SessionGoesOn'
    BY DEF SessionLives
  <2>1. SessionGoesOn /\ exit.at = "idle"
    BY <1>1, <1>2, FinishDoes DEF Undisturbed, SessionLives
  <2>2. refresh'.at # "failed"
    BY <1>1, <2>1, FinishDoes DEF SessionGoesOn
  <2>3. refresh'.at = "posted" => refresh'.token = store'.refresh
    BY <1>1, <2>1, FinishDoes DEF SessionGoesOn
  <2>4. refresh'.at # "granted" /\ store'.refresh # Null => store'.refresh \in live'
    BY <1>1, <2>1, FinishDoes DEF SessionGoesOn
  <2>5. refresh'.at \in {"granted", "stored"} =>
          refresh'.got \in live' /\ refresh'.got \notin expired' /\ refresh'.got # store'.access
    BY <1>1, <2>1, FinishDoes DEF SessionGoesOn
  <2>6. entry'.at = "stores" => entry'.pair \in live' /\ entry'.pair \notin {store'.refresh, refresh'.got}
    BY <1>1, <1>4, <2>1, FinishDoes DEF SessionGoesOn
  <2>7. call'[Profile].at = "refused" => refresh'.at = "void"
    BY <1>1, <1>6, <2>1, FinishDoes DEF SessionGoesOn
  <2>8. RetryIsGood'
    BY <1>1, <1>4, <1>6, <2>1, FinishDoes, RetryKept, RetryOver DEF SessionGoesOn
  <2>. QED
    BY <2>2, <2>3, <2>4, <2>5, <2>6, <2>7, <2>8 DEF SessionGoesOn
<1>. QED
  BY <1>7, <1>8, <1>9, <1>10, <1>11, <1>12 DEF Undisturbed, OneSession

LEMMA FailUndisturbed ==
  ASSUME PhoneInv, FailRefresh, ~crossed'
  PROVE  Undisturbed'
<1>1. PhoneKnown /\ ~crossed
  <2>1. PhoneKnown
    BY DEF PhoneInv
  <2>2. ~crossed
    BY <2>1, FailDoes
  <2>. QED
    BY <2>1, <2>2
<1>2. Undisturbed
  BY <1>1 DEF PhoneInv
<1>3. PICK s \in Users \cup {Null} : SessionOf(s)
  BY <1>2 DEF Undisturbed, OneSession
<1>4. /\ Null \notin issued
      /\ store.access \in issued \cup {Null} /\ store.refresh \in issued \cup {Null}
      /\ refresh.token \in issued \cup {Null} /\ refresh.got \in issued \cup {Null}
      /\ entry.pair \in issued \cup {Null}
      /\ live \subseteq issued /\ expired \subseteq issued /\ faults \in 0..MaxFaults
  BY <1>1, PairsAreMinted
<1>5. UNCHANGED owner /\ issued' = issued
  BY <1>1, FailDoes, MintedKept DEF PhoneKnown, PhoneTyped
<1>6. /\ call' \in [Callers -> Call]
      /\ \A d \in Callers :
           /\ call'[d].at = "idle" <=> call[d].at = "idle"
           /\ call'[d].at = "ok" => call[d].at = "ok"
           /\ call'[d].token \in {call[d].token, Null}
      /\ UNCHANGED <<device, entry, exit, faults, left, unheard>>
      /\ refresh.at = "failed" /\ refresh'.at = "none" /\ launch'.at \in {"idle", "lets go"}
      /\ store'.access = Null /\ store'.refresh = Null /\ store'.user = store.user
      /\ status' = "signed-out"
  <2>1. refresh.at = "failed" /\ launch' \in Launches /\ launch'.at \in {"idle", "lets go", "shows"}
    BY <1>1, FailDoes
  <2>2. launch'.at # "shows"
    BY <1>1, <1>2, <2>1, FailDoes DEF Undisturbed, TasksTakeTurns, Refreshing
  <2>3. Resolves(Null)
    BY <1>1, FailDoes
  <2>. QED
    BY <1>1, <2>1, <2>2, <2>3, FailDoes, ResolvedCalls, ResolvedOrKept
<1>7. TasksTakeTurns'
  BY <1>6, <1>2 DEF Undisturbed, TasksTakeTurns, Idle
<1>8. SessionOf(s)'
  <2>1. \A n \in issued' : n \in {store'.access, store'.refresh} => owner'[n] = s
    BY <1>1, <1>4, <1>5, <1>6, <1>3 DEF SessionOf
  <2>2. entry'.at = "caches" \/ store'.user \in {s, Null}
    BY <1>6, <1>3 DEF SessionOf
  <2>3. status' = "signed-in" \/ launch'.at = "shows" => shown' = s
    BY <1>6, <1>3 DEF SessionOf
  <2>4. refresh'.at \in {"posted", "granted"} => owner'[refresh'.token] = s
    BY <1>6, <1>3 DEF SessionOf
  <2>5. refresh'.at \in {"granted", "stored"} => owner'[refresh'.got] = s
    BY <1>6, <1>3 DEF SessionOf
  <2>6. \A n \in issued' : (n = call'[Profile].token /\ call'[Profile].at # "idle")
          \/ (n = call'[Exit].token /\ call'[Exit].at # "idle") => owner'[n] = s
    BY <1>4, <1>5, <1>6, <1>3 DEF SessionOf
  <2>7. \A n \in issued' : launch'.at = "asks" /\ n = call'[Boot].token => owner'[n] = s
    BY <1>6, <1>3 DEF SessionOf
  <2>8. launch'.at \in {"asks", "shows"} => launch'.user = s
    BY <1>6, <1>3 DEF SessionOf
  <2>9. exit'.at # "idle" => exit'.user = s
    BY <1>6, <1>3 DEF SessionOf
  <2>10. entry'.at \in {"caches", "checks"} => entry'.user = s /\ owner'[entry'.pair] = s
    BY <1>5, <1>6, <1>3 DEF SessionOf
  <2>. QED
    BY <2>1, <2>2, <2>3, <2>4, <2>5, <2>6, <2>7, <2>8, <2>9, <2>10 DEF SessionOf
<1>9. EntryIsGranted'
  BY <1>5, <1>6, <1>2 DEF Undisturbed, EntryIsGranted
<1>10. SessionIsOver'
  BY <1>6, <1>2 DEF Undisturbed, SessionIsOver, Refreshing
<1>11. HeardOut'
  <2>1. /\ HeardOut /\ UNCHANGED <<unheard, left, exit>>
        /\ Idle(Push) => Idle(Push)' /\ (device' = device \/ ~device'.active)
        /\ call'[Exit].at = "ok" => call[Exit].at = "ok"
    BY <1>6, <1>2 DEF Undisturbed, Idle
  <2>. QED
    BY <2>1, HeardOutKept
<1>12. SessionLives'
  BY <1>6, <1>2 DEF Undisturbed, SessionLives, SessionGoesOn
<1>. QED
  BY <1>7, <1>8, <1>9, <1>10, <1>11, <1>12 DEF Undisturbed, OneSession

LEMMA ServeUndisturbed ==
  ASSUME PhoneInv, NEW c \in Callers, Serve(c), ~crossed'
  PROVE  Undisturbed'
<1>1. PhoneKnown /\ ~crossed
  <2>1. PhoneKnown
    BY DEF PhoneInv
  <2>2. ~crossed
    BY <2>1, ServeDoes
  <2>. QED
    BY <2>1, <2>2
<1>2. Undisturbed
  BY <1>1 DEF PhoneInv
<1>3. PICK s \in Users \cup {Null} : SessionOf(s)
  BY <1>2 DEF Undisturbed, OneSession
<1>4. /\ Null \notin issued
      /\ store.access \in issued \cup {Null} /\ store.refresh \in issued \cup {Null}
      /\ refresh.token \in issued \cup {Null} /\ refresh.got \in issued \cup {Null}
      /\ entry.pair \in issued \cup {Null}
      /\ live \subseteq issued /\ expired \subseteq issued /\ faults \in 0..MaxFaults
  BY <1>1, PairsAreMinted
<1>5. UNCHANGED owner /\ issued' = issued
  BY <1>1, ServeDoes, MintedKept DEF PhoneKnown, PhoneTyped
<1>6. /\ live' \subseteq live /\ device' \in Devices /\ call[c].purpose # "login"
      /\ exit.at = "idle" => live' = live
      /\ c # Push => device' = device \/ ~device'.active
      /\ c = Exit /\ exit.at = "silences" => ~(device'.active /\ device'.user = owner[call[c].token])
  <2>1. /\ call[c].at = "sent" /\ call[c].purpose # "login" /\ live \subseteq live /\ device \in Devices
        /\ call[c] \in Call
        /\ ~Idle(c)
    BY <1>1, ServeDoes DEF PhoneKnown, PhoneTyped, PartsTyped, Idle
  <2>2. PhoneTyped /\ CallsMatchTasks
    BY <1>1 DEF PhoneKnown
  <2>. QED
    BY <1>1, <2>1, <2>2, ServeDoes, EffectDoes, WhoCalls
<1>7. TasksTakeTurns'
  BY <1>1, <1>2, ServeDoes DEF Undisturbed, TasksTakeTurns, Idle, Refreshing
<1>8. SessionOf(s)'
  <2>1. \A n \in issued' : n \in {store'.access, store'.refresh} => owner'[n] = s
    BY <1>1, <1>5, <1>3, ServeDoes DEF SessionOf
  <2>2. entry'.at = "caches" \/ store'.user \in {s, Null}
    BY <1>1, <1>3, ServeDoes DEF SessionOf
  <2>3. status' = "signed-in" \/ launch'.at = "shows" => shown' = s
    BY <1>1, <1>3, ServeDoes DEF SessionOf
  <2>4. refresh'.at \in {"posted", "granted"} => owner'[refresh'.token] = s
    BY <1>1, <1>3, ServeDoes DEF SessionOf
  <2>5. refresh'.at \in {"granted", "stored"} => owner'[refresh'.got] = s
    BY <1>1, <1>3, ServeDoes DEF SessionOf
  <2>6. \A n \in issued' : (n = call'[Profile].token /\ call'[Profile].at # "idle")
          \/ (n = call'[Exit].token /\ call'[Exit].at # "idle") => owner'[n] = s
    BY <1>1, <1>5, <1>3, ServeDoes DEF SessionOf
  <2>7. \A n \in issued' : launch'.at = "asks" /\ n = call'[Boot].token => owner'[n] = s
    BY <1>1, <1>5, <1>3, ServeDoes DEF SessionOf
  <2>8. launch'.at \in {"asks", "shows"} => launch'.user = s
    BY <1>1, <1>3, ServeDoes DEF SessionOf
  <2>9. exit'.at # "idle" => exit'.user = s
    BY <1>1, <1>3, ServeDoes DEF SessionOf
  <2>10. entry'.at \in {"caches", "checks"} => entry'.user = s /\ owner'[entry'.pair] = s
    BY <1>1, <1>3, ServeDoes DEF SessionOf
  <2>. QED
    BY <2>1, <2>2, <2>3, <2>4, <2>5, <2>6, <2>7, <2>8, <2>9, <2>10 DEF SessionOf
<1>9. EntryIsGranted'
  BY <1>1, <1>2, ServeDoes DEF Undisturbed, EntryIsGranted
<1>10. SessionIsOver'
  BY <1>1, <1>2, ServeDoes DEF Undisturbed, SessionIsOver, Idle, Refreshing
<1>11. HeardOut'
  <2>1. HeardOut /\ UNCHANGED <<unheard, left, exit>>
    BY <1>1, <1>2, ServeDoes DEF Undisturbed
  <2>2. Idle(Push) => Idle(Push)' /\ (device' = device \/ ~device'.active)
    BY <1>1, <1>6, ServeDoes DEF Idle
  <2>3. exit.at = "silences" /\ call'[Exit].at = "ok" =>
          call[Exit].at = "ok" \/ Silent(exit.user)'
    <3>1. CASE c = Exit
      <4>1. CASE exit.at # "silences"
        BY <4>1
      <4>2. CASE exit.at = "silences"
        <5>1. owner[call[c].token] = exit.user
          BY <1>1, <1>3, <3>1, <4>2, ServeDoes DEF SessionOf
        <5>2. ~(device'.active /\ device'.user = exit.user)
          BY <1>6, <3>1, <4>2, <5>1
        <5>. QED
          BY <1>1, <5>2, ServeDoes DEF Silent
      <4>. QED
        BY <4>1, <4>2
    <3>2. CASE c # Exit
      BY <1>1, <3>2, ServeDoes
    <3>. QED
      BY <3>1, <3>2
  <2>. QED
    BY <2>1, <2>2, <2>3, HeardOutKept
<1>12. SessionLives'
  <2>. SUFFICES ASSUME faults' = MaxFaults, exit'.at = "idle"
       PROVE  SessionGoesOn'
    BY DEF SessionLives
  <2>1. SessionGoesOn /\ exit.at = "idle"
    BY <1>1, <1>2, ServeDoes DEF Undisturbed, SessionLives
  <2>2. refresh'.at # "failed"
    BY <1>1, <2>1, ServeDoes DEF SessionGoesOn
  <2>3. refresh'.at = "posted" => refresh'.token = store'.refresh
    BY <1>1, <2>1, ServeDoes DEF SessionGoesOn
  <2>4. refresh'.at # "granted" /\ store'.refresh # Null => store'.refresh \in live'
    BY <1>1, <1>6, <2>1, ServeDoes DEF SessionGoesOn
  <2>5. refresh'.at \in {"granted", "stored"} =>
          refresh'.got \in live' /\ refresh'.got \notin expired' /\ refresh'.got # store'.access
    BY <1>1, <1>6, <2>1, ServeDoes DEF SessionGoesOn
  <2>6. entry'.at = "stores" => entry'.pair \in live' /\ entry'.pair \notin {store'.refresh, refresh'.got}
    BY <1>1, <1>6, <2>1, ServeDoes DEF SessionGoesOn
  <2>7. call'[Profile].at = "refused" => refresh'.at = "void"
    BY <1>1, <2>1, ServeDoes DEF SessionGoesOn
  <2>8. RetryIsGood'
    BY <1>1, <2>1, ServeDoes, RetryKept, RetryOver DEF SessionGoesOn
  <2>. QED
    BY <2>2, <2>3, <2>4, <2>5, <2>6, <2>7, <2>8 DEF SessionGoesOn
<1>. QED
  BY <1>7, <1>8, <1>9, <1>10, <1>11, <1>12 DEF Undisturbed, OneSession

LEMMA LoseUndisturbed ==
  ASSUME PhoneInv, NEW c \in Callers, Lose(c), ~crossed'
  PROVE  Undisturbed'
<1>1. PhoneKnown /\ ~crossed
  <2>1. PhoneKnown
    BY DEF PhoneInv
  <2>2. ~crossed
    BY <2>1, LoseDoes
  <2>. QED
    BY <2>1, <2>2
<1>2. Undisturbed
  BY <1>1 DEF PhoneInv
<1>3. PICK s \in Users \cup {Null} : SessionOf(s)
  BY <1>2 DEF Undisturbed, OneSession
<1>4. /\ Null \notin issued
      /\ store.access \in issued \cup {Null} /\ store.refresh \in issued \cup {Null}
      /\ refresh.token \in issued \cup {Null} /\ refresh.got \in issued \cup {Null}
      /\ entry.pair \in issued \cup {Null}
      /\ live \subseteq issued /\ expired \subseteq issued /\ faults \in 0..MaxFaults
  BY <1>1, PairsAreMinted
<1>5. UNCHANGED owner /\ issued' = issued
  BY <1>1, LoseDoes, MintedKept DEF PhoneKnown, PhoneTyped
<1>6. /\ live' \subseteq live /\ device' \in Devices /\ call[c].purpose # "login"
      /\ exit.at = "idle" => live' = live
      /\ c # Push => device' = device \/ ~device'.active
  <2>1. /\ call[c].at = "sent" /\ call[c].purpose # "login" /\ live \subseteq live /\ device \in Devices
        /\ call[c] \in Call
        /\ ~Idle(c)
    BY <1>1, LoseDoes DEF PhoneKnown, PhoneTyped, PartsTyped, Idle
  <2>2. PhoneTyped /\ CallsMatchTasks
    BY <1>1 DEF PhoneKnown
  <2>. QED
    BY <1>1, <2>1, <2>2, LoseDoes, EffectDoes, WhoCalls
<1>7. TasksTakeTurns'
  BY <1>1, <1>2, LoseDoes DEF Undisturbed, TasksTakeTurns, Idle, Refreshing
<1>8. SessionOf(s)'
  <2>1. \A n \in issued' : n \in {store'.access, store'.refresh} => owner'[n] = s
    BY <1>1, <1>5, <1>3, LoseDoes DEF SessionOf
  <2>2. entry'.at = "caches" \/ store'.user \in {s, Null}
    BY <1>1, <1>3, LoseDoes DEF SessionOf
  <2>3. status' = "signed-in" \/ launch'.at = "shows" => shown' = s
    BY <1>1, <1>3, LoseDoes DEF SessionOf
  <2>4. refresh'.at \in {"posted", "granted"} => owner'[refresh'.token] = s
    BY <1>1, <1>3, LoseDoes DEF SessionOf
  <2>5. refresh'.at \in {"granted", "stored"} => owner'[refresh'.got] = s
    BY <1>1, <1>3, LoseDoes DEF SessionOf
  <2>6. \A n \in issued' : (n = call'[Profile].token /\ call'[Profile].at # "idle")
          \/ (n = call'[Exit].token /\ call'[Exit].at # "idle") => owner'[n] = s
    BY <1>1, <1>4, <1>5, <1>3, LoseDoes DEF SessionOf
  <2>7. \A n \in issued' : launch'.at = "asks" /\ n = call'[Boot].token => owner'[n] = s
    BY <1>1, <1>4, <1>5, <1>3, LoseDoes DEF SessionOf
  <2>8. launch'.at \in {"asks", "shows"} => launch'.user = s
    BY <1>1, <1>3, LoseDoes DEF SessionOf
  <2>9. exit'.at # "idle" => exit'.user = s
    BY <1>1, <1>3, LoseDoes DEF SessionOf
  <2>10. entry'.at \in {"caches", "checks"} => entry'.user = s /\ owner'[entry'.pair] = s
    BY <1>1, <1>3, LoseDoes DEF SessionOf
  <2>. QED
    BY <2>1, <2>2, <2>3, <2>4, <2>5, <2>6, <2>7, <2>8, <2>9, <2>10 DEF SessionOf
<1>9. EntryIsGranted'
  BY <1>1, <1>2, LoseDoes DEF Undisturbed, EntryIsGranted
<1>10. SessionIsOver'
  BY <1>1, <1>2, LoseDoes DEF Undisturbed, SessionIsOver, Idle, Refreshing
<1>11. HeardOut'
  <2>1. HeardOut /\ UNCHANGED <<unheard, left, exit>>
    BY <1>1, <1>2, LoseDoes DEF Undisturbed
  <2>2. Idle(Push) => Idle(Push)' /\ (device' = device \/ ~device'.active)
    BY <1>1, <1>6, LoseDoes DEF Idle
  <2>3. exit.at = "silences" /\ call'[Exit].at = "ok" =>
          call[Exit].at = "ok" \/ Silent(exit.user)'
    BY <1>1, LoseDoes
  <2>. QED
    BY <2>1, <2>2, <2>3, HeardOutKept
<1>12. SessionLives'
  BY <1>1, <1>4, LoseDoes, FaultsCount
<1>. QED
  BY <1>7, <1>8, <1>9, <1>10, <1>11, <1>12 DEF Undisturbed, OneSession

LEMMA RefuseUndisturbed ==
  ASSUME PhoneInv, NEW c \in Callers, Refuse(c), ~crossed'
  PROVE  Undisturbed'
<1>1. PhoneKnown /\ ~crossed
  <2>1. PhoneKnown
    BY DEF PhoneInv
  <2>2. ~crossed
    BY <2>1, RefuseDoes
  <2>. QED
    BY <2>1, <2>2
<1>2. Undisturbed
  BY <1>1 DEF PhoneInv
<1>3. PICK s \in Users \cup {Null} : SessionOf(s)
  BY <1>2 DEF Undisturbed, OneSession
<1>4. /\ Null \notin issued
      /\ store.access \in issued \cup {Null} /\ store.refresh \in issued \cup {Null}
      /\ refresh.token \in issued \cup {Null} /\ refresh.got \in issued \cup {Null}
      /\ entry.pair \in issued \cup {Null}
      /\ live \subseteq issued /\ expired \subseteq issued /\ faults \in 0..MaxFaults
  BY <1>1, PairsAreMinted
<1>5. UNCHANGED owner /\ issued' = issued
  BY <1>1, RefuseDoes, MintedKept DEF PhoneKnown, PhoneTyped
<1>6. /\ RefreshFollows
      /\ \A d \in Callers : d # c => call'[d] = call[d]
      /\ call[c].at = "sent" /\ call'[c].token = Null
      /\ UNCHANGED <<live, expired, store, status, launch, entry, exit, left>>
      /\ \/ call'[c].at = "waits again"
         \/ call'[c].at = "refused" /\ (refresh'.at = "void" \/ UNCHANGED refresh)
  BY <1>1, RefuseDoes, RefusesTyped, JoinedFollows DEF PhoneKnown, Refuses
<1>7. TasksTakeTurns'
  BY <1>1, <1>6, <1>2 DEF Undisturbed, PhoneKnown, CallsMatchTasks, BootIsAlone, TasksTakeTurns, RefreshFollows, Idle
<1>8. SessionOf(s)'
  <2>1. \A n \in issued' : n \in {store'.access, store'.refresh} => owner'[n] = s
    BY <1>1, <1>5, <1>3, RefuseDoes DEF SessionOf
  <2>2. entry'.at = "caches" \/ store'.user \in {s, Null}
    BY <1>1, <1>3, RefuseDoes DEF SessionOf
  <2>3. status' = "signed-in" \/ launch'.at = "shows" => shown' = s
    BY <1>1, <1>3, RefuseDoes DEF SessionOf
  <2>4. refresh'.at \in {"posted", "granted"} => owner'[refresh'.token] = s
    BY <1>1, <1>4, <1>5, <1>6, <1>3, RefuseDoes DEF SessionOf, RefreshFollows
  <2>5. refresh'.at \in {"granted", "stored"} => owner'[refresh'.got] = s
    BY <1>1, <1>6, <1>3, RefuseDoes DEF SessionOf, RefreshFollows
  <2>6. \A n \in issued' : (n = call'[Profile].token /\ call'[Profile].at # "idle")
          \/ (n = call'[Exit].token /\ call'[Exit].at # "idle") => owner'[n] = s
    BY <1>1, <1>4, <1>5, <1>6, <1>3, <1>2, RefuseDoes DEF Undisturbed, SessionOf, RefreshFollows, Idle, Refreshing
  <2>7. \A n \in issued' : launch'.at = "asks" /\ n = call'[Boot].token => owner'[n] = s
    BY <1>1, <1>4, <1>5, <1>6, <1>3, RefuseDoes DEF SessionOf
  <2>8. launch'.at \in {"asks", "shows"} => launch'.user = s
    BY <1>1, <1>3, RefuseDoes DEF SessionOf
  <2>9. exit'.at # "idle" => exit'.user = s
    BY <1>1, <1>3, RefuseDoes DEF SessionOf
  <2>10. entry'.at \in {"caches", "checks"} => entry'.user = s /\ owner'[entry'.pair] = s
    BY <1>1, <1>3, RefuseDoes DEF SessionOf
  <2>. QED
    BY <2>1, <2>2, <2>3, <2>4, <2>5, <2>6, <2>7, <2>8, <2>9, <2>10 DEF SessionOf
<1>9. EntryIsGranted'
  BY <1>1, <1>2, RefuseDoes DEF Undisturbed, EntryIsGranted
<1>10. SessionIsOver'
  BY <1>1, <1>6, <1>2, RefuseDoes DEF Undisturbed, SessionIsOver, RefreshFollows, Idle, Refreshing
<1>11. HeardOut'
  <2>1. /\ HeardOut /\ UNCHANGED <<unheard, left, exit>>
        /\ Idle(Push) => Idle(Push)' /\ (device' = device \/ ~device'.active)
        /\ call'[Exit].at = "ok" => call[Exit].at = "ok"
    BY <1>1, <1>6, <1>2, RefuseDoes DEF Undisturbed, Idle
  <2>. QED
    BY <2>1, HeardOutKept
<1>12. SessionLives'
  <2>. SUFFICES ASSUME faults' = MaxFaults, exit'.at = "idle"
       PROVE  SessionGoesOn'
    BY DEF SessionLives
  <2>1. SessionGoesOn /\ exit.at = "idle"
    BY <1>1, <1>2, RefuseDoes DEF Undisturbed, SessionLives
  <2>2. refresh'.at # "failed"
    BY <1>1, <1>6, <2>1, RefuseDoes DEF SessionGoesOn, RefreshFollows
  <2>3. refresh'.at = "posted" => refresh'.token = store'.refresh
    BY <1>1, <1>6, <2>1, RefuseDoes DEF SessionGoesOn, RefreshFollows
  <2>4. refresh'.at # "granted" /\ store'.refresh # Null => store'.refresh \in live'
    BY <1>6, <2>1 DEF SessionGoesOn, RefreshFollows
  <2>5. refresh'.at \in {"granted", "stored"} =>
          refresh'.got \in live' /\ refresh'.got \notin expired' /\ refresh'.got # store'.access
    BY <1>6, <2>1 DEF SessionGoesOn, RefreshFollows
  <2>6. entry'.at = "stores" => entry'.pair \in live' /\ entry'.pair \notin {store'.refresh, refresh'.got}
    BY <1>4, <1>6, <2>1 DEF SessionGoesOn, RefreshFollows
  <2>7. call'[Profile].at = "refused" => refresh'.at = "void"
    <3>1. CASE c = Profile
      <4>1. ~Authorised(call[c]) /\ call[c].at = "sent" /\ RetryIsGood
        BY <1>1, <2>1, RefuseDoes DEF SessionGoesOn
      <4>2. ~call[c].retried
        BY <3>1, <4>1 DEF RetryIsGood
      <4>. QED
        BY <1>1, <3>1, <4>2, RefuseDoes, RefusesTyped DEF PhoneKnown
    <3>2. CASE c # Profile
      BY <1>6, <2>1, <3>2 DEF SessionGoesOn, RefreshFollows
    <3>. QED
      BY <3>1, <3>2
  <2>8. RetryIsGood'
    BY <1>1, <1>6, <2>1, RefuseDoes, RetryKept, RetryOver DEF SessionGoesOn
  <2>. QED
    BY <2>2, <2>3, <2>4, <2>5, <2>6, <2>7, <2>8 DEF SessionGoesOn
<1>. QED
  BY <1>7, <1>8, <1>9, <1>10, <1>11, <1>12 DEF Undisturbed, OneSession

LEMMA OutsideUndisturbed ==
  ASSUME PhoneInv, Expire \/ \E n \in issued : EndElsewhere(n), ~crossed'
  PROVE  Undisturbed'
<1>1. PhoneKnown /\ ~crossed
  <2>1. PhoneKnown
    BY DEF PhoneInv
  <2>2. ~crossed
    BY <2>1, OutsideDoes
  <2>. QED
    BY <2>1, <2>2
<1>2. Undisturbed
  BY <1>1 DEF PhoneInv
<1>3. PICK s \in Users \cup {Null} : SessionOf(s)
  BY <1>2 DEF Undisturbed, OneSession
<1>4. /\ Null \notin issued
      /\ store.access \in issued \cup {Null} /\ store.refresh \in issued \cup {Null}
      /\ refresh.token \in issued \cup {Null} /\ refresh.got \in issued \cup {Null}
      /\ entry.pair \in issued \cup {Null}
      /\ live \subseteq issued /\ expired \subseteq issued /\ faults \in 0..MaxFaults
  BY <1>1, PairsAreMinted
<1>5. UNCHANGED owner /\ issued' = issued
  BY <1>1, OutsideDoes, MintedKept DEF PhoneKnown, PhoneTyped
<1>6. TasksTakeTurns'
  BY <1>1, <1>2, OutsideDoes DEF Undisturbed, TasksTakeTurns, Idle, Refreshing
<1>7. SessionOf(s)'
  BY <1>1, <1>5, <1>3, OutsideDoes DEF SessionOf
<1>8. EntryIsGranted'
  BY <1>1, <1>2, OutsideDoes DEF Undisturbed, EntryIsGranted
<1>9. SessionIsOver'
  BY <1>1, <1>2, OutsideDoes DEF Undisturbed, SessionIsOver, Idle, Refreshing
<1>10. HeardOut'
  <2>1. /\ HeardOut /\ UNCHANGED <<unheard, left, exit>>
        /\ Idle(Push) => Idle(Push)' /\ (device' = device \/ ~device'.active)
        /\ call'[Exit].at = "ok" => call[Exit].at = "ok"
    BY <1>1, <1>2, OutsideDoes DEF Undisturbed, Idle
  <2>. QED
    BY <2>1, HeardOutKept
<1>11. SessionLives'
  <2>1. CASE faults > 0 /\ faults' = faults - 1
    BY <1>4, <2>1, FaultsCount
  <2>2. CASE /\ UNCHANGED <<live, faults>>
             /\ expired' = expired \cup {store.access} /\ store.access \in issued
             /\ \A c \in Callers : ~call[c].retried
    <3>1. UNCHANGED <<store, refresh, call, entry, exit>>
      BY <1>1, OutsideDoes
    <3>2. RetryIsGood'
      BY <2>2, <3>1 DEF RetryIsGood
    <3>. QED
      BY <1>2, <2>2, <3>1, <3>2 DEF Undisturbed, SessionLives, SessionGoesOn
  <2>. QED
    BY <1>1, <2>1, <2>2, OutsideDoes
<1>. QED
  BY <1>6, <1>7, <1>8, <1>9, <1>10, <1>11 DEF Undisturbed, OneSession

LEMMA DecideUndisturbed ==
  ASSUME PhoneInv, Decide, ~crossed'
  PROVE  Undisturbed'
<1>1. PhoneKnown /\ ~crossed
  <2>1. PhoneKnown
    BY DEF PhoneInv
  <2>2. ~crossed
    BY <2>1, DecideDoes
  <2>. QED
    BY <2>1, <2>2
<1>2. Undisturbed
  BY <1>1 DEF PhoneInv
<1>3. PICK s \in Users \cup {Null} : SessionOf(s)
  BY <1>2 DEF Undisturbed, OneSession
<1>4. /\ Null \notin issued
      /\ store.access \in issued \cup {Null} /\ store.refresh \in issued \cup {Null}
      /\ refresh.token \in issued \cup {Null} /\ refresh.got \in issued \cup {Null}
      /\ entry.pair \in issued \cup {Null}
      /\ live \subseteq issued /\ expired \subseteq issued /\ faults \in 0..MaxFaults
  BY <1>1, PairsAreMinted
<1>5. UNCHANGED owner /\ issued' = issued
  BY <1>1, DecideDoes, MintedKept DEF PhoneKnown, PhoneTyped
<1>6. /\ UNCHANGED <<live, expired, device, refresh, entry, exit, faults, left, unheard>>
      /\ call'[Boot].at = "idle"
      /\ \A d \in Callers : d # Boot => call'[d] = call[d]
      /\ \/ launch.at = "lets go" /\ launch'.at = "idle" /\ UNCHANGED <<store, status, shown>>
         \/ /\ launch.at = "asks" /\ refresh.at \in {"none", "void"}
            /\ status = "loading" /\ entry.at = "idle" /\ exit.at = "idle"
            /\ \/ launch'.at = "shows" /\ launch'.user = s /\ shown' = s /\ UNCHANGED <<store, status>>
               \/ /\ launch'.at = "idle" /\ status' = "signed-out"
                  /\ store'.access = Null /\ store'.refresh = Null /\ store'.user = Null
               \/ launch'.at = "idle" /\ shown' = s /\ status' = "signed-in" /\ UNCHANGED store
  <2>1. launch.at = "asks" =>
          /\ refresh.at \in {"none", "void"}
          /\ status = "loading" /\ entry.at = "idle" /\ exit.at = "idle"
    <3>1. refresh.at \in {"none", "posted", "failed", "granted", "stored", "void"}
      BY <1>1 DEF PhoneKnown, PhoneTyped, PartsTyped, Refreshes
    <3>. QED
      BY <1>1, <3>1, DecideDoes DEF PhoneKnown, BootIsAlone, Refreshing, Returned, Answered, Waiting
  <2>2. launch.at = "asks" => launch.user = s
    BY <1>3 DEF SessionOf
  <2>3. launch.at = "asks" /\ call[Boot].token \in issued => owner[call[Boot].token] = s
    BY <1>3 DEF SessionOf
  <2>. QED
    BY <1>1, <2>1, <2>2, <2>3, DecideDoes, AwayIsTyped
<1>7. TasksTakeTurns'
  BY <1>6, <1>2 DEF Undisturbed, TasksTakeTurns, Idle, Refreshing
<1>8. SessionOf(s)'
  <2>1. \A n \in issued' : n \in {store'.access, store'.refresh} => owner'[n] = s
    BY <1>1, <1>4, <1>5, <1>6, <1>3 DEF SessionOf
  <2>2. entry'.at = "caches" \/ store'.user \in {s, Null}
    BY <1>6, <1>3 DEF SessionOf
  <2>3. status' = "signed-in" \/ launch'.at = "shows" => shown' = s
    BY <1>6, <1>3 DEF SessionOf
  <2>4. refresh'.at \in {"posted", "granted"} => owner'[refresh'.token] = s
    BY <1>5, <1>6, <1>3 DEF SessionOf
  <2>5. refresh'.at \in {"granted", "stored"} => owner'[refresh'.got] = s
    BY <1>5, <1>6, <1>3 DEF SessionOf
  <2>6. \A n \in issued' : (n = call'[Profile].token /\ call'[Profile].at # "idle")
          \/ (n = call'[Exit].token /\ call'[Exit].at # "idle") => owner'[n] = s
    BY <1>5, <1>6, <1>3 DEF SessionOf
  <2>7. \A n \in issued' : launch'.at = "asks" /\ n = call'[Boot].token => owner'[n] = s
    BY <1>6, <1>3 DEF SessionOf
  <2>8. launch'.at \in {"asks", "shows"} => launch'.user = s
    BY <1>6, <1>3 DEF SessionOf
  <2>9. exit'.at # "idle" => exit'.user = s
    BY <1>6, <1>3 DEF SessionOf
  <2>10. entry'.at \in {"caches", "checks"} => entry'.user = s /\ owner'[entry'.pair] = s
    BY <1>5, <1>6, <1>3 DEF SessionOf
  <2>. QED
    BY <2>1, <2>2, <2>3, <2>4, <2>5, <2>6, <2>7, <2>8, <2>9, <2>10 DEF SessionOf
<1>9. EntryIsGranted'
  BY <1>5, <1>6, <1>2 DEF Undisturbed, EntryIsGranted
<1>10. SessionIsOver'
  BY <1>6, <1>2 DEF Undisturbed, SessionIsOver, Idle, Refreshing
<1>11. HeardOut'
  <2>1. /\ HeardOut /\ UNCHANGED <<unheard, left, exit>>
        /\ Idle(Push) => Idle(Push)' /\ (device' = device \/ ~device'.active)
        /\ call'[Exit].at = "ok" => call[Exit].at = "ok"
    BY <1>6, <1>2 DEF Undisturbed, Idle
  <2>. QED
    BY <2>1, HeardOutKept
<1>12. SessionLives'
  <2>. SUFFICES ASSUME faults' = MaxFaults, exit'.at = "idle"
       PROVE  SessionGoesOn'
    BY DEF SessionLives
  <2>1. SessionGoesOn /\ exit.at = "idle"
    BY <1>6, <1>2 DEF Undisturbed, SessionLives
  <2>2. refresh'.at # "failed"
    BY <1>6, <2>1 DEF SessionGoesOn
  <2>3. refresh'.at = "posted" => refresh'.token = store'.refresh
    BY <1>6, <2>1 DEF SessionGoesOn
  <2>4. refresh'.at # "granted" /\ store'.refresh # Null => store'.refresh \in live'
    BY <1>6, <2>1 DEF SessionGoesOn
  <2>5. refresh'.at \in {"granted", "stored"} =>
          refresh'.got \in live' /\ refresh'.got \notin expired' /\ refresh'.got # store'.access
    BY <1>6, <2>1 DEF SessionGoesOn
  <2>6. entry'.at = "stores" => entry'.pair \in live' /\ entry'.pair \notin {store'.refresh, refresh'.got}
    BY <1>6, <2>1 DEF SessionGoesOn
  <2>7. call'[Profile].at = "refused" => refresh'.at = "void"
    BY <1>6, <2>1 DEF SessionGoesOn
  <2>8. RetryIsGood'
    BY <1>6, <2>1, RetryKept DEF SessionGoesOn
  <2>. QED
    BY <2>2, <2>3, <2>4, <2>5, <2>6, <2>7, <2>8 DEF SessionGoesOn
<1>. QED
  BY <1>7, <1>8, <1>9, <1>10, <1>11, <1>12 DEF Undisturbed, OneSession

LEMMA OpenUndisturbed ==
  ASSUME PhoneInv, OpenApp, ~crossed'
  PROVE  Undisturbed'
<1>1. PhoneKnown /\ ~crossed
  <2>1. PhoneKnown
    BY DEF PhoneInv
  <2>2. ~crossed
    BY <2>1, OpenDoes
  <2>. QED
    BY <2>1, <2>2
<1>2. Undisturbed
  BY <1>1 DEF PhoneInv
<1>3. PICK s \in Users \cup {Null} : SessionOf(s)
  BY <1>2 DEF Undisturbed, OneSession
<1>4. /\ Null \notin issued
      /\ store.access \in issued \cup {Null} /\ store.refresh \in issued \cup {Null}
      /\ refresh.token \in issued \cup {Null} /\ refresh.got \in issued \cup {Null}
      /\ entry.pair \in issued \cup {Null}
      /\ live \subseteq issued /\ expired \subseteq issued /\ faults \in 0..MaxFaults
  BY <1>1, PairsAreMinted
<1>5. UNCHANGED owner /\ issued' = issued
  BY <1>1, OpenDoes, MintedKept DEF PhoneKnown, PhoneTyped
<1>6. TasksTakeTurns'
  BY <1>1, <1>2, OpenDoes DEF Undisturbed, TasksTakeTurns
<1>7. SessionOf(s)'
  BY <1>1, <1>5, <1>3, <1>2, OpenDoes DEF Undisturbed, SessionOf
<1>8. EntryIsGranted'
  BY <1>1, <1>2, OpenDoes DEF Undisturbed, EntryIsGranted
<1>9. SessionIsOver'
  BY <1>1, <1>2, OpenDoes DEF Undisturbed, SessionIsOver
<1>10. HeardOut'
  <2>1. /\ HeardOut /\ UNCHANGED <<unheard, left, exit>>
        /\ Idle(Push) => Idle(Push)' /\ (device' = device \/ ~device'.active)
        /\ call'[Exit].at = "ok" => call[Exit].at = "ok"
    BY <1>1, <1>2, OpenDoes DEF Undisturbed, Idle
  <2>. QED
    BY <2>1, HeardOutKept
<1>11. SessionLives'
  <2>. SUFFICES ASSUME faults' = MaxFaults, exit'.at = "idle"
       PROVE  SessionGoesOn'
    BY DEF SessionLives
  <2>1. SessionGoesOn /\ exit.at = "idle"
    BY <1>1, <1>2, OpenDoes DEF Undisturbed, SessionLives
  <2>2. RetryIsGood'
    BY <1>1, <2>1, OpenDoes, RetryKept DEF SessionGoesOn
  <2>. QED
    BY <1>1, <2>1, <2>2, OpenDoes DEF SessionGoesOn
<1>. QED
  BY <1>6, <1>7, <1>8, <1>9, <1>10, <1>11 DEF Undisturbed, OneSession

LEMMA SignInUndisturbed ==
  ASSUME PhoneInv, NEW u \in Users, SignIn(u), ~crossed'
  PROVE  Undisturbed'
<1>1. PhoneKnown /\ ~crossed
  <2>1. PhoneKnown
    BY DEF PhoneInv
  <2>2. ~crossed
    BY <2>1, SignInDoes
  <2>. QED
    BY <2>1, <2>2
<1>2. Undisturbed
  BY <1>1 DEF PhoneInv
<1>3. PICK s \in Users \cup {Null} : SessionOf(s)
  BY <1>2 DEF Undisturbed, OneSession
<1>4. /\ Null \notin issued
      /\ store.access \in issued \cup {Null} /\ store.refresh \in issued \cup {Null}
      /\ refresh.token \in issued \cup {Null} /\ refresh.got \in issued \cup {Null}
      /\ entry.pair \in issued \cup {Null}
      /\ live \subseteq issued /\ expired \subseteq issued /\ faults \in 0..MaxFaults
  BY <1>1, PairsAreMinted
<1>5. UNCHANGED owner /\ issued' = issued
  BY <1>1, SignInDoes, MintedKept DEF PhoneKnown, PhoneTyped
<1>6. /\ RefreshFollows
      /\ \A d \in Callers : d # Entry => call'[d] = call[d]
      /\ call'[Entry].at \in {"sent", "waits first"}
      /\ call'[Entry].token \in {Null, store.access}
      /\ UNCHANGED <<live, expired, device, store, status, shown, exit, faults, left, unheard>>
      /\ entry.at = "idle" /\ status # "signed-in" /\ entry'.at = "asks" /\ launch'.at \in {"idle", "lets go"}
  <2>1. Entry \in Callers /\ Sends(Entry, "login")
    BY <1>1, SignInDoes
  <2>2. RefreshFollows
    BY <2>1, JoinedFollows DEF Sends
  <2>3. /\ \A d \in Callers : d # Entry => call'[d] = call[d]
        /\ call'[Entry].at \in {"sent", "waits first"}
        /\ call'[Entry].token \in {Null, store.access}
    BY <1>1, <2>1, SendsTyped DEF PhoneKnown
  <2>. QED
    BY <1>1, <2>2, <2>3, SignInDoes
<1>7. TasksTakeTurns'
  BY <1>6, <1>2 DEF Undisturbed, TasksTakeTurns
<1>8. SessionOf(s)'
  <2>1. \A n \in issued' : n \in {store'.access, store'.refresh} => owner'[n] = s
    BY <1>5, <1>6, <1>3 DEF SessionOf
  <2>2. entry'.at = "caches" \/ store'.user \in {s, Null}
    BY <1>6, <1>3 DEF SessionOf
  <2>3. status' = "signed-in" \/ launch'.at = "shows" => shown' = s
    BY <1>6, <1>3 DEF SessionOf
  <2>4. refresh'.at \in {"posted", "granted"} => owner'[refresh'.token] = s
    BY <1>4, <1>5, <1>6, <1>3 DEF SessionOf, RefreshFollows
  <2>5. refresh'.at \in {"granted", "stored"} => owner'[refresh'.got] = s
    BY <1>5, <1>6, <1>3 DEF SessionOf, RefreshFollows
  <2>6. \A n \in issued' : (n = call'[Profile].token /\ call'[Profile].at # "idle")
          \/ (n = call'[Exit].token /\ call'[Exit].at # "idle") => owner'[n] = s
    BY <1>5, <1>6, <1>3 DEF SessionOf
  <2>7. \A n \in issued' : launch'.at = "asks" /\ n = call'[Boot].token => owner'[n] = s
    BY <1>6, <1>3 DEF SessionOf
  <2>8. launch'.at \in {"asks", "shows"} => launch'.user = s
    BY <1>6, <1>3 DEF SessionOf
  <2>9. exit'.at # "idle" => exit'.user = s
    BY <1>6, <1>3 DEF SessionOf
  <2>10. entry'.at \in {"caches", "checks"} => entry'.user = s /\ owner'[entry'.pair] = s
    BY <1>6, <1>3 DEF SessionOf
  <2>. QED
    BY <2>1, <2>2, <2>3, <2>4, <2>5, <2>6, <2>7, <2>8, <2>9, <2>10 DEF SessionOf
<1>9. EntryIsGranted'
  BY <1>6, <1>2 DEF Undisturbed, EntryIsGranted
<1>10. SessionIsOver'
  BY <1>6, <1>2 DEF Undisturbed, SessionIsOver, RefreshFollows, Idle, Refreshing
<1>11. HeardOut'
  <2>1. /\ HeardOut /\ UNCHANGED <<unheard, left, exit>>
        /\ Idle(Push) => Idle(Push)' /\ (device' = device \/ ~device'.active)
        /\ call'[Exit].at = "ok" => call[Exit].at = "ok"
    BY <1>6, <1>2 DEF Undisturbed, Idle
  <2>. QED
    BY <2>1, HeardOutKept
<1>12. SessionLives'
  <2>. SUFFICES ASSUME faults' = MaxFaults, exit'.at = "idle"
       PROVE  SessionGoesOn'
    BY DEF SessionLives
  <2>1. SessionGoesOn /\ exit.at = "idle"
    BY <1>6, <1>2 DEF Undisturbed, SessionLives
  <2>2. refresh'.at # "failed"
    BY <1>6, <2>1 DEF SessionGoesOn, RefreshFollows
  <2>3. refresh'.at = "posted" => refresh'.token = store'.refresh
    BY <1>6, <2>1 DEF SessionGoesOn, RefreshFollows
  <2>4. refresh'.at # "granted" /\ store'.refresh # Null => store'.refresh \in live'
    BY <1>6, <2>1 DEF SessionGoesOn, RefreshFollows
  <2>5. refresh'.at \in {"granted", "stored"} =>
          refresh'.got \in live' /\ refresh'.got \notin expired' /\ refresh'.got # store'.access
    BY <1>6, <2>1 DEF SessionGoesOn, RefreshFollows
  <2>6. entry'.at = "stores" => entry'.pair \in live' /\ entry'.pair \notin {store'.refresh, refresh'.got}
    BY <1>6, <2>1 DEF SessionGoesOn
  <2>7. call'[Profile].at = "refused" => refresh'.at = "void"
    BY <1>6, <2>1 DEF SessionGoesOn, RefreshFollows
  <2>8. RetryIsGood'
    BY <1>6, <2>1, RetryKept DEF SessionGoesOn
  <2>. QED
    BY <2>2, <2>3, <2>4, <2>5, <2>6, <2>7, <2>8 DEF SessionGoesOn
<1>. QED
  BY <1>7, <1>8, <1>9, <1>10, <1>11, <1>12 DEF Undisturbed, OneSession

LEMMA LoginUndisturbed ==
  ASSUME PhoneInv, Login, ~crossed'
  PROVE  Undisturbed'
<1>1. PhoneKnown /\ ~crossed
  <2>1. PhoneKnown
    BY DEF PhoneInv
  <2>2. ~crossed
    BY <2>1, LoginDoes
  <2>. QED
    BY <2>1, <2>2
<1>2. Undisturbed
  BY <1>1 DEF PhoneInv
<1>3. PICK s \in Users \cup {Null} : SessionOf(s)
  BY <1>2 DEF Undisturbed, OneSession
<1>4. /\ Null \notin issued
      /\ store.access \in issued \cup {Null} /\ store.refresh \in issued \cup {Null}
      /\ refresh.token \in issued \cup {Null} /\ refresh.got \in issued \cup {Null}
      /\ entry.pair \in issued \cup {Null}
      /\ live \subseteq issued /\ expired \subseteq issued /\ faults \in 0..MaxFaults
  BY <1>1, PairsAreMinted
<1>5. /\ issued' = issued \cup {Len(owner')}
      /\ Len(owner') \notin issued /\ Len(owner') # Null
      /\ owner'[Len(owner')] = entry.user
      /\ \A n \in issued : owner'[n] = owner[n]
      /\ live' = live \cup {Len(owner')}
      /\ entry.at = "asks" /\ entry'.at = "stores" /\ entry'.user = entry.user /\ entry'.pair = Len(owner')
      /\ call'[Entry].at = "idle"
      /\ \A d \in Callers : d # Entry => call'[d] = call[d]
      /\ UNCHANGED <<expired, device, store, status, shown, refresh, launch, exit, faults, left, unheard>>
      /\ refresh.at \in {"posted", "granted"} => refresh.token \in issued
      /\ refresh.at \in {"granted", "stored"} => refresh.got \in issued
      /\ \A d \in Callers : call[d].token \in issued \cup {Null}
  <2>1. /\ refresh.at \in {"posted", "granted"} => refresh.token \in issued
        /\ refresh.at \in {"granted", "stored"} => refresh.got \in issued
        /\ \A d \in Callers : call[d].token \in issued \cup {Null}
    BY <1>1, <1>4 DEF PhoneKnown, WorkIsKnown, CallsMatchTasks
  <2>. QED
    BY <1>1, <2>1, LoginDoes
<1>6. TasksTakeTurns'
  BY <1>5, <1>2 DEF Undisturbed, TasksTakeTurns
<1>7. SessionOf(s)'
  <2>1. \A n \in issued' : n \in {store'.access, store'.refresh} => owner'[n] = s
    BY <1>4, <1>5, <1>3 DEF SessionOf
  <2>2. entry'.at = "caches" \/ store'.user \in {s, Null}
    BY <1>5, <1>3 DEF SessionOf
  <2>3. status' = "signed-in" \/ launch'.at = "shows" => shown' = s
    BY <1>5, <1>3 DEF SessionOf
  <2>4. refresh'.at \in {"posted", "granted"} => owner'[refresh'.token] = s
    BY <1>5, <1>3 DEF SessionOf
  <2>5. refresh'.at \in {"granted", "stored"} => owner'[refresh'.got] = s
    BY <1>5, <1>3 DEF SessionOf
  <2>6. \A n \in issued' : (n = call'[Profile].token /\ call'[Profile].at # "idle")
          \/ (n = call'[Exit].token /\ call'[Exit].at # "idle") => owner'[n] = s
    BY <1>5, <1>3 DEF SessionOf
  <2>7. \A n \in issued' : launch'.at = "asks" /\ n = call'[Boot].token => owner'[n] = s
    BY <1>5, <1>3 DEF SessionOf
  <2>8. launch'.at \in {"asks", "shows"} => launch'.user = s
    BY <1>5, <1>3 DEF SessionOf
  <2>9. exit'.at # "idle" => exit'.user = s
    BY <1>5, <1>3 DEF SessionOf
  <2>10. entry'.at \in {"caches", "checks"} => entry'.user = s /\ owner'[entry'.pair] = s
    BY <1>5, <1>3 DEF SessionOf
  <2>. QED
    BY <2>1, <2>2, <2>3, <2>4, <2>5, <2>6, <2>7, <2>8, <2>9, <2>10 DEF SessionOf
<1>8. EntryIsGranted'
  BY <1>5, <1>2 DEF Undisturbed, EntryIsGranted
<1>9. SessionIsOver'
  BY <1>5, <1>2 DEF Undisturbed, SessionIsOver, Idle, Refreshing
<1>10. HeardOut'
  <2>1. /\ HeardOut /\ UNCHANGED <<unheard, left, exit>>
        /\ Idle(Push) => Idle(Push)' /\ (device' = device \/ ~device'.active)
        /\ call'[Exit].at = "ok" => call[Exit].at = "ok"
    BY <1>5, <1>2 DEF Undisturbed, Idle
  <2>. QED
    BY <2>1, HeardOutKept
<1>11. SessionLives'
  <2>. SUFFICES ASSUME faults' = MaxFaults, exit'.at = "idle"
       PROVE  SessionGoesOn'
    BY DEF SessionLives
  <2>1. SessionGoesOn /\ exit.at = "idle"
    BY <1>5, <1>2 DEF Undisturbed, SessionLives
  <2>2. refresh'.at # "failed"
    BY <1>5, <2>1 DEF SessionGoesOn
  <2>3. refresh'.at = "posted" => refresh'.token = store'.refresh
    BY <1>5, <2>1 DEF SessionGoesOn
  <2>4. refresh'.at # "granted" /\ store'.refresh # Null => store'.refresh \in live'
    BY <1>5, <2>1 DEF SessionGoesOn
  <2>5. refresh'.at \in {"granted", "stored"} =>
          refresh'.got \in live' /\ refresh'.got \notin expired' /\ refresh'.got # store'.access
    BY <1>5, <2>1 DEF SessionGoesOn
  <2>6. entry'.at = "stores" => entry'.pair \in live' /\ entry'.pair \notin {store'.refresh, refresh'.got}
    BY <1>4, <1>5, <2>1 DEF SessionGoesOn
  <2>7. call'[Profile].at = "refused" => refresh'.at = "void"
    BY <1>5, <2>1 DEF SessionGoesOn
  <2>8. RetryIsGood'
    BY <1>5, <2>1, RetryKept DEF SessionGoesOn
  <2>. QED
    BY <2>2, <2>3, <2>4, <2>5, <2>6, <2>7, <2>8 DEF SessionGoesOn
<1>. QED
  BY <1>6, <1>7, <1>8, <1>9, <1>10, <1>11 DEF Undisturbed, OneSession

LEMMA FailLoginUndisturbed ==
  ASSUME PhoneInv, FailLogin, ~crossed'
  PROVE  Undisturbed'
<1>1. PhoneKnown /\ ~crossed
  <2>1. PhoneKnown
    BY DEF PhoneInv
  <2>2. ~crossed
    BY <2>1, FailLoginDoes
  <2>. QED
    BY <2>1, <2>2
<1>2. Undisturbed
  BY <1>1 DEF PhoneInv
<1>3. PICK s \in Users \cup {Null} : SessionOf(s)
  BY <1>2 DEF Undisturbed, OneSession
<1>4. /\ Null \notin issued
      /\ store.access \in issued \cup {Null} /\ store.refresh \in issued \cup {Null}
      /\ refresh.token \in issued \cup {Null} /\ refresh.got \in issued \cup {Null}
      /\ entry.pair \in issued \cup {Null}
      /\ live \subseteq issued /\ expired \subseteq issued /\ faults \in 0..MaxFaults
  BY <1>1, PairsAreMinted
<1>5. UNCHANGED owner /\ issued' = issued
  BY <1>1, FailLoginDoes, MintedKept DEF PhoneKnown, PhoneTyped
<1>6. TasksTakeTurns'
  BY <1>1, <1>2, FailLoginDoes DEF Undisturbed, TasksTakeTurns
<1>7. SessionOf(s)'
  BY <1>1, <1>5, <1>3, FailLoginDoes DEF SessionOf
<1>8. EntryIsGranted'
  BY <1>1, <1>2, FailLoginDoes DEF Undisturbed, EntryIsGranted
<1>9. SessionIsOver'
  BY <1>1, <1>2, FailLoginDoes DEF Undisturbed, SessionIsOver, Idle, Refreshing
<1>10. HeardOut'
  <2>1. /\ HeardOut /\ UNCHANGED <<unheard, left, exit>>
        /\ Idle(Push) => Idle(Push)' /\ (device' = device \/ ~device'.active)
        /\ call'[Exit].at = "ok" => call[Exit].at = "ok"
    BY <1>1, <1>2, FailLoginDoes DEF Undisturbed, Idle
  <2>. QED
    BY <2>1, HeardOutKept
<1>11. SessionLives'
  <2>. SUFFICES ASSUME faults' = MaxFaults, exit'.at = "idle"
       PROVE  SessionGoesOn'
    BY DEF SessionLives
  <2>1. SessionGoesOn /\ exit.at = "idle"
    BY <1>1, <1>2, FailLoginDoes DEF Undisturbed, SessionLives
  <2>2. RetryIsGood'
    BY <1>1, <2>1, FailLoginDoes, RetryKept DEF SessionGoesOn
  <2>. QED
    BY <1>1, <2>1, <2>2, FailLoginDoes DEF SessionGoesOn
<1>. QED
  BY <1>6, <1>7, <1>8, <1>9, <1>10, <1>11 DEF Undisturbed, OneSession

LEMMA StoreUndisturbed ==
  ASSUME PhoneInv, StoreTokens, ~crossed'
  PROVE  Undisturbed'
<1>1. PhoneKnown /\ ~crossed
  <2>1. PhoneKnown
    BY DEF PhoneInv
  <2>2. ~crossed
    BY <2>1, StoreDoes
  <2>. QED
    BY <2>1, <2>2
<1>2. Undisturbed
  BY <1>1 DEF PhoneInv
<1>3. PICK s \in Users \cup {Null} : SessionOf(s)
  BY <1>2 DEF Undisturbed, OneSession
<1>4. /\ Null \notin issued
      /\ store.access \in issued \cup {Null} /\ store.refresh \in issued \cup {Null}
      /\ refresh.token \in issued \cup {Null} /\ refresh.got \in issued \cup {Null}
      /\ entry.pair \in issued \cup {Null}
      /\ live \subseteq issued /\ expired \subseteq issued /\ faults \in 0..MaxFaults
  BY <1>1, PairsAreMinted
<1>5. UNCHANGED owner /\ issued' = issued
  BY <1>1, StoreDoes, MintedKept DEF PhoneKnown, PhoneTyped
<1>6. PICK u \in Users : u = entry.user
  BY <1>1, StoreDoes DEF PhoneKnown, PhoneTyped, PartsTyped, Entries, WorkIsKnown
<1>7. /\ UNCHANGED <<live, expired, device, status, shown, refresh, call, launch, exit, faults>>
      /\ refresh.at \in {"none", "void"} /\ exit.at = "idle"
      /\ call[Profile].at = "idle" /\ call[Exit].at = "idle"
      /\ entry.at = "stores" /\ entry'.at = "caches"
      /\ entry'.user = entry.user /\ entry'.pair = entry.pair /\ entry.pair \in issued
      /\ store'.access = entry.pair /\ store'.refresh = entry.pair
      /\ left' = Null /\ owner[entry.pair] = entry.user
      /\ status # "signed-in" /\ launch.at \notin {"asks", "shows"}
  <2>1. refresh.at \in {"none", "posted", "failed", "granted", "stored", "void"}
    BY <1>1 DEF PhoneKnown, PhoneTyped, PartsTyped, Refreshes
  <2>2. ~Refreshing /\ ~Rechecking /\ exit.at = "idle"
    BY <1>1, StoreDoes
  <2>3. call[Exit].at = "idle"
    BY <1>1, <2>2 DEF PhoneKnown, CallsMatchTasks, Idle
  <2>4. entry.at = "stores"
    BY <1>1, StoreDoes
  <2>5. owner[entry.pair] = entry.user
    BY <1>2, <2>4 DEF Undisturbed, EntryIsGranted
  <2>6. status # "signed-in" /\ launch.at \notin {"asks", "shows"}
    BY <1>1, <1>2, <2>4 DEF Undisturbed, TasksTakeTurns, PhoneKnown, BootIsAlone
  <2>. QED
    BY <1>1, <2>1, <2>2, <2>3, <2>5, <2>6, StoreDoes DEF Refreshing, Rechecking
<1>8. TasksTakeTurns'
  BY <1>7, <1>2 DEF Undisturbed, TasksTakeTurns, Idle
<1>9. SessionOf(u)'
  <2>1. \A n \in issued' : n \in {store'.access, store'.refresh} => owner'[n] = u
    BY <1>5, <1>6, <1>7, <1>3 DEF SessionOf
  <2>2. entry'.at = "caches" \/ store'.user \in {u, Null}
    BY <1>7, <1>3 DEF SessionOf
  <2>3. status' = "signed-in" \/ launch'.at = "shows" => shown' = u
    BY <1>7, <1>3 DEF SessionOf
  <2>4. refresh'.at \in {"posted", "granted"} => owner'[refresh'.token] = u
    BY <1>7, <1>3 DEF SessionOf
  <2>5. refresh'.at \in {"granted", "stored"} => owner'[refresh'.got] = u
    BY <1>7, <1>3 DEF SessionOf
  <2>6. \A n \in issued' : (n = call'[Profile].token /\ call'[Profile].at # "idle")
          \/ (n = call'[Exit].token /\ call'[Exit].at # "idle") => owner'[n] = u
    BY <1>7, <1>3 DEF SessionOf
  <2>7. \A n \in issued' : launch'.at = "asks" /\ n = call'[Boot].token => owner'[n] = u
    BY <1>7, <1>3 DEF SessionOf
  <2>8. launch'.at \in {"asks", "shows"} => launch'.user = u
    BY <1>7, <1>3 DEF SessionOf
  <2>9. exit'.at # "idle" => exit'.user = u
    BY <1>7, <1>3 DEF SessionOf
  <2>10. entry'.at \in {"caches", "checks"} => entry'.user = u /\ owner'[entry'.pair] = u
    BY <1>5, <1>6, <1>7, <1>3 DEF SessionOf
  <2>. QED
    BY <2>1, <2>2, <2>3, <2>4, <2>5, <2>6, <2>7, <2>8, <2>9, <2>10 DEF SessionOf
<1>10. EntryIsGranted'
  BY <1>7, <1>2 DEF Undisturbed, EntryIsGranted
<1>11. SessionIsOver'
  BY <1>7, <1>2 DEF Undisturbed, SessionIsOver
<1>12. HeardOut'
  BY <1>7 DEF HeardOut
<1>13. SessionLives'
  <2>. SUFFICES ASSUME faults' = MaxFaults, exit'.at = "idle"
       PROVE  SessionGoesOn'
    BY DEF SessionLives
  <2>1. SessionGoesOn /\ exit.at = "idle"
    BY <1>7, <1>2 DEF Undisturbed, SessionLives
  <2>2. refresh'.at # "failed"
    BY <1>7, <2>1 DEF SessionGoesOn
  <2>3. refresh'.at = "posted" => refresh'.token = store'.refresh
    BY <1>7, <2>1 DEF SessionGoesOn
  <2>4. refresh'.at # "granted" /\ store'.refresh # Null => store'.refresh \in live'
    BY <1>7, <2>1 DEF SessionGoesOn
  <2>5. refresh'.at \in {"granted", "stored"} =>
          refresh'.got \in live' /\ refresh'.got \notin expired' /\ refresh'.got # store'.access
    BY <1>7, <2>1 DEF SessionGoesOn
  <2>6. entry'.at = "stores" => entry'.pair \in live' /\ entry'.pair \notin {store'.refresh, refresh'.got}
    BY <1>7, <2>1 DEF SessionGoesOn
  <2>7. call'[Profile].at = "refused" => refresh'.at = "void"
    BY <1>7, <2>1 DEF SessionGoesOn
  <2>8. RetryIsGood'
    BY <1>7, <2>1, RetryKept DEF SessionGoesOn
  <2>. QED
    BY <2>2, <2>3, <2>4, <2>5, <2>6, <2>7, <2>8 DEF SessionGoesOn
<1>. QED
  BY <1>8, <1>9, <1>10, <1>11, <1>12, <1>13 DEF Undisturbed, OneSession

LEMMA CacheUndisturbed ==
  ASSUME PhoneInv, CacheUser, ~crossed'
  PROVE  Undisturbed'
<1>1. PhoneKnown /\ ~crossed
  <2>1. PhoneKnown
    BY DEF PhoneInv
  <2>2. ~crossed
    BY <2>1, CacheDoes
  <2>. QED
    BY <2>1, <2>2
<1>2. Undisturbed
  BY <1>1 DEF PhoneInv
<1>3. PICK s \in Users \cup {Null} : SessionOf(s)
  BY <1>2 DEF Undisturbed, OneSession
<1>4. /\ Null \notin issued
      /\ store.access \in issued \cup {Null} /\ store.refresh \in issued \cup {Null}
      /\ refresh.token \in issued \cup {Null} /\ refresh.got \in issued \cup {Null}
      /\ entry.pair \in issued \cup {Null}
      /\ live \subseteq issued /\ expired \subseteq issued /\ faults \in 0..MaxFaults
  BY <1>1, PairsAreMinted
<1>5. UNCHANGED owner /\ issued' = issued
  BY <1>1, CacheDoes, MintedKept DEF PhoneKnown, PhoneTyped
<1>6. TasksTakeTurns'
  BY <1>1, <1>2, CacheDoes DEF Undisturbed, TasksTakeTurns, Idle
<1>7. SessionOf(s)'
  BY <1>1, <1>5, <1>3, CacheDoes DEF SessionOf
<1>8. EntryIsGranted'
  BY <1>1, <1>2, CacheDoes DEF Undisturbed, EntryIsGranted
<1>9. SessionIsOver'
  BY <1>1, <1>2, CacheDoes DEF Undisturbed, SessionIsOver
<1>10. HeardOut'
  <2>1. /\ HeardOut /\ UNCHANGED <<unheard, left, exit>>
        /\ Idle(Push) => Idle(Push)' /\ (device' = device \/ ~device'.active)
        /\ call'[Exit].at = "ok" => call[Exit].at = "ok"
    BY <1>1, <1>2, CacheDoes DEF Undisturbed, Idle
  <2>. QED
    BY <2>1, HeardOutKept
<1>11. SessionLives'
  <2>. SUFFICES ASSUME faults' = MaxFaults, exit'.at = "idle"
       PROVE  SessionGoesOn'
    BY DEF SessionLives
  <2>1. SessionGoesOn /\ exit.at = "idle"
    BY <1>1, <1>2, CacheDoes DEF Undisturbed, SessionLives
  <2>2. RetryIsGood'
    BY <1>1, <2>1, CacheDoes, RetryKept DEF SessionGoesOn
  <2>. QED
    BY <1>1, <2>1, <2>2, CacheDoes DEF SessionGoesOn
<1>. QED
  BY <1>6, <1>7, <1>8, <1>9, <1>10, <1>11 DEF Undisturbed, OneSession

LEMMA ReadBackUndisturbed ==
  ASSUME PhoneInv, ReadBack, ~crossed'
  PROVE  Undisturbed'
<1>1. PhoneKnown /\ ~crossed
  <2>1. PhoneKnown
    BY DEF PhoneInv
  <2>2. ~crossed
    BY <2>1, ReadBackDoes
  <2>. QED
    BY <2>1, <2>2
<1>2. Undisturbed
  BY <1>1 DEF PhoneInv
<1>3. PICK s \in Users \cup {Null} : SessionOf(s)
  BY <1>2 DEF Undisturbed, OneSession
<1>4. /\ Null \notin issued
      /\ store.access \in issued \cup {Null} /\ store.refresh \in issued \cup {Null}
      /\ refresh.token \in issued \cup {Null} /\ refresh.got \in issued \cup {Null}
      /\ entry.pair \in issued \cup {Null}
      /\ live \subseteq issued /\ expired \subseteq issued /\ faults \in 0..MaxFaults
  BY <1>1, PairsAreMinted
<1>5. UNCHANGED owner /\ issued' = issued
  BY <1>1, ReadBackDoes, MintedKept DEF PhoneKnown, PhoneTyped
<1>6. TasksTakeTurns'
  BY <1>1, <1>4, <1>2, ReadBackDoes DEF Undisturbed, TasksTakeTurns
<1>7. SessionOf(s)'
  <2>1. \A n \in issued' : n \in {store'.access, store'.refresh} => owner'[n] = s
    BY <1>1, <1>5, <1>3, ReadBackDoes DEF SessionOf
  <2>2. entry'.at = "caches" \/ store'.user \in {s, Null}
    BY <1>1, <1>3, ReadBackDoes DEF SessionOf
  <2>3. status' = "signed-in" \/ launch'.at = "shows" => shown' = s
    BY <1>1, <1>3, ReadBackDoes DEF SessionOf
  <2>4. refresh'.at \in {"posted", "granted"} => owner'[refresh'.token] = s
    BY <1>1, <1>3, ReadBackDoes DEF SessionOf
  <2>5. refresh'.at \in {"granted", "stored"} => owner'[refresh'.got] = s
    BY <1>1, <1>3, ReadBackDoes DEF SessionOf
  <2>6. \A n \in issued' : (n = call'[Profile].token /\ call'[Profile].at # "idle")
          \/ (n = call'[Exit].token /\ call'[Exit].at # "idle") => owner'[n] = s
    BY <1>1, <1>5, <1>3, ReadBackDoes DEF SessionOf
  <2>7. \A n \in issued' : launch'.at = "asks" /\ n = call'[Boot].token => owner'[n] = s
    BY <1>1, <1>5, <1>3, ReadBackDoes DEF SessionOf
  <2>8. launch'.at \in {"asks", "shows"} => launch'.user = s
    BY <1>1, <1>3, ReadBackDoes DEF SessionOf
  <2>9. exit'.at # "idle" => exit'.user = s
    BY <1>1, <1>3, ReadBackDoes DEF SessionOf
  <2>10. entry'.at \in {"caches", "checks"} => entry'.user = s /\ owner'[entry'.pair] = s
    BY <1>1, <1>3, ReadBackDoes DEF SessionOf
  <2>. QED
    BY <2>1, <2>2, <2>3, <2>4, <2>5, <2>6, <2>7, <2>8, <2>9, <2>10 DEF SessionOf
<1>8. EntryIsGranted'
  BY <1>1, <1>2, ReadBackDoes DEF Undisturbed, EntryIsGranted
<1>9. SessionIsOver'
  BY <1>1, <1>2, ReadBackDoes DEF Undisturbed, SessionIsOver
<1>10. HeardOut'
  <2>1. /\ HeardOut /\ UNCHANGED <<unheard, left, exit>>
        /\ Idle(Push) => Idle(Push)' /\ (device' = device \/ ~device'.active)
        /\ call'[Exit].at = "ok" => call[Exit].at = "ok"
    BY <1>1, <1>2, ReadBackDoes DEF Undisturbed, Idle
  <2>. QED
    BY <2>1, HeardOutKept
<1>11. SessionLives'
  <2>. SUFFICES ASSUME faults' = MaxFaults, exit'.at = "idle"
       PROVE  SessionGoesOn'
    BY DEF SessionLives
  <2>1. SessionGoesOn /\ exit.at = "idle"
    BY <1>1, <1>2, ReadBackDoes DEF Undisturbed, SessionLives
  <2>2. RetryIsGood'
    BY <1>1, <2>1, ReadBackDoes, RetryKept DEF SessionGoesOn
  <2>. QED
    BY <1>1, <2>1, <2>2, ReadBackDoes DEF SessionGoesOn
<1>. QED
  BY <1>6, <1>7, <1>8, <1>9, <1>10, <1>11 DEF Undisturbed, OneSession

LEMMA SignOutUndisturbed ==
  ASSUME PhoneInv, SignOut, ~crossed'
  PROVE  Undisturbed'
<1>1. PhoneKnown /\ ~crossed
  <2>1. PhoneKnown
    BY DEF PhoneInv
  <2>2. ~crossed
    BY <2>1, SignOutDoes
  <2>. QED
    BY <2>1, <2>2
<1>2. Undisturbed
  BY <1>1 DEF PhoneInv
<1>3. PICK s \in Users \cup {Null} : SessionOf(s)
  BY <1>2 DEF Undisturbed, OneSession
<1>4. /\ Null \notin issued
      /\ store.access \in issued \cup {Null} /\ store.refresh \in issued \cup {Null}
      /\ refresh.token \in issued \cup {Null} /\ refresh.got \in issued \cup {Null}
      /\ entry.pair \in issued \cup {Null}
      /\ live \subseteq issued /\ expired \subseteq issued /\ faults \in 0..MaxFaults
  BY <1>1, PairsAreMinted
<1>5. UNCHANGED owner /\ issued' = issued
  BY <1>1, SignOutDoes, MintedKept DEF PhoneKnown, PhoneTyped
<1>6. /\ RefreshFollows
      /\ \A d \in Callers : d # Exit => call'[d] = call[d]
      /\ call'[Exit].at \in {"sent", "waits first"}
      /\ call'[Exit].token \in {Null, store.access}
      /\ UNCHANGED <<live, expired, device, store, status, shown, entry, faults, left>>
      /\ status = "signed-in" /\ exit.at = "idle" /\ exit'.at = "silences" /\ exit'.user = shown
      /\ launch'.at \in {"idle", "lets go", "shows"} /\ (launch'.at = "shows" => launch' = launch)
      /\ unheard' = (call[Push].at # "idle")
  <2>1. Exit \in Callers /\ Sends(Exit, "unregister-all")
    BY <1>1, SignOutDoes
  <2>2. RefreshFollows
    BY <2>1, JoinedFollows DEF Sends
  <2>3. /\ \A d \in Callers : d # Exit => call'[d] = call[d]
        /\ call'[Exit].at \in {"sent", "waits first"}
        /\ call'[Exit].token \in {Null, store.access}
    BY <1>1, <2>1, SendsTyped DEF PhoneKnown
  <2>. QED
    BY <1>1, <2>2, <2>3, SignOutDoes DEF Idle
<1>7. TasksTakeTurns'
  BY <1>6, <1>2 DEF Undisturbed, TasksTakeTurns
<1>8. SessionOf(s)'
  <2>1. \A n \in issued' : n \in {store'.access, store'.refresh} => owner'[n] = s
    BY <1>5, <1>6, <1>3 DEF SessionOf
  <2>2. entry'.at = "caches" \/ store'.user \in {s, Null}
    BY <1>6, <1>3 DEF SessionOf
  <2>3. status' = "signed-in" \/ launch'.at = "shows" => shown' = s
    BY <1>6, <1>3 DEF SessionOf
  <2>4. refresh'.at \in {"posted", "granted"} => owner'[refresh'.token] = s
    BY <1>4, <1>5, <1>6, <1>3 DEF SessionOf, RefreshFollows
  <2>5. refresh'.at \in {"granted", "stored"} => owner'[refresh'.got] = s
    BY <1>5, <1>6, <1>3 DEF SessionOf, RefreshFollows
  <2>6. \A n \in issued' : (n = call'[Profile].token /\ call'[Profile].at # "idle")
          \/ (n = call'[Exit].token /\ call'[Exit].at # "idle") => owner'[n] = s
    BY <1>1, <1>4, <1>5, <1>6, <1>3 DEF SessionOf, RefreshFollows
  <2>7. \A n \in issued' : launch'.at = "asks" /\ n = call'[Boot].token => owner'[n] = s
    BY <1>6, <1>3 DEF SessionOf
  <2>8. launch'.at \in {"asks", "shows"} => launch'.user = s
    BY <1>6, <1>3 DEF SessionOf
  <2>9. exit'.at # "idle" => exit'.user = s
    BY <1>6, <1>3 DEF SessionOf
  <2>10. entry'.at \in {"caches", "checks"} => entry'.user = s /\ owner'[entry'.pair] = s
    BY <1>5, <1>6, <1>3 DEF SessionOf
  <2>. QED
    BY <2>1, <2>2, <2>3, <2>4, <2>5, <2>6, <2>7, <2>8, <2>9, <2>10 DEF SessionOf
<1>9. EntryIsGranted'
  BY <1>5, <1>6, <1>2 DEF Undisturbed, EntryIsGranted
<1>10. SessionIsOver'
  BY <1>6, <1>2 DEF Undisturbed, SessionIsOver
<1>11. HeardOut'
  BY <1>2, <1>6 DEF Undisturbed, SessionIsOver, HeardOut, Idle
<1>12. SessionLives'
  BY <1>6 DEF SessionLives
<1>. QED
  BY <1>7, <1>8, <1>9, <1>10, <1>11, <1>12 DEF Undisturbed, OneSession

LEMMA SendLogoutUndisturbed ==
  ASSUME PhoneInv, SendLogout, ~crossed'
  PROVE  Undisturbed'
<1>1. PhoneKnown /\ ~crossed
  <2>1. PhoneKnown
    BY DEF PhoneInv
  <2>2. ~crossed
    BY <2>1, SendLogoutDoes
  <2>. QED
    BY <2>1, <2>2
<1>2. Undisturbed
  BY <1>1 DEF PhoneInv
<1>3. PICK s \in Users \cup {Null} : SessionOf(s)
  BY <1>2 DEF Undisturbed, OneSession
<1>4. /\ Null \notin issued
      /\ store.access \in issued \cup {Null} /\ store.refresh \in issued \cup {Null}
      /\ refresh.token \in issued \cup {Null} /\ refresh.got \in issued \cup {Null}
      /\ entry.pair \in issued \cup {Null}
      /\ live \subseteq issued /\ expired \subseteq issued /\ faults \in 0..MaxFaults
  BY <1>1, PairsAreMinted
<1>5. UNCHANGED owner /\ issued' = issued
  BY <1>1, SendLogoutDoes, MintedKept DEF PhoneKnown, PhoneTyped
<1>6. /\ RefreshFollows
      /\ \A d \in Callers : d # Exit => call'[d] = call[d]
      /\ call'[Exit].at \in {"sent", "waits first"}
      /\ call'[Exit].token \in {Null, store.access}
      /\ UNCHANGED <<live, expired, device, store, status, shown, launch, entry, faults, left>>
      /\ exit.at = "silences" /\ exit'.at = "logs out" /\ exit'.user = exit.user
      /\ unheard' = (unheard \/ call[Exit].at # "ok")
      /\ launch.at \notin {"asks", "shows"} /\ entry.at \notin {"caches", "checks"}
  <2>1. Exit \in Callers /\ Sends(Exit, "logout")
    BY <1>1, SendLogoutDoes
  <2>2. exit.at = "silences"
    BY <1>1, SendLogoutDoes
  <2>3. launch.at \notin {"asks", "shows"} /\ entry.at \notin {"caches", "checks"}
    BY <1>1, <1>2, <2>2 DEF Undisturbed, TasksTakeTurns, PhoneKnown, BootIsAlone
  <2>4. RefreshFollows
    BY <2>1, JoinedFollows DEF Sends
  <2>5. /\ \A d \in Callers : d # Exit => call'[d] = call[d]
        /\ call'[Exit].at \in {"sent", "waits first"}
        /\ call'[Exit].token \in {Null, store.access}
    BY <1>1, <2>1, SendsTyped DEF PhoneKnown
  <2>. QED
    BY <1>1, <2>3, <2>4, <2>5, SendLogoutDoes
<1>7. TasksTakeTurns'
  BY <1>6, <1>2 DEF Undisturbed, TasksTakeTurns
<1>8. SessionOf(s)'
  <2>1. \A n \in issued' : n \in {store'.access, store'.refresh} => owner'[n] = s
    BY <1>5, <1>6, <1>3 DEF SessionOf
  <2>2. entry'.at = "caches" \/ store'.user \in {s, Null}
    BY <1>6, <1>3 DEF SessionOf
  <2>3. status' = "signed-in" \/ launch'.at = "shows" => shown' = s
    BY <1>6, <1>3 DEF SessionOf
  <2>4. refresh'.at \in {"posted", "granted"} => owner'[refresh'.token] = s
    BY <1>4, <1>5, <1>6, <1>3 DEF SessionOf, RefreshFollows
  <2>5. refresh'.at \in {"granted", "stored"} => owner'[refresh'.got] = s
    BY <1>5, <1>6, <1>3 DEF SessionOf, RefreshFollows
  <2>6. \A n \in issued' : (n = call'[Profile].token /\ call'[Profile].at # "idle")
          \/ (n = call'[Exit].token /\ call'[Exit].at # "idle") => owner'[n] = s
    BY <1>1, <1>4, <1>5, <1>6, <1>3 DEF SessionOf, RefreshFollows
  <2>7. \A n \in issued' : launch'.at = "asks" /\ n = call'[Boot].token => owner'[n] = s
    BY <1>6, <1>3 DEF SessionOf
  <2>8. launch'.at \in {"asks", "shows"} => launch'.user = s
    BY <1>6, <1>3 DEF SessionOf
  <2>9. exit'.at # "idle" => exit'.user = s
    BY <1>6, <1>3 DEF SessionOf
  <2>10. entry'.at \in {"caches", "checks"} => entry'.user = s /\ owner'[entry'.pair] = s
    BY <1>6, <1>3 DEF SessionOf
  <2>. QED
    BY <2>1, <2>2, <2>3, <2>4, <2>5, <2>6, <2>7, <2>8, <2>9, <2>10 DEF SessionOf
<1>9. EntryIsGranted'
  BY <1>5, <1>6, <1>2 DEF Undisturbed, EntryIsGranted
<1>10. SessionIsOver'
  BY <1>6, <1>2 DEF Undisturbed, SessionIsOver
<1>11. HeardOut'
  BY <1>2, <1>6 DEF Undisturbed, HeardOut, Silent, Idle
<1>12. SessionLives'
  BY <1>6 DEF SessionLives
<1>. QED
  BY <1>7, <1>8, <1>9, <1>10, <1>11, <1>12 DEF Undisturbed, OneSession

LEMMA LeaveUndisturbed ==
  ASSUME PhoneInv, Leave, ~crossed'
  PROVE  Undisturbed'
<1>1. PhoneKnown /\ ~crossed
  <2>1. PhoneKnown
    BY DEF PhoneInv
  <2>2. ~crossed
    BY <2>1, LeaveDoes
  <2>. QED
    BY <2>1, <2>2
<1>2. Undisturbed
  BY <1>1 DEF PhoneInv
<1>3. PICK s \in Users \cup {Null} : SessionOf(s)
  BY <1>2 DEF Undisturbed, OneSession
<1>4. /\ Null \notin issued
      /\ store.access \in issued \cup {Null} /\ store.refresh \in issued \cup {Null}
      /\ refresh.token \in issued \cup {Null} /\ refresh.got \in issued \cup {Null}
      /\ entry.pair \in issued \cup {Null}
      /\ live \subseteq issued /\ expired \subseteq issued /\ faults \in 0..MaxFaults
  BY <1>1, PairsAreMinted
<1>5. UNCHANGED owner /\ issued' = issued
  BY <1>1, LeaveDoes, MintedKept DEF PhoneKnown, PhoneTyped
<1>6. /\ UNCHANGED <<live, expired, device, refresh, launch, entry, faults, unheard>>
      /\ exit.at = "logs out" /\ exit'.at = "idle" /\ left' = exit.user
      /\ store'.access = Null /\ store'.refresh = Null /\ store'.user = Null
      /\ status' = "signed-out"
      /\ call[Profile].at = "idle" /\ entry.at = "idle"
      /\ refresh.at \in {"none", "void"} /\ launch.at \notin {"asks", "shows"}
      /\ call'[Exit].at = "idle"
      /\ \A d \in Callers : d # Exit => call'[d] = call[d]
  <2>1. refresh.at \in {"none", "posted", "failed", "granted", "stored", "void"}
    BY <1>1 DEF PhoneKnown, PhoneTyped, PartsTyped, Refreshes
  <2>2. ~Refreshing /\ Idle(Profile) /\ entry.at = "idle" /\ exit.at = "logs out"
    BY <1>1, LeaveDoes
  <2>3. launch.at \notin {"asks", "shows"}
    BY <1>1, <1>2, <2>2 DEF Undisturbed, TasksTakeTurns, PhoneKnown, BootIsAlone
  <2>. QED
    BY <1>1, <2>1, <2>2, <2>3, LeaveDoes, AwayIsTyped DEF Refreshing, Idle
<1>7. TasksTakeTurns'
  BY <1>6, <1>2 DEF Undisturbed, TasksTakeTurns
<1>8. SessionOf(s)'
  <2>1. \A n \in issued' : n \in {store'.access, store'.refresh} => owner'[n] = s
    BY <1>1, <1>4, <1>5, <1>6, <1>3 DEF SessionOf
  <2>2. entry'.at = "caches" \/ store'.user \in {s, Null}
    BY <1>6, <1>3 DEF SessionOf
  <2>3. status' = "signed-in" \/ launch'.at = "shows" => shown' = s
    BY <1>6, <1>3 DEF SessionOf
  <2>4. refresh'.at \in {"posted", "granted"} => owner'[refresh'.token] = s
    BY <1>6, <1>3 DEF SessionOf
  <2>5. refresh'.at \in {"granted", "stored"} => owner'[refresh'.got] = s
    BY <1>6, <1>3 DEF SessionOf
  <2>6. \A n \in issued' : (n = call'[Profile].token /\ call'[Profile].at # "idle")
          \/ (n = call'[Exit].token /\ call'[Exit].at # "idle") => owner'[n] = s
    BY <1>6, <1>3 DEF SessionOf
  <2>7. \A n \in issued' : launch'.at = "asks" /\ n = call'[Boot].token => owner'[n] = s
    BY <1>6, <1>3 DEF SessionOf
  <2>8. launch'.at \in {"asks", "shows"} => launch'.user = s
    BY <1>6, <1>3 DEF SessionOf
  <2>9. exit'.at # "idle" => exit'.user = s
    BY <1>6, <1>3 DEF SessionOf
  <2>10. entry'.at \in {"caches", "checks"} => entry'.user = s /\ owner'[entry'.pair] = s
    BY <1>6, <1>3 DEF SessionOf
  <2>. QED
    BY <2>1, <2>2, <2>3, <2>4, <2>5, <2>6, <2>7, <2>8, <2>9, <2>10 DEF SessionOf
<1>9. EntryIsGranted'
  BY <1>6, <1>2 DEF Undisturbed, EntryIsGranted
<1>10. SessionIsOver'
  BY <1>6, <1>2 DEF Undisturbed, SessionIsOver, Idle, Refreshing
<1>11. HeardOut'
  BY <1>2, <1>6 DEF Undisturbed, HeardOut, Silent, Idle
<1>12. SessionLives'
  <2>1. RetryIsGood'
    BY <1>6, RetryOver
  <2>. QED
    BY <1>6, <2>1 DEF SessionLives, SessionGoesOn
<1>. QED
  BY <1>7, <1>8, <1>9, <1>10, <1>11, <1>12 DEF Undisturbed, OneSession

LEMMA SendRegistrationUndisturbed ==
  ASSUME PhoneInv, SendRegistration, ~crossed'
  PROVE  Undisturbed'
<1>1. PhoneKnown /\ ~crossed
  <2>1. PhoneKnown
    BY DEF PhoneInv
  <2>2. ~crossed
    BY <2>1, SendRegistrationDoes
  <2>. QED
    BY <2>1, <2>2
<1>2. Undisturbed
  BY <1>1 DEF PhoneInv
<1>3. PICK s \in Users \cup {Null} : SessionOf(s)
  BY <1>2 DEF Undisturbed, OneSession
<1>4. /\ Null \notin issued
      /\ store.access \in issued \cup {Null} /\ store.refresh \in issued \cup {Null}
      /\ refresh.token \in issued \cup {Null} /\ refresh.got \in issued \cup {Null}
      /\ entry.pair \in issued \cup {Null}
      /\ live \subseteq issued /\ expired \subseteq issued /\ faults \in 0..MaxFaults
  BY <1>1, PairsAreMinted
<1>5. UNCHANGED owner /\ issued' = issued
  BY <1>1, SendRegistrationDoes, MintedKept DEF PhoneKnown, PhoneTyped
<1>6. /\ RefreshFollows
      /\ \A d \in Callers : d # Push => call'[d] = call[d]
      /\ call'[Push].at \in {"sent", "waits first"}
      /\ call'[Push].token \in {Null, store.access}
      /\ UNCHANGED <<live, expired, device, store, status, shown, launch, entry, exit, faults, left>>
      /\ status = "signed-in" /\ unheard' = (unheard \/ exit.at # "idle")
  <2>1. Push \in Callers /\ Sends(Push, "register")
    BY <1>1, SendRegistrationDoes
  <2>2. RefreshFollows
    BY <2>1, JoinedFollows DEF Sends
  <2>3. /\ \A d \in Callers : d # Push => call'[d] = call[d]
        /\ call'[Push].at \in {"sent", "waits first"}
        /\ call'[Push].token \in {Null, store.access}
    BY <1>1, <2>1, SendsTyped DEF PhoneKnown
  <2>. QED
    BY <1>1, <2>2, <2>3, SendRegistrationDoes
<1>7. TasksTakeTurns'
  BY <1>6, <1>2 DEF Undisturbed, TasksTakeTurns
<1>8. SessionOf(s)'
  <2>1. \A n \in issued' : n \in {store'.access, store'.refresh} => owner'[n] = s
    BY <1>5, <1>6, <1>3 DEF SessionOf
  <2>2. entry'.at = "caches" \/ store'.user \in {s, Null}
    BY <1>6, <1>3 DEF SessionOf
  <2>3. status' = "signed-in" \/ launch'.at = "shows" => shown' = s
    BY <1>6, <1>3 DEF SessionOf
  <2>4. refresh'.at \in {"posted", "granted"} => owner'[refresh'.token] = s
    BY <1>4, <1>5, <1>6, <1>3 DEF SessionOf, RefreshFollows
  <2>5. refresh'.at \in {"granted", "stored"} => owner'[refresh'.got] = s
    BY <1>5, <1>6, <1>3 DEF SessionOf, RefreshFollows
  <2>6. \A n \in issued' : (n = call'[Profile].token /\ call'[Profile].at # "idle")
          \/ (n = call'[Exit].token /\ call'[Exit].at # "idle") => owner'[n] = s
    BY <1>5, <1>6, <1>3 DEF SessionOf
  <2>7. \A n \in issued' : launch'.at = "asks" /\ n = call'[Boot].token => owner'[n] = s
    BY <1>5, <1>6, <1>3 DEF SessionOf
  <2>8. launch'.at \in {"asks", "shows"} => launch'.user = s
    BY <1>6, <1>3 DEF SessionOf
  <2>9. exit'.at # "idle" => exit'.user = s
    BY <1>6, <1>3 DEF SessionOf
  <2>10. entry'.at \in {"caches", "checks"} => entry'.user = s /\ owner'[entry'.pair] = s
    BY <1>5, <1>6, <1>3 DEF SessionOf
  <2>. QED
    BY <2>1, <2>2, <2>3, <2>4, <2>5, <2>6, <2>7, <2>8, <2>9, <2>10 DEF SessionOf
<1>9. EntryIsGranted'
  BY <1>5, <1>6, <1>2 DEF Undisturbed, EntryIsGranted
<1>10. SessionIsOver'
  BY <1>6, <1>2 DEF Undisturbed, SessionIsOver
<1>11. HeardOut'
  BY <1>2, <1>6 DEF Undisturbed, SessionIsOver, HeardOut
<1>12. SessionLives'
  <2>. SUFFICES ASSUME faults' = MaxFaults, exit'.at = "idle"
       PROVE  SessionGoesOn'
    BY DEF SessionLives
  <2>1. SessionGoesOn /\ exit.at = "idle"
    BY <1>6, <1>2 DEF Undisturbed, SessionLives
  <2>2. refresh'.at # "failed"
    BY <1>6, <2>1 DEF SessionGoesOn, RefreshFollows
  <2>3. refresh'.at = "posted" => refresh'.token = store'.refresh
    BY <1>6, <2>1 DEF SessionGoesOn, RefreshFollows
  <2>4. refresh'.at # "granted" /\ store'.refresh # Null => store'.refresh \in live'
    BY <1>6, <2>1 DEF SessionGoesOn, RefreshFollows
  <2>5. refresh'.at \in {"granted", "stored"} =>
          refresh'.got \in live' /\ refresh'.got \notin expired' /\ refresh'.got # store'.access
    BY <1>6, <2>1 DEF SessionGoesOn, RefreshFollows
  <2>6. entry'.at = "stores" => entry'.pair \in live' /\ entry'.pair \notin {store'.refresh, refresh'.got}
    BY <1>4, <1>6, <2>1 DEF SessionGoesOn, RefreshFollows
  <2>7. call'[Profile].at = "refused" => refresh'.at = "void"
    BY <1>6, <2>1 DEF SessionGoesOn, RefreshFollows
  <2>8. RetryIsGood'
    BY <1>6, <2>1, RetryKept DEF SessionGoesOn
  <2>. QED
    BY <2>2, <2>3, <2>4, <2>5, <2>6, <2>7, <2>8 DEF SessionGoesOn
<1>. QED
  BY <1>7, <1>8, <1>9, <1>10, <1>11, <1>12 DEF Undisturbed, OneSession

LEMMA EndRegistrationUndisturbed ==
  ASSUME PhoneInv, EndRegistration, ~crossed'
  PROVE  Undisturbed'
<1>1. PhoneKnown /\ ~crossed
  <2>1. PhoneKnown
    BY DEF PhoneInv
  <2>2. ~crossed
    BY <2>1, EndRegistrationDoes
  <2>. QED
    BY <2>1, <2>2
<1>2. Undisturbed
  BY <1>1 DEF PhoneInv
<1>3. PICK s \in Users \cup {Null} : SessionOf(s)
  BY <1>2 DEF Undisturbed, OneSession
<1>4. /\ Null \notin issued
      /\ store.access \in issued \cup {Null} /\ store.refresh \in issued \cup {Null}
      /\ refresh.token \in issued \cup {Null} /\ refresh.got \in issued \cup {Null}
      /\ entry.pair \in issued \cup {Null}
      /\ live \subseteq issued /\ expired \subseteq issued /\ faults \in 0..MaxFaults
  BY <1>1, PairsAreMinted
<1>5. UNCHANGED owner /\ issued' = issued
  BY <1>1, EndRegistrationDoes, MintedKept DEF PhoneKnown, PhoneTyped
<1>6. TasksTakeTurns'
  BY <1>1, <1>2, EndRegistrationDoes DEF Undisturbed, TasksTakeTurns, Idle, Refreshing
<1>7. SessionOf(s)'
  BY <1>1, <1>5, <1>3, EndRegistrationDoes DEF SessionOf
<1>8. EntryIsGranted'
  BY <1>1, <1>2, EndRegistrationDoes DEF Undisturbed, EntryIsGranted
<1>9. SessionIsOver'
  BY <1>1, <1>2, EndRegistrationDoes DEF Undisturbed, SessionIsOver, Idle, Refreshing
<1>10. HeardOut'
  <2>1. /\ HeardOut /\ UNCHANGED <<unheard, left, exit>>
        /\ Idle(Push) => Idle(Push)' /\ (device' = device \/ ~device'.active)
        /\ call'[Exit].at = "ok" => call[Exit].at = "ok"
    BY <1>1, <1>2, EndRegistrationDoes DEF Undisturbed, Idle
  <2>. QED
    BY <2>1, HeardOutKept
<1>11. SessionLives'
  <2>. SUFFICES ASSUME faults' = MaxFaults, exit'.at = "idle"
       PROVE  SessionGoesOn'
    BY DEF SessionLives
  <2>1. SessionGoesOn /\ exit.at = "idle"
    BY <1>1, <1>2, EndRegistrationDoes DEF Undisturbed, SessionLives
  <2>2. RetryIsGood'
    BY <1>1, <2>1, EndRegistrationDoes, RetryKept DEF SessionGoesOn
  <2>. QED
    BY <1>1, <2>1, <2>2, EndRegistrationDoes DEF SessionGoesOn
<1>. QED
  BY <1>6, <1>7, <1>8, <1>9, <1>10, <1>11 DEF Undisturbed, OneSession

LEMMA SendRecheckUndisturbed ==
  ASSUME PhoneInv, SendRecheck, ~crossed'
  PROVE  Undisturbed'
<1>1. PhoneKnown /\ ~crossed
  <2>1. PhoneKnown
    BY DEF PhoneInv
  <2>2. ~crossed
    BY <2>1, SendRecheckDoes
  <2>. QED
    BY <2>1, <2>2
<1>2. Undisturbed
  BY <1>1 DEF PhoneInv
<1>3. PICK s \in Users \cup {Null} : SessionOf(s)
  BY <1>2 DEF Undisturbed, OneSession
<1>4. /\ Null \notin issued
      /\ store.access \in issued \cup {Null} /\ store.refresh \in issued \cup {Null}
      /\ refresh.token \in issued \cup {Null} /\ refresh.got \in issued \cup {Null}
      /\ entry.pair \in issued \cup {Null}
      /\ live \subseteq issued /\ expired \subseteq issued /\ faults \in 0..MaxFaults
  BY <1>1, PairsAreMinted
<1>5. UNCHANGED owner /\ issued' = issued
  BY <1>1, SendRecheckDoes, MintedKept DEF PhoneKnown, PhoneTyped
<1>6. /\ RefreshFollows
      /\ \A d \in Callers : d # Profile => call'[d] = call[d]
      /\ call'[Profile].at \in {"sent", "waits first"}
      /\ call'[Profile].token \in {Null, store.access}
      /\ UNCHANGED <<live, expired, device, store, status, shown, launch, entry, exit, faults, left>>
      /\ status = "signed-in" /\ UNCHANGED unheard
      /\ ~call'[Profile].retried
  <2>1. Profile \in Callers /\ Sends(Profile, "me")
    BY <1>1, SendRecheckDoes
  <2>2. RefreshFollows
    BY <2>1, JoinedFollows DEF Sends
  <2>3. /\ \A d \in Callers : d # Profile => call'[d] = call[d]
        /\ call'[Profile].at \in {"sent", "waits first"}
        /\ call'[Profile].token \in {Null, store.access} /\ ~call'[Profile].retried
    BY <1>1, <2>1, SendsTyped DEF PhoneKnown
  <2>. QED
    BY <1>1, <2>2, <2>3, SendRecheckDoes
<1>7. TasksTakeTurns'
  BY <1>6, <1>2 DEF Undisturbed, TasksTakeTurns
<1>8. SessionOf(s)'
  <2>1. \A n \in issued' : n \in {store'.access, store'.refresh} => owner'[n] = s
    BY <1>5, <1>6, <1>3 DEF SessionOf
  <2>2. entry'.at = "caches" \/ store'.user \in {s, Null}
    BY <1>6, <1>3 DEF SessionOf
  <2>3. status' = "signed-in" \/ launch'.at = "shows" => shown' = s
    BY <1>6, <1>3 DEF SessionOf
  <2>4. refresh'.at \in {"posted", "granted"} => owner'[refresh'.token] = s
    BY <1>4, <1>5, <1>6, <1>3 DEF SessionOf, RefreshFollows
  <2>5. refresh'.at \in {"granted", "stored"} => owner'[refresh'.got] = s
    BY <1>5, <1>6, <1>3 DEF SessionOf, RefreshFollows
  <2>6. \A n \in issued' : (n = call'[Profile].token /\ call'[Profile].at # "idle")
          \/ (n = call'[Exit].token /\ call'[Exit].at # "idle") => owner'[n] = s
    BY <1>1, <1>4, <1>5, <1>6, <1>3 DEF SessionOf, RefreshFollows
  <2>7. \A n \in issued' : launch'.at = "asks" /\ n = call'[Boot].token => owner'[n] = s
    BY <1>5, <1>6, <1>3 DEF SessionOf
  <2>8. launch'.at \in {"asks", "shows"} => launch'.user = s
    BY <1>6, <1>3 DEF SessionOf
  <2>9. exit'.at # "idle" => exit'.user = s
    BY <1>6, <1>3 DEF SessionOf
  <2>10. entry'.at \in {"caches", "checks"} => entry'.user = s /\ owner'[entry'.pair] = s
    BY <1>5, <1>6, <1>3 DEF SessionOf
  <2>. QED
    BY <2>1, <2>2, <2>3, <2>4, <2>5, <2>6, <2>7, <2>8, <2>9, <2>10 DEF SessionOf
<1>9. EntryIsGranted'
  BY <1>5, <1>6, <1>2 DEF Undisturbed, EntryIsGranted
<1>10. SessionIsOver'
  BY <1>6, <1>2 DEF Undisturbed, SessionIsOver
<1>11. HeardOut'
  <2>1. /\ HeardOut /\ UNCHANGED <<unheard, left, exit>>
        /\ Idle(Push) => Idle(Push)' /\ (device' = device \/ ~device'.active)
        /\ call'[Exit].at = "ok" => call[Exit].at = "ok"
    BY <1>6, <1>2 DEF Undisturbed, Idle
  <2>. QED
    BY <2>1, HeardOutKept
<1>12. SessionLives'
  <2>. SUFFICES ASSUME faults' = MaxFaults, exit'.at = "idle"
       PROVE  SessionGoesOn'
    BY DEF SessionLives
  <2>1. SessionGoesOn /\ exit.at = "idle"
    BY <1>6, <1>2 DEF Undisturbed, SessionLives
  <2>2. refresh'.at # "failed"
    BY <1>6, <2>1 DEF SessionGoesOn, RefreshFollows
  <2>3. refresh'.at = "posted" => refresh'.token = store'.refresh
    BY <1>6, <2>1 DEF SessionGoesOn, RefreshFollows
  <2>4. refresh'.at # "granted" /\ store'.refresh # Null => store'.refresh \in live'
    BY <1>6, <2>1 DEF SessionGoesOn, RefreshFollows
  <2>5. refresh'.at \in {"granted", "stored"} =>
          refresh'.got \in live' /\ refresh'.got \notin expired' /\ refresh'.got # store'.access
    BY <1>6, <2>1 DEF SessionGoesOn, RefreshFollows
  <2>6. entry'.at = "stores" => entry'.pair \in live' /\ entry'.pair \notin {store'.refresh, refresh'.got}
    BY <1>4, <1>6, <2>1 DEF SessionGoesOn, RefreshFollows
  <2>7. call'[Profile].at = "refused" => refresh'.at = "void"
    BY <1>6, <2>1 DEF SessionGoesOn
  <2>8. RetryIsGood'
    BY <1>6 DEF RetryIsGood
  <2>. QED
    BY <2>2, <2>3, <2>4, <2>5, <2>6, <2>7, <2>8 DEF SessionGoesOn
<1>. QED
  BY <1>7, <1>8, <1>9, <1>10, <1>11, <1>12 DEF Undisturbed, OneSession

LEMMA EndRecheckUndisturbed ==
  ASSUME PhoneInv, EndRecheck, ~crossed'
  PROVE  Undisturbed'
<1>1. PhoneKnown /\ ~crossed
  <2>1. PhoneKnown
    BY DEF PhoneInv
  <2>2. ~crossed
    BY <2>1, EndRecheckDoes
  <2>. QED
    BY <2>1, <2>2
<1>2. Undisturbed
  BY <1>1 DEF PhoneInv
<1>3. PICK s \in Users \cup {Null} : SessionOf(s)
  BY <1>2 DEF Undisturbed, OneSession
<1>4. /\ Null \notin issued
      /\ store.access \in issued \cup {Null} /\ store.refresh \in issued \cup {Null}
      /\ refresh.token \in issued \cup {Null} /\ refresh.got \in issued \cup {Null}
      /\ entry.pair \in issued \cup {Null}
      /\ live \subseteq issued /\ expired \subseteq issued /\ faults \in 0..MaxFaults
  BY <1>1, PairsAreMinted
<1>5. UNCHANGED owner /\ issued' = issued
  BY <1>1, EndRecheckDoes, MintedKept DEF PhoneKnown, PhoneTyped
<1>6. /\ UNCHANGED <<live, expired, device, refresh, launch, entry, exit, faults, left, unheard>>
      /\ call[Profile].at \in {"ok", "refused", "lost"}
      /\ call'[Profile].at = "idle"
      /\ \A d \in Callers : d # Profile => call'[d] = call[d]
      /\ \/ /\ shown' = s /\ store'.user = s /\ UNCHANGED status
            /\ store'.access = store.access /\ store'.refresh = store.refresh
         \/ /\ call[Profile].at = "refused" /\ status' = "signed-out"
            /\ store'.access = Null /\ store'.refresh = Null /\ store'.user = Null
         \/ UNCHANGED <<store, shown, status>>
      /\ launch.at \notin {"asks", "shows"} /\ entry.at \notin {"caches", "checks"}
  <2>1. call[Profile].at = "ok" /\ call[Profile].token \in issued =>
          owner[call[Profile].token] = s
    BY <1>3 DEF SessionOf
  <2>2. ~Idle(Profile)
    BY <1>1, EndRecheckDoes DEF Idle, Returned, Answered
  <2>3. launch.at \notin {"asks", "shows"} /\ entry.at \notin {"caches", "checks"}
    BY <1>1, <1>2, <2>2 DEF Undisturbed, TasksTakeTurns, PhoneKnown, BootIsAlone
  <2>. QED
    BY <1>1, <2>1, <2>3, EndRecheckDoes, AwayIsTyped DEF Returned, Answered
<1>7. TasksTakeTurns'
  BY <1>6, <1>2 DEF Undisturbed, TasksTakeTurns
<1>8. SessionOf(s)'
  <2>1. \A n \in issued' : n \in {store'.access, store'.refresh} => owner'[n] = s
    BY <1>4, <1>5, <1>6, <1>3 DEF SessionOf
  <2>2. entry'.at = "caches" \/ store'.user \in {s, Null}
    BY <1>6, <1>3 DEF SessionOf
  <2>3. status' = "signed-in" \/ launch'.at = "shows" => shown' = s
    BY <1>6, <1>3 DEF SessionOf
  <2>4. refresh'.at \in {"posted", "granted"} => owner'[refresh'.token] = s
    BY <1>5, <1>6, <1>3 DEF SessionOf
  <2>5. refresh'.at \in {"granted", "stored"} => owner'[refresh'.got] = s
    BY <1>5, <1>6, <1>3 DEF SessionOf
  <2>6. \A n \in issued' : (n = call'[Profile].token /\ call'[Profile].at # "idle")
          \/ (n = call'[Exit].token /\ call'[Exit].at # "idle") => owner'[n] = s
    BY <1>5, <1>6, <1>3 DEF SessionOf
  <2>7. \A n \in issued' : launch'.at = "asks" /\ n = call'[Boot].token => owner'[n] = s
    BY <1>6, <1>3 DEF SessionOf
  <2>8. launch'.at \in {"asks", "shows"} => launch'.user = s
    BY <1>6, <1>3 DEF SessionOf
  <2>9. exit'.at # "idle" => exit'.user = s
    BY <1>6, <1>3 DEF SessionOf
  <2>10. entry'.at \in {"caches", "checks"} => entry'.user = s /\ owner'[entry'.pair] = s
    BY <1>6, <1>3 DEF SessionOf
  <2>. QED
    BY <2>1, <2>2, <2>3, <2>4, <2>5, <2>6, <2>7, <2>8, <2>9, <2>10 DEF SessionOf
<1>9. EntryIsGranted'
  BY <1>5, <1>6, <1>2 DEF Undisturbed, EntryIsGranted
<1>10. SessionIsOver'
  BY <1>6, <1>2 DEF Undisturbed, SessionIsOver, Idle
<1>11. HeardOut'
  <2>1. /\ HeardOut /\ UNCHANGED <<unheard, left, exit>>
        /\ Idle(Push) => Idle(Push)' /\ (device' = device \/ ~device'.active)
        /\ call'[Exit].at = "ok" => call[Exit].at = "ok"
    BY <1>6, <1>2 DEF Undisturbed, Idle
  <2>. QED
    BY <2>1, HeardOutKept
<1>12. SessionLives'
  <2>. SUFFICES ASSUME faults' = MaxFaults, exit'.at = "idle"
       PROVE  SessionGoesOn'
    BY DEF SessionLives
  <2>1. SessionGoesOn /\ exit.at = "idle"
    BY <1>6, <1>2 DEF Undisturbed, SessionLives
  <2>2. refresh'.at # "failed"
    BY <1>6, <2>1 DEF SessionGoesOn
  <2>3. refresh'.at = "posted" => refresh'.token = store'.refresh
    BY <1>6, <2>1 DEF SessionGoesOn
  <2>4. refresh'.at # "granted" /\ store'.refresh # Null => store'.refresh \in live'
    BY <1>6, <2>1 DEF SessionGoesOn
  <2>5. refresh'.at \in {"granted", "stored"} =>
          refresh'.got \in live' /\ refresh'.got \notin expired' /\ refresh'.got # store'.access
    BY <1>6, <2>1 DEF SessionGoesOn
  <2>6. entry'.at = "stores" => entry'.pair \in live' /\ entry'.pair \notin {store'.refresh, refresh'.got}
    BY <1>4, <1>6, <2>1 DEF SessionGoesOn
  <2>7. call'[Profile].at = "refused" => refresh'.at = "void"
    BY <1>6, <2>1 DEF SessionGoesOn
  <2>8. RetryIsGood'
    BY <1>6, <2>1, RetryOver DEF SessionGoesOn
  <2>. QED
    BY <2>2, <2>3, <2>4, <2>5, <2>6, <2>7, <2>8 DEF SessionGoesOn
<1>. QED
  BY <1>7, <1>8, <1>9, <1>10, <1>11, <1>12 DEF Undisturbed, OneSession

LEMMA RestartUndisturbed ==
  ASSUME PhoneInv, Restart, ~crossed'
  PROVE  Undisturbed'
<1>1. PhoneKnown /\ ~crossed
  <2>1. PhoneKnown
    BY DEF PhoneInv
  <2>2. ~crossed
    BY <2>1, RestartDoes
  <2>. QED
    BY <2>1, <2>2
<1>2. Undisturbed
  BY <1>1 DEF PhoneInv
<1>3. PICK s \in Users \cup {Null} : SessionOf(s)
  BY <1>2 DEF Undisturbed, OneSession
<1>4. /\ Null \notin issued
      /\ store.access \in issued \cup {Null} /\ store.refresh \in issued \cup {Null}
      /\ refresh.token \in issued \cup {Null} /\ refresh.got \in issued \cup {Null}
      /\ entry.pair \in issued \cup {Null}
      /\ live \subseteq issued /\ expired \subseteq issued /\ faults \in 0..MaxFaults
  BY <1>1, PairsAreMinted
<1>5. UNCHANGED owner /\ issued' = issued
  BY <1>1, RestartDoes, MintedKept DEF PhoneKnown, PhoneTyped
<1>6. TasksTakeTurns'
  BY <1>1, <1>2, RestartDoes DEF Undisturbed, TasksTakeTurns
<1>7. SessionOf(s)'
  <2>1. \A n \in issued' : n \in {store'.access, store'.refresh} => owner'[n] = s
    BY <1>1, <1>5, <1>3, RestartDoes DEF SessionOf
  <2>2. entry'.at = "caches" \/ store'.user \in {s, Null}
    BY <1>1, <1>3, RestartDoes DEF SessionOf
  <2>3. status' = "signed-in" \/ launch'.at = "shows" => shown' = s
    BY <1>1, <1>3, RestartDoes DEF SessionOf
  <2>4. refresh'.at \in {"posted", "granted"} => owner'[refresh'.token] = s
    BY <1>1, <1>3, RestartDoes DEF SessionOf
  <2>5. refresh'.at \in {"granted", "stored"} => owner'[refresh'.got] = s
    BY <1>1, <1>3, RestartDoes DEF SessionOf
  <2>6. \A n \in issued' : (n = call'[Profile].token /\ call'[Profile].at # "idle")
          \/ (n = call'[Exit].token /\ call'[Exit].at # "idle") => owner'[n] = s
    BY <1>1, <1>3, RestartDoes DEF SessionOf
  <2>7. \A n \in issued' : launch'.at = "asks" /\ n = call'[Boot].token => owner'[n] = s
    BY <1>1, <1>3, RestartDoes DEF SessionOf
  <2>8. launch'.at \in {"asks", "shows"} => launch'.user = s
    BY <1>1, <1>3, RestartDoes DEF SessionOf
  <2>9. exit'.at # "idle" => exit'.user = s
    BY <1>1, <1>3, RestartDoes DEF SessionOf
  <2>10. entry'.at \in {"caches", "checks"} => entry'.user = s /\ owner'[entry'.pair] = s
    BY <1>1, <1>3, RestartDoes DEF SessionOf
  <2>. QED
    BY <2>1, <2>2, <2>3, <2>4, <2>5, <2>6, <2>7, <2>8, <2>9, <2>10 DEF SessionOf
<1>8. EntryIsGranted'
  BY <1>1, <1>2, RestartDoes DEF Undisturbed, EntryIsGranted
<1>9. SessionIsOver'
  BY <1>1, <1>2, RestartDoes DEF Undisturbed, SessionIsOver, Idle, Refreshing
<1>10. HeardOut'
  BY <1>1, <1>2, RestartDoes DEF Undisturbed, HeardOut, Silent, Idle
<1>11. SessionLives'
  BY <1>1, <1>4, RestartDoes, FaultsCount
<1>. QED
  BY <1>6, <1>7, <1>8, <1>9, <1>10, <1>11 DEF Undisturbed, OneSession

LEMMA ReadUndisturbed ==
  ASSUME PhoneInv, ReadSession, ~crossed'
  PROVE  Undisturbed'
<1>1. PhoneKnown /\ ~crossed
  <2>1. PhoneKnown
    BY DEF PhoneInv
  <2>2. ~crossed
    BY <2>1, ReadDoes
  <2>. QED
    BY <2>1, <2>2
<1>2. Undisturbed
  BY <1>1 DEF PhoneInv
<1>3. PICK s \in Users \cup {Null} : SessionOf(s)
  BY <1>2 DEF Undisturbed, OneSession
<1>4. /\ Null \notin issued
      /\ store.access \in issued \cup {Null} /\ store.refresh \in issued \cup {Null}
      /\ refresh.token \in issued \cup {Null} /\ refresh.got \in issued \cup {Null}
      /\ entry.pair \in issued \cup {Null}
      /\ live \subseteq issued /\ expired \subseteq issued /\ faults \in 0..MaxFaults
  BY <1>1, PairsAreMinted
<1>5. UNCHANGED owner /\ issued' = issued
  BY <1>1, ReadDoes, MintedKept DEF PhoneKnown, PhoneTyped
<1>6. /\ UNCHANGED <<live, expired, device, store, shown, entry, exit, faults, left, unheard>>
      /\ status = "loading" /\ entry.at = "idle" /\ exit.at = "idle" /\ refresh.at \in {"none", "void"}
      /\ RefreshFollows
      /\ \A d \in Callers : d # Boot => call'[d] = call[d]
      /\ \/ status' = "signed-out" /\ launch'.at = "idle"
         \/ /\ store.refresh # Null /\ launch'.at = "asks" /\ launch'.user = s
            /\ call'[Boot].token \in {Null, store.access} /\ UNCHANGED status
  <2>1. /\ launch.at = "reads"
        /\ UNCHANGED <<live, expired, device, store, shown, entry, exit, faults, left, unheard>>
    BY <1>1, ReadDoes
  <2>2. status = "loading" /\ entry.at = "idle" /\ exit.at = "idle" /\ refresh.at \in {"none", "void"}
    <3>1. refresh.at \in {"none", "posted", "failed", "granted", "stored", "void"}
      BY <1>1 DEF PhoneKnown, PhoneTyped, PartsTyped, Refreshes
    <3>. QED
      BY <1>1, <2>1, <3>1 DEF PhoneKnown, BootIsAlone, Refreshing
  <2>3. CASE status' = "signed-out" /\ launch'.at = "idle" /\ UNCHANGED <<call, refresh>>
    BY <2>1, <2>2, <2>3 DEF RefreshFollows
  <2>4. CASE /\ store.refresh # Null /\ store.user # Null
             /\ launch'.at = "asks" /\ launch'.user = store.user
             /\ Sends(Boot, "me") /\ UNCHANGED status
    <3>1. RefreshFollows
      BY <2>4, JoinedFollows DEF Sends
    <3>2. /\ \A d \in Callers : d # Boot => call'[d] = call[d]
          /\ call'[Boot].token \in {Null, store.access}
      BY <1>1, <2>4, SendsTyped DEF PhoneKnown
    <3>3. store.user = s
      BY <1>3, <2>2, <2>4 DEF SessionOf
    <3>. QED
      BY <2>1, <2>2, <2>4, <3>1, <3>2, <3>3
  <2>. QED
    BY <1>1, <2>3, <2>4, ReadDoes
<1>7. TasksTakeTurns'
  BY <1>6, <1>2 DEF Undisturbed, TasksTakeTurns
<1>8. SessionOf(s)'
  <2>1. \A n \in issued' : n \in {store'.access, store'.refresh} => owner'[n] = s
    BY <1>5, <1>6, <1>3 DEF SessionOf
  <2>2. entry'.at = "caches" \/ store'.user \in {s, Null}
    BY <1>6, <1>3 DEF SessionOf
  <2>3. status' = "signed-in" \/ launch'.at = "shows" => shown' = s
    BY <1>6, <1>3 DEF SessionOf
  <2>4. refresh'.at \in {"posted", "granted"} => owner'[refresh'.token] = s
    BY <1>4, <1>5, <1>6, <1>3 DEF SessionOf, RefreshFollows
  <2>5. refresh'.at \in {"granted", "stored"} => owner'[refresh'.got] = s
    BY <1>6, <1>3 DEF SessionOf, RefreshFollows
  <2>6. \A n \in issued' : (n = call'[Profile].token /\ call'[Profile].at # "idle")
          \/ (n = call'[Exit].token /\ call'[Exit].at # "idle") => owner'[n] = s
    BY <1>5, <1>6, <1>3 DEF SessionOf
  <2>7. \A n \in issued' : launch'.at = "asks" /\ n = call'[Boot].token => owner'[n] = s
    BY <1>4, <1>5, <1>6, <1>3 DEF SessionOf
  <2>8. launch'.at \in {"asks", "shows"} => launch'.user = s
    BY <1>6, <1>3 DEF SessionOf
  <2>9. exit'.at # "idle" => exit'.user = s
    BY <1>6, <1>3 DEF SessionOf
  <2>10. entry'.at \in {"caches", "checks"} => entry'.user = s /\ owner'[entry'.pair] = s
    BY <1>6, <1>3 DEF SessionOf
  <2>. QED
    BY <2>1, <2>2, <2>3, <2>4, <2>5, <2>6, <2>7, <2>8, <2>9, <2>10 DEF SessionOf
<1>9. EntryIsGranted'
  BY <1>6, <1>2 DEF Undisturbed, EntryIsGranted
<1>10. SessionIsOver'
  BY <1>6, <1>2 DEF Undisturbed, SessionIsOver, RefreshFollows, Idle, Refreshing
<1>11. HeardOut'
  <2>1. /\ HeardOut /\ UNCHANGED <<unheard, left, exit>>
        /\ Idle(Push) => Idle(Push)' /\ (device' = device \/ ~device'.active)
        /\ call'[Exit].at = "ok" => call[Exit].at = "ok"
    BY <1>6, <1>2 DEF Undisturbed, Idle
  <2>. QED
    BY <2>1, HeardOutKept
<1>12. SessionLives'
  <2>. SUFFICES ASSUME faults' = MaxFaults, exit'.at = "idle"
       PROVE  SessionGoesOn'
    BY DEF SessionLives
  <2>1. SessionGoesOn /\ exit.at = "idle"
    BY <1>6, <1>2 DEF Undisturbed, SessionLives
  <2>2. refresh'.at # "failed"
    BY <1>6, <2>1 DEF SessionGoesOn, RefreshFollows
  <2>3. refresh'.at = "posted" => refresh'.token = store'.refresh
    BY <1>6, <2>1 DEF SessionGoesOn, RefreshFollows
  <2>4. refresh'.at # "granted" /\ store'.refresh # Null => store'.refresh \in live'
    BY <1>6, <2>1 DEF SessionGoesOn
  <2>5. refresh'.at \in {"granted", "stored"} =>
          refresh'.got \in live' /\ refresh'.got \notin expired' /\ refresh'.got # store'.access
    BY <1>6, <2>1 DEF SessionGoesOn, RefreshFollows
  <2>6. entry'.at = "stores" => entry'.pair \in live' /\ entry'.pair \notin {store'.refresh, refresh'.got}
    BY <1>6, <2>1 DEF SessionGoesOn
  <2>7. call'[Profile].at = "refused" => refresh'.at = "void"
    BY <1>6, <2>1 DEF SessionGoesOn, RefreshFollows
  <2>8. RetryIsGood'
    BY <1>6, <2>1, RetryKept DEF SessionGoesOn
  <2>. QED
    BY <2>2, <2>3, <2>4, <2>5, <2>6, <2>7, <2>8 DEF SessionGoesOn
<1>. QED
  BY <1>7, <1>8, <1>9, <1>10, <1>11, <1>12 DEF Undisturbed, OneSession

-----------------------------------------------------------------------------
(* The whole run of the app.                                                *)

LEMMA PhoneStarts ==
  ASSUME HandsetInit
  PROVE  PhoneInv
<1>1. /\ OwnersTyped /\ store \in Stores(issued)
      /\ \E s \in Users \cup {Null} :
           store.user = s /\ \A n \in issued : owner[n] = s
      /\ store.refresh # Null => store.refresh \in issued
  <2>1. CASE owner = <<>> /\ store = Empty
    BY <2>1, HandsetAssumption DEF OwnersTyped, Stores, Empty, issued
  <2>2. ASSUME NEW u \in Users, owner = <<u>>,
               store = [access |-> 1, refresh |-> 1, expiry |-> 1, user |-> u]
        PROVE  /\ OwnersTyped /\ store \in Stores(issued)
               /\ \E s \in Users \cup {Null} :
                    store.user = s /\ \A n \in issued : owner[n] = s
               /\ store.refresh # Null => store.refresh \in issued
    <3>1. owner \in Seq(Users) /\ Len(owner) = 1 /\ owner[1] = u
      BY <2>2
    <3>2. issued = {1}
      BY <3>1 DEF issued
    <3>. QED
      BY <2>2, <3>1, <3>2, HandsetAssumption DEF OwnersTyped, Stores
  <2>. QED
    BY <2>1, <2>2 DEF HandsetInit
<1>2. /\ live = issued /\ expired = {} /\ device = [user |-> Null, active |-> FALSE]
      /\ status = "loading" /\ shown = Null
      /\ refresh = [at |-> "none", token |-> Null, got |-> Null]
      /\ call = [c \in Callers |-> NoCall]
      /\ launch = [at |-> "reads", user |-> Null, pair |-> Null]
      /\ entry = Away /\ exit = Away
      /\ faults = MaxFaults /\ left = Null /\ crossed = FALSE /\ unheard = FALSE
  BY DEF HandsetInit, NoRefresh, Away
<1>3. /\ call \in [Callers -> Call]
      /\ \A c \in Callers : call[c].at = "idle" /\ call[c].token = Null
  BY <1>2, NoCallIsCall
<1>4. /\ entry \in Entries(issued) /\ entry.at = "idle"
      /\ exit \in Exits(issued) /\ exit.at = "idle"
  BY <1>2, AwayIsTyped
<1>5. /\ refresh \in Refreshes(issued) /\ launch \in Launches /\ device \in Devices
      /\ ~device.active
  BY <1>2 DEF Refreshes, Launches, Devices
<1>6. PhoneTyped
  <2>1. WaitersHaveRefresh
    BY <1>3 DEF WaitersHaveRefresh, Waiting
  <2>2. MaxFaults \in 0..MaxFaults
    BY HandsetAssumption
  <2>3. PartsTyped(issued)
    BY <1>1, <1>2, <1>3, <1>4, <1>5, <2>2 DEF PartsTyped
  <2>. QED
    BY <1>1, <2>1, <2>3 DEF PhoneTyped
<1>7. CallsMatchTasks /\ WorkIsKnown /\ BootIsAlone
  BY <1>2, <1>3, <1>4 DEF CallsMatchTasks, WorkIsKnown, BootIsAlone, Idle, Refreshing
<1>8. TasksTakeTurns /\ EntryIsGranted /\ SessionIsOver
  BY <1>2, <1>4 DEF TasksTakeTurns, EntryIsGranted, SessionIsOver
<1>9. OneSession
  <2>1. PICK s \in Users \cup {Null} : store.user = s /\ \A n \in issued : owner[n] = s
    BY <1>1
  <2>2. SessionOf(s)
    BY <1>2, <1>4, <2>1 DEF SessionOf
  <2>. QED
    BY <2>2 DEF OneSession
<1>10. HeardOut
  BY <1>2, <1>4 DEF HeardOut
<1>11. SessionLives
  <2>1. RetryIsGood
    BY <1>3 DEF RetryIsGood
  <2>. QED
    BY <1>1, <1>2, <1>3, <1>4, <2>1 DEF SessionLives, SessionGoesOn
<1>. QED
  BY <1>6, <1>7, <1>8, <1>9, <1>10, <1>11 DEF PhoneInv, PhoneKnown, Undisturbed

LEMMA PhoneStays ==
  ASSUME PhoneInv, UNCHANGED phone
  PROVE  PhoneInv'
<1>1. UNCHANGED <<owner, live, expired, device, store, status, shown, refresh, call,
                  launch, entry, exit, faults, left, crossed, unheard>>
  BY DEF phone
<1>2. issued' = issued
  BY <1>1 DEF issued
<1>3. PhoneTyped' <=> PhoneTyped
  BY <1>1, <1>2 DEF PhoneTyped, OwnersTyped, PartsTyped, WaitersHaveRefresh, Refreshing
<1>4. /\ CallsMatchTasks' <=> CallsMatchTasks
      /\ WorkIsKnown' <=> WorkIsKnown
      /\ BootIsAlone' <=> BootIsAlone
  BY <1>1, <1>2 DEF CallsMatchTasks, WorkIsKnown, BootIsAlone, Idle, Refreshing
<1>5. /\ TasksTakeTurns' <=> TasksTakeTurns
      /\ EntryIsGranted' <=> EntryIsGranted
      /\ SessionIsOver' <=> SessionIsOver
  BY <1>1 DEF TasksTakeTurns, EntryIsGranted, SessionIsOver, Idle, Refreshing
<1>6. OneSession' <=> OneSession
  BY <1>1, <1>2 DEF OneSession, SessionOf
<1>7. HeardOut' <=> HeardOut
  BY <1>1 DEF HeardOut, Silent, Idle
<1>8. SessionLives' <=> SessionLives
  <2>1. RetryIsGood' <=> RetryIsGood
    BY <1>1 DEF RetryIsGood, Authorised
  <2>. QED
    BY <1>1, <2>1 DEF SessionLives, SessionGoesOn
<1>9. crossed' <=> crossed
  BY <1>1
<1>. QED
  BY <1>3, <1>4, <1>5, <1>6, <1>7, <1>8, <1>9 DEF PhoneInv, PhoneKnown, Undisturbed

LEMMA PhoneGoesOn ==
  ASSUME PhoneInv, [HandsetNext]_phone
  PROVE  PhoneInv'
<1>0. PhoneKnown
  BY DEF PhoneInv
<1>1. CASE Redeem
  BY <1>0, <1>1, RedeemKnown, RedeemUndisturbed DEF PhoneInv
<1>2. CASE RefuseRefresh \/ LoseRefresh
  BY <1>0, <1>2, RejectKnown, RejectUndisturbed DEF PhoneInv
<1>3. CASE StoreRefresh
  BY <1>0, <1>3, StoreRefreshKnown, StoreRefreshUndisturbed DEF PhoneInv
<1>4. CASE FinishRefresh
  BY <1>0, <1>4, FinishKnown, FinishUndisturbed DEF PhoneInv
<1>5. CASE FailRefresh
  BY <1>0, <1>5, FailKnown, FailUndisturbed DEF PhoneInv
<1>6. CASE Expire \/ \E n \in issued : EndElsewhere(n)
  BY <1>0, <1>6, OutsideKnown, OutsideUndisturbed DEF PhoneInv
<1>7. CASE ReadSession
  BY <1>0, <1>7, ReadKnown, ReadUndisturbed DEF PhoneInv
<1>8. CASE Decide
  BY <1>0, <1>8, DecideKnown, DecideUndisturbed DEF PhoneInv
<1>9. CASE OpenApp
  BY <1>0, <1>9, OpenKnown, OpenUndisturbed DEF PhoneInv
<1>10. CASE Login
  BY <1>0, <1>10, LoginKnown, LoginUndisturbed DEF PhoneInv
<1>11. CASE FailLogin
  BY <1>0, <1>11, FailLoginKnown, FailLoginUndisturbed DEF PhoneInv
<1>12. CASE StoreTokens
  BY <1>0, <1>12, StoreKnown, StoreUndisturbed DEF PhoneInv
<1>13. CASE CacheUser
  BY <1>0, <1>13, CacheKnown, CacheUndisturbed DEF PhoneInv
<1>14. CASE ReadBack
  BY <1>0, <1>14, ReadBackKnown, ReadBackUndisturbed DEF PhoneInv
<1>15. CASE SignOut
  BY <1>0, <1>15, SignOutKnown, SignOutUndisturbed DEF PhoneInv
<1>16. CASE SendLogout
  BY <1>0, <1>16, SendLogoutKnown, SendLogoutUndisturbed DEF PhoneInv
<1>17. CASE Leave
  BY <1>0, <1>17, LeaveKnown, LeaveUndisturbed DEF PhoneInv
<1>18. CASE SendRegistration
  BY <1>0, <1>18, SendRegistrationKnown, SendRegistrationUndisturbed DEF PhoneInv
<1>19. CASE EndRegistration
  BY <1>0, <1>19, EndRegistrationKnown, EndRegistrationUndisturbed DEF PhoneInv
<1>20. CASE SendRecheck
  BY <1>0, <1>20, SendRecheckKnown, SendRecheckUndisturbed DEF PhoneInv
<1>21. CASE EndRecheck
  BY <1>0, <1>21, EndRecheckKnown, EndRecheckUndisturbed DEF PhoneInv
<1>22. CASE Restart
  BY <1>0, <1>22, RestartKnown, RestartUndisturbed DEF PhoneInv
<1>23. ASSUME NEW c \in Callers, Serve(c)
       PROVE  PhoneInv'
  <2>1. faults' \in 0..MaxFaults
    BY <1>0, <1>23, ServeDoes, PairsAreMinted
  <2>. QED
    BY <1>0, <1>23, <2>1, ServeKnown, ServeUndisturbed DEF PhoneInv
<1>24. ASSUME NEW c \in Callers, Lose(c)
       PROVE  PhoneInv'
  <2>1. faults' \in 0..MaxFaults
    BY <1>0, <1>24, LoseDoes, FaultsFall, PairsAreMinted
  <2>. QED
    BY <1>0, <1>24, <2>1, ServeKnown, LoseUndisturbed DEF PhoneInv
<1>25. ASSUME NEW c \in Callers, Refuse(c)
       PROVE  PhoneInv'
  BY <1>0, <1>25, RefuseKnown, RefuseUndisturbed DEF PhoneInv
<1>26. ASSUME NEW u \in Users, SignIn(u)
       PROVE  PhoneInv'
  BY <1>0, <1>26, SignInKnown, SignInUndisturbed DEF PhoneInv
<1>27. CASE UNCHANGED phone
  BY <1>0, <1>27, PhoneStays
<1>. QED
  BY <1>1, <1>2, <1>3, <1>4, <1>5, <1>6, <1>7, <1>8, <1>9, <1>10,
     <1>11, <1>12, <1>13, <1>14, <1>15, <1>16, <1>17, <1>18, <1>19, <1>20,
     <1>21, <1>22, <1>23, <1>24, <1>25, <1>26, <1>27
     DEF HandsetNext, RefreshStep

LEMMA PhoneInvariance ==
  HandsetSpec => []PhoneInv
<1>1. HandsetInit => PhoneInv
  BY PhoneStarts
<1>2. PhoneInv /\ [HandsetNext]_phone => PhoneInv'
  BY PhoneGoesOn
<1>. QED
  BY <1>1, <1>2, PTL DEF HandsetSpec

\* The handset keeps its types, no request waits for a refresh that is over, and an app that is
\* open shows the user whose tokens it holds, unless the session was changed under a task
\* (AuthContext.tsx, and refreshAccessToken in client.ts).
THEOREM HandsetIsSound == HandsetSpec => []HandsetIntegrity
<1>1. PhoneInv => HandsetIntegrity
  <2>1. ASSUME PhoneInv PROVE HandsetTypeOK
    BY <2>1, TypedParts DEF PhoneInv, PhoneKnown
  <2>2. ASSUME PhoneInv, status = "signed-in", ~crossed, entry.at = "idle"
        PROVE  store.refresh # Null /\ owner[store.refresh] = shown
    <3>1. PhoneKnown /\ TasksTakeTurns /\ OneSession
      BY <2>2 DEF PhoneInv, Undisturbed
    <3>2. PICK s \in Users \cup {Null} : SessionOf(s)
      BY <3>1 DEF OneSession
    <3>3. store.refresh # Null /\ store.refresh \in issued
      BY <2>2, <3>1, PairsAreMinted DEF TasksTakeTurns
    <3>. QED
      BY <2>2, <3>2, <3>3 DEF SessionOf
  <2>. QED
    BY <2>1, <2>2 DEF HandsetIntegrity, ShownIsStored
<1>2. HandsetSpec => []PhoneInv
  BY PhoneInvariance
<1>. QED
  BY <1>1, <1>2, PTL

\* After clearSession nothing but a sign-in fills the store or opens the app, not even a restart
\* (logout in AuthContext.tsx).  Excused is a session that has changed under a task that works on
\* it (crossed): a refresh that is answered later does write its tokens back (client.ts:153).
THEOREM SignOutsAreFinal == HandsetSpec => []SignOutIsFinal
<1>1. PhoneInv => SignOutIsFinal
  BY DEF PhoneInv, Undisturbed, SessionIsOver, SignOutIsFinal
<1>2. HandsetSpec => []PhoneInv
  BY PhoneInvariance
<1>. QED
  BY <1>1, <1>2, PTL

\* A sign-out whose unregistering was answered leaves no active row of the user who left
\* (unregisterPush in logout, AuthContext.tsx, and unregister_all_devices on the server).  Excused
\* are a registration of the device or another sign-in under way beside it, and a session that
\* has changed under a task that works on it.
THEOREM SignOutsAreSilent == HandsetSpec => []SilentAfterSignOut
<1>1. PhoneInv => SilentAfterSignOut
  BY DEF PhoneInv, Undisturbed, HeardOut, Silent, SilentAfterSignOut
<1>2. HandsetSpec => []PhoneInv
  BY PhoneInvariance
<1>. QED
  BY <1>1, <1>2, PTL

\* The steps that close an open app without a sign-out: a failed refresh, and a re-check that
\* was refused.
LEMMA WhoThrowsOut ==
  ASSUME PhoneKnown, [HandsetNext]_phone, ThrownOut
  PROVE  \/ exit.at # "idle"
         \/ refresh.at = "failed"
         \/ call[Profile].at = "refused"
<1>. USE DEF ThrownOut
<1>1. CASE Redeem \/ RefuseRefresh \/ LoseRefresh \/ StoreRefresh \/ FinishRefresh
  BY <1>1, RedeemDoes, RejectDoes, StoreRefreshDoes, FinishDoes
<1>2. CASE FailRefresh
  BY <1>2, FailDoes
<1>3. CASE \E c \in Callers : Serve(c) \/ Refuse(c) \/ Lose(c)
  BY <1>3, ServeDoes, RefuseDoes, LoseDoes
<1>4. CASE Expire \/ \E n \in issued : EndElsewhere(n)
  BY <1>4, OutsideDoes
<1>5. CASE ReadSession \/ Decide \/ OpenApp
  <2>1. CASE ReadSession
    BY <2>1, ReadDoes DEF PhoneKnown, BootIsAlone
  <2>2. CASE Decide
    BY <2>2, DecideDoes DEF PhoneKnown, BootIsAlone
  <2>3. CASE OpenApp
    BY <2>3, OpenDoes
  <2>. QED
    BY <1>5, <2>1, <2>2, <2>3
<1>6. CASE \E u \in Users : SignIn(u)
  BY <1>6, SignInDoes
<1>7. CASE Login \/ FailLogin \/ StoreTokens \/ CacheUser \/ ReadBack
  BY <1>7, LoginDoes, FailLoginDoes, StoreDoes, CacheDoes, ReadBackDoes
<1>8. CASE SignOut \/ SendLogout
  BY <1>8, SignOutDoes, SendLogoutDoes
<1>9. CASE Leave
  BY <1>9, LeaveDoes
<1>10. CASE SendRegistration \/ EndRegistration \/ SendRecheck
  BY <1>10, SendRegistrationDoes, EndRegistrationDoes, SendRecheckDoes
<1>11. CASE EndRecheck
  BY <1>11, EndRecheckDoes
<1>12. CASE Restart
  BY <1>12, RestartDoes
<1>13. CASE UNCHANGED phone
  BY <1>13 DEF phone
<1>. QED
  BY <1>1, <1>2, <1>3, <1>4, <1>5, <1>6, <1>7, <1>8, <1>9, <1>10, <1>11, <1>12, <1>13
     DEF HandsetNext, RefreshStep

\* However many requests find their token expired together, an app that is not signing out does
\* not lose its session to its own refreshes: they are shared (refreshInFlight in client.ts), so
\* none of them spends a refresh token that another has spent.  Excepted are a lost answer, a
\* session ended elsewhere, a restart, a session that has changed under a task (crossed), and a
\* refresh that once found no token, whose promise is handed out from then on (client.ts:139).
THEOREM RefreshesKeepTheSession == HandsetSpec => RefreshKeepsSession
<1>1. ASSUME PhoneInv, [HandsetNext]_phone, ThrownOut
      PROVE  exit.at # "idle" \/ faults < MaxFaults \/ crossed \/ refresh.at = "void"
  <2>1. PhoneKnown
    BY <1>1 DEF PhoneInv
  <2>2. CASE ~crossed /\ faults = MaxFaults /\ exit.at = "idle"
    <3>1. SessionGoesOn
      BY <1>1, <2>2 DEF PhoneInv, Undisturbed, SessionLives
    <3>. QED
      BY <1>1, <2>1, <2>2, <3>1, WhoThrowsOut DEF SessionGoesOn
  <2>3. faults \in 0..MaxFaults
    BY <1>1, <2>1, PairsAreMinted
  <2>4. faults = MaxFaults \/ faults < MaxFaults
    BY <1>1, <2>3, HandsetAssumption
  <2>. QED
    BY <2>2, <2>4
<1>2. PhoneInv /\ [HandsetNext]_phone =>
        [ThrownOut => exit.at # "idle" \/ faults < MaxFaults \/ crossed \/ refresh.at = "void"]_phone
  BY <1>1
<1>3. HandsetSpec => []PhoneInv
  BY PhoneInvariance
<1>. QED
  BY <1>2, <1>3, PTL DEF HandsetSpec, RefreshKeepsSession
=============================================================================
