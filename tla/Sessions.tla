------------------------------ MODULE Sessions ------------------------------
(***************************************************************************)
(* Refresh tokens and the tables that let them be revoked                  *)
(* (accounts/services/auth_service.py, institute_crm/token_revocation.py   *)
(* and the boot hook of wsgi.py).                                          *)
(*                                                                         *)
(* A process repairs the missing tables when it boots, under an advisory   *)
(* lock of the database; the first request that needs the answer asks      *)
(* whether revocation is usable and the process keeps the answer for life. *)
(* A login, a refresh or a logout works with the class that answer picks.  *)
(* Requests run in threads, outside any transaction, one statement at a    *)
(* time; a connection may break, the database may become unreachable and a *)
(* process may die between any two of them.                                *)
(***************************************************************************)
EXTENDS Naturals, FiniteSets, Reconnect

CONSTANTS
  Processes,
  Threads,
  Home,         \* the process a thread belongs to
  MaxTokens,    \* bound on the refresh tokens minted
  MaxOutages,   \* bound on the times the database goes away or a connection breaks
  MaxDeaths,    \* bound on the processes that die
  None

ASSUME ConstantsAssumption ==
  /\ Home \in [Threads -> Processes]
  /\ MaxTokens \in Nat /\ MaxOutages \in Nat /\ MaxDeaths \in Nat
  /\ IsFiniteSet(Threads)
  /\ None \notin Processes \cup Nat

\* Refresh tokens (jti), in the order they are minted.
Tokens == 1..MaxTokens

\* The token_blacklist tables: created by a deploy or by a worker, missing, or missing and
\* not to be created by the service's database user.
Schemas == {"deployed", "repaired", "missing", "forbidden"}
Answers == {"unknown", "yes", "no"}
Phases == {"down", "probe", "lock", "plan", "apply", "recheck", "up"}
Operations == {"login", "refresh", "logout"}

\* What a thread works on: class is the answer its token class was picked by, afresh whether
\* the token had not been spent when the request came in.
Request ==
  [op: Operations, token: Tokens \cup {None}, class: Answers, verified: BOOLEAN, afresh: BOOLEAN]

VARIABLES
  schema,      \* the token_blacklist tables
  reachable,
  lock,        \* the process that holds the advisory lock
  boot,        \* where each process is in its boot
  cache,       \* _usable_cache of each process
  minted,      \* how many tokens have been minted
  blacklist,   \* the rows of BlacklistedToken
  thread,      \* the request of each thread
  budget,      \* the outages and deaths still to come
  guessed,     \* history: the processes that asked while the database was unreachable
  spent,       \* history: the tokens a refresh was answered for, or that were logged out
  unrecorded,  \* history: those a request spent without leaving a row
  late,        \* history: the tokens redeemed by a request that came in after they were spent
  slipped,     \* history: the processes whose migration went on without its lock
  doubled,     \* history: whether a statement that writes has been run twice
  collided     \* history: whether a migration found tables of another worker

database == <<schema, reachable>>
booting == <<lock, boot>>
session == <<minted, blacklist, spent, unrecorded, late>>
vars == <<schema, reachable, lock, boot, cache, minted, blacklist, thread, budget,
          guessed, spent, unrecorded, late, slipped, doubled, collided>>

tables == schema \in {"deployed", "repaired"}

Init ==
  /\ schema \in Schemas \ {"repaired"}
  /\ reachable = TRUE
  /\ lock = None
  /\ boot = [p \in Processes |-> "down"]
  /\ cache = [p \in Processes |-> "unknown"]
  /\ minted = 0 /\ blacklist = {}
  /\ thread = [t \in Threads |-> None]
  /\ budget = [outages |-> MaxOutages, deaths |-> MaxDeaths]
  /\ guessed = {}
  /\ spent = {} /\ unrecorded = {} /\ late = {}
  /\ slipped = {} /\ doubled = FALSE /\ collided = FALSE

-----------------------------------------------------------------------------
(* The boot of a process: repair_missing_tables.                            *)

Booting(p, from, to) == boot[p] = from /\ boot' = [boot EXCEPT ![p] = to]

\* pg_advisory_unlock, or the end of the session that holds the lock.
Released(p) == IF lock = p THEN None ELSE lock

StartProcess(p) ==
  /\ Booting(p, "down", "probe")
  /\ UNCHANGED <<database, lock, cache, session, thread, budget, guessed, slipped, doubled, collided>>

\* missing_tables: "cannot tell" and "nothing missing" both let the worker serve.
ProbeAtBoot(p) ==
  /\ Booting(p, "probe", IF reachable /\ ~tables THEN "lock" ELSE "up")
  /\ UNCHANGED <<database, lock, cache, session, thread, budget, guessed, slipped, doubled, collided>>

\* Fault: the advisory lock is not asked for.
SkipLock(p) ==
  /\ Booting(p, "lock", "plan")
  /\ reachable
  /\ lock' = p
  /\ UNCHANGED <<database, cache, session, thread, budget, guessed, slipped, doubled, collided>>

\* pg_advisory_lock waits for the session that holds it.
TakeLock(p) ==
  /\ Booting(p, "lock", "plan")
  /\ reachable
  /\ lock = None
  /\ lock' = p
  /\ UNCHANGED <<database, cache, session, thread, budget, guessed, slipped, doubled, collided>>

\* migrate reads which migrations have been applied ...
PlanMigration(p) ==
  /\ Booting(p, "plan", IF tables THEN "recheck" ELSE "apply")
  /\ reachable
  /\ lock' = IF tables THEN Released(p) ELSE lock
  /\ UNCHANGED <<database, cache, session, thread, budget, guessed, slipped, doubled, collided>>

\* Fault: a migration that fails keeps the lock.
ApplyKeepsLock(p) ==
  /\ Booting(p, "apply", "recheck")
  /\ reachable
  /\ collided' = (collided \/ schema = "repaired")
  /\ schema' = IF schema = "missing" THEN "repaired" ELSE schema
  /\ lock' = IF schema = "forbidden" THEN lock ELSE Released(p)
  /\ UNCHANGED <<reachable, cache, session, thread, budget, guessed, slipped, doubled>>

\* ... and applies the missing one, in a transaction; an error is logged, and the lock is
\* released either way.
ApplyMigration(p) ==
  /\ Booting(p, "apply", "recheck")
  /\ reachable
  /\ collided' = (collided \/ schema = "repaired")
  /\ schema' = IF schema = "missing" THEN "repaired" ELSE schema
  /\ lock' = Released(p)
  /\ UNCHANGED <<reachable, cache, session, thread, budget, guessed, slipped, doubled>>

\* Whatever the second probe says the worker serves; if it finds nothing missing the
\* cached answer is forgotten.
Recheck(p) ==
  /\ Booting(p, "recheck", "up")
  /\ cache' = [cache EXCEPT ![p] = IF reachable /\ ~tables THEN @ ELSE "unknown"]
  /\ UNCHANGED <<database, lock, session, thread, budget, guessed, slipped, doubled, collided>>

BootStep(p) ==
  \/ ProbeAtBoot(p) \/ TakeLock(p) \/ PlanMigration(p) \/ ApplyMigration(p) \/ Recheck(p)

-----------------------------------------------------------------------------
(* What the environment does.                                               *)

InSession == {"lock", "plan", "apply"}

\* The sessions of the database end, their locks with them: the statement a booting process
\* waits for raises, and the process goes on to its second probe.
Outage ==
  /\ reachable
  /\ budget.outages > 0
  /\ reachable' = FALSE
  /\ lock' = None
  /\ boot' = [p \in Processes |-> IF boot[p] \in InSession THEN "recheck" ELSE boot[p]]
  /\ budget' = [budget EXCEPT !.outages = @ - 1]
  /\ UNCHANGED <<schema, cache, session, thread, guessed, slipped, doubled, collided>>

Recovery ==
  /\ ~reachable
  /\ reachable' = TRUE
  /\ UNCHANGED <<schema, booting, cache, session, thread, budget, guessed, slipped, doubled, collided>>

Breaking == reachable /\ budget.outages > 0 /\ budget' = [budget EXCEPT !.outages = @ - 1]

\* The connection of a booting process breaks, and its lock is gone: a read of migrate is run
\* again on a new connection as if nothing had happened, the transaction that applies the
\* migration raises.
BreakBoot(p) ==
  /\ Breaking
  /\ \/ /\ boot[p] = "plan" /\ should_retry(FALSE, Stmt("select"), Broken)
        /\ slipped' = slipped \cup {p} /\ UNCHANGED boot
     \/ /\ boot[p] = "apply" /\ ~should_retry(TRUE, Stmt("create"), Broken)
        /\ boot' = [boot EXCEPT ![p] = "recheck"] /\ UNCHANGED slipped
  /\ lock' = Released(p)
  /\ UNCHANGED <<database, cache, session, thread, guessed, doubled, collided>>

\* A worker is killed, or recycled: its memory and its database session go with it.
Die(p) ==
  /\ boot[p] # "down"
  /\ budget.deaths > 0
  /\ boot' = [boot EXCEPT ![p] = "down"]
  /\ lock' = Released(p)
  /\ cache' = [cache EXCEPT ![p] = "unknown"]
  /\ thread' = [t \in Threads |-> IF Home[t] = p THEN None ELSE thread[t]]
  /\ budget' = [budget EXCEPT !.deaths = @ - 1]
  /\ guessed' = guessed \ {p}
  /\ UNCHANGED <<database, session, slipped, doubled, collided>>

\* The migrate of build.sh, or the one an operator runs because the log asks for it: it takes
\* no lock.
Deploy ==
  /\ reachable
  /\ ~tables
  /\ schema' = "deployed"
  /\ UNCHANGED <<reachable, booting, cache, session, thread, budget, guessed, slipped, doubled, collided>>

-----------------------------------------------------------------------------
(* Requests.                                                                *)

Arrive(t, op, k) ==
  /\ thread[t] = None
  /\ boot[Home[t]] = "up"
  /\ thread' = [thread EXCEPT ![t] = [op |-> op, token |-> k, class |-> "unknown",
                                      verified |-> FALSE, afresh |-> k \notin spent]]
  /\ UNCHANGED <<database, booting, cache, session, budget, guessed, slipped, doubled, collided>>

\* The requests under way that may mint a token stay within the bound.
MayMint == minted + Cardinality({t \in Threads : thread[t] # None}) < MaxTokens

\* login: the credentials have been found good, so the database was there a moment ago.
ArriveLogin(t) == reachable /\ MayMint /\ Arrive(t, "login", None)

\* refresh_tokens: no statement has run yet.
ArriveRefresh(t) == MayMint /\ \E k \in 1..minted : Arrive(t, "refresh", k)

\* logout: the user of the access token has been loaded.
ArriveLogout(t) == reachable /\ \E k \in 1..minted : Arrive(t, "logout", k)

\* Fault: the tables are taken to be there.
AnswerYes == "yes"

\* missing is None or not missing
Answer == IF reachable /\ ~tables THEN "no" ELSE "yes"

\* usable(): the class of the token, by the process's answer or by the first probe.
PickClass(t) ==
  LET p == Home[t]
      answer == IF cache[p] = "unknown" THEN Answer ELSE cache[p]
  IN
  /\ thread[t] # None
  /\ thread[t].class = "unknown"
  /\ cache' = [cache EXCEPT ![p] = answer]
  /\ thread' = [thread EXCEPT ![t].class = answer]
  /\ guessed' = IF cache[p] = "unknown" /\ ~reachable THEN guessed \cup {p} ELSE guessed
  /\ UNCHANGED <<database, booting, session, budget, slipped, doubled, collided>>

Working(t, op) == thread[t] # None /\ thread[t].op = op /\ thread[t].class # "unknown"

Respond(t) == thread' = [thread EXCEPT ![t] = None]

\* A statement on the tables succeeds.
Recording(t) == thread[t].class = "yes" /\ reachable /\ tables

\* RefreshToken.for_user records the token; Token.for_user writes nothing.
MintAtLogin(t) ==
  /\ Working(t, "login")
  /\ Recording(t) \/ thread[t].class = "no"
  /\ minted' = minted + 1
  /\ Respond(t)
  /\ UNCHANGED <<database, booting, cache, blacklist, spent, unrecorded, late,
                 budget, guessed, slipped, doubled, collided>>

\* A statement on the tables raises: the answer is a 500.
FailRequest(t) ==
  /\ Working(t, "login") \/ Working(t, "refresh")
  /\ thread[t].class = "yes" /\ ~(reachable /\ tables)
  /\ Respond(t)
  /\ UNCHANGED <<database, booting, cache, session, budget, guessed, slipped, doubled, collided>>

\* token_class(attrs["refresh"]) looks the token up in the blacklist, if it is that class.
VerifyRefresh(t) ==
  /\ Working(t, "refresh")
  /\ ~thread[t].verified
  /\ \/ Recording(t) /\ thread[t].token \notin blacklist
     \/ thread[t].class = "no"
  /\ thread' = [thread EXCEPT ![t].verified = TRUE]
  /\ UNCHANGED <<database, booting, cache, session, budget, guessed, slipped, doubled, collided>>

\* TokenError, answered with 401.
RejectRefresh(t) ==
  /\ Working(t, "refresh")
  /\ ~thread[t].verified
  /\ Recording(t) /\ thread[t].token \in blacklist
  /\ Respond(t)
  /\ UNCHANGED <<database, booting, cache, session, budget, guessed, slipped, doubled, collided>>

\* The token leaves the client's hands; recorded tells whether a row says so.
Spend(k, recorded) ==
  /\ blacklist' = IF recorded THEN blacklist \cup {k} ELSE blacklist
  /\ unrecorded' = IF recorded THEN unrecorded ELSE unrecorded \cup {k}
  /\ spent' = spent \cup {k}

\* Fault: the superseded token is not retired.
RotateOnly(t) ==
  LET k == thread[t].token IN
  /\ Working(t, "refresh") /\ thread[t].verified
  /\ Recording(t) \/ thread[t].class = "no"
  /\ spent' = spent \cup {k}
  /\ late' = IF thread[t].afresh THEN late ELSE late \cup {k}
  /\ minted' = minted + 1
  /\ Respond(t)
  /\ UNCHANGED <<database, booting, cache, blacklist, unrecorded, budget, guessed, slipped, doubled, collided>>

\* blacklist(), then a new jti for the token that is sent back.
Rotate(t) ==
  LET k == thread[t].token IN
  /\ Working(t, "refresh") /\ thread[t].verified
  /\ Recording(t) \/ thread[t].class = "no"
  /\ Spend(k, thread[t].class = "yes")
  /\ late' = IF thread[t].afresh THEN late ELSE late \cup {k}
  /\ minted' = minted + 1
  /\ Respond(t)
  /\ UNCHANGED <<database, booting, cache, budget, guessed, slipped, doubled, collided>>

\* Whatever the blacklisting raises, the user is told the session is over.
Logout(t) ==
  /\ Working(t, "logout")
  /\ Spend(thread[t].token, Recording(t))
  /\ Respond(t)
  /\ UNCHANGED <<database, booting, cache, minted, late, budget, guessed, slipped, doubled, collided>>

\* The connection breaks in a statement that writes, which may have taken effect: a login and
\* a refresh are answered 500, a logout as ever.  Reads are run again.
BreakRequest(t) ==
  /\ Breaking
  /\ thread[t] # None /\ thread[t].class = "yes" /\ Recording(t)
  /\ thread[t].op = "refresh" => thread[t].verified
  /\ \E s \in Statements, applied \in BOOLEAN :
       LET attempts == Execute(FALSE, s, BreaksOff(applied, Broken), Done) IN
       /\ Writes(s)
       /\ doubled' = (doubled \/ Runs(attempts) > 1)
       /\ IF thread[t].op = "logout" \/ (thread[t].op = "refresh" /\ applied)
          THEN Spend(thread[t].token, applied)
          ELSE UNCHANGED <<blacklist, unrecorded, spent>>
  /\ Respond(t)
  /\ UNCHANGED <<database, booting, cache, minted, late, guessed, slipped, collided>>

RequestStep(t) ==
  \/ PickClass(t) \/ MintAtLogin(t) \/ FailRequest(t)
  \/ VerifyRefresh(t) \/ RejectRefresh(t) \/ Rotate(t) \/ Logout(t)

Next ==
  \/ \E p \in Processes : StartProcess(p) \/ BootStep(p) \/ BreakBoot(p) \/ Die(p)
  \/ Outage \/ Recovery \/ Deploy
  \/ \E t \in Threads :
       ArriveLogin(t) \/ ArriveRefresh(t) \/ ArriveLogout(t) \/ RequestStep(t) \/ BreakRequest(t)

Spec == Init /\ [][Next]_vars

\* A process that runs gets on with its boot, and an outage ends: the boot's statements
\* return or raise.
Fairness == WF_vars(Recovery) /\ \A p \in Processes : WF_vars(BootStep(p))

FairSpec == Spec /\ Fairness

-----------------------------------------------------------------------------
\* Types of the state; the advisory lock is held by a process that is migrating.
TypeOK ==
  /\ schema \in Schemas /\ reachable \in BOOLEAN
  /\ lock \in Processes \cup {None}
  /\ boot \in [Processes -> Phases]
  /\ lock # None => boot[lock] \in {"plan", "apply"}
  /\ cache \in [Processes -> Answers]
  /\ thread \in [Threads -> Request \cup {None}]
  /\ budget \in [outages: 0..MaxOutages, deaths: 0..MaxDeaths]
  /\ minted \in 0..MaxTokens /\ spent \subseteq 1..minted
  /\ blacklist \cup unrecorded \cup late \subseteq spent
  /\ guessed \cup slipped \subseteq Processes /\ {doubled, collided} \subseteq BOOLEAN

\* auth_service.py:65 "a missing table should cost revocability, never access": a process
\* works with the tables that are not there, and answers 500 for it, only if it asked for
\* them while the database was unreachable.
TrustNeedsEvidence ==
  \A p \in Processes : cache[p] = "yes" /\ ~tables => p \in guessed

\* tests_session.py:76 "The superseded token must be dead": a token whose refresh or logout
\* has been answered is redeemed by a later request only if one of its uses left no row.  That
\* is so of a use while the database was away, and of every use by a process that has once
\* answered "no": it keeps that answer for life, and neither looks a token up nor records one
\* even when a deploy or another worker has created the tables since.  Processes that ask a
\* migrated database which answers do not redeem a token twice, one request after the other.
SpentStaysSpent == late \subseteq unrecorded

\* token_revocation.py:126 "two workers reaching the same unmigrated database would race on
\* CREATE TABLE": a worker's migration never finds the tables another worker has created
\* since it looked, unless a migration has gone on after its connection was replaced.
MigrationsTakeTurns == collided => slipped # {}

\* base.py:92 "the failure mode of getting it wrong is a duplicated write": a statement that
\* writes is not run twice when its connection breaks.
WritesRunOnce == ~doubled

\* A worker that boots ends up serving, unless it dies: neither a refused migration nor a
\* dead holder of the lock keeps the others waiting.
BootEnds == \A p \in Processes : boot[p] = "probe" ~> boot[p] \in {"up", "down"}

=============================================================================
