----------------------------- MODULE Reconnect -----------------------------
(***************************************************************************)
(* The database engine of the project (institute_crm/postgresql_backend/   *)
(* base.py): a statement that breaks off with its connection is run once   *)
(* more on a new one, if nothing can have been written.                    *)
(*                                                                         *)
(* A statement is told by its leading keyword, an error by its class and   *)
(* by the messages of its chain of causes, which name a dead connection or *)
(* do not.                                                                 *)
(***************************************************************************)
EXTENDS Naturals, Sequences, FiniteSets

CONSTANT RetryEnabled   \* DB_RETRY_ON_BROKEN_CONNECTION

MAX_RETRIES == 1

\* The keywords of statements that cannot change data, and some of the others; explain, reset,
\* discard and table, which count as reads too, are never sent by the program.
ReadOnly == {"select", "show", "set", "values"}
Keywords == ReadOnly \cup {"insert", "update", "with", "create", "blank"}

\* into: whether the word occurs in it, as in SELECT ... INTO other_table.
Statements == [keyword: Keywords, into: BOOLEAN]
Stmt(keyword) == [keyword |-> keyword, into |-> FALSE]

\* What the server may change when it runs one: a CTE may hold an INSERT.
Writes(s) == s.keyword \in {"insert", "update", "with", "create"} \/ (s.keyword = "select" /\ s.into)

\* An error raised: its class, and whether each message of its causes names a dead connection.
Broken == [operational |-> TRUE, chain |-> <<FALSE, TRUE>>]

is_transient_failure(e) == \E i \in DOMAIN e.chain : e.chain[i]

is_replayable(s) == s.keyword \in ReadOnly /\ ~s.into

\* Fault: every statement is taken for a read.
RetryAnything(atomic, s, e) ==
  MAX_RETRIES >= 1 /\ RetryEnabled /\ e.operational /\ ~atomic /\ is_transient_failure(e)

should_retry(atomic, s, e) ==
  /\ MAX_RETRIES >= 1 /\ RetryEnabled
  /\ e.operational
  /\ ~atomic
  /\ is_transient_failure(e)
  /\ is_replayable(s)

\* How an attempt at a statement ends: whether the server ran it, and the error raised if there
\* was one.  A connection may break before the statement or after it.
Done == [ran |-> TRUE, error |-> <<>>]
BreaksOff(ran, e) == [ran |-> ran, error |-> <<e>>]

\* _execute and _executemany: the attempts made, out of the two the connection has in store.
Execute(atomic, s, first, second) ==
  IF first.error # <<>> /\ should_retry(atomic, s, first.error[1])
  THEN <<first, second>>
  ELSE <<first>>

\* How often the server ran it.
Runs(attempts) == Cardinality({i \in DOMAIN attempts : attempts[i].ran})
=============================================================================
