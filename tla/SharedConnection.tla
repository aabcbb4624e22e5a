-------------------------- MODULE SharedConnection --------------------------
(***************************************************************************)
(* The sessions of the Streamlit app, each in a thread of its own, on the  *)
(* one connection st.cache_resource gives all of them: the look-up, save   *)
(* and get_run of a reconciliation, statement by statement.                *)
(*                                                                         *)
(* Both stores run one statement of a connection at a time.  DuckDB keeps  *)
(* the result of the last one on the connection, where fetchone reads it,  *)
(* and refuses a BEGIN within a transaction; PostgresConnection gives each *)
(* statement a cursor of its own, and Postgres takes such a BEGIN with a   *)
(* warning.  The audit log (module AuditLog) is left out.                  *)
(***************************************************************************)
EXTENDS Naturals, FiniteSets

CONSTANTS
  Sessions,
  Datasets,        \* dataset and parameters, what a key is derived from
  ExceptionCount   \* the exceptions of a run on a dataset

ASSUME SharedAssumption == ExceptionCount \in [Datasets -> Nat]

VARIABLES
  backend,    \* "duckdb" or "postgres"
  dataset,    \* what each session reconciles
  phase, next,
  run,        \* the run a session is about to show, a session stands for its own
  tx,         \* the transaction on the connection: "none", "open" or "aborted"
  buffered,   \* the rows inserted in it
  rows,       \* committed rows: row 0 is the one in runs, the others exceptions
  result,     \* DuckDB: what the next fetchone reads
  overlapped  \* history: the sessions that were saving while another was

vars == <<backend, dataset, phase, next, run, tx, buffered, rows, result, overlapped>>

Phases == {"look_up", "fetch_key", "begin", "insert", "rollback", "show", "fetch_run",
           "shown", "type_error", "failed"}
Saving == {"insert", "rollback"}

NoRow == [of |-> "none"]
KeyRow(r) == [of |-> "runs.run_id", run |-> r]
RunRow(r) == [of |-> "runs", run |-> r]
CountRow == [of |-> "insert"]
ResultRows ==
  {NoRow, CountRow} \cup {KeyRow(r) : r \in Sessions} \cup {RunRow(r) : r \in Sessions}

Row(s, n) == [run |-> s, n |-> n]
Count(s) == ExceptionCount[dataset[s]]

Init ==
  /\ backend \in {"duckdb", "postgres"}
  /\ dataset \in [Sessions -> Datasets]
  /\ phase = [s \in Sessions |-> "look_up"]
  /\ next = [s \in Sessions |-> 0]
  /\ run = [s \in Sessions |-> s]
  /\ tx = "none"
  /\ buffered = {} /\ rows = {}
  /\ result = [s \in Sessions |-> NoRow]
  /\ overlapped = {}

Goto(s, to) == phase' = [phase EXCEPT ![s] = to]

\* The connection sees the rows of its own transaction.
StoredRuns == {row.run : row \in {r \in rows \cup buffered : r.n = 0}}

\* Where a statement of s leaves its result.
Result(s, value) ==
  result' = [t \in Sessions |-> IF t = s \/ backend = "duckdb" THEN value ELSE result[t]]

\* fetchone takes the row from where it lies.
Taken(s) == Result(s, NoRow)

\* Any statement but ROLLBACK and COMMIT raises in a transaction that failed.
Refused(s) ==
  /\ tx = "aborted"
  /\ UNCHANGED <<backend, dataset, next, run, tx, buffered, rows, result, overlapped>>

-----------------------------------------------------------------------------
\* find_run_by_idempotency_key
LookUp(s) ==
  /\ phase[s] = "look_up"
  /\ \/ Refused(s) /\ Goto(s, "failed")
     \/ /\ tx # "aborted"
        /\ LET found == {r \in StoredRuns : dataset[r] = dataset[s]}
           IN  IF found = {} THEN Result(s, NoRow) ELSE \E r \in found : Result(s, KeyRow(r))
        /\ Goto(s, "fetch_key")
        /\ UNCHANGED <<backend, dataset, next, run, tx, buffered, rows, overlapped>>

\* row[0] if row else None, where the row may be one of another statement; a run_id
\* that is a count of rows is no run's.
FetchKey(s) ==
  /\ phase[s] = "fetch_key"
  /\ LET row == result[s]
     IN  CASE row = NoRow -> Goto(s, "begin") /\ UNCHANGED run
           [] row = CountRow -> Goto(s, "type_error") /\ UNCHANGED run
           [] OTHER -> Goto(s, "show") /\ run' = [run EXCEPT ![s] = row.run]
  /\ Taken(s)
  /\ UNCHANGED <<backend, dataset, next, tx, buffered, rows, overlapped>>

\* BEGIN stands before the try: when it raises there is no ROLLBACK.
Begin(s) ==
  /\ phase[s] = "begin"
  /\ \/ Refused(s) /\ Goto(s, "failed")
     \/ /\ tx = "open" /\ backend = "duckdb"
        /\ Goto(s, "failed")
        /\ UNCHANGED <<backend, dataset, next, run, tx, buffered, rows, result, overlapped>>
     \/ /\ tx = "none" \/ (tx = "open" /\ backend = "postgres")
        /\ tx' = "open"
        /\ Result(s, NoRow)
        /\ Goto(s, "insert")
        /\ LET others == {t \in Sessions \ {s} : phase[t] \in Saving}
           IN  overlapped' = IF others = {} THEN overlapped ELSE overlapped \cup others \cup {s}
        /\ UNCHANGED <<backend, dataset, next, run, buffered, rows>>

\* Mutant: every INSERT commits by itself.
InsertAutocommitted(s) ==
  /\ phase[s] = "insert" /\ next[s] <= Count(s)
  /\ rows' = rows \cup {Row(s, next[s])}
  /\ next' = [next EXCEPT ![s] = @ + 1]
  /\ Result(s, CountRow)
  /\ UNCHANGED <<backend, dataset, phase, run, tx, buffered, overlapped>>

\* An INSERT outside a transaction, one that another session ended, commits by
\* itself.
Insert(s) ==
  /\ phase[s] = "insert" /\ next[s] <= Count(s)
  /\ \/ Refused(s) /\ Goto(s, "rollback")
     \/ /\ tx # "aborted"
        /\ IF tx = "open"
             THEN buffered' = buffered \cup {Row(s, next[s])} /\ UNCHANGED rows
             ELSE rows' = rows \cup {Row(s, next[s])} /\ UNCHANGED buffered
        /\ next' = [next EXCEPT ![s] = @ + 1]
        /\ Result(s, CountRow)
        /\ UNCHANGED <<backend, dataset, phase, run, tx, overlapped>>

\* An INSERT raises, in Python or in the store, where it fails the transaction.
FailInsert(s) ==
  /\ phase[s] = "insert" /\ next[s] <= Count(s)
  /\ Goto(s, "rollback")
  /\ tx' \in {tx, IF tx = "none" THEN "none" ELSE "aborted"}
  /\ UNCHANGED <<backend, dataset, next, run, buffered, rows, result, overlapped>>

\* Mutant: save_run lets the exception pass.
RollbackSkipped(s) ==
  /\ phase[s] = "rollback"
  /\ Goto(s, "failed")
  /\ UNCHANGED <<backend, dataset, next, run, tx, buffered, rows, result, overlapped>>

Rollback(s) ==
  /\ phase[s] = "rollback"
  /\ tx' = "none" /\ buffered' = {}
  /\ Result(s, NoRow)
  /\ Goto(s, "failed")
  /\ UNCHANGED <<backend, dataset, next, run, rows, overlapped>>

\* COMMIT: of what is buffered, whoever inserted it; or in vain, where Postgres
\* takes it for a ROLLBACK, or warns, and DuckDB raises; or it fails by itself.
Commit(s) ==
  /\ phase[s] = "insert" /\ next[s] > Count(s)
  /\ \/ /\ rows' = IF tx = "open" THEN rows \cup buffered ELSE rows
        /\ Goto(s, IF tx = "open" \/ backend = "postgres" THEN "show" ELSE "failed")
     \/ /\ tx = "open"
        /\ Goto(s, "failed")
        /\ UNCHANGED rows
  /\ tx' = "none" /\ buffered' = {}
  /\ Result(s, NoRow)
  /\ UNCHANGED <<backend, dataset, next, run, overlapped>>

\* get_run
SelectRun(s) ==
  /\ phase[s] = "show"
  /\ \/ Refused(s) /\ Goto(s, "failed")
     \/ /\ tx # "aborted"
        /\ Result(s, IF run[s] \in StoredRuns THEN RunRow(run[s]) ELSE NoRow)
        /\ Goto(s, "fetch_run")
        /\ UNCHANGED <<backend, dataset, next, run, tx, buffered, rows, overlapped>>

\* The row of another statement lacks the columns get_run and the page need, or is
\* that of another run.
FetchRun(s) ==
  /\ phase[s] = "fetch_run"
  /\ LET row == result[s]
     IN  CASE row = NoRow -> Goto(s, "type_error") /\ UNCHANGED run
           [] row.of = "runs" -> Goto(s, "shown") /\ run' = [run EXCEPT ![s] = row.run]
           [] OTHER -> Goto(s, "failed") /\ UNCHANGED run
  /\ Taken(s)
  /\ UNCHANGED <<backend, dataset, next, tx, buffered, rows, overlapped>>

Next ==
  \E s \in Sessions :
     \/ LookUp(s) \/ FetchKey(s)
     \/ Begin(s) \/ Insert(s) \/ FailInsert(s) \/ Rollback(s) \/ Commit(s)
     \/ SelectRun(s) \/ FetchRun(s)

Spec == Init /\ [][Next]_vars

-----------------------------------------------------------------------------
StoredPart(s) == {row.n : row \in {r \in rows : r.run = s}}
Whole(s) == StoredPart(s) \in {{}, 0..Count(s)}

\* A run is stored whole or not at all unless, on Postgres, another session was
\* saving meanwhile: DuckDB, which refuses a second BEGIN, keeps one save from
\* running into another although they share a connection.  (backend/db.py:149 says of
\* save_run that it writes a run "as one atomic transaction".)
WholeUnlessOverlapped ==
  \A s \in Sessions : backend = "duckdb" \/ s \notin overlapped => Whole(s)

\* The connection is never left with a transaction no session is going to end: one
\* that fails does not take the app down for the sessions after it.
TransactionHasOwner == tx # "none" => \E s \in Sessions : phase[s] \in Saving
=============================================================================
