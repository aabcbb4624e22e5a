-------------------------- MODULE ReconcileService --------------------------
(***************************************************************************)
(* A reconciliation from request to answer: backend/routes.py, do_reconcile,*)
(* and the Streamlit app's call of reconcile, over the run store of        *)
(* backend/db.py and the audit log of module AuditLog.                     *)
(*                                                                         *)
(* The writers of the log are the requests.  A request runs in a thread of *)
(* its own with a connection of its own; uuid4 gives its run an id no other*)
(* run has, here the request itself.  run_pipeline (module Pipeline) comes *)
(* in as the number of exceptions it finds, or as a failure.  The rows of  *)
(* matches and bridges are inserted as the exceptions are and left out.    *)
(***************************************************************************)
EXTENDS AuditLog, FiniteSets

CONSTANTS
  Tenants,         \* labels of API keys
  NoTenant,        \* the Streamlit app
  Payloads,        \* dataset, use_llm and fuzzy_threshold
  Keys,            \* Idempotency-Key headers
  NoKey,
  ExceptionCount,  \* the exceptions a run on a payload records
  MaxCrashes       \* bound on the crashes of a process

ASSUME ServiceAssumption ==
  /\ NoTenant \notin Tenants
  /\ NoKey \notin Keys
  /\ Payloads # {}
  /\ ExceptionCount \in [Payloads -> Nat]
  /\ MaxCrashes \in Nat

VARIABLES
  request,   \* what is asked and how far it has come, see NewRequest
  rows,      \* committed rows: row 0 is the one in runs, the others exceptions
  pending,   \* the rows of each request's open transaction
  seen,      \* history: the runs committed when a request looked for its key
  crashes

serviceVars == <<request, rows, pending, seen, crashes>>
vars == <<serviceVars, logVars>>

NewRequest ==
  [state |-> "new", tenant |-> NoTenant, payload |-> CHOOSE p \in Payloads : TRUE,
   header |-> NoKey, run_id |-> "none", next |-> 0, stored |-> FALSE]

States == {"new", "lookup", "compute", "audit", "begin", "insert", "respond", "log",
           "answered", "failed", "type_error", "lost"}
Ended == {"answered", "failed", "type_error", "lost"}

At(w, state) == request[w].state = state
InFlight(w) == request[w].state \notin {"new"} \cup Ended

\* compute_idempotency_key
Key(w) ==
  IF request[w].header # NoKey THEN <<"header", request[w].header>>
  ELSE <<"derived", request[w].payload, request[w].tenant>>

Count(w) == ExceptionCount[request[w].payload]
Row(run, n) == [run_id |-> run, n |-> n]
CommittedRuns == {row.run_id : row \in {r \in rows : r.n = 0}}

Decision(run, n) == [about |-> "decision", run_id |-> run, n |-> n]
Reconciled(run) == [about |-> "reconcile", run_id |-> run, n |-> 0]

Init ==
  /\ InitLog
  /\ request = [w \in Writers |-> NewRequest]
  /\ rows = {}
  /\ pending = [w \in Writers |-> {}]
  /\ seen = [w \in Writers |-> {}]
  /\ crashes = 0

Goto(w, state) == request' = [request EXCEPT ![w].state = state]

\* An Idempotency-Key comes with the API only; the Streamlit app, whose sessions
\* share a connection, is one request at a time here.
Receive(w) ==
  /\ At(w, "new")
  /\ \E tenant \in Tenants \cup {NoTenant}, payload \in Payloads, header \in Keys \cup {NoKey} :
        /\ tenant = NoTenant =>
             /\ header = NoKey
             /\ \A v \in Writers : InFlight(v) => request[v].tenant # NoTenant
        /\ request' = [request EXCEPT ![w] =
             [@ EXCEPT !.state = "lookup", !.tenant = tenant, !.payload = payload,
                       !.header = header]]
  /\ UNCHANGED <<rows, pending, seen, crashes, logVars>>

-----------------------------------------------------------------------------
\* Mutants: no tenant filter; "tenant_id = NULL" finds nothing.
MatchingOfAnyTenant(w) == {v \in CommittedRuns : Key(v) = Key(w)}
MatchingNullAsEqual(w) ==
  {v \in CommittedRuns :
     Key(v) = Key(w) /\ request[v].tenant = request[w].tenant /\ request[w].tenant # NoTenant}

\* find_run_by_idempotency_key, before its LIMIT 1.
Matching(w) ==
  {v \in CommittedRuns : Key(v) = Key(w) /\ request[v].tenant = request[w].tenant}

LookUp(w) ==
  /\ At(w, "lookup")
  /\ IF Matching(w) = {}
       THEN Goto(w, "compute")
       ELSE \E run \in Matching(w) :
              request' = [request EXCEPT ![w].state = "respond", ![w].run_id = run]
  /\ seen' = [seen EXCEPT ![w] = CommittedRuns]
  /\ UNCHANGED <<rows, pending, crashes, logVars>>

\* Mutant: the decisions are recorded after the run is saved, that is not at all
\* if the process dies in between.
ComputeAuditLater(w) ==
  /\ At(w, "compute")
  /\ request' = [request EXCEPT ![w].state = "begin", ![w].run_id = w, ![w].next = 0]
  /\ UNCHANGED <<rows, pending, seen, crashes, logVars>>

\* The dataset is unknown or unreadable, or the pipeline or the model raises; or
\* there is a result, with a fresh run_id.
Compute(w) ==
  /\ At(w, "compute")
  /\ \/ Goto(w, "failed")
     \/ request' = [request EXCEPT ![w].state = "audit", ![w].run_id = w, ![w].next = 0]
  /\ UNCHANGED <<rows, pending, seen, crashes, logVars>>

\* The next event the request has to append: record_pipeline_decisions appends
\* the summary and one event per exception, do_reconcile its own.
NextEvent(w) ==
  IF At(w, "audit") THEN Decision(w, request[w].next) ELSE Reconciled(request[w].run_id)

BeginAppend(w) ==
  /\ At(w, "audit") \/ At(w, "log")
  /\ ReadLast(w, NextEvent(w))
  /\ UNCHANGED serviceVars

EndAppend(w) ==
  /\ At(w, "audit") \/ At(w, "log")
  /\ WriteRecord(w)
  /\ request' = [request EXCEPT ![w] =
       IF At(w, "log")
         THEN [@ EXCEPT !.state = IF request[w].stored THEN "answered" ELSE "type_error"]
       ELSE IF @.next < Count(w) THEN [@ EXCEPT !.next = request[w].next + 1]
       ELSE [@ EXCEPT !.state = "begin"]]
  /\ UNCHANGED <<rows, pending, seen, crashes>>

\* An append that fails fails the request.
TornAppend(w) ==
  /\ At(w, "audit") \/ At(w, "log")
  /\ Tear(w)
  /\ Goto(w, "failed")
  /\ UNCHANGED <<rows, pending, seen, crashes>>

-----------------------------------------------------------------------------
Begin(w) ==
  /\ At(w, "begin")
  /\ request' = [request EXCEPT ![w].state = "insert", ![w].next = 0]
  /\ UNCHANGED <<rows, pending, seen, crashes, logVars>>

\* Mutants: one row too many; without BEGIN every INSERT commits by itself.
InsertOneMore(w) ==
  /\ At(w, "insert") /\ request[w].next <= Count(w) + 1
  /\ pending' = [pending EXCEPT ![w] = @ \cup {Row(w, request[w].next)}]
  /\ request' = [request EXCEPT ![w].next = @ + 1]
  /\ UNCHANGED <<rows, seen, crashes, logVars>>

InsertAutocommitted(w) ==
  /\ At(w, "insert") /\ request[w].next <= Count(w)
  /\ rows' = rows \cup {Row(w, request[w].next)}
  /\ request' = [request EXCEPT ![w].next = @ + 1]
  /\ UNCHANGED <<pending, seen, crashes, logVars>>

Insert(w) ==
  /\ At(w, "insert") /\ request[w].next <= Count(w)
  /\ pending' = [pending EXCEPT ![w] = @ \cup {Row(w, request[w].next)}]
  /\ request' = [request EXCEPT ![w].next = @ + 1]
  /\ UNCHANGED <<rows, seen, crashes, logVars>>

\* COMMIT, which may raise whether or not the store has made it.
Commit(w) ==
  /\ At(w, "insert") /\ request[w].next > Count(w)
  /\ \/ /\ rows' = rows \cup pending[w]
        /\ \/ Goto(w, "respond")
           \/ Goto(w, "failed")
     \/ /\ Goto(w, "failed")
        /\ UNCHANGED rows
  /\ pending' = [pending EXCEPT ![w] = {}]
  /\ UNCHANGED <<seen, crashes, logVars>>

\* BEGIN or an INSERT raises: ROLLBACK.
FailSave(w) ==
  /\ At(w, "begin") \/ (At(w, "insert") /\ request[w].next <= Count(w))
  /\ Goto(w, "failed")
  /\ pending' = [pending EXCEPT ![w] = {}]
  /\ UNCHANGED <<rows, seen, crashes, logVars>>

\* get_run
Stored(run_id, tenant) == run_id \in CommittedRuns /\ request[run_id].tenant = tenant

\* get_run in do_reconcile, which logs before it looks at the result, and in the
\* Streamlit app, which subscripts it at once.
Respond(w) ==
  /\ At(w, "respond")
  /\ LET stored == Stored(request[w].run_id, request[w].tenant)
     IN  request' = [request EXCEPT ![w].stored = stored,
           ![w].state = IF request[w].tenant # NoTenant THEN "log"
                        ELSE IF stored THEN "answered" ELSE "type_error"]
  /\ UNCHANGED <<rows, pending, seen, crashes, logVars>>

\* The API process or the Streamlit process dies with the requests it serves.
\* What append had buffered and the transactions that were open are gone.
Crash(ofApi) ==
  LET dying == {w \in Writers : InFlight(w) /\ (request[w].tenant # NoTenant) = ofApi}
  IN  /\ crashes < MaxCrashes /\ dying # {}
      /\ request' = [w \in Writers |->
           IF w \in dying THEN [request[w] EXCEPT !.state = "lost"] ELSE request[w]]
      /\ pending' = [w \in Writers |-> IF w \in dying THEN {} ELSE pending[w]]
      /\ call' = [w \in Writers |-> IF w \in dying THEN Idle ELSE call[w]]
      /\ crashes' = crashes + 1
      /\ UNCHANGED <<rows, seen, lines, terminated, tears, returned, raced>>

Next ==
  \/ \E w \in Writers :
       \/ Receive(w) \/ LookUp(w) \/ Compute(w)
       \/ BeginAppend(w) \/ EndAppend(w) \/ TornAppend(w)
       \/ Begin(w) \/ Insert(w) \/ Commit(w) \/ FailSave(w)
       \/ Respond(w)
  \/ \E ofApi \in BOOLEAN : Crash(ofApi)

Spec == Init /\ [][Next]_vars

-----------------------------------------------------------------------------
\* What is committed of a run.
Numbers(run) == {row.n : row \in {r \in rows : r.run_id = run}}

\* Every request is a request at one of the points of its way, with rows of its
\* own in its transaction, and the store holds rows of runs.
ServiceTypeOK ==
  /\ request \in [Writers -> [state : States, tenant : Tenants \cup {NoTenant},
                              payload : Payloads, header : Keys \cup {NoKey},
                              run_id : Writers \cup {"none"}, next : Nat, stored : BOOLEAN]]
  /\ \A row \in rows : row.run_id \in Writers /\ row.n \in 0..Count(row.run_id)
  /\ \A w \in Writers : \A row \in pending[w] : row.run_id = w /\ row.n \in 0..Count(w)
  /\ seen \in [Writers -> SUBSET Writers]
  /\ crashes \in 0..MaxCrashes

\* Whoever reads the store, and whatever has failed or died before, finds of a
\* run either nothing at all or its row in runs and every exception it counts
\* (save_run is one transaction).
RunsAreWhole ==
  \A run \in {row.run_id : row \in rows} :
     Numbers(run) = 0..Count(run)

\* The run a request is answered with, its own or one found by its key, is stored
\* under the caller's tenant and key, so that get_run finds it: do_reconcile and
\* the Streamlit app subscript what get_run returns without a test for None.
AnswersWithAStoredRun ==
  \A w \in Writers :
     /\ ~ At(w, "type_error")
     /\ At(w, "answered") =>
          /\ Stored(request[w].run_id, request[w].tenant)
          /\ Key(request[w].run_id) = Key(w)

\* Two runs of one tenant have one key only if each was computed by a request that
\* had looked for the key before the other was committed: reconcile looks the key
\* up first, and nothing else keeps the store from holding two.
OnlyRacesDuplicate ==
  \A v, w \in CommittedRuns :
     v # w /\ Key(v) = Key(w) /\ request[v].tenant = request[w].tenant =>
       v \notin seen[w] /\ w \notin seen[v]

-----------------------------------------------------------------------------
(* The abstract store                                                      *)

Counts == {ExceptionCount[p] : p \in Payloads}
PossibleKeys ==
  {<<"header", k>> : k \in Keys}
  \cup {<<"derived", p, t>> : p \in Payloads, t \in Tenants \cup {NoTenant}}

\* A line of the log holds the event, whether or not the line parses.
InLog(event) ==
  \E i \in DOMAIN lines : \E j \in DOMAIN lines[i] :
     lines[i][j].whole /\ lines[i][j].record.event = event

OnRecord ==
  {d \in [run_id : Writers, n : UNION {0..k : k \in Counts}] :
     InLog(Decision(d.run_id, d.n))}

Asked(w) == [owner |-> request[w].tenant, key |-> Key(w), count |-> Count(w)]

Promise == INSTANCE RunStore WITH
  Clients <- Writers,
  Requests <- [owner : Tenants \cup {NoTenant}, key : PossibleKeys, count : Counts],
  asked <- [w \in {v \in Writers : ~ At(v, "new")} |-> Asked(w)],
  recorded <- OnRecord,
  store <- [run \in {row.run_id : row \in rows} |->
    [owner |-> request[run].tenant, key |-> Key(run), decisions |-> Numbers(run)]],
  answer <- [w \in {v \in Writers : At(v, "answered")} |-> request[w].run_id]

\* Whatever overlaps, is torn, fails or dies between two of its steps, the service
\* does what module RunStore promises: reconcile has the summary and every decision
\* on record before save_run stores the run at once, and a request is answered
\* with a run that is stored for its tenant and key.
KeepsTheStorePromise == Promise!Spec

-----------------------------------------------------------------------------
\* SYSTEM_ARCHITECTURE.md:100, "Idempotency: same input -> same run_id (no
\* duplicates)": a tenant's requests with one key that are answered are answered
\* with one run (find_run_by_idempotency_key and save_run are not one step).
SameInputSameRun ==
  \A v, w \in Writers :
     At(v, "answered") /\ At(w, "answered") /\ Key(v) = Key(w)
     /\ request[v].tenant = request[w].tenant => request[v].run_id = request[w].run_id
=============================================================================
