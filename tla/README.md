# MANIFEST in TLA+

MANIFEST reconciles three files of a merchant (bank statement, settlement
report, internal ledger) through a cascade of six deterministic stages, stores
the run, and answers for it through an HTTP API and a Streamlit app, with a
hash-chained audit log behind both.  This directory holds TLA+ modules
translated from that code, the TLC configurations that check them on small
instances, and theorems with machine-checked proofs.

    tlc -config MCCascade.cfg MCCascade.tla       # one run
    tlapm PipelineProofs.tla                      # one module of proofs

`PROJECT.json` lists the runs, the source lines every definition stands for,
the hazards and what covers them.

## 1. Inventory

| Component | State | Operations | Talks to |
|---|---|---|---|
| Row loading (`core/ingest.py`, `core/normalize.py`) | none | `load_*_csv`, `parse_money`, `extract_utr` | hands lists of rows to the cascade |
| Stages 1 to 6 (`core/matching/`) | none; each returns a `StageResult` | `match_utr`, `build_bridge`, `match_order`, `evaluate_tds`, `match_fuzzy`, `classify_*` | Stage 5 gets the residue of Stage 1; Stages 2 and 4 get matches; Stage 6 gets what is left |
| Orchestration (`core/pipeline.py`) | the stage results, the exceptions, the flagged identifiers, the bridges, of one run | `run_pipeline` | calls the stages in the order 1, 5, 3, 2, 4, 6, then accounts |
| Audit log (`core/audit.py`, `backend/audit_log.py`) | one file, `data/audit.jsonl` | `append`, `verify_chain` | appended to by request threads and by the Streamlit process, without a lock |
| Reconcile service (`backend/services/reconcile_service.py`) | none of its own | `reconcile` | looks an idempotency key up, runs the cascade, appends decisions, stores the run |
| Run store (`backend/db.py`, `backend/db_postgres.py`) | tables runs, matches, exceptions, bridges | `save_run`, `get_run`, `find_run_by_idempotency_key`, readers | DuckDB file or Postgres through a pool |
| API (`backend/routes.py`, `backend/deps.py`) | rate-limit buckets, metrics | ingest, reconcile, bridge, export, metrics, audit | one thread and one connection per request |
| Streamlit app (`app/streamlit_app.py`) | session state, one cached connection for all sessions | pages, `reconcile`, `verify_chain` | calls the service in-process |
| LLM advisory (`llm/`) | none | `complete`, `enrich_run_result`, `answer_question` | called between the cascade and the save |
| Uploads (`backend/security.py`, `ingest` of `backend/routes.py`, the form of the app) | a directory per dataset; the session's `dataset_id` and `run_id` | `stream_upload_to_file`, `enforce_row_limit`, "Validate and use these files", "Run reconciliation" | files read later by the service |
| Authentication (`backend/auth.py`) | none | `require_api_key` | every endpoint |
| Evaluation (`evaluation/`) | none | labels and scores of a run, the ablation and its sweep | reads matches and exceptions, not the counts, and the ground truth |
| Data generator (`data/generator.py`) | the rows and the ground truth it has made so far | `generate` | writes the demo dataset; shares no code with the cascade |
| Scripts, export, manifest | files | tooling, formatting | offline |

What is hard about it:

* the cascade decides each row by several independent paths (bank side by UTR,
  ledger side by order) and accounts by identifier; whether the sum holds, and
  means what it says, is a property of all six stages together;
* its arithmetic is applied in different places (net by row in Stage 1, by
  waterfall in Stage 2; rates rounded before they are compared), so the
  boundaries are not where the constants put them;
* the audit log and the store are shared by threads and processes with nothing
  but the store's transactions between them: appends interleave, writes stop
  half-way, a look-up is stale when the run it allowed is stored;
* a process may die between any two of: a decision recorded, a run stored, an
  answer given;
* threads and connections are two bounded resources, taken in both orders:
  a request waits for a connection in a thread, and for a thread with a
  connection;
* sessions share one connection, on stores that differ in what is kept on it;
* an upload is three files, any of which may be rejected, fail, or be the last one
  written, and a page's script may be stopped between two of its assignments;
* a provider outside the process may answer anything, late or not at all;
* the generator plants defects by sizes, dates and rates it restates on its own,
  and the scores mean something only as long as these fit the cascade's.

Per component, what makes it correct: each row decided once and never by
picking among equals (Stages 1 and 5); what counts as matched is clean to the
paisa and to the contract (Stage 2); each finding comes from the rule meant for
it (Stage 4); every row accounted, exceptions and counts agreeing
(orchestration); a chain that verifies has lost nothing, and one that does not
verify stays so (audit log); what is stored is whole, audited and found again
(service and store); a connection serves one request, comes back clean, and
every request ends (pool); a session sees and stores runs as if it were alone
(shared connection); a dataset that is accepted is complete, and the run a session
shows is of the dataset it has chosen (uploads); every exception gets the
annotations it is due, and a fallback is never counted as a model's answer
(advisory); the ground truth is true of the files, and what it plants is what the
cascade reports (generator and evaluation).

## 2. Modules

| Module | Stands for |
|---|---|
| `Rows` | rows, money in paise, rounding, UTR extraction, `StageResult` |
| `UtrStage`, `FuzzyStage`, `OrderStage`, `BridgeStage`, `TdsStage` | Stages 1, 5, 3, 2, 4 as operators |
| `Pipeline` | `run_pipeline`: one action per stage, then the accounting |
| `PipelineProps` | its properties |
| `Evaluation` | the labels `evaluation/metrics.py` reads off a finished run |
| `Dispositions` | the abstract run: rows are decided forward only, a report counts all of them |
| `Generator` | `data/generator.py`: one action per phase of `generate` |
| `Benchmark` | a generated dataset run through `Pipeline` and scored: generator, cascade and evaluation composed |
| `PipelineProofs` | proofs about sums over rows, the stages, the cascade and its account, what a run records and counts, its labels and its money, and that `Pipeline` implements `Dispositions` |
| `BenchmarkProofs` | proofs about every dataset the generator can make, and the runs on it |
| `AuditLog` | the log: `append` in two steps, torn writes, `verify_chain`, `GET /audit` |
| `AuditWriters` | writers that do nothing but append; the properties of the log |
| `AuditProofs` | proofs about the log |
| `ReconcileService` | a request from arrival to answer, over the store and the log |
| `RunStore` | the abstract service: decisions on record, runs stored at once, requests answered |
| `ReconcileProofs` | proofs about the service, and that it implements `RunStore` |
| `ConnectionPool` | requests, threads and pooled connections of the API on Postgres |
| `SharedConnection` | Streamlit sessions on the one connection they share |
| `Ingest` | uploads through the API and the form, and the session that runs them |
| `Advisory` | the advisory pass over a run and the question box |
| `PoolProofs`, `SharedProofs`, `IngestProofs`, `AdvisoryProofs` | proofs about these four |
| `MC*` | small instances |

**The cascade.**  A row is its position in the list it was read into (the
`row_id` of a bank row); identifiers are data and may repeat, as nothing in the
code checks them.  `input` holds the arguments of `run_pipeline`; `stage1`,
`stage5`, `stage3`, `exceptions`, `bridges`, `flagged` are its locals, `report`
and `error` its outcome.  `RunStage1`, `RunStage5`, `RunStage3`,
`AuditBridges`, `ValidateTds`, `ClassifyResidues` and `Account` are taken in the
order of the code, each with the disabled form of its stage and with what it
raises (`TypeError` for a missing credit, a division by zero in rule C, the
validation error of an exception without an amount, `InvariantViolation`).
Money is in paise, rates in units of 0.0001, and `Decimal.quantize` is the
integer operator `HalfUp`.  Scores of Stage 5 are integers (3000 is 1.0); the
string similarity `rapidfuzz` computes is the constant `Ratio`.

**The audit log.**  A hash is the sequence of events it commits to, which takes
SHA-256 to be injective.  A line is the sequence of pieces written to it since
the last newline; only a line that is one whole piece parses.  `ReadLast` is
`append` up to its second `open`, `WriteRecord` the rest of it, `Tear` a write
that stops before, within, or just short of the end of the record.  Records
longer than the write buffer go out in several writes and could interleave
piece by piece; the records this code appends are some hundred bytes, so one
write is one step.

**The service.**  A request is a writer of the log, with a thread and a
connection of its own.  `Receive`, `LookUp`, `Compute`, `BeginAppend` and
`EndAppend` (once per decision, and once for `do_reconcile`'s own event),
`Begin`, `Insert`, `Commit`, `Respond` follow `do_reconcile`, `reconcile`,
`record_pipeline_decisions`, `save_run` and `get_run` statement by statement;
`Compute`, `TornAppend`, `FailSave` and `Commit` also fail where the code may,
and `Crash` ends one of the two processes with the requests in it.  A COMMIT
that raises may or may not have been made.  The cascade comes in as the number
of its exceptions.

`RunStore` is what is promised of all this: four variables and four steps, without
connections, log lines or failures.  `KeepsTheStorePromise` maps the service to it: a
decision is on record when a line of the log holds its event (also a line that no
longer parses), a run is in the store with the rows committed for it, and a
request has its answer when it was sent.  Every step of the service, crashes and
torn writes included, is one of the four steps or changes nothing there.

**The evaluation.**  `run_pipeline` counts rows by the identifiers its stages
flagged; `evaluation/metrics.py` labels them by matches and exceptions alone, an
exception reaching a matched bank row through the UTR it carries.  Two kinds carry
one: the findings of a bridge, and Stage 1's `AMBIGUOUS_MATCH` for each row that
contested the UTR.  The last one listed gives the label, and Stage 6 lists the
ambiguous rows after the bridges (`BatchLabel`).
`BankLabel` and `LabelledOrders` are those look-ups, evaluated in the states of
`Pipeline`.

**The benchmark.**  `Generator` has one action per phase of `generate`: `MakeOrders`,
`BuildLedger`, `PlantTdsDefects`, `PlantLedgerOnly`, `DrawBatch` (once per batch),
`AssignDefects`, `BuildBatch` (once per batch, with its settlement rows, its credit
and its entry in the ground truth), `PlantBankOnly`, `PlantUnresolvable`.  A draw of
the seeded generator is a choice from a small set; the counts of defects are
parameters.  `Evaluate` hands the finished files to `Pipeline` under one of the
configurations of `evaluation/ablation.py`, and the look-ups of `evaluate_run` are
evaluated when the run is done.  The files are taken as the loaders read them back.

**The pool.**  FastAPI runs a request in three parts: `get_db_connection` up to
its `yield` and the endpoint take a thread of one bounded set each, what follows
the `yield` has a thread of its own.  `Enter`, `FindPool`, `OpenPool`, `CheckOut`,
`TimeOut`, `RunBody`, `EndBody`, `GiveBack` are the steps between which another
request can come.  `_get_pool` reads and writes `_POOLS` without a lock, so that a
pool is named by the request that opened it and one may be replaced in use.

**The shared connection.**  Each statement of a session's look-up, save and
`get_run` is a step, and its `fetchone` another.  `backend` distinguishes the two
stores: DuckDB keeps a result on the connection and refuses a BEGIN within a
transaction; `PostgresConnection` has a cursor per statement, and Postgres takes
such a BEGIN with a warning.

**Uploads.**  Each upload writes its three files in order into a directory of its
own: `OpenFile`, `WriteFile`, `CheckRows`, and `FileDone` for what the loop does with
the outcome.  The endpoint stops at the first file over a limit and removes it; the
form shows an error, keeps a flag and goes on with the next, and leaves a file with
too many rows where it is.  `SetDataset` and `PopRun` are the two assignments to
`session_state` by which a session changes its dataset, `CountRows`, `Reconcile`,
`SetRun` the steps of "Run reconciliation".  `Interrupt` is Streamlit's and marked
external: it may stop a script at any of its calls when the user touches another
widget.  A directory belongs to one upload, as its name is a random UUID.

**The advisory.**  Three jobs per exception, then a question, each a call of
`complete`; one step is one request with its reply.  The model distinguishes what
the `except` clause of each adapter names from what passes it, which is the
difference between a fallback and a lost run.

## 3. Runs and bounds

| Run | Instance | Shows |
|---|---|---|
| `cascade`, who matches whom (`MCMatching`) | two bank rows (five narrations, four credits, three dates), one to three batches, two thresholds | Stages 1 and 5: each row decided once, contested UTRs never picked, exact matches exclusive, proposals never promoted, empty credits never counted |
| `cascade`, who is counted for what (`MCAccounting`) | up to two rows per file with identifiers from sets of two, each of Stages 2 to 5 disabled in turn; two credits on one batch; three credits, two of which contest the UTR Stage 5 may match the third to; a payment at eleven combinations of fee and tax with ten kinds of second row, credits from 1.00 under to 1.45 over the net; one order with boundary values in ten columns | the check raises exactly on duplicates; exceptions, labels and counts agree; what counts as matched closes and reconciles; rule C is left with orders of at most Rs 957.14; `Pipeline` refines `Dispositions` |
| `benchmark` | datasets of one to three orders in one or two batches, every fate of an order, every defect and pair of defects, a stray credit, an unresolvable one; the five configurations of the ablation and the eight thresholds of its sweep | the ground truth is true of the files; no run raises; no false match at 0.90 and above; rows and orders get the label planted in them; unresolvable credits are left open |
| `audit_writers` | four lines, two writers, two tears | what verification does and does not say |
| `reconcile` | two requests, two tenants or the app, a payload with and one without an exception, one explicit key, one torn append, one crash | stored runs are whole, audited and found; only races store a key twice; the service refines `RunStore` |
| `connection_pool` | three requests, two threads, one connection | a connection is held once and comes back clean, every request ends |
| `shared_connection` | three sessions, two datasets, both stores | what one connection for all sessions keeps, per store |
| `ingest` | one upload through the API, two through the form, four payloads (good, too big, too long, unparsable files at different places) | what is accepted is complete; a session shows runs on its dataset |
| `advisory` | up to two exceptions of four kinds, every set of API keys, every reply | annotations are complete up to where the pass is, what is counted as a model's is a model's, every call ends |

Why these bounds are enough.  The cascade decides a bank row by comparing it
with the batches and with the other claimants of its UTR, so two bank rows and
three batches (one of them spelled differently) reach every branch of Stages 1
and 5; sharing an identifier takes two rows, and a contested UTR that a third row
is matched to takes three.  For the arithmetic, the inputs
sit on both sides of each tolerance.  In the log two writers are enough to
overlap, and a line after the line after a break shows whether the break
persists.  In the service a race takes two requests; a crash and a tear at every
step are covered by one of each.  In the pool the dangerous case is fewer
connections than threads and fewer threads than requests, which 1 < 2 < 3 is the
smallest form of.  On the shared connection the third session is the one that
comes after two overlapped.  The second upload of the form is the one that replaces
the dataset a run is shown of; the uploads of the API and of the form share only the
directory they lie in.  In the advisory pass the second exception shows
what a failure in the first leaves, and retries are bounded by the code
(`MaxRetries`).  The generator plants 3 fee variances, 2 of GST, 5 late credits, 6
roundings, 3 residuals, 8 + 3 + 4 TDS defects, 3 orders that are never settled, 2
stray credits and 3 unresolvable ones among 600 orders in batches of 8 to 30; its
batches meet in the cascade only through Stage 5's candidates, which compares a
credit with two, so that one or two batches with each defect, and a batch of up to
two orders for the sums within one, reach what a dataset of thirty can do to a row.
`AssignDefects` refuses a dataset with too few batches, which one setup reaches.  The bounds that are not the code's: `MaxLines`, `MaxTears`,
`MaxCrashes`; every other state space is finite by itself.

`CHECK_DEADLOCK FALSE` is set throughout: a run of the cascade ends, the log may
reach its bound, requests, sessions and advisory passes end.

Two liveness properties are checked.  `EveryRequestEnds` assumes weak fairness of
each request's next step: threads are scheduled, and the clock of the pool's
timeout runs; a step that needs a free thread is only required while one is
free.  Requests are finitely many, so that none is passed over forever; a server
under endless load relies on the order of the queue of its threads, which is a
library's and not modelled.  `EveryCallEnds` assumes weak fairness of the pass, which is one thread
whose requests end by a reply or by the timeout of the client.

Four runs check a sentence of the repository the code does not keep; each is a
finding in `PROJECT.json`.

* `FailureMeansTampering`: two overlapping appends break the chain for good, and
  the app then reports tampering.
* `SameInputSameRun`: two equal requests at once are stored as two runs.
* `UnavailableMeansNone`: an error of the provider's client is raised out of
  `complete`, which is documented to return `None`.
* `TdsFindingFlagsTheSettlement`: the settlement row of an order with a TDS finding
  is counted as matched, although `pipeline.py:12-16` says that such a finding makes
  it an exception; only the ledger row is one.

Other behaviour met while modelling, without a run of its own: a batch with a
mixed-case UTR is matched and not audited (`pipeline.py:105`); a near tie is
matched when the caller's threshold lies under the review threshold; of several
bridges of one UTR the last is kept; `get_audit` parses every line of the log before
it asks `verify_chain`, so that one malformed line fails `GET /audit` for every run
instead of being reported (`SerialAppendsVerify` has the condition under which it
does not); an order paid in several payments has one
TDS finding per payment; with Stage 2 disabled matches stay matches; settlement
rows behind a mere proposal are counted as matched, which the docstring of
`pipeline.py` (line 17) has as NEEDS_REVIEW; a bank row Stage 5 matches to a UTR that
other rows contest is counted as matched and labelled `AMBIGUOUS_MATCH` by the
evaluation (`metrics.py:124-139`); an explicit idempotency key
is looked up without regard to the dataset (`reconcile_service.py:144-147`); on
DuckDB a session may be shown another session's run, and on Postgres a session's
BEGIN within another's transaction lets one COMMIT store half of the other's run.
Of the benchmark: a late credit is planted as `TIMING_T_PLUS_N` and no stage ever
reports one; an unexplained residual is 0.0005 of its batch (the comments at
`generator.py:296` and `:435` say 0.2 % and 0.1 %), which for a net under Rs 1990 is
within the tolerance of the bridge and reported as rounding; a mismatch of minus
Rs 5 on an order with Rs 5 of TDS leaves a row without a deduction, which is not
checked; the narration of an unresolvable credit has the first six digits of one
of its two UTRs, not of both, so that when they have little else in common the
higher score is matched at low thresholds; and below 0.90 other datasets than the
committed one have false matches, although its sweep shows none.

## 4. Properties worth a comment

* `ExactMatchesClose` and `CleanMatchesReconcile` state what Stage 2 adds to
  Stage 1.  The second has 0.105 % where the constant says 0.1 %: rates are
  rounded to four places before they are compared.
* `RateRuleOnSmallOrders` shows what the order of the rules does: rule D, with
  its floor of one rupee, is checked first and leaves rule C with a rate mismatch
  only on small orders.
* `RaisesExactlyOnDuplicates` is an equivalence: the accounting check is not a
  check of the stages (they cannot make it fail), it is a check for repeated
  identifiers.
* `ExceptionsMatchTheCount` states the count as the code makes it, which is not what
  the docstring of `pipeline.py` says: a TDS finding counts for the ledger row alone,
  and the settlement row of its order stays matched unless its batch was flagged.
  `TdsFindingFlagsTheSettlement` is the docstring's sentence.
* `LabelsFollowTheCount` says when a bank row that counts as matched is labelled
  `CLEAN`: exactly if no two rows contested its UTR in Stage 1 and every row matched
  to its batch counts as matched.  The run reaches both ways to another label: a
  second row on the batch whose bridge did not close, and a contested UTR.
* `WholeUnlessOverlapped` is what is left of the atomicity of a save: on DuckDB the
  refused BEGIN protects it, on Postgres it holds as long as no two saves overlap.
* `StallTakesAFullHouse` says what the order "thread, connection, thread" costs: every
  thread may wait for a connection and every connection for a thread, but only
  with as many requests at once as there are threads and connections together;
  the 30 s timeout is what resolves it.
* `CountedAnswersAreReal` relates the ablation report to the pass: it tells answers
  from fallbacks by a confidence of 0 or the word "fallback" only.
* `ShownRunIsOfTheDataset` has one exception in a session that is alone: a script
  stopped between its two assignments leaves the new dataset with the run of the old
  one, until the next switch or run.  Sessions are not alone on DuckDB, where one may
  be shown another's run (section 3; `FetchKey` of `SharedConnection`).
* `OnlyRacesDuplicate` is what the code keeps of `SameInputSameRun`: a second run
  under a key was begun before the first was stored.

* `KeepsTheStorePromise` is where the order in `reconcile` matters: decisions first,
  then the run, then the answer.  Its mutant swaps the first two.
* `SerialAppendsVerify` speaks of what `GET /audit` answers, which a line that does
  not parse keeps from answering at all.
* `LabelsAreAsPlanted` lists what the cascade cannot see (`TooSmallToSee`, late
  credits) and what it may leave to a person; that it never reports a defect other
  than the one planted is what is left, and it needs each tolerance on both sides
  to fit.
* `NoFalseMatch` holds at the configured threshold of 0.90 and above, for narrations
  with as many common digits as random numbers have; at 0.60 to 0.85 the run finds
  false matches.

## 5. Proofs

Every safety and action property of the cascade, the log, the service, the pool, the
shared connection, the uploads, the advisory pass and of generated datasets is proved,
for every value of the constants and so for any number of rows, writers, requests,
sessions and exceptions; so are the two refinements.  What is left to TLC is listed at
the end.

Assumptions are the named `ASSUME`s of the modules, which TLC evaluates on every
run.  They type the constants and keep the absent values apart from the present
ones; nothing is assumed of what an operator computes, and of what a library computes
only `ReadingAssumption`, below.  Requests of the pool are
finitely many (`PoolAssumption`), files of the cascade are sequences and so finite.

**The cascade** (`PipelineProofs`): `TypeOK`, `BankRowsDecidedOnce`,
`ContestedUtrNeverPicked`, `ExactMatchIsExclusive`, `ReviewNeverPromoted`,
`RaisesExactlyOnDuplicates` and `BlankCreditNeverCounted`.  The inductive
invariant `IInv` says, for each value of `pc`, that the results of the stages that
have run are what the stage operators compute from the input and from each
other, and that what later stages flag lies within them.  `TypeOK` alone is not
inductive: the properties relate Stage 5's result to Stage 1's residue, which
only the equation between them gives.  Lemmas say what each stage operator
returns (its buckets are disjoint and cover its rows; Stage 5 stays within its
residues; rounding returns integers); the accounting theorem counts: the sizes
of disjoint sets of identifiers add up to the number of rows exactly if no two
rows share one.

**Sums over rows.**  Nets and totals are folds, and the library's induction theorems
are of no use to these provers.  The section of that name argues by a smallest
counterexample instead.  A set of parts of the rows on which a statement fails has
a member of least size (`MinimalPart`, from the smallest element of a set of
numbers); it is not empty, so one row can be taken from it; what is left is
smaller, so the statement holds there, and it holds of the whole after all.  That
there is a function that sums every part (`SumExists`), that it is integer
(`SumType`), that it is unique (`SumsAgree`) and that the folds are that function
(`NetIsSum`, `TotalIsSum`) are each shown this way.

**What a run records and what its money says** (`PipelineProofs`).  `FoundInv`
adds to `IInv` that the exceptions, the flagged identifiers and the bridges on
record are those of the stages that have run, and nothing else (`AsFound`).  From
it follow `ExceptionsMatchTheCount` and `LabelsFollowTheCount` (an exception that carries
a UTR is a bridge's, or one of two claims on it: `ContestedClaims`); `NearTieOnlyBelowReview`
follows from what Stage 5's decision is.  `KeepsThePromise` is the refinement of
`Dispositions`: the disposition of each row before and after each step, and the
sizes of three disjoint groups of rows for the report.

`ExactMatchesClose` is that two programs add up the same batch: Stage 1 row by row,
Stage 2 payments less fees, taxes, refunds and holds.  `TwoSums` shows they are
equal, by cases of what the one row is that a smallest difference turns on.
`CleanMatchesReconcile` needs, beside it, what rounding to four places keeps of a
comparison of rates (`RateWithin`): with `whole` at 10000 parts, a rounded rate within
10 of the contract leaves an amount within 10.5.  `RateRuleOnSmallOrders` is the
bounds of rounding used the other way round.

**The log** (`AuditProofs`): `LogTypeOK`, `SerialAppendsVerify`,
`VerifiedChainLostNothing` and `BrokenForever` for any number of writers and events
and any bounds.  The invariant has three parts: the file is sealed (a line that
lacks its newline is the last one), a log without race and tear is a chain whose
last hash every writer under way has read, and each record returned is a piece of
some line.  The rest follows from one lemma: an append extends the file or its last
line, and a line that did not verify is no better for what is appended to it.

**The service** (`ReconcileProofs`): `ServiceTypeOK`, `RunsAreWhole`,
`AnswersWithAStoredRun` and `OnlyRacesDuplicate` for any number of requests, tenants,
keys, exceptions, crashes and torn appends.  None is inductive by itself.
`ServiceInv` adds where a request is (`Placed`: its transaction is the rows below its
counter), that the rows in the store are those of requests that have come to COMMIT
(`StoredByOwn`), that whoever has a run to answer with has a stored one of its tenant
and key (`Answerable`), and that what a request saw of the store is still there and
was of another key (`SawNone`).  Every step but the arrival, the look-up and COMMIT
leaves the store alone; one lemma (`StoreStays`) covers those, given what the step
makes of its own request.

For `KeepsTheStorePromise`, the refinement of `RunStore`, the invariant grows by the
log: the record a request has under way is its next one, and the decisions it has
come past are in the file (`RecordInv`).  A write adds one piece, and so at most one
event; each action is then `Ask`, `PutOnRecord`, `Store` or `Reply` of the abstract
store, or leaves its four variables alone.

**The pool** (`PoolProofs`): `ConnectionHeldOnce`, `CheckedOutClean`,
`StallTakesAFullHouse`.  `PoolInv` accounts for every connection of a pool as idle
or held, and for every open transaction as one of a request that is in its endpoint
or has raised in it: a request rolls back before it gives its connection up.  The
third counts: the threads in use are the requests in a thread, those that hold a
connection wait for a thread, and the two sets are disjoint.

**The shared connection** (`SharedProofs`): `WholeUnlessOverlapped` and
`TransactionHasOwner`.  `SharedInv` says of a session that is saving, and whom the
promise is made to, that it is alone in its transaction and that what is buffered of
its run is what it has inserted so far.  On DuckDB that is every session, because a
second BEGIN is refused (`OneSaveAtATime`); on Postgres it is those that met no other.

**Uploads** (`IngestProofs`): `AcceptedIsComplete` and `ShownRunIsOfTheDataset`.
`IngestInv` says that the files an upload has come past are kept, unless one was
rejected, and that an upload of the form is under way only while the script is at it.
The code of the form goes on after a rejected file, which is why the flag `failed` is
in it.

**The advisory** (`AdvisoryProofs`): `AnnotatedUpToHere` and `CountedAnswersAreReal`.
`AdvisoryInv` says which annotations each exception has at each point of the pass, and
that one which is not the fallback was asked for.

**Generated datasets** (`BenchmarkProofs`): `TruthMatchesTheFiles`,
`GeneratedRunCompletes`, `OrdersAreLabelledAsPlanted`, `NoFalseMatch`,
`UnresolvableIsPunted` and `LabelsAreAsPlanted`, for every setup: any number of orders, batch sizes, stray
credits and pairs, any prices of the generator's range, dates, rates and defects.  The
constants are bound by `SetupAssumption` (what the generator draws from, with names
enough for it), `TableAssumption` (its TDS tables are those of the cascade's
configuration), `ConfigAssumption` (what `run_pipeline` is called with) and, for the
last three, `ReadingAssumption`.

`DataInv` is the invariant of the phases of `generate`.  Its parts: the ledger has each
order under its number (`LedgerMade`); each order is in the list, in one batch at one
place, or a victim of LEDGER_ONLY, and none is lost (`OrdersPlaced`); each settlement row
is of an order of a batch that has been settled, or of a pair, its identifier says of
which, and every such order is paid (`RowsSettled`); and the ground truth says one thing
of each credit, which is true of the rows under its UTR (`Truthful`).  The identifiers
carry the argument: a row's is <<kind, batch, place>>, so two rows with one identifier
are one row, and a batch that is added disturbs nothing said of those before it
(`Settled`, `Twinned` say what a phase adds; `BatchRowsKept`, `BatchTruthKept`,
`PairRowsKept`, `PairTruthKept` are the steps).  `ActualIsNet` is the one place where
money comes in: what the generator sums up as it goes is `Net` of the rows it wrote.
A run raises only for a blank credit, an order without a price and a repeated
identifier, which such a dataset has none of (`DatasetIsSound`).

`LabelInv` adds what the ground truth plants on the ledger: an order has at most one
TDS label, its ledger row deducts what the label says of its rate, and the other rows
deduct what the tables say.  Stage 3 gives each order its one payment (`PaidOnce`), and
Stage 4's rules, taken in their order, then say of it what was planted
(`LabelledRow`): the nearest deductions that matter differ by more than the tolerance
because the prices are at least Rs 500.

`CreditInv` adds what a credit looks like: the narration of a batch's credit names its
UTR in one of the templates, a stray one names one that no batch has, that of a pair
has six digits of the first; a pair's credit is the net, and its date the date, of either
batch.  By `ReadingAssumption` no narration reads like a UTR other than its own, by its
token or by 67 of 100 characters.  So what Stage 1 matches is its own (`NamesOwn`);
and Stage 5 needs 2700, of which amount and date give 2100 at most, so the narration
gives 600 at least, a ratio of 67, and the UTR is its own again (`MatchedToOwn`).
The credit of a pair is never touched by Stage 1 (`LeftToFuzzy`), scores the full 2100
and its narration for either batch (`TwinScored`), no less than for any other, and so
the decision is contested at any threshold (`PairContested`).

`ChargeInv` adds what the credit of a batch is made of (`AsCharged`): the fees and taxes
of its payments are at the rates of its planted defect, rounded; its date is that of its
rows, or three days later; what it has beyond its net is what the defect adds, and the
ground truth names that defect (`LabelTold`).  From it `CodeOfBatch` derives what Stage 2
and Stage 6 make of the batch.  A fee is within half a paisa of its rate, which on
Rs 500 is less than one part in 10000, and a tax within 6 parts of its own; parts
that are near a rate of their wholes add up to one that is (`TotalsNear`, by the smallest
counterexample again), and so the implied rate of any batch, whatever its size, is
within 6 of the rate it was charged at (`NearRate`), where the tolerance is 10 and the
planted rates are 40 and 100 off.  The residual is the planted remainder, because
Stage 2's waterfall is the net (`TwoSums`).  A late credit is not matched at all: its
date is out of the tolerance of Stage 1 and scores nothing, which leaves 2400 for
amount and narration (`LateNotMatched`).  A matched credit is its batch's only one and
no two credits name one UTR, so its label is the code of its own bridge (`MatchLabel`).  What `LabelsAreAsPlanted` leaves
out, `TooSmallToSee`, is exactly what the lemma needs of a batch (`Visible`): a payment
that is not on hold for a rate to be read off, and a net of Rs 1990 for half a per mille
to round to Rs 1.00.

`ReadingAssumption` is a fact about `rapidfuzz` and the templates of the generator, for
UTRs that differ, as numbers of sixteen digits drawn at random all but surely do.  The
shortest narration has 31 characters and shares 15 digits at most with another UTR,
which is 30 of 47, 64 in the hundred; its first eight digits share eight.  Six digits
are too few for the pattern of Stage 1 and are all found in the UTR they begin.  TLC
evaluates the assumption on the instance of `MCBenchmark`.

Only model-checked:

* liveness, `EveryRequestEnds` and `EveryCallEnds`: fairness and `ENABLED` are out of
  these provers' reach.

## 6. Not modelled, and why

* Parsing of dates and amounts: a cell that does not parse fails the load before
  the cascade starts.  An empty amount in the settlement or ledger file does so
  too (`Decimal('')` raises); an empty credit in the bank statement does not, and
  is in the model as `Blank`.
* Detail texts, severities, labels, metrics, logging, export, the manifest: no
  decision depends on them.
* Scripts, and the rates, averages and F1 scores the evaluation computes from the
  labels: arithmetic on what is modelled.
* Authentication, rate limits and middleware: look-ups in a dictionary or a
  library.
* Validation of identifiers and paths in `security.py`: an upload's directory is its
  own.
* The metrics endpoint: planned, below.

## 7. Plan

1. `Rows`, the stages, `Pipeline`, `Dispositions`, `Evaluation`: written, checked and
   proved, with the refinement of `Dispositions`.
2. `AuditLog`, `AuditWriters`: written, checked, proved.
3. `ReconcileService` over `AuditLog`: written, checked, proved, with the refinement
   of `RunStore`.
4. `ConnectionPool`, `SharedConnection`, `Advisory`, `Ingest`: written, checked; safety
   proved.
5. `Generator`, `Benchmark`: written, checked, proved.
6. To model: `GET /metrics`, which runs the pipeline again with a threshold rounded to
   four decimals and answers for a stored run.
