--------------------------- MODULE ConnectionPool ---------------------------
(***************************************************************************)
(* The connections of the API on Postgres: backend/db_postgres.py, _get_pool*)
(* and pooled_connection, and backend/deps.py, get_db_connection.          *)
(*                                                                         *)
(* get_db_connection and the endpoints are plain functions: FastAPI runs   *)
(* the part of the former up to its yield, and then the endpoint, each in a*)
(* thread of one bounded set, and the part after the yield in a thread of  *)
(* its own.  A connection is kept from the yield to the end.  psycopg_pool *)
(* opens its connections as they are asked for; here they are there.       *)
(***************************************************************************)
EXTENDS Naturals, FiniteSets

CONSTANTS
  Requests,
  Threads,     \* threads for blocking calls, 40 in the default of the server
  PoolSize     \* max_size, 10

ASSUME PoolAssumption ==
  /\ Threads \in Nat \ {0}
  /\ PoolSize \in Nat \ {0}
  /\ IsFiniteSet(Requests)

VARIABLES
  phase,       \* how far each request has come
  busy,        \* threads in use
  registered,  \* the pool in _POOLS, named by the request that opened it
  pool,        \* the pool a request uses
  conn,        \* the connection it holds
  idle,        \* the idle connections of each pool
  open,        \* the connections with an open transaction, by pool
  saved        \* history: the requests whose transaction was committed

vars == <<phase, busy, registered, pool, conn, idle, open, saved>>

Connections == 1..PoolSize
None == "none"

Threaded == {"enter", "opening", "waiting", "body"}
Holding == {"ready", "body", "returned", "raised"}
Refused == {"unreachable", "timed_out"}
Final == Refused \cup {"answered", "failed"}
Phases == {"new"} \cup Threaded \cup Holding \cup Final

Init ==
  /\ phase = [r \in Requests |-> "new"]
  /\ busy = 0
  /\ registered = None
  /\ pool = [r \in Requests |-> None]
  /\ conn = [r \in Requests |-> 0]
  /\ idle = [r \in Requests |-> {}]
  /\ open = [r \in Requests |-> {}]
  /\ saved = {}

Goto(r, to) == phase' = [phase EXCEPT ![r] = to]

Enter(r) ==
  /\ phase[r] = "new" /\ busy < Threads
  /\ Goto(r, "enter")
  /\ busy' = busy + 1
  /\ UNCHANGED <<registered, pool, conn, idle, open, saved>>

\* _get_pool: the pool in _POOLS is used, without a lock, or one is opened.
FindPool(r) ==
  /\ phase[r] = "enter"
  /\ pool' = [pool EXCEPT ![r] = registered]
  /\ Goto(r, IF registered = None THEN "opening" ELSE "waiting")
  /\ UNCHANGED <<busy, registered, conn, idle, open, saved>>

OpenPool(r) ==
  /\ phase[r] = "opening"
  /\ registered' = r
  /\ pool' = [pool EXCEPT ![r] = r]
  /\ idle' = [idle EXCEPT ![r] = Connections]
  /\ Goto(r, "waiting")
  /\ UNCHANGED <<busy, conn, open, saved>>

\* pool.wait or the schema fails: 503, and the next request tries again.
OpenFails(r) ==
  /\ phase[r] = "opening"
  /\ Goto(r, "unreachable")
  /\ busy' = busy - 1
  /\ UNCHANGED <<registered, pool, conn, idle, open, saved>>

\* Mutant: the connection stays in the pool.
CheckOutKeepingIdle(r) ==
  /\ phase[r] = "waiting"
  /\ \E c \in idle[pool[r]] : conn' = [conn EXCEPT ![r] = c]
  /\ Goto(r, "ready")
  /\ busy' = busy - 1
  /\ UNCHANGED <<registered, pool, idle, open, saved>>

CheckOut(r) ==
  /\ phase[r] = "waiting"
  /\ \E c \in idle[pool[r]] :
        /\ conn' = [conn EXCEPT ![r] = c]
        /\ idle' = [idle EXCEPT ![pool[r]] = @ \ {c}]
  /\ Goto(r, "ready")
  /\ busy' = busy - 1
  /\ UNCHANGED <<registered, pool, open, saved>>

\* Mutant: no timeout.
TimeOutNever(r) == FALSE /\ UNCHANGED vars

\* No connection within 30 s: PoolTimeout, 503.
TimeOut(r) ==
  /\ phase[r] = "waiting" /\ idle[pool[r]] = {}
  /\ Goto(r, "timed_out")
  /\ busy' = busy - 1
  /\ UNCHANGED <<registered, pool, conn, idle, open, saved>>

RunBody(r) ==
  /\ phase[r] = "ready" /\ busy < Threads
  /\ Goto(r, "body")
  /\ busy' = busy + 1
  /\ UNCHANGED <<registered, pool, conn, idle, open, saved>>

\* The endpoint begins its transaction, commits it and returns; or raises before
\* or after the transaction, or within it, where ROLLBACK or COMMIT raised.
BeginTx(r) ==
  /\ phase[r] = "body" /\ conn[r] \notin open[pool[r]] /\ r \notin saved
  /\ open' = [open EXCEPT ![pool[r]] = @ \cup {conn[r]}]
  /\ UNCHANGED <<phase, busy, registered, pool, conn, idle, saved>>

CommitTx(r) ==
  /\ phase[r] = "body" /\ conn[r] \in open[pool[r]]
  /\ open' = [open EXCEPT ![pool[r]] = @ \ {conn[r]}]
  /\ saved' = saved \cup {r}
  /\ UNCHANGED <<phase, busy, registered, pool, conn, idle>>

EndBody(r) ==
  /\ phase[r] = "body"
  /\ \/ conn[r] \notin open[pool[r]] /\ Goto(r, "returned")
     \/ Goto(r, "raised")
  /\ busy' = busy - 1
  /\ UNCHANGED <<registered, pool, conn, idle, open, saved>>

-----------------------------------------------------------------------------
Outcome(r) == IF phase[r] = "returned" THEN "answered" ELSE "failed"

\* Mutants: a connection with an open transaction comes back as it is; an endpoint
\* that raised keeps its connection.
GiveBackAsItIs(r) ==
  /\ phase[r] \in {"returned", "raised"}
  /\ idle' = [idle EXCEPT ![pool[r]] = @ \cup {conn[r]}]
  /\ conn' = [conn EXCEPT ![r] = 0]
  /\ Goto(r, Outcome(r))
  /\ UNCHANGED <<busy, registered, pool, open, saved>>

GiveBackUnlessRaised(r) ==
  /\ phase[r] \in {"returned", "raised"}
  /\ open' = [open EXCEPT ![pool[r]] = @ \ {conn[r]}]
  /\ idle' = IF phase[r] = "raised" THEN idle
             ELSE [idle EXCEPT ![pool[r]] = @ \cup {conn[r]}]
  /\ conn' = [conn EXCEPT ![r] = 0]
  /\ Goto(r, Outcome(r))
  /\ UNCHANGED <<busy, registered, pool, saved>>

\* The rest of get_db_connection: an exception of the endpoint is passed on, the
\* open transaction is rolled back, and the connection is idle again.
GiveBack(r) ==
  /\ phase[r] \in {"returned", "raised"}
  /\ open' = [open EXCEPT ![pool[r]] = @ \ {conn[r]}]
  /\ idle' = [idle EXCEPT ![pool[r]] = @ \cup {conn[r]}]
  /\ conn' = [conn EXCEPT ![r] = 0]
  /\ Goto(r, Outcome(r))
  /\ UNCHANGED <<busy, registered, pool, saved>>

Advance(r) ==
  \/ FindPool(r) \/ OpenPool(r) \/ OpenFails(r)
  \/ CheckOut(r) \/ TimeOut(r)
  \/ RunBody(r) \/ BeginTx(r) \/ CommitTx(r) \/ EndBody(r) \/ GiveBack(r)

Next == \E r \in Requests : Enter(r) \/ Advance(r)

Spec == Init /\ [][Next]_vars

\* A thread at work goes on, one that is free takes a request that waits for
\* one, and the clock of a timeout runs.
FairSpec == Spec /\ \A r \in Requests : WF_vars(Advance(r))

-----------------------------------------------------------------------------
\* Each request is at a point of its way with what it holds there, and the threads
\* in use are those of the requests that are in one.
PoolTypeOK ==
  /\ phase \in [Requests -> Phases]
  /\ busy = Cardinality({r \in Requests : phase[r] \in Threaded}) /\ busy <= Threads
  /\ registered \in Requests \cup {None}
  /\ pool \in [Requests -> Requests \cup {None}]
  /\ conn \in [Requests -> Connections \cup {0}]
  /\ \A r \in Requests : conn[r] # 0 <=> phase[r] \in Holding
  /\ idle \in [Requests -> SUBSET Connections]
  /\ open \in [Requests -> SUBSET Connections]
  /\ saved \subseteq Requests

\* No two requests ever hold one connection, and none that is held is idle: not
\* even while two threads open a pool each and the second replaces the first.
ConnectionHeldOnce ==
  \A r \in Requests : conn[r] # 0 =>
    /\ conn[r] \notin idle[pool[r]]
    /\ \A q \in Requests \ {r} : conn[q] = conn[r] => pool[q] # pool[r]

\* A request that gets a connection gets one without a transaction on it, however
\* the requests before it failed (pooled_connection).
CheckedOutClean ==
  \A r \in Requests : phase[r] = "ready" => conn[r] \notin open[pool[r]]

Stalled ==
  /\ busy = Threads
  /\ \A r \in Requests : phase[r] \in Threaded => phase[r] = "waiting" /\ idle[pool[r]] = {}
  /\ \A r \in Requests : phase[r] \notin {"returned", "raised"}

\* The server stands still until a request times out - every thread waits for a
\* connection, and every connection for a thread - only if it has as many
\* requests at once as it has threads and a pool has connections.
StallTakesAFullHouse ==
  Stalled => Cardinality({r \in Requests : phase[r] \in Threaded \cup Holding})
               >= Threads + PoolSize

\* Every request that was taken on ends, in an answer or in a refusal, also when
\* the server stands still as above.
EveryRequestEnds ==
  \A r \in Requests : phase[r] = "enter" ~> phase[r] \in Final
=============================================================================
