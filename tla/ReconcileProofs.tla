-------------------------- MODULE ReconcileProofs --------------------------
(***************************************************************************)
(* What holds of the reconcile service for any number of requests, tenants,*)
(* keys, exceptions, crashes and torn appends, and that the service        *)
(* implements the abstract store: every behaviour of ReconcileService is   *)
(* one of RunStore under the mapping of Promise.                           *)
(***************************************************************************)
EXTENDS ReconcileService, SequenceTheorems, TLAPS

\* A request whose run is not stored yet.
Before == {"new", "lookup", "compute", "audit", "begin", "insert"}

\* One that has looked its key up and computes a run of its own.
Computing == {"compute", "audit", "begin", "insert"}

Same(v, w) == Key(v) = Key(w) /\ request[v].tenant = request[w].tenant

\* The rows of the open transaction of w when the request is r.
Transaction(w, r) ==
  IF r.state = "insert" THEN {Row(w, k) : k \in 0..(r.next - 1)} ELSE {}

\* Where a request is says what its counter, its run and its transaction are.
Placed ==
  /\ pending = [w \in Writers |-> Transaction(w, request[w])]
  /\ \A w \in Writers :
       /\ At(w, "insert") => request[w].next \in 0..(Count(w) + 1)
       /\ At(w, "audit") => request[w].next \in 0..Count(w)
       /\ request[w].state \in {"audit", "begin", "insert"} => request[w].run_id = w

\* Rows are those of requests that have stored their run.
StoredByOwn ==
  \A row \in rows :
     request[row.run_id].state \notin Before /\ request[row.run_id].run_id = row.run_id

\* A request that has a run to answer with has a stored one of its tenant and key.
Answerable ==
  \A w \in Writers :
     /\ request[w].state \in {"respond", "log", "answered"} =>
          request[w].run_id \in CommittedRuns /\ Same(request[w].run_id, w)
     /\ At(w, "log") => request[w].stored
     /\ ~ At(w, "type_error")

\* A request that computes a run, or has stored it, saw no run of its key, and
\* what it saw is stored.
SawNone ==
  \A w \in Writers :
     /\ seen[w] \subseteq CommittedRuns
     /\ request[w].state \in Computing \/ w \in CommittedRuns =>
          \A v \in seen[w] : ~ Same(v, w)

ServiceInv ==
  ServiceTypeOK /\ Placed /\ StoredByOwn /\ RunsAreWhole /\ Answerable /\ SawNone

-----------------------------------------------------------------------------
\* The counters and the rows are numbered from 0.
LEMMA CountIsNat ==
  ASSUME ServiceTypeOK, NEW w \in Writers
  PROVE  Count(w) \in Nat
BY ServiceAssumption DEF ServiceTypeOK, Count

LEMMA ServiceStarts == Init => ServiceInv
<1> SUFFICES ASSUME Init PROVE ServiceInv
  OBVIOUS
<1>1. NewRequest \in [state : States, tenant : Tenants \cup {NoTenant}, payload : Payloads,
                      header : Keys \cup {NoKey}, run_id : Writers \cup {"none"},
                      next : Nat, stored : BOOLEAN]
  BY ServiceAssumption DEF NewRequest, States
<1>2. ServiceTypeOK
  BY <1>1, ServiceAssumption DEF Init, ServiceTypeOK
<1>3. Placed /\ StoredByOwn /\ RunsAreWhole /\ Answerable /\ SawNone
  BY DEF Init, NewRequest, At, Placed, Transaction, StoredByOwn, RunsAreWhole, Answerable, SawNone,
         Before, Computing
<1> QED
  BY <1>2, <1>3 DEF ServiceInv

-----------------------------------------------------------------------------
Requests ==
  [state : States, tenant : Tenants \cup {NoTenant}, payload : Payloads,
   header : Keys \cup {NoKey}, run_id : Writers \cup {"none"}, next : Nat, stored : BOOLEAN]

\* What a step that leaves the store alone makes of a request: it asks the same; its
\* own run stays what it is once it is stored; it has an answer only if that is
\* stored; it computes only if it did before.
GoesOn(v, new) ==
  /\ new \in Requests
  /\ new.tenant = request[v].tenant /\ new.payload = request[v].payload
  /\ new.header = request[v].header
  /\ request[v].state \in Before \/ (new.state \notin Before /\ new.run_id = request[v].run_id)
  /\ new.state \in {"respond", "log", "answered"} =>
       new.run_id \in CommittedRuns /\ Same(new.run_id, v)
  /\ new.state = "log" => new.stored
  /\ new.state # "type_error"
  /\ new.state \in Computing => request[v].state \in Computing

LEMMA StandingStill ==
  ASSUME ServiceInv, NEW v \in Writers
  PROVE  GoesOn(v, request[v])
BY DEF ServiceInv, ServiceTypeOK, Requests, Answerable, GoesOn, At

\* The store, and with it the invariant but for Placed, is kept by such a step.
LEMMA StoreStays ==
  ASSUME ServiceInv, request' \in [Writers -> Requests],
         \A v \in Writers : GoesOn(v, request'[v]),
         rows' = rows, seen' = seen, crashes' \in 0..MaxCrashes, Placed'
  PROVE  ServiceInv'
<1>1. \A v \in Writers : /\ Key(v)' = Key(v) /\ Count(v)' = Count(v)
                         /\ request'[v].tenant = request[v].tenant
  BY DEF GoesOn, Key, Count
<1>2. CommittedRuns' = CommittedRuns /\ \A v : Numbers(v)' = Numbers(v)
  BY DEF CommittedRuns, Numbers
<1>3. CommittedRuns \subseteq Writers
  BY DEF CommittedRuns, ServiceInv, ServiceTypeOK
<1>4. \A v, w \in Writers : Same(v, w)' = Same(v, w)
  BY <1>1 DEF Same
<1>5. ServiceTypeOK'
  <2>1. \A w \in Writers : \A row \in pending'[w] : row.run_id = w /\ row.n \in 0..Count(w)
    <3> SUFFICES ASSUME NEW w \in Writers, NEW row \in pending'[w]
                 PROVE  row.run_id = w /\ row.n \in 0..Count(w)
      OBVIOUS
    <3>1. /\ request'[w].next \in 0..(Count(w) + 1)
          /\ row \in {Row(w, k) : k \in 0..(request'[w].next - 1)}
      BY <1>1 DEF Placed, Transaction, At
    <3>2. PICK k \in 0..(request'[w].next - 1) : row = Row(w, k)
      BY <3>1
    <3>3. Count(w) \in Nat
      BY CountIsNat DEF ServiceInv
    <3> QED
      BY <3>1, <3>2, <3>3 DEF Row
  <2>2. \A row \in rows : row.run_id \in Writers /\ row.n \in 0..Count(row.run_id)'
    BY <1>1 DEF ServiceInv, ServiceTypeOK
  <2> QED
    BY <1>1, <2>1, <2>2 DEF ServiceInv, ServiceTypeOK, Requests
<1>6. StoredByOwn'
  BY DEF ServiceInv, ServiceTypeOK, StoredByOwn, GoesOn
<1>7. RunsAreWhole'
  BY <1>1, <1>2 DEF ServiceInv, ServiceTypeOK, RunsAreWhole
<1>8. Answerable'
  BY <1>2, <1>3, <1>4 DEF GoesOn, Answerable, At
<1>9. SawNone'
  BY <1>2, <1>3, <1>4 DEF ServiceInv, ServiceTypeOK, SawNone, GoesOn
<1> QED
  BY <1>5, <1>6, <1>7, <1>8, <1>9 DEF ServiceInv

\* The same for a step of one request, with what it makes of its transaction.
PlacedAt(w, new) ==
  /\ pending' = [pending EXCEPT ![w] = Transaction(w, new)]
  /\ new.state = "insert" => new.next \in 0..(Count(w) + 1)
  /\ new.state = "audit" => new.next \in 0..Count(w)
  /\ new.state \in {"audit", "begin", "insert"} => new.run_id = w

LEMMA OneIsPlaced ==
  ASSUME ServiceInv, NEW w \in Writers, NEW new, request' = [request EXCEPT ![w] = new],
         new.tenant = request[w].tenant, new.payload = request[w].payload,
         new.header = request[w].header, PlacedAt(w, new)
  PROVE  Placed'
<1>1. \A v \in Writers : Count(v)' = Count(v)
  BY DEF ServiceInv, ServiceTypeOK, Count
<1>2. request'[w] = new /\ \A v \in Writers \ {w} : request'[v] = request[v]
  BY DEF ServiceInv, ServiceTypeOK
<1>3. pending' = [v \in Writers |-> Transaction(v, request'[v])]
  BY <1>2 DEF ServiceInv, Placed, PlacedAt
<1>4. \A v \in Writers :
        /\ At(v, "insert")' => request'[v].next \in 0..(Count(v)' + 1)
        /\ At(v, "audit")' => request'[v].next \in 0..Count(v)'
        /\ request'[v].state \in {"audit", "begin", "insert"} => request'[v].run_id = v
  BY <1>1, <1>2 DEF ServiceInv, Placed, PlacedAt, At
<1> QED
  BY <1>3, <1>4 DEF Placed, Transaction

LEMMA OneGoesOn ==
  ASSUME ServiceInv, NEW w \in Writers, NEW new, GoesOn(w, new), PlacedAt(w, new),
         request' = [request EXCEPT ![w] = new],
         rows' = rows, seen' = seen, crashes' = crashes
  PROVE  ServiceInv'
<1>1. request' \in [Writers -> Requests] /\ crashes' \in 0..MaxCrashes
  BY DEF ServiceInv, ServiceTypeOK, Requests, GoesOn
<1>2. \A v \in Writers : GoesOn(v, request'[v])
  BY StandingStill DEF ServiceInv, ServiceTypeOK
<1>3. Placed'
  BY OneIsPlaced DEF GoesOn
<1> QED
  BY <1>1, <1>2, <1>3, StoreStays

\* The transactions stay what they are when no rows come to one.
LEMMA SameTransactions ==
  ASSUME ServiceInv, NEW w \in Writers, NEW new, pending' = pending,
         ~ At(w, "insert"), new.state # "insert",
         new.state = "audit" => new.next \in 0..Count(w),
         new.state \in {"audit", "begin"} => new.run_id = w
  PROVE  PlacedAt(w, new)
<1>1. pending = [pending EXCEPT ![w] = {}]
  BY DEF ServiceInv, Placed, Transaction, At
<1> QED
  BY <1>1 DEF PlacedAt, Transaction

-----------------------------------------------------------------------------
(* The steps of a request                                                  *)

\* A request that has not been received has no run, and nobody has seen one of it.
LEMMA ReceiveKeeps ==
  ASSUME ServiceInv, NEW w \in Writers, Receive(w)
  PROVE  ServiceInv'
<1>1. PICK tenant \in Tenants \cup {NoTenant}, payload \in Payloads, header \in Keys \cup {NoKey} :
        request' = [request EXCEPT ![w] =
          [@ EXCEPT !.state = "lookup", !.tenant = tenant, !.payload = payload,
                    !.header = header]]
  BY DEF Receive
<1>2. At(w, "new") /\ rows' = rows /\ pending' = pending /\ seen' = seen /\ crashes' = crashes
  BY DEF Receive
<1>3. request' \in [Writers -> Requests] /\ request'[w].state = "lookup"
  <2> DEFINE new == [request[w] EXCEPT !.state = "lookup", !.tenant = tenant,
                                       !.payload = payload, !.header = header]
  <2>1. request \in [Writers -> Requests] /\ request' = [request EXCEPT ![w] = new]
    BY <1>1 DEF ServiceInv, ServiceTypeOK, Requests
  <2>2. new \in Requests /\ new.state = "lookup"
    BY <2>1 DEF Requests, States
  <2> QED
    BY <2>1, <2>2
<1>4. \A v \in Writers \ {w} : request'[v] = request[v]
  BY <1>1 DEF ServiceInv, ServiceTypeOK
<1>5. \A v \in Writers \ {w} : Key(v)' = Key(v) /\ Count(v)' = Count(v)
  BY <1>4 DEF Key, Count
<1>6. /\ CommittedRuns' = CommittedRuns /\ CommittedRuns \subseteq Writers \ {w}
      /\ \A row \in rows : row.run_id \in Writers \ {w}
      /\ \A v : Numbers(v)' = Numbers(v)
  BY <1>2 DEF ServiceInv, ServiceTypeOK, StoredByOwn, Before, At, CommittedRuns, Numbers
<1>7. \A u, v \in Writers \ {w} : Same(u, v)' = Same(u, v)
  BY <1>4, <1>5 DEF Same
<1>8. Placed'
  <2>1. pending' = [v \in Writers |-> Transaction(v, request'[v])]
    BY <1>2, <1>3, <1>4 DEF ServiceInv, Placed, Transaction, At
  <2> QED
    BY <1>3, <1>4, <1>5, <2>1 DEF ServiceInv, Placed, At
<1>9. ServiceTypeOK'
  <2>1. \A v \in Writers : \A row \in pending'[v] : row.run_id = v /\ row.n \in 0..Count(v)'
    <3> SUFFICES ASSUME NEW v \in Writers, NEW row \in pending'[v]
                 PROVE  row.run_id = v /\ row.n \in 0..Count(v)'
      OBVIOUS
    <3>1. v # w
      BY <1>2 DEF ServiceInv, Placed, Transaction, At
    <3> QED
      BY <1>2, <1>5, <3>1 DEF ServiceInv, ServiceTypeOK
  <2>2. \A row \in rows' : row.run_id \in Writers /\ row.n \in 0..Count(row.run_id)'
    BY <1>2, <1>5, <1>6 DEF ServiceInv, ServiceTypeOK
  <2> QED
    BY <1>2, <1>3, <2>1, <2>2 DEF ServiceInv, ServiceTypeOK, Requests
<1>10. StoredByOwn' /\ RunsAreWhole'
  BY <1>2, <1>4, <1>5, <1>6 DEF ServiceInv, StoredByOwn, RunsAreWhole
<1>11. Answerable'
  BY <1>3, <1>4, <1>6, <1>7 DEF ServiceInv, Answerable, At
<1>12. SawNone'
  BY <1>2, <1>3, <1>4, <1>6, <1>7 DEF ServiceInv, SawNone, Computing
<1> QED
  BY <1>8, <1>9, <1>10, <1>11, <1>12 DEF ServiceInv

\* The look-up answers with a stored run of its key or has seen that there is none.
LEMMA LookUpKeeps ==
  ASSUME ServiceInv, NEW w \in Writers, LookUp(w)
  PROVE  ServiceInv'
<1> DEFINE new == request'[w]
<1>1. At(w, "lookup") /\ rows' = rows /\ pending' = pending /\ crashes' = crashes
      /\ seen' = [seen EXCEPT ![w] = CommittedRuns]
  BY DEF LookUp
<1>2. \/ /\ Matching(w) = {}
         /\ request' = [request EXCEPT ![w].state = "compute"]
      \/ \E run \in Matching(w) :
           request' = [request EXCEPT ![w].state = "respond", ![w].run_id = run]
  BY DEF LookUp, Goto
<1>3. CommittedRuns \subseteq Writers /\ CommittedRuns' = CommittedRuns
      /\ \A v : Numbers(v)' = Numbers(v)
  BY <1>1 DEF ServiceInv, ServiceTypeOK, CommittedRuns, Numbers
<1>4. \A run \in Matching(w) : run \in CommittedRuns /\ Same(run, w)
  BY DEF Matching, Same
<1>5. /\ request' \in [Writers -> Requests]
      /\ \A v \in Writers \ {w} : request'[v] = request[v]
      /\ new.tenant = request[w].tenant /\ new.payload = request[w].payload
      /\ new.header = request[w].header
      /\ \/ new.state = "compute" /\ Matching(w) = {}
         \/ new.state = "respond" /\ new.run_id \in Matching(w)
  BY <1>2, <1>3, <1>4 DEF ServiceInv, ServiceTypeOK, Requests, States
<1>6. \A v \in Writers : Key(v)' = Key(v) /\ Count(v)' = Count(v)
                         /\ request'[v].tenant = request[v].tenant
  BY <1>5 DEF Key, Count
<1>7. \A u, v \in Writers : Same(u, v)' = Same(u, v)
  BY <1>6 DEF Same
<1>8. w \notin CommittedRuns /\ \A row \in rows : row.run_id # w
  BY <1>1 DEF ServiceInv, StoredByOwn, CommittedRuns, Before, At
<1>9. Placed'
  <2>1. pending' = [v \in Writers |-> Transaction(v, request'[v])]
    BY <1>1, <1>5 DEF ServiceInv, Placed, Transaction, At
  <2> QED
    BY <1>5, <1>6, <2>1 DEF ServiceInv, Placed, At
<1>10. ServiceTypeOK'
  BY <1>1, <1>3, <1>5, <1>6 DEF ServiceInv, ServiceTypeOK, Requests
<1>11. StoredByOwn' /\ RunsAreWhole'
  BY <1>1, <1>3, <1>5, <1>6, <1>8 DEF ServiceInv, ServiceTypeOK, StoredByOwn, RunsAreWhole
<1>12. Answerable'
  BY <1>3, <1>4, <1>5, <1>7 DEF ServiceInv, Answerable, At
<1>13. SawNone'
  <2>1. seen' \in [Writers -> SUBSET Writers] /\ seen'[w] = CommittedRuns
        /\ \A v \in Writers \ {w} : seen'[v] = seen[v]
    BY <1>1, <1>3 DEF ServiceInv, ServiceTypeOK
  <2>2. new.state = "compute" => \A v \in CommittedRuns : ~ Same(v, w)
    BY <1>5 DEF Matching, Same
  <2>3. ASSUME NEW v \in Writers, request'[v].state \in Computing \/ v \in CommittedRuns'
        PROVE  \A u \in seen'[v] : ~ Same(u, v)'
    <3>1. CASE v = w
      BY <1>3, <1>5, <1>7, <1>8, <2>1, <2>2, <2>3, <3>1 DEF Computing
    <3>2. CASE v # w
      BY <1>3, <1>5, <1>7, <2>1, <2>3, <3>2 DEF ServiceInv, SawNone
    <3> QED
      BY <3>1, <3>2
  <2> QED
    BY <1>3, <2>1, <2>3 DEF ServiceInv, SawNone
<1> QED
  BY <1>9, <1>10, <1>11, <1>12, <1>13 DEF ServiceInv

\* Steps that leave the store alone.
LEMMA ComputeKeeps ==
  ASSUME ServiceInv, NEW w \in Writers, Compute(w)
  PROVE  ServiceInv'
<1>1. request \in [Writers -> Requests] /\ At(w, "compute")
      /\ rows' = rows /\ pending' = pending /\ seen' = seen /\ crashes' = crashes
  BY DEF ServiceInv, ServiceTypeOK, Requests, Compute
<1>2. CASE Goto(w, "failed")
  <2> DEFINE new == [request[w] EXCEPT !.state = "failed"]
  <2>1. GoesOn(w, new)
    BY <1>1 DEF GoesOn, Requests, States, Before, Computing, At
  <2>2. PlacedAt(w, new)
    BY <1>1, SameTransactions DEF At, Requests
  <2>3. request' = [request EXCEPT ![w] = new]
    BY <1>1, <1>2 DEF Goto
  <2> QED
    BY <1>1, <2>1, <2>2, <2>3, OneGoesOn
<1>3. CASE request' = [request EXCEPT ![w].state = "audit", ![w].run_id = w, ![w].next = 0]
  <2> DEFINE new == [request[w] EXCEPT !.state = "audit", !.run_id = w, !.next = 0]
  <2>1. GoesOn(w, new)
    BY <1>1 DEF GoesOn, Requests, States, Before, Computing, At
  <2>2. PlacedAt(w, new)
    <3>1. 0 \in 0..Count(w) /\ ~ At(w, "insert")
      BY <1>1, CountIsNat DEF ServiceInv, At
    <3>2. new.state = "audit" /\ new.next = 0 /\ new.run_id = w
      BY <1>1 DEF Requests
    <3> HIDE DEF new
    <3> QED
      BY <1>1, <3>1, <3>2, SameTransactions
  <2>3. request' = [request EXCEPT ![w] = new]
    BY <1>1, <1>3
  <2> QED
    BY <1>1, <2>1, <2>2, <2>3, OneGoesOn
<1> QED
  BY <1>2, <1>3 DEF Compute

LEMMA UnchangedKeeps ==
  ASSUME ServiceInv, UNCHANGED serviceVars
  PROVE  ServiceInv'
<1>1. request' = request /\ rows' = rows /\ pending' = pending /\ seen' = seen
      /\ crashes' = crashes
  BY DEF serviceVars
<1>2. request' \in [Writers -> Requests] /\ crashes' \in 0..MaxCrashes
  BY <1>1 DEF ServiceInv, ServiceTypeOK, Requests
<1>3. \A v \in Writers : GoesOn(v, request'[v])
  BY <1>1, StandingStill
<1>4. Placed'
  BY <1>1 DEF ServiceInv, Placed, Transaction, At, Count
<1> QED
  BY <1>1, <1>2, <1>3, <1>4, StoreStays

LEMMA EndAppendKeeps ==
  ASSUME ServiceInv, NEW w \in Writers, EndAppend(w)
  PROVE  ServiceInv'
<1>1. request \in [Writers -> Requests]
      /\ rows' = rows /\ pending' = pending /\ seen' = seen /\ crashes' = crashes
  BY DEF ServiceInv, ServiceTypeOK, Requests, EndAppend
<1>2. CASE At(w, "log")
  <2> DEFINE new == [request[w] EXCEPT !.state = "answered"]
  <2>1. request[w].stored /\ request[w].run_id \in CommittedRuns /\ Same(request[w].run_id, w)
    BY <1>2 DEF ServiceInv, Answerable, At
  <2>2. GoesOn(w, new)
    BY <1>1, <1>2, <2>1 DEF GoesOn, Requests, States, Before, Computing, At
  <2>3. PlacedAt(w, new)
    BY <1>1, <1>2, SameTransactions DEF At, Requests
  <2>4. request' = [request EXCEPT ![w] = new]
    BY <1>1, <1>2, <2>1 DEF EndAppend
  <2> QED
    BY <1>1, <2>2, <2>3, <2>4, OneGoesOn
<1>3. CASE At(w, "audit")
  <2>1. ~ At(w, "log") /\ request[w].run_id = w /\ request[w].next \in 0..Count(w)
        /\ Count(w) \in Nat
    BY <1>3, CountIsNat DEF At, ServiceInv, Placed
  <2>2. CASE request[w].next < Count(w)
    <3> DEFINE new == [request[w] EXCEPT !.next = @ + 1]
    <3>1. GoesOn(w, new)
      BY <1>1, <1>3 DEF GoesOn, Requests, States, Before, Computing, At
    <3>2. PlacedAt(w, new)
      <4>1. new.state = "audit" /\ new.next \in 0..Count(w) /\ new.run_id = w
            /\ ~ At(w, "insert")
        BY <1>1, <1>3, <2>1, <2>2 DEF At, Requests
      <4> HIDE DEF new
      <4> QED
        BY <1>1, <4>1, SameTransactions
    <3>3. request' = [request EXCEPT ![w] = new]
      BY <1>1, <2>1, <2>2 DEF EndAppend
    <3> QED
      BY <1>1, <3>1, <3>2, <3>3, OneGoesOn
  <2>3. CASE ~ (request[w].next < Count(w))
    <3> DEFINE new == [request[w] EXCEPT !.state = "begin"]
    <3>1. GoesOn(w, new)
      BY <1>1, <1>3 DEF GoesOn, Requests, States, Before, Computing, At
    <3>2. PlacedAt(w, new)
      BY <1>1, <1>3, <2>1, SameTransactions DEF At, Requests
    <3>3. request' = [request EXCEPT ![w] = new]
      BY <1>1, <2>1, <2>3 DEF EndAppend
    <3> QED
      BY <1>1, <3>1, <3>2, <3>3, OneGoesOn
  <2> QED
    BY <2>2, <2>3
<1> QED
  BY <1>2, <1>3 DEF EndAppend

LEMMA TornAppendKeeps ==
  ASSUME ServiceInv, NEW w \in Writers, TornAppend(w)
  PROVE  ServiceInv'
<1> DEFINE new == [request[w] EXCEPT !.state = "failed"]
<1>1. request \in [Writers -> Requests] /\ (At(w, "audit") \/ At(w, "log"))
      /\ rows' = rows /\ pending' = pending /\ seen' = seen /\ crashes' = crashes
  BY DEF ServiceInv, ServiceTypeOK, Requests, TornAppend
<1>2. GoesOn(w, new)
  BY <1>1 DEF GoesOn, Requests, States, Before, Computing, At
<1>3. PlacedAt(w, new)
  BY <1>1, SameTransactions DEF At, Requests
<1>4. request' = [request EXCEPT ![w] = new]
  BY <1>1 DEF TornAppend, Goto
<1> QED
  BY <1>1, <1>2, <1>3, <1>4, OneGoesOn

LEMMA BeginKeeps ==
  ASSUME ServiceInv, NEW w \in Writers, Begin(w)
  PROVE  ServiceInv'
<1> DEFINE new == [request[w] EXCEPT !.state = "insert", !.next = 0]
<1>1. request \in [Writers -> Requests] /\ At(w, "begin") /\ Count(w) \in Nat
      /\ request[w].run_id = w
      /\ rows' = rows /\ pending' = pending /\ seen' = seen /\ crashes' = crashes
  BY CountIsNat DEF ServiceInv, ServiceTypeOK, Placed, Requests, Begin, At
<1>2. GoesOn(w, new)
  BY <1>1 DEF GoesOn, Requests, States, Before, Computing, At
<1>3. PlacedAt(w, new)
  <2>1. pending = [pending EXCEPT ![w] = {}]
    BY <1>1 DEF ServiceInv, Placed, Transaction, At
  <2>2. new.state = "insert" /\ new.next = 0 /\ new.run_id = w /\ 0 \in 0..(Count(w) + 1)
    BY <1>1 DEF Requests
  <2>3. Transaction(w, new) = {}
    BY <2>2 DEF Transaction
  <2> HIDE DEF new
  <2> QED
    BY <1>1, <2>1, <2>2, <2>3 DEF PlacedAt
<1>4. request' = [request EXCEPT ![w] = new]
  BY <1>1 DEF Begin
<1> QED
  BY <1>1, <1>2, <1>3, <1>4, OneGoesOn

LEMMA InsertKeeps ==
  ASSUME ServiceInv, NEW w \in Writers, Insert(w)
  PROVE  ServiceInv'
<1> DEFINE new == [request[w] EXCEPT !.next = @ + 1]
<1>1. request \in [Writers -> Requests] /\ At(w, "insert") /\ Count(w) \in Nat
      /\ request[w].next \in 0..Count(w) /\ request[w].run_id = w
      /\ rows' = rows /\ seen' = seen /\ crashes' = crashes
      /\ pending' = [pending EXCEPT ![w] = @ \cup {Row(w, request[w].next)}]
  BY CountIsNat DEF ServiceInv, ServiceTypeOK, Placed, Requests, Insert, At
<1>2. GoesOn(w, new)
  BY <1>1 DEF GoesOn, Requests, States, Before, Computing, At
<1>3. PlacedAt(w, new)
  <2>1. pending \in [Writers -> {Transaction(v, request[v]) : v \in Writers}]
        /\ pending[w] = {Row(w, k) : k \in 0..(request[w].next - 1)}
    BY <1>1 DEF ServiceInv, Placed, Transaction, At
  <2>2. Transaction(w, new) = {Row(w, k) : k \in 0..request[w].next}
    BY <1>1 DEF Transaction, At, Requests
  <2>3. 0..request[w].next = 0..(request[w].next - 1) \cup {request[w].next}
    BY <1>1
  <2>4. Transaction(w, new) = pending[w] \cup {Row(w, request[w].next)}
    BY <2>1, <2>2, <2>3, Zenon
  <2>5. new.state = "insert" /\ new.run_id = w /\ new.next \in 0..(Count(w) + 1)
    BY <1>1 DEF Requests, At
  <2> HIDE DEF new
  <2> QED
    BY <1>1, <2>1, <2>4, <2>5 DEF PlacedAt
<1>4. request' = [request EXCEPT ![w] = new]
  BY <1>1 DEF Insert
<1> QED
  BY <1>1, <1>2, <1>3, <1>4, OneGoesOn

LEMMA FailSaveKeeps ==
  ASSUME ServiceInv, NEW w \in Writers, FailSave(w)
  PROVE  ServiceInv'
<1> DEFINE new == [request[w] EXCEPT !.state = "failed"]
<1>1. request \in [Writers -> Requests] /\ (At(w, "begin") \/ At(w, "insert"))
      /\ rows' = rows /\ seen' = seen /\ crashes' = crashes
      /\ pending' = [pending EXCEPT ![w] = {}]
  BY DEF ServiceInv, ServiceTypeOK, Requests, FailSave
<1>2. GoesOn(w, new)
  BY <1>1 DEF GoesOn, Requests, States, Before, Computing, At
<1>3. PlacedAt(w, new)
  BY <1>1 DEF PlacedAt, Transaction, Requests
<1>4. request' = [request EXCEPT ![w] = new]
  BY <1>1 DEF FailSave, Goto
<1> QED
  BY <1>1, <1>2, <1>3, <1>4, OneGoesOn

\* get_run finds the run: it is stored and of the caller's tenant.
LEMMA RespondKeeps ==
  ASSUME ServiceInv, NEW w \in Writers, Respond(w)
  PROVE  ServiceInv'
<1> DEFINE state == IF request[w].tenant # NoTenant THEN "log" ELSE "answered"
           new == [request[w] EXCEPT !.stored = TRUE, !.state = state]
<1>1. request \in [Writers -> Requests] /\ At(w, "respond")
      /\ rows' = rows /\ pending' = pending /\ seen' = seen /\ crashes' = crashes
  BY DEF ServiceInv, ServiceTypeOK, Requests, Respond
<1>2. request[w].run_id \in CommittedRuns /\ Same(request[w].run_id, w)
  BY <1>1 DEF ServiceInv, Answerable, At
<1>3. Stored(request[w].run_id, request[w].tenant) = TRUE
  BY <1>2 DEF Stored, Same
<1>4. GoesOn(w, new)
  BY <1>1, <1>2 DEF GoesOn, Requests, States, Before, Computing, At
<1>5. PlacedAt(w, new)
  <2>1. new.state \in {"log", "answered"} /\ ~ At(w, "insert")
    BY <1>1 DEF At, Requests
  <2> HIDE DEF new
  <2> QED
    BY <1>1, <2>1, SameTransactions
<1>6. request' = [request EXCEPT ![w] = new]
  BY <1>1, <1>3 DEF Respond
<1> QED
  BY <1>1, <1>4, <1>5, <1>6, OneGoesOn

\* The whole run comes to the store at once; a COMMIT that does not make it leaves
\* everything as it was.
LEMMA CommitKeeps ==
  ASSUME ServiceInv, NEW w \in Writers, Commit(w)
  PROVE  ServiceInv'
<1>1. /\ request \in [Writers -> Requests] /\ At(w, "insert") /\ Count(w) \in Nat
      /\ request[w].next = Count(w) + 1 /\ request[w].run_id = w
      /\ pending' = [pending EXCEPT ![w] = {}] /\ seen' = seen /\ crashes' = crashes
  BY CountIsNat DEF ServiceInv, ServiceTypeOK, Placed, Requests, Commit, At
<1>2. CASE rows' = rows /\ Goto(w, "failed")
  <2> DEFINE new == [request[w] EXCEPT !.state = "failed"]
  <2>1. GoesOn(w, new)
    BY <1>1 DEF GoesOn, Requests, States, Before, Computing, At
  <2>2. PlacedAt(w, new)
    BY <1>1 DEF PlacedAt, Transaction, Requests
  <2>3. request' = [request EXCEPT ![w] = new]
    BY <1>1, <1>2 DEF Goto
  <2> QED
    BY <1>1, <1>2, <2>1, <2>2, <2>3, OneGoesOn
<1>3. CASE rows' = rows \cup pending[w] /\ (Goto(w, "respond") \/ Goto(w, "failed"))
  <2>1. /\ request' \in [Writers -> Requests]
        /\ \A v \in Writers \ {w} : request'[v] = request[v]
        /\ request'[w].state \in {"respond", "failed"} /\ request'[w].run_id = w
        /\ request'[w].tenant = request[w].tenant /\ request'[w].payload = request[w].payload
        /\ request'[w].header = request[w].header
    BY <1>1, <1>3 DEF Goto, Requests, States
  <2>2. \A v \in Writers : Key(v)' = Key(v) /\ Count(v)' = Count(v)
                           /\ request'[v].tenant = request[v].tenant
    BY <2>1 DEF Key, Count
  <2>3. \A u, v \in Writers : Same(u, v)' = Same(u, v)
    BY <2>2 DEF Same
  <2>4. pending[w] = {Row(w, k) : k \in 0..Count(w)}
    BY <1>1 DEF ServiceInv, Placed, Transaction, At
  <2>5. /\ \A row \in rows : row.run_id \in Writers \ {w}
        /\ \A row \in pending[w] : row.run_id = w /\ row.n \in 0..Count(w)
    BY <1>1, <2>4 DEF ServiceInv, ServiceTypeOK, StoredByOwn, Before, At, Row
  <2>6. CommittedRuns' = CommittedRuns \cup {w} /\ CommittedRuns' \subseteq Writers
    <3>1. Row(w, 0) \in rows' /\ Row(w, 0).run_id = w /\ Row(w, 0).n = 0
      BY <1>1, <1>3, <2>4 DEF Row
    <3>2. CommittedRuns \subseteq CommittedRuns' /\ w \in CommittedRuns'
      BY <1>3, <3>1 DEF CommittedRuns
    <3> QED
      BY <1>3, <2>5, <3>2 DEF CommittedRuns
  <2>7. Numbers(w)' = 0..Count(w)
    <3>1. \A k \in 0..Count(w) : Row(w, k) \in rows' /\ Row(w, k).run_id = w /\ Row(w, k).n = k
      BY <1>3, <2>4 DEF Row
    <3>2. \A row \in rows' : row.run_id = w => row.n \in 0..Count(w)
      BY <1>3, <2>5
    <3> QED
      BY <3>1, <3>2 DEF Numbers
  <2>8. \A v \in Writers \ {w} : Numbers(v)' = Numbers(v)
    BY <1>3, <2>5 DEF Numbers
  <2>9. Placed'
    <3>1. pending' = [v \in Writers |-> Transaction(v, request'[v])]
      BY <1>1, <2>1 DEF ServiceInv, Placed, Transaction
    <3>2. \A v \in Writers :
            /\ At(v, "insert")' => request'[v].next \in 0..(Count(v)' + 1)
            /\ At(v, "audit")' => request'[v].next \in 0..Count(v)'
            /\ request'[v].state \in {"audit", "begin", "insert"} => request'[v].run_id = v
      BY <2>1, <2>2 DEF ServiceInv, Placed, At
    <3> QED
      BY <3>1, <3>2 DEF Placed, Transaction
  <2>10. ServiceTypeOK'
    <3>1. \A v \in Writers : \A row \in pending'[v] : row.run_id = v /\ row.n \in 0..Count(v)'
      <4> SUFFICES ASSUME NEW v \in Writers, NEW row \in pending'[v]
                   PROVE  row.run_id = v /\ row.n \in 0..Count(v)'
        OBVIOUS
      <4>1. v # w
        BY <1>1 DEF ServiceInv, Placed
      <4> QED
        BY <1>1, <2>2, <4>1 DEF ServiceInv, ServiceTypeOK, Placed
    <3>2. \A row \in rows' : row.run_id \in Writers /\ row.n \in 0..Count(row.run_id)'
      BY <1>3, <2>2, <2>5 DEF ServiceInv, ServiceTypeOK
    <3> QED
      BY <1>1, <2>1, <3>1, <3>2 DEF ServiceInv, ServiceTypeOK, Requests
  <2>11. StoredByOwn'
    BY <1>3, <2>1, <2>5 DEF ServiceInv, StoredByOwn, Before
  <2>12. RunsAreWhole'
    <3> SUFFICES ASSUME NEW row \in rows' PROVE Numbers(row.run_id)' = 0..Count(row.run_id)'
      BY DEF RunsAreWhole
    <3>1. CASE row \in rows
      BY <2>2, <2>5, <2>8, <3>1 DEF ServiceInv, RunsAreWhole
    <3>2. CASE row \in pending[w]
      BY <2>2, <2>5, <2>7, <3>2
    <3> QED
      BY <1>3, <3>1, <3>2
  <2>13. Answerable'
    <3> SUFFICES ASSUME NEW v \in Writers
                 PROVE  /\ request'[v].state \in {"respond", "log", "answered"} =>
                             request'[v].run_id \in CommittedRuns' /\ Same(request[v].run_id, v)'
                        /\ request'[v].state = "log" => request'[v].stored
                        /\ request'[v].state # "type_error"
      BY DEF Answerable, At
    <3>1. CASE v = w
      BY <2>1, <2>6, <3>1 DEF Same
    <3>2. CASE v # w
      BY <2>1, <2>3, <2>6, <3>2 DEF ServiceInv, Answerable, At
    <3> QED
      BY <3>1, <3>2
  <2>14. SawNone'
    BY <1>1, <2>1, <2>3, <2>6 DEF ServiceInv, SawNone, Computing, At
  <2> QED
    BY <2>9, <2>10, <2>11, <2>12, <2>13, <2>14 DEF ServiceInv
<1> QED
  BY <1>2, <1>3 DEF Commit

\* What dies loses its transaction and nothing that is stored.
LEMMA CrashKeeps ==
  ASSUME ServiceInv, NEW ofApi \in BOOLEAN, Crash(ofApi)
  PROVE  ServiceInv'
<1> DEFINE dying == {w \in Writers : InFlight(w) /\ (request[w].tenant # NoTenant) = ofApi}
<1>1. /\ request' = [w \in Writers |->
           IF w \in dying THEN [request[w] EXCEPT !.state = "lost"] ELSE request[w]]
      /\ pending' = [w \in Writers |-> IF w \in dying THEN {} ELSE pending[w]]
      /\ rows' = rows /\ seen' = seen
  BY DEF Crash
<1>2. crashes' \in 0..MaxCrashes
  BY ServiceAssumption DEF ServiceInv, ServiceTypeOK, Crash
<1>3. request \in [Writers -> Requests]
  BY DEF ServiceInv, ServiceTypeOK, Requests
<1> HIDE DEF dying
<1>4. \A v \in Writers : GoesOn(v, request'[v])
  <2> SUFFICES ASSUME NEW v \in Writers PROVE GoesOn(v, request'[v])
    OBVIOUS
  <2>1. CASE v \in dying
    <3>1. request[v].state \in Before \/ request'[v].run_id = request[v].run_id
      BY <1>1, <1>3, <2>1 DEF Requests
    <3> QED
      BY <1>1, <1>3, <2>1, <3>1 DEF GoesOn, Requests, States, Before, Computing
  <2>2. CASE v \notin dying
    BY <1>1, <2>2, StandingStill
  <2> QED
    BY <2>1, <2>2
<1>5. request' \in [Writers -> Requests]
  BY <1>1, <1>4 DEF GoesOn
<1>6. Placed'
  <2>1. \A v \in Writers : Count(v)' = Count(v)
    BY <1>4 DEF GoesOn, Count
  <2>2. \A v \in dying \cap Writers : request'[v].state = "lost"
    BY <1>1, <1>3 DEF Requests
  <2>3. \A v \in Writers \ dying : request'[v] = request[v]
    BY <1>1
  <2>4. pending' = [v \in Writers |-> Transaction(v, request'[v])]
    BY <1>1, <2>2, <2>3 DEF ServiceInv, Placed, Transaction
  <2>5. \A v \in Writers :
          /\ At(v, "insert")' => request'[v].next \in 0..(Count(v)' + 1)
          /\ At(v, "audit")' => request'[v].next \in 0..Count(v)'
          /\ request'[v].state \in {"audit", "begin", "insert"} => request'[v].run_id = v
    BY <2>1, <2>2, <2>3 DEF ServiceInv, Placed, At
  <2> QED
    BY <2>4, <2>5 DEF Placed, Transaction
<1> QED
  BY <1>1, <1>2, <1>4, <1>5, <1>6, StoreStays

-----------------------------------------------------------------------------
LEMMA ServiceSteps == ServiceInv /\ [Next]_vars => ServiceInv'
<1> SUFFICES ASSUME ServiceInv, [Next]_vars PROVE ServiceInv'
  OBVIOUS
<1>1. ASSUME NEW w \in Writers, Receive(w) PROVE ServiceInv'
  BY <1>1, ReceiveKeeps
<1>2. ASSUME NEW w \in Writers, LookUp(w) PROVE ServiceInv'
  BY <1>2, LookUpKeeps
<1>3. ASSUME NEW w \in Writers, Compute(w) PROVE ServiceInv'
  BY <1>3, ComputeKeeps
<1>4. ASSUME NEW w \in Writers, BeginAppend(w) PROVE ServiceInv'
  BY <1>4, UnchangedKeeps DEF BeginAppend
<1>5. ASSUME NEW w \in Writers, EndAppend(w) PROVE ServiceInv'
  BY <1>5, EndAppendKeeps
<1>6. ASSUME NEW w \in Writers, TornAppend(w) PROVE ServiceInv'
  BY <1>6, TornAppendKeeps
<1>7. ASSUME NEW w \in Writers, Begin(w) PROVE ServiceInv'
  BY <1>7, BeginKeeps
<1>8. ASSUME NEW w \in Writers, Insert(w) PROVE ServiceInv'
  BY <1>8, InsertKeeps
<1>9. ASSUME NEW w \in Writers, Commit(w) PROVE ServiceInv'
  BY <1>9, CommitKeeps
<1>10. ASSUME NEW w \in Writers, FailSave(w) PROVE ServiceInv'
  BY <1>10, FailSaveKeeps
<1>11. ASSUME NEW w \in Writers, Respond(w) PROVE ServiceInv'
  BY <1>11, RespondKeeps
<1>12. ASSUME NEW ofApi \in BOOLEAN, Crash(ofApi) PROVE ServiceInv'
  BY <1>12, CrashKeeps
<1>13. CASE UNCHANGED vars
  BY <1>13, UnchangedKeeps DEF vars
<1> QED
  BY <1>1, <1>2, <1>3, <1>4, <1>5, <1>6, <1>7, <1>8, <1>9, <1>10, <1>11, <1>12, <1>13 DEF Next

\* The inductive invariant: a request's counter, transaction and run are those of
\* the point it has come to, whatever else the service is doing, has torn or lost.
THEOREM ServiceInvariant == Spec => []ServiceInv
BY ServiceStarts, ServiceSteps, PTL DEF Spec

\* The type invariant.
THEOREM ServiceIsTyped == Spec => []ServiceTypeOK
<1>1. ServiceInv => ServiceTypeOK
  BY DEF ServiceInv
<1> QED
  BY <1>1, ServiceInvariant, PTL

\* A run is stored with all its exceptions or not at all (save_run's transaction).
THEOREM StoredRunsAreWhole == Spec => []RunsAreWhole
<1>1. ServiceInv => RunsAreWhole
  BY DEF ServiceInv
<1> QED
  BY <1>1, ServiceInvariant, PTL

\* Every answer is a run stored for the caller's tenant and key, so get_run never
\* returns the None that its callers subscript.
THEOREM AnswersAreStored == Spec => []AnswersWithAStoredRun
<1>1. ServiceInv => AnswersWithAStoredRun
  BY DEF ServiceInv, Answerable, AnswersWithAStoredRun, Stored, Same, At
<1> QED
  BY <1>1, ServiceInvariant, PTL

\* Only requests that overlap between look-up and COMMIT store two runs of a key.
THEOREM DuplicatesHaveRaced == Spec => []OnlyRacesDuplicate
<1>1. ServiceInv => OnlyRacesDuplicate
  <2> SUFFICES ASSUME ServiceInv, NEW v \in CommittedRuns, NEW w \in CommittedRuns,
                      Key(v) = Key(w), request[v].tenant = request[w].tenant
               PROVE  v \notin seen[w] /\ w \notin seen[v]
    BY DEF OnlyRacesDuplicate
  <2>1. v \in Writers /\ w \in Writers
    BY DEF ServiceInv, ServiceTypeOK, CommittedRuns
  <2> QED
    BY <2>1 DEF ServiceInv, SawNone, Same
<1> QED
  BY <1>1, ServiceInvariant, PTL

-----------------------------------------------------------------------------
(* The refinement of the abstract store                                    *)

\* What the log holds: events in records in the pieces of lines.
Events == [about : {"decision", "reconcile"}, run_id : Writers \cup {"none"}, n : Nat]
Records == [prev_hash : Seq(Events), event : Events, hash : Seq(Events)]
Pieces == [whole : BOOLEAN, record : Records]

LogShape ==
  /\ lines \in Seq(Seq(Pieces))
  /\ terminated \/ lines # <<>>
  /\ call = [w \in Writers |-> call[w]]
  /\ \A w \in Writers : Writing(w) => call[w].record \in Records

\* A record under way is the one its request has to append next.
Underway ==
  \A w \in Writers : Writing(w) =>
     \/ At(w, "audit") /\ call[w].record.event = Decision(w, request[w].next)
     \/ At(w, "log") /\ call[w].record.event = Reconciled(request[w].run_id)

\* The decisions a request has come past are in the log.
Recorded ==
  \A w \in Writers :
     /\ At(w, "audit") => \A k \in 0..(request[w].next - 1) : InLog(Decision(w, k))
     /\ request[w].state \in {"begin", "insert"} =>
          \A k \in 0..Count(w) : InLog(Decision(w, k))

RecordInv == ServiceInv /\ LogShape /\ Underway /\ Recorded

-----------------------------------------------------------------------------
LEMMA RecordStarts == Init => RecordInv
<1> SUFFICES ASSUME Init PROVE RecordInv
  OBVIOUS
<1>1. ServiceInv
  BY ServiceStarts
<1>2. LogShape
  BY DEF Init, InitLog, LogShape, Writing, Idle
<1>3. Underway /\ Recorded
  BY DEF Init, InitLog, Underway, Recorded, Writing, Idle, At, NewRequest
<1> QED
  BY <1>1, <1>2, <1>3 DEF RecordInv

\* A write adds one piece to the file, at its end, and with it at most one event.
LEMMA WriteAdds ==
  ASSUME LogShape, NEW piece \in Pieces, lines' = Written(piece)
  PROVE  /\ lines' \in Seq(Seq(Pieces)) /\ lines' # <<>>
         /\ \A event : InLog(event)' <=>
              InLog(event) \/ (piece.whole /\ piece.record.event = event)
<1>1. lines \in Seq(Seq(Pieces)) /\ Len(lines) \in Nat /\ DOMAIN lines = 1..Len(lines)
  BY DEF LogShape
<1>2. CASE terminated
  <2>1. lines' = Append(lines, <<piece>>) /\ <<piece>> \in Seq(Pieces)
    BY <1>2 DEF Written
  <2>2. /\ lines' \in Seq(Seq(Pieces)) /\ Len(lines') = Len(lines) + 1
        /\ \A i \in 1..Len(lines) : lines'[i] = lines[i]
        /\ lines'[Len(lines) + 1] = <<piece>>
    BY <1>1, <2>1
  <2>3. DOMAIN lines' = 1..Len(lines') /\ lines' # <<>>
    BY <2>2
  <2>4. ASSUME NEW event PROVE InLog(event)' <=> InLog(event) \/ (piece.whole /\ piece.record.event = event)
    <3>1. InLog(event) => InLog(event)'
      BY <1>1, <2>2, <2>3 DEF InLog
    <3>2. piece.whole /\ piece.record.event = event => InLog(event)'
      <4>1. Len(lines) + 1 \in DOMAIN lines' /\ 1 \in DOMAIN lines'[Len(lines) + 1]
            /\ lines'[Len(lines) + 1][1] = piece
        BY <1>1, <2>2, <2>3
      <4> QED
        BY <4>1 DEF InLog
    <3>3. ASSUME InLog(event)' PROVE InLog(event) \/ (piece.whole /\ piece.record.event = event)
      <4>1. PICK i \in DOMAIN lines' : \E j \in DOMAIN lines'[i] :
              lines'[i][j].whole /\ lines'[i][j].record.event = event
        BY <3>3 DEF InLog
      <4>1a. PICK j \in DOMAIN lines'[i] : lines'[i][j].whole /\ lines'[i][j].record.event = event
        BY <4>1
      <4>2. CASE i \in 1..Len(lines)
        BY <1>1, <2>2, <4>1a, <4>2 DEF InLog
      <4>3. CASE i = Len(lines) + 1
        <5>1. j = 1 /\ lines'[i][j] = piece
          BY <2>2, <4>1a, <4>3
        <5> QED
          BY <4>1a, <5>1
      <4> QED
        BY <1>1, <2>2, <2>3, <4>2, <4>3
    <3> QED
      BY <3>1, <3>2, <3>3
  <2> QED
    BY <2>2, <2>3, <2>4
<1>3. CASE ~ terminated
  <2>0. PICK last : last = Len(lines)
    OBVIOUS
  <2> DEFINE line == Append(lines[last], piece)
  <2>1. last \in 1..Len(lines) /\ lines[last] \in Seq(Pieces)
    BY <1>1, <1>3, <2>0 DEF LogShape
  <2>2. lines' = [lines EXCEPT ![last] = line]
    BY <1>3, <2>0 DEF Written
  <2>3. /\ line \in Seq(Pieces) /\ DOMAIN line = 1..(Len(lines[last]) + 1)
        /\ \A j \in 1..Len(lines[last]) : line[j] = lines[last][j]
        /\ line[Len(lines[last]) + 1] = piece
        /\ Len(lines[last]) \in Nat /\ DOMAIN lines[last] = 1..Len(lines[last])
    BY <2>1
  <2> HIDE DEF line
  <2>4. /\ lines' \in Seq(Seq(Pieces)) /\ Len(lines') = last /\ DOMAIN lines' = 1..last
        /\ \A i \in 1..last : i # last => lines'[i] = lines[i]
        /\ lines'[last] = line /\ lines' # <<>>
    <3>1. lines' \in Seq(Seq(Pieces)) /\ Len(lines') = Len(lines)
      BY <1>1, <2>1, <2>2, <2>3, ExceptSeq
    <3>2. DOMAIN lines' = 1..last
      BY <1>1, <2>0, <2>2
    <3>3. \A i \in 1..last : i # last => lines'[i] = lines[i]
      BY <1>1, <2>0, <2>2
    <3>4. lines'[last] = line
      BY <1>1, <2>1, <2>2
    <3>5. lines' # <<>>
      BY <1>1, <2>1, <3>1
    <3> QED
      BY <2>0, <3>1, <3>2, <3>3, <3>4, <3>5
  <2>5. ASSUME NEW event PROVE InLog(event)' <=> InLog(event) \/ (piece.whole /\ piece.record.event = event)
    <3>1. ASSUME InLog(event) PROVE InLog(event)'
      <4>1. PICK i \in DOMAIN lines : \E j \in DOMAIN lines[i] :
              lines[i][j].whole /\ lines[i][j].record.event = event
        BY <3>1 DEF InLog
      <4>1a. PICK j \in DOMAIN lines[i] : lines[i][j].whole /\ lines[i][j].record.event = event
        BY <4>1
      <4>2. i \in DOMAIN lines' /\ j \in DOMAIN lines'[i] /\ lines'[i][j] = lines[i][j]
        <5>1. CASE i = last
          <6>1. j \in 1..Len(lines[last])
            BY <2>3, <5>1
          <6>2. j \in DOMAIN line /\ line[j] = lines[last][j]
            BY <2>3, <6>1
          <6> QED
            BY <2>0, <2>1, <2>4, <5>1, <6>2
        <5>2. CASE i # last
          BY <1>1, <2>0, <2>4, <5>2
        <5> QED
          BY <5>1, <5>2
      <4> QED
        BY <4>1a, <4>2 DEF InLog
    <3>2. piece.whole /\ piece.record.event = event => InLog(event)'
      <4>1. last \in DOMAIN lines' /\ Len(lines[last]) + 1 \in DOMAIN lines'[last]
            /\ lines'[last][Len(lines[last]) + 1] = piece
        <5>1. Len(lines[last]) + 1 \in DOMAIN line
          BY <2>3
        <5> QED
          BY <2>0, <2>1, <2>3, <2>4, <5>1
      <4> QED
        BY <4>1 DEF InLog
    <3>3. ASSUME InLog(event)' PROVE InLog(event) \/ (piece.whole /\ piece.record.event = event)
      <4>1. PICK i \in DOMAIN lines' : \E j \in DOMAIN lines'[i] :
              lines'[i][j].whole /\ lines'[i][j].record.event = event
        BY <3>3 DEF InLog
      <4>1a. PICK j \in DOMAIN lines'[i] : lines'[i][j].whole /\ lines'[i][j].record.event = event
        BY <4>1
      <4>2. CASE i # last
        BY <1>1, <2>0, <2>4, <4>1a, <4>2 DEF InLog
      <4>3. CASE i = last /\ j \in 1..Len(lines[last])
        <5>1. i \in DOMAIN lines /\ j \in DOMAIN lines[i] /\ lines'[i][j] = lines[i][j]
          BY <1>1, <2>1, <2>3, <2>4, <4>3
        <5> QED
          BY <4>1a, <5>1 DEF InLog
      <4>4. CASE i = last /\ j = Len(lines[last]) + 1
        BY <2>3, <2>4, <4>1a, <4>4
      <4> QED
        BY <2>3, <2>4, <4>1a, <4>2, <4>3, <4>4
    <3> QED
      BY <3>1, <3>2, <3>3
  <2> QED
    BY <2>4, <2>5
<1> QED
  BY <1>2, <1>3

\* append reads a hash of the log, and the record it makes is one.
LEMMA ReadsARecord ==
  ASSUME LogShape, NEW event \in Events
  PROVE  Record(LastHash, event) \in Records
<1>1. LastHash \in Seq(Events)
  <2>1. CASE lines # <<>> /\ Parses(lines[Len(lines)])
    <3>1. Len(lines) \in 1..Len(lines) /\ lines[Len(lines)] \in Seq(Pieces)
      BY <2>1 DEF LogShape
    <3>2. lines[Len(lines)][1] \in Pieces
      BY <2>1, <3>1 DEF Parses
    <3> QED
      BY <2>1, <3>2 DEF LastHash, Parsed, Pieces, Records
  <2>2. CASE ~ (lines # <<>> /\ Parses(lines[Len(lines)]))
    BY <2>2 DEF LastHash, Genesis
  <2> QED
    BY <2>1, <2>2
<1>2. Hash(LastHash, event) \in Seq(Events)
  BY <1>1 DEF Hash
<1> QED
  BY <1>1, <1>2 DEF Record, Records

LEMMA PiecesOfRecords ==
  ASSUME NEW record \in Records
  PROVE  /\ Whole(record) \in Pieces /\ Whole(record).whole /\ Whole(record).record = record
         /\ Cut(record) \in Pieces /\ ~ Cut(record).whole
BY DEF Whole, Cut, Pieces

-----------------------------------------------------------------------------
(* The record of decisions is kept                                         *)

\* A step that leaves the log alone, of a request that is not appending.
LEMMA QuietStep ==
  ASSUME RecordInv, ServiceInv', UNCHANGED logVars, NEW w \in Writers,
         ~ At(w, "audit"), ~ At(w, "log"),
         \A v \in Writers \ {w} : request'[v] = request[v],
         request'[w].state = "audit" => request'[w].next = 0,
         request'[w].state \in {"begin", "insert"} =>
           request[w].state \in {"begin", "insert"} /\ Count(w)' = Count(w)
  PROVE  RecordInv'
<1>1. lines' = lines /\ terminated' = terminated /\ call' = call
  BY DEF logVars
<1>2. \A event : InLog(event)' <=> InLog(event)
  BY <1>1 DEF InLog
<1>3. LogShape'
  BY <1>1 DEF RecordInv, LogShape, Writing
<1>4. ~ Writing(w)
  BY DEF RecordInv, Underway
<1>5. Underway'
  BY <1>1, <1>4 DEF RecordInv, Underway, Writing, At
<1>6. \A v \in Writers \ {w} : Count(v)' = Count(v)
  BY DEF Count
<1>7. Recorded'
  BY <1>2, <1>6 DEF RecordInv, Recorded, At
<1> QED
  BY <1>3, <1>5, <1>7 DEF RecordInv

LEMMA UnchangedRecord ==
  ASSUME RecordInv, UNCHANGED vars
  PROVE  RecordInv'
<1>1. ServiceInv'
  BY UnchangedKeeps DEF RecordInv, vars
<1>2. lines' = lines /\ terminated' = terminated /\ call' = call /\ request' = request
  BY DEF vars, logVars, serviceVars
<1>3. LogShape'
  BY <1>2 DEF RecordInv, LogShape, Writing
<1>4. Underway'
  BY <1>2 DEF RecordInv, Underway, Writing, At
<1>5. Recorded'
  BY <1>2 DEF RecordInv, Recorded, At, Count, InLog
<1> QED
  BY <1>1, <1>3, <1>4, <1>5 DEF RecordInv

LEMMA BeginAppendRecord ==
  ASSUME RecordInv, NEW w \in Writers, BeginAppend(w)
  PROVE  RecordInv'
<1>1. /\ At(w, "audit") \/ At(w, "log")
      /\ call' = [call EXCEPT ![w] =
                    [state |-> "writing", record |-> Record(LastHash, NextEvent(w))]]
      /\ lines' = lines /\ terminated' = terminated /\ request' = request
      /\ UNCHANGED serviceVars
  BY DEF BeginAppend, ReadLast, serviceVars
<1>2. ServiceInv'
  BY <1>1, UnchangedKeeps DEF RecordInv
<1>3. NextEvent(w) \in Events
  <2>1. request[w].next \in Nat /\ request[w].run_id \in Writers \cup {"none"}
    BY DEF RecordInv, ServiceInv, ServiceTypeOK
  <2> QED
    BY <2>1 DEF NextEvent, Decision, Reconciled, Events
<1>4. Record(LastHash, NextEvent(w)) \in Records
  BY <1>3, ReadsARecord DEF RecordInv
<1>5. Record(LastHash, NextEvent(w)).event = NextEvent(w)
  BY DEF Record
<1>6. /\ call'[w].record = Record(LastHash, NextEvent(w))
      /\ \A v \in Writers \ {w} : call'[v] = call[v]
      /\ call' = [v \in Writers |-> call'[v]]
  BY <1>1 DEF RecordInv, LogShape
<1>7. LogShape'
  BY <1>1, <1>4, <1>6 DEF RecordInv, LogShape, Writing
<1>8. Underway'
  BY <1>1, <1>5, <1>6 DEF RecordInv, Underway, Writing, At, NextEvent
<1>9. Recorded'
  BY <1>1 DEF RecordInv, Recorded, At, Count, InLog
<1> QED
  BY <1>2, <1>7, <1>8, <1>9 DEF RecordInv

\* What the end of an append writes is its own event.
LEMMA EndAppendLogs ==
  ASSUME RecordInv, NEW w \in Writers, EndAppend(w)
  PROVE  /\ lines' \in Seq(Seq(Pieces)) /\ terminated'
         /\ call' = [call EXCEPT ![w] = Idle]
         /\ \A event : InLog(event)' <=> InLog(event) \/ event = NextEvent(w)
<1>1. /\ Writing(w) /\ lines' = Written(Whole(call[w].record)) /\ terminated' = TRUE
      /\ call' = [call EXCEPT ![w] = Idle]
  BY DEF EndAppend, WriteRecord
<1>2. call[w].record \in Records /\ call[w].record.event = NextEvent(w)
  BY <1>1 DEF RecordInv, LogShape, Underway, NextEvent, At
<1>3. /\ Whole(call[w].record) \in Pieces /\ Whole(call[w].record).whole
      /\ Whole(call[w].record).record = call[w].record
  BY <1>2, PiecesOfRecords
<1> QED
  BY <1>1, <1>2, <1>3, WriteAdds DEF RecordInv

LEMMA EndAppendRecord ==
  ASSUME RecordInv, NEW w \in Writers, EndAppend(w)
  PROVE  RecordInv'
<1>1. ServiceInv'
  BY EndAppendKeeps DEF RecordInv
<1>2. /\ lines' \in Seq(Seq(Pieces)) /\ terminated' /\ call' = [call EXCEPT ![w] = Idle]
      /\ \A event : InLog(event)' <=> InLog(event) \/ event = NextEvent(w)
  BY EndAppendLogs
<1>3. call' = [v \in Writers |-> call'[v]] /\ ~ Writing(w)'
      /\ \A v \in Writers \ {w} : call'[v] = call[v]
  BY <1>2 DEF RecordInv, LogShape, Writing, Idle
<1>4. LogShape'
  BY <1>2, <1>3 DEF RecordInv, LogShape, Writing
<1>5. /\ request \in [Writers -> Requests]
      /\ \A v \in Writers \ {w} : request'[v] = request[v] /\ Count(v)' = Count(v)
  BY DEF RecordInv, ServiceInv, ServiceTypeOK, Requests, EndAppend, Count
<1>6. Underway'
  BY <1>3, <1>5 DEF RecordInv, Underway, Writing, At
<1>7. Recorded'
  <2>1. CASE At(w, "log")
    <3>1. request'[w].state \in {"answered", "type_error"}
      BY <1>5, <2>1 DEF EndAppend, Requests
    <3> QED
      BY <1>2, <1>5, <3>1 DEF RecordInv, Recorded, At
  <2>2. CASE At(w, "audit")
    <3>1. /\ ~ At(w, "log") /\ NextEvent(w) = Decision(w, request[w].next)
          /\ request[w].next \in 0..Count(w) /\ Count(w) \in Nat
          /\ \A k \in 0..(request[w].next - 1) : InLog(Decision(w, k))
      BY <2>2, CountIsNat DEF At, NextEvent, RecordInv, ServiceInv, Placed, Recorded
    <3>2. \A k \in 0..request[w].next : InLog(Decision(w, k))'
      BY <1>2, <3>1
    <3>3. \/ request'[w].state = "audit" /\ request'[w].next = request[w].next + 1
          \/ request'[w].state = "begin" /\ request[w].next = Count(w)
      <4>1. CASE request[w].next < Count(w)
        BY <1>5, <2>2, <3>1, <4>1 DEF EndAppend, Requests, At
      <4>2. CASE ~ request[w].next < Count(w)
        BY <1>5, <2>2, <3>1, <4>2 DEF EndAppend, Requests, At
      <4> QED
        BY <4>1, <4>2
    <3>4. Count(w)' = Count(w)
      <4>1. request'[w].payload = request[w].payload
        BY <1>5, <2>2, <3>1 DEF EndAppend, Requests
      <4> QED
        BY <4>1 DEF Count
    <3>5. /\ At(w, "audit")' => \A k \in 0..(request'[w].next - 1) : InLog(Decision(w, k))'
          /\ request'[w].state \in {"begin", "insert"} =>
               \A k \in 0..Count(w)' : InLog(Decision(w, k))'
      BY <3>1, <3>2, <3>3, <3>4 DEF At
    <3>6. \A v \in Writers \ {w} :
          /\ At(v, "audit")' => \A k \in 0..(request'[v].next - 1) : InLog(Decision(v, k))'
          /\ request'[v].state \in {"begin", "insert"} =>
               \A k \in 0..Count(v)' : InLog(Decision(v, k))'
      BY <1>2, <1>5 DEF RecordInv, Recorded, At
    <3> QED
      BY <3>5, <3>6 DEF Recorded
  <2> QED
    BY <2>1, <2>2 DEF EndAppend
<1> QED
  BY <1>1, <1>4, <1>6, <1>7 DEF RecordInv

\* A torn append adds its event or nothing.
LEMMA TornAppendLogs ==
  ASSUME RecordInv, NEW w \in Writers, TornAppend(w)
  PROVE  /\ lines' \in Seq(Seq(Pieces)) /\ (terminated' \/ lines' # <<>>)
         /\ call' = [call EXCEPT ![w] = Idle]
         /\ \/ \A event : InLog(event)' <=> InLog(event)
            \/ \A event : InLog(event)' <=> InLog(event) \/ event = NextEvent(w)
<1>1. /\ Writing(w) /\ call' = [call EXCEPT ![w] = Idle]
      /\ \/ lines' = lines /\ terminated' = terminated
         \/ lines' = Written(Cut(call[w].record))
         \/ lines' = Written(Whole(call[w].record))
  BY DEF TornAppend, Tear
<1>2. call[w].record \in Records /\ call[w].record.event = NextEvent(w)
  BY <1>1 DEF RecordInv, LogShape, Underway, NextEvent, At
<1>3. /\ Whole(call[w].record) \in Pieces /\ Whole(call[w].record).whole
      /\ Whole(call[w].record).record = call[w].record
      /\ Cut(call[w].record) \in Pieces /\ ~ Cut(call[w].record).whole
  BY <1>2, PiecesOfRecords
<1>4. CASE lines' = lines /\ terminated' = terminated
  BY <1>1, <1>4 DEF RecordInv, LogShape, InLog
<1>5. CASE lines' = Written(Cut(call[w].record))
  BY <1>1, <1>3, <1>5, WriteAdds DEF RecordInv
<1>6. CASE lines' = Written(Whole(call[w].record))
  BY <1>1, <1>2, <1>3, <1>6, WriteAdds DEF RecordInv
<1> QED
  BY <1>1, <1>4, <1>5, <1>6

LEMMA TornAppendRecord ==
  ASSUME RecordInv, NEW w \in Writers, TornAppend(w)
  PROVE  RecordInv'
<1>1. ServiceInv'
  BY TornAppendKeeps DEF RecordInv
<1>2. /\ lines' \in Seq(Seq(Pieces)) /\ (terminated' \/ lines' # <<>>)
      /\ call' = [call EXCEPT ![w] = Idle]
      /\ \A event : InLog(event) => InLog(event)'
  BY TornAppendLogs
<1>3. call' = [v \in Writers |-> call'[v]] /\ ~ Writing(w)'
      /\ \A v \in Writers \ {w} : call'[v] = call[v]
  BY <1>2 DEF RecordInv, LogShape, Writing, Idle
<1>4. LogShape'
  BY <1>2, <1>3 DEF RecordInv, LogShape, Writing
<1>5. /\ request'[w].state = "failed"
      /\ \A v \in Writers \ {w} : request'[v] = request[v] /\ Count(v)' = Count(v)
  BY DEF RecordInv, ServiceInv, ServiceTypeOK, TornAppend, Goto, Count
<1>6. Underway'
  BY <1>3, <1>5 DEF RecordInv, Underway, Writing, At
<1>7. Recorded'
  BY <1>2, <1>5 DEF RecordInv, Recorded, At
<1> QED
  BY <1>1, <1>4, <1>6, <1>7 DEF RecordInv

LEMMA CrashRecord ==
  ASSUME RecordInv, NEW ofApi \in BOOLEAN, Crash(ofApi)
  PROVE  RecordInv'
<1> DEFINE dying == {w \in Writers : InFlight(w) /\ (request[w].tenant # NoTenant) = ofApi}
<1>1. /\ request' = [w \in Writers |->
           IF w \in dying THEN [request[w] EXCEPT !.state = "lost"] ELSE request[w]]
      /\ call' = [w \in Writers |-> IF w \in dying THEN Idle ELSE call[w]]
      /\ lines' = lines /\ terminated' = terminated
  BY DEF Crash
<1>2. ServiceInv'
  BY CrashKeeps DEF RecordInv
<1>3. request \in [Writers -> Requests]
  BY DEF RecordInv, ServiceInv, ServiceTypeOK, Requests
<1> HIDE DEF dying
<1>4. \A v \in Writers :
        \/ request'[v].state = "lost" /\ ~ Writing(v)'
        \/ request'[v] = request[v] /\ call'[v] = call[v] /\ Count(v)' = Count(v)
  BY <1>1, <1>3 DEF Requests, Writing, Idle, Count
<1>5. LogShape'
  BY <1>1, <1>4 DEF RecordInv, LogShape, Writing
<1>6. Underway'
  BY <1>4 DEF RecordInv, Underway, Writing, At
<1>7. \A event : InLog(event)' <=> InLog(event)
  BY <1>1 DEF InLog
<1>8. Recorded'
  BY <1>4, <1>7 DEF RecordInv, Recorded, At
<1> QED
  BY <1>2, <1>5, <1>6, <1>8 DEF RecordInv
LEMMA ReceiveRecord ==
  ASSUME RecordInv, NEW w \in Writers, Receive(w)
  PROVE  RecordInv'
<1>1. ServiceInv' /\ UNCHANGED logVars /\ request \in [Writers -> Requests]
  BY ReceiveKeeps DEF RecordInv, ServiceInv, ServiceTypeOK, Requests, Receive
<1>2. \A v \in Writers \ {w} : request'[v] = request[v]
  BY <1>1 DEF Receive, Goto
<1>3. ~ At(w, "audit") /\ ~ At(w, "log")
  BY DEF Receive, At
<1>4. /\ request'[w].state = "audit" => request'[w].next = 0
      /\ request'[w].state \in {"begin", "insert"} =>
           request[w].state \in {"begin", "insert"} /\ Count(w)' = Count(w)
  BY <1>1 DEF Receive, Goto, At, Requests, Count
<1> QED
  BY <1>1, <1>2, <1>3, <1>4, QuietStep

LEMMA LookUpRecord ==
  ASSUME RecordInv, NEW w \in Writers, LookUp(w)
  PROVE  RecordInv'
<1>1. ServiceInv' /\ UNCHANGED logVars /\ request \in [Writers -> Requests]
  BY LookUpKeeps DEF RecordInv, ServiceInv, ServiceTypeOK, Requests, LookUp
<1>2. \A v \in Writers \ {w} : request'[v] = request[v]
  BY <1>1 DEF LookUp, Goto
<1>3. ~ At(w, "audit") /\ ~ At(w, "log")
  BY DEF LookUp, At
<1>4. /\ request'[w].state = "audit" => request'[w].next = 0
      /\ request'[w].state \in {"begin", "insert"} =>
           request[w].state \in {"begin", "insert"} /\ Count(w)' = Count(w)
  BY <1>1 DEF LookUp, Goto, At, Requests, Count
<1> QED
  BY <1>1, <1>2, <1>3, <1>4, QuietStep

LEMMA ComputeRecord ==
  ASSUME RecordInv, NEW w \in Writers, Compute(w)
  PROVE  RecordInv'
<1>1. ServiceInv' /\ UNCHANGED logVars /\ request \in [Writers -> Requests]
  BY ComputeKeeps DEF RecordInv, ServiceInv, ServiceTypeOK, Requests, Compute
<1>2. \A v \in Writers \ {w} : request'[v] = request[v]
  BY <1>1 DEF Compute, Goto
<1>3. ~ At(w, "audit") /\ ~ At(w, "log")
  BY DEF Compute, At
<1>4. /\ request'[w].state = "audit" => request'[w].next = 0
      /\ request'[w].state \in {"begin", "insert"} =>
           request[w].state \in {"begin", "insert"} /\ Count(w)' = Count(w)
  BY <1>1 DEF Compute, Goto, At, Requests, Count
<1> QED
  BY <1>1, <1>2, <1>3, <1>4, QuietStep

LEMMA BeginRecord ==
  ASSUME RecordInv, NEW w \in Writers, Begin(w)
  PROVE  RecordInv'
<1>1. ServiceInv' /\ UNCHANGED logVars /\ request \in [Writers -> Requests]
  BY BeginKeeps DEF RecordInv, ServiceInv, ServiceTypeOK, Requests, Begin
<1>2. \A v \in Writers \ {w} : request'[v] = request[v]
  BY <1>1 DEF Begin, Goto
<1>3. ~ At(w, "audit") /\ ~ At(w, "log")
  BY DEF Begin, At
<1>4. /\ request'[w].state = "audit" => request'[w].next = 0
      /\ request'[w].state \in {"begin", "insert"} =>
           request[w].state \in {"begin", "insert"} /\ Count(w)' = Count(w)
  BY <1>1 DEF Begin, Goto, At, Requests, Count
<1> QED
  BY <1>1, <1>2, <1>3, <1>4, QuietStep

LEMMA InsertRecord ==
  ASSUME RecordInv, NEW w \in Writers, Insert(w)
  PROVE  RecordInv'
<1>1. ServiceInv' /\ UNCHANGED logVars /\ request \in [Writers -> Requests]
  BY InsertKeeps DEF RecordInv, ServiceInv, ServiceTypeOK, Requests, Insert
<1>2. \A v \in Writers \ {w} : request'[v] = request[v]
  BY <1>1 DEF Insert, Goto
<1>3. ~ At(w, "audit") /\ ~ At(w, "log")
  BY DEF Insert, At
<1>4. /\ request'[w].state = "audit" => request'[w].next = 0
      /\ request'[w].state \in {"begin", "insert"} =>
           request[w].state \in {"begin", "insert"} /\ Count(w)' = Count(w)
  BY <1>1 DEF Insert, Goto, At, Requests, Count
<1> QED
  BY <1>1, <1>2, <1>3, <1>4, QuietStep

LEMMA CommitRecord ==
  ASSUME RecordInv, NEW w \in Writers, Commit(w)
  PROVE  RecordInv'
<1>1. ServiceInv' /\ UNCHANGED logVars /\ request \in [Writers -> Requests]
  BY CommitKeeps DEF RecordInv, ServiceInv, ServiceTypeOK, Requests, Commit
<1>2. \A v \in Writers \ {w} : request'[v] = request[v]
  BY <1>1 DEF Commit, Goto
<1>3. ~ At(w, "audit") /\ ~ At(w, "log")
  BY DEF Commit, At
<1>4. /\ request'[w].state = "audit" => request'[w].next = 0
      /\ request'[w].state \in {"begin", "insert"} =>
           request[w].state \in {"begin", "insert"} /\ Count(w)' = Count(w)
  BY <1>1 DEF Commit, Goto, At, Requests, Count
<1> QED
  BY <1>1, <1>2, <1>3, <1>4, QuietStep

LEMMA FailSaveRecord ==
  ASSUME RecordInv, NEW w \in Writers, FailSave(w)
  PROVE  RecordInv'
<1>1. ServiceInv' /\ UNCHANGED logVars /\ request \in [Writers -> Requests]
  BY FailSaveKeeps DEF RecordInv, ServiceInv, ServiceTypeOK, Requests, FailSave
<1>2. \A v \in Writers \ {w} : request'[v] = request[v]
  BY <1>1 DEF FailSave, Goto
<1>3. ~ At(w, "audit") /\ ~ At(w, "log")
  BY DEF FailSave, At
<1>4. /\ request'[w].state = "audit" => request'[w].next = 0
      /\ request'[w].state \in {"begin", "insert"} =>
           request[w].state \in {"begin", "insert"} /\ Count(w)' = Count(w)
  BY <1>1 DEF FailSave, Goto, At, Requests, Count
<1> QED
  BY <1>1, <1>2, <1>3, <1>4, QuietStep

LEMMA RespondRecord ==
  ASSUME RecordInv, NEW w \in Writers, Respond(w)
  PROVE  RecordInv'
<1>1. ServiceInv' /\ UNCHANGED logVars /\ request \in [Writers -> Requests]
  BY RespondKeeps DEF RecordInv, ServiceInv, ServiceTypeOK, Requests, Respond
<1>2. \A v \in Writers \ {w} : request'[v] = request[v]
  BY <1>1 DEF Respond, Goto
<1>3. ~ At(w, "audit") /\ ~ At(w, "log")
  BY DEF Respond, At
<1>4. /\ request'[w].state = "audit" => request'[w].next = 0
      /\ request'[w].state \in {"begin", "insert"} =>
           request[w].state \in {"begin", "insert"} /\ Count(w)' = Count(w)
  BY <1>1 DEF Respond, Goto, At, Requests, Count
<1> QED
  BY <1>1, <1>2, <1>3, <1>4, QuietStep

LEMMA RecordSteps == RecordInv /\ [Next]_vars => RecordInv'
<1> SUFFICES ASSUME RecordInv, [Next]_vars PROVE RecordInv'
  OBVIOUS
<1>1. ASSUME NEW w \in Writers,
             Receive(w) \/ LookUp(w) \/ Compute(w) \/ Begin(w) \/ Insert(w) \/ Commit(w)
             \/ FailSave(w) \/ Respond(w)
      PROVE  RecordInv'
  BY <1>1, ReceiveRecord, LookUpRecord, ComputeRecord, BeginRecord, InsertRecord, CommitRecord,
     FailSaveRecord, RespondRecord
<1>2. ASSUME NEW w \in Writers, BeginAppend(w) PROVE RecordInv'
  BY <1>2, BeginAppendRecord
<1>3. ASSUME NEW w \in Writers, EndAppend(w) PROVE RecordInv'
  BY <1>3, EndAppendRecord
<1>4. ASSUME NEW w \in Writers, TornAppend(w) PROVE RecordInv'
  BY <1>4, TornAppendRecord
<1>5. ASSUME NEW ofApi \in BOOLEAN, Crash(ofApi) PROVE RecordInv'
  BY <1>5, CrashRecord
<1>6. CASE UNCHANGED vars
  BY <1>6, UnchangedRecord
<1> QED
  BY <1>1, <1>2, <1>3, <1>4, <1>5, <1>6 DEF Next

-----------------------------------------------------------------------------
(* The steps of the service are steps of the store                         *)

\* What Promise makes of the state of the service.
asked == [w \in {v \in Writers : ~ At(v, "new")} |-> Asked(w)]
store ==
  [run \in {row.run_id : row \in rows} |->
    [owner |-> request[run].tenant, key |-> Key(run), decisions |-> Numbers(run)]]
answer == [w \in {v \in Writers : At(v, "answered")} |-> request[w].run_id]

LEMMA StoreStarts == Init => Promise!Init
<1> SUFFICES ASSUME Init PROVE Promise!Init
  OBVIOUS
<1>1. asked = <<>> /\ answer = <<>>
  <2>1. {v \in Writers : ~ At(v, "new")} = {} /\ {v \in Writers : At(v, "answered")} = {}
    BY DEF Init, NewRequest, At
  <2>2. asked = <<>>
    BY <2>1 DEF asked
  <2>3. answer = <<>>
    BY <2>1 DEF answer
  <2> QED
    BY <2>2, <2>3
<1>2. store = <<>>
  BY DEF Init, store
<1>3. OnRecord = {}
  BY DEF Init, InitLog, OnRecord, InLog
<1> QED
  BY <1>1, <1>2, <1>3 DEF Promise!Init, asked, store, answer

\* A client asks the same when it is past its arrival and asks for the same.
AsksTheSame(v) ==
  /\ At(v, "new")' <=> At(v, "new")
  /\ request'[v].tenant = request[v].tenant /\ request'[v].payload = request[v].payload
  /\ request'[v].header = request[v].header

LEMMA AskedStays ==
  ASSUME \A v \in Writers : AsksTheSame(v)
  PROVE  asked' = asked
<1>1. \A v \in Writers : Asked(v)' = Asked(v)
  BY DEF AsksTheSame, Asked, Key, Count
<1>2. {v \in Writers : ~ At(v, "new")}' = {v \in Writers : ~ At(v, "new")}
  BY DEF AsksTheSame
<1> QED
  BY <1>1, <1>2 DEF asked

LEMMA StoreStaysPut ==
  ASSUME RecordInv, rows' = rows, \A v \in Writers : ~ At(v, "new") => AsksTheSame(v)
  PROVE  store' = store
<1>1. \A run \in {row.run_id : row \in rows} : run \in Writers /\ AsksTheSame(run)
  BY DEF RecordInv, ServiceInv, ServiceTypeOK, StoredByOwn, Before, At
<1>2. \A run \in {row.run_id : row \in rows} :
        /\ request'[run].tenant = request[run].tenant
        /\ Key(run)' = Key(run) /\ Numbers(run)' = Numbers(run)
  BY <1>1 DEF AsksTheSame, Key, Numbers
<1> QED
  BY <1>2 DEF store

LEMMA AnswersStay ==
  ASSUME \A v \in Writers : /\ At(v, "answered")' <=> At(v, "answered")
                            /\ At(v, "answered") => request'[v].run_id = request[v].run_id
  PROVE  answer' = answer
<1>1. {v \in Writers : At(v, "answered")}' = {v \in Writers : At(v, "answered")}
  OBVIOUS
<1> QED
  BY <1>1 DEF answer

LEMMA RecordStays ==
  ASSUME \A event : InLog(event)' <=> InLog(event)
  PROVE  OnRecord' = OnRecord
BY DEF OnRecord

LEMMA NothingHappens ==
  ASSUME asked' = asked, OnRecord' = OnRecord, store' = store, answer' = answer
  PROVE  [Promise!Next]_Promise!vars
BY DEF Promise!vars, asked, store, answer

\* A decision comes on record, if it is not, before its run is stored.
LEMMA DecisionRecorded ==
  ASSUME RecordInv, NEW w \in Writers, At(w, "audit"),
         asked' = asked, store' = store, answer' = answer,
         \A event : InLog(event)' <=> InLog(event) \/ event = NextEvent(w)
  PROVE  [Promise!Next]_Promise!vars
<1> DEFINE d == [run_id |-> w, n |-> request[w].next]
<1>1. request[w].next \in 0..Count(w) /\ Count(w) \in Counts
      /\ NextEvent(w) = Decision(w, request[w].next)
  BY DEF RecordInv, ServiceInv, ServiceTypeOK, Placed, Count, Counts, NextEvent, At
<1>2. d \in [run_id : Writers, n : UNION {0..k : k \in Counts}]
  BY <1>1
<1>3. \A e \in [run_id : Writers, n : UNION {0..k : k \in Counts}] :
        Decision(e.run_id, e.n) = NextEvent(w) <=> e = d
  BY <1>1, <1>2 DEF Decision
<1>4. OnRecord' = OnRecord \cup {d}
  BY <1>2, <1>3 DEF OnRecord
<1>5. w \in Writers \ DOMAIN store
  BY DEF RecordInv, ServiceInv, StoredByOwn, Before, At, store
<1>6. CASE d \in OnRecord
  <2>1. OnRecord' = OnRecord
    BY <1>4, <1>6
  <2> QED
    BY <2>1, NothingHappens
<1>7. CASE d \notin OnRecord
  <2>1. d \in OnRecord' \ OnRecord /\ d.run_id = w
    BY <1>4, <1>7
  <2> HIDE DEF d
  <2>2. Promise!PutOnRecord
    BY <1>4, <1>5, <2>1 DEF Promise!PutOnRecord, asked, store, answer
  <2> QED
    BY <2>2 DEF Promise!Next
<1> QED
  BY <1>6, <1>7

\* An answer is one with a stored run of the caller's tenant and key.
LEMMA AnswerGiven ==
  ASSUME RecordInv, NEW w \in Writers, request[w].state \in {"respond", "log"},
         asked' = asked, OnRecord' = OnRecord, store' = store,
         request'[w].state = "answered", request'[w].run_id = request[w].run_id,
         \A v \in Writers \ {w} : request'[v] = request[v]
  PROVE  [Promise!Next]_Promise!vars
<1> DEFINE run == request[w].run_id
<1>1. run \in CommittedRuns /\ Same(run, w)
  BY DEF RecordInv, ServiceInv, Answerable
<1>2. /\ w \in DOMAIN asked /\ asked[w] = Asked(w) /\ w \notin DOMAIN answer
      /\ run \in DOMAIN store
      /\ store[run] = [owner |-> request[run].tenant, key |-> Key(run), decisions |-> Numbers(run)]
  BY <1>1 DEF asked, answer, store, CommittedRuns, At
<1>3. store[run].owner = asked[w].owner /\ store[run].key = asked[w].key
  BY <1>1, <1>2 DEF Asked, Same
<1>4. answer' = Promise!With(answer, w, run)
  <2>1. {v \in Writers : At(v, "answered")}' = {v \in Writers : At(v, "answered")} \cup {w}
    BY DEF At
  <2>2. \A v \in Writers : v # w => request'[v].run_id = request[v].run_id
    OBVIOUS
  <2> QED
    BY <2>1, <2>2 DEF answer, Promise!With
<1> HIDE DEF run
<1>5. Promise!Reply
  BY <1>2, <1>3, <1>4 DEF Promise!Reply, asked, store, answer
<1> QED
  BY <1>5 DEF Promise!Next
LEMMA LookUpMaps ==
  ASSUME RecordInv, NEW w \in Writers, LookUp(w)
  PROVE  [Promise!Next]_Promise!vars
<1>1. request \in [Writers -> Requests] /\ rows' = rows /\ lines' = lines
  BY DEF RecordInv, ServiceInv, ServiceTypeOK, Requests, LookUp, logVars
<1>2. \A v \in Writers :
        /\ AsksTheSame(v) /\ (At(v, "answered")' <=> At(v, "answered"))
        /\ At(v, "answered") => request'[v].run_id = request[v].run_id
  BY <1>1 DEF LookUp, AsksTheSame, At, Goto, Requests
<1>3. asked' = asked /\ store' = store /\ answer' = answer
  BY <1>1, <1>2, AskedStays, StoreStaysPut, AnswersStay
<1>4. OnRecord' = OnRecord
  BY <1>1 DEF OnRecord, InLog
<1> QED
  BY <1>3, <1>4, NothingHappens

LEMMA ComputeMaps ==
  ASSUME RecordInv, NEW w \in Writers, Compute(w)
  PROVE  [Promise!Next]_Promise!vars
<1>1. request \in [Writers -> Requests] /\ rows' = rows /\ lines' = lines
  BY DEF RecordInv, ServiceInv, ServiceTypeOK, Requests, Compute, logVars
<1>2. \A v \in Writers :
        /\ AsksTheSame(v) /\ (At(v, "answered")' <=> At(v, "answered"))
        /\ At(v, "answered") => request'[v].run_id = request[v].run_id
  BY <1>1 DEF Compute, AsksTheSame, At, Goto, Requests
<1>3. asked' = asked /\ store' = store /\ answer' = answer
  BY <1>1, <1>2, AskedStays, StoreStaysPut, AnswersStay
<1>4. OnRecord' = OnRecord
  BY <1>1 DEF OnRecord, InLog
<1> QED
  BY <1>3, <1>4, NothingHappens

LEMMA BeginMaps ==
  ASSUME RecordInv, NEW w \in Writers, Begin(w)
  PROVE  [Promise!Next]_Promise!vars
<1>1. request \in [Writers -> Requests] /\ rows' = rows /\ lines' = lines
  BY DEF RecordInv, ServiceInv, ServiceTypeOK, Requests, Begin, logVars
<1>2. \A v \in Writers :
        /\ AsksTheSame(v) /\ (At(v, "answered")' <=> At(v, "answered"))
        /\ At(v, "answered") => request'[v].run_id = request[v].run_id
  BY <1>1 DEF Begin, AsksTheSame, At, Goto, Requests
<1>3. asked' = asked /\ store' = store /\ answer' = answer
  BY <1>1, <1>2, AskedStays, StoreStaysPut, AnswersStay
<1>4. OnRecord' = OnRecord
  BY <1>1 DEF OnRecord, InLog
<1> QED
  BY <1>3, <1>4, NothingHappens

LEMMA InsertMaps ==
  ASSUME RecordInv, NEW w \in Writers, Insert(w)
  PROVE  [Promise!Next]_Promise!vars
<1>1. request \in [Writers -> Requests] /\ rows' = rows /\ lines' = lines
  BY DEF RecordInv, ServiceInv, ServiceTypeOK, Requests, Insert, logVars
<1>2. \A v \in Writers :
        /\ AsksTheSame(v) /\ (At(v, "answered")' <=> At(v, "answered"))
        /\ At(v, "answered") => request'[v].run_id = request[v].run_id
  BY <1>1 DEF Insert, AsksTheSame, At, Goto, Requests
<1>3. asked' = asked /\ store' = store /\ answer' = answer
  BY <1>1, <1>2, AskedStays, StoreStaysPut, AnswersStay
<1>4. OnRecord' = OnRecord
  BY <1>1 DEF OnRecord, InLog
<1> QED
  BY <1>3, <1>4, NothingHappens

LEMMA FailSaveMaps ==
  ASSUME RecordInv, NEW w \in Writers, FailSave(w)
  PROVE  [Promise!Next]_Promise!vars
<1>1. request \in [Writers -> Requests] /\ rows' = rows /\ lines' = lines
  BY DEF RecordInv, ServiceInv, ServiceTypeOK, Requests, FailSave, logVars
<1>2. \A v \in Writers :
        /\ AsksTheSame(v) /\ (At(v, "answered")' <=> At(v, "answered"))
        /\ At(v, "answered") => request'[v].run_id = request[v].run_id
  BY <1>1 DEF FailSave, AsksTheSame, At, Goto, Requests
<1>3. asked' = asked /\ store' = store /\ answer' = answer
  BY <1>1, <1>2, AskedStays, StoreStaysPut, AnswersStay
<1>4. OnRecord' = OnRecord
  BY <1>1 DEF OnRecord, InLog
<1> QED
  BY <1>3, <1>4, NothingHappens

LEMMA ReceiveMaps ==
  ASSUME RecordInv, NEW w \in Writers, Receive(w)
  PROVE  [Promise!Next]_Promise!vars
<1>1. /\ request \in [Writers -> Requests] /\ At(w, "new") /\ rows' = rows /\ lines' = lines
      /\ ServiceInv'
  BY ReceiveKeeps DEF RecordInv, ServiceInv, ServiceTypeOK, Requests, Receive, logVars
<1>2. request'[w].state = "lookup" /\ \A v \in Writers \ {w} : request'[v] = request[v]
  BY <1>1 DEF Receive, Requests
<1>3. Asked(w)' \in [owner : Tenants \cup {NoTenant}, key : PossibleKeys, count : Counts]
  <2>1. request'[w] \in Requests
    BY <1>1 DEF ServiceInv, ServiceTypeOK, Requests
  <2>2. Key(w)' \in PossibleKeys
    BY <2>1 DEF Key, PossibleKeys, Requests
  <2>3. Count(w)' \in Counts
    BY <2>1 DEF Count, Counts, Requests
  <2> QED
    BY <2>1, <2>2, <2>3 DEF Asked, Requests
<1>4. \A v \in Writers \ {w} : AsksTheSame(v) /\ Asked(v)' = Asked(v)
  BY <1>2 DEF AsksTheSame, At, Asked, Key, Count
<1>5. asked' = Promise!With(asked, w, Asked(w)')
  <2>1. {v \in Writers : ~ At(v, "new")}' = {v \in Writers : ~ At(v, "new")} \cup {w}
    BY <1>2 DEF At
  <2> QED
    BY <1>4, <2>1 DEF asked, Promise!With
<1>6. w \in Writers \ DOMAIN asked
  BY <1>1 DEF asked
<1>7. store' = store
  BY <1>1, <1>4, StoreStaysPut
<1>8. answer' = answer
  BY <1>1, <1>2, AnswersStay DEF At
<1>9. OnRecord' = OnRecord
  BY <1>1 DEF OnRecord, InLog
<1>10. Promise!Ask
  BY <1>3, <1>5, <1>6, <1>7, <1>8, <1>9 DEF Promise!Ask, asked, store, answer
<1> QED
  BY <1>10 DEF Promise!Next

LEMMA BeginAppendMaps ==
  ASSUME RecordInv, NEW w \in Writers, BeginAppend(w)
  PROVE  [Promise!Next]_Promise!vars
<1>1. request' = request /\ rows' = rows /\ lines' = lines
  BY DEF BeginAppend, ReadLast, serviceVars
<1>2. asked' = asked /\ store' = store /\ answer' = answer /\ OnRecord' = OnRecord
  BY <1>1 DEF asked, store, answer, At, Asked, Key, Count, Numbers, OnRecord, InLog
<1> QED
  BY <1>2, NothingHappens

LEMMA EndAppendMaps ==
  ASSUME RecordInv, NEW w \in Writers, EndAppend(w)
  PROVE  [Promise!Next]_Promise!vars
<1>1. request \in [Writers -> Requests] /\ rows' = rows
  BY DEF RecordInv, ServiceInv, ServiceTypeOK, Requests, EndAppend
<1>2. \A event : InLog(event)' <=> InLog(event) \/ event = NextEvent(w)
  BY EndAppendLogs
<1>3. \A v \in Writers : AsksTheSame(v)
  BY <1>1 DEF EndAppend, AsksTheSame, At, Requests
<1>4. asked' = asked /\ store' = store
  BY <1>1, <1>3, AskedStays, StoreStaysPut
<1>5. CASE At(w, "audit")
  <2>1. \A v \in Writers :
          /\ At(v, "answered")' <=> At(v, "answered")
          /\ At(v, "answered") => request'[v].run_id = request[v].run_id
    BY <1>1, <1>5 DEF EndAppend, At, Requests
  <2>2. answer' = answer
    BY <2>1, AnswersStay
  <2> QED
    BY <1>2, <1>4, <1>5, <2>2, DecisionRecorded
<1>6. CASE At(w, "log")
  <2>1. request[w].stored
    BY <1>6 DEF RecordInv, ServiceInv, Answerable
  <2>2. /\ request'[w].state = "answered" /\ request'[w].run_id = request[w].run_id
        /\ \A v \in Writers \ {w} : request'[v] = request[v]
    BY <1>1, <1>6, <2>1 DEF EndAppend, Requests
  <2>3. OnRecord' = OnRecord
    <3>1. \A d : Decision(d.run_id, d.n) # NextEvent(w)
      BY <1>6 DEF NextEvent, Decision, Reconciled, At
    <3> QED
      BY <1>2, <3>1 DEF OnRecord
  <2> QED
    BY <1>4, <1>6, <2>2, <2>3, AnswerGiven DEF At
<1> QED
  BY <1>5, <1>6 DEF EndAppend

LEMMA TornAppendMaps ==
  ASSUME RecordInv, NEW w \in Writers, TornAppend(w)
  PROVE  [Promise!Next]_Promise!vars
<1>1. request \in [Writers -> Requests] /\ rows' = rows /\ (At(w, "audit") \/ At(w, "log"))
  BY DEF RecordInv, ServiceInv, ServiceTypeOK, Requests, TornAppend
<1>2. \A v \in Writers :
        /\ AsksTheSame(v) /\ (At(v, "answered")' <=> At(v, "answered"))
        /\ At(v, "answered") => request'[v].run_id = request[v].run_id
  BY <1>1 DEF TornAppend, AsksTheSame, At, Goto, Requests
<1>3. asked' = asked /\ store' = store /\ answer' = answer
  BY <1>1, <1>2, AskedStays, StoreStaysPut, AnswersStay
<1>4. CASE \A event : InLog(event)' <=> InLog(event)
  BY <1>3, <1>4, RecordStays, NothingHappens
<1>5. CASE \A event : InLog(event)' <=> InLog(event) \/ event = NextEvent(w)
  <2>1. CASE At(w, "audit")
    BY <1>3, <1>5, <2>1, DecisionRecorded
  <2>2. CASE At(w, "log")
    <3>1. \A d : Decision(d.run_id, d.n) # NextEvent(w)
      BY <2>2 DEF NextEvent, Decision, Reconciled, At
    <3>2. OnRecord' = OnRecord
      BY <1>5, <3>1 DEF OnRecord
    <3> QED
      BY <1>3, <3>2, NothingHappens
  <2> QED
    BY <1>1, <2>1, <2>2
<1> QED
  BY <1>4, <1>5, TornAppendLogs

\* COMMIT stores the run, with the decisions that are on record, or does nothing.
LEMMA CommitMaps ==
  ASSUME RecordInv, NEW w \in Writers, Commit(w)
  PROVE  [Promise!Next]_Promise!vars
<1>1. /\ request \in [Writers -> Requests] /\ At(w, "insert") /\ lines' = lines
      /\ request[w].next = Count(w) + 1 /\ Count(w) \in Nat
  <2>1. ServiceInv /\ Count(w) \in Nat
    BY CountIsNat DEF RecordInv, ServiceInv
  <2>2. request[w].next \in 0..(Count(w) + 1) /\ request[w].next > Count(w)
        /\ At(w, "insert") /\ lines' = lines
    BY <2>1 DEF ServiceInv, Placed, Commit, logVars
  <2>3. request \in [Writers -> Requests]
    BY <2>1 DEF ServiceInv, ServiceTypeOK, Requests
  <2> QED
    BY <2>1, <2>2, <2>3
<1>2. \A v \in Writers :
        /\ AsksTheSame(v) /\ (At(v, "answered")' <=> At(v, "answered"))
        /\ At(v, "answered") => request'[v].run_id = request[v].run_id
  BY <1>1 DEF Commit, AsksTheSame, At, Goto, Requests
<1>3. asked' = asked /\ answer' = answer
  BY <1>2, AskedStays, AnswersStay
<1>4. OnRecord' = OnRecord
  BY <1>1 DEF OnRecord, InLog
<1>5. CASE rows' = rows
  <2>1. store' = store
    BY <1>2, <1>5, StoreStaysPut
  <2> QED
    BY <1>3, <1>4, <2>1, NothingHappens
<1>6. CASE rows' = rows \cup pending[w]
  <2>1. pending[w] = {Row(w, k) : k \in 0..Count(w)}
    BY <1>1 DEF RecordInv, ServiceInv, Placed, Transaction, At
  <2>2. \A row \in rows : row.run_id \in Writers \ {w}
    BY <1>1 DEF RecordInv, ServiceInv, ServiceTypeOK, StoredByOwn, Before, At
  <2>3. \A row \in pending[w] : row.run_id = w /\ row.n \in 0..Count(w)
    BY <2>1 DEF Row
  <2>4. \A k \in 0..Count(w) : Row(w, k) \in rows' /\ Row(w, k).run_id = w /\ Row(w, k).n = k
    BY <1>6, <2>1 DEF Row
  <2>5. {row.run_id : row \in rows'} = {row.run_id : row \in rows} \cup {w}
    <3>1. 0 \in 0..Count(w)
      BY <1>1
    <3> QED
      BY <1>6, <2>3, <2>4, <3>1
  <2>6. Numbers(w)' = 0..Count(w)
    <3>1. \A row \in rows' : row.run_id = w => row.n \in 0..Count(w)
      BY <1>6, <2>2, <2>3
    <3> QED
      BY <2>4, <3>1 DEF Numbers
  <2>7. \A v \in Writers \ {w} : Numbers(v)' = Numbers(v)
    BY <1>6, <2>3 DEF Numbers
  <2>8. \A v \in Writers : Key(v)' = Key(v) /\ request'[v].tenant = request[v].tenant
    BY <1>2 DEF AsksTheSame, Key
  <2> DEFINE new == [owner |-> request[w].tenant, key |-> Key(w), decisions |-> 0..Count(w)]
  <2>9. store' = Promise!With(store, w, new)
    BY <2>2, <2>5, <2>6, <2>7, <2>8 DEF store, Promise!With
  <2>10. /\ w \in DOMAIN asked /\ asked[w] = Asked(w) /\ w \notin DOMAIN store
         /\ Asked(w).owner = request[w].tenant /\ Asked(w).key = Key(w)
         /\ Asked(w).count = Count(w)
    BY <1>1, <2>2 DEF asked, store, At, Asked
  <2>11. \A n \in 0..Count(w) : [run_id |-> w, n |-> n] \in OnRecord
    <3>1. Count(w) \in Counts
      BY <1>1 DEF Count, Counts, Requests
    <3>2. \A n \in 0..Count(w) : InLog(Decision(w, n))
      BY <1>1 DEF RecordInv, Recorded, At
    <3> QED
      BY <3>1, <3>2 DEF OnRecord
  <2>12. Promise!Store
    BY <1>3, <1>4, <2>9, <2>10, <2>11 DEF Promise!Store, asked, store, answer
  <2> QED
    BY <2>12 DEF Promise!Next
<1> QED
  BY <1>5, <1>6 DEF Commit

LEMMA RespondMaps ==
  ASSUME RecordInv, NEW w \in Writers, Respond(w)
  PROVE  [Promise!Next]_Promise!vars
<1>1. request \in [Writers -> Requests] /\ At(w, "respond") /\ rows' = rows /\ lines' = lines
  BY DEF RecordInv, ServiceInv, ServiceTypeOK, Requests, Respond, logVars
<1>2. Stored(request[w].run_id, request[w].tenant) = TRUE
  BY <1>1 DEF RecordInv, ServiceInv, Answerable, At, Stored, Same
<1>3. /\ \A v \in Writers : AsksTheSame(v)
      /\ \A v \in Writers \ {w} : request'[v] = request[v]
      /\ request'[w].state = (IF request[w].tenant # NoTenant THEN "log" ELSE "answered")
      /\ request'[w].run_id = request[w].run_id
  BY <1>1, <1>2 DEF Respond, AsksTheSame, At, Requests
<1>4. asked' = asked /\ store' = store
  BY <1>1, <1>3, AskedStays, StoreStaysPut
<1>5. OnRecord' = OnRecord
  BY <1>1 DEF OnRecord, InLog
<1>6. CASE request[w].tenant # NoTenant
  <2>1. answer' = answer
    BY <1>1, <1>3, <1>6, AnswersStay DEF At
  <2> QED
    BY <1>4, <1>5, <2>1, NothingHappens
<1>7. CASE request[w].tenant = NoTenant
  <2>1. request[w].state = "respond" \/ request[w].state = "log"
    BY <1>1 DEF At
  <2>2. request'[w].state = "answered"
    BY <1>3, <1>7
  <2> QED
    BY <1>3, <1>4, <1>5, <2>1, <2>2, AnswerGiven
<1> QED
  BY <1>6, <1>7

LEMMA CrashMaps ==
  ASSUME RecordInv, NEW ofApi \in BOOLEAN, Crash(ofApi)
  PROVE  [Promise!Next]_Promise!vars
<1> DEFINE dying == {w \in Writers : InFlight(w) /\ (request[w].tenant # NoTenant) = ofApi}
<1>1. /\ request' = [w \in Writers |->
           IF w \in dying THEN [request[w] EXCEPT !.state = "lost"] ELSE request[w]]
      /\ rows' = rows /\ lines' = lines
  BY DEF Crash
<1>2. request \in [Writers -> Requests]
  BY DEF RecordInv, ServiceInv, ServiceTypeOK, Requests
<1>3. \A v \in dying : ~ At(v, "new") /\ ~ At(v, "answered")
  BY DEF InFlight, Ended, At
<1> HIDE DEF dying
<1>4. \A v \in Writers :
        /\ AsksTheSame(v) /\ (At(v, "answered")' <=> At(v, "answered"))
        /\ At(v, "answered") => request'[v].run_id = request[v].run_id
  BY <1>1, <1>2, <1>3 DEF AsksTheSame, At, Requests
<1>5. asked' = asked /\ store' = store /\ answer' = answer
  BY <1>1, <1>4, AskedStays, StoreStaysPut, AnswersStay
<1>6. OnRecord' = OnRecord
  BY <1>1 DEF OnRecord, InLog
<1> QED
  BY <1>5, <1>6, NothingHappens

LEMMA StoreSteps == RecordInv /\ [Next]_vars => [Promise!Next]_Promise!vars
<1> SUFFICES ASSUME RecordInv, [Next]_vars PROVE [Promise!Next]_Promise!vars
  OBVIOUS
<1>1. ASSUME NEW w \in Writers,
             LookUp(w) \/ Compute(w) \/ BeginAppend(w) \/ Begin(w) \/ Insert(w) \/ FailSave(w)
      PROVE  [Promise!Next]_Promise!vars
  BY <1>1, LookUpMaps, ComputeMaps, BeginAppendMaps, BeginMaps, InsertMaps, FailSaveMaps
<1>2. ASSUME NEW w \in Writers,
             Receive(w) \/ EndAppend(w) \/ TornAppend(w) \/ Commit(w) \/ Respond(w)
      PROVE  [Promise!Next]_Promise!vars
  BY <1>2, ReceiveMaps, EndAppendMaps, TornAppendMaps, CommitMaps, RespondMaps
<1>3. ASSUME NEW ofApi \in BOOLEAN, Crash(ofApi) PROVE [Promise!Next]_Promise!vars
  BY <1>3, CrashMaps
<1>4. CASE UNCHANGED vars
  <2>1. request' = request /\ rows' = rows /\ lines' = lines
    BY <1>4 DEF vars, serviceVars, logVars
  <2>2. asked' = asked /\ store' = store /\ answer' = answer /\ OnRecord' = OnRecord
    BY <2>1 DEF asked, store, answer, At, Asked, Key, Count, Numbers, OnRecord, InLog
  <2> QED
    BY <2>2, NothingHappens
<1> QED
  BY <1>1, <1>2, <1>3, <1>4 DEF Next

\* The inductive invariant: a request that has come past a decision has it in the
\* log, whatever has been torn or died since.
THEOREM RecordInvariant == Spec => []RecordInv
BY RecordStarts, RecordSteps, PTL DEF Spec

\* The service does what RunStore promises: decisions are on record before their
\* run is stored, runs are stored at once and never change, answers are theirs.
THEOREM ServiceImplementsStore == Spec => KeepsTheStorePromise
BY RecordInvariant, StoreStarts, StoreSteps, PTL DEF Spec, KeepsTheStorePromise, Promise!Spec
=============================================================================
