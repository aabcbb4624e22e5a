----------------------------- MODULE PoolProofs -----------------------------
(***************************************************************************)
(* What holds of the Postgres pool for every number of requests, threads   *)
(* and connections.                                                        *)
(***************************************************************************)
EXTENDS ConnectionPool, Functions, FiniteSetTheorems, TLAPS

\* From here to its end a request uses the pool it found or opened.
InPool == {"waiting"} \cup Holding

\* A pool somebody may still take a connection from, or give one back to.
InUse(q) ==
  \/ registered = q /\ registered # None
  \/ \E r \in Requests : phase[r] \in InPool /\ pool[r] = q

Holds(r, q, c) == phase[r] \in Holding /\ pool[r] = q /\ conn[r] = c

InThreads == {r \in Requests : phase[r] \in Threaded}

\* A pool is in use only when the request it is named by has opened it.
UsedWhenOpened ==
  /\ \A r \in Requests : phase[r] \in InPool => pool[r] \in Requests
  /\ \A q \in Requests : InUse(q) => phase[q] \notin {"new", "enter", "opening"}

\* No connection of a pool is lost: each is idle or with a request.
Accounted ==
  \A q \in Requests : InUse(q) =>
    \A c \in Connections : c \in idle[q] \/ \E r \in Requests : Holds(r, q, c)

\* A transaction is open only where an endpoint is at work or has raised.
OpenOnlyHeld ==
  \A q \in Requests : \A c \in open[q] :
    \E r \in Requests : Holds(r, q, c) /\ phase[r] \in {"body", "raised"}

PoolInv ==
  PoolTypeOK /\ UsedWhenOpened /\ Accounted /\ ConnectionHeldOnce /\ OpenOnlyHeld

-----------------------------------------------------------------------------
LEMMA PoolStarts == Init => PoolInv
<1> SUFFICES ASSUME Init PROVE PoolInv
  OBVIOUS
<1>1. InThreads = {}
  BY DEF Init, InThreads, Threaded
<1>2. PoolTypeOK
  <2>1. Cardinality(InThreads) = 0
    BY <1>1, FS_EmptySet
  <2> QED
    BY <2>1, PoolAssumption
    DEF Init, PoolTypeOK, InThreads, Phases, Threaded, Holding, Final, Refused, None
<1>3. UsedWhenOpened /\ Accounted /\ ConnectionHeldOnce /\ OpenOnlyHeld
  BY DEF Init, UsedWhenOpened, Accounted, ConnectionHeldOnce, OpenOnlyHeld, InUse, InPool,
         Holding
<1> QED
  BY <1>2, <1>3 DEF PoolInv

\* A request that takes or leaves a thread changes the number of those in use by one.
LEMMA ThreadTaken ==
  ASSUME PoolTypeOK, NEW r \in Requests, phase[r] \notin Threaded,
         NEW to \in Threaded, phase' = [phase EXCEPT ![r] = to]
  PROVE  Cardinality(InThreads') = busy + 1 /\ busy \in Nat
<1>1. InThreads' = InThreads \cup {r} /\ r \notin InThreads
  BY DEF PoolTypeOK, InThreads
<1>2. IsFiniteSet(InThreads)
  BY PoolAssumption, FS_Subset DEF InThreads
<1>3. Cardinality(InThreads \cup {r}) = Cardinality(InThreads) + 1
  BY <1>1, <1>2, FS_AddElement
<1>4. Cardinality(InThreads) \in Nat
  BY <1>2, FS_CardinalityType
<1> QED
  BY <1>1, <1>3, <1>4 DEF PoolTypeOK, InThreads

LEMMA ThreadLeft ==
  ASSUME PoolTypeOK, NEW r \in Requests, phase[r] \in Threaded,
         NEW to, to \notin Threaded, phase' = [phase EXCEPT ![r] = to]
  PROVE  Cardinality(InThreads') = busy - 1 /\ busy \in Nat
<1>1. InThreads' = InThreads \ {r} /\ r \in InThreads
  BY DEF PoolTypeOK, InThreads
<1>2. IsFiniteSet(InThreads)
  BY PoolAssumption, FS_Subset DEF InThreads
<1>3. Cardinality(InThreads \ {r}) = Cardinality(InThreads) - 1
  BY <1>1, <1>2, FS_RemoveElement
<1>4. Cardinality(InThreads) \in Nat
  BY <1>2, FS_CardinalityType
<1> QED
  BY <1>1, <1>3, <1>4 DEF PoolTypeOK, InThreads

LEMMA ThreadsKept ==
  ASSUME PoolTypeOK, NEW r \in Requests, NEW to, phase[r] \in Threaded <=> to \in Threaded,
         phase' = [phase EXCEPT ![r] = to]
  PROVE  Cardinality(InThreads') = busy
<1>1. InThreads' = InThreads
  BY DEF PoolTypeOK, InThreads
<1> QED
  BY <1>1 DEF PoolTypeOK, InThreads

-----------------------------------------------------------------------------
LEMMA TypeKept == PoolTypeOK /\ UsedWhenOpened /\ [Next]_vars => PoolTypeOK'
<1> SUFFICES ASSUME PoolTypeOK, UsedWhenOpened, [Next]_vars PROVE PoolTypeOK'
  OBVIOUS
<1> USE DEF Threaded, Holding, Refused, Final, Phases
<1> DEFINE Shape ==
      /\ phase \in [Requests -> Phases]
      /\ registered \in Requests \cup {None}
      /\ pool \in [Requests -> Requests \cup {None}]
      /\ conn \in [Requests -> Connections \cup {0}]
      /\ \A r \in Requests : conn[r] # 0 <=> phase[r] \in Holding
      /\ idle \in [Requests -> SUBSET Connections]
      /\ open \in [Requests -> SUBSET Connections]
      /\ saved \subseteq Requests
<1> DEFINE Counted == busy = Cardinality(InThreads) /\ busy <= Threads
<1>1. PoolTypeOK <=> Shape /\ Counted
  BY DEF PoolTypeOK, InThreads
<1>2. PoolTypeOK' <=> Shape' /\ Counted'
  BY DEF PoolTypeOK, InThreads
<1>3. Shape /\ Counted /\ busy \in Nat /\ Threads \in Nat
  <2>1. Cardinality(InThreads) \in Nat
    BY PoolAssumption, FS_Subset, FS_CardinalityType DEF InThreads
  <2> QED
    BY <1>1, <2>1, PoolAssumption
<1>4. \A c \in Connections : c # 0
  BY PoolAssumption DEF Connections
<1>5. \A r \in Requests : phase[r] \in InPool => pool[r] \in Requests
  BY DEF UsedWhenOpened
<1>6. CASE UNCHANGED vars
  BY <1>2, <1>3, <1>6 DEF vars, InThreads
<1>7. CASE Next
  <2> PICK r \in Requests : Enter(r) \/ Advance(r)
    BY <1>7 DEF Next
  <2>1. CASE Enter(r)
    <3>1. Cardinality(InThreads') = busy + 1
      BY <2>1, ThreadTaken DEF Enter, Goto
    <3> QED
      BY <1>2, <1>3, <2>1, <3>1 DEF Enter, Goto
  <2>2. CASE FindPool(r)
    <3>1. Cardinality(InThreads') = busy
      BY <2>2, ThreadsKept DEF FindPool, Goto
    <3>2. Shape'
      BY <1>3, <2>2 DEF FindPool, Goto
    <3> QED
      BY <1>2, <1>3, <2>2, <3>1, <3>2 DEF FindPool
  <2>3. CASE OpenPool(r)
    <3>1. Cardinality(InThreads') = busy
      BY <2>3, ThreadsKept DEF OpenPool, Goto
    <3>2. Shape'
      BY <1>3, <2>3 DEF OpenPool, Goto
    <3> QED
      BY <1>2, <1>3, <2>3, <3>1, <3>2 DEF OpenPool
  <2>4. CASE OpenFails(r)
    <3>1. Cardinality(InThreads') = busy - 1
      BY <2>4, ThreadLeft DEF OpenFails, Goto
    <3>2. Shape'
      BY <1>3, <2>4 DEF OpenFails, Goto
    <3> QED
      BY <1>2, <1>3, <2>4, <3>1, <3>2 DEF OpenFails
  <2>5. CASE CheckOut(r)
    <3>1. Cardinality(InThreads') = busy - 1
      BY <2>5, ThreadLeft DEF CheckOut, Goto
    <3>2. pool[r] \in Requests
      BY <1>5, <2>5 DEF CheckOut, InPool
    <3>3. Shape'
      BY <1>3, <1>4, <2>5, <3>2 DEF CheckOut, Goto
    <3> QED
      BY <1>2, <1>3, <2>5, <3>1, <3>3 DEF CheckOut
  <2>6. CASE TimeOut(r)
    <3>1. Cardinality(InThreads') = busy - 1
      BY <2>6, ThreadLeft DEF TimeOut, Goto
    <3>2. Shape'
      BY <1>3, <2>6 DEF TimeOut, Goto
    <3> QED
      BY <1>2, <1>3, <2>6, <3>1, <3>2 DEF TimeOut
  <2>7. CASE RunBody(r)
    <3>1. Cardinality(InThreads') = busy + 1
      BY <2>7, ThreadTaken DEF RunBody, Goto
    <3>2. Shape'
      BY <1>3, <2>7 DEF RunBody, Goto
    <3> QED
      BY <1>2, <1>3, <2>7, <3>1, <3>2 DEF RunBody
  <2>8. CASE BeginTx(r)
    <3>1. Shape'
      BY <1>3, <2>8 DEF BeginTx
    <3> QED
      BY <1>2, <1>3, <2>8, <3>1 DEF BeginTx, InThreads
  <2>9. CASE CommitTx(r)
    <3>1. Shape'
      BY <1>3, <2>9 DEF CommitTx
    <3> QED
      BY <1>2, <1>3, <2>9, <3>1 DEF CommitTx, InThreads
  <2>10. CASE EndBody(r)
    <3>1. PICK to \in {"returned", "raised"} : phase' = [phase EXCEPT ![r] = to]
      BY <2>10 DEF EndBody, Goto
    <3>2. Cardinality(InThreads') = busy - 1
      BY <2>10, <3>1, ThreadLeft DEF EndBody
    <3>3. Shape'
      BY <1>3, <2>10, <3>1 DEF EndBody
    <3> QED
      BY <1>2, <1>3, <2>10, <3>2, <3>3 DEF EndBody
  <2>11. CASE GiveBack(r)
    <3>1. Cardinality(InThreads') = busy
      BY <2>11, ThreadsKept DEF GiveBack, Goto, Outcome
    <3>2. pool[r] \in Requests /\ conn[r] \in Connections
      BY <1>3, <1>5, <2>11 DEF GiveBack, InPool
    <3>3. Shape'
      BY <1>3, <2>11, <3>2 DEF GiveBack, Goto, Outcome
    <3> QED
      BY <1>2, <1>3, <2>11, <3>1, <3>3 DEF GiveBack
  <2> QED
    BY <2>1, <2>2, <2>3, <2>4, <2>5, <2>6, <2>7, <2>8, <2>9, <2>10, <2>11 DEF Advance
<1> QED
  BY <1>6, <1>7

LEMMA UseKept == PoolInv /\ [Next]_vars => UsedWhenOpened'
<1> SUFFICES ASSUME PoolInv, [Next]_vars PROVE UsedWhenOpened'
  OBVIOUS
<1> USE DEF InUse, InPool, Threaded, Holding, Refused, Final, PoolTypeOK
<1>1. CASE UNCHANGED vars
  BY <1>1 DEF vars, PoolInv, UsedWhenOpened
<1>2. CASE Next
  <2> PICK r \in Requests : Enter(r) \/ Advance(r)
    BY <1>2 DEF Next
  <2>1. CASE Enter(r)
    BY <2>1 DEF Enter, Goto, PoolInv, UsedWhenOpened
  <2>2. CASE FindPool(r)
    BY <2>2 DEF FindPool, Goto, PoolInv, UsedWhenOpened
  <2>3. CASE OpenPool(r)
    BY <2>3 DEF OpenPool, Goto, PoolInv, UsedWhenOpened
  <2>4. CASE OpenFails(r)
    BY <2>4 DEF OpenFails, Goto, PoolInv, UsedWhenOpened
  <2>5. CASE CheckOut(r)
    BY <2>5 DEF CheckOut, Goto, PoolInv, UsedWhenOpened
  <2>6. CASE TimeOut(r)
    BY <2>6 DEF TimeOut, Goto, PoolInv, UsedWhenOpened
  <2>7. CASE RunBody(r)
    BY <2>7 DEF RunBody, Goto, PoolInv, UsedWhenOpened
  <2>8. CASE BeginTx(r) \/ CommitTx(r)
    BY <2>8 DEF BeginTx, CommitTx, PoolInv, UsedWhenOpened
  <2>9. CASE EndBody(r)
    BY <2>9 DEF EndBody, Goto, PoolInv, UsedWhenOpened
  <2>10. CASE GiveBack(r)
    BY <2>10 DEF GiveBack, Goto, Outcome, PoolInv, UsedWhenOpened
  <2> QED
    BY <2>1, <2>2, <2>3, <2>4, <2>5, <2>6, <2>7, <2>8, <2>9, <2>10 DEF Advance
<1> QED
  BY <1>1, <1>2

LEMMA AccountKept == PoolInv /\ [Next]_vars => Accounted'
<1> SUFFICES ASSUME PoolInv, [Next]_vars PROVE Accounted'
  OBVIOUS
<1> USE DEF InUse, InPool, Holds, Threaded, Holding, Refused, Final, PoolTypeOK
<1>1. CASE UNCHANGED vars
  BY <1>1 DEF vars, PoolInv, Accounted
<1>2. CASE Next
  <2> PICK r \in Requests : Enter(r) \/ Advance(r)
    BY <1>2 DEF Next
  <2>1. CASE Enter(r)
    BY <2>1 DEF Enter, Goto, PoolInv, Accounted
  <2>2. CASE FindPool(r)
    BY <2>2 DEF FindPool, Goto, PoolInv, Accounted
  <2>3. CASE OpenPool(r)
    BY <2>3 DEF OpenPool, Goto, PoolInv, Accounted, UsedWhenOpened
  <2>4. CASE OpenFails(r)
    BY <2>4 DEF OpenFails, Goto, PoolInv, Accounted
  <2>5. CASE CheckOut(r)
    BY <2>5 DEF CheckOut, Goto, PoolInv, Accounted, UsedWhenOpened
  <2>6. CASE TimeOut(r)
    BY <2>6 DEF TimeOut, Goto, PoolInv, Accounted
  <2>7. CASE RunBody(r)
    BY <2>7 DEF RunBody, Goto, PoolInv, Accounted
  <2>8. CASE BeginTx(r) \/ CommitTx(r)
    BY <2>8 DEF BeginTx, CommitTx, PoolInv, Accounted
  <2>9. CASE EndBody(r)
    BY <2>9 DEF EndBody, Goto, PoolInv, Accounted
  <2>10. CASE GiveBack(r)
    BY <2>10 DEF GiveBack, Goto, Outcome, PoolInv, Accounted, UsedWhenOpened
  <2> QED
    BY <2>1, <2>2, <2>3, <2>4, <2>5, <2>6, <2>7, <2>8, <2>9, <2>10 DEF Advance
<1> QED
  BY <1>1, <1>2

LEMMA HeldOnceKept == PoolInv /\ [Next]_vars => ConnectionHeldOnce'
<1> SUFFICES ASSUME PoolInv, [Next]_vars PROVE ConnectionHeldOnce'
  OBVIOUS
<1> USE DEF InUse, InPool, Threaded, Holding, Refused, Final, PoolTypeOK
<1>1. CASE UNCHANGED vars
  BY <1>1 DEF vars, PoolInv, ConnectionHeldOnce
<1>2. CASE Next
  <2> PICK r \in Requests : Enter(r) \/ Advance(r)
    BY <1>2 DEF Next
  <2>1. CASE Enter(r)
    BY <2>1 DEF Enter, Goto, PoolInv, ConnectionHeldOnce
  <2>2. CASE FindPool(r)
    BY <2>2 DEF FindPool, Goto, PoolInv, ConnectionHeldOnce
  <2>3. CASE OpenPool(r)
    BY <2>3 DEF OpenPool, Goto, PoolInv, ConnectionHeldOnce, UsedWhenOpened
  <2>4. CASE OpenFails(r)
    BY <2>4 DEF OpenFails, Goto, PoolInv, ConnectionHeldOnce
  <2>5. CASE CheckOut(r)
    BY <2>5 DEF CheckOut, Goto, PoolInv, ConnectionHeldOnce, UsedWhenOpened
  <2>6. CASE TimeOut(r)
    BY <2>6 DEF TimeOut, Goto, PoolInv, ConnectionHeldOnce
  <2>7. CASE RunBody(r)
    BY <2>7 DEF RunBody, Goto, PoolInv, ConnectionHeldOnce
  <2>8. CASE BeginTx(r) \/ CommitTx(r)
    BY <2>8 DEF BeginTx, CommitTx, PoolInv, ConnectionHeldOnce
  <2>9. CASE EndBody(r)
    BY <2>9 DEF EndBody, Goto, PoolInv, ConnectionHeldOnce
  <2>10. CASE GiveBack(r)
    BY <2>10 DEF GiveBack, Goto, Outcome, PoolInv, ConnectionHeldOnce, UsedWhenOpened
  <2> QED
    BY <2>1, <2>2, <2>3, <2>4, <2>5, <2>6, <2>7, <2>8, <2>9, <2>10 DEF Advance
<1> QED
  BY <1>1, <1>2

LEMMA OpenKept == PoolInv /\ [Next]_vars => OpenOnlyHeld'
<1> SUFFICES ASSUME PoolInv, [Next]_vars PROVE OpenOnlyHeld'
  OBVIOUS
<1> USE DEF InPool, Holds, Threaded, Holding, Refused, Final, PoolTypeOK
<1>1. CASE UNCHANGED vars
  BY <1>1 DEF vars, PoolInv, OpenOnlyHeld
<1>2. CASE Next
  <2> PICK r \in Requests : Enter(r) \/ Advance(r)
    BY <1>2 DEF Next
  <2>1. CASE Enter(r)
    BY <2>1 DEF Enter, Goto, PoolInv, OpenOnlyHeld
  <2>2. CASE FindPool(r)
    BY <2>2 DEF FindPool, Goto, PoolInv, OpenOnlyHeld
  <2>3. CASE OpenPool(r)
    BY <2>3 DEF OpenPool, Goto, PoolInv, OpenOnlyHeld
  <2>4. CASE OpenFails(r)
    BY <2>4 DEF OpenFails, Goto, PoolInv, OpenOnlyHeld
  <2>5. CASE CheckOut(r)
    BY <2>5 DEF CheckOut, Goto, PoolInv, OpenOnlyHeld
  <2>6. CASE TimeOut(r)
    BY <2>6 DEF TimeOut, Goto, PoolInv, OpenOnlyHeld
  <2>7. CASE RunBody(r)
    BY <2>7 DEF RunBody, Goto, PoolInv, OpenOnlyHeld
  <2>8. CASE BeginTx(r) \/ CommitTx(r)
    BY <2>8 DEF BeginTx, CommitTx, PoolInv, OpenOnlyHeld, UsedWhenOpened
  <2>9. CASE EndBody(r)
    BY <2>9 DEF EndBody, Goto, PoolInv, OpenOnlyHeld
  <2>10. CASE GiveBack(r)
    BY <2>10 DEF GiveBack, Goto, Outcome, PoolInv, OpenOnlyHeld, UsedWhenOpened
  <2> QED
    BY <2>1, <2>2, <2>3, <2>4, <2>5, <2>6, <2>7, <2>8, <2>9, <2>10 DEF Advance
<1> QED
  BY <1>1, <1>2

LEMMA PoolKeeps == Spec => []PoolInv
<1>1. PoolInv /\ [Next]_vars => PoolInv'
  BY TypeKept, UseKept, AccountKept, HeldOnceKept, OpenKept DEF PoolInv
<1> QED
  BY PoolStarts, <1>1, PTL DEF Spec

-----------------------------------------------------------------------------
\* Wherever a request has come, it holds what belongs there, and every thread in use
\* is that of a request in one: none is lost and none is counted twice.
THEOREM PoolTyped == Spec => []PoolTypeOK
<1>1. PoolInv => PoolTypeOK
  BY DEF PoolInv
<1> QED
  BY PoolKeeps, <1>1, PTL

\* However many requests open pools at once, no connection is with two of them.
THEOREM HeldOnce == Spec => []ConnectionHeldOnce
<1>1. PoolInv => ConnectionHeldOnce
  BY DEF PoolInv
<1> QED
  BY PoolKeeps, <1>1, PTL

\* pooled_connection: what is checked out has no transaction of an earlier request.
THEOREM HandedOutClean == Spec => []CheckedOutClean
<1>1. PoolInv => CheckedOutClean
  <2> SUFFICES ASSUME PoolInv, NEW r \in Requests, phase[r] = "ready",
                      conn[r] \in open[pool[r]]
               PROVE  FALSE
    BY DEF CheckedOutClean
  <2>1. pool[r] \in Requests /\ conn[r] # 0
    BY DEF PoolInv, UsedWhenOpened, PoolTypeOK, InPool, Holding
  <2>2. PICK q \in Requests : Holds(q, pool[r], conn[r]) /\ phase[q] \in {"body", "raised"}
    BY <2>1 DEF PoolInv, OpenOnlyHeld
  <2> QED
    BY <2>1, <2>2 DEF PoolInv, ConnectionHeldOnce, Holds
<1> QED
  BY PoolKeeps, <1>1, PTL

\* A pool with no idle connection has as many holders as it has connections.
LEMMA EmptyPoolHolders ==
  ASSUME PoolInv, NEW q \in Requests, InUse(q), idle[q] = {}
  PROVE  Cardinality({r \in Requests : phase[r] \in Holding}) >= PoolSize
<1> DEFINE Holders == {r \in Requests : phase[r] \in Holding}
<1> DEFINE holder == [c \in Connections |-> CHOOSE r \in Requests : Holds(r, q, c)]
<1>1. IsFiniteSet(Holders)
  BY PoolAssumption, FS_Subset
<1>2. \A c \in Connections : holder[c] \in Requests /\ Holds(holder[c], q, c)
  <2> SUFFICES ASSUME NEW c \in Connections
               PROVE  holder[c] \in Requests /\ Holds(holder[c], q, c)
    OBVIOUS
  <2>1. \E r \in Requests : Holds(r, q, c)
    BY DEF PoolInv, Accounted
  <2> QED
    BY <2>1
<1>3. holder \in [Connections -> Holders]
  BY <1>2 DEF Holds
<1>4. \A c, d \in Connections : holder[c] = holder[d] => c = d
  BY <1>2 DEF Holds
<1>5. holder \in Injection(Connections, Holders)
  BY <1>3, <1>4 DEF Injection, IsInjective
<1>6. Cardinality(Connections) = PoolSize
  BY PoolAssumption, FS_Interval DEF Connections
<1>7. Cardinality(Connections) <= Cardinality(Holders)
  BY <1>1, <1>5, FS_Injection
<1>8. Cardinality(Holders) \in Nat
  BY <1>1, FS_CardinalityType
<1> QED
  BY <1>6, <1>7, <1>8, PoolAssumption

\* The API stands still only with a request in every thread and one on every
\* connection of a pool, and no request is both: below Threads + PoolSize requests at
\* once the two limits cannot wait for each other.
THEOREM StallNeedsAFullHouse == Spec => []StallTakesAFullHouse
<1>1. PoolInv => StallTakesAFullHouse
  <2> SUFFICES ASSUME PoolInv, Stalled
               PROVE  Cardinality({r \in Requests : phase[r] \in Threaded \cup Holding})
                        >= Threads + PoolSize
    BY DEF StallTakesAFullHouse
  <2> DEFINE Holders == {r \in Requests : phase[r] \in Holding}
  <2>1. Cardinality(InThreads) = Threads
    BY DEF PoolInv, PoolTypeOK, Stalled, InThreads
  <2>2. IsFiniteSet(InThreads) /\ IsFiniteSet(Holders)
    BY PoolAssumption, FS_Subset DEF InThreads
  <2>3. PICK r \in Requests : phase[r] \in Threaded
    <3>1. InThreads # {}
      BY <2>1, FS_EmptySet, PoolAssumption
    <3> QED
      BY <3>1 DEF InThreads
  <2>4. phase[r] = "waiting" /\ idle[pool[r]] = {}
    BY <2>3 DEF Stalled
  <2>5. pool[r] \in Requests /\ InUse(pool[r])
    BY <2>4 DEF PoolInv, UsedWhenOpened, InUse, InPool
  <2>6. Cardinality(Holders) >= PoolSize
    BY <2>4, <2>5, EmptyPoolHolders
  <2>7. InThreads \cap Holders = {}
    BY DEF Stalled, InThreads, Holding
  <2>8. Cardinality(InThreads \cup Holders) = Cardinality(InThreads) + Cardinality(Holders)
    <3>1. Cardinality(InThreads \cup Holders)
            = Cardinality(InThreads) + Cardinality(Holders) - Cardinality(InThreads \cap Holders)
      BY <2>2, FS_Union
    <3>2. Cardinality(InThreads \cap Holders) = 0
      BY <2>7, FS_EmptySet
    <3>3. Cardinality(InThreads) \in Nat /\ Cardinality(Holders) \in Nat
      BY <2>2, FS_CardinalityType
    <3> QED
      BY <3>1, <3>2, <3>3
  <2>9. InThreads \cup Holders = {q \in Requests : phase[q] \in Threaded \cup Holding}
    BY DEF InThreads
  <2>10. Cardinality(Holders) \in Nat
    BY <2>2, FS_CardinalityType
  <2>11. Cardinality(InThreads \cup Holders) >= Threads + PoolSize
    <3> HIDE DEF Holders
    <3> QED
      BY <2>1, <2>6, <2>8, <2>10, PoolAssumption
  <2> QED
    BY <2>9, <2>11
<1> QED
  BY PoolKeeps, <1>1, PTL
=============================================================================
