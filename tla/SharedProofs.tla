---------------------------- MODULE SharedProofs ----------------------------
(***************************************************************************)
(* What holds of the one connection of the Streamlit app for every number  *)
(* of sessions and every size of a run.                                    *)
(***************************************************************************)
EXTENDS SharedConnection, TLAPS

StoredRows == [run : Sessions, n : Nat]

SharedTypeOK ==
  /\ backend \in {"duckdb", "postgres"}
  /\ dataset \in [Sessions -> Datasets]
  /\ phase \in [Sessions -> Phases]
  /\ next \in [Sessions -> Nat]
  /\ tx \in {"none", "open", "aborted"}
  /\ buffered \subseteq StoredRows /\ rows \subseteq StoredRows
  /\ overlapped \subseteq Sessions

\* The sessions the promise is made to.
Undisturbed(s) == backend = "duckdb" \/ s \notin overlapped

Part(set, s) == {row.n : row \in {r \in set : r.run = s}}

\* An undisturbed session that is saving is the only one, within its transaction.
SavesAlone ==
  \A s \in Sessions : Undisturbed(s) /\ phase[s] \in Saving =>
    /\ tx # "none"
    /\ phase[s] = "insert" => tx = "open"
    /\ \A t \in Sessions \ {s} : phase[t] \notin Saving

\* Until its COMMIT nothing of it is stored, and what it inserted so far is buffered.
RowsInOrder ==
  \A s \in Sessions : Undisturbed(s) =>
    /\ phase[s] \in {"look_up", "fetch_key", "begin"} => next[s] = 0
    /\ phase[s] \in {"look_up", "fetch_key", "begin"} \cup Saving => Part(rows, s) = {}
    /\ phase[s] \notin Saving => Part(buffered, s) = {}
    /\ phase[s] = "insert" =>
         next[s] <= Count(s) + 1 /\ Part(buffered, s) = {n \in Nat : n < next[s]}

SharedInv ==
  SharedTypeOK /\ SavesAlone /\ RowsInOrder /\ WholeUnlessOverlapped /\ TransactionHasOwner

-----------------------------------------------------------------------------
LEMMA CountIsNat == SharedTypeOK => \A s \in Sessions : Count(s) \in Nat
  BY SharedAssumption DEF SharedTypeOK, Count

LEMMA PartOfUnion ==
  ASSUME NEW A, NEW B, NEW s
  PROVE  Part(A \cup B, s) = Part(A, s) \cup Part(B, s)
  BY DEF Part

LEMMA PartOfRow ==
  ASSUME NEW s, NEW t, NEW n
  PROVE  Part({Row(s, n)}, t) = IF t = s THEN {n} ELSE {}
<1>1. Row(s, n).run = s /\ Row(s, n).n = n
  BY DEF Row
<1> HIDE DEF Row
<1>2. CASE t = s
  <2>1. {r \in {Row(s, n)} : r.run = t} = {Row(s, n)}
    BY <1>1, <1>2
  <2> QED
    BY <1>1, <1>2, <2>1 DEF Part
<1>3. CASE t # s
  <2>1. {r \in {Row(s, n)} : r.run = t} = {}
    BY <1>1, <1>3
  <2> QED
    BY <1>3, <2>1 DEF Part
<1> QED
  BY <1>2, <1>3

LEMMA PartOfNone == ASSUME NEW s PROVE Part({}, s) = {}
  BY DEF Part

LEMMA StoredIsPart == \A s \in Sessions : StoredPart(s) = Part(rows, s)
  BY DEF StoredPart, Part

\* A whole run, once the last of its rows is in.
LEMMA AllRows ==
  ASSUME NEW k \in Nat, NEW m \in Nat, m <= k + 1, m > k
  PROVE  {n \in Nat : n < m} = 0..k
  OBVIOUS

LEMMA SharedStarts == Init => SharedInv
<1> SUFFICES ASSUME Init PROVE SharedInv
  OBVIOUS
<1>1. \A s \in Sessions : Part({}, s) = {}
  BY PartOfNone
<1>2. SharedTypeOK
  BY DEF Init, SharedTypeOK, Phases
<1>3. SavesAlone /\ TransactionHasOwner
  BY DEF Init, SavesAlone, TransactionHasOwner, Saving
<1>4. RowsInOrder
  BY <1>1 DEF Init, RowsInOrder, Saving
<1>5. WholeUnlessOverlapped
  BY <1>1, StoredIsPart DEF Init, WholeUnlessOverlapped, Whole
<1> QED
  BY <1>2, <1>3, <1>4, <1>5 DEF SharedInv

LEMMA SharedTypeKept == SharedTypeOK /\ [Next]_vars => SharedTypeOK'
<1> SUFFICES ASSUME SharedTypeOK, [Next]_vars PROVE SharedTypeOK'
  OBVIOUS
<1> USE DEF SharedTypeOK, Phases
<1>1. CASE UNCHANGED vars
  BY <1>1 DEF vars
<1>2. CASE Next
  <2> PICK s \in Sessions :
        \/ LookUp(s) \/ FetchKey(s)
        \/ Begin(s) \/ Insert(s) \/ FailInsert(s) \/ Rollback(s) \/ Commit(s)
        \/ SelectRun(s) \/ FetchRun(s)
    BY <1>2 DEF Next
  <2>1. CASE LookUp(s)
    BY <2>1 DEF LookUp, Refused, Goto
  <2>2. CASE FetchKey(s)
    BY <2>2 DEF FetchKey, Goto
  <2>3. CASE Begin(s)
    BY <2>3 DEF Begin, Refused, Goto
  <2>4. CASE Insert(s)
    <3>1. Row(s, next[s]) \in StoredRows
      BY DEF Row, StoredRows
    <3> QED
      BY <2>4, <3>1 DEF Insert, Refused, Goto
  <2>5. CASE FailInsert(s)
    BY <2>5 DEF FailInsert, Goto
  <2>6. CASE Rollback(s)
    BY <2>6 DEF Rollback, Goto
  <2>7. CASE Commit(s)
    BY <2>7 DEF Commit, Goto
  <2>8. CASE SelectRun(s)
    BY <2>8 DEF SelectRun, Refused, Goto
  <2>9. CASE FetchRun(s)
    BY <2>9 DEF FetchRun, Goto
  <2> QED
    BY <2>1, <2>2, <2>3, <2>4, <2>5, <2>6, <2>7, <2>8, <2>9
<1> QED
  BY <1>1, <1>2

\* The steps that neither save nor begin to: they move one session, outside of Saving.
Aside(s) ==
  /\ \E to \in Phases \ (Saving \cup {"look_up"}) : Goto(s, to)
  /\ phase[s] \notin Saving /\ phase'[s] \notin {"look_up"}
  /\ phase'[s] \in {"fetch_key", "begin"} => phase[s] \in {"look_up", "fetch_key", "begin"}
  /\ UNCHANGED <<backend, dataset, next, tx, buffered, rows, overlapped>>

LEMMA AsideKeeps ==
  ASSUME SharedInv, NEW s \in Sessions, Aside(s)
  PROVE  SavesAlone' /\ RowsInOrder' /\ WholeUnlessOverlapped' /\ TransactionHasOwner'
<1> USE DEF SharedInv, SharedTypeOK, Aside, Goto, Saving, Undisturbed
<1>1. SavesAlone'
  BY DEF SavesAlone
<1>2. RowsInOrder'
  BY DEF RowsInOrder, Count
<1>3. WholeUnlessOverlapped'
  BY DEF WholeUnlessOverlapped, Whole, StoredPart, Count
<1>4. TransactionHasOwner'
  BY DEF TransactionHasOwner
<1> QED
  BY <1>1, <1>2, <1>3, <1>4

LEMMA BeginKeeps ==
  ASSUME SharedInv, NEW s \in Sessions, Begin(s), tx' = "open", phase'[s] = "insert"
  PROVE  SavesAlone' /\ RowsInOrder' /\ WholeUnlessOverlapped' /\ TransactionHasOwner'
<1> DEFINE others == {t \in Sessions \ {s} : phase[t] \in Saving}
<1>1. /\ phase[s] = "begin" /\ phase' = [phase EXCEPT ![s] = "insert"]
      /\ tx = "none" \/ (tx = "open" /\ backend = "postgres")
      /\ overlapped' = IF others = {} THEN overlapped ELSE overlapped \cup others \cup {s}
      /\ UNCHANGED <<backend, dataset, next, buffered, rows>>
  BY DEF SharedInv, SharedTypeOK, Begin, Refused, Goto
<1> USE DEF SharedInv, SharedTypeOK, Saving, Undisturbed
<1>2. SavesAlone'
  BY <1>1 DEF SavesAlone
<1>3. \A t \in Sessions : Undisturbed(t)' => Undisturbed(t)
  BY <1>1
<1>4. Undisturbed(s)' => {n \in Nat : n < next[s]} = {} /\ next[s] <= Count(s) + 1
  BY <1>1, <1>3, CountIsNat DEF RowsInOrder
<1>5. RowsInOrder'
  BY <1>1, <1>3, <1>4 DEF RowsInOrder, Count
<1>6. WholeUnlessOverlapped'
  BY <1>1, <1>3 DEF WholeUnlessOverlapped, Whole, StoredPart, Count
<1>7. TransactionHasOwner'
  BY <1>1 DEF TransactionHasOwner
<1> QED
  BY <1>2, <1>5, <1>6, <1>7

LEMMA InsertKeeps ==
  ASSUME SharedInv, NEW s \in Sessions, Insert(s)
  PROVE  SavesAlone' /\ RowsInOrder' /\ WholeUnlessOverlapped' /\ TransactionHasOwner'
<1> USE DEF SharedInv, SharedTypeOK, Saving
<1>1. CASE tx = "aborted"
  <2>1. /\ phase[s] = "insert" /\ phase' = [phase EXCEPT ![s] = "rollback"]
        /\ UNCHANGED <<backend, dataset, next, tx, buffered, rows, overlapped>>
    BY <1>1 DEF Insert, Refused, Goto
  <2>2. SavesAlone' /\ TransactionHasOwner'
    BY <2>1 DEF SavesAlone, Undisturbed, TransactionHasOwner
  <2>3. RowsInOrder'
    BY <2>1 DEF RowsInOrder, Undisturbed, Count
  <2>4. WholeUnlessOverlapped'
    BY <2>1 DEF WholeUnlessOverlapped, Whole, StoredPart, Count
  <2> QED
    BY <2>2, <2>3, <2>4
<1>2. CASE tx # "aborted"
  <2> DEFINE new == {Row(s, next[s])}
  <2>1. /\ phase[s] = "insert" /\ next[s] <= Count(s)
        /\ IF tx = "open" THEN buffered' = buffered \cup new /\ UNCHANGED rows
                          ELSE rows' = rows \cup new /\ UNCHANGED buffered
        /\ next' = [next EXCEPT ![s] = next[s] + 1]
        /\ UNCHANGED <<backend, dataset, phase, tx, overlapped>>
    BY <1>2 DEF Insert, Refused
  <2>2. SavesAlone' /\ TransactionHasOwner'
    BY <2>1 DEF SavesAlone, Undisturbed, TransactionHasOwner
  <2>3. Undisturbed(s) => tx = "open"
    BY <2>1 DEF SavesAlone
  <2>4. /\ \A t \in Sessions : Part(new, t) = IF t = s THEN {next[s]} ELSE {}
        /\ \A t \in Sessions : Part(buffered \cup new, t) = Part(buffered, t) \cup Part(new, t)
        /\ \A t \in Sessions : Part(rows \cup new, t) = Part(rows, t) \cup Part(new, t)
    <3>1. \A t \in Sessions : Part(new, t) = IF t = s THEN {next[s]} ELSE {}
      BY PartOfRow
    <3> HIDE DEF new
    <3> QED
      BY <3>1, PartOfUnion
  <2>5. \A t \in Sessions : Undisturbed(t)' <=> Undisturbed(t)
    BY <2>1 DEF Undisturbed
  <2>6. ASSUME NEW t \in Sessions, Undisturbed(t)
        PROVE  /\ Part(rows', t) = Part(rows, t)
               /\ Part(buffered', t) = Part(buffered, t) \cup (IF t = s THEN {next[s]} ELSE {})
    BY <2>1, <2>3, <2>4, <2>6
  <2>7. {n \in Nat : n < next[s]} \cup {next[s]} = {n \in Nat : n < next[s] + 1}
    <3>1. next[s] \in Nat
      OBVIOUS
    <3> QED
      BY <3>1
  <2>8. RowsInOrder'
    <3> SUFFICES ASSUME NEW t \in Sessions, Undisturbed(t)
                 PROVE  /\ phase[t] \in {"look_up", "fetch_key", "begin"} => next'[t] = 0
                        /\ phase[t] \in {"look_up", "fetch_key", "begin"} \cup Saving
                             => Part(rows', t) = {}
                        /\ phase[t] \notin Saving => Part(buffered', t) = {}
                        /\ phase[t] = "insert" =>
                             /\ next'[t] <= Count(t)' + 1
                             /\ Part(buffered', t) = {n \in Nat : n < next'[t]}
      BY <2>1, <2>5 DEF RowsInOrder
    <3>1. CASE t = s
      BY <2>1, <2>6, <2>7, <3>1, CountIsNat DEF RowsInOrder, Count
    <3>2. CASE t # s
      BY <2>1, <2>6, <3>2 DEF RowsInOrder, Count
    <3> QED
      BY <3>1, <3>2
  <2>9. WholeUnlessOverlapped'
    BY <2>1, <2>5, <2>6 DEF WholeUnlessOverlapped, Whole, StoredPart, Part, Count, Undisturbed
  <2> QED
    BY <2>2, <2>8, <2>9
<1> QED
  BY <1>1, <1>2

LEMMA FailInsertKeeps ==
  ASSUME SharedInv, NEW s \in Sessions, FailInsert(s)
  PROVE  SavesAlone' /\ RowsInOrder' /\ WholeUnlessOverlapped' /\ TransactionHasOwner'
<1> USE DEF SharedInv, SharedTypeOK, Saving
<1>1. /\ phase[s] = "insert" /\ phase' = [phase EXCEPT ![s] = "rollback"]
      /\ tx' \in {tx, IF tx = "none" THEN "none" ELSE "aborted"}
      /\ UNCHANGED <<backend, dataset, next, buffered, rows, overlapped>>
  BY DEF FailInsert, Goto
<1>2. SavesAlone' /\ TransactionHasOwner'
  BY <1>1 DEF SavesAlone, Undisturbed, TransactionHasOwner
<1>3. RowsInOrder'
  BY <1>1 DEF RowsInOrder, Undisturbed, Count
<1>4. WholeUnlessOverlapped'
  BY <1>1 DEF WholeUnlessOverlapped, Whole, StoredPart, Count
<1> QED
  BY <1>2, <1>3, <1>4

LEMMA EndKeeps ==
  ASSUME SharedInv, NEW s \in Sessions, Rollback(s) \/ Commit(s)
  PROVE  SavesAlone' /\ RowsInOrder' /\ WholeUnlessOverlapped' /\ TransactionHasOwner'
<1> USE DEF SharedInv, SharedTypeOK, Saving
<1>1. /\ phase[s] \in Saving /\ tx' = "none" /\ buffered' = {}
      /\ \E to \in {"show", "failed"} : phase' = [phase EXCEPT ![s] = to]
      /\ UNCHANGED <<backend, dataset, next, overlapped>>
  BY DEF Rollback, Commit, Goto
<1>2. \/ rows' = rows
      \/ rows' = rows \cup buffered /\ phase[s] = "insert" /\ next[s] > Count(s)
  BY DEF Rollback, Commit
<1>3. \A t \in Sessions : Undisturbed(t)' <=> Undisturbed(t)
  BY <1>1 DEF Undisturbed
<1>4. ASSUME NEW t \in Sessions \ {s}, Undisturbed(t)
      PROVE  phase[t] \notin Saving /\ Part(buffered, t) = {}
  BY <1>1, <1>4 DEF SavesAlone, RowsInOrder
<1>5. \A t \in Sessions :
        Part(rows \cup buffered, t) = Part(rows, t) \cup Part(buffered, t)
  BY PartOfUnion
<1>6. ASSUME NEW t \in Sessions \ {s}, Undisturbed(t)
      PROVE  Part(rows', t) = Part(rows, t)
  BY <1>2, <1>4, <1>5, <1>6
<1>7. Undisturbed(s) => Part(rows', s) \in {{}, 0..Count(s)}
  <2> SUFFICES ASSUME Undisturbed(s) PROVE Part(rows', s) \in {{}, 0..Count(s)}
    OBVIOUS
  <2>1. Part(rows, s) = {}
    BY <1>1 DEF RowsInOrder
  <2>2. CASE rows' = rows
    BY <2>1, <2>2
  <2>3. CASE rows' = rows \cup buffered /\ phase[s] = "insert" /\ next[s] > Count(s)
    <3>1. Part(buffered, s) = {n \in Nat : n < next[s]} /\ next[s] <= Count(s) + 1
      BY <2>3 DEF RowsInOrder
    <3>2. Part(buffered, s) = 0..Count(s)
      BY <2>3, <3>1, AllRows, CountIsNat
    <3> QED
      BY <1>5, <2>1, <2>3, <3>2
  <2> QED
    BY <1>2, <2>2, <2>3
<1>8. SavesAlone' /\ TransactionHasOwner'
  <2>1. \A t \in Sessions : Undisturbed(t)' => phase'[t] \notin Saving
    BY <1>1, <1>3, <1>4
  <2> QED
    BY <1>1, <2>1 DEF SavesAlone, TransactionHasOwner
<1>9. RowsInOrder'
  <2>1. \A t \in Sessions : Part(buffered', t) = {}
    BY <1>1, PartOfNone
  <2> SUFFICES ASSUME NEW t \in Sessions, Undisturbed(t)
               PROVE  /\ phase'[t] \in {"look_up", "fetch_key", "begin"} => next'[t] = 0
                      /\ phase'[t] \in {"look_up", "fetch_key", "begin"} \cup Saving
                           => Part(rows', t) = {}
                      /\ phase'[t] \notin Saving => Part(buffered', t) = {}
                      /\ phase'[t] # "insert"
    BY <1>3 DEF RowsInOrder
  <2>2. CASE t = s
    BY <1>1, <2>1, <2>2
  <2>3. CASE t # s
    BY <1>1, <1>4, <1>6, <2>1, <2>3 DEF RowsInOrder
  <2> QED
    BY <2>2, <2>3
<1>10. WholeUnlessOverlapped'
  <2> SUFFICES ASSUME NEW t \in Sessions, Undisturbed(t)
               PROVE  Part(rows', t) \in {{}, 0..Count(t)}
    BY <1>1, <1>3 DEF WholeUnlessOverlapped, Whole, StoredPart, Part, Count, Undisturbed
  <2>1. CASE t = s
    BY <1>7, <2>1
  <2>2. CASE t # s
    BY <1>6, <2>2, StoredIsPart DEF WholeUnlessOverlapped, Whole, Undisturbed
  <2> QED
    BY <2>1, <2>2
<1> QED
  BY <1>8, <1>9, <1>10

LEMMA SharedStep == SharedInv /\ [Next]_vars => SharedInv'
<1> SUFFICES ASSUME SharedInv, [Next]_vars PROVE SharedInv'
  OBVIOUS
<1>1. SharedTypeOK'
  BY SharedTypeKept DEF SharedInv
<1> DEFINE Rest == SavesAlone' /\ RowsInOrder' /\ WholeUnlessOverlapped' /\ TransactionHasOwner'
<1>2. CASE UNCHANGED vars
  <2>1. Rest
    BY <1>2 DEF vars, SharedInv, SavesAlone, RowsInOrder, WholeUnlessOverlapped,
                TransactionHasOwner, Undisturbed, Whole, StoredPart, Count
  <2> QED
    BY <1>1, <2>1 DEF SharedInv
<1>3. CASE Next
  <2> PICK s \in Sessions :
        \/ LookUp(s) \/ FetchKey(s)
        \/ Begin(s) \/ Insert(s) \/ FailInsert(s) \/ Rollback(s) \/ Commit(s)
        \/ SelectRun(s) \/ FetchRun(s)
    BY <1>3 DEF Next
  <2> SUFFICES Rest
    BY <1>1 DEF SharedInv
  <2>0. SharedTypeOK
    BY DEF SharedInv
  <2>1. CASE LookUp(s)
    <3>1. Aside(s)
      BY <2>0, <2>1 DEF SharedTypeOK, LookUp, Refused, Goto, Aside, Phases, Saving
    <3> QED
      BY <3>1, AsideKeeps
  <2>2. CASE FetchKey(s)
    <3>1. Aside(s)
      BY <2>0, <2>2 DEF SharedTypeOK, FetchKey, Goto, Aside, Phases, Saving
    <3> QED
      BY <3>1, AsideKeeps
  <2>3. CASE Begin(s)
    <3>1. CASE phase'[s] = "insert" /\ tx' = "open"
      BY <2>3, <3>1, BeginKeeps
    <3>2. CASE ~(phase'[s] = "insert" /\ tx' = "open")
      <4>1. Aside(s)
        BY <2>0, <2>3, <3>2 DEF SharedTypeOK, Begin, Refused, Goto, Aside, Phases, Saving
      <4> QED
        BY <4>1, AsideKeeps
    <3> QED
      BY <3>1, <3>2
  <2>4. CASE Insert(s)
    BY <2>4, InsertKeeps
  <2>5. CASE FailInsert(s)
    BY <2>5, FailInsertKeeps
  <2>6. CASE Rollback(s) \/ Commit(s)
    BY <2>6, EndKeeps
  <2>7. CASE SelectRun(s)
    <3>1. Aside(s)
      BY <2>0, <2>7 DEF SharedTypeOK, SelectRun, Refused, Goto, Aside, Phases, Saving
    <3> QED
      BY <3>1, AsideKeeps
  <2>8. CASE FetchRun(s)
    <3>1. Aside(s)
      BY <2>0, <2>8 DEF SharedTypeOK, FetchRun, Goto, Aside, Phases, Saving
    <3> QED
      BY <3>1, AsideKeeps
  <2> QED
    BY <2>1, <2>2, <2>3, <2>4, <2>5, <2>6, <2>7, <2>8
<1> QED
  BY <1>2, <1>3

LEMMA SharedKeeps == Spec => []SharedInv
  BY SharedStarts, SharedStep, PTL DEF Spec

-----------------------------------------------------------------------------
\* save_run on the connection all sessions share: a run is stored whole or not at
\* all, for every number of exceptions, on DuckDB whatever the other sessions do and
\* on Postgres for a session no other was saving beside.
THEOREM SavedWhole == Spec => []WholeUnlessOverlapped
<1>1. SharedInv => WholeUnlessOverlapped
  BY DEF SharedInv
<1> QED
  BY SharedKeeps, <1>1, PTL

\* However many sessions meet on the connection, a transaction on it, one that failed
\* included, is one that a session is still to end.
THEOREM NoOrphanedTransaction == Spec => []TransactionHasOwner
<1>1. SharedInv => TransactionHasOwner
  BY DEF SharedInv
<1> QED
  BY SharedKeeps, <1>1, PTL

\* On DuckDB two sessions are never saving at once: its refusal of a BEGIN within a
\* transaction is what makes the shared connection safe to save on.
THEOREM OneSaveAtATime ==
  Spec => [](backend = "duckdb" =>
               \A s, t \in Sessions : phase[s] \in Saving /\ phase[t] \in Saving => s = t)
<1>1. SharedInv => (backend = "duckdb" =>
               \A s, t \in Sessions : phase[s] \in Saving /\ phase[t] \in Saving => s = t)
  BY DEF SharedInv, SavesAlone, Undisturbed
<1> QED
  BY SharedKeeps, <1>1, PTL
=============================================================================
