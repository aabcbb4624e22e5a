----------------------------- MODULE AuditProofs ----------------------------
(***************************************************************************)
(* What holds of the audit log for any number of writers, events and       *)
(* interrupted writes.                                                     *)
(***************************************************************************)
EXTENDS AuditWriters, SequenceTheorems, TLAPS

\* A record on its way to the file hashes its own event.
Sealed ==
  \A w \in Writers : Writing(w) =>
     call[w].record.hash = Hash(call[w].record.prev_hash, call[w].record.event)

\* Without a race or an interruption at most one append is under way, and it
\* read the hash that is still the last one.
Serial ==
  ~raced /\ tears = 0 =>
    /\ terminated
    /\ VerifyChain
    /\ \A v, w \in Writers : Writing(v) /\ Writing(w) => v = w
    /\ \A w \in Writers : Writing(w) => call[w].record.prev_hash = LastHash

\* A record append returned is a piece of some line.
Kept ==
  \A record \in returned : \E i \in 1..Len(lines) : \E j \in 1..Len(lines[i]) :
     lines[i][j] = Whole(record)

LogInv == LogTypeOK /\ Sealed /\ Serial /\ Kept

-----------------------------------------------------------------------------
\* What a write may make of the file: a line more, or a piece more in a last
\* line that lacked its newline.
Extension(new, piece) ==
  /\ new \in Seq(Seq(Pieces))
  /\ Len(new) \in Nat /\ 0 < Len(new) /\ Len(lines) \in Nat /\ Len(lines) <= Len(new)
  /\ \A i \in 1..Len(new) : new[i] # <<>>
  /\ \A i \in 1..Len(lines) : i < Len(new) => new[i] = lines[i]
  /\ terminated => /\ Len(new) = Len(lines) + 1
                   /\ new[Len(new)] = <<piece>>
  /\ ~terminated => /\ Len(new) = Len(lines)
                    /\ new[Len(new)] = Append(lines[Len(lines)], piece)

LEMMA WrittenAdds ==
  ASSUME LogTypeOK, NEW piece \in Pieces
  PROVE  Extension(Written(piece), piece)
<1>1. lines \in Seq(Seq(Pieces)) /\ Len(lines) \in Nat
  BY DEF LogTypeOK
<1>2. CASE terminated
  <2>1. Written(piece) = Append(lines, <<piece>>)
    BY <1>2 DEF Written
  <2>2. <<piece>> \in Seq(Pieces) /\ <<piece>> # <<>>
    OBVIOUS
  <2> QED
    BY <1>1, <1>2, <2>1, <2>2 DEF LogTypeOK, Extension
<1>3. CASE ~terminated
  <2>1. Written(piece) = [lines EXCEPT ![Len(lines)] = Append(@, piece)]
    BY <1>3 DEF Written
  <2>2. lines # <<>> /\ Len(lines) \in 1..Len(lines)
    BY <1>1, <1>3 DEF LogTypeOK
  <2>3. lines[Len(lines)] \in Seq(Pieces)
    BY <1>1, <2>2
  <2>4. Append(lines[Len(lines)], piece) \in Seq(Pieces)
    BY <2>3
  <2>5. Append(lines[Len(lines)], piece) # <<>>
    BY <2>3, AppendProperties
  <2> QED
    BY <1>1, <1>3, <2>1, <2>2, <2>4, <2>5 DEF LogTypeOK, Extension
<1> QED
  BY <1>2, <1>3

\* Pieces only accumulate: a piece of the log is one of the log written to.
LEMMA WrittenKeeps ==
  ASSUME LogTypeOK, NEW piece \in Pieces, NEW kept,
         \E i \in 1..Len(lines) : \E j \in 1..Len(lines[i]) : lines[i][j] = kept
  PROVE  \E i \in 1..Len(Written(piece)) : \E j \in 1..Len(Written(piece)[i]) :
            Written(piece)[i][j] = kept
<1> DEFINE new == Written(piece)
<1>0. PICK i \in 1..Len(lines) : \E j \in 1..Len(lines[i]) : lines[i][j] = kept
  OBVIOUS
<1>1. PICK j \in 1..Len(lines[i]) : lines[i][j] = kept
  BY <1>0
<1>2. Extension(new, piece)
  BY WrittenAdds
<1> SUFFICES \E k \in 1..Len(new) : \E l \in 1..Len(new[k]) : new[k][l] = kept
  OBVIOUS
<1> HIDE DEF new
<1>3. CASE i < Len(new)
  <2>1. i \in 1..Len(new) /\ new[i] = lines[i]
    BY <1>2, <1>3 DEF Extension
  <2> QED
    BY <1>1, <2>1
<1>4. CASE ~ i < Len(new)
  <2>1. i = Len(lines) /\ i \in 1..Len(new) /\ new[i] = Append(lines[i], piece)
    BY <1>2, <1>4 DEF Extension
  <2>2. lines[i] \in Seq(Pieces)
    BY DEF LogTypeOK
  <2>3. j \in 1..Len(new[i]) /\ new[i][j] = kept
    BY <1>1, <2>1, <2>2
  <2> QED
    BY <2>1, <2>3
<1> QED
  BY <1>3, <1>4

\* The piece that was written is in the log.
LEMMA WrittenHolds ==
  ASSUME LogTypeOK, NEW piece \in Pieces
  PROVE  \E i \in 1..Len(Written(piece)) : \E j \in 1..Len(Written(piece)[i]) :
            Written(piece)[i][j] = piece
<1> DEFINE new == Written(piece)
<1>1. Len(new) \in 1..Len(new)
  BY WrittenAdds DEF Extension
<1>2. CASE terminated
  <2>1. new[Len(new)] = <<piece>>
    BY <1>2, WrittenAdds DEF Extension
  <2> QED
    BY <1>1, <2>1
<1>3. CASE ~terminated
  <2>1. new[Len(new)] = Append(lines[Len(lines)], piece)
    BY <1>3, WrittenAdds DEF Extension
  <2>2. lines[Len(lines)] \in Seq(Pieces)
    BY <1>3 DEF LogTypeOK
  <2>3. Len(new[Len(new)]) \in 1..Len(new[Len(new)])
        /\ new[Len(new)][Len(new[Len(new)])] = piece
    BY <2>1, <2>2
  <2> QED
    BY <1>1, <2>3
<1> QED
  BY <1>2, <1>3

LEMMA LastHashType ==
  ASSUME LogTypeOK
  PROVE  LastHash \in Seq(Events)
<1>1. CASE lines # <<>> /\ Parses(lines[Len(lines)])
  <2>1. Len(lines) \in 1..Len(lines) /\ lines[Len(lines)] \in Seq(Pieces)
    BY <1>1 DEF LogTypeOK
  <2>2. lines[Len(lines)][1] \in Pieces
    BY <1>1, <2>1 DEF Parses
  <2> QED
    BY <1>1, <2>2 DEF LastHash, Parsed, Pieces, Records
<1>2. CASE ~(lines # <<>> /\ Parses(lines[Len(lines)]))
  BY <1>2 DEF LastHash, Genesis
<1> QED
  BY <1>1, <1>2

LEMMA WholePiece ==
  ASSUME NEW record \in Records
  PROVE  Whole(record) \in Pieces /\ Cut(record) \in Pieces
BY DEF Whole, Cut, Pieces

\* What a writer holds is a record, and it is idle or writing.
LEMMA HeldRecord ==
  ASSUME LogTypeOK, NEW w \in Writers, Writing(w)
  PROVE  call[w].record \in Records
<1>1. call[w] \in Appends \cup {Idle}
  BY DEF LogTypeOK
<1>2. call[w] # Idle
  BY DEF Writing, Idle
<1> QED
  BY <1>1, <1>2 DEF Appends

\* A line that does not verify is one that does not verify after a write.
LEMMA BrokenStays ==
  ASSUME LogTypeOK, NEW piece \in Pieces, lines' = Written(piece), ~VerifyChain
  PROVE  ~VerifyChain'
<1>1. Extension(lines', piece)
  BY WrittenAdds
<1>2. PICK i \in 1..Len(lines) : ~LineVerifies(i)
  BY DEF VerifyChain
<1>3. i \in 1..Len(lines')
  BY <1>1 DEF Extension
<1>4. CASE i < Len(lines')
  <2>1. lines'[i] = lines[i] /\ (i > 1 => lines'[i - 1] = lines[i - 1])
    <3>1. \A k \in 1..Len(lines) : k < Len(lines') => lines'[k] = lines[k]
      BY <1>1 DEF Extension
    <3>2. Len(lines) \in Nat /\ Len(lines') \in Nat
      BY <1>1 DEF Extension
    <3>3. i > 1 => i - 1 \in 1..Len(lines) /\ i - 1 < Len(lines')
      BY <1>4, <3>2
    <3> QED
      BY <1>4, <3>1, <3>3
  <2>2. ~LineVerifies(i)'
    BY <1>2, <2>1 DEF LineVerifies, Parses, Parsed
  <2> QED
    BY <1>3, <2>2 DEF VerifyChain
<1>5. CASE ~ i < Len(lines')
  <2>1. i = Len(lines) /\ lines'[i] = Append(lines[i], piece)
    BY <1>1, <1>5 DEF Extension
  <2>2. lines[i] \in Seq(Pieces) /\ lines[i] # <<>>
    BY DEF LogTypeOK
  <2>3. Len(lines'[i]) # 1
    BY <2>1, <2>2
  <2>4. ~LineVerifies(i)'
    BY <2>3 DEF LineVerifies, Parses
  <2> QED
    BY <1>3, <2>4 DEF VerifyChain
<1> QED
  BY <1>4, <1>5

LEMMA SameFile ==
  ASSUME lines' = lines
  PROVE  (VerifyChain' <=> VerifyChain) /\ LastHash' = LastHash
BY DEF VerifyChain, LineVerifies, LastHash, Parses, Parsed

-----------------------------------------------------------------------------
LEMMA LogStarts == InitLog => LogInv
<1> SUFFICES ASSUME InitLog PROVE LogInv
  OBVIOUS
<1>1. LogTypeOK
  <2>1. lines \in Seq(Seq(Pieces)) /\ \A i \in 1..Len(lines) : lines[i] # <<>>
    BY DEF InitLog
  <2>2. tears \in 0..MaxTears
    BY TearAssumption DEF InitLog
  <2>3. call \in [Writers -> Appends \cup {Idle}]
    BY DEF InitLog
  <2>4. terminated \in BOOLEAN /\ terminated /\ returned \in SUBSET Records /\ raced \in BOOLEAN
    BY DEF InitLog
  <2> QED
    BY <2>1, <2>2, <2>3, <2>4 DEF LogTypeOK
<1>2. \A w \in Writers : ~Writing(w)
  BY DEF InitLog, Writing, Idle
<1>3. VerifyChain
  BY DEF InitLog, VerifyChain
<1>4. Kept
  BY DEF InitLog, Kept
<1> QED
  BY <1>1, <1>2, <1>3, <1>4 DEF LogInv, Sealed, Serial, InitLog

LEMMA ReadKeepsLog ==
  ASSUME LogInv, NEW w \in Writers, NEW event \in Events, ReadLast(w, event)
  PROVE  LogInv'
<1> DEFINE record == Record(LastHash, event)
<1> USE DEF LogInv, ReadLast
<1>1. record \in Records
  BY LastHashType DEF Record, Hash, Records
<1>2. /\ \A v \in Writers : Writing(v)' <=> (Writing(v) \/ v = w)
      /\ \A v \in Writers \ {w} : call'[v] = call[v]
      /\ call'[w].record = record
  BY DEF LogTypeOK, Writing
<1>3. LogTypeOK'
  BY <1>1 DEF LogTypeOK, Appends
<1>4. Sealed'
  BY <1>2 DEF Sealed, Record
<1>5. Serial'
  <2> SUFFICES ASSUME ~raced', tears' = 0
               PROVE  /\ terminated' /\ VerifyChain'
                      /\ \A u, v \in Writers : Writing(u)' /\ Writing(v)' => u = v
                      /\ \A v \in Writers : Writing(v)' => call'[v].record.prev_hash = LastHash'
    BY DEF Serial
  <2>1. ~raced /\ tears = 0 /\ \A v \in Writers \ {w} : ~Writing(v)
    BY DEF LogTypeOK
  <2>2. terminated' /\ VerifyChain' /\ LastHash' = LastHash
    BY <2>1, SameFile DEF Serial
  <2>3. record.prev_hash = LastHash
    BY DEF Record
  <2> QED
    BY <1>2, <2>1, <2>2, <2>3
<1>6. Kept'
  BY DEF Kept
<1> QED
  BY <1>3, <1>4, <1>5, <1>6

\* What a write that leaves the file as Written(piece) makes of the parts of
\* the invariant that speak of the file.
LEMMA FileGrows ==
  ASSUME LogInv, NEW piece \in Pieces, lines' = Written(piece)
  PROVE  /\ lines' \in Seq(Seq(Pieces)) /\ lines' # <<>>
         /\ \A i \in 1..Len(lines') : lines'[i] # <<>>
         /\ \A record \in returned :
               \E i \in 1..Len(lines') : \E j \in 1..Len(lines'[i]) :
                  lines'[i][j] = Whole(record)
<1>1. Extension(lines', piece)
  BY WrittenAdds DEF LogInv
<1>2. lines' \in Seq(Seq(Pieces)) /\ lines' # <<>>
      /\ \A i \in 1..Len(lines') : lines'[i] # <<>>
  BY <1>1 DEF Extension
<1>3. ASSUME NEW record \in returned
      PROVE  \E i \in 1..Len(lines') : \E j \in 1..Len(lines'[i]) :
                lines'[i][j] = Whole(record)
  <2>1. \E i \in 1..Len(lines) : \E j \in 1..Len(lines[i]) : lines[i][j] = Whole(record)
    BY DEF LogInv, Kept
  <2> QED
    BY <2>1, WrittenKeeps DEF LogInv
<1> QED
  BY <1>2, <1>3

LEMMA WriteKeepsLog ==
  ASSUME LogInv, NEW w \in Writers, WriteRecord(w)
  PROVE  LogInv'
<1> DEFINE record == call[w].record
           piece == Whole(record)
<1> USE DEF LogInv, WriteRecord
<1>1. record \in Records /\ piece \in Pieces
  BY HeldRecord, WholePiece
<1>2. /\ \A v \in Writers : Writing(v)' <=> (Writing(v) /\ v # w)
      /\ \A v \in Writers \ {w} : call'[v] = call[v]
  BY DEF LogTypeOK, Writing, Idle
<1>3. lines' = Written(piece)
  OBVIOUS
<1>4. /\ lines' \in Seq(Seq(Pieces)) /\ lines' # <<>>
      /\ \A i \in 1..Len(lines') : lines'[i] # <<>>
      /\ \A kept \in returned :
            \E i \in 1..Len(lines') : \E j \in 1..Len(lines'[i]) : lines'[i][j] = Whole(kept)
  BY <1>1, <1>3, FileGrows
<1>5. LogTypeOK'
  <2>1. call' \in [Writers -> Appends \cup {Idle}]
    BY DEF LogTypeOK
  <2> QED
    BY <1>1, <1>4, <2>1 DEF LogTypeOK
<1>6. Sealed'
  BY <1>2 DEF Sealed
<1>7. Serial'
  <2> SUFFICES ASSUME ~raced, tears = 0
               PROVE  /\ terminated' /\ VerifyChain'
                      /\ \A v \in Writers : ~Writing(v)'
    BY DEF Serial
  <2>1. terminated /\ VerifyChain /\ \A v \in Writers : Writing(v) => v = w
    BY DEF Serial
  <2>2. record.prev_hash = LastHash /\ record.hash = Hash(record.prev_hash, record.event)
    BY DEF Serial, Sealed
  <2>3. lines \in Seq(Seq(Pieces)) /\ lines' = Append(lines, <<piece>>)
    BY <2>1, <1>3 DEF Written, LogTypeOK
  <2>4. ASSUME NEW i \in 1..Len(lines') PROVE LineVerifies(i)'
    <3>1. CASE i <= Len(lines)
      <4>1. LineVerifies(i) /\ lines'[i] = lines[i] /\ (i > 1 => lines'[i - 1] = lines[i - 1])
        BY <2>1, <2>3, <3>1 DEF VerifyChain
      <4> QED
        BY <4>1 DEF LineVerifies, Parses, Parsed
    <3>2. CASE ~ i <= Len(lines)
      <4>1. i = Len(lines) + 1 /\ lines'[i] = <<piece>>
        BY <2>3, <3>2
      <4>2. Parses(lines'[i]) /\ Parsed(lines'[i]) = record
        <5>1. piece.whole /\ piece.record = record
          BY DEF Whole
        <5>2. Len(<<piece>>) = 1 /\ <<piece>>[1] = piece
          OBVIOUS
        <5> HIDE DEF piece
        <5> QED
          BY <4>1, <5>1, <5>2 DEF Parses, Parsed
      <4>3. record.prev_hash = IF i > 1 THEN Parsed(lines'[i - 1]).hash ELSE Genesis
        <5>1. CASE i > 1
          <6>1. lines # <<>> /\ Len(lines) \in 1..Len(lines) /\ lines'[i - 1] = lines[Len(lines)]
            BY <2>3, <4>1, <5>1
          <6>2. Parses(lines[Len(lines)])
            BY <2>1, <6>1 DEF VerifyChain, LineVerifies
          <6> QED
            BY <2>2, <5>1, <6>1, <6>2 DEF LastHash
        <5>2. CASE ~ i > 1
          <6>1. lines = <<>>
            BY <2>3, <4>1, <5>2
          <6> QED
            BY <2>2, <5>2, <6>1 DEF LastHash
        <5> QED
          BY <5>1, <5>2
      <4> QED
        BY <2>2, <4>2, <4>3 DEF LineVerifies, Parses, Parsed
    <3> QED
      BY <3>1, <3>2
  <2> QED
    BY <1>2, <2>1, <2>4 DEF VerifyChain
<1>8. Kept'
  <2>1. \E i \in 1..Len(lines') : \E j \in 1..Len(lines'[i]) : lines'[i][j] = piece
    BY <1>1, <1>3, WrittenHolds
  <2> QED
    BY <1>4, <2>1 DEF Kept
<1> QED
  BY <1>5, <1>6, <1>7, <1>8

LEMMA TearKeepsLog ==
  ASSUME LogInv, NEW w \in Writers, Tear(w)
  PROVE  LogInv'
<1> USE DEF LogInv, Tear
<1>1. Whole(call[w].record) \in Pieces /\ Cut(call[w].record) \in Pieces
  BY HeldRecord, WholePiece
<1>2. /\ \A v \in Writers : Writing(v)' <=> (Writing(v) /\ v # w)
      /\ \A v \in Writers \ {w} : call'[v] = call[v]
      /\ call' \in [Writers -> Appends \cup {Idle}]
  BY DEF LogTypeOK, Writing, Idle
<1>3. tears' \in 0..MaxTears /\ tears' # 0
  BY TearAssumption DEF LogTypeOK
<1>4. Sealed' /\ Serial'
  BY <1>2, <1>3 DEF Sealed, Serial
<1>5. CASE UNCHANGED <<lines, terminated>>
  BY <1>2, <1>3, <1>4, <1>5 DEF LogTypeOK, Kept
<1>6. ASSUME NEW piece \in Pieces, lines' = Written(piece), terminated' = FALSE
      PROVE  LogInv'
  <2>1. /\ lines' \in Seq(Seq(Pieces)) /\ lines' # <<>>
        /\ \A i \in 1..Len(lines') : lines'[i] # <<>>
        /\ \A record \in returned :
              \E i \in 1..Len(lines') : \E j \in 1..Len(lines'[i]) :
                 lines'[i][j] = Whole(record)
    BY <1>6, FileGrows
  <2>2. LogTypeOK'
    BY <1>2, <1>3, <1>6, <2>1 DEF LogTypeOK
  <2>3. Kept'
    BY <2>1 DEF Kept
  <2> QED
    BY <1>4, <2>2, <2>3
<1> QED
  BY <1>1, <1>5, <1>6

LEMMA LogSteps ==
  ASSUME LogInv, [NextLog]_logVars
  PROVE  LogInv'
<1>1. ASSUME NEW w \in Writers, NEW event \in Events, ReadLast(w, event) PROVE LogInv'
  BY <1>1, ReadKeepsLog
<1>2. ASSUME NEW w \in Writers, WriteRecord(w) PROVE LogInv'
  BY <1>2, WriteKeepsLog
<1>3. ASSUME NEW w \in Writers, Tear(w) PROVE LogInv'
  BY <1>3, TearKeepsLog
<1>4. CASE UNCHANGED logVars
  <2>1. LogTypeOK' /\ Sealed' /\ Kept'
    BY <1>4 DEF LogInv, logVars, LogTypeOK, Sealed, Kept, Writing
  <2>2. Serial'
    BY <1>4, SameFile DEF LogInv, logVars, Serial, Writing
  <2> QED
    BY <2>1, <2>2 DEF LogInv
<1> QED
  BY <1>1, <1>2, <1>3, <1>4 DEF NextLog

\* The invariant of the log, for any writers, events and number of
\* interrupted writes.
THEOREM LogInvariant == SpecLog => []LogInv
<1>1. LogInv /\ [NextLog]_logVars => LogInv'
  BY LogSteps
<1> QED
  BY LogStarts, <1>1, PTL DEF SpecLog

THEOREM LogTypeCorrect == SpecLog => []LogTypeOK
<1>1. LogInv => LogTypeOK
  BY DEF LogInv
<1> QED
  BY LogInvariant, <1>1, PTL

\* Appends that neither overlap nor stop half-way leave a log GET /audit can read
\* and a chain that verifies.
THEOREM SerialAppends == SpecLog => []SerialAppendsVerify
<1>1. LogInv => SerialAppendsVerify
  BY DEF LogInv, Serial, SerialAppendsVerify, AuditAnswer, VerifyChain, LineVerifies
<1> QED
  BY LogInvariant, <1>1, PTL

\* A chain that verifies holds every record append returned.
THEOREM NothingLost == SpecLog => []VerifiedChainLostNothing
<1>1. LogInv => VerifiedChainLostNothing
  <2> SUFFICES ASSUME LogInv, VerifyChain, NEW record \in returned
               PROVE  \E i \in 1..Len(lines) : lines[i] = <<Whole(record)>>
    BY DEF VerifiedChainLostNothing
  <2>1. PICK i \in 1..Len(lines) : \E j \in 1..Len(lines[i]) : lines[i][j] = Whole(record)
    BY DEF LogInv, Kept
  <2>2. lines[i] \in Seq(Pieces) /\ Len(lines[i]) = 1
    BY DEF LogInv, LogTypeOK, VerifyChain, LineVerifies, Parses
  <2>3. lines[i][1] = Whole(record)
    BY <2>1, <2>2
  <2>4. lines[i] = <<Whole(record)>>
    BY <2>2, <2>3
  <2> QED
    BY <2>4
<1> QED
  BY LogInvariant, <1>1, PTL

\* No append repairs a chain that does not verify.
THEOREM StaysBroken == SpecLog => BrokenForever
<1>1. LogInv /\ [NextLog]_logVars => [~VerifyChain => ~VerifyChain']_logVars
  <2> SUFFICES ASSUME LogInv, NextLog, ~VerifyChain PROVE ~VerifyChain'
    OBVIOUS
  <2>1. CASE lines' = lines
    BY <2>1, SameFile
  <2>2. ASSUME NEW piece \in Pieces, lines' = Written(piece) PROVE ~VerifyChain'
    BY <2>2, BrokenStays DEF LogInv
  <2>3. ASSUME NEW w \in Writers, WriteRecord(w) \/ Tear(w)
        PROVE  lines' = lines \/ \E piece \in Pieces : lines' = Written(piece)
    <3>1. Whole(call[w].record) \in Pieces /\ Cut(call[w].record) \in Pieces
      BY <2>3, HeldRecord, WholePiece DEF LogInv, WriteRecord, Tear
    <3> QED
      BY <2>3, <3>1 DEF WriteRecord, Tear
  <2> QED
    BY <2>1, <2>2, <2>3 DEF NextLog, ReadLast
<1> QED
  BY LogInvariant, <1>1, PTL DEF SpecLog, BrokenForever
=============================================================================
