------------------------------ MODULE AuditLog ------------------------------
(***************************************************************************)
(* core/audit.py: the hash-chained log all entry points of the backend     *)
(* append to (backend/audit_log.py), without a lock: the request threads   *)
(* of the API and the Streamlit process each read the last hash, then      *)
(* open the file again and write.                                          *)
(*                                                                         *)
(* A hash is what it commits to: the events hashed into it, oldest first.  *)
(* SHA-256 is taken to be injective.  A line holds the pieces written to   *)
(* it before a newline; one written whole is its only piece and parses.    *)
(***************************************************************************)
EXTENDS Naturals, Sequences

CONSTANTS
  Writers,     \* threads and processes that append
  MaxTears     \* bound on the writes that stop half-way

ASSUME TearAssumption == MaxTears \in Nat

VARIABLES
  lines,       \* the file: a sequence of lines, each a sequence of pieces
  terminated,  \* the last line ends in a newline
  call,        \* what each writer is doing
  tears,       \* how many writes stopped half-way
  returned,    \* history: the records append returned
  raced        \* history: an append began while another was under way

logVars == <<lines, terminated, call, tears, returned, raced>>

Genesis == <<>>
Hash(prev, event) == Append(prev, event)

Record(prev, event) == [prev_hash |-> prev, event |-> event, hash |-> Hash(prev, event)]

\* A piece is a record, or the start of one: json.loads takes a line that is
\* one whole record and nothing else.
Whole(record) == [whole |-> TRUE, record |-> record]
Cut(record) == [whole |-> FALSE, record |-> record]
Parses(line) == Len(line) = 1 /\ line[1].whole
Parsed(line) == line[1].record

\* Mutants: a key the record lacks, of which str(last.get(...)) makes "None"; the
\* hash of the first line.
HashOfMissingKey ==
  IF lines # <<>> /\ Parses(lines[Len(lines)]) THEN <<"None">> ELSE Genesis

FirstHash ==
  IF lines # <<>> /\ Parses(lines[1]) THEN Parsed(lines[1]).hash ELSE Genesis

LastHash ==
  IF lines # <<>> /\ Parses(lines[Len(lines)]) THEN Parsed(lines[Len(lines)]).hash
  ELSE Genesis

Idle == [state |-> "idle", record |-> Record(Genesis, "none")]
Writing(w) == call[w].state = "writing"

InitLog ==
  /\ lines = <<>> /\ terminated = TRUE
  /\ call = [w \in Writers |-> Idle]
  /\ tears = 0
  /\ returned = {}
  /\ raced = FALSE

\* append, up to the second open: the previous hash is read and the record made.
ReadLast(w, event) ==
  /\ ~ Writing(w)
  /\ call' = [call EXCEPT ![w] = [state |-> "writing", record |-> Record(LastHash, event)]]
  /\ raced' = (raced \/ \E v \in Writers \ {w} : Writing(v))
  /\ UNCHANGED <<lines, terminated, tears, returned>>

\* The file with a piece written at its end: a line that lacks its newline is
\* continued.
Written(piece) ==
  IF terminated THEN Append(lines, <<piece>>)
  ELSE [lines EXCEPT ![Len(lines)] = Append(@, piece)]

\* Mutant: the file is opened with "w".
WriteOver(w) ==
  /\ Writing(w)
  /\ lines' = << <<Whole(call[w].record)>> >>
  /\ terminated' = TRUE
  /\ call' = [call EXCEPT ![w] = Idle]
  /\ returned' = returned \cup {call[w].record}
  /\ UNCHANGED <<tears, raced>>

\* The rest of append: a record below the buffer size goes out in one write.
WriteRecord(w) ==
  /\ Writing(w)
  /\ lines' = Written(Whole(call[w].record))
  /\ terminated' = TRUE
  /\ call' = [call EXCEPT ![w] = Idle]
  /\ returned' = returned \cup {call[w].record}
  /\ UNCHANGED <<tears, raced>>

\* The disk is full or the process dies before, within or just short of the end
\* of the write: append does not return.
Tear(w) ==
  /\ Writing(w) /\ tears < MaxTears
  /\ \/ UNCHANGED <<lines, terminated>>
     \/ /\ lines' = Written(Cut(call[w].record))
        /\ terminated' = FALSE
     \/ /\ lines' = Written(Whole(call[w].record))
        /\ terminated' = FALSE
  /\ call' = [call EXCEPT ![w] = Idle]
  /\ tears' = tears + 1
  /\ UNCHANGED <<returned, raced>>

-----------------------------------------------------------------------------
\* Mutant: a line that is not JSON is skipped.
VerifyReadableLines ==
  \A i \in 1..Len(lines) :
     Parses(lines[i]) =>
       /\ Parsed(lines[i]).prev_hash = IF i > 1 /\ Parses(lines[i - 1])
                                         THEN Parsed(lines[i - 1]).hash ELSE Genesis
       /\ Parsed(lines[i]).hash = Hash(Parsed(lines[i]).prev_hash, Parsed(lines[i]).event)

\* One turn of the loop of verify_chain.
LineVerifies(i) ==
  /\ Parses(lines[i])
  /\ Parsed(lines[i]).prev_hash = IF i > 1 THEN Parsed(lines[i - 1]).hash ELSE Genesis
  /\ Parsed(lines[i]).hash = Hash(Parsed(lines[i]).prev_hash, Parsed(lines[i]).event)

VerifyChain == \A i \in 1..Len(lines) : LineVerifies(i)

\* GET /audit/{run_id} parses every line before it asks for the chain.
AuditAnswer ==
  IF \E i \in 1..Len(lines) : ~ Parses(lines[i]) THEN "JSONDecodeError"
  ELSE IF VerifyChain THEN "chain_valid" ELSE "chain_broken"
=============================================================================
