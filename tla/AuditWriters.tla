---------------------------- MODULE AuditWriters ----------------------------
(***************************************************************************)
(* Several threads and processes that append to one audit log, and what    *)
(* verify_chain says of the file they leave.  Nothing edits the file: it   *)
(* changes by appends and by appends that stop half-way.                   *)
(***************************************************************************)
EXTENDS AuditLog

CONSTANTS
  Events,
  MaxLines   \* bound on the lines of the log

ASSUME LineAssumption == MaxLines \in Nat

NextLog ==
  \E w \in Writers :
     \/ /\ Len(lines) < MaxLines /\ \E event \in Events : ReadLast(w, event)
     \/ WriteRecord(w)
     \/ Tear(w)

SpecLog == InitLog /\ [][NextLog]_logVars

-----------------------------------------------------------------------------
Records == [prev_hash : Seq(Events), event : Events, hash : Seq(Events)]
Pieces == [whole : BOOLEAN, record : Records]
Appends == [state : {"writing"}, record : Records]

\* The log is a sequence of lines of one piece or more, and the last one lacks
\* its newline only if there is one.
LogTypeOK ==
  /\ lines \in Seq(Seq(Pieces))
  /\ \A i \in 1..Len(lines) : lines[i] # <<>>
  /\ terminated \in BOOLEAN /\ (lines = <<>> => terminated)
  /\ call \in [Writers -> Appends \cup {Idle}]
  /\ tears \in 0..MaxTears
  /\ returned \in SUBSET Records
  /\ raced \in BOOLEAN

\* As long as no two appends overlapped and none stopped half-way, GET /audit reads
\* every line and finds that the chain verifies: a failed verification, and the
\* JSONDecodeError of a line it cannot parse, need a race, a crash or an edit.
SerialAppendsVerify == ~raced /\ tears = 0 => AuditAnswer = "chain_valid"

\* A broken chain stays broken: no later append makes verify_chain true again,
\* so that one race is reported for the rest of the log's life.
BrokenForever == [][~VerifyChain => ~VerifyChain']_logVars

\* When the chain verifies, no append was lost: every record append returned is
\* a line of its own, although writes overlap and stop half-way.
VerifiedChainLostNothing ==
  VerifyChain => \A record \in returned : \E i \in 1..Len(lines) :
                    lines[i] = <<Whole(record)>>

-----------------------------------------------------------------------------
\* app/streamlit_app.py:725: when verification fails "a record has been tampered
\* with or removed"; nothing here tampers with or removes a record.
FailureMeansTampering == tears = 0 => VerifyChain
=============================================================================
