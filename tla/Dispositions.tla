---------------------------- MODULE Dispositions ----------------------------
(***************************************************************************)
(* What a run of the cascade promises, without its stages: every input row *)
(* starts open and gets one disposition; an exception is never taken back, *)
(* a proposal is never promoted to a match, and a run either reports the   *)
(* number of rows of each disposition, with no row left open, or reports   *)
(* nothing at all.                                                         *)
(***************************************************************************)
EXTENDS Naturals, FiniteSets

VARIABLES
  disposition,   \* row |-> "open", "matched", "needs_review" or "exception"
  phase,         \* "running", "done" or "raised"
  report         \* the counts of a run that is done

vars == <<disposition, phase, report>>

NoReport == [matched |-> 0, needs_review |-> 0, exception |-> 0]

\* A match may turn into an exception when a later stage flags it.
MayBecome(from, to) ==
  \/ from = to
  \/ from = "open"
  \/ from = "matched" /\ to = "exception"

RowsWith(what) == {r \in DOMAIN disposition : disposition[r] = what}

Init ==
  /\ phase = "running"
  /\ disposition = [r \in DOMAIN disposition |-> "open"]
  /\ report = NoReport

Decide ==
  /\ phase = "running"
  /\ DOMAIN disposition' = DOMAIN disposition
  /\ \A r \in DOMAIN disposition : MayBecome(disposition[r], disposition'[r])
  /\ UNCHANGED <<phase, report>>

Finish ==
  /\ phase = "running"
  /\ RowsWith("open") = {}
  /\ phase' = "done"
  /\ report' = [matched |-> Cardinality(RowsWith("matched")),
                needs_review |-> Cardinality(RowsWith("needs_review")),
                exception |-> Cardinality(RowsWith("exception"))]
  /\ UNCHANGED disposition

GiveUp ==
  /\ phase = "running"
  /\ phase' = "raised"
  /\ UNCHANGED <<disposition, report>>

Next == Decide \/ Finish \/ GiveUp

Spec == Init /\ [][Next]_vars
=============================================================================
