----------------------------- MODULE Evaluation -----------------------------
(***************************************************************************)
(* evaluation/metrics.py: what the evaluation reads off a finished run,    *)
(* from its matches and exceptions alone, without the dispositions the run *)
(* was accounted by.  The labelled data it is then compared with is not    *)
(* modelled.                                                               *)
(***************************************************************************)
EXTENDS PipelineProps

\* The bank rows whose bridge was recorded under a UTR; an exception of theirs
\* names the UTR, not the row.
FlaggedUnder(utr) ==
  {b \in DOMAIN bank : [bank |-> b, utr |-> utr] \in BatchMatches
                         /\ \E e \in exceptions : e.source = "bridge" /\ e.row = b}

\* The bank rows Stage 1 found claiming a UTR together: their exceptions name it too.
ContestedUnder(utr) ==
  {b \in stage1.ambiguous : ExtractUtr(bank[b].narration) = utr
                              /\ \E e \in exceptions : e.source = "ambiguous" /\ e.row = b}

\* utr_to_exception_code keeps the code of the last exception with that UTR: the
\* ambiguous claims are listed after the bridges, and these in the order of the rows.
BatchLabel(utr) ==
  LET flaggedRows == FlaggedUnder(utr)
  IN  CASE ContestedUnder(utr) # {} -> "AMBIGUOUS_MATCH"
        [] ContestedUnder(utr) = {} /\ flaggedRows # {} ->
             MatchCode([bank |-> Max(flaggedRows), utr |-> utr])
        [] OTHER -> "CLEAN"

\* Mutant: a matched row is clean.
BankLabelOfMatch(b) ==
  IF \E e \in exceptions : e.row = b /\ e.source \in {"ambiguous", "bank_only"}
    THEN (CHOOSE e \in exceptions : e.row = b /\ e.source \in {"ambiguous", "bank_only"}).code
  ELSE IF b \in ReviewBankIds THEN "NEEDS_REVIEW" ELSE "CLEAN"

\* _predicted_bank_row_labels: an exception that names the row comes before what its
\* match says.
BankLabel(b) ==
  LET named == {e \in exceptions : e.row = b /\ e.source \in {"ambiguous", "bank_only"}}
      utrs == {m.utr : m \in {n \in BatchMatches : n.bank = b}}
  IN  CASE named # {} -> (CHOOSE e \in named : TRUE).code
        [] named = {} /\ utrs # {} -> BatchLabel(CHOOSE utr \in utrs : TRUE)
        [] named = {} /\ utrs = {} /\ b \in ReviewBankIds -> "NEEDS_REVIEW"
        [] OTHER -> "CLEAN"

\* _predicted_order_labels: the orders a label is given to.
LabelledOrders ==
  {settlement[e.row].order_id : e \in {x \in exceptions : x.source = "tds"}}
  \cup {ledger[e.row].order_id : e \in {x \in exceptions : x.source = "ledger_only"}}

-----------------------------------------------------------------------------
\* The labels a run is scored by are the dispositions it reported: a row counted as an
\* exception, or as a proposal, is labelled so, and one counted as matched is labelled
\* clean unless its batch is flagged through others, and never then: another row was
\* matched to the batch too and is an exception, or several rows named its UTR in
\* Stage 1 and this one came to it in Stage 5.
LabelsFollowTheCount ==
  pc = "done" =>
    /\ \A b \in BankException : BankLabel(b) \in Codes
    /\ \A b \in BankReview : BankLabel(b) = "NEEDS_REVIEW"
    /\ \A m \in BatchMatches :
         m.bank \in BankMatched =>
           (BankLabel(m.bank) = "CLEAN"
              <=> /\ \A b, c \in Claims(bank, m.utr) : b = c
                  /\ \A n \in BatchMatches : n.utr = m.utr => n.bank \in BankMatched)
    /\ LedgerException = LabelledOrders
=============================================================================
