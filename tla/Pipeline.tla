------------------------------ MODULE Pipeline ------------------------------
(***************************************************************************)
(* core/pipeline.py, run_pipeline: the cascade over one set of input rows, *)
(* one action per stage in the order the code runs them, then the          *)
(* disposition of every row and the accounting check.                      *)
(*                                                                         *)
(* Rows are positions (module Rows).  The accounting is the code's: it     *)
(* works on sets of identifiers, so that rows sharing one count once.      *)
(***************************************************************************)
EXTENDS UtrStage, FuzzyStage, OrderStage, BridgeStage, TdsStage

CONSTANT Inputs   \* the runs considered: rows, stage flags and threshold

InputRecord ==
  [bank : Seq(BankRow), settlement : Seq(SettlementRow), ledger : Seq(LedgerRow),
   use_stage2 : BOOLEAN, use_stage3 : BOOLEAN, use_stage4 : BOOLEAN,
   use_stage5 : BOOLEAN, auto_threshold : 0..MaxScore]

ASSUME InputAssumption == Inputs \subseteq InputRecord

VARIABLES
  input,       \* the arguments of run_pipeline
  pc,          \* the next stage, or how the run ended
  stage1, stage5, stage3,   \* StageResults
  exceptions,  \* what Stage 6 recorded, see Exception below
  bridges,     \* UTR |-> the bank row whose credit its stored bridge used
  flagged,     \* identifiers flagged by a bridge or a TDS finding
  report,      \* the three row counts of the RunResult
  error        \* what a run that ended in "raised" raised

vars == <<input, pc, stage1, stage5, stage3, exceptions, bridges, flagged, report, error>>

bank == input.bank
settlement == input.settlement
ledger == input.ledger

SettlementIdsOf(rows) == {settlement[i].settlement_id : i \in rows}
OrderIdsOf(rows) == {ledger[l].order_id : l \in rows}

\* source and row say which row made the cascade record the exception: a bank
\* row for "bridge", "ambiguous" and "bank_only", a settlement row for "tds"
\* and "settlement_only", a ledger row for "ledger_only".
Exception(source, row, code) == [source |-> source, row |-> row, code |-> code]

Init ==
  /\ input \in Inputs
  /\ pc = "stage1"
  /\ stage1 = EmptyResult /\ stage5 = EmptyResult /\ stage3 = EmptyResult
  /\ exceptions = {}
  /\ bridges = <<>>
  /\ flagged = [bank |-> {}, settlement |-> {}, order |-> {}]
  /\ report = [matched |-> 0, needs_review |-> 0, exception |-> 0]
  /\ error = "none"

Raise(what) ==
  /\ pc' = "raised"
  /\ error' = what
  /\ UNCHANGED <<input, stage1, stage5, stage3, exceptions, bridges, flagged, report>>

-----------------------------------------------------------------------------
RunStage1 ==
  /\ pc = "stage1"
  /\ IF UtrRaises(bank, settlement)
       THEN Raise("TypeError")
       ELSE /\ stage1' = MatchUtr(bank, settlement)
            /\ pc' = "stage5"
            /\ UNCHANGED <<input, stage5, stage3, exceptions, bridges, flagged, report, error>>

RunStage5 ==
  /\ pc = "stage5"
  /\ LET rb == stage1.residue_bank
         rs == stage1.residue_settlement
     IN  IF input.use_stage5 /\ FuzzyRaises(bank, settlement, rb, rs)
           THEN Raise("TypeError")
           ELSE /\ stage5' = IF input.use_stage5
                               THEN MatchFuzzy(bank, settlement, rb, rs, input.auto_threshold)
                               ELSE StageResult({}, {}, {}, rb, rs, {})
                /\ pc' = "stage3"
                /\ UNCHANGED <<input, stage1, stage3, exceptions, bridges, flagged, report, error>>

\* Without Stage 3 every settlement row is residue, not the payments alone.
RunStage3 ==
  /\ pc = "stage3"
  /\ stage3' = IF input.use_stage3 THEN MatchOrder(settlement, ledger)
               ELSE StageResult({}, {}, {}, {}, DOMAIN settlement, DOMAIN ledger)
  /\ pc' = "stage2"
  /\ UNCHANGED <<input, stage1, stage5, exceptions, bridges, flagged, report, error>>

BatchMatches == stage1.matched \cup stage5.matched

\* settlement_by_utr: the batch of a match under the spelling the match has,
\* which for Stage 1 is the upper-cased one.
BatchRows(m) == SpelledGroup(settlement, DOMAIN settlement, m.utr)

MatchCode(m) == BridgeCode(Bridge(settlement, BatchRows(m), bank[m.bank].credit))

AuditBridges ==
  /\ pc = "stage2"
  /\ LET audited == IF input.use_stage2
                      THEN {m \in BatchMatches : BatchRows(m) # {}} ELSE {}
         bad == {m \in audited : MatchCode(m) # "NONE"}
     IN  /\ bridges' = [utr \in {m.utr : m \in audited} |->
                          Max({b \in DOMAIN bank : [bank |-> b, utr |-> utr] \in audited})]
         /\ exceptions' = exceptions
              \cup {Exception("bridge", m.bank, MatchCode(m)) : m \in bad}
         /\ flagged' = [flagged EXCEPT
              !.bank = {m.bank : m \in bad},
              !.settlement = UNION {SettlementIdsOf(BatchRows(m)) : m \in bad}]
  /\ pc' = "stage4"
  /\ UNCHANGED <<input, stage1, stage5, stage3, report, error>>

MatchRule(m) == TdsRule(LedgerOf(ledger, m.order))

ValidateTds ==
  /\ pc = "stage4"
  /\ LET evaluated == IF input.use_stage4 THEN stage3.matched ELSE {}
         found == {m \in evaluated : MatchRule(m) # "NONE"}
     IN  IF \E m \in evaluated : MatchRule(m) = "ZERO_DIVISION"
           THEN Raise("DivisionByZero")
           ELSE /\ exceptions' = exceptions
                     \cup {Exception("tds", m.row, TdsCode(MatchRule(m))) : m \in found}
                /\ flagged' = [flagged EXCEPT !.order = {m.order : m \in found}]
                /\ pc' = "stage6"
                /\ UNCHANGED <<input, stage1, stage5, stage3, bridges, report, error>>

\* Mutant: an empty credit is reported as BANK_ONLY like any other.
ClassifyBlankAsZero ==
  /\ pc = "stage6"
  /\ exceptions' = exceptions
       \cup {Exception("bank_only", b, "BANK_ONLY") : b \in stage5.residue_bank}
  /\ pc' = "account"
  /\ UNCHANGED <<input, stage1, stage5, stage3, bridges, flagged, report, error>>

\* The amount of a BANK_ONLY exception is the row's credit: an empty one fails
\* the validation of the Exception_ model.
ClassifyResidues ==
  /\ pc = "stage6"
  /\ IF \E b \in stage5.residue_bank : bank[b].credit = Blank
       THEN Raise("ValidationError")
       ELSE /\ exceptions' = exceptions
                 \cup {Exception("ambiguous", b, "AMBIGUOUS_MATCH") :
                         b \in stage1.ambiguous \cup stage5.ambiguous}
                 \cup {Exception("bank_only", b, "BANK_ONLY") : b \in stage5.residue_bank}
                 \cup {Exception("ledger_only", l, "LEDGER_ONLY") : l \in stage3.residue_ledger}
                 \cup {Exception("settlement_only", i, "SETTLEMENT_ONLY") :
                         i \in stage3.residue_settlement}
            /\ pc' = "account"
            /\ UNCHANGED <<input, stage1, stage5, stage3, bridges, flagged, report, error>>

-----------------------------------------------------------------------------
\* The sets of identifiers run_pipeline counts.
MatchedBankIds == {m.bank : m \in BatchMatches}
ReviewBankIds == {m.bank : m \in stage5.needs_review}

\* Mutants: a flagged bank row is no exception; a proposal counts as a match;
\* a flagged order still counts as a match.
BankExceptionUnflagged ==
  stage1.ambiguous \cup stage5.ambiguous \cup stage5.residue_bank
BankMatchedOrProposed ==
  (MatchedBankIds \cup ReviewBankIds)
    \ (stage1.ambiguous \cup stage5.ambiguous \cup stage5.residue_bank \cup flagged.bank)
LedgerMatchedAndFlagged == {m.order : m \in stage3.matched}

BankException ==
  stage1.ambiguous \cup stage5.ambiguous \cup stage5.residue_bank \cup flagged.bank
BankMatched == MatchedBankIds \ BankException
BankReview == (ReviewBankIds \ BankException) \ BankMatched

SettlementException == flagged.settlement \cup SettlementIdsOf(stage3.residue_settlement)
SettlementMatched == SettlementIdsOf(DOMAIN settlement) \ SettlementException

LedgerException == flagged.order \cup OrderIdsOf(stage3.residue_ledger)
LedgerMatched == {m.order : m \in stage3.matched} \ LedgerException

Counts ==
  [matched |-> Cardinality(BankMatched) + Cardinality(SettlementMatched)
                 + Cardinality(LedgerMatched),
   needs_review |-> Cardinality(BankReview),
   exception |-> Cardinality(BankException) + Cardinality(SettlementException)
                   + Cardinality(LedgerException)]

TotalInputRows == Len(bank) + Len(settlement) + Len(ledger)

\* Mutant: the counts are reported without the check.
AccountUnchecked ==
  /\ pc = "account"
  /\ report' = Counts
  /\ pc' = "done"
  /\ UNCHANGED <<input, stage1, stage5, stage3, exceptions, bridges, flagged, error>>

Account ==
  /\ pc = "account"
  /\ IF Counts.matched + Counts.needs_review + Counts.exception # TotalInputRows
       THEN Raise("InvariantViolation")
       ELSE /\ report' = Counts
            /\ pc' = "done"
            /\ UNCHANGED <<input, stage1, stage5, stage3, exceptions, bridges, flagged, error>>

Next ==
  \/ RunStage1 \/ RunStage5 \/ RunStage3 \/ AuditBridges \/ ValidateTds
  \/ ClassifyResidues \/ Account

Spec == Init /\ [][Next]_vars
=============================================================================
