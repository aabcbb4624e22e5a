---------------------------- MODULE PipelineProps ---------------------------
(***************************************************************************)
(* What run_pipeline is meant to guarantee.                                *)
(***************************************************************************)
EXTENDS Pipeline

UtrResults ==
  [matched : SUBSET [bank : DOMAIN bank, utr : Utrs],
   needs_review : SUBSET [bank : DOMAIN bank, utr : Utrs],
   ambiguous : SUBSET DOMAIN bank, residue_bank : SUBSET DOMAIN bank,
   residue_settlement : SUBSET DOMAIN settlement, residue_ledger : {{}}]

OrderResults ==
  [matched : SUBSET [row : DOMAIN settlement, order : OrderIds],
   needs_review : {{}}, ambiguous : {{}}, residue_bank : {{}},
   residue_settlement : SUBSET DOMAIN settlement, residue_ledger : SUBSET DOMAIN ledger]

Codes ==
  {"FEE_VARIANCE", "GST_ON_MDR_VARIANCE", "ROUNDING", "UNEXPLAINED",
   "TDS_CODE_MIGRATION_BREAK", "TDS_RATE_MISMATCH", "TDS_AMOUNT_MISMATCH",
   "AMBIGUOUS_MATCH", "BANK_ONLY", "LEDGER_ONLY", "SETTLEMENT_ONLY"}

Sources == {"bridge", "tds", "ambiguous", "bank_only", "ledger_only", "settlement_only"}

\* The types of the variables of one run: every stage result names rows of the
\* input, every exception has a code of core/taxonomy.py.
TypeOK ==
  /\ input \in InputRecord
  /\ pc \in {"stage1", "stage5", "stage3", "stage2", "stage4", "stage6", "account",
             "done", "raised"}
  /\ stage1 \in UtrResults /\ stage5 \in UtrResults /\ stage3 \in OrderResults
  /\ exceptions \subseteq [source : Sources, row : Nat, code : Codes]
  /\ DOMAIN bridges \subseteq Utrs
  /\ \A utr \in DOMAIN bridges : bridges[utr] \in DOMAIN bank
  /\ flagged \in [bank : SUBSET DOMAIN bank, settlement : SUBSET SettlementIds,
                  order : SUBSET OrderIds]
  /\ report \in [matched : Nat, needs_review : Nat, exception : Nat]
  /\ error \in {"none", "TypeError", "DivisionByZero", "ValidationError",
                "InvariantViolation"}

AfterStage5 == pc \in {"stage3", "stage2", "stage4", "stage6", "account", "done"}
AfterStage2 == pc \in {"stage4", "stage6", "account", "done"}
Classified == pc \in {"account", "done"} \/ error = "InvariantViolation"

-----------------------------------------------------------------------------
(* Rows and their fate                                                     *)

\* The buckets Stages 1 and 5 can put a bank row into.
BankBuckets ==
  <<{m.bank : m \in stage1.matched}, stage1.ambiguous, {m.bank : m \in stage5.matched},
    ReviewBankIds, stage5.ambiguous, stage5.residue_bank>>

\* Once both matching stages ran, every bank row is in exactly one of their
\* buckets: no stage looks at a row an earlier one decided, and none is lost
\* between the residue of Stage 1 and that of Stage 5.
BankRowsDecidedOnce ==
  AfterStage5 =>
    \A b \in DOMAIN bank : \E k \in 1..6 :
       /\ b \in BankBuckets[k]
       /\ \A j \in 1..6 \ {k} : b \notin BankBuckets[j]

\* A UTR several bank rows claim is never settled by picking one of them: if
\* its batch exists, all of them stay ambiguous to the end, and neither stage
\* matches or proposes any of them.
ContestedUtrNeverPicked ==
  AfterStage5 =>
    \A b, c \in DOMAIN bank :
       LET utr == ExtractUtr(bank[b].narration)
       IN  /\ b # c
           /\ utr # NoUtr
           /\ ExtractUtr(bank[c].narration) = utr
           /\ Group(settlement, utr) # {}
           => {b, c} \cap (MatchedBankIds \cup ReviewBankIds) = {}

\* A batch Stage 1 matched belongs to that bank row alone: no other row is
\* matched to it or proposed for it, under any spelling of its UTR.
ExactMatchIsExclusive ==
  AfterStage5 =>
    \A m \in stage1.matched : \A n \in BatchMatches \cup stage5.needs_review :
       Upper[n.utr] = m.utr => n = m

\* A near tie is settled only below the review threshold, where a caller's automatic
\* threshold lies lower still: at and above it no stage matches or proposes a batch
\* while another one is within the ambiguity margin.
NearTieOnlyBelowReview ==
  AfterStage5 =>
    \A m \in stage5.matched \cup stage5.needs_review :
       LET rows == stage1.residue_settlement
           ScoreOf(utr) == Score(bank[m.bank], settlement, rows, utr)
       IN  \A utr \in Candidates(settlement, rows) \ {m.utr} :
              ScoreOf(m.utr) - ScoreOf(utr) <= AmbiguityMargin =>
                ScoreOf(m.utr) < ReviewThreshold

\* A proposal is never a decision: a row in needs_review is counted as that,
\* never as matched, whatever later stages do.
ReviewNeverPromoted == Classified => BankReview = ReviewBankIds

\* A run whose statement has an empty credit cell completes only if that row is
\* an ambiguous claim, which no amount is read of: such a row is otherwise
\* never matched, proposed or reported, the run raises.
BlankCreditNeverCounted ==
  pc = "done" => \A b \in DOMAIN bank : bank[b].credit = Blank => b \in stage1.ambiguous

-----------------------------------------------------------------------------
(* Accounting                                                              *)

IdsDistinct ==
  /\ \A i, j \in DOMAIN settlement :
        settlement[i].settlement_id = settlement[j].settlement_id => i = j
  /\ \A l, k \in DOMAIN ledger : ledger[l].order_id = ledger[k].order_id => l = k

\* The accounting check fires exactly when two rows of a file share their
\* identifier: never on a sound input, whatever the stages did and whichever
\* of them were disabled, and always when a row would go uncounted.
RaisesExactlyOnDuplicates ==
  /\ pc = "done" => IdsDistinct
  /\ error = "InvariantViolation" => ~IdsDistinct

Named(sources) == {e.row : e \in {x \in exceptions : x.source \in sources}}

\* The exceptions a run lists and the rows it counts as exceptions agree, as the code
\* assigns them: a bridge's finding makes the bank row and every settlement row of its
\* batch an exception, any other finding the row it names, and no row is one for another
\* reason.  A TDS finding names the ledger row only: the settlement row of the same
\* order is counted as matched, unless its batch was flagged (core/pipeline.py's
\* docstring says otherwise: see TdsFindingFlagsTheSettlement).
ExceptionsMatchTheCount ==
  Classified =>
    LET badBatches == {BatchRows(m) : m \in {n \in BatchMatches : n.bank \in Named({"bridge"})}}
    IN  /\ BankException = Named({"bridge", "ambiguous", "bank_only"})
        /\ SettlementException =
             SettlementIdsOf(Named({"settlement_only"}))
             \cup UNION {SettlementIdsOf(rows) : rows \in badBatches}
        /\ LedgerException =
             OrderIdsOf(Named({"ledger_only"}))
             \cup {settlement[i].order_id : i \in Named({"tds"})}
        /\ IdsDistinct =>
             \A i \in Named({"tds"}) \ UNION badBatches :
                settlement[i].settlement_id \in SettlementMatched

\* What the docstring of core/pipeline.py says of a settlement row: it is an exception
\* "if either side flagged a problem (including ... a TDS finding on an
\* otherwise-successful match)".  run_pipeline does not count it as one.
TdsFindingFlagsTheSettlement ==
  pc = "done" =>
    \A i \in Named({"tds"}) : settlement[i].settlement_id \in SettlementException

-----------------------------------------------------------------------------
(* Stage 1 and the bridge                                                  *)

SpelledUpper(rows) ==
  \A i \in rows : Upper[settlement[i].settlement_utr] = settlement[i].settlement_utr

\* Stages 1 and 2 sum a batch in two different ways, by row and by waterfall.
\* They agree: the bridge of a batch Stage 1 matched closes, unless the batch
\* has an adjustment without a dispute or is spelled in several cases.
ExactMatchesClose ==
  AfterStage2 =>
    \A m \in stage1.matched :
       LET rows == Group(settlement, m.utr)
       IN  /\ SpelledUpper(rows)
           /\ \A i \in rows : settlement[i].type = "adjustment" => settlement[i].dispute_id
           => Closed(Bridge(settlement, BatchRows(m), bank[m.bank].credit))

\* A bank row counted as matched whose batch was audited is clean: the credit is
\* the sum of the batch to the paisa, leaving undisputed adjustments out, and
\* the recorded MDR and GST are within 0.105 % of the contract.
CleanMatchesReconcile ==
  pc = "done" =>
    \A m \in BatchMatches :
       LET rows == BatchRows(m)
           counted == {i \in rows : settlement[i].type = "adjustment"
                                      => settlement[i].dispute_id}
           active == {i \in rows : settlement[i].type = "payment" /\ ~settlement[i].on_hold}
           gross == Total(settlement, active, "amount")
           mdr == Total(settlement, active, "fee")
           gst == Total(settlement, active, "tax")
       IN  m.bank \in BankMatched /\ m.utr \in DOMAIN bridges =>
             /\ Abs(bank[m.bank].credit - Net(settlement, counted)) <= Tolerance
             /\ gross > 0 => 20 * Abs(1000 * mdr - 20 * gross) <= 21 * gross
             /\ mdr > 0 => 20 * Abs(1000 * gst - 180 * mdr) <= 21 * mdr

-----------------------------------------------------------------------------
(* TDS                                                                     *)

\* Rule C, checked after the Rs 1.00 floor of rule D, is left with small orders:
\* the rate mismatch it reports is on a gross of at most Rs 957.14.
RateRuleOnSmallOrders ==
  AfterStage2 =>
    \A m \in stage3.matched :
       MatchRule(m) = "C" => LedgerOf(ledger, m.order).gross_amount <= 95714

-----------------------------------------------------------------------------
(* The abstract run                                                        *)

Side(side, n) == {<<side, i>> : i \in 1..n}
AllRows == Side("bank", Len(bank)) \cup Side("settlement", Len(settlement))
             \cup Side("ledger", Len(ledger))

\* Settlement rows are decided when Stage 6 has spoken, the others as soon as a
\* stage matched, proposed or flagged them.
RowDisposition(r) ==
  LET i == r[2]
  IN  CASE r[1] = "bank" ->
             (CASE i \in BankException -> "exception"
                [] i \in BankMatched -> "matched"
                [] i \in BankReview -> "needs_review"
                [] OTHER -> "open")
        [] r[1] = "settlement" ->
             (IF settlement[i].settlement_id \in SettlementException /\ Classified
                THEN "exception"
                ELSE IF Classified THEN "matched" ELSE "open")
        [] r[1] = "ledger" ->
             (CASE ledger[i].order_id \in LedgerException -> "exception"
                [] ledger[i].order_id \in LedgerMatched -> "matched"
                [] OTHER -> "open")

Abstract == INSTANCE Dispositions WITH
  disposition <- [r \in AllRows |-> RowDisposition(r)],
  phase <- IF pc \in {"done", "raised"} THEN pc ELSE "running",
  report <- report

\* A run of the cascade keeps the promise of module Dispositions: rows are only
\* ever decided forward, and what it reports is the number of rows of each
\* disposition, with no row left out.
KeepsThePromise == Abstract!Spec
=============================================================================
