------------------------------ MODULE Benchmark ------------------------------
(***************************************************************************)
(* A generated dataset run through the cascade and scored against its      *)
(* ground truth: data/generator.py, core/pipeline.py and evaluate_run of   *)
(* evaluation/metrics.py as evaluation/ablation.py composes them.  The     *)
(* generator shares no code with the cascade; what they agree on is        *)
(* checked here.                                                           *)
(***************************************************************************)
EXTENDS Evaluation, Generator

ConfiguredThreshold == 2700   \* config/settings.yaml auto_match_threshold, 0.90

Flags(s2, s3, s4, s5, threshold) ==
  [use_stage2 |-> s2, use_stage3 |-> s3, use_stage4 |-> s4, use_stage5 |-> s5,
   auto_threshold |-> threshold]

\* CUMULATIVE_CONFIGS and THRESHOLD_SWEEP, 0.60 to 0.95.
CumulativeConfigs ==
  {Flags(FALSE, FALSE, FALSE, FALSE, ConfiguredThreshold),
   Flags(TRUE, FALSE, FALSE, FALSE, ConfiguredThreshold),
   Flags(TRUE, TRUE, FALSE, FALSE, ConfiguredThreshold),
   Flags(TRUE, TRUE, TRUE, FALSE, ConfiguredThreshold),
   Flags(TRUE, TRUE, TRUE, TRUE, ConfiguredThreshold)}

ASSUME ConfigAssumption ==
  \A s \in Setups : s.configs \subseteq
    [use_stage2 : BOOLEAN, use_stage3 : BOOLEAN, use_stage4 : BOOLEAN, use_stage5 : BOOLEAN,
     auto_threshold : 0..MaxScore]

\* The generator's tables are those of the configuration the cascade reads.
ASSUME TableAssumption ==
  \A s \in DOMAIN LegacyToNewCode :
    LET code == LegacyToNewCode[s]
    IN  /\ s \in DOMAIN CodeMap /\ CodeMap[s] = code
        /\ code \in DOMAIN RateWithPan
        /\ RateWithPan[code] = TdsRateFor(code, TRUE)
        /\ RateNoPan[code] = TdsRateFor(code, FALSE)

\* The narrations of a credit that names utr in full, or its first eight digits.
NarrationsOf(s, utr) ==
  {Narration(t[1], utr, t[2]) : t \in s.templates}
  \cup {Narration("clean", utr, 16), Narration("unknown", utr, 16)}

\* No narration reads like a UTR drawn for another batch: the pattern captures its own
\* or eight digits of it, and two different numbers of sixteen digits have fifteen in
\* common at most, twice of the 47 characters of the shortest template and a UTR.  Six
\* digits are not captured, and are nearer to no UTR than to the one they begin.
ASSUME ReadingAssumption ==
  /\ ReviewThreshold <= 2100   \* config/settings.yaml needs_review_threshold, 0.70
  /\ \A s \in Setups :
       LET drawn == 1..(s.n_orders + s.bank_only + 2 * s.unresolvable)
       IN  \A u \in drawn :
             /\ Upper[u] = u
             /\ \A n \in NarrationsOf(s, u), v \in drawn \ {u} : Token[n] # v /\ Ratio[n][v] < 67
             /\ LET n == Narration("neft", u, 6)
                IN  \A v \in drawn : Token[n] # v /\ Ratio[n][v] < 67 /\ Ratio[n][v] <= Ratio[n][u]

\* The arguments of run_pipeline: three files and a configuration.
Arguments(f, config) ==
  [bank |-> f.bank, settlement |-> f.settlement, ledger |-> f.ledger,
   use_stage2 |-> config.use_stage2, use_stage3 |-> config.use_stage3,
   use_stage4 |-> config.use_stage4, use_stage5 |-> config.use_stage5,
   auto_threshold |-> config.auto_threshold]

ThresholdSweep == {Flags(TRUE, TRUE, TRUE, TRUE, 1800 + 150 * i) : i \in 0..7}

BenchmarkInit ==
  /\ GenerateInit
  /\ pc = "waiting"
  /\ input = Arguments(files, Flags(TRUE, TRUE, TRUE, TRUE, ConfiguredThreshold))
  /\ stage1 = EmptyResult /\ stage5 = EmptyResult /\ stage3 = EmptyResult
  /\ exceptions = {}
  /\ bridges = <<>>
  /\ flagged = [bank |-> {}, settlement |-> {}, order |-> {}]
  /\ report = [matched |-> 0, needs_review |-> 0, exception |-> 0]
  /\ error = "none"

\* run_cumulative_ablation and run_threshold_sweep load the files again and call
\* run_pipeline once per configuration, each independent of the others; the setup
\* says for which of them.
Evaluate ==
  /\ step = "written"
  /\ pc = "waiting"
  /\ \E config \in setup.configs : input' = Arguments(files, config)
  /\ pc' = "stage1"
  /\ UNCHANGED <<stage1, stage5, stage3, exceptions, bridges, flagged, report, error>>

BenchmarkNext ==
  \/ Generate /\ UNCHANGED vars
  \/ (Evaluate \/ Next) /\ UNCHANGED generatorVars

BenchmarkSpec == BenchmarkInit /\ [][BenchmarkNext]_<<vars, generatorVars>>

-----------------------------------------------------------------------------
(* evaluate_run                                                            *)

FlaggedButTrueMatchLabels ==
  {"FEE_VARIANCE", "GST_ON_MDR_VARIANCE", "ROUNDING", "TIMING_T_PLUS_N", "UNEXPLAINED"}

PuntLabels == {"AMBIGUOUS_MATCH", "UNEXPLAINED"}

\* settlement_utr_by_id; a later row replaces an earlier one of the same id.
UtrById(id) ==
  settlement[Max({i \in DOMAIN settlement : settlement[i].settlement_id = id})].settlement_utr

TruePairings ==
  {[bank |-> m.row, utr |-> m.utr] : m \in truth.expected}
  \cup {[bank |-> e.row, utr |-> UtrById(e.ids[1])] :
          e \in {p \in truth.planted : p.label \in FlaggedButTrueMatchLabels}}

PredictedPairs == BatchMatches

BankTrueLabel(b) ==
  IF \E e \in truth.planted : e.row = b
    THEN (CHOOSE e \in truth.planted : e.row = b).label ELSE "CLEAN"

\* An order with a planted TDS defect may be a LEDGER_ONLY victim too: that entry is
\* planted later and replaces the label.
OrderTrueLabel(order) ==
  LET labels == {e.label : e \in {p \in truth.planted : order \in p.orders}}
  IN  IF "LEDGER_ONLY" \in labels THEN "LEDGER_ONLY"
      ELSE IF labels # {} THEN CHOOSE l \in labels : TRUE ELSE "CLEAN"

\* _predicted_order_labels: the codes an order is given, the last of which it keeps.
OrderCodes(order) ==
  {e.code : e \in {x \in exceptions : x.source = "tds"
                                        /\ settlement[x.row].order_id = order}}
  \cup {e.code : e \in {x \in exceptions : x.source = "ledger_only"
                                             /\ ledger[x.row].order_id = order}}

Punted == {u \in truth.unresolvable : BankLabel(u.row) \in PuntLabels}

-----------------------------------------------------------------------------
Scored == pc = "done"
FullCascade == input.use_stage2 /\ input.use_stage3 /\ input.use_stage4 /\ input.use_stage5

\* What the ground truth says of the files is true of them: an expected match names
\* all the rows of its batch, whose net is the credit, a planted defect names rows
\* that exist under one UTR, every bank row is accounted for once, and every order
\* of the ledger is settled once or LEDGER_ONLY.
TruthMatchesTheFiles ==
  step = "written" =>
    LET IdsUnder(utr) ==
          {files.settlement[i].settlement_id :
             i \in SpelledGroup(files.settlement, DOMAIN files.settlement, utr)}
        OnBank == {e \in truth.planted : e.row # NoRow}
        rowsOf == [b \in DOMAIN files.bank |->
          Cardinality({m \in truth.expected : m.row = b})
          + Cardinality({e \in OnBank : e.row = b})
          + Cardinality({u \in truth.unresolvable : u.row = b})]
        ledgerOnly == UNION {e.orders : e \in {p \in truth.planted : p.label = "LEDGER_ONLY"}}
    IN  /\ \A m \in truth.expected :
             /\ Range(m.ids) = IdsUnder(m.utr)
             /\ files.bank[m.row].credit =
                  Net(files.settlement,
                      SpelledGroup(files.settlement, DOMAIN files.settlement, m.utr))
        /\ \A e \in OnBank : e.label # "BANK_ONLY" => \E u \in Utrs : Range(e.ids) = IdsUnder(u)
        /\ \A b \in DOMAIN files.bank : rowsOf[b] = 1
        /\ \A l \in DOMAIN files.ledger :
             Cardinality({i \in Payments(files.settlement) :
                            files.settlement[i].order_id = files.ledger[l].order_id})
               = (IF files.ledger[l].order_id \in ledgerOnly THEN 0 ELSE 1)

\* A generated dataset is one run_pipeline can account for: no configuration raises.
GeneratedRunCompletes == pc # "raised"

\* At the configured threshold and above the cascade makes no false match: every
\* credit it allocates goes to the batch the generator paid it from.
NoFalseMatch ==
  Scored /\ input.auto_threshold >= ConfiguredThreshold => PredictedPairs \subseteq TruePairings

\* What a bank row may be labelled when the cascade decides nothing of it.
LeftOpen == {"NEEDS_REVIEW", "AMBIGUOUS_MATCH", "BANK_ONLY"}

\* A planted defect the cascade cannot see as such: a late credit is no finding, a
\* rate has no base when every payment is on hold, and half a per mille of a net
\* under Rs 1990 is within the tolerance of the bridge.
TooSmallToSee(b) ==
  LET group == SpelledGroup(settlement, DOMAIN settlement, b)
  IN  CASE BankTrueLabel(b) \in {"FEE_VARIANCE", "GST_ON_MDR_VARIANCE"} ->
             \A i \in group : settlement[i].type = "payment" => settlement[i].on_hold
        [] BankTrueLabel(b) = "UNEXPLAINED" -> Abs(Net(settlement, group)) < 199000
        [] OTHER -> FALSE

\* The full cascade labels every bank row with the defect planted in its batch, or
\* leaves the row open; it never reports another defect.
LabelsAreAsPlanted ==
  Scored /\ FullCascade /\ input.auto_threshold >= ConfiguredThreshold =>
    \A b \in DOMAIN bank :
       /\ \A u \in truth.unresolvable : u.row # b
       /\ ~TooSmallToSee(b)
       => BankLabel(b) \in LeftOpen \cup ({BankTrueLabel(b)} \ {"TIMING_T_PLUS_N"})

\* A mismatch of which nothing is left: rows without a deduction are not checked.
NothingDeducted(order) == LedgerOf(ledger, order).tds_amount <= 0

\* Every order is given the label planted in its ledger row, and no other order one.
OrdersAreLabelledAsPlanted ==
  Scored /\ FullCascade =>
    \A order \in OrderIdsOf(DOMAIN ledger) :
       \/ OrderCodes(order) = {OrderTrueLabel(order)} \ {"CLEAN"}
       \/ OrderTrueLabel(order) = "TDS_AMOUNT_MISMATCH" /\ NothingDeducted(order)

\* A credit that two batches explain equally is left to a person at every threshold
\* of the sweep, unless its narration is nearer to one of them by more than the margin.
UnresolvableIsPunted ==
  Scored /\ FullCascade =>
    \A u \in truth.unresolvable :
       LET narration == bank[u.row].narration
       IN  Abs(NarrationScore(narration, u.a) - NarrationScore(narration, u.b))
             <= AmbiguityMargin
           => u \in Punted
=============================================================================
