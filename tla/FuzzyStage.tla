----------------------------- MODULE FuzzyStage -----------------------------
(***************************************************************************)
(* Stage 5 of the cascade, core/matching/stage5_fuzzy.py: scored matching  *)
(* of what Stage 1 left over.                                              *)
(*                                                                         *)
(* A score is an integer number of 1/3000, the unit in which the weights   *)
(* 0.5, 0.2, 0.3, the three days and the percent ratio are whole numbers.  *)
(* It is exact where the amount tolerance is Rs 5 (nets up to Rs 1000) and *)
(* rounded down above; the code's floats differ from it by rounding only.  *)
(***************************************************************************)
EXTENDS Rows

CONSTANTS
  Ratio,            \* rapidfuzz's token_set_ratio of a narration and a UTR
  ReviewThreshold,  \* config/settings.yaml, in score units (0.70 is 2100)
  AmbiguityMargin   \* config/settings.yaml, in score units (0.05 is 150)

MaxScore == 3000

ASSUME FuzzyAssumption ==
  /\ Ratio \in [Narrations -> [Utrs -> 0..100]]
  /\ ReviewThreshold \in 0..MaxScore
  /\ AmbiguityMargin \in 0..MaxScore

\* tolerance and diff are both taken times 200: Rs 5 or 0.5 % of the net.
AmountScore(credit, net) ==
  LET tolerance == IF Abs(net) > 100000 THEN Abs(net) ELSE 100000
      diff == 200 * Abs(credit - net)
  IN  IF diff >= tolerance THEN 0 ELSE (1500 * (tolerance - diff)) \div tolerance

DateScore(bankDate, settledDate) ==
  LET days == Abs(bankDate - settledDate) IN IF days >= 3 THEN 0 ELSE 200 * (3 - days)

NarrationScore(narration, utr) == 9 * Ratio[narration][utr]

-----------------------------------------------------------------------------
\* Candidate batches, grouped by the UTR as it is spelled; one with several
\* settled dates is never scored.
Candidates(settlement, rows) ==
  {utr \in {settlement[i].settlement_utr : i \in rows} :
     Cardinality(SettledDates(settlement, SpelledGroup(settlement, rows, utr))) = 1}

Score(bankRow, settlement, rows, utr) ==
  LET group == SpelledGroup(settlement, rows, utr)
      date == CHOOSE d \in SettledDates(settlement, group) : TRUE
  IN  AmountScore(bankRow.credit, Net(settlement, group))
      + DateScore(bankRow.txn_date, date)
      + NarrationScore(bankRow.narration, utr)

\* The sort is stable: among equal scores the batch read first comes first.
Precedes(score, first, c, d) ==
  score[c] > score[d] \/ (score[c] = score[d] /\ first[c] <= first[d])

\* Mutant: a score above the automatic threshold is matched before ties are looked
\* for.
DecisionAutoFirst(bankRow, settlement, rows, auto) ==
  LET candidates == Candidates(settlement, rows)
      score == [c \in candidates |-> Score(bankRow, settlement, rows, c)]
      first == [c \in candidates |-> Min(SpelledGroup(settlement, rows, c))]
      top == CHOOSE c \in candidates : \A d \in candidates : Precedes(score, first, c, d)
      bucket == IF score[top] >= auto THEN "matched"
                ELSE IF score[top] < ReviewThreshold THEN "residue"
                ELSE IF \E d \in candidates \ {top} : score[top] - score[d] <= AmbiguityMargin
                  THEN "ambiguous" ELSE "needs_review"
  IN  IF candidates = {} THEN [bucket |-> "residue", utr |-> NoUtr]
                         ELSE [bucket |-> bucket, utr |-> top]

\* Mutant: the score is rounded to one decimal before it is compared.
DecisionRounded(bankRow, settlement, rows, auto) ==
  LET candidates == Candidates(settlement, rows)
      score == [c \in candidates |->
                  300 * HalfUp(Score(bankRow, settlement, rows, c), 300)]
      first == [c \in candidates |-> Min(SpelledGroup(settlement, rows, c))]
      top == CHOOSE c \in candidates : \A d \in candidates : Precedes(score, first, c, d)
      contested == /\ score[top] >= ReviewThreshold
                   /\ \E d \in candidates \ {top} : score[top] - score[d] <= AmbiguityMargin
      bucket == IF contested THEN "ambiguous"
                ELSE IF score[top] >= auto THEN "matched"
                ELSE IF score[top] >= ReviewThreshold THEN "needs_review"
                ELSE "residue"
  IN  IF candidates = {} THEN [bucket |-> "residue", utr |-> NoUtr]
                         ELSE [bucket |-> bucket, utr |-> top]

\* What the code decides for one bank row: the bucket, and the batch it names.
Decision(bankRow, settlement, rows, auto) ==
  LET candidates == Candidates(settlement, rows)
      score == [c \in candidates |-> Score(bankRow, settlement, rows, c)]
      first == [c \in candidates |-> Min(SpelledGroup(settlement, rows, c))]
      top == CHOOSE c \in candidates : \A d \in candidates : Precedes(score, first, c, d)
      contested == /\ score[top] >= ReviewThreshold
                   /\ \E d \in candidates \ {top} : score[top] - score[d] <= AmbiguityMargin
      bucket == IF contested THEN "ambiguous"
                ELSE IF score[top] >= auto THEN "matched"
                ELSE IF score[top] >= ReviewThreshold THEN "needs_review"
                ELSE "residue"
  IN  IF candidates = {} THEN [bucket |-> "residue", utr |-> NoUtr]
                         ELSE [bucket |-> bucket, utr |-> top]

\* A bank row with an empty credit cell is scored as soon as a candidate has
\* one settled date: a TypeError.
FuzzyRaises(bank, settlement, residueBank, residueSettlement) ==
  /\ Candidates(settlement, residueSettlement) # {}
  /\ \E b \in residueBank : bank[b].credit = Blank

MatchFuzzy(bank, settlement, residueBank, residueSettlement, auto) ==
  LET decision == [b \in residueBank |->
                     Decision(bank[b], settlement, residueSettlement, auto)]
      In(bucket) == {b \in residueBank : decision[b].bucket = bucket}
      Named(bucket) == {[bank |-> b, utr |-> decision[b].utr] : b \in In(bucket)}
  IN  StageResult(Named("matched"), Named("needs_review"), In("ambiguous"),
        In("residue"),
        {i \in residueSettlement :
           \A m \in Named("matched") : settlement[i].settlement_utr # m.utr},
        {})
=============================================================================
