------------------------------ MODULE TdsStage ------------------------------
(***************************************************************************)
(* Stage 4 of the cascade, core/matching/stage4_tds.py: the rules on the   *)
(* TDS columns of a ledger row.                                            *)
(***************************************************************************)
EXTENDS Rows

CONSTANTS
  CodeMap,     \* config/tds_code_map.yaml: the sections it has, to their code
  RateWithPan, \* config/tds_rates.yaml: the codes it has, to their rate
  RateNoPan

ASSUME TdsAssumption ==
  /\ DOMAIN CodeMap \subseteq LegacySections
  /\ \A s \in DOMAIN CodeMap : CodeMap[s] \in PaymentCodes
  /\ DOMAIN RateWithPan \subseteq PaymentCodes
  /\ DOMAIN RateNoPan = DOMAIN RateWithPan
  /\ \A c \in DOMAIN RateWithPan : RateWithPan[c] \in Nat /\ RateNoPan[c] \in Nat

TdsRateTolerance == 10     \* RATE_TOLERANCE, 0.001
TdsAmountTolerance == 100  \* AMOUNT_TOLERANCE, Rs 1.00

Mapped(section) == section \in DOMAIN CodeMap

MigrationBreak(row) ==
  row.migrated /\ row.tds_code_new = NoCode /\ row.tds_section_legacy # NoCode

Contradiction(row) ==
  /\ Mapped(row.tds_section_legacy)
  /\ row.tds_code_new \notin {NoCode, CodeMap[row.tds_section_legacy]}

EffectiveCode(row) ==
  IF row.tds_code_new # NoCode THEN row.tds_code_new
  ELSE IF Mapped(row.tds_section_legacy) THEN CodeMap[row.tds_section_legacy]
  ELSE NoCode

ScheduledRate(row) ==
  IF row.has_pan THEN RateWithPan[EffectiveCode(row)] ELSE RateNoPan[EffectiveCode(row)]

AmountDelta(row) ==
  Abs(row.tds_amount - HalfUp(row.gross_amount * ScheduledRate(row), 10000))

RateDelta(row) ==
  Abs(HalfUp(row.tds_amount * 10000, row.gross_amount) - ScheduledRate(row))

\* Mutant: rule C before rule D, the order of the build plan.
TdsRuleRateFirst(row) ==
  IF row.tds_amount <= 0 THEN "NONE"
  ELSE IF MigrationBreak(row) THEN "A"
  ELSE IF Contradiction(row) THEN "B"
  ELSE IF EffectiveCode(row) = NoCode THEN "NONE"
  ELSE IF EffectiveCode(row) \notin DOMAIN RateWithPan THEN "E"
  ELSE IF row.gross_amount = 0 THEN "ZERO_DIVISION"
  ELSE IF RateDelta(row) > TdsRateTolerance THEN "C"
  ELSE IF AmountDelta(row) > TdsAmountTolerance THEN "D" ELSE "NONE"

\* The rule that fires, in the order of the code; a zero gross that survives
\* rule D divides by zero in rule C.
TdsRule(row) ==
  IF row.tds_amount <= 0 THEN "NONE"
  ELSE IF MigrationBreak(row) THEN "A"
  ELSE IF Contradiction(row) THEN "B"
  ELSE IF EffectiveCode(row) = NoCode THEN "NONE"
  ELSE IF EffectiveCode(row) \notin DOMAIN RateWithPan THEN "E"
  ELSE IF AmountDelta(row) > TdsAmountTolerance THEN "D"
  ELSE IF row.gross_amount = 0 THEN "ZERO_DIVISION"
  ELSE IF RateDelta(row) > TdsRateTolerance THEN "C" ELSE "NONE"

TdsCode(rule) ==
  CASE rule \in {"A", "B"} -> "TDS_CODE_MIGRATION_BREAK"
    [] rule \in {"E", "C"} -> "TDS_RATE_MISMATCH"
    [] rule = "D" -> "TDS_AMOUNT_MISMATCH"
    [] OTHER -> "NONE"
=============================================================================
