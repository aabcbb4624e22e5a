-------------------------------- MODULE Rows --------------------------------
(***************************************************************************)
(* The rows the three CSV loaders of core/ingest.py hand to the cascade,   *)
(* and the arithmetic on money its stages share.                           *)
(*                                                                         *)
(* A row is known by its position in the list it was read into; a bank     *)
(* row's row_id is that position.  Every other identifier is data, read    *)
(* from the file and unchecked: two rows may carry the same settlement_id, *)
(* order_id or UTR.  Money is an integer number of paise (the code uses    *)
(* Decimal), a date is a day number, a rate is in units of 0.0001.         *)
(***************************************************************************)
EXTENDS Integers, Sequences, FiniteSets, FiniteSetsExt

CONSTANTS
  Utrs,            \* spellings of a UTR, upper and lower case ones
  Upper,           \* str.upper on those spellings
  NoUtr,           \* what extract_utr returns when it finds no UTR
  Narrations,      \* bank narrations
  Token,           \* what the UTR pattern captures in a narration, or NoUtr
  SettlementIds,
  OrderIds,
  NoOrder,         \* a settlement row without order_id
  Blank,           \* parse_money of an empty cell
  LegacySections,  \* TDS sections of the old act
  PaymentCodes,    \* TDS codes of the new act
  NoCode           \* an empty TDS column

ASSUME UtrAssumption ==
  /\ NoUtr \notin Utrs
  /\ Upper \in [Utrs -> Utrs]
  /\ \A u \in Utrs : Upper[Upper[u]] = Upper[u]

ASSUME NarrationAssumption ==
  /\ Token \in [Narrations -> Utrs \cup {NoUtr}]
  /\ \A n \in Narrations : Token[n] # NoUtr => Upper[Token[n]] = Token[n]

ASSUME AbsentAssumption ==
  /\ NoOrder \notin OrderIds
  /\ Blank \notin Int
  /\ NoCode \notin LegacySections \cup PaymentCodes

RowTypes == {"payment", "refund", "adjustment", "other"}

BankRow == [narration : Narrations, credit : Int \cup {Blank}, txn_date : Int]

\* dispute_id is only ever tested for presence.
SettlementRow ==
  [settlement_id : SettlementIds, settlement_utr : Utrs, type : RowTypes,
   amount : Int, fee : Int, tax : Int, on_hold : BOOLEAN, settled_at : Int,
   order_id : OrderIds \cup {NoOrder}, dispute_id : BOOLEAN]

\* has_pan: vendor_pan_masked is not PANNOTAVAIL; migrated: posted_at is on or
\* after TDS_CUTOVER.
LedgerRow ==
  [order_id : OrderIds, gross_amount : Int, tds_amount : Int,
   tds_section_legacy : LegacySections \cup {NoCode},
   tds_code_new : PaymentCodes \cup {NoCode},
   has_pan : BOOLEAN, migrated : BOOLEAN]

-----------------------------------------------------------------------------
Tolerance == 1           \* models.TOLERANCE, Rs 0.01
BridgeTolerance == 100   \* models.BRIDGE_TOLERANCE, Rs 1.00

Abs(x) == IF x < 0 THEN -x ELSE x

\* Decimal.quantize(..., ROUND_HALF_UP) of n / d: half goes away from zero.
HalfUp(n, d) ==
  LET q == (2 * Abs(n) + Abs(d)) \div (2 * Abs(d))
  IN  IF (n < 0) # (d < 0) THEN -q ELSE q

\* The token the pattern captures comes from narration.upper(), so that it is
\* in upper case already.
ExtractUtr(narration) == Token[narration]

\* Mutant: a payment on hold is counted.
RowNetWithHeld(row) ==
  CASE row.type = "payment" -> row.amount - row.fee - row.tax
    [] row.type \in {"refund", "adjustment"} -> row.amount
    [] OTHER -> 0

\* What one settlement row contributes to the net of its batch.
RowNet(row) ==
  CASE row.type = "payment" /\ ~row.on_hold -> row.amount - row.fee - row.tax
    [] row.type \in {"refund", "adjustment"} -> row.amount
    [] OTHER -> 0

Net(settlement, rows) == MapThenSumSet(LAMBDA i : RowNet(settlement[i]), rows)

SettledDates(settlement, rows) == {settlement[i].settled_at : i \in rows}

\* The rows of a batch under the exact spelling of its UTR.
SpelledGroup(settlement, rows, utr) ==
  {i \in rows : settlement[i].settlement_utr = utr}

\* The shape every stage returns (core/matching/stage_result.py), in positions.
StageResult(matched, review, ambiguous, bank, settlement, ledger) ==
  [matched |-> matched, needs_review |-> review, ambiguous |-> ambiguous,
   residue_bank |-> bank, residue_settlement |-> settlement,
   residue_ledger |-> ledger]

EmptyResult == StageResult({}, {}, {}, {}, {}, {})
=============================================================================
