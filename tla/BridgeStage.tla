----------------------------- MODULE BridgeStage ----------------------------
(***************************************************************************)
(* Stage 2 of the cascade, core/matching/stage2_bridge.py: the gross to    *)
(* net bridge of a matched batch, and the exception Stage 6 makes of it.   *)
(***************************************************************************)
EXTENDS Rows

MdrRate == 200        \* config/settings.yaml bridge.mdr_rate, 0.02
GstRate == 1800       \* config/settings.yaml bridge.gst_on_mdr_rate, 0.18
RateToleranceTenfold == 100   \* Mutant: a slip of one decimal place.
RateTolerance == 10   \* RATE_VARIANCE_TOLERANCE, 0.001

Total(settlement, rows, field) == MapThenSumSet(LAMBDA i : settlement[i][field], rows)

\* The sums of build_bridge.  Only adjustments with a dispute_id are
\* chargebacks; the others are in no step of the bridge.
Bridge(settlement, rows, credit) ==
  LET OfType(type) == {i \in rows : settlement[i].type = type}
      held == {i \in OfType("payment") : settlement[i].on_hold}
      active == OfType("payment") \ held
      chargebacks == {i \in OfType("adjustment") : settlement[i].dispute_id}
      mdr == Total(settlement, active, "fee")
      gst == Total(settlement, active, "tax")
      net == Total(settlement, OfType("payment"), "amount") - mdr - gst
             + Total(settlement, OfType("refund"), "amount")
             + Total(settlement, chargebacks, "amount")
             - Total(settlement, held, "amount")
  IN  [activeGross |-> Total(settlement, active, "amount"), mdr |-> mdr, gst |-> gst,
       expectedNet |-> net, bankCredit |-> credit, residual |-> credit - net]

ImpliedRate(part, whole) == HalfUp(part * 10000, whole)

MdrOffContract(b) ==
  b.activeGross > 0 /\ Abs(ImpliedRate(b.mdr, b.activeGross) - MdrRate) > RateTolerance

GstOffContract(b) ==
  b.mdr > 0 /\ Abs(ImpliedRate(b.gst, b.mdr) - GstRate) > RateTolerance

RateVariance(b) ==
  IF MdrOffContract(b) THEN "FEE_VARIANCE"
  ELSE IF GstOffContract(b) THEN "GST_ON_MDR_VARIANCE" ELSE "NONE"

\* Charging the contracted rate instead of the recorded one would bring the
\* bridge within Rs 1.00 of the bank credit.
MdrExplains(b) ==
  /\ MdrOffContract(b)
  /\ Abs(b.residual - b.mdr + HalfUp(b.activeGross * MdrRate, 10000)) <= BridgeTolerance

GstExplains(b) ==
  /\ GstOffContract(b)
  /\ Abs(b.residual - b.gst + HalfUp(b.mdr * GstRate, 10000)) <= BridgeTolerance

Closed(b) == Abs(b.residual) <= Tolerance

Attribution(b) ==
  IF Closed(b) THEN "NONE"
  ELSE IF MdrExplains(b) THEN "FEE_VARIANCE"
  ELSE IF GstExplains(b) THEN "GST_ON_MDR_VARIANCE"
  ELSE IF Abs(b.residual) < BridgeTolerance THEN "ROUNDING" ELSE "UNATTRIBUTED"

\* Mutant: the attribution is taken for a taxonomy code as it is.
BridgeCodeUnmapped(b) == IF RateVariance(b) # "NONE" THEN RateVariance(b) ELSE Attribution(b)

\* classify_bridge_result: a rate variance comes before the attribution.
BridgeCode(b) ==
  IF RateVariance(b) # "NONE" THEN RateVariance(b)
  ELSE IF Attribution(b) = "UNATTRIBUTED" THEN "UNEXPLAINED" ELSE Attribution(b)
=============================================================================
