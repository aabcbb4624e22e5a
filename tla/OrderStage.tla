----------------------------- MODULE OrderStage -----------------------------
(***************************************************************************)
(* Stage 3 of the cascade, core/matching/stage3_order.py: settlement       *)
(* payment rows against ledger rows on order_id.                           *)
(***************************************************************************)
EXTENDS Rows

\* ledger_by_order: the last of several rows with one order_id stays.
LedgerPositions(ledger, order) == {l \in DOMAIN ledger : ledger[l].order_id = order}
LedgerOf(ledger, order) == ledger[Max(LedgerPositions(ledger, order))]

Payments(settlement) == {i \in DOMAIN settlement : settlement[i].type = "payment"}

\* A match is known by the payment row and the order it names.
OrderMatched(settlement, ledger) ==
  {m \in [row : Payments(settlement), order : OrderIds] :
      /\ settlement[m.row].order_id = m.order
      /\ LedgerPositions(ledger, m.order) # {}
      /\ Abs(settlement[m.row].amount - LedgerOf(ledger, m.order).gross_amount)
            <= Tolerance}

\* The residues are taken by identifier, so that a row leaves them with any
\* other row of the same identifier.
MatchOrder(settlement, ledger) ==
  LET matched == OrderMatched(settlement, ledger)
      settlementIds == {settlement[m.row].settlement_id : m \in matched}
      orderIds == {m.order : m \in matched}
  IN  StageResult(matched, {}, {}, {},
        {i \in Payments(settlement) : settlement[i].settlement_id \notin settlementIds},
        {l \in DOMAIN ledger : ledger[l].order_id \notin orderIds})
=============================================================================
