----------------------------- MODULE MCPipeline -----------------------------
(***************************************************************************)
(* The constants of the small instances of run_pipeline, and the rows they *)
(* are built from; each instance (MCMatching, MCAccounting)                *)
(* adds the inputs that exercise one part of the cascade.                  *)
(***************************************************************************)
EXTENDS Evaluation

MCUtrs == {"U1", "u1", "U2"}
MCUpper == [u \in MCUtrs |-> IF u = "u1" THEN "U1" ELSE u]
MCNarrations == {"names U1", "names U2", "cut U1", "cut", "none"}
MCToken == [n \in MCNarrations |->
  CASE n = "names U1" -> "U1" [] n = "names U2" -> "U2" [] OTHER -> "-"]

\* "cut" narrations are truncated: near U1, or as near to U2 as the margin has it.
MCRatio == [n \in MCNarrations |-> [u \in MCUtrs |->
  CASE n = "names U1" -> (IF u = "U1" THEN 100 ELSE 60)
    [] n = "names U2" -> (IF u = "U2" THEN 100 ELSE 60)
    [] n = "cut U1" -> (IF u = "U1" THEN 90 ELSE 60)
    [] n = "cut" -> (IF u = "U1" THEN 80 ELSE 70)
    [] OTHER -> 0]]

MCCodeMap == [s \in {"194C", "194J"} |-> IF s = "194C" THEN "1023" ELSE "1026"]
MCRateWithPan == [c \in {"1023", "1026"} |-> IF c = "1023" THEN 100 ELSE 1000]
MCRateNoPan == [c \in {"1023", "1026"} |-> 2000]

-----------------------------------------------------------------------------
SeqUpTo(S, n) == UNION {[1..k -> S] : k \in 0..n}

Credit(narration, credit, date) ==
  [narration |-> narration, credit |-> credit, txn_date |-> date]

\* A payment of Rs 100.00 at the contracted rates: its net is 9764 paise.
Payment(id, utr, order) ==
  [settlement_id |-> id, settlement_utr |-> utr, type |-> "payment", amount |-> 10000,
   fee |-> 200, tax |-> 36, on_hold |-> FALSE, settled_at |-> 10, order_id |-> order,
   dispute_id |-> FALSE]

Held(row) == [row EXCEPT !.on_hold = TRUE]
Priced(row, fee, tax) == [row EXCEPT !.fee = fee, !.tax = tax]
Adjusted(id, utr, type, amount, dispute) ==
  [Payment(id, utr, "-") EXCEPT !.type = type, !.amount = amount, !.fee = 0, !.tax = 0,
                                !.dispute_id = dispute]

Order(order, gross, tds) ==
  [order_id |-> order, gross_amount |-> gross, tds_amount |-> tds,
   tds_section_legacy |-> "194C", tds_code_new |-> "1023", has_pan |-> TRUE,
   migrated |-> TRUE]

AllStages == <<TRUE, TRUE, TRUE, TRUE>>

\* Runs of any of these files, with any of these sets of stages and automatic thresholds.
RunsWith(banks, settlements, ledgers, stages, thresholds) ==
  UNION {[bank : banks, settlement : settlements, ledger : ledgers,
          use_stage2 : {f[1]}, use_stage3 : {f[2]}, use_stage4 : {f[3]}, use_stage5 : {f[4]},
          auto_threshold : thresholds] : f \in stages}

Run(bankRows, settlementRows, ledgerRows) ==
  [bank |-> bankRows, settlement |-> settlementRows, ledger |-> ledgerRows,
   use_stage2 |-> TRUE, use_stage3 |-> TRUE, use_stage4 |-> TRUE, use_stage5 |-> TRUE,
   auto_threshold |-> 2700]
=============================================================================
