------------------------------ MODULE Generator ------------------------------
(***************************************************************************)
(* data/generator.py: the seeded demo dataset, its three files and the     *)
(* ground truth they are scored against, one action per phase of generate. *)
(*                                                                         *)
(* A draw of the random generator is a choice from the small set the setup *)
(* gives for it, and the counts of planted defects are the setup's: the    *)
(* code's (see the README) are for 600 orders.  UTRs are drawn in order    *)
(* and distinct, as sixteen random digits are; an order is known by its    *)
(* place in the list sorted by date.  Day 0 is TDS_CUTOVER.                *)
(***************************************************************************)
EXTENDS Rows, SequencesExt

CONSTANT Setups

VARIABLES
  setup,     \* the sizes and draws of this dataset
  step,      \* the next phase, "written" or "refused"
  orders,    \* the orders that are in no batch yet
  batches,   \* sequences of orders
  assigned,  \* batch |-> the defect planted in it, or "NONE"
  files,     \* the three files, as the loaders read them back
  truth      \* ground_truth.json

generatorVars == <<setup, step, orders, batches, assigned, files, truth>>

Cutover == 0
MdrDrawn == 200          \* MDR_RATE, 0.02
MdrVariant == 240        \* MDR_RATE_VARIANT
GstDrawn == 1800         \* GST_RATE, 0.18
GstVariant == 1700       \* GST_RATE_VARIANT
ResidualRate == 5        \* the drift of an unexplained batch, 0.0005 of its net
TimingDays == 3

\* The generator's own restatement of config/tds_code_map.yaml and tds_rates.yaml.
LegacyToNewCode ==
  [s \in {"194C", "194J", "194I", "194H", "194A"} |->
     CASE s = "194C" -> "1023" [] s = "194J" -> "1026" [] s = "194I" -> "1028"
       [] s = "194H" -> "1031" [] s = "194A" -> "1034"]

TdsRateFor(code, hasPan) ==
  CASE ~hasPan -> 2000
    [] hasPan /\ code = "1023" -> 100
    [] hasPan /\ code = "1031" -> 500
    [] OTHER -> 1000

TdsFor(amount, section, hasPan) ==
  HalfUp(amount * TdsRateFor(LegacyToNewCode[section], hasPan), 10000)

\* random.sample of k members, or of as many as there are.
Sample(k, S) == kSubset(IF k < Cardinality(S) THEN k ELSE Cardinality(S), S)

NoRow == 0

\* One entry of planted_exceptions.  ids keeps its order: the evaluation takes
\* the UTR of the first.
Planted(label, row, ids, orderIds) ==
  [label |-> label, row |-> row, ids |-> ids, orders |-> orderIds]

Narration(template, utr, digits) == [template |-> template, utr |-> utr, digits |-> digits]

BatchDefects ==
  {"FEE_VARIANCE", "GST_ON_MDR_VARIANCE", "TIMING_T_PLUS_N", "ROUNDING",
   "UNEXPLAINED_RESIDUAL"}

Within(S, low, high) == \A x \in S : x \in Int /\ low <= x /\ x <= high

\* The ranges of the draws are the code's, randint(50000, 5000000) paise for an order;
\* the sizes are free.
ASSUME SetupAssumption ==
  \A s \in Setups :
    /\ {s.n_orders, s.bank_only, s.unresolvable} \subseteq Nat
    /\ s.batch_sizes \subseteq Nat \ {0}
    /\ Within(s.amounts, 50000, 5000000)
    /\ Within(s.stray_amounts, 10000, 500000)
    /\ Within(s.shared_amounts, 500000, 2000000)
    /\ s.roundings \subseteq {-9, -7, -5, -3, 3, 5, 7, 9}
    /\ s.tds_drifts \subseteq {-500, -250, 250, 500, 750}
    /\ s.days \subseteq Int
    /\ s.fates \subseteq [on_hold : BOOLEAN, refund : 0..100, chargeback : BOOLEAN]
    /\ s.sections \subseteq DOMAIN LegacyToNewCode \cup {NoCode}
    /\ s.codes \subseteq {LegacyToNewCode[l] : l \in DOMAIN LegacyToNewCode}
    /\ DOMAIN s.needed \subseteq BatchDefects

\* Every row a dataset of this size can have has its identifiers.
ASSUME NameAssumption ==
  /\ DOMAIN LegacyToNewCode \subseteq LegacySections
  /\ \A l \in DOMAIN LegacyToNewCode : LegacyToNewCode[l] \in PaymentCodes
  /\ \A s \in Setups :
       /\ \A i \in 1..s.n_orders : <<"ord", i>> \in OrderIds
       /\ \A kind \in {"pay", "rf", "cb"} : \A b, o \in 1..s.n_orders :
             <<kind, b, o>> \in SettlementIds
       /\ \A twin \in {"a", "b"} : \A i \in 1..s.unresolvable :
             <<twin, i>> \in OrderIds /\ <<twin, i, 0>> \in SettlementIds
       /\ \A utr \in 1..(s.n_orders + s.bank_only + 2 * s.unresolvable) :
             /\ utr \in Utrs
             /\ {Narration("clean", utr, 16), Narration("unknown", utr, 16),
                 Narration("neft", utr, 6)} \subseteq Narrations
             /\ {Narration(t[1], utr, t[2]) : t \in s.templates} \subseteq Narrations

GenerateInit ==
  /\ setup \in Setups
  /\ step = "orders"
  /\ orders = <<>> /\ batches = <<>> /\ assigned = <<>>
  /\ files = [bank |-> <<>>, settlement |-> <<>>, ledger |-> <<>>]
  /\ truth = [expected |-> {}, planted |-> {}, unresolvable |-> {}]

-----------------------------------------------------------------------------
(* Orders and the ledger                                                   *)

MakeOrders ==
  /\ step = "orders"
  /\ \E drawn \in [1..setup.n_orders -> [amount : setup.amounts, created_at : setup.days]] :
       /\ \A i, j \in DOMAIN drawn : i < j => drawn[i].created_at <= drawn[j].created_at
       /\ orders' = [i \in DOMAIN drawn |->
            [order_id |-> <<"ord", i>>, amount |-> drawn[i].amount,
             created_at |-> drawn[i].created_at]]
  /\ step' = "ledger"
  /\ UNCHANGED <<setup, batches, assigned, files, truth>>

\* section is what was drawn for the order, or NoCode for one without TDS.
LedgerEntry(i, section) ==
  LET order == orders[i]
      hasPan == (i - 1) % 3 # 0
      migrated == order.created_at >= Cutover
  IN  [order_id |-> order.order_id, gross_amount |-> order.amount,
       tds_amount |-> IF section = NoCode THEN 0 ELSE TdsFor(order.amount, section, hasPan),
       tds_section_legacy |-> IF migrated THEN NoCode ELSE section,
       tds_code_new |-> IF migrated /\ section # NoCode THEN LegacyToNewCode[section]
                        ELSE NoCode,
       has_pan |-> hasPan, migrated |-> migrated]

BuildLedger ==
  /\ step = "ledger"
  /\ \E section \in [DOMAIN orders -> setup.sections] :
       files' = [files EXCEPT !.ledger = [i \in DOMAIN orders |-> LedgerEntry(i, section[i])]]
  /\ step' = "tds_defects"
  /\ UNCHANGED <<setup, orders, batches, assigned, truth>>

Restated(entry, section, code) ==
  [entry EXCEPT !.tds_section_legacy = section, !.tds_code_new = code,
                !.tds_amount = TdsFor(entry.gross_amount, section, entry.has_pan)]

Drifted(entry, drift) == [entry EXCEPT !.tds_amount = @ + drift]

WithTdsDefects(led, section, wrong, drift) ==
  [l \in DOMAIN led |->
     CASE l \in DOMAIN wrong -> Restated(led[l], section[l], wrong[l])
       [] l \in DOMAIN section \ DOMAIN wrong -> Restated(led[l], section[l], NoCode)
       [] l \in DOMAIN drift -> Drifted(led[l], drift[l])
       [] OTHER -> led[l]]

TdsDefects(led, section, drift) ==
  LET Label(label, l) == Planted(label, NoRow, <<>>, {led[l].order_id})
  IN  {Label("TDS_CODE_MIGRATION_BREAK", l) : l \in DOMAIN section}
        \cup {Label("TDS_AMOUNT_MISMATCH", l) : l \in DOMAIN drift}

\* Orders that carry the legacy section only, orders whose two codes contradict
\* the map, and orders whose amount is not the rate's: no order is in two groups.
PlantTdsDefects ==
  /\ step = "tds_defects"
  /\ LET led == files.ledger
         postCutover == {l \in DOMAIN led : led[l].migrated}
         withoutTds == {l \in postCutover : led[l].tds_code_new = NoCode /\ led[l].tds_amount = 0}
         withTds == {l \in DOMAIN led : led[l].tds_amount > 0}
     IN  \E broken \in Sample(setup.broken, withoutTds) :
         \E contradicted \in Sample(setup.contradicted, postCutover \ broken) :
         \E mismatched \in Sample(setup.mismatched, withTds \ (broken \cup contradicted)) :
         \E section \in [broken \cup contradicted -> setup.sections \ {NoCode}],
            wrong \in [contradicted -> setup.codes], drift \in [mismatched -> setup.tds_drifts] :
           /\ \A l \in contradicted : wrong[l] # LegacyToNewCode[section[l]]
           /\ files' = [files EXCEPT !.ledger = WithTdsDefects(led, section, wrong, drift)]
           /\ truth' = [truth EXCEPT !.planted = TdsDefects(led, section, drift)]
  /\ step' = "ledger_only"
  /\ UNCHANGED <<setup, orders, batches, assigned>>

\* Orders that are in the ledger and will not be settled.
PlantLedgerOnly ==
  /\ step = "ledger_only"
  /\ \E victims \in Sample(setup.ledger_only, {orders[i].order_id : i \in DOMAIN orders}) :
       /\ orders' = FlattenSeq([i \in DOMAIN orders |->
            IF orders[i].order_id \in victims THEN <<>> ELSE <<orders[i]>>])
       /\ truth' = [truth EXCEPT !.planted =
            @ \cup {Planted("LEDGER_ONLY", NoRow, <<>>, {id}) : id \in victims}]
  /\ step' = "batches"
  /\ UNCHANGED <<setup, batches, assigned, files>>

-----------------------------------------------------------------------------
(* Batches                                                                 *)

\* One round of _chunk_into_batches; the last batch has what is left.
DrawBatch ==
  /\ step = "batches"
  /\ orders # <<>>
  /\ \E size \in setup.batch_sizes :
       LET n == IF size < Len(orders) THEN size ELSE Len(orders)
       IN  /\ batches' = Append(batches, SubSeq(orders, 1, n))
           /\ orders' = SubSeq(orders, n + 1, Len(orders))
  /\ UNCHANGED <<setup, step, assigned, files, truth>>

\* As many batches of each defect as are needed, at random places.
AssignDefects ==
  /\ step = "batches"
  /\ orders = <<>>
  /\ LET needed == setup.needed
         total == MapThenSumSet(LAMBDA l : needed[l], DOMAIN needed)
     IN  IF Len(batches) < total
           THEN step' = "refused" /\ UNCHANGED assigned
           ELSE /\ assigned' \in [DOMAIN batches -> DOMAIN needed \cup {"NONE"}]
                /\ \A l \in DOMAIN needed :
                     Cardinality({b \in DOMAIN batches : assigned'[b] = l}) = needed[l]
                /\ step' = "settle"
  /\ UNCHANGED <<setup, orders, batches, files, truth>>

Settlement(id, utr, type, amount, fee, tax, settledAt, order) ==
  [settlement_id |-> id, settlement_utr |-> utr, type |-> type, amount |-> amount,
   fee |-> fee, tax |-> tax, on_hold |-> FALSE, settled_at |-> settledAt,
   order_id |-> order, dispute_id |-> FALSE]

\* Mutant: the rows of an order share its settlement_id.
OrderRowsUnnumbered(b, o, order, fate, mdr, gst, settledAt) ==
  LET fee == HalfUp(order.amount * mdr, 10000)
      Row(type, amount, f, t) ==
        Settlement(<<"pay", b, o>>, b, type, amount, f, t, settledAt, order.order_id)
      payment == [Row("payment", order.amount, fee, HalfUp(fee * gst, 10000))
                    EXCEPT !.on_hold = fate.on_hold]
      refund == Row("refund", -HalfUp(order.amount * fate.refund, 100), 0, 0)
  IN  <<payment>> \o (IF fate.refund > 0 THEN <<refund>> ELSE <<>>)

\* The rows of one order: its payment, and by chance a refund and a disputed
\* adjustment.  fate says which, whether the payment is on hold, and what part
\* of the amount (a percentage) is refunded.
OrderRows(b, o, order, fate, mdr, gst, settledAt) ==
  LET fee == HalfUp(order.amount * mdr, 10000)
      Row(kind, type, amount, f, t) ==
        Settlement(<<kind, b, o>>, b, type, amount, f, t, settledAt, order.order_id)
      payment == [Row("pay", "payment", order.amount, fee, HalfUp(fee * gst, 10000))
                    EXCEPT !.on_hold = fate.on_hold]
      refund == Row("rf", "refund", -HalfUp(order.amount * fate.refund, 100), 0, 0)
      chargeback == [Row("cb", "adjustment", -HalfUp(order.amount, 2), 0, 0)
                       EXCEPT !.dispute_id = TRUE]
  IN  <<payment>> \o (IF fate.refund > 0 THEN <<refund>> ELSE <<>>)
        \o (IF fate.chargeback THEN <<chargeback>> ELSE <<>>)

\* actual_net, summed by the generator itself.
ActualNet(rows) ==
  MapThenSumSet(LAMBDA i : IF rows[i].on_hold THEN 0
                           ELSE rows[i].amount - rows[i].fee - rows[i].tax, DOMAIN rows)

\* What is added to the net of a batch to get its credit.
Drifts(label, net) ==
  CASE label = "ROUNDING" -> setup.roundings
    [] label = "UNEXPLAINED_RESIDUAL" ->
         {HalfUp(net * ResidualRate, 10000), -HalfUp(net * ResidualRate, 10000)}
    [] OTHER -> {0}

BatchNarrations(label, utr) ==
  IF label = "UNEXPLAINED_RESIDUAL" THEN {Narration("clean", utr, 16)}
  ELSE {Narration(t[1], utr, t[2]) : t \in setup.templates}

\* Mutant: the recorded rows leave refunds and chargebacks out.
RecordedPayments(label, row, utr, rows, batch) ==
  LET payments == SelectSeq(rows, LAMBDA r : r.type = "payment")
      ids == [i \in DOMAIN payments |-> payments[i].settlement_id]
      orderIds == {batch[o].order_id : o \in DOMAIN batch}
  IN  IF label = "NONE"
        THEN [truth EXCEPT !.expected =
                @ \cup {[row |-> row, utr |-> utr, ids |-> ids, orders |-> orderIds]}]
        ELSE [truth EXCEPT !.planted = @ \cup {Planted(label, row, ids, {})}]

\* A clean batch is an expected match, any other a planted exception.
Recorded(label, row, utr, rows, batch) ==
  LET ids == [i \in DOMAIN rows |-> rows[i].settlement_id]
      orderIds == {batch[o].order_id : o \in DOMAIN batch}
  IN  IF label = "NONE"
        THEN [truth EXCEPT !.expected =
                @ \cup {[row |-> row, utr |-> utr, ids |-> ids, orders |-> orderIds]}]
        ELSE [truth EXCEPT !.planted = @ \cup
                {Planted(IF label = "UNEXPLAINED_RESIDUAL" THEN "UNEXPLAINED" ELSE label,
                         row, ids, {})}]

\* One round of _build_settlement_and_bank.  Bank rows are one per batch so far, and
\* the batch's UTR is the next one drawn.
BuildBatch ==
  LET b == Len(files.bank) + 1
      batch == batches[b]
      label == assigned[b]
      mdr == IF label = "FEE_VARIANCE" THEN MdrVariant ELSE MdrDrawn
      gst == IF label = "GST_ON_MDR_VARIANCE" THEN GstVariant ELSE GstDrawn
      settledAt == batch[Len(batch)].created_at + 1
  IN  /\ step = "settle"
      /\ b <= Len(batches)
      /\ \E fate \in [DOMAIN batch -> setup.fates] :
           LET rows == FlattenSeq([o \in DOMAIN batch |->
                         OrderRows(b, o, batch[o], fate[o], mdr, gst, settledAt)])
           IN  \E drift \in Drifts(label, ActualNet(rows)), n \in BatchNarrations(label, b) :
                 /\ files' = [files EXCEPT
                      !.settlement = @ \o rows,
                      !.bank = Append(@, [narration |-> n, credit |-> ActualNet(rows) + drift,
                        txn_date |-> IF label = "TIMING_T_PLUS_N" THEN settledAt + TimingDays
                                     ELSE settledAt])]
                 /\ truth' = Recorded(label, b, b, rows, batch)
      /\ UNCHANGED <<setup, step, orders, batches, assigned>>

-----------------------------------------------------------------------------
(* Credits without a batch, and credits with two                           *)

PlantBankOnly ==
  LET first == Len(files.bank)
  IN  /\ step = "settle"
      /\ first = Len(batches)
      /\ \E amount \in [1..setup.bank_only -> setup.stray_amounts] :
           files' = [files EXCEPT !.bank = @ \o [i \in 1..setup.bank_only |->
             [narration |-> Narration("unknown", first + i, 16), credit |-> amount[i],
              txn_date |-> Cutover]]]
      /\ truth' = [truth EXCEPT !.planted =
           @ \cup {Planted("BANK_ONLY", first + i, <<>>, {}) : i \in 1..setup.bank_only}]
      /\ step' = "unresolvable"
      /\ UNCHANGED <<setup, orders, batches, assigned>>

\* The payment of one of the two batches of a pair, and the credit that is either's net.
TwinPayment(i, twin, utr, amount) ==
  LET fee == HalfUp(amount * MdrDrawn, 10000)
  IN  Settlement(<<twin, i, 0>>, utr, "payment", amount, fee, HalfUp(fee * GstDrawn, 10000),
                 Cutover + i - 1, <<twin, i>>)

SharedCredit(i, utr, amount) ==
  LET fee == HalfUp(amount * MdrDrawn, 10000)
  IN  [narration |-> Narration("neft", utr, 6), txn_date |-> Cutover + i - 1,
       credit |-> amount - fee - HalfUp(fee * GstDrawn, 10000)]

\* Two batches of one payment each, with the same amount and date, and one
\* credit that names six digits of the first.
PlantUnresolvable ==
  LET first == Len(files.bank)
      n == setup.unresolvable
      UtrA(i) == first + 2 * i - 1
      UtrB(i) == first + 2 * i
  IN  /\ step = "unresolvable"
      /\ \E amount \in [1..n -> setup.shared_amounts] :
           files' = [files EXCEPT
             !.settlement = @ \o FlattenSeq([i \in 1..n |->
               <<TwinPayment(i, "a", UtrA(i), amount[i]), TwinPayment(i, "b", UtrB(i), amount[i])>>]),
             !.bank = @ \o [i \in 1..n |-> SharedCredit(i, UtrA(i), amount[i])]]
      /\ truth' = [truth EXCEPT !.unresolvable =
           {[row |-> first + i, a |-> UtrA(i), b |-> UtrB(i)] : i \in 1..n}]
      /\ step' = "written"
      /\ UNCHANGED <<setup, orders, batches, assigned>>

Generate ==
  \/ MakeOrders \/ BuildLedger \/ PlantTdsDefects \/ PlantLedgerOnly
  \/ DrawBatch \/ AssignDefects \/ BuildBatch \/ PlantBankOnly \/ PlantUnresolvable
=============================================================================
