---------------------------- MODULE MCBenchmark -----------------------------
(***************************************************************************)
(* Small generated datasets.  A UTR is the number of its draw, the eight   *)
(* digits cut from it its negative.                                        *)
(***************************************************************************)
EXTENDS Benchmark

MaxUtr == 6
MCUtrs == (1..MaxUtr) \cup (-MaxUtr..-1)
MCUpper == [u \in MCUtrs |-> u]
MCNarrations ==
  [template : {"neft", "rtgs", "upi", "clean", "unknown"}, utr : 1..MaxUtr,
   digits : {6, 8, 16}]
MCToken == [n \in MCNarrations |->
  CASE n.digits = 16 -> n.utr [] n.digits = 8 -> -n.utr [] OTHER -> NoUtr]

\* The digits a narration has in common with a UTR: all it has with its own, as many
\* as two random numbers can with another one.
CommonDigits(n, u) ==
  CASE u = n.utr -> n.digits
    [] {u, n.utr} = {1, 2} -> n.digits - 1
    [] {u, n.utr} = {3, 4} -> 0
    [] OTHER -> n.digits \div 2

Letters(template) ==
  CASE template = "neft" -> 41 [] template = "unknown" -> 36 [] template = "rtgs" -> 25
    [] OTHER -> 15

\* token_set_ratio: 100 if the UTR is one of the narration's words, else twice the
\* common characters over all of them.
MCRatio == [n \in MCNarrations |-> [u \in MCUtrs |->
  IF u < 0 THEN 0
  ELSE IF n.template = "clean" /\ n.utr = u /\ n.digits = 16 THEN 100
  ELSE (200 * CommonDigits(n, u)) \div (Letters(n.template) + n.digits + 16)]]

MCSettlementIds ==
  ({"pay", "rf", "cb"} \X (1..3) \X (1..3)) \cup ({"a", "b"} \X (1..2) \X {0})
MCOrderIds == {"ord", "a", "b"} \X (1..3)

MCCodeMap == LegacyToNewCode
MCRateWithPan ==
  [c \in {"1023", "1026", "1028", "1031", "1034"} |->
     CASE c = "1023" -> 100 [] c = "1031" -> 500 [] OTHER -> 1000]
MCRateNoPan == [c \in {"1023", "1026", "1028", "1031", "1034"} |-> 2000]

-----------------------------------------------------------------------------
Fate(hold, refund, chargeback) ==
  [on_hold |-> hold, refund |-> refund, chargeback |-> chargeback]
Plain == Fate(FALSE, 0, FALSE)
AllFates == {Fate(h, r, c) : h, c \in BOOLEAN, r \in {0, 25, 50, 100}}

NoDefects == [l \in {} |-> 0]
Full == Flags(TRUE, TRUE, TRUE, TRUE, ConfiguredThreshold)

\* Two orders in batches of one, nothing planted.
Setup0 ==
  [n_orders |-> 2, amounts |-> {50000}, days |-> {-1}, sections |-> {NoCode},
   codes |-> {"1023"}, batch_sizes |-> {1}, needed |-> NoDefects, fates |-> {Plain},
   templates |-> {<<"upi", 16>>}, roundings |-> {-9, 3}, tds_drifts |-> {-500, 250},
   broken |-> 0, contradicted |-> 0, mismatched |-> 0, ledger_only |-> 0,
   bank_only |-> 0, stray_amounts |-> {10000}, unresolvable |-> 0,
   shared_amounts |-> {500000}, configs |-> {Full}]

Labels ==
  {"FEE_VARIANCE", "GST_ON_MDR_VARIANCE", "TIMING_T_PLUS_N", "ROUNDING",
   "UNEXPLAINED_RESIDUAL"}

\* One batch of up to two orders, with every fate and every defect.
FateSetups ==
  {[Setup0 EXCEPT !.n_orders = 1, !.amounts = {50000, 333333}, !.needed = d,
                  !.fates = AllFates, !.templates = {<<"upi", 16>>, <<"neft", 8>>}] :
     d \in {NoDefects} \cup {[l \in {x} |-> 1] : x \in Labels}}
  \cup
  {[Setup0 EXCEPT !.amounts = {50000, 333333}, !.batch_sizes = {2}, !.needed = d,
                  !.fates = {Plain, Fate(TRUE, 0, FALSE), Fate(FALSE, 100, FALSE)}] :
     d \in {NoDefects} \cup {[l \in {x} |-> 1] : x \in Labels}}

Templates == {"neft", "rtgs", "upi"} \X {8, 16}

\* Two batches of equal amounts, two of their defects planted, every configuration.
PairSetups ==
  {[Setup0 EXCEPT !.days = {-4, -1}, !.templates = Templates, !.needed = d,
                  !.configs = CumulativeConfigs \cup ThresholdSweep] :
     d \in {[l \in {x, y} |-> IF x = y THEN 2 ELSE 1] : x, y \in Labels}}

\* A batch beside a stray credit and beside two batches nothing tells apart.
UnresolvableSetups ==
  {[Setup0 EXCEPT !.n_orders = 1, !.amounts = {500000, 510000}, !.days = {-2, -1},
                  !.templates = Templates, !.needed = d, !.bank_only = k,
                  !.stray_amounts = {10000, 488200}, !.unresolvable = 1,
                  !.configs = CumulativeConfigs \cup ThresholdSweep] :
     d \in {NoDefects} \cup {[l \in {x} |-> 1] : x \in Labels}, k \in 0..1}

\* The ledger side: up to three orders around the cutover.
LedgerSetups ==
  {[Setup0 EXCEPT !.n_orders = 3, !.days = {-1, 0}, !.batch_sizes = {3},
                  !.sections = {NoCode, "194C", "194H"}, !.codes = {"1023", "1031"},
                  !.broken = 1, !.contradicted = 1, !.mismatched = 1,
                  !.ledger_only = 1],
   [Setup0 EXCEPT !.amounts = {50000, 333333}, !.days = {-1, 0}, !.batch_sizes = {2},
                  !.sections = {NoCode} \cup DOMAIN LegacyToNewCode, !.mismatched = 1,
                  !.tds_drifts = {-500, -250, 250, 500, 750}]}

\* More defects than batches.
RefusedSetup == [Setup0 EXCEPT !.needed = [l \in {"TIMING_T_PLUS_N"} |-> 5]]

MCSetups ==
  FateSetups \cup PairSetups \cup UnresolvableSetups \cup LedgerSetups \cup {RefusedSetup}
=============================================================================
