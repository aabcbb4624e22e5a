------------------------------ MODULE MCRates -------------------------------
(***************************************************************************)
(* What Stages 2 and 4 find: batches of two rows and credits around their  *)
(* net; orders around the point where rule C gives out.                    *)
(***************************************************************************)
EXTENDS MCPipeline

BridgePayments ==
  {[Priced(Payment("s1", "U1", "o1"), p[1], p[2]) EXCEPT !.amount = 100000] :
     p \in {<<1890, 340>>, <<1900, 342>>, <<2000, 300>>, <<2000, 360>>, <<2000, 362>>,
            <<2000, 400>>, <<2100, 378>>, <<2105, 378>>, <<2105, 362>>, <<2110, 380>>,
            <<2400, 432>>}}

BridgeOthers ==
  {Payment("s2", "U1", "o2"), Held(Payment("s2", "U1", "o2")),
   Priced(Payment("s2", "U1", "o2"), 300, 36),
   Adjusted("s2", "U1", "refund", -700, FALSE),
   Adjusted("s2", "U1", "adjustment", -500, TRUE),
   Adjusted("s2", "U1", "adjustment", -50, FALSE),
   Adjusted("s2", "U1", "adjustment", -100, FALSE),
   Adjusted("s2", "U1", "adjustment", -700, FALSE),
   Adjusted("s2", "u1", "adjustment", -2, FALSE),
   Adjusted("s2", "U1", "other", 400, FALSE)}

BridgeInputs ==
  {Run(<<Credit("names U1", Net(s, {1, 2}) + off, 10)>>, s, <<>>) :
     off \in {-100, -99, -1, 0, 1, 2, 100, 145},
     s \in {<<p, q>> : p \in BridgePayments, q \in BridgeOthers}}

-----------------------------------------------------------------------------
TdsOrders ==
  {[Order("o1", g, HalfUp(g, 100) + d) EXCEPT
      !.tds_section_legacy = c[1], !.tds_code_new = c[2], !.has_pan = p, !.migrated = m] :
     g \in {0, 90, 95000, 95714, 95715, 100000},
     d \in {-101, -100, -10, 0, 99, 100, 101},
     c \in {<<"194C", "1023">>, <<"194C", "-">>, <<"-", "1023">>, <<"194C", "1026">>,
            <<"194Z", "-">>, <<"194Z", "1023">>, <<"194C", "9999">>, <<"-", "9999">>,
            <<"-", "-">>},
     p \in BOOLEAN, m \in BOOLEAN}

TdsInputs ==
  {Run(<<>>, <<[Payment("s1", "U1", "o1") EXCEPT !.amount = o.gross_amount]>>, <<o>>) :
     o \in TdsOrders}

RateInputs == BridgeInputs \cup TdsInputs
=============================================================================
