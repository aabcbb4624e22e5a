---------------------------- MODULE MCAccounting ----------------------------
(* Who is counted: payments, orders and the identifiers they may share     *)
EXTENDS MCRates

AccountingSettlement ==
  {Priced(Payment(id, "U1", o), 0, 0) : id \in {"s1", "s2"}, o \in {"o1", "o2", "-"}}
  \cup {[Priced(Payment("s2", "U1", "o1"), 0, 0) EXCEPT !.amount = 10002],
        Adjusted("s2", "U1", "refund", -500, FALSE)}

\* Which of two payments is called s1 makes no difference: these only come second.
SecondPayments == {Priced(Payment("s2", "U1", o), 0, 0) : o \in {"o1", "o2", "-"}}

AccountingReports ==
  {s \in SeqUpTo(AccountingSettlement, 2) : s # <<>> => s[1] \notin SecondPayments}

AccountingLedger ==
  {Order("o1", 10000, 100), Order("o1", 10000, 300), Order("o2", 10000, 100)}

AccountingFlags ==
  {<<TRUE, TRUE, TRUE, TRUE>>, <<FALSE, TRUE, TRUE, TRUE>>, <<TRUE, FALSE, TRUE, TRUE>>,
   <<TRUE, TRUE, FALSE, TRUE>>, <<TRUE, TRUE, TRUE, FALSE>>}

CountingInputs ==
  RunsWith({<<>>, <<Credit("names U1", 20000, 10)>>,
            <<Credit("names U1", 10000, 10), Credit("none", 10000, 10)>>,
            <<Credit("cut U1", 20000, 12), Credit("cut U1", 20010, 12)>>},
           AccountingReports, SeqUpTo(AccountingLedger, 2), AccountingFlags, {2700})

\* Two credits Stage 5 matches to one batch, one of them ten paise over its net.
SharedBatchInputs ==
  {Run(<<Credit("cut U1", c, 10), Credit("cut U1", d, 10)>>,
       <<Payment("s1", "U1", "o1")>>, <<Order("o1", 10000, 100)>>) : c, d \in {9764, 9774}}

\* Two rows claim the batch a third one is matched to, or proposed for, by Stage 5.
ContestedBatchInputs ==
  {[Run(<<Credit("names U1", 9764, 10), Credit("names U1", 9764, 10), Credit("cut U1", c, 10)>>,
        <<Payment("s1", u, "o1")>>, <<Order("o1", 10000, 100)>>) EXCEPT !.auto_threshold = t] :
     c \in {9764, 9774}, u \in {"U1", "u1"}, t \in {1500, 2700}}

AccountingInputs ==
  CountingInputs \cup (RateInputs \cup (SharedBatchInputs \cup ContestedBatchInputs))
=============================================================================
