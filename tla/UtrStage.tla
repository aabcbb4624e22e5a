------------------------------ MODULE UtrStage ------------------------------
(***************************************************************************)
(* Stage 1 of the cascade, core/matching/stage1_utr.py: exact matching of  *)
(* bank credits to settlement batches on the UTR in the narration.         *)
(***************************************************************************)
EXTENDS Rows

UtrDateTolerance == 2    \* DATE_TOLERANCE_DAYS

\* Stage 1 groups settlement rows by the upper-cased UTR.
Group(settlement, utr) ==
  {i \in DOMAIN settlement : Upper[settlement[i].settlement_utr] = utr}

Claims(bank, utr) == {b \in DOMAIN bank : ExtractUtr(bank[b].narration) = utr}

\* Mutant: of several claims, the first bank row's is taken.
ComparedFirstClaim(bank, settlement, b, utr) ==
  /\ b \in Claims(bank, utr) /\ b = Min(Claims(bank, utr))
  /\ Cardinality(SettledDates(settlement, Group(settlement, utr))) = 1

\* Bank row b is the only one to name utr, and the batch has one settled date:
\* the code goes on to compare amounts and dates.
Compared(bank, settlement, b, utr) ==
  /\ Claims(bank, utr) = {b}
  /\ Cardinality(SettledDates(settlement, Group(settlement, utr))) = 1

WithinTolerance(bank, settlement, b, utr) ==
  LET group == Group(settlement, utr)
  IN  /\ Abs(bank[b].credit - Net(settlement, group)) <= Tolerance
      /\ \A date \in SettledDates(settlement, group) :
            Abs(bank[b].txn_date - date) <= UtrDateTolerance

UtrMatched(bank, settlement) ==
  {m \in [bank : DOMAIN bank, utr : Utrs] :
      /\ Compared(bank, settlement, m.bank, m.utr)
      /\ WithinTolerance(bank, settlement, m.bank, m.utr)}

UtrAmbiguous(bank, settlement) ==
  {b \in DOMAIN bank :
      LET utr == ExtractUtr(bank[b].narration)
      IN  /\ utr # NoUtr
          /\ Group(settlement, utr) # {}
          /\ Claims(bank, utr) # {b}}

\* A compared bank row with an empty credit cell: None - Decimal, a TypeError.
UtrRaises(bank, settlement) ==
  \E b \in DOMAIN bank, utr \in Utrs :
     bank[b].credit = Blank /\ Compared(bank, settlement, b, utr)

\* Mutant: ambiguous rows stay in the residue.
MatchUtrKeepingAmbiguous(bank, settlement) ==
  LET matched == UtrMatched(bank, settlement)
  IN  StageResult(matched, {}, UtrAmbiguous(bank, settlement),
        DOMAIN bank \ {m.bank : m \in matched},
        {i \in DOMAIN settlement :
           \A m \in matched : Upper[settlement[i].settlement_utr] # m.utr},
        {})

\* Mutant: the matched batches leave the residue under their own spelling only.
MatchUtrAsSpelled(bank, settlement) ==
  LET matched == UtrMatched(bank, settlement)
      ambiguous == UtrAmbiguous(bank, settlement)
  IN  StageResult(matched, {}, ambiguous,
        DOMAIN bank \ ({m.bank : m \in matched} \cup ambiguous),
        {i \in DOMAIN settlement : \A m \in matched : settlement[i].settlement_utr # m.utr},
        {})

MatchUtr(bank, settlement) ==
  LET matched == UtrMatched(bank, settlement)
      ambiguous == UtrAmbiguous(bank, settlement)
  IN  StageResult(matched, {}, ambiguous,
        DOMAIN bank \ ({m.bank : m \in matched} \cup ambiguous),
        {i \in DOMAIN settlement :
           \A m \in matched : Upper[settlement[i].settlement_utr] # m.utr},
        {})
=============================================================================
