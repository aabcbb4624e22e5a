---------------------------- MODULE BenchmarkProofs --------------------------
(***************************************************************************)
(* What holds of every dataset the generator can make, for any setup, and  *)
(* of every run of the cascade on it.                                      *)
(*                                                                         *)
(* DataInv says how the files and the ground truth grow with each phase of *)
(* the generator: it gives what the truth says of the files, and that no   *)
(* run of the pipeline on them raises.  LabelInv adds what is planted in   *)
(* each ledger row, and CreditInv what each credit's narration, amount and *)
(* date are: they give the labels of the orders, that no credit is matched *)
(* to a batch it was not paid from, and that the unresolvable credits are  *)
(* left to a person.                                                       *)
(***************************************************************************)
EXTENDS Benchmark, PipelineProofs, SequenceTheorems

-----------------------------------------------------------------------------
(* Sequences put together from sequences                                   *)

\* Each element of flat is one of the first n of seqs: the nth[k]-th of seqs[of[k]],
\* and each of them is there once.
Spreads(flat, seqs, n, of, nth) ==
  /\ \A k \in DOMAIN flat : /\ of[k] \in 1..n /\ nth[k] \in DOMAIN seqs[of[k]]
                            /\ flat[k] = seqs[of[k]][nth[k]]
  /\ \A o \in 1..n : \A j \in DOMAIN seqs[o] :
        \E k \in DOMAIN flat : of[k] = o /\ nth[k] = j
  /\ \A k, l \in DOMAIN flat : of[k] = of[l] /\ nth[k] = nth[l] => k = l

\* The recursion of FlattenSeq, up to the n-th sequence.
Flattens(f, seqs, n) ==
  f = [i \in 1..n |-> IF i = 1 THEN seqs[i] ELSE f[i-1] \o seqs[i]]

\* The recursion of FlattenSeq has a value for any number of sequences.
LEMMA FlattenExists ==
  ASSUME NEW seqs, NEW len \in Nat
  PROVE  \E f : Flattens(f, seqs, len)
<1> DEFINE Lacking == {n \in Nat : ~ \E f : Flattens(f, seqs, n)}
<1>1. ASSUME NEW n \in Nat, \E f : Flattens(f, seqs, n)
      PROVE  \E f : Flattens(f, seqs, n + 1)
  <2>1. PICK f : Flattens(f, seqs, n)
    BY <1>1
  <2> DEFINE g == [i \in 1..(n + 1) |-> IF i = 1 THEN seqs[i] ELSE f[i-1] \o seqs[i]]
  <2>2. \A i \in 1..n : g[i] = f[i]
    <3>1. \A i \in 1..n : i \in 1..(n + 1)
      OBVIOUS
    <3>2. \A i \in 1..n : f[i] = IF i = 1 THEN seqs[i] ELSE f[i-1] \o seqs[i]
      BY <2>1 DEF Flattens
    <3> QED BY <3>1, <3>2
  <2>3. \A i \in 1..(n + 1) : i # 1 => i - 1 \in 1..n
    OBVIOUS
  <2>4. \A i \in 1..(n + 1) : g[i] = IF i = 1 THEN seqs[i] ELSE g[i-1] \o seqs[i]
    BY <2>2, <2>3
  <2>5. g = [i \in 1..(n + 1) |-> g[i]]
    OBVIOUS
  <2> HIDE DEF g
  <2> QED BY <2>4, <2>5 DEF Flattens
<1>2. \E f : Flattens(f, seqs, 0)
  <2> DEFINE f == [i \in 1..0 |-> 0]
  <2>1. Flattens(f, seqs, 0)
    BY DEF Flattens
  <2> QED BY <2>1
<1>3. Lacking = {}
  <2> SUFFICES ASSUME Lacking # {} PROVE FALSE
    OBVIOUS
  <2>1. PICK n \in Lacking : \A m \in Lacking : n <= m
    BY SmallestNat
  <2>2. n # 0 /\ n \in Nat
    BY <1>2
  <2>3. n - 1 \in Nat /\ n - 1 \notin Lacking
    BY <2>1, <2>2
  <2>4. \E f : Flattens(f, seqs, (n - 1) + 1)
    BY <2>3, <1>1
  <2>5. (n - 1) + 1 = n
    BY <2>2
  <2> QED BY <2>4, <2>5
<1> QED BY <1>3

\* One sequence more.
LEMMA SpreadsOn ==
  ASSUME NEW R, NEW seqs, NEW n \in Nat, NEW old \in Seq(R), NEW add \in Seq(R), NEW of, NEW nth,
         Spreads(old, seqs, n, of, nth), seqs[n + 1] = add
  PROVE  \E of2, nth2 : Spreads(old \o add, seqs, n + 1, of2, nth2)
<1>1. PICK new : new = old \o add
  OBVIOUS
<1>2. PICK a \in Nat, b \in Nat : a = Len(old) /\ b = Len(add)
  OBVIOUS
<1>3. /\ new \in Seq(R) /\ DOMAIN new = 1..(a + b) /\ DOMAIN old = 1..a /\ DOMAIN add = 1..b
      /\ \A k \in 1..(a + b) : new[k] = IF k <= a THEN old[k] ELSE add[k - a]
  <2>1. /\ new \in Seq(R) /\ Len(new) = a + b
        /\ \A k \in 1..(a + b) : new[k] = IF k <= a THEN old[k] ELSE add[k - a]
    BY <1>1, <1>2, ConcatProperties
  <2> QED BY <1>2, <2>1, LenProperties
<1> DEFINE of2 == [k \in 1..(a + b) |-> IF k <= a THEN of[k] ELSE n + 1]
           nth2 == [k \in 1..(a + b) |-> IF k <= a THEN nth[k] ELSE k - a]
<1>4. \A k \in 1..a : /\ k \in 1..(a + b) /\ of[k] \in 1..n /\ nth[k] \in DOMAIN seqs[of[k]]
                      /\ old[k] = seqs[of[k]][nth[k]]
                      /\ of2[k] = of[k] /\ nth2[k] = nth[k] /\ new[k] = old[k]
  <2> SUFFICES ASSUME NEW k \in 1..a
               PROVE  /\ k \in 1..(a + b) /\ of[k] \in 1..n /\ nth[k] \in DOMAIN seqs[of[k]]
                      /\ old[k] = seqs[of[k]][nth[k]]
                      /\ of2[k] = of[k] /\ nth2[k] = nth[k] /\ new[k] = old[k]
    OBVIOUS
  <2>1. k \in 1..(a + b) /\ k <= a /\ k \in DOMAIN old
    BY <1>3
  <2>2. of[k] \in 1..n /\ nth[k] \in DOMAIN seqs[of[k]] /\ old[k] = seqs[of[k]][nth[k]]
    BY <2>1 DEF Spreads
  <2>3. of2[k] = of[k] /\ nth2[k] = nth[k] /\ new[k] = old[k]
    BY <1>3, <2>1
  <2> QED BY <2>1, <2>2, <2>3
<1>5. \A k \in 1..(a + b) : k \notin 1..a => /\ of2[k] = n + 1 /\ nth2[k] = k - a
                                            /\ new[k] = add[k - a] /\ k - a \in 1..b
  BY <1>3
<1> HIDE DEF of2, nth2
<1>6. ASSUME NEW k \in 1..(a + b)
      PROVE  /\ of2[k] \in 1..(n + 1) /\ nth2[k] \in DOMAIN seqs[of2[k]]
             /\ new[k] = seqs[of2[k]][nth2[k]]
  <2>1. CASE k \in 1..a
    BY <1>4, <2>1
  <2>2. CASE k \notin 1..a
    BY <1>3, <1>5, <2>2
  <2> QED BY <2>1, <2>2
<1>7. ASSUME NEW o \in 1..(n + 1), NEW j \in DOMAIN seqs[o]
      PROVE  \E k \in 1..(a + b) : of2[k] = o /\ nth2[k] = j
  <2>1. CASE o \in 1..n
    <3>1. PICK k \in 1..a : of[k] = o /\ nth[k] = j
      BY <1>3, <2>1 DEF Spreads
    <3> QED BY <1>4, <3>1
  <2>2. CASE o = n + 1
    <3>1. j \in 1..b
      BY <1>3, <2>2
    <3>2. a + j \in 1..(a + b) /\ a + j \notin 1..a /\ (a + j) - a = j
      BY <3>1
    <3> QED BY <1>5, <2>2, <3>2
  <2> QED BY <2>1, <2>2
<1>8. ASSUME NEW k \in 1..(a + b), NEW l \in 1..(a + b), of2[k] = of2[l], nth2[k] = nth2[l]
      PROVE  k = l
  <2>1. CASE k \in 1..a /\ l \in 1..a
    <3>1. of[k] = of[l] /\ nth[k] = nth[l]
      BY <1>4, <1>8, <2>1
    <3> QED BY <1>3, <2>1, <3>1 DEF Spreads
  <2>2. CASE k \notin 1..a /\ l \notin 1..a
    BY <1>5, <1>8, <2>2
  <2>3. CASE k \in 1..a /\ l \notin 1..a
    BY <1>4, <1>5, <1>8, <2>3
  <2>4. CASE k \notin 1..a /\ l \in 1..a
    BY <1>4, <1>5, <1>8, <2>4
  <2> QED BY <2>1, <2>2, <2>3, <2>4
<1>9. Spreads(new, seqs, n + 1, of2, nth2)
  <2>1. DOMAIN new = 1..(a + b)
    BY <1>3
  <2>2. \A k \in DOMAIN new : /\ of2[k] \in 1..(n + 1) /\ nth2[k] \in DOMAIN seqs[of2[k]]
                               /\ new[k] = seqs[of2[k]][nth2[k]]
    BY <2>1, <1>6
  <2>3. \A o \in 1..(n + 1) : \A j \in DOMAIN seqs[o] :
           \E k \in DOMAIN new : of2[k] = o /\ nth2[k] = j
    <3> SUFFICES ASSUME NEW o \in 1..(n + 1), NEW j \in DOMAIN seqs[o]
                 PROVE  \E k \in DOMAIN new : of2[k] = o /\ nth2[k] = j
      OBVIOUS
    <3>1. \E k \in 1..(a + b) : of2[k] = o /\ nth2[k] = j
      BY <1>7
    <3> QED BY <2>1, <3>1, Zenon
  <2>4. \A k, l \in DOMAIN new : of2[k] = of2[l] /\ nth2[k] = nth2[l] => k = l
    BY <2>1, <1>8
  <2> QED BY <2>2, <2>3, <2>4, Zenon DEF Spreads
<1> QED BY <1>1, <1>9

\* FlattenSeq, by which the generator joins rows, keeps every element of every sequence
\* once.
LEMMA FlattenFacts ==
  ASSUME NEW R, NEW seqs \in Seq(Seq(R))
  PROVE  /\ FlattenSeq(seqs) \in Seq(R)
         /\ \E of, nth : Spreads(FlattenSeq(seqs), seqs, Len(seqs), of, nth)
<1> DEFINE len == Len(seqs)
<1>0. len \in Nat /\ \A o \in 1..len : seqs[o] \in Seq(R)
  OBVIOUS
<1>1. CASE len = 0
  <2>1. FlattenSeq(seqs) = <<>>
    BY <1>1 DEF FlattenSeq
  <2> DEFINE none == [k \in {} |-> 0]
  <2>2. Spreads(<<>>, seqs, 0, none, none)
    BY DEF Spreads
  <2> QED BY <1>1, <2>1, <2>2
<1>2. CASE len # 0
  <2> DEFINE F == CHOOSE f : Flattens(f, seqs, len)
  <2>1. FlattenSeq(seqs) = F[len]
    BY <1>2 DEF FlattenSeq, Flattens
  <2>2. Flattens(F, seqs, len)
    BY <1>0, FlattenExists
  <2> HIDE DEF F
  <2>3. \A i \in 1..len : F[i] = IF i = 1 THEN seqs[i] ELSE F[i-1] \o seqs[i]
    BY <2>2 DEF Flattens
  <2> DEFINE Fine(n) == /\ F[n] \in Seq(R)
                        /\ \E of, nth : Spreads(F[n], seqs, n, of, nth)
  <2>4. Fine(1)
    <3>1. F[1] = seqs[1] /\ F[1] \in Seq(R)
      BY <1>0, <1>2, <2>3
    <3> DEFINE of == [k \in DOMAIN F[1] |-> 1]
               nth == [k \in DOMAIN F[1] |-> k]
    <3>2. Spreads(F[1], seqs, 1, of, nth)
      BY <3>1 DEF Spreads
    <3> QED BY <3>1, <3>2
  <2>5. ASSUME NEW n \in 1..len, n + 1 \in 1..len, Fine(n) PROVE Fine(n + 1)
    <3>0. n \in Nat /\ n + 1 # 1 /\ (n + 1) - 1 = n
      BY <1>0
    <3>1. F[n + 1] = F[n] \o seqs[n + 1]
      <4> HIDE DEF len
      <4> QED BY <2>3, <2>5, <3>0
    <3>2. F[n] \in Seq(R) /\ seqs[n + 1] \in Seq(R)
      BY <1>0, <2>5
    <3>3. PICK of, nth : Spreads(F[n], seqs, n, of, nth)
      BY <2>5
    <3>4. \E of2, nth2 : Spreads(F[n] \o seqs[n + 1], seqs, n + 1, of2, nth2)
      BY <3>0, <3>2, <3>3, SpreadsOn
    <3>5. F[n + 1] \in Seq(R)
      BY <3>1, <3>2, ConcatProperties
    <3> QED BY <3>1, <3>4, <3>5
  <2> HIDE DEF Fine
  <2> DEFINE Failing == {n \in 1..len : ~ Fine(n)}
  <2>6. Failing = {}
    <3> SUFFICES ASSUME Failing # {} PROVE FALSE
      OBVIOUS
    <3>1. PICK n \in Failing : \A m \in Failing : n <= m
      <4>1. Failing \subseteq Nat
        BY <1>0
      <4> HIDE DEF Failing
      <4> QED BY <4>1, SmallestNat
    <3>2. n # 1 /\ n \in 1..len
      BY <2>4
    <3>3. n - 1 \in 1..len /\ n - 1 \notin Failing
      BY <1>0, <3>1, <3>2
    <3>4. Fine(n - 1) /\ (n - 1) + 1 = n
      BY <1>0, <3>2, <3>3
    <3> QED BY <2>5, <3>1, <3>3, <3>4
  <2>7. Fine(len)
    <3>1. len \in 1..len
      BY <1>0, <1>2
    <3> HIDE DEF len
    <3> QED BY <2>6, <3>1
  <2> QED BY <2>1, <2>7 DEF Fine
<1> QED BY <1>1, <1>2

-----------------------------------------------------------------------------
(* What holds of a dataset while it is generated                           *)

Prices == {n \in Int : 50000 <= n /\ n <= 5000000}

Order(n) == [order_id : {"ord"} \X (1..n), amount : Prices, created_at : Int]

Listing == {"ledger", "tds_defects", "ledger_only"}
Settling == {"settle", "unresolvable", "written"}

\* The batches that have been settled, the stray credits and the unresolvable pairs.
Built == IF step \in {"unresolvable", "written"} THEN Len(batches) ELSE Len(files.bank)
Strays == IF step \in {"unresolvable", "written"} THEN setup.bank_only ELSE 0
Pairs == IF step = "written" THEN setup.unresolvable ELSE 0

\* The rows of a UTR.
Under(file, utr) == SpelledGroup(file, DOMAIN file, utr)
IdsUnder(file, utr) == {file[i].settlement_id : i \in Under(file, utr)}

Victims == UNION {e.orders : e \in {p \in truth.planted : p.label = "LEDGER_ONLY"}}

IsTruth(t) == t = [expected |-> t.expected, planted |-> t.planted, unresolvable |-> t.unresolvable]

DataTypes ==
  /\ setup \in Setups
  /\ step \in {"orders", "batches", "refused"} \cup Listing \cup Settling
  /\ orders \in Seq(Order(setup.n_orders))
  /\ batches \in Seq(Seq(Order(setup.n_orders)) \ {<<>>})
  /\ files \in [bank : Seq(BankRow), settlement : Seq(SettlementRow), ledger : Seq(LedgerRow)]
  /\ IsTruth(truth)
  /\ \A b \in DOMAIN files.bank : files.bank[b].credit \in Int
  /\ step \notin Settling =>
       files.bank = <<>> /\ files.settlement = <<>> /\ truth.expected = {}
         /\ truth.unresolvable = {} /\ \A e \in truth.planted : e.row = NoRow
  /\ step \in {"orders"} \cup Listing => batches = <<>> /\ truth.expected = {}
  /\ step \in Settling =>
       orders = <<>> /\ assigned \in [DOMAIN batches -> BatchDefects \cup {"NONE"}]

\* The ledger has every order under its number, at its price.
LedgerMade ==
  IF step \in {"orders", "ledger"} THEN files.ledger = <<>>
  ELSE /\ Len(files.ledger) = setup.n_orders
       /\ \A l \in 1..setup.n_orders :
            /\ files.ledger[l].order_id = <<"ord", l>> /\ files.ledger[l].gross_amount \in Prices
            /\ \A i \in DOMAIN orders :
                 orders[i].order_id = <<"ord", l>> => orders[i].amount = files.ledger[l].gross_amount
            /\ \A b \in DOMAIN batches : \A o \in DOMAIN batches[b] :
                 batches[b][o].order_id = <<"ord", l>>
                   => batches[b][o].amount = files.ledger[l].gross_amount

\* Until LEDGER_ONLY is planted the list has every order under its number.
Listed1to1 ==
  /\ step \in Listing =>
       /\ Len(orders) = setup.n_orders /\ Victims = {}
       /\ \A i \in DOMAIN orders : orders[i].order_id = <<"ord", i>>
  /\ step = "orders" => orders = <<>> /\ truth.planted = {}

\* Every batch has an order of its own.
FewBatches ==
  /\ Len(batches) + Len(orders) <= setup.n_orders
  /\ \A b \in DOMAIN batches : Len(batches[b]) <= setup.n_orders

\* An order is in the list or in a batch, once, or it is a victim.
PlacedOnce ==
  /\ \A i, j \in DOMAIN orders : orders[i].order_id = orders[j].order_id => i = j
  /\ \A b, c \in DOMAIN batches : \A o \in DOMAIN batches[b], p \in DOMAIN batches[c] :
       batches[b][o].order_id = batches[c][p].order_id => b = c /\ o = p
  /\ \A b \in DOMAIN batches : \A o \in DOMAIN batches[b] :
       /\ batches[b][o].order_id \notin Victims
       /\ \A i \in DOMAIN orders : orders[i].order_id # batches[b][o].order_id
  /\ \A i \in DOMAIN orders : orders[i].order_id \notin Victims

Placed(id) ==
  \/ id \in Victims
  \/ \E i \in DOMAIN orders : orders[i].order_id = id
  \/ \E b \in DOMAIN batches : \E o \in DOMAIN batches[b] : batches[b][o].order_id = id

NoneLost == step # "orders" => \A id \in {<<"ord", l>> : l \in 1..setup.n_orders} : Placed(id)

OrdersPlaced == Listed1to1 /\ FewBatches /\ PlacedOnce /\ NoneLost

Kinds == {"pay", "rf", "cb"}

\* A settlement row of an order, and one of an unresolvable pair.
OfOrder(row, b, o, order, kind) ==
  /\ row.settlement_id = <<kind, b, o>> /\ row.settlement_utr = b
  /\ row.order_id = order.order_id
  /\ row.type = "payment" <=> kind = "pay"
  /\ kind = "pay" => row.amount = order.amount

OfTwin(row, first, i, twin) ==
  /\ row.settlement_id = <<twin, i, 0>>
  /\ row.settlement_utr = first + 2 * i - (IF twin = "a" THEN 1 ELSE 0)
  /\ row.order_id = <<twin, i>> /\ row.type = "payment"

\* A row is of an order of a settled batch, or of one of the pairs.
IsMade(row, bs, built, first, pairs) ==
  \/ \E b \in 1..built : \E o \in DOMAIN bs[b] : \E kind \in Kinds :
       OfOrder(row, b, o, bs[b][o], kind)
  \/ \E i \in 1..pairs : \E twin \in {"a", "b"} : OfTwin(row, first, i, twin)

AllMade(file, bs, built, first, pairs) ==
  \A r \in DOMAIN file : IsMade(file[r], bs, built, first, pairs)

IdsOnce(file) ==
  \A q, r \in DOMAIN file : file[q].settlement_id = file[r].settlement_id => q = r

\* Every order of a settled batch is paid.
AllPaid(file, bs, built) ==
  \A b \in 1..built : \A o \in DOMAIN bs[b] :
    \E r \in DOMAIN file : OfOrder(file[r], b, o, bs[b][o], "pay")

RowsSettled ==
  /\ AllMade(files.settlement, batches, Built, Len(batches) + setup.bank_only, Pairs)
  /\ IdsOnce(files.settlement)
  /\ AllPaid(files.settlement, batches, Built)
  /\ Built <= Len(batches) /\ Len(files.bank) = Built + Strays + Pairs

\* What the ground truth says of a credit, by kind.
IsOne(S) == \E x : S = {x}
OfRow(S, b) == {x \in S : x.row = b}

ToldOnce(t, b) ==
  \/ IsOne(OfRow(t.expected, b)) /\ OfRow(t.planted, b) = {} /\ OfRow(t.unresolvable, b) = {}
  \/ OfRow(t.expected, b) = {} /\ IsOne(OfRow(t.planted, b)) /\ OfRow(t.unresolvable, b) = {}
  \/ OfRow(t.expected, b) = {} /\ OfRow(t.planted, b) = {} /\ IsOne(OfRow(t.unresolvable, b))

IsExpected(m, f, built) ==
  /\ m.row \in 1..built /\ m.utr = m.row /\ Range(m.ids) = IdsUnder(f.settlement, m.row)
  /\ f.bank[m.row].credit = Net(f.settlement, Under(f.settlement, m.row))

IsPlanted(e, f, built, strays) ==
  \/ e.row = NoRow
  \/ /\ e.row \in 1..built /\ Range(e.ids) = IdsUnder(f.settlement, e.row)
     /\ e.label \in BatchDefects \cup {"UNEXPLAINED"}
  \/ e.row \in (built + 1)..(built + strays) /\ e.label = "BANK_ONLY"

Truthful ==
  /\ \A m \in truth.expected : IsExpected(m, files, Built)
  /\ \A e \in truth.planted : IsPlanted(e, files, Built, Strays)
  /\ \A u \in truth.unresolvable : u.row > Built + setup.bank_only
  /\ step # "written" => truth.unresolvable = {}
  /\ \A b \in DOMAIN files.bank : ToldOnce(truth, b)

DataInv == DataTypes /\ LedgerMade /\ OrdersPlaced /\ RowsSettled /\ Truthful

\* Before it is evaluated nothing of a run has happened, from then on its input is
\* the dataset.
RunOfDataset ==
  /\ pc = "waiting" =>
       /\ stage1 = EmptyResult /\ stage5 = EmptyResult /\ stage3 = EmptyResult
       /\ exceptions = {} /\ bridges = <<>>
       /\ flagged = [bank |-> {}, settlement |-> {}, order |-> {}]
       /\ report = [matched |-> 0, needs_review |-> 0, exception |-> 0]
       /\ error = "none"
  /\ pc # "waiting" =>
       /\ step = "written" /\ bank = files.bank /\ settlement = files.settlement
       /\ ledger = files.ledger
       /\ pc # "raised"

-----------------------------------------------------------------------------
(* What a batch is charged, and what its credit is                         *)

\* The rates a batch is settled at, by the defect planted in it.
MdrOf(label) == IF label = "FEE_VARIANCE" THEN MdrVariant ELSE MdrDrawn
GstOf(label) == IF label = "GST_ON_MDR_VARIANCE" THEN GstVariant ELSE GstDrawn

\* A price with its fee and its tax at the rates mdr and gst.
Priced(amount, fee, tax, mdr, gst) ==
  amount \in Prices /\ fee = HalfUp(amount * mdr, 10000) /\ tax = HalfUp(fee * gst, 10000)

\* A row of a batch that was settled at the rates mdr and gst.
Charged(row, mdr, gst) ==
  /\ row.type \in {"payment", "refund", "adjustment"}
  /\ row.type = "payment" => Priced(row.amount, row.fee, row.tax, mdr, gst)
  /\ row.type = "adjustment" => row.dispute_id

AllCharged(file, rows, mdr, gst) == \A i \in rows : Charged(file[i], mdr, gst)

\* What the credit of a batch has beyond its net.
DriftsOf(label, net) ==
  CASE label = "ROUNDING" -> {-9, -7, -5, -3, 3, 5, 7, 9}
    [] label = "UNEXPLAINED_RESIDUAL" ->
         {HalfUp(net * ResidualRate, 10000), -HalfUp(net * ResidualRate, 10000)}
    [] OTHER -> {0}

DelayOf(label) == IF label = "TIMING_T_PLUS_N" THEN TimingDays ELSE 0

\* A credit is what the generator makes of the rows of a batch with this defect.
AsCharged(file, rows, credit, label) ==
  /\ AllCharged(file, rows, MdrOf(label), GstOf(label))
  /\ \A i \in rows : credit.txn_date = file[i].settled_at + DelayOf(label)
  /\ credit.credit - Net(file, rows) \in DriftsOf(label, Net(file, rows))

-----------------------------------------------------------------------------
(* The settlement rows of a batch                                          *)

\* A row of the o-th order of batch b, with the number the generator adds to
\* actual_net for it.
RowOf(row, b, o, order, kind) ==
  /\ row \in SettlementRow
  /\ row.settlement_id = <<kind, b, o>> /\ row.settlement_utr = b
  /\ row.order_id = order.order_id
  /\ row.type = "payment" <=> kind = "pay"
  /\ kind = "pay" => row.amount = order.amount
  /\ RowNet(row) = IF row.on_hold THEN 0 ELSE row.amount - row.fee - row.tax

SettledAs(row, mdr, gst, settledAt) == Charged(row, mdr, gst) /\ row.settled_at = settledAt

\* A rounded quotient is a whole number.
LEMMA WholeRate ==
  ASSUME NEW n \in Int, NEW d \in Int, d > 0
  PROVE  HalfUp(n, d) \in Int
BY HalfUpBounds

\* An order's rows are put together from its payment, a refund and a chargeback, each
\* of which may be missing.
LEMMA ConcatOne == ASSUME NEW p, NEW q PROVE <<p>> \o <<q>> = <<p, q>>
<1> DEFINE S == {p, q}
<1>1. <<p>> \in Seq(S) /\ <<q>> \in Seq(S) /\ <<p, q>> \in Seq(S)
  OBVIOUS
<1>2. PICK one, two, both : one = <<p>> /\ two = <<q>> /\ both = <<p, q>>
  OBVIOUS
<1>3. /\ Len(one) = 1 /\ Len(two) = 1 /\ Len(both) = 2
      /\ one[1] = p /\ two[1] = q /\ both[1] = p /\ both[2] = q
  BY <1>2
<1>4. one \in Seq(S) /\ two \in Seq(S) /\ both \in Seq(S)
  BY <1>1, <1>2
<1> HIDE DEF S
<1>5. /\ one \o two \in Seq(S) /\ Len(one \o two) = 2
      /\ (one \o two)[1] = p /\ (one \o two)[2] = q
  BY <1>3, <1>4, ConcatProperties
<1>6. \A i \in 1..2 : (one \o two)[i] = both[i]
  BY <1>3, <1>5
<1>7. one \o two = both
  BY <1>3, <1>4, <1>5, <1>6, SeqEqual
<1> QED BY <1>2, <1>7

\* A payment without a refund.
LEMMA ConcatNone == ASSUME NEW p PROVE <<p>> \o <<>> = <<p>>
<1> DEFINE S == {p}
<1>1. <<p>> \in Seq(S)
  OBVIOUS
<1> HIDE DEF S
<1> QED BY <1>1, ConcatEmptySeq

\* A payment with a refund and a chargeback.
LEMMA ConcatThird == ASSUME NEW p, NEW q, NEW r PROVE <<p, q>> \o <<r>> = <<p, q, r>>
<1> DEFINE S == {p, q, r}
<1>1. <<p, q>> \in Seq(S) /\ <<r>> \in Seq(S) /\ <<p, q, r>> \in Seq(S)
  OBVIOUS
<1>2. PICK one, two, both : one = <<p, q>> /\ two = <<r>> /\ both = <<p, q, r>>
  OBVIOUS
<1>3. /\ Len(one) = 2 /\ Len(two) = 1 /\ Len(both) = 3
      /\ one[1] = p /\ one[2] = q /\ two[1] = r
      /\ both[1] = p /\ both[2] = q /\ both[3] = r
  BY <1>2
<1>4. one \in Seq(S) /\ two \in Seq(S) /\ both \in Seq(S)
  BY <1>1, <1>2
<1> HIDE DEF S
<1>5. /\ one \o two \in Seq(S) /\ Len(one \o two) = 3
      /\ (one \o two)[1] = p /\ (one \o two)[2] = q /\ (one \o two)[3] = r
  <2>1. PICK cat : cat = one \o two
    OBVIOUS
  <2>2. /\ cat \in Seq(S) /\ Len(cat) = Len(one) + Len(two)
        /\ \A i \in 1..(Len(one) + Len(two)) :
             cat[i] = IF i <= Len(one) THEN one[i] ELSE two[i - Len(one)]
    BY <1>4, <2>1, ConcatProperties
  <2>3. \A i \in 1..3 : cat[i] = IF i <= 2 THEN one[i] ELSE two[i - 2]
    BY <1>3, <2>2
  <2>4. cat[1] = one[1] /\ cat[2] = one[2] /\ cat[3] = two[1]
    BY <2>3
  <2> QED BY <1>3, <2>1, <2>2, <2>4
<1>6. \A i \in 1..3 : (one \o two)[i] = both[i]
  BY <1>3, <1>5
<1>7. one \o two = both
  BY <1>3, <1>4, <1>5, <1>6, SeqEqual
<1> QED BY <1>2, <1>7

\* A payment with one of the two.
LEMMA ConcatNoThird == ASSUME NEW p, NEW q PROVE <<p, q>> \o <<>> = <<p, q>>
<1> DEFINE S == {p, q}
<1>1. <<p, q>> \in Seq(S)
  OBVIOUS
<1> HIDE DEF S
<1> QED BY <1>1, ConcatEmptySeq

Either(rows, r) == rows \in {<<>>, <<r>>}
Few(rows, p, r, c) == rows \in {<<p>>, <<p, r>>, <<p, c>>, <<p, r, c>>}

\* What the rows of an order put together are, in each case.
LEMMA FewConcat ==
  ASSUME NEW p, NEW r, NEW c, NEW back, NEW half, Either(back, r), Either(half, c)
  PROVE  Few(<<p>> \o back \o half, p, r, c)
<1> USE DEF Either, Few
<1>1. <<p>> \o <<>> = <<p>> /\ <<p>> \o <<r>> = <<p, r>> /\ <<p>> \o <<c>> = <<p, c>>
  BY ConcatNone, ConcatOne, Zenon
<1>2. <<p, r>> \o <<>> = <<p, r>>
  BY ConcatNoThird, Zenon
<1>3. <<p, r>> \o <<c>> = <<p, r, c>>
  BY ConcatThird, Zenon
<1>4. <<p>> \o back \in {<<p>>, <<p, r>>}
  BY <1>1
<1>5. PICK front : front = <<p>> \o back
  OBVIOUS
<1>6. front \o half \in {<<p>>, <<p, r>>, <<p, c>>, <<p, r, c>>}
  <2>1. CASE front = <<p>> /\ half = <<>>
    BY <1>1, <2>1, Zenon
  <2>2. CASE front = <<p>> /\ half = <<c>>
    BY <1>1, <2>2, Zenon
  <2>3. CASE front = <<p, r>> /\ half = <<>>
    BY <1>2, <2>3, Zenon
  <2>4. CASE front = <<p, r>> /\ half = <<c>>
    BY <1>3, <2>4, Zenon
  <2> QED BY <1>4, <1>5, <2>1, <2>2, <2>3, <2>4, Zenon
<1> QED BY <1>5, <1>6, Zenon

\* Whichever are there, the rows of an order differ, and the payment is the first.
LEMMA FewRows ==
  ASSUME NEW p \in SettlementRow, NEW r \in SettlementRow, NEW c \in SettlementRow,
         NEW rows, Few(rows, p, r, c),
         p # r, p # c, r # c
  PROVE  /\ rows \in Seq(SettlementRow)
         /\ \A j \in DOMAIN rows : rows[j] \in {p, r, c}
         /\ \A i, j \in DOMAIN rows : rows[i] = rows[j] => i = j
         /\ 1 \in DOMAIN rows /\ rows[1] = p
<1>1. CASE rows = <<p>>
  BY <1>1
<1>2. CASE rows = <<p, r>>
  BY <1>2
<1>3. CASE rows = <<p, c>>
  BY <1>3
<1>4. CASE rows = <<p, r, c>>
  BY <1>4
<1> QED BY <1>1, <1>2, <1>3, <1>4 DEF Few

\* The rows of an order in a batch: its payment, and at most one refund and one
\* chargeback, each under an identifier of its own.
LEMMA OrderRowsFacts ==
  ASSUME NEW b \in Utrs, NEW o, NEW order, NEW fate, NEW mdr \in Int, NEW gst \in Int,
         NEW settledAt \in Int,
         order.amount \in Prices, order.order_id \in OrderIds,
         fate.on_hold \in BOOLEAN, fate.refund \in Int, fate.chargeback \in BOOLEAN,
         \A kind \in Kinds : <<kind, b, o>> \in SettlementIds
  PROVE  LET rows == OrderRows(b, o, order, fate, mdr, gst, settledAt)
         IN  /\ rows \in Seq(SettlementRow)
             /\ \A j \in DOMAIN rows : \E kind \in Kinds : RowOf(rows[j], b, o, order, kind)
             /\ \A i, j \in DOMAIN rows : rows[i].settlement_id = rows[j].settlement_id => i = j
             /\ \E j \in DOMAIN rows : RowOf(rows[j], b, o, order, "pay")
             /\ \A j \in DOMAIN rows : SettledAs(rows[j], mdr, gst, settledAt)
<1> DEFINE rows == OrderRows(b, o, order, fate, mdr, gst, settledAt)
           fee == HalfUp(order.amount * mdr, 10000)
           tax == HalfUp(fee * gst, 10000)
           back == -HalfUp(order.amount * fate.refund, 100)
           half == -HalfUp(order.amount, 2)
           R(kind, type, amount, f, t) ==
             Settlement(<<kind, b, o>>, b, type, amount, f, t, settledAt, order.order_id)
           p == [R("pay", "payment", order.amount, fee, tax) EXCEPT !.on_hold = fate.on_hold]
           r == R("rf", "refund", back, 0, 0)
           c == [R("cb", "adjustment", half, 0, 0) EXCEPT !.dispute_id = TRUE]
<1>4. rows = <<p>> \o (IF fate.refund > 0 THEN <<r>> ELSE <<>>)
               \o (IF fate.chargeback THEN <<c>> ELSE <<>>)
  BY DEF OrderRows
<1>0. order.amount \in Int
  BY DEF Prices
<1>5. fee \in Int /\ tax \in Int /\ back \in Int /\ half \in Int
  <2>1. fee \in Int
    BY <1>0, WholeRate
  <2>2. tax \in Int
    <3> HIDE DEF fee
    <3> QED BY <2>1, WholeRate
  <2>3. HalfUp(order.amount * fate.refund, 100) \in Int /\ HalfUp(order.amount, 2) \in Int
    BY <1>0, WholeRate
  <2> QED BY <2>1, <2>2, <2>3
<1>5a. Priced(order.amount, fee, tax, mdr, gst)
  BY DEF Priced
<1> HIDE DEF fee, tax, back, half
<1>6. RowOf(p, b, o, order, "pay")
  BY <1>0, <1>5 DEF RowOf, RowNet, Settlement, SettlementRow, RowTypes, Kinds
<1>6a. SettledAs(p, mdr, gst, settledAt)
  BY <1>5a DEF SettledAs, Charged, Settlement
<1>7. RowOf(r, b, o, order, "rf")
  BY <1>0, <1>5 DEF RowOf, RowNet, Settlement, SettlementRow, RowTypes, Kinds
<1>7a. SettledAs(r, mdr, gst, settledAt)
  BY DEF SettledAs, Charged, Settlement
<1>8. RowOf(c, b, o, order, "cb") /\ SettledAs(c, mdr, gst, settledAt)
  <2>1. c = [settlement_id |-> <<"cb", b, o>>, settlement_utr |-> b, type |-> "adjustment",
             amount |-> half, fee |-> 0, tax |-> 0, on_hold |-> FALSE, settled_at |-> settledAt,
             order_id |-> order.order_id, dispute_id |-> TRUE]
    <3>1. PICK d : d = R("cb", "adjustment", half, 0, 0)
      OBVIOUS
    <3>2. d = [settlement_id |-> <<"cb", b, o>>, settlement_utr |-> b, type |-> "adjustment",
               amount |-> half, fee |-> 0, tax |-> 0, on_hold |-> FALSE,
               settled_at |-> settledAt, order_id |-> order.order_id, dispute_id |-> FALSE]
      BY <3>1, Zenon DEF Settlement
    <3>3. c = [d EXCEPT !.dispute_id = TRUE]
      BY <3>1
    <3> HIDE DEF R, c
    <3> QED BY <3>2, <3>3
  <2> HIDE DEF c
  <2>2. c \in SettlementRow
    BY <1>5, <2>1 DEF SettlementRow, RowTypes, Kinds
  <2>3. RowNet(c) = half
    BY <2>1 DEF RowNet
  <2>4. SettledAs(c, mdr, gst, settledAt)
    BY <2>1 DEF SettledAs, Charged
  <2> QED BY <1>5, <2>1, <2>2, <2>3, <2>4 DEF RowOf
<1> HIDE DEF p, r, c
<1>9. /\ p \in SettlementRow /\ r \in SettlementRow /\ c \in SettlementRow
      /\ p # r /\ p # c /\ r # c
      /\ \A x, y \in {p, r, c} : x.settlement_id = y.settlement_id => x = y
  <2>1. /\ p.settlement_id = <<"pay", b, o>> /\ r.settlement_id = <<"rf", b, o>>
        /\ c.settlement_id = <<"cb", b, o>>
    BY <1>6, <1>7, <1>8 DEF RowOf
  <2>2. p \in SettlementRow /\ r \in SettlementRow /\ c \in SettlementRow
    BY <1>6, <1>7, <1>8 DEF RowOf
  <2>3. /\ p.settlement_id # r.settlement_id /\ p.settlement_id # c.settlement_id
        /\ r.settlement_id # c.settlement_id
    BY <2>1
  <2> QED BY <2>2, <2>3
<1> HIDE DEF rows, R
<1>10. Few(rows, p, r, c)
  <2> DEFINE back1 == IF fate.refund > 0 THEN <<r>> ELSE <<>>
             half1 == IF fate.chargeback THEN <<c>> ELSE <<>>
  <2>1. rows = <<p>> \o back1 \o half1
    BY <1>4
  <2>2. Either(back1, r)
    BY DEF Either
  <2>3. Either(half1, c)
    BY DEF Either
  <2> HIDE DEF back1, half1
  <2> QED BY <2>1, <2>2, <2>3, FewConcat, Zenon
<1>12. /\ rows \in Seq(SettlementRow)
       /\ \A j \in DOMAIN rows : rows[j] \in {p, r, c}
       /\ \A i, j \in DOMAIN rows : rows[i] = rows[j] => i = j
       /\ 1 \in DOMAIN rows /\ rows[1] = p
  BY <1>9, <1>10, FewRows
<1>13. \A j \in DOMAIN rows : \E kind \in Kinds : RowOf(rows[j], b, o, order, kind)
  BY <1>6, <1>7, <1>8, <1>12 DEF Kinds
<1>14. \A i, j \in DOMAIN rows : rows[i].settlement_id = rows[j].settlement_id => i = j
  BY <1>9, <1>12
<1>15. \A j \in DOMAIN rows : SettledAs(rows[j], mdr, gst, settledAt)
  BY <1>6a, <1>7a, <1>8, <1>12
<1> QED BY <1>6, <1>12, <1>13, <1>14, <1>15 DEF rows

\* The rows of a batch: what OrderRows makes of each of its orders, one after another.
RowsOfBatch(b, batch, fate, mdr, gst, settledAt) ==
  FlattenSeq([o \in DOMAIN batch |-> OrderRows(b, o, batch[o], fate[o], mdr, gst, settledAt)])

Payable(b, batch, fate) ==
  \A o \in DOMAIN batch :
    /\ batch[o].amount \in Prices /\ batch[o].order_id \in OrderIds
    /\ fate[o].on_hold \in BOOLEAN /\ fate[o].refund \in Int /\ fate[o].chargeback \in BOOLEAN
    /\ \A kind \in Kinds : <<kind, b, o>> \in SettlementIds

\* The rows of a batch are those of its orders.
LEMMA BatchFacts ==
  ASSUME NEW R, NEW b \in Utrs, NEW batch \in Seq(R), NEW fate, NEW mdr \in Int, NEW gst \in Int,
         NEW settledAt \in Int, Payable(b, batch, fate)
  PROVE  LET rows == RowsOfBatch(b, batch, fate, mdr, gst, settledAt)
         IN  /\ rows \in Seq(SettlementRow)
             /\ \A k \in DOMAIN rows : \E o \in DOMAIN batch : \E kind \in Kinds :
                  RowOf(rows[k], b, o, batch[o], kind)
             /\ \A k, l \in DOMAIN rows : rows[k].settlement_id = rows[l].settlement_id => k = l
             /\ \A o \in DOMAIN batch : \E k \in DOMAIN rows : RowOf(rows[k], b, o, batch[o], "pay")
             /\ \A k \in DOMAIN rows : SettledAs(rows[k], mdr, gst, settledAt)
<1> DEFINE seqs == [o \in DOMAIN batch |->
                      OrderRows(b, o, batch[o], fate[o], mdr, gst, settledAt)]
           rows == FlattenSeq(seqs)
<1>1. PICK len \in Nat : len = Len(batch) /\ DOMAIN batch = 1..len
  BY LenProperties
<1>2. ASSUME NEW o \in 1..len
      PROVE  /\ seqs[o] \in Seq(SettlementRow)
             /\ \A j \in DOMAIN seqs[o] : \E kind \in Kinds : RowOf(seqs[o][j], b, o, batch[o], kind)
             /\ \A i, j \in DOMAIN seqs[o] :
                  seqs[o][i].settlement_id = seqs[o][j].settlement_id => i = j
             /\ \E j \in DOMAIN seqs[o] : RowOf(seqs[o][j], b, o, batch[o], "pay")
             /\ \A j \in DOMAIN seqs[o] : SettledAs(seqs[o][j], mdr, gst, settledAt)
  <2>1. /\ batch[o].amount \in Prices /\ batch[o].order_id \in OrderIds
        /\ fate[o].on_hold \in BOOLEAN /\ fate[o].refund \in Int /\ fate[o].chargeback \in BOOLEAN
        /\ \A kind \in Kinds : <<kind, b, o>> \in SettlementIds
    BY <1>1 DEF Payable
  <2>2. seqs[o] = OrderRows(b, o, batch[o], fate[o], mdr, gst, settledAt)
    BY <1>1
  <2> HIDE DEF seqs
  <2> QED BY <2>1, <2>2, OrderRowsFacts
<1>3. seqs \in Seq(Seq(SettlementRow)) /\ Len(seqs) = len /\ DOMAIN seqs = 1..len
  <2>1. seqs = [o \in 1..len |-> seqs[o]]
    BY <1>1
  <2>2. seqs \in [1..len -> Seq(SettlementRow)]
    BY <1>2, <2>1
  <2> HIDE DEF seqs
  <2> QED BY <2>2
<1> HIDE DEF seqs
<1>4. rows \in Seq(SettlementRow) /\ \E of, nth : Spreads(rows, seqs, len, of, nth)
  BY <1>3, FlattenFacts
<1>5. PICK of, nth : Spreads(rows, seqs, len, of, nth)
  BY <1>4
<1> HIDE DEF rows
<1>6. \A k \in DOMAIN rows : /\ of[k] \in 1..len /\ nth[k] \in DOMAIN seqs[of[k]]
                             /\ rows[k] = seqs[of[k]][nth[k]]
  BY <1>5 DEF Spreads
<1>7. \A k \in DOMAIN rows : \E kind \in Kinds : RowOf(rows[k], b, of[k], batch[of[k]], kind)
  BY <1>2, <1>6
<1>8. ASSUME NEW k \in DOMAIN rows, NEW l \in DOMAIN rows,
             rows[k].settlement_id = rows[l].settlement_id
      PROVE  k = l
  <2>1. PICK kind1 \in Kinds : RowOf(rows[k], b, of[k], batch[of[k]], kind1)
    BY <1>7
  <2>2. PICK kind2 \in Kinds : RowOf(rows[l], b, of[l], batch[of[l]], kind2)
    BY <1>7
  <2>3. <<kind1, b, of[k]>> = <<kind2, b, of[l]>>
    BY <1>8, <2>1, <2>2 DEF RowOf
  <2>4. of[k] = of[l]
    BY <2>3
  <2>5. nth[k] = nth[l]
    BY <1>2, <1>6, <1>8, <2>4
  <2> QED BY <1>5, <2>4, <2>5 DEF Spreads
<1>9. ASSUME NEW o \in 1..len PROVE \E k \in DOMAIN rows : RowOf(rows[k], b, o, batch[o], "pay")
  <2>1. PICK j \in DOMAIN seqs[o] : RowOf(seqs[o][j], b, o, batch[o], "pay")
    BY <1>2
  <2>2. PICK k \in DOMAIN rows : of[k] = o /\ nth[k] = j
    BY <1>5 DEF Spreads
  <2> QED BY <1>6, <2>1, <2>2
<1>10. rows = RowsOfBatch(b, batch, fate, mdr, gst, settledAt)
  BY DEF rows, seqs, RowsOfBatch
<1>11. \A k \in DOMAIN rows : \E o \in DOMAIN batch : \E kind \in Kinds :
          RowOf(rows[k], b, o, batch[o], kind)
  BY <1>1, <1>6, <1>7
<1>12. \A k \in DOMAIN rows : SettledAs(rows[k], mdr, gst, settledAt)
  BY <1>2, <1>6
<1> QED BY <1>1, <1>4, <1>8, <1>9, <1>10, <1>11, <1>12 DEF rows

-----------------------------------------------------------------------------
(* The generator's own sum, and sums over rows that have moved             *)

ActualOf(row) == IF row.on_hold THEN 0 ELSE row.amount - row.fee - row.tax

\* actual_net adds up what the cascade adds up.
LEMMA ActualIsNet ==
  ASSUME NEW rows, IsFiniteSet(DOMAIN rows), \A i \in DOMAIN rows : RowNet(rows[i]) = ActualOf(rows[i])
  PROVE  ActualNet(rows) = Net(rows, DOMAIN rows)
<1> DEFINE S == DOMAIN rows
           val == [i \in S |-> RowNet(rows[i])]
           Folds(sum) ==
             sum = [s \in SUBSET S |->
                      IF s = {} THEN 0
                      ELSE ActualOf(rows[CHOOSE x \in s : TRUE])
                           + sum[s \ {CHOOSE x \in s : TRUE}]]
<1>1. ActualNet(rows) = (CHOOSE sum : Folds(sum))[S]
  BY Zenon DEF ActualNet, MapThenSumSet, MapThenFoldSet, ActualOf
<1>2. \A s \in SUBSET S : s # {} => val[Chosen(s)] = ActualOf(rows[Chosen(s)])
  BY ChosenOne
<1>3. \A sum : Adds(sum, val, SUBSET S) <=> Folds(sum)
  BY <1>2 DEF Adds, Chosen
<1>4. \E sum : Adds(sum, val, SUBSET S)
  <2> HIDE DEF val
  <2> QED BY SumExists
<1>5. Folds(CHOOSE sum : Folds(sum))
  <2> HIDE DEF val, Folds
  <2> QED BY <1>3, <1>4, Zenon
<1>6. PICK sum : Adds(sum, val, SUBSET S) /\ ActualNet(rows) = sum[S]
  <2> HIDE DEF val
  <2> QED BY <1>1, <1>3, <1>5
<1>7. PICK part : Adds(part, val, SUBSET S) /\ Net(rows, S) = part[S]
  BY NetIsSum
<1>8. SameWithin(val, S, val, S)
  BY DEF SameWithin
<1> HIDE DEF val
<1>9. part[S] = sum[S]
  BY <1>6, <1>7, <1>8, SumsAgree
<1> QED BY <1>6, <1>7, <1>9

Moved(S, a) == {a + i : i \in S}

\* Rows that stand a places further on have the same net.
LEMMA NetMoves ==
  ASSUME NEW a \in Nat, NEW file, NEW other, NEW S \in SUBSET Nat, IsFiniteSet(S),
         \A i \in S : RowNet(file[i]) \in Int /\ RowNet(other[a + i]) = RowNet(file[i])
  PROVE  Net(other, Moved(S, a)) = Net(file, S)
<1> DEFINE Unlike == {s \in SUBSET S : Net(other, Moved(s, a)) # Net(file, s)}
<1>0. \A s \in SUBSET S : IsFiniteSet(s) /\ IsFiniteSet(Moved(s, a))
  <2> SUFFICES ASSUME NEW s \in SUBSET S PROVE IsFiniteSet(s) /\ IsFiniteSet(Moved(s, a))
    OBVIOUS
  <2>1. IsFiniteSet(s)
    BY FS_Subset
  <2> DEFINE f == [i \in s |-> a + i]
  <2>2. Moved(s, a) = {f[i] : i \in s} /\ f = [i \in s |-> f[i]]
    BY DEF Moved
  <2> HIDE DEF f
  <2>3. IsFiniteSet({f[i] : i \in s})
    BY <2>1, <2>2, ImageOfFinite
  <2> QED BY <2>1, <2>2, <2>3
<1>1. Unlike = {}
  <2> SUFFICES ASSUME Unlike # {} PROVE FALSE
    OBVIOUS
  <2>1. PICK s \in Unlike : \A x \in s : s \ {x} \notin Unlike
    <3>1. Unlike \in SUBSET (SUBSET S)
      OBVIOUS
    <3> HIDE DEF Unlike
    <3> QED BY <3>1, MinimalPart
  <2>2. s \in SUBSET S /\ Net(other, Moved(s, a)) # Net(file, s)
    OBVIOUS
  <2>3. \A i \in s : RowNet(file[i]) \in Int
    BY <2>2
  <2>4. \A k \in Moved(s, a) : RowNet(other[k]) \in Int
    BY <2>2 DEF Moved
  <2>5. s # {}
    <3> SUFFICES ASSUME s = {} PROVE FALSE
      OBVIOUS
    <3>1. Moved(s, a) = {}
      BY DEF Moved
    <3>2. Net(other, {}) = 0 /\ Net(file, {}) = 0
      BY FS_EmptySet, NetFacts
    <3> QED BY <2>2, <3>1, <3>2
  <2>6. PICK x \in s : TRUE
    BY <2>5
  <2>7. /\ Net(file, s) = RowNet(file[x]) + Net(file, s \ {x})
        /\ Net(file, s \ {x}) \in Int
    BY <1>0, <2>2, <2>3, <2>6, NetFacts
  <2>8. a + x \in Moved(s, a) /\ Moved(s, a) \ {a + x} = Moved(s \ {x}, a)
    <3>1. a + x \in Moved(s, a)
      BY <2>6 DEF Moved
    <3>2. \A i \in s : i \in Nat /\ (a + i = a + x <=> i = x)
      BY <2>2, <2>6
    <3>3. Moved(s, a) \ {a + x} = Moved(s \ {x}, a)
      BY <3>2 DEF Moved
    <3> QED BY <3>1, <3>3
  <2>9. /\ Net(other, Moved(s, a)) = RowNet(other[a + x]) + Net(other, Moved(s, a) \ {a + x})
    BY <1>0, <2>2, <2>4, <2>8, NetFacts
  <2>10. Net(other, Moved(s \ {x}, a)) = Net(file, s \ {x})
    BY <2>1, <2>2, <2>6
  <2>11. RowNet(other[a + x]) = RowNet(file[x])
    BY <2>2, <2>6
  <2> QED BY <2>2, <2>7, <2>8, <2>9, <2>10, <2>11
<1>2. S \in SUBSET S
  OBVIOUS
<1> QED BY <1>1, <1>2

\* Rows that stay where they are have the same net.
LEMMA NetStays ==
  ASSUME NEW file, NEW other, NEW S \in SUBSET Nat, IsFiniteSet(S),
         \A i \in S : RowNet(file[i]) \in Int /\ other[i] = file[i]
  PROVE  Net(other, S) = Net(file, S)
<1>1. \A i \in S : 0 + i = i
  OBVIOUS
<1>2. Moved(S, 0) = S
  BY <1>1 DEF Moved
<1>3. \A i \in S : RowNet(file[i]) \in Int /\ RowNet(other[0 + i]) = RowNet(file[i])
  BY <1>1
<1>4. Net(other, Moved(S, 0)) = Net(file, S)
  BY <1>3, NetMoves
<1> QED BY <1>2, <1>4

-----------------------------------------------------------------------------
(* The phases of the generator keep DataInv                                *)

\* What the code's configuration says of a setup, part by part.
LEMMA SetupFacts ==
  ASSUME NEW s \in Setups
  PROVE  /\ s.n_orders \in Nat /\ s.bank_only \in Nat /\ s.unresolvable \in Nat
         /\ s.batch_sizes \subseteq Nat \ {0}
         /\ s.amounts \subseteq Prices /\ s.days \subseteq Int
         /\ s.sections \subseteq DOMAIN LegacyToNewCode \cup {NoCode}
         /\ s.codes \subseteq PaymentCodes
<1>1. s.n_orders \in Nat /\ s.bank_only \in Nat /\ s.unresolvable \in Nat
  BY SetupAssumption
<1>2. s.batch_sizes \subseteq Nat \ {0} /\ s.amounts \subseteq Prices /\ s.days \subseteq Int
  BY SetupAssumption DEF Prices, Within
<1>3. s.sections \subseteq DOMAIN LegacyToNewCode \cup {NoCode}
  BY SetupAssumption
<1>4. s.codes \subseteq PaymentCodes
  BY SetupAssumption, NameAssumption
<1> QED BY <1>1, <1>2, <1>3, <1>4

\* The rates of the generator make an integer of an amount.
LEMMA TdsForType ==
  ASSUME NEW amount \in Int, NEW section, NEW hasPan
  PROVE  TdsFor(amount, section, hasPan) \in Int
<1>1. TdsRateFor(LegacyToNewCode[section], hasPan) \in Int
  BY DEF TdsRateFor
<1> DEFINE rate == TdsRateFor(LegacyToNewCode[section], hasPan)
<1> HIDE DEF rate
<1>2. amount * rate \in Int
  BY <1>1 DEF rate
<1>3. HalfUp(amount * rate, 10000) \in Int
  BY <1>2, WholeRate
<1> QED BY <1>3 DEF rate, TdsFor

\* The generator starts with nothing drawn and nothing written.
LEMMA DataStart == GenerateInit => DataInv
<1> SUFFICES ASSUME GenerateInit PROVE DataInv
  OBVIOUS
<1>1. setup \in Setups /\ setup.n_orders \in Nat
  BY SetupFacts DEF GenerateInit
<1> USE DEF GenerateInit
<1>2. DataTypes
  BY <1>1 DEF DataTypes, Listing, Settling, IsTruth
<1>3. LedgerMade
  BY DEF LedgerMade
<1>4. OrdersPlaced
  BY <1>1 DEF OrdersPlaced, Listed1to1, FewBatches, PlacedOnce, NoneLost, Placed, Listing, Victims
<1>5. RowsSettled
  BY DEF RowsSettled, Built, Strays, Pairs, AllMade, IdsOnce, AllPaid
<1>6. Truthful
  BY DEF Truthful
<1> QED BY <1>2, <1>3, <1>4, <1>5, <1>6 DEF DataInv

\* A step of the cascade, or none, leaves the dataset alone.
LEMMA DataFrame == DataInv /\ UNCHANGED generatorVars => DataInv'
<1> SUFFICES ASSUME DataInv, UNCHANGED generatorVars PROVE DataInv'
  OBVIOUS
<1> USE DEF DataInv, generatorVars
<1>1. DataTypes'
  BY DEF DataTypes
<1>2. LedgerMade'
  BY DEF LedgerMade
<1>3. OrdersPlaced'
  <2>1. Victims' = Victims
    BY DEF Victims
  <2>2. OrdersPlaced
    OBVIOUS
  <2>3. Listed1to1'
    BY <2>1, <2>2 DEF OrdersPlaced, Listed1to1
  <2>4. FewBatches'
    BY <2>2 DEF OrdersPlaced, FewBatches
  <2>5. PlacedOnce'
    BY <2>1, <2>2 DEF OrdersPlaced, PlacedOnce
  <2>6. NoneLost'
    <3>1. NoneLost
      BY <2>2 DEF OrdersPlaced
    <3>2. \A id : Placed(id) => Placed(id)'
      BY <2>1 DEF Placed
    <3>3. step' = step /\ setup' = setup
      BY <2>2
    <3> QED BY <3>1, <3>2, <3>3, Zenon DEF NoneLost
  <2> QED BY <2>3, <2>4, <2>5, <2>6 DEF OrdersPlaced
<1>4. Built' = Built /\ Strays' = Strays /\ Pairs' = Pairs
  BY DEF Built, Strays, Pairs
<1>5. RowsSettled'
  BY <1>4 DEF RowsSettled
<1>6. Truthful'
  BY <1>4 DEF Truthful
<1> QED BY <1>1, <1>2, <1>3, <1>5, <1>6

\* Nothing settled yet, and nothing recorded of a credit.
Unsettled(f, t) ==
  /\ f.bank = <<>> /\ f.settlement = <<>>
  /\ t.expected = {} /\ t.unresolvable = {} /\ \A e \in t.planted : e.row = NoRow

\* Before a batch is settled there are no rows, and no truth about one.
LEMMA StillUnsettled ==
  ASSUME DataTypes', Unsettled(files', truth'), step' \notin {"unresolvable", "written"}
  PROVE  RowsSettled' /\ Truthful'
<1>1. Built' = 0 /\ Strays' = 0 /\ Pairs' = 0
  BY DEF Unsettled, Built, Strays, Pairs
<1>2. RowsSettled'
  <2>1. Len(batches') \in Nat
    <3>1. batches' \in Seq(Seq(Order(setup'.n_orders)) \ {<<>>})
      BY DEF DataTypes
    <3> QED BY <3>1
  <2> QED BY <1>1, <2>1 DEF Unsettled, RowsSettled, AllMade, IdsOnce, AllPaid
<1>3. Truthful'
  BY <1>1 DEF Unsettled, Truthful, IsPlanted
<1> QED BY <1>2, <1>3

\* The orders are made under their numbers.
LEMMA MakeOrdersKeeps == DataInv /\ MakeOrders => DataInv'
<1> SUFFICES ASSUME DataInv, MakeOrders PROVE DataInv'
  OBVIOUS
<1>1. PICK n \in Nat : n = setup.n_orders
  BY SetupFacts DEF DataInv, DataTypes
<1>2. PICK drawn \in [1..n -> [amount : setup.amounts, created_at : setup.days]] :
        orders' = [i \in 1..n |->
            [order_id |-> <<"ord", i>>, amount |-> drawn[i].amount,
             created_at |-> drawn[i].created_at]]
  BY <1>1 DEF MakeOrders
<1>3. /\ step = "orders" /\ step' = "ledger" /\ batches' = batches /\ setup' = setup
      /\ files' = files /\ truth' = truth /\ assigned' = assigned
  BY DEF MakeOrders
<1>4. /\ setup \in Setups /\ batches = <<>> /\ Unsettled(files, truth) /\ IsTruth(truth)
      /\ orders = <<>>
      /\ truth.planted = {} /\ files.ledger = <<>>
      /\ files \in [bank : Seq(BankRow), settlement : Seq(SettlementRow), ledger : Seq(LedgerRow)]
  BY <1>3 DEF DataInv, DataTypes, OrdersPlaced, Listed1to1, LedgerMade, Unsettled, Settling
<1>5. setup.amounts \subseteq Prices /\ setup.days \subseteq Int
  BY <1>4, SetupFacts
<1>6. /\ \A i \in 1..n : orders'[i] \in Order(n) /\ orders'[i].order_id = <<"ord", i>>
      /\ orders' = [i \in 1..n |-> orders'[i]]
  BY <1>2, <1>5 DEF Order
<1>7. orders' \in Seq(Order(n)) /\ Len(orders') = n /\ DOMAIN orders' = 1..n
  <2>1. orders' \in [1..n -> Order(n)]
    BY <1>6
  <2> QED BY <2>1
<1>8. DataTypes'
  BY <1>1, <1>3, <1>4, <1>7 DEF DataTypes, Unsettled, Listing, Settling
<1>9. LedgerMade'
  BY <1>3, <1>4 DEF LedgerMade
<1>10. OrdersPlaced'
  <2>1. Victims' = {}
    BY <1>3, <1>4 DEF Victims
  <2>2. \A i \in 1..n : orders'[i].order_id = <<"ord", i>>
    BY <1>6
  <2>3. DOMAIN batches' = {} /\ Len(batches') = 0
    BY <1>3, <1>4
  <2>4. /\ Len(orders') = setup'.n_orders /\ Victims' = {}
        /\ \A i \in DOMAIN orders' : orders'[i].order_id = <<"ord", i>>
        /\ Len(batches') + Len(orders') <= setup'.n_orders
    BY <1>1, <1>3, <1>7, <2>1, <2>2, <2>3
  <2>5. \A i, j \in DOMAIN orders' : orders'[i].order_id = orders'[j].order_id => i = j
    BY <1>7, <2>2
  <2>6. \A l \in 1..setup'.n_orders : \E i \in DOMAIN orders' : orders'[i].order_id = <<"ord", l>>
    BY <1>1, <1>3, <1>7, <2>2
  <2>7. step' # "orders"
    BY <1>3
  <2>8. Listed1to1'
    BY <2>4, <2>7 DEF Listed1to1
  <2>9. FewBatches'
    BY <2>3, <2>4 DEF FewBatches
  <2>10. PlacedOnce'
    BY <2>1, <2>3, <2>5 DEF PlacedOnce
  <2>11. NoneLost'
    <3>1. \A id : (\E i \in DOMAIN orders' : orders'[i].order_id = id) => Placed(id)'
      BY DEF Placed
    <3> QED BY <2>6, <3>1 DEF NoneLost
  <2> QED BY <2>8, <2>9, <2>10, <2>11 DEF OrdersPlaced
<1>11. RowsSettled' /\ Truthful'
  BY <1>3, <1>4, <1>8, StillUnsettled
<1> QED BY <1>8, <1>9, <1>10, <1>11 DEF DataInv

\* The ledger is written with every order under its number.
LEMMA BuildLedgerKeeps == DataInv /\ BuildLedger => DataInv'
<1> SUFFICES ASSUME DataInv, BuildLedger PROVE DataInv'
  OBVIOUS
<1>1. PICK n \in Nat : n = setup.n_orders
  BY SetupFacts DEF DataInv, DataTypes
<1>2. /\ step = "ledger" /\ step' = "tds_defects" /\ batches' = batches /\ setup' = setup
      /\ orders' = orders /\ truth' = truth /\ assigned' = assigned
  BY DEF BuildLedger
<1>3. /\ setup \in Setups /\ batches = <<>> /\ Unsettled(files, truth) /\ IsTruth(truth)
      /\ orders \in Seq(Order(n)) /\ Len(orders) = n /\ DOMAIN orders = 1..n
      /\ \A i \in 1..n : orders[i] \in Order(n) /\ orders[i].order_id = <<"ord", i>>
      /\ files \in [bank : Seq(BankRow), settlement : Seq(SettlementRow), ledger : Seq(LedgerRow)]
  <2>1. orders \in Seq(Order(n)) /\ Len(orders) = n
    BY <1>1, <1>2 DEF DataInv, DataTypes, OrdersPlaced, Listed1to1, Listing
  <2>2. \A i \in DOMAIN orders : orders[i].order_id = <<"ord", i>>
    BY <1>2 DEF DataInv, OrdersPlaced, Listed1to1, Listing
  <2>3. /\ setup \in Setups /\ batches = <<>> /\ Unsettled(files, truth) /\ IsTruth(truth)
        /\ files \in [bank : Seq(BankRow), settlement : Seq(SettlementRow), ledger : Seq(LedgerRow)]
    BY <1>2 DEF DataInv, DataTypes, Unsettled, Settling, Listing
  <2>4. \A i \in 1..n : orders[i] \in Order(n)
    BY <2>1
  <2>5. DOMAIN orders = 1..n
    BY <2>1
  <2>6. \A i \in 1..n : orders[i].order_id = <<"ord", i>>
    BY <2>2, <2>5
  <2> QED BY <2>1, <2>3, <2>4, <2>5, <2>6
<1>4. PICK section \in [1..n -> setup.sections] :
        files' = [files EXCEPT !.ledger = [i \in 1..n |-> LedgerEntry(i, section[i])]]
  BY <1>3 DEF BuildLedger
<1>5. ASSUME NEW i \in 1..n
      PROVE  LET entry == LedgerEntry(i, section[i])
             IN  /\ entry \in LedgerRow /\ entry.order_id = <<"ord", i>>
                 /\ entry.gross_amount = orders[i].amount /\ entry.gross_amount \in Prices
  <2>1. section[i] \in DOMAIN LegacyToNewCode \cup {NoCode}
    BY <1>3, <1>4, SetupFacts
  <2>2. orders[i].amount \in Prices /\ orders[i].amount \in Int /\ orders[i].created_at \in Int
    <3>1. orders[i] \in Order(n)
      BY <1>3
    <3>2. orders[i].amount \in Prices /\ orders[i].created_at \in Int
      BY <3>1 DEF Order
    <3> QED BY <3>2 DEF Prices
  <2>3. <<"ord", i>> \in OrderIds
    BY <1>1, <1>3, NameAssumption
  <2>4. /\ section[i] \in LegacySections \cup {NoCode}
        /\ section[i] # NoCode => LegacyToNewCode[section[i]] \in PaymentCodes
    BY <2>1, NameAssumption
  <2>5. TdsFor(orders[i].amount, section[i], (i - 1) % 3 # 0) \in Int
    BY <2>2, TdsForType
  <2>6. LedgerEntry(i, section[i]) \in LedgerRow
    <3> DEFINE hasPan == (i - 1) % 3 # 0
               migrated == orders[i].created_at >= Cutover
               tds == IF section[i] = NoCode THEN 0
                      ELSE TdsFor(orders[i].amount, section[i], hasPan)
               legacy == IF migrated THEN NoCode ELSE section[i]
               code == IF migrated /\ section[i] # NoCode THEN LegacyToNewCode[section[i]]
                       ELSE NoCode
    <3>1. LedgerEntry(i, section[i]) =
            [order_id |-> orders[i].order_id, gross_amount |-> orders[i].amount,
             tds_amount |-> tds, tds_section_legacy |-> legacy, tds_code_new |-> code,
             has_pan |-> hasPan, migrated |-> migrated]
      BY DEF LedgerEntry
    <3>2. tds \in Int
      BY <2>5
    <3>3. legacy \in LegacySections \cup {NoCode}
      BY <2>4
    <3>4. code \in PaymentCodes \cup {NoCode}
      BY <2>4
    <3>5. hasPan \in BOOLEAN /\ migrated \in BOOLEAN
      OBVIOUS
    <3>6. orders[i].order_id \in OrderIds
      BY <1>3, <2>3
    <3> HIDE DEF hasPan, migrated, tds, legacy, code
    <3> QED BY <2>2, <3>1, <3>2, <3>3, <3>4, <3>5, <3>6 DEF LedgerRow
  <2> QED BY <1>3, <2>2, <2>6 DEF LedgerEntry
<1>6. PICK led : led = [i \in 1..n |-> LedgerEntry(i, section[i])]
  OBVIOUS
<1>7. /\ led \in Seq(LedgerRow) /\ Len(led) = n
      /\ \A i \in 1..n : /\ led[i].order_id = <<"ord", i>> /\ led[i].gross_amount = orders[i].amount
                         /\ led[i].gross_amount \in Prices
  <2>1. \A i \in 1..n : /\ led[i] \in LedgerRow
                        /\ led[i].order_id = <<"ord", i>> /\ led[i].gross_amount = orders[i].amount
                        /\ led[i].gross_amount \in Prices
    BY <1>5, <1>6
  <2>2. led \in [1..n -> LedgerRow]
    BY <1>6, <2>1
  <2> QED BY <2>1, <2>2
<1>8. /\ files'.ledger = led /\ files'.bank = files.bank /\ files'.settlement = files.settlement
      /\ files' \in [bank : Seq(BankRow), settlement : Seq(SettlementRow), ledger : Seq(LedgerRow)]
  BY <1>3, <1>4, <1>6, <1>7
<1>9. Unsettled(files', truth')
  BY <1>2, <1>3, <1>8 DEF Unsettled
<1>10. DataTypes'
  BY <1>1, <1>2, <1>3, <1>8, <1>9 DEF DataTypes, Unsettled, Listing, Settling
<1>11. LedgerMade'
  <2>1. \A l \in 1..n : \A i \in 1..n : <<"ord", i>> = <<"ord", l>> => i = l
    OBVIOUS
  <2>2. \A l \in 1..n : \A i \in DOMAIN orders' :
           orders'[i].order_id = <<"ord", l>> => orders'[i].amount = files'.ledger[l].gross_amount
    BY <1>2, <1>3, <1>7, <1>8, <2>1
  <2>3. DOMAIN batches' = {}
    BY <1>2, <1>3
  <2>4. \A l \in 1..n : /\ files'.ledger[l].order_id = <<"ord", l>>
                        /\ files'.ledger[l].gross_amount \in Prices
    BY <1>7, <1>8
  <2>5. Len(files'.ledger) = setup'.n_orders /\ step' \notin {"orders", "ledger"}
    BY <1>1, <1>2, <1>7, <1>8
  <2> QED BY <1>1, <1>2, <2>2, <2>3, <2>4, <2>5 DEF LedgerMade
<1>12. OrdersPlaced'
  <2>1. Victims' = Victims /\ OrdersPlaced
    BY <1>2 DEF Victims, DataInv
  <2> QED BY <1>2, <2>1
       DEF OrdersPlaced, Listed1to1, FewBatches, PlacedOnce, NoneLost, Placed, Listing
<1>13. RowsSettled' /\ Truthful'
  BY <1>2, <1>9, <1>10, StillUnsettled
<1> QED BY <1>10, <1>11, <1>12, <1>13 DEF DataInv

\* A sample is taken from the set it is drawn from.
LEMMA SampleFacts ==
  ASSUME NEW k, NEW S, NEW T \in Sample(k, S)
  PROVE  T \subseteq S
BY DEF Sample, kSubset

SameOrder(new, old) == new.order_id = old.order_id /\ new.gross_amount = old.gross_amount

\* A defect planted in a ledger row leaves its order and its price alone.
LEMMA RestatedEntry ==
  ASSUME NEW entry \in LedgerRow, NEW section \in LegacySections,
         NEW code \in PaymentCodes \cup {NoCode}
  PROVE  /\ Restated(entry, section, code) \in LedgerRow
         /\ SameOrder(Restated(entry, section, code), entry)
<1>1. PICK tds : tds = TdsFor(entry.gross_amount, section, entry.has_pan)
  OBVIOUS
<1>2. tds \in Int
  <2>1. entry.gross_amount \in Int
    BY DEF LedgerRow
  <2> QED BY <1>1, <2>1, TdsForType
<1>3. Restated(entry, section, code) =
        [entry EXCEPT !.tds_section_legacy = section, !.tds_code_new = code, !.tds_amount = tds]
  BY <1>1 DEF Restated
<1> QED BY <1>2, <1>3 DEF LedgerRow, SameOrder

\* A planted TDS defect changes the deduction of a ledger row, not its order.
LEMMA DriftedEntry ==
  ASSUME NEW entry \in LedgerRow, NEW drift \in Int
  PROVE  Drifted(entry, drift) \in LedgerRow /\ SameOrder(Drifted(entry, drift), entry)
<1>1. PICK sum \in Int : sum = entry.tds_amount + drift
  <2>1. entry.tds_amount \in Int
    BY DEF LedgerRow
  <2> QED BY <2>1
<1>2. Drifted(entry, drift) = [entry EXCEPT !.tds_amount = sum]
  BY <1>1 DEF Drifted
<1> QED BY <1>2 DEF LedgerRow, SameOrder

\* What is planted in a ledger: a section in the rows of the groups broken and
\* contradicted, a wrong code in those of the latter, and a drift in rows of neither.
TdsPlan(led, section, wrong, drift) ==
  /\ DOMAIN section \subseteq DOMAIN led /\ DOMAIN wrong \subseteq DOMAIN section
  /\ DOMAIN drift \subseteq DOMAIN led \ DOMAIN section
  /\ \A l \in DOMAIN section : led[l].migrated /\ section[l] \in DOMAIN LegacyToNewCode
  /\ \A l \in DOMAIN wrong : wrong[l] \in PaymentCodes /\ wrong[l] # LegacyToNewCode[section[l]]
  /\ \A l \in DOMAIN drift : /\ led[l].tds_amount > 0 /\ drift[l] \in Int
                             /\ drift[l] >= 250 \/ drift[l] <= -250

\* PlantTdsDefects follows such a plan.
LEMMA PlannedDefects ==
  ASSUME setup \in Setups, PlantTdsDefects
  PROVE  \E section, wrong, drift :
           /\ TdsPlan(files.ledger, section, wrong, drift)
           /\ files' = [files EXCEPT !.ledger = WithTdsDefects(files.ledger, section, wrong, drift)]
           /\ truth' = [truth EXCEPT !.planted = TdsDefects(files.ledger, section, drift)]
<1>1. \A k, S, T : T \in Sample(k, S) => T \subseteq S
  BY SampleFacts
<1> DEFINE post == {l \in DOMAIN files.ledger : files.ledger[l].migrated}
           without == {l \in post : files.ledger[l].tds_code_new = NoCode
                                      /\ files.ledger[l].tds_amount = 0}
           with == {l \in DOMAIN files.ledger : files.ledger[l].tds_amount > 0}
           Drawn(contradicted, section, wrong, drift) ==
             /\ \A l \in contradicted : wrong[l] # LegacyToNewCode[section[l]]
             /\ files' = [files EXCEPT !.ledger =
                            WithTdsDefects(files.ledger, section, wrong, drift)]
             /\ truth' = [truth EXCEPT !.planted = TdsDefects(files.ledger, section, drift)]
           Some3(broken, contradicted, mismatched) ==
             \E section \in [broken \cup contradicted -> setup.sections \ {NoCode}],
                wrong \in [contradicted -> setup.codes],
                drift \in [mismatched -> setup.tds_drifts] :
               Drawn(contradicted, section, wrong, drift)
           Some2(broken, contradicted) ==
             \E mismatched \in Sample(setup.mismatched, with \ (broken \cup contradicted)) :
               Some3(broken, contradicted, mismatched)
           Some1(broken) ==
             \E contradicted \in Sample(setup.contradicted, post \ broken) :
               Some2(broken, contradicted)
<1>2. \E broken \in Sample(setup.broken, without) : Some1(broken)
  BY Zenon DEF PlantTdsDefects
<1> HIDE DEF Some1
<1>3. PICK broken \in Sample(setup.broken, without) : Some1(broken)
  BY <1>2
<1> HIDE DEF Some2
<1>4. PICK contradicted \in Sample(setup.contradicted, post \ broken) :
        Some2(broken, contradicted)
  BY <1>3 DEF Some1
<1> HIDE DEF Some3
<1>5. PICK mismatched \in Sample(setup.mismatched, with \ (broken \cup contradicted)) :
        Some3(broken, contradicted, mismatched)
  BY <1>4 DEF Some2
<1> HIDE DEF Drawn
<1>6. PICK section \in [broken \cup contradicted -> setup.sections \ {NoCode}],
           wrong \in [contradicted -> setup.codes], drift \in [mismatched -> setup.tds_drifts] :
        Drawn(contradicted, section, wrong, drift)
  BY <1>5 DEF Some3
<1>7. /\ broken \subseteq without /\ contradicted \subseteq post \ broken
      /\ mismatched \subseteq with \ (broken \cup contradicted)
  BY <1>1
<1>8. /\ without \subseteq post /\ post \subseteq DOMAIN files.ledger
      /\ with \subseteq DOMAIN files.ledger
      /\ \A l \in post : files.ledger[l].migrated
      /\ \A l \in with : files.ledger[l].tds_amount > 0
  OBVIOUS
<1> HIDE DEF without, post, with
<1>9. /\ DOMAIN section = broken \cup contradicted /\ DOMAIN wrong = contradicted
      /\ DOMAIN drift = mismatched
  OBVIOUS
<1>10. /\ DOMAIN section \subseteq DOMAIN files.ledger /\ DOMAIN wrong \subseteq DOMAIN section
       /\ DOMAIN drift \subseteq DOMAIN files.ledger \ DOMAIN section
  BY <1>7, <1>8, <1>9
<1>11. ASSUME NEW l \in DOMAIN section
       PROVE  files.ledger[l].migrated /\ section[l] \in DOMAIN LegacyToNewCode
  <2>1. files.ledger[l].migrated
    BY <1>7, <1>8, <1>9
  <2>2. section[l] \in setup.sections \ {NoCode}
    BY <1>6, <1>9
  <2>3. setup.sections \subseteq DOMAIN LegacyToNewCode \cup {NoCode}
    BY SetupFacts
  <2> QED BY <2>1, <2>2, <2>3
<1>12. ASSUME NEW l \in DOMAIN wrong
       PROVE  wrong[l] \in PaymentCodes /\ wrong[l] # LegacyToNewCode[section[l]]
  <2>1. wrong[l] # LegacyToNewCode[section[l]]
    BY <1>6, <1>9 DEF Drawn
  <2>2. wrong[l] \in setup.codes
    BY <1>6, <1>9
  <2>3. setup.codes \subseteq PaymentCodes
    BY SetupFacts
  <2> QED BY <2>1, <2>2, <2>3
<1>13. ASSUME NEW l \in DOMAIN drift
       PROVE  /\ files.ledger[l].tds_amount > 0 /\ drift[l] \in Int
              /\ drift[l] >= 250 \/ drift[l] <= -250
  <2>1. files.ledger[l].tds_amount > 0
    BY <1>7, <1>8, <1>9
  <2>2. drift[l] \in setup.tds_drifts
    BY <1>6, <1>9
  <2>3. setup.tds_drifts \subseteq {-500, -250, 250, 500, 750}
    BY SetupAssumption
  <2> QED BY <2>1, <2>2, <2>3
<1>14. TdsPlan(files.ledger, section, wrong, drift)
  BY <1>10, <1>11, <1>12, <1>13 DEF TdsPlan
<1> QED BY <1>6, <1>14 DEF Drawn

\* The ledger keeps its orders and their prices.
LEMMA PlantTdsDefectsKeeps == DataInv /\ PlantTdsDefects => DataInv'
<1> SUFFICES ASSUME DataInv, PlantTdsDefects PROVE DataInv'
  OBVIOUS
<1>1. PICK n \in Nat : n = setup.n_orders
  BY SetupFacts DEF DataInv, DataTypes
<1>2. /\ step = "tds_defects" /\ step' = "ledger_only" /\ batches' = batches /\ setup' = setup
      /\ orders' = orders /\ assigned' = assigned
  BY DEF PlantTdsDefects
<1>3. /\ setup \in Setups /\ batches = <<>> /\ Unsettled(files, truth) /\ IsTruth(truth)
      /\ orders \in Seq(Order(n)) /\ Len(orders) = n
      /\ files \in [bank : Seq(BankRow), settlement : Seq(SettlementRow), ledger : Seq(LedgerRow)]
  <2>1. orders \in Seq(Order(n)) /\ Len(orders) = n
    BY <1>1, <1>2 DEF DataInv, DataTypes, OrdersPlaced, Listed1to1, Listing
  <2>2. /\ setup \in Setups /\ batches = <<>> /\ Unsettled(files, truth) /\ IsTruth(truth)
        /\ files \in [bank : Seq(BankRow), settlement : Seq(SettlementRow), ledger : Seq(LedgerRow)]
    BY <1>2 DEF DataInv, DataTypes, Unsettled, Settling, Listing
  <2> QED BY <2>1, <2>2
<1>4. PICK led : led = files.ledger
  OBVIOUS
<1>5. led \in Seq(LedgerRow) /\ DOMAIN led = 1..n /\ Len(led) = n
  BY <1>1, <1>2, <1>3, <1>4 DEF DataInv, LedgerMade
<1>6. PICK section, wrong, drift :
        /\ TdsPlan(files.ledger, section, wrong, drift)
        /\ files' = [files EXCEPT !.ledger = WithTdsDefects(files.ledger, section, wrong, drift)]
        /\ truth' = [truth EXCEPT !.planted = TdsDefects(files.ledger, section, drift)]
  BY <1>3, PlannedDefects
<1>7. /\ files' = [files EXCEPT !.ledger = WithTdsDefects(led, section, wrong, drift)]
      /\ truth' = [truth EXCEPT !.planted = TdsDefects(led, section, drift)]
      /\ DOMAIN wrong \subseteq DOMAIN section /\ DOMAIN drift \cap DOMAIN section = {}
      /\ \A l \in DOMAIN section : section[l] \in DOMAIN LegacyToNewCode
      /\ \A l \in DOMAIN wrong : wrong[l] \in PaymentCodes
      /\ \A l \in DOMAIN drift : drift[l] \in Int
  BY <1>4, <1>6 DEF TdsPlan
<1>8. PICK new : new = WithTdsDefects(led, section, wrong, drift)
  OBVIOUS
<1>9. ASSUME NEW l \in 1..n
      PROVE  new[l] \in LedgerRow /\ SameOrder(new[l], led[l])
  <2>0. new[l] =
          CASE l \in DOMAIN wrong -> Restated(led[l], section[l], wrong[l])
            [] l \in DOMAIN section \ DOMAIN wrong -> Restated(led[l], section[l], NoCode)
            [] l \in DOMAIN drift -> Drifted(led[l], drift[l])
            [] OTHER -> led[l]
    BY <1>5, <1>8 DEF WithTdsDefects
  <2>1. led[l] \in LedgerRow
    BY <1>5
  <2>2. \A s \in DOMAIN LegacyToNewCode : s \in LegacySections
    BY NameAssumption
  <2>3. CASE l \in DOMAIN section \ DOMAIN wrong
    <3>1. new[l] = Restated(led[l], section[l], NoCode)
      BY <1>7, <2>0, <2>3
    <3>2. section[l] \in LegacySections
      BY <1>7, <2>2, <2>3
    <3> QED BY <2>1, <3>1, <3>2, RestatedEntry
  <2>4. CASE l \in DOMAIN wrong
    <3>1. new[l] = Restated(led[l], section[l], wrong[l])
      BY <1>7, <2>0, <2>4
    <3>2. section[l] \in LegacySections
      BY <1>7, <2>2, <2>4
    <3>3. wrong[l] \in PaymentCodes
      BY <1>7, <2>4
    <3> QED BY <2>1, <3>1, <3>2, <3>3, RestatedEntry
  <2>5. CASE l \in DOMAIN drift
    <3>1. new[l] = Drifted(led[l], drift[l])
      BY <1>7, <2>0, <2>5
    <3>2. drift[l] \in Int
      BY <1>7, <2>5
    <3> QED BY <2>1, <3>1, <3>2, DriftedEntry
  <2>6. CASE l \notin DOMAIN section \cup DOMAIN drift
    <3>1. new[l] = led[l]
      BY <1>7, <2>0, <2>6
    <3> QED BY <2>1, <3>1 DEF SameOrder
  <2> QED BY <2>3, <2>4, <2>5, <2>6
<1>10. new \in Seq(LedgerRow) /\ Len(new) = n /\ DOMAIN new = 1..n
  <2>1. new \in [1..n -> LedgerRow]
    <3>1. new = [l \in 1..n |-> new[l]]
      BY <1>5, <1>8 DEF WithTdsDefects
    <3> QED BY <1>9, <3>1
  <2> QED BY <2>1
<1>11. /\ files'.ledger = new /\ files'.bank = files.bank /\ files'.settlement = files.settlement
       /\ files' \in [bank : Seq(BankRow), settlement : Seq(SettlementRow), ledger : Seq(LedgerRow)]
  <2>1. files' = [files EXCEPT !.ledger = new]
    BY <1>7, <1>8
  <2> QED BY <1>3, <1>10, <2>1
<1>12. /\ IsTruth(truth') /\ truth'.expected = truth.expected /\ truth'.unresolvable = truth.unresolvable
       /\ \A e \in truth'.planted : e.row = NoRow /\ e.label # "LEDGER_ONLY"
  <2>0. PICK planted : planted = TdsDefects(led, section, drift)
    OBVIOUS
  <2>1. \A e \in planted : \E l :
           \/ e = Planted("TDS_CODE_MIGRATION_BREAK", NoRow, <<>>, {led[l].order_id})
           \/ e = Planted("TDS_AMOUNT_MISMATCH", NoRow, <<>>, {led[l].order_id})
    BY <2>0 DEF TdsDefects
  <2>2. \A e \in planted : e.row = NoRow /\ e.label # "LEDGER_ONLY"
    BY <2>1 DEF Planted
  <2>3. truth' = [truth EXCEPT !.planted = planted]
    BY <1>7, <2>0
  <2> QED BY <1>3, <2>2, <2>3 DEF IsTruth
<1>13. Unsettled(files', truth')
  BY <1>3, <1>11, <1>12 DEF Unsettled
<1>14. DataTypes'
  BY <1>1, <1>2, <1>3, <1>11, <1>12, <1>13 DEF DataTypes, Unsettled, Listing, Settling
<1>15. LedgerMade'
  <2>1. /\ \A l \in 1..n : led[l].order_id = <<"ord", l>> /\ led[l].gross_amount \in Prices
        /\ \A l \in 1..n : \A i \in DOMAIN orders :
             orders[i].order_id = <<"ord", l>> => orders[i].amount = led[l].gross_amount
    BY <1>1, <1>2, <1>4 DEF DataInv, LedgerMade
  <2>2. \A l \in 1..n : new[l].order_id = <<"ord", l>> /\ new[l].gross_amount \in Prices
    BY <1>9, <2>1 DEF SameOrder
  <2>3. \A l \in 1..n : \A i \in DOMAIN orders' :
           orders'[i].order_id = <<"ord", l>> => orders'[i].amount = new[l].gross_amount
    BY <1>2, <1>9, <2>1 DEF SameOrder
  <2>4. DOMAIN batches' = {}
    BY <1>2, <1>3
  <2> QED BY <1>1, <1>2, <1>10, <1>11, <2>2, <2>3, <2>4 DEF LedgerMade
<1>16. OrdersPlaced'
  <2>1. Victims' = {}
    BY <1>12 DEF Victims
  <2>2. Victims = {} /\ OrdersPlaced
    BY <1>2 DEF DataInv, OrdersPlaced, Listed1to1, Listing
  <2> QED BY <1>2, <2>1, <2>2
       DEF OrdersPlaced, Listed1to1, FewBatches, PlacedOnce, NoneLost, Placed, Listing
<1>17. RowsSettled' /\ Truthful'
  BY <1>2, <1>13, <1>14, StillUnsettled
<1> QED BY <1>14, <1>15, <1>16, <1>17 DEF DataInv

Selected(kept, list, victims, of) ==
  /\ \A k \in DOMAIN kept : /\ of[k] \in DOMAIN list /\ kept[k] = list[of[k]]
                            /\ list[of[k]].order_id \notin victims
  /\ \A k, l \in DOMAIN kept : of[k] = of[l] => k = l
  /\ \A i \in DOMAIN list :
       list[i].order_id \notin victims => \E k \in DOMAIN kept : of[k] = i

\* The list without some of its members.
LEMMA ListWithout ==
  ASSUME NEW R, NEW list \in Seq(R), NEW victims,
         NEW kept, kept = FlattenSeq([i \in DOMAIN list |->
                            IF list[i].order_id \in victims THEN <<>> ELSE <<list[i]>>])
  PROVE  kept \in Seq(R) /\ \E of : Selected(kept, list, victims, of)
<1> DEFINE seqs == [i \in DOMAIN list |->
                      IF list[i].order_id \in victims THEN <<>> ELSE <<list[i]>>]
<1>1. PICK n \in Nat : n = Len(list) /\ DOMAIN list = 1..n
  BY LenProperties
<1>2. \A i \in 1..n : seqs[i] = IF list[i].order_id \in victims THEN <<>> ELSE <<list[i]>>
  BY <1>1
<1>3. \A i \in 1..n : seqs[i] \in Seq(R)
  <2> SUFFICES ASSUME NEW i \in 1..n PROVE seqs[i] \in Seq(R)
    OBVIOUS
  <2>1. list[i] \in R
    BY <1>1
  <2>2. <<>> \in Seq(R) /\ <<list[i]>> \in Seq(R)
    BY <2>1
  <2> HIDE DEF seqs
  <2> QED BY <1>2, <2>2
<1>4. seqs \in Seq(Seq(R)) /\ Len(seqs) = n
  <2>1. seqs = [i \in 1..n |-> seqs[i]]
    BY <1>1
  <2>2. seqs \in [1..n -> Seq(R)]
    BY <1>3, <2>1
  <2> HIDE DEF seqs
  <2> QED BY <2>2
<1>5. kept = FlattenSeq(seqs)
  OBVIOUS
<1> HIDE DEF seqs
<1>6. kept \in Seq(R) /\ \E of, nth : Spreads(kept, seqs, n, of, nth)
  BY <1>4, <1>5, FlattenFacts
<1>7. PICK of, nth : Spreads(kept, seqs, n, of, nth)
  BY <1>6
<1>8. ASSUME NEW k \in DOMAIN kept
      PROVE  /\ of[k] \in 1..n /\ kept[k] = list[of[k]] /\ nth[k] = 1
             /\ list[of[k]].order_id \notin victims
  <2>1. of[k] \in 1..n /\ nth[k] \in DOMAIN seqs[of[k]] /\ kept[k] = seqs[of[k]][nth[k]]
    BY <1>7 DEF Spreads
  <2>2. list[of[k]].order_id \notin victims
    <3> SUFFICES ASSUME list[of[k]].order_id \in victims PROVE FALSE
      OBVIOUS
    <3>1. seqs[of[k]] = <<>>
      BY <1>2, <2>1
    <3> QED BY <2>1, <3>1
  <2>3. seqs[of[k]] = <<list[of[k]]>>
    BY <1>2, <2>1, <2>2
  <2> QED BY <2>1, <2>2, <2>3
<1>9. ASSUME NEW i \in 1..n, list[i].order_id \notin victims
      PROVE  \E k \in DOMAIN kept : of[k] = i
  <2>1. seqs[i] = <<list[i]>>
    BY <1>2, <1>9
  <2>2. 1 \in DOMAIN seqs[i]
    BY <2>1
  <2> QED BY <1>7, <2>2 DEF Spreads
<1>10. \A k, l \in DOMAIN kept : of[k] = of[l] => k = l
  BY <1>7, <1>8 DEF Spreads
<1>11. Selected(kept, list, victims, of)
  BY <1>1, <1>8, <1>9, <1>10 DEF Selected
<1> QED BY <1>6, <1>11

OneToOne(of, m, n) ==
  /\ \A k \in 1..m : of[k] \in 1..n
  /\ \A k, l \in 1..m : of[k] = of[l] => k = l

\* No more places than there are places to come from.
LEMMA NoLonger ==
  ASSUME NEW m \in Nat, NEW n \in Nat, NEW of, OneToOne(of, m, n)
  PROVE  m <= n
<1> USE DEF OneToOne
<1> DEFINE f == [k \in 1..m |-> of[k]]
           T == {f[k] : k \in 1..m}
<1>1. f = [k \in 1..m |-> f[k]] /\ \A k, l \in 1..m : f[k] = f[l] => k = l
  OBVIOUS
<1>2. T \subseteq 1..n
  OBVIOUS
<1>3. /\ IsFiniteSet(1..m) /\ Cardinality(1..m) = m
      /\ IsFiniteSet(1..n) /\ Cardinality(1..n) = n
  <2>1. \A k \in Nat : IsFiniteSet(1..k) /\ Cardinality(1..k) = k
    <3> SUFFICES ASSUME NEW k \in Nat PROVE IsFiniteSet(1..k) /\ Cardinality(1..k) = k
      OBVIOUS
    <3> QED BY FS_Interval
  <2> QED BY <2>1
<1> HIDE DEF f
<1>4. Cardinality(T) = Cardinality(1..m)
  BY <1>1, <1>3, ImageOfFinite
<1> HIDE DEF T
<1>5. Cardinality(T) <= Cardinality(1..n)
  BY <1>2, <1>3, FS_Subset
<1> QED BY <1>3, <1>4, <1>5

\* The victims of LEDGER_ONLY leave the list and keep their ledger rows.
LEMMA PlantLedgerOnlyKeeps == DataInv /\ PlantLedgerOnly => DataInv'
<1> SUFFICES ASSUME DataInv, PlantLedgerOnly PROVE DataInv'
  OBVIOUS
<1>1. PICK n \in Nat : n = setup.n_orders
  BY SetupFacts DEF DataInv, DataTypes
<1>2. /\ step = "ledger_only" /\ step' = "batches" /\ batches' = batches /\ setup' = setup
      /\ files' = files /\ assigned' = assigned
  BY DEF PlantLedgerOnly
<1>3. /\ setup \in Setups /\ batches = <<>> /\ Unsettled(files, truth) /\ IsTruth(truth)
      /\ orders \in Seq(Order(n)) /\ DOMAIN orders = 1..n /\ Victims = {}
      /\ files \in [bank : Seq(BankRow), settlement : Seq(SettlementRow), ledger : Seq(LedgerRow)]
  <2>1. orders \in Seq(Order(n)) /\ Len(orders) = n /\ Victims = {}
    BY <1>1, <1>2 DEF DataInv, DataTypes, OrdersPlaced, Listed1to1, Listing
  <2>2. /\ setup \in Setups /\ batches = <<>> /\ Unsettled(files, truth) /\ IsTruth(truth)
        /\ files \in [bank : Seq(BankRow), settlement : Seq(SettlementRow), ledger : Seq(LedgerRow)]
    BY <1>2 DEF DataInv, DataTypes, Unsettled, Settling, Listing
  <2> QED BY <2>1, <2>2
<1>4. \A i \in 1..n : orders[i].order_id = <<"ord", i>>
  BY <1>2, <1>3 DEF DataInv, OrdersPlaced, Listed1to1, Listing
<1>5. PICK victims :
        /\ orders' = FlattenSeq([i \in DOMAIN orders |->
             IF orders[i].order_id \in victims THEN <<>> ELSE <<orders[i]>>])
        /\ truth' = [truth EXCEPT !.planted =
             truth.planted \cup {Planted("LEDGER_ONLY", NoRow, <<>>, {id}) : id \in victims}]
  BY DEF PlantLedgerOnly
<1>6. orders' \in Seq(Order(n)) /\ \E of : Selected(orders', orders, victims, of)
  <2>1. PICK kept : kept = orders'
    OBVIOUS
  <2>2. kept \in Seq(Order(n)) /\ \E of : Selected(kept, orders, victims, of)
    BY <1>3, <1>5, <2>1, ListWithout
  <2> QED BY <2>1, <2>2
<1>6a. PICK of : Selected(orders', orders, victims, of)
  BY <1>6
<1>7. PICK m \in Nat : m = Len(orders') /\ DOMAIN orders' = 1..m
  BY <1>6, LenProperties
<1>8. m <= n
  <2>1. OneToOne(of, m, n)
    BY <1>3, <1>6a, <1>7 DEF Selected, OneToOne
  <2> QED BY <2>1, NoLonger
<1>9. /\ IsTruth(truth') /\ truth'.expected = truth.expected
      /\ truth'.unresolvable = truth.unresolvable
      /\ truth'.planted = truth.planted
                            \cup {Planted("LEDGER_ONLY", NoRow, <<>>, {id}) : id \in victims}
  BY <1>3, <1>5 DEF IsTruth
<1>10. Victims' = victims
  <2>1. ASSUME NEW x \in victims PROVE x \in Victims'
    <3> DEFINE e == Planted("LEDGER_ONLY", NoRow, <<>>, {x})
    <3>1. e \in truth'.planted /\ e.label = "LEDGER_ONLY" /\ x \in e.orders
      BY <1>9, <2>1 DEF Planted
    <3> HIDE DEF e
    <3> QED BY <3>1 DEF Victims
  <2>2. ASSUME NEW x \in Victims' PROVE x \in victims
    <3>1. PICK e \in truth'.planted : e.label = "LEDGER_ONLY" /\ x \in e.orders
      BY DEF Victims
    <3>2. e \notin truth.planted
      BY <1>3, <3>1 DEF Victims
    <3>3. PICK id \in victims : e = Planted("LEDGER_ONLY", NoRow, <<>>, {id})
      BY <1>9, <3>1, <3>2
    <3> QED BY <3>1, <3>3 DEF Planted
  <2> QED BY <2>1, <2>2
<1>11. Unsettled(files', truth')
  <2>1. \A e \in truth'.planted : e.row = NoRow
    BY <1>3, <1>9 DEF Unsettled, Planted
  <2> QED BY <1>2, <1>3, <1>9, <2>1 DEF Unsettled
<1>12. DataTypes'
  <2>1. /\ orders' \in Seq(Order(setup'.n_orders)) /\ setup' \in Setups
        /\ batches' \in Seq(Seq(Order(setup'.n_orders)) \ {<<>>})
    BY <1>1, <1>2, <1>3, <1>6
  <2>2. \A b \in DOMAIN files'.bank : files'.bank[b].credit \in Int
    BY <1>11 DEF Unsettled
  <2> QED BY <1>2, <1>3, <1>9, <1>11, <2>1, <2>2 DEF DataTypes, Unsettled, Listing, Settling
<1>13. LedgerMade'
  <2>1. /\ Len(files.ledger) = n
        /\ \A l \in 1..n :
             /\ files.ledger[l].order_id = <<"ord", l>> /\ files.ledger[l].gross_amount \in Prices
             /\ \A i \in DOMAIN orders :
                  orders[i].order_id = <<"ord", l>> => orders[i].amount = files.ledger[l].gross_amount
    BY <1>1, <1>2 DEF DataInv, LedgerMade
  <2>2. \A l \in 1..n : \A k \in DOMAIN orders' :
           orders'[k].order_id = <<"ord", l>> => orders'[k].amount = files.ledger[l].gross_amount
    <3> SUFFICES ASSUME NEW l \in 1..n, NEW k \in DOMAIN orders',
                        orders'[k].order_id = <<"ord", l>>
                 PROVE  orders'[k].amount = files.ledger[l].gross_amount
      OBVIOUS
    <3>1. of[k] \in DOMAIN orders /\ orders'[k] = orders[of[k]]
      BY <1>6a DEF Selected
    <3> QED BY <2>1, <3>1
  <2>3. DOMAIN batches' = {}
    BY <1>2, <1>3
  <2> QED BY <1>1, <1>2, <2>1, <2>2, <2>3 DEF LedgerMade
<1>14. OrdersPlaced'
  <2>1. DOMAIN batches' = {} /\ Len(batches') = 0
    BY <1>2, <1>3
  <2>2. \A i, j \in DOMAIN orders' : orders'[i].order_id = orders'[j].order_id => i = j
    BY <1>3, <1>4, <1>6a DEF Selected
  <2>3. \A i \in DOMAIN orders' : orders'[i].order_id \notin Victims'
    BY <1>6a, <1>10 DEF Selected
  <2>4. PlacedOnce'
    BY <2>1, <2>2, <2>3 DEF PlacedOnce
  <2>5. FewBatches'
    BY <1>1, <1>2, <1>7, <1>8, <2>1 DEF FewBatches
  <2>6. ASSUME NEW l \in 1..n, <<"ord", l>> \notin victims
        PROVE  \E i \in DOMAIN orders' : orders'[i].order_id = <<"ord", l>>
    <3>1. l \in DOMAIN orders /\ orders[l].order_id = <<"ord", l>>
      BY <1>3, <1>4
    <3>2. PICK k \in DOMAIN orders' : of[k] = l
      BY <1>6a, <2>6, <3>1, Zenon DEF Selected
    <3>3. orders'[k] = orders[l]
      BY <1>6a, <3>2, Zenon DEF Selected
    <3> QED BY <3>1, <3>2, <3>3, Zenon
  <2>7. NoneLost'
    <3>1. \A id : id \in Victims' \/ (\E i \in DOMAIN orders' : orders'[i].order_id = id)
                    => Placed(id)'
      BY DEF Placed
    <3>2. \A id \in {<<"ord", l>> : l \in 1..n} : Placed(id)'
      BY <1>10, <2>6, <3>1
    <3> QED BY <1>1, <1>2, <3>2, Zenon DEF NoneLost
  <2>8. Listed1to1'
    BY <1>2 DEF Listed1to1, Listing
  <2> QED BY <2>4, <2>5, <2>7, <2>8 DEF OrdersPlaced
<1>15. RowsSettled' /\ Truthful'
  BY <1>2, <1>11, <1>12, StillUnsettled
<1> QED BY <1>12, <1>13, <1>14, <1>15 DEF DataInv

\* Giving batches their defects writes nothing to the files.
LEMMA AssignDefectsKeeps == DataInv /\ AssignDefects => DataInv'
<1> SUFFICES ASSUME DataInv, AssignDefects PROVE DataInv'
  OBVIOUS
<1>2. /\ step = "batches" /\ batches' = batches /\ setup' = setup
      /\ files' = files /\ truth' = truth /\ orders' = orders /\ orders = <<>>
      /\ \/ step' = "refused"
         \/ step' = "settle" /\ assigned' \in [DOMAIN batches -> DOMAIN setup.needed \cup {"NONE"}]
  BY DEF AssignDefects
<1>3. setup \in Setups /\ Unsettled(files, truth)
  BY <1>2 DEF DataInv, DataTypes, Unsettled, Settling
<1>4. step' = "settle" => assigned' \in [DOMAIN batches -> BatchDefects \cup {"NONE"}]
  <2>1. DOMAIN setup.needed \subseteq BatchDefects
    BY <1>3, SetupAssumption
  <2> QED BY <1>2, <2>1
<1>5. DataTypes'
  <2>1. files.bank = <<>>
    BY <1>3 DEF Unsettled
  <2>2. Unsettled(files', truth')
    BY <1>2, <1>3
  <2> QED BY <1>2, <1>4, <2>1, <2>2 DEF DataInv, DataTypes, Unsettled, Listing, Settling
<1>6. LedgerMade'
  BY <1>2 DEF DataInv, LedgerMade
<1>7. OrdersPlaced'
  <2>1. Victims' = Victims
    BY <1>2 DEF Victims
  <2>2. Listed1to1'
    BY <1>2 DEF Listed1to1, Listing
  <2>3. FewBatches'
    BY <1>2 DEF DataInv, OrdersPlaced, FewBatches
  <2>4. PlacedOnce'
    BY <1>2, <2>1 DEF DataInv, OrdersPlaced, PlacedOnce
  <2>5. NoneLost'
    <3>1. NoneLost
      BY DEF DataInv, OrdersPlaced
    <3>2. \A id : Placed(id) => Placed(id)'
      BY <1>2, <2>1 DEF Placed
    <3> QED BY <1>2, <3>1, <3>2, Zenon DEF NoneLost
  <2> QED BY <2>2, <2>3, <2>4, <2>5 DEF OrdersPlaced
<1>8. RowsSettled' /\ Truthful'
  BY <1>2, <1>3, <1>5, StillUnsettled
<1> QED BY <1>5, <1>6, <1>7, <1>8 DEF DataInv

\* A batch is drawn from the head of the list: its orders leave it.
LEMMA DrawBatchKeeps == DataInv /\ DrawBatch => DataInv'
<1> SUFFICES ASSUME DataInv, DrawBatch PROVE DataInv'
  OBVIOUS
<1>1. PICK n \in Nat : n = setup.n_orders
  BY SetupFacts DEF DataInv, DataTypes
<1>2. /\ step = "batches" /\ step' = step /\ setup' = setup /\ files' = files /\ truth' = truth
      /\ assigned' = assigned /\ orders # <<>>
  BY DEF DrawBatch
<1>3. /\ setup \in Setups /\ Unsettled(files, truth) /\ IsTruth(truth)
      /\ orders \in Seq(Order(n)) /\ batches \in Seq(Seq(Order(n)) \ {<<>>})
      /\ files \in [bank : Seq(BankRow), settlement : Seq(SettlementRow), ledger : Seq(LedgerRow)]
  <2>1. orders \in Seq(Order(n)) /\ batches \in Seq(Seq(Order(n)) \ {<<>>})
    BY <1>1, <1>2 DEF DataInv, DataTypes
  <2>2. /\ setup \in Setups /\ Unsettled(files, truth) /\ IsTruth(truth)
        /\ files \in [bank : Seq(BankRow), settlement : Seq(SettlementRow), ledger : Seq(LedgerRow)]
    BY <1>2 DEF DataInv, DataTypes, Unsettled, Settling
  <2> QED BY <2>1, <2>2
<1>4. PICK m \in Nat, k \in Nat, B \in Nat :
        /\ Len(orders) = m /\ DOMAIN orders = 1..m /\ Len(batches) = B /\ DOMAIN batches = 1..B
        /\ 1 <= k /\ k <= m
        /\ batches' = Append(batches, SubSeq(orders, 1, k))
        /\ orders' = SubSeq(orders, k + 1, m)
  <2>1. PICK m \in Nat, B \in Nat :
          Len(orders) = m /\ DOMAIN orders = 1..m /\ Len(batches) = B /\ DOMAIN batches = 1..B
    BY <1>3, LenProperties
  <2>2. m # 0
    BY <1>2, <1>3, <2>1
  <2>3. PICK size \in setup.batch_sizes :
          LET w == IF size < m THEN size ELSE m
          IN  batches' = Append(batches, SubSeq(orders, 1, w)) /\ orders' = SubSeq(orders, w + 1, m)
    BY <2>1 DEF DrawBatch
  <2>4. size \in Nat \ {0}
    BY <1>3, SetupFacts
  <2> DEFINE k == IF size < m THEN size ELSE m
  <2>5. k \in Nat /\ 1 <= k /\ k <= m
    BY <2>2, <2>4
  <2> QED BY <2>1, <2>3, <2>5
<1>5. PICK first : first = SubSeq(orders, 1, k)
  OBVIOUS
<1>6. /\ first \in Seq(Order(n)) \ {<<>>} /\ Len(first) = k /\ DOMAIN first = 1..k
      /\ \A i \in 1..k : i \in 1..m /\ first[i] = orders[i]
  <2>1. \A i \in 1..k : i \in 1..m /\ orders[i] \in Order(n)
    BY <1>3, <1>4
  <2>2. first \in Seq(Order(n)) /\ Len(first) = k /\ \A i \in 1..k : first[i] = orders[i]
    BY <1>4, <1>5, <2>1, SubSeqProperties
  <2>3. first # <<>> /\ DOMAIN first = 1..k
    BY <1>4, <2>2
  <2> QED BY <2>1, <2>2, <2>3
<1>7. /\ orders' \in Seq(Order(n)) /\ Len(orders') = m - k /\ DOMAIN orders' = 1..(m - k)
      /\ \A i \in 1..(m - k) : k + i \in 1..m /\ orders'[i] = orders[k + i]
  <2>0. PICK rest : rest = SubSeq(orders, k + 1, m)
    OBVIOUS
  <2>1. \A i \in (k + 1)..m : orders[i] \in Order(n)
    BY <1>3, <1>4
  <2>2. /\ rest \in Seq(Order(n)) /\ Len(rest) = m - k
        /\ \A i \in 1..(m - k) : rest[i] = orders[k + i]
    <3>1. /\ rest \in Seq(Order(n))
          /\ Len(rest) = IF k + 1 <= m THEN m - (k + 1) + 1 ELSE 0
          /\ \A i \in 1..(m - (k + 1) + 1) : rest[i] = orders[(k + 1) + i - 1]
      BY <1>4, <2>0, <2>1, SubSeqProperties
    <3>2. m - (k + 1) + 1 = m - k /\ \A i \in 1..(m - k) : (k + 1) + i - 1 = k + i
      BY <1>4
    <3> QED BY <1>4, <3>1, <3>2
  <2>3. \A i \in 1..(m - k) : k + i \in 1..m
    BY <1>4
  <2> QED BY <1>4, <2>0, <2>2, <2>3
<1>8. /\ batches' \in Seq(Seq(Order(n)) \ {<<>>}) /\ Len(batches') = B + 1
      /\ DOMAIN batches' = 1..(B + 1) /\ batches'[B + 1] = first
      /\ \A b \in 1..B : b \in 1..(B + 1) /\ batches'[b] = batches[b]
  <2>1. /\ batches' \in Seq(Seq(Order(n)) \ {<<>>}) /\ Len(batches') = B + 1
        /\ batches'[B + 1] = first /\ \A b \in 1..B : batches'[b] = batches[b]
    <3>1. PICK S : S = Seq(Order(n)) \ {<<>>}
      OBVIOUS
    <3>2. batches \in Seq(S) /\ first \in S /\ batches' = Append(batches, first)
      BY <1>3, <1>4, <1>5, <1>6, <3>1
    <3>3. /\ batches' \in Seq(S) /\ Len(batches') = Len(batches) + 1
          /\ batches'[Len(batches) + 1] = first
          /\ \A b \in 1..Len(batches) : batches'[b] = batches[b]
      BY <3>2, AppendProperties
    <3> QED BY <1>4, <3>1, <3>3
  <2> QED BY <1>4, <2>1
<1>9. \A b \in 1..(B + 1) : b \notin 1..B => b = B + 1
  OBVIOUS
<1>9a. \A b \in 1..B : b \in DOMAIN batches /\ batches'[b] = batches[b]
  BY <1>4, <1>8
<1>10. Victims' = Victims
  BY <1>2 DEF Victims
<1>11. DataTypes'
  <2>1. /\ orders' \in Seq(Order(setup'.n_orders)) /\ setup' \in Setups
        /\ batches' \in Seq(Seq(Order(setup'.n_orders)) \ {<<>>})
    BY <1>1, <1>2, <1>3, <1>7, <1>8
  <2>2. \A b \in DOMAIN files'.bank : files'.bank[b].credit \in Int
    BY <1>2, <1>3 DEF Unsettled
  <2>3. Unsettled(files', truth') /\ IsTruth(truth')
    BY <1>2, <1>3
  <2> QED BY <1>2, <1>3, <2>1, <2>2, <2>3 DEF DataTypes, Unsettled, Listing, Settling
<1>12. LedgerMade'
  <2>1. /\ Len(files.ledger) = n
        /\ \A l \in 1..n :
             files.ledger[l].order_id = <<"ord", l>> /\ files.ledger[l].gross_amount \in Prices
    BY <1>1, <1>2 DEF DataInv, LedgerMade
  <2>2. ASSUME NEW l \in 1..n, NEW i \in 1..m, orders[i].order_id = <<"ord", l>>
        PROVE  orders[i].amount = files.ledger[l].gross_amount
    BY <1>1, <1>2, <1>4, <2>2 DEF DataInv, LedgerMade
  <2>3. ASSUME NEW l \in 1..n, NEW b \in 1..B, NEW o \in DOMAIN batches[b],
               batches[b][o].order_id = <<"ord", l>>
        PROVE  batches[b][o].amount = files.ledger[l].gross_amount
    <3>1. \A x \in 1..setup.n_orders : \A c \in DOMAIN batches : \A p \in DOMAIN batches[c] :
             batches[c][p].order_id = <<"ord", x>>
               => batches[c][p].amount = files.ledger[x].gross_amount
      BY <1>2 DEF DataInv, LedgerMade
    <3>2. b \in DOMAIN batches /\ l \in 1..setup.n_orders
      BY <1>1, <1>4
    <3> QED BY <2>3, <3>1, <3>2, Zenon
  <2>4. \A l \in 1..n : \A i \in DOMAIN orders' :
           orders'[i].order_id = <<"ord", l>> => orders'[i].amount = files.ledger[l].gross_amount
    <3> SUFFICES ASSUME NEW l \in 1..n, NEW i \in DOMAIN orders', orders'[i].order_id = <<"ord", l>>
                 PROVE  orders'[i].amount = files.ledger[l].gross_amount
      OBVIOUS
    <3>1. PICK j \in 1..m : orders'[i] = orders[j]
      BY <1>7
    <3>2. orders[j].order_id = <<"ord", l>>
      BY <3>1, Zenon
    <3>3. orders[j].amount = files.ledger[l].gross_amount
      BY <2>2, <3>2
    <3> QED BY <3>1, <3>3, Zenon
  <2>5. ASSUME NEW l \in 1..n, NEW b \in 1..(B + 1), NEW o \in DOMAIN batches'[b],
               batches'[b][o].order_id = <<"ord", l>>
        PROVE  batches'[b][o].amount = files.ledger[l].gross_amount
    <3>1. CASE b \in 1..B
      <4>1. batches'[b] = batches[b]
        BY <1>8, <3>1
      <4>2. o \in DOMAIN batches[b] /\ batches[b][o].order_id = <<"ord", l>>
        BY <2>5, <4>1, Zenon
      <4>3. batches[b][o].amount = files.ledger[l].gross_amount
        BY <2>3, <3>1, <4>2, Zenon
      <4> QED BY <4>1, <4>3, Zenon
    <3>2. CASE b = B + 1
      BY <1>6, <1>8, <2>2, <2>5, <3>2
    <3> QED BY <1>9, <3>1, <3>2
  <2>6. ASSUME NEW l \in 1..n
        PROVE  /\ files'.ledger[l].order_id = <<"ord", l>> /\ files'.ledger[l].gross_amount \in Prices
               /\ \A i \in DOMAIN orders' :
                    orders'[i].order_id = <<"ord", l>>
                      => orders'[i].amount = files'.ledger[l].gross_amount
               /\ \A b \in DOMAIN batches' : \A o \in DOMAIN batches'[b] :
                    batches'[b][o].order_id = <<"ord", l>>
                      => batches'[b][o].amount = files'.ledger[l].gross_amount
    <3>1. files' = files /\ DOMAIN batches' = 1..(B + 1)
      BY <1>2, <1>8
    <3> QED BY <2>1, <2>4, <2>5, <3>1, Zenon
  <2>7. Len(files'.ledger) = n /\ step' \notin {"orders", "ledger"} /\ setup'.n_orders = n
    BY <1>1, <1>2, <2>1
  <2> QED BY <2>6, <2>7 DEF LedgerMade
<1>13. OrdersPlaced'
  <2>1. /\ B + m <= n
        /\ \A b \in 1..B : Len(batches[b]) <= n
    BY <1>1, <1>4 DEF DataInv, OrdersPlaced, FewBatches
  <2>2. FewBatches'
    <3>1. Len(batches') + Len(orders') <= n
      BY <1>4, <1>7, <1>8, <2>1
    <3>2. \A b \in 1..(B + 1) : Len(batches'[b]) <= n
      BY <1>4, <1>6, <1>8, <1>9, <2>1
    <3> QED BY <1>1, <1>2, <1>8, <3>1, <3>2 DEF FewBatches
  <2>3. PlacedOnce
    BY DEF DataInv, OrdersPlaced
  <2>4. \A i, j \in 1..m : orders[i].order_id = orders[j].order_id => i = j
    BY <1>4, <2>3 DEF PlacedOnce
  <2>5. \A b, c \in 1..B : \A o \in DOMAIN batches[b], p \in DOMAIN batches[c] :
           batches[b][o].order_id = batches[c][p].order_id => b = c /\ o = p
    BY <1>9a, <2>3, Zenon DEF PlacedOnce
  <2>6. \A b \in 1..B : \A o \in DOMAIN batches[b] :
           /\ batches[b][o].order_id \notin Victims
           /\ \A i \in 1..m : orders[i].order_id # batches[b][o].order_id
    BY <1>4, <2>3 DEF PlacedOnce
  <2>7. \A i \in 1..m : orders[i].order_id \notin Victims
    BY <1>4, <2>3 DEF PlacedOnce
  <2>8. PlacedOnce'
    <3>1. \A i, j \in DOMAIN orders' : orders'[i].order_id = orders'[j].order_id => i = j
      <4> SUFFICES ASSUME NEW i \in 1..(m - k), NEW j \in 1..(m - k),
                          orders'[i].order_id = orders'[j].order_id
                   PROVE  i = j
        BY <1>7
      <4>1. k + i = k + j
        BY <1>7, <2>4
      <4> QED BY <1>4, <4>1
    <3>2. ASSUME NEW b \in 1..(B + 1), NEW c \in 1..(B + 1),
                 NEW o \in DOMAIN batches'[b], NEW p \in DOMAIN batches'[c],
                 batches'[b][o].order_id = batches'[c][p].order_id
          PROVE  b = c /\ o = p
      <4>1. CASE b \in 1..B /\ c \in 1..B
        <5>1. batches'[b] = batches[b] /\ batches'[c] = batches[c]
          BY <1>8, <4>1
        <5>2. /\ o \in DOMAIN batches[b] /\ p \in DOMAIN batches[c]
              /\ batches[b][o].order_id = batches[c][p].order_id
          BY <3>2, <5>1, Zenon
        <5> QED BY <2>5, <4>1, <5>2, Zenon
      <4>2. CASE b = B + 1 /\ c = B + 1
        BY <1>6, <1>8, <2>4, <3>2, <4>2
      <4>3. CASE b \in 1..B /\ c = B + 1
        <5>1. batches'[b] = batches[b] /\ batches'[c] = first
          BY <1>8, <4>3
        <5>2. o \in DOMAIN batches[b] /\ p \in 1..m /\ batches'[c][p] = orders[p]
          BY <1>6, <3>2, <5>1
        <5> QED BY <2>6, <3>2, <4>3, <5>1, <5>2, Zenon
      <4>4. CASE b = B + 1 /\ c \in 1..B
        <5>1. batches'[c] = batches[c] /\ batches'[b] = first
          BY <1>8, <4>4
        <5>2. p \in DOMAIN batches[c] /\ o \in 1..m /\ batches'[b][o] = orders[o]
          BY <1>6, <3>2, <5>1
        <5>3. batches[c][p].order_id = orders[o].order_id
          BY <3>2, <5>1, <5>2
        <5> QED BY <2>6, <4>4, <5>2, <5>3
      <4> QED BY <1>9, <4>1, <4>2, <4>3, <4>4
    <3>3. ASSUME NEW b \in 1..(B + 1), NEW o \in DOMAIN batches'[b]
          PROVE  /\ batches'[b][o].order_id \notin Victims'
                 /\ \A i \in DOMAIN orders' : orders'[i].order_id # batches'[b][o].order_id
      <4>1. CASE b \in 1..B
        <5>1. batches'[b] = batches[b]
          BY <1>8, <4>1
        <5>2. o \in DOMAIN batches[b]
          BY <5>1
        <5>3. /\ batches[b][o].order_id \notin Victims
              /\ \A i \in 1..m : orders[i].order_id # batches[b][o].order_id
          BY <2>6, <4>1, <5>2, Zenon
        <5>4. \A i \in DOMAIN orders' : orders'[i].order_id # batches[b][o].order_id
          BY <1>7, <5>3
        <5> QED BY <1>10, <5>1, <5>3, <5>4, Zenon
      <4>2. CASE b = B + 1
        <5>1. o \in 1..k /\ o \in 1..m /\ batches'[b][o] = orders[o]
          BY <1>6, <1>8, <4>2
        <5>2. orders[o].order_id \notin Victims'
          BY <1>10, <2>7, <5>1
        <5>3. ASSUME NEW i \in 1..(m - k), orders'[i].order_id = orders[o].order_id PROVE FALSE
          <6>1. k + i = o
            BY <1>7, <2>4, <5>1, <5>3
          <6> QED BY <1>4, <5>1, <6>1
        <5> QED BY <1>7, <5>1, <5>2, <5>3
      <4> QED BY <1>9, <4>1, <4>2
    <3>4. \A i \in DOMAIN orders' : orders'[i].order_id \notin Victims'
      BY <1>7, <1>10, <2>7
    <3> QED BY <1>8, <3>1, <3>2, <3>3, <3>4 DEF PlacedOnce
  <2>9. NoneLost'
    <3>1. NoneLost
      BY DEF DataInv, OrdersPlaced
    <3>2. ASSUME NEW id, Placed(id) PROVE Placed(id)'
      <4>1. CASE id \in Victims
        BY <1>10, <4>1 DEF Placed
      <4>2. CASE \E i \in DOMAIN orders : orders[i].order_id = id
        <5>1. PICK i \in 1..m : orders[i].order_id = id
          BY <1>4, <4>2
        <5>2. CASE i <= k
          <6>1. B + 1 \in DOMAIN batches' /\ i \in DOMAIN batches'[B + 1]
                /\ batches'[B + 1][i].order_id = id
            BY <1>6, <1>8, <5>1, <5>2
          <6> QED BY <6>1 DEF Placed
        <5>3. CASE ~ (i <= k)
          <6>1. i - k \in DOMAIN orders' /\ k + (i - k) = i
            BY <1>4, <1>7, <5>3
          <6>2. orders'[i - k].order_id = id
            BY <1>7, <5>1, <6>1
          <6> QED BY <6>1, <6>2 DEF Placed
        <5> QED BY <5>2, <5>3
      <4>3. CASE \E b \in DOMAIN batches : \E o \in DOMAIN batches[b] : batches[b][o].order_id = id
        <5>1. PICK b \in 1..B : \E o \in DOMAIN batches[b] : batches[b][o].order_id = id
          BY <1>4, <4>3
        <5>2. PICK o \in DOMAIN batches[b] : batches[b][o].order_id = id
          BY <5>1
        <5>3. b \in DOMAIN batches' /\ o \in DOMAIN batches'[b] /\ batches'[b][o].order_id = id
          BY <1>8, <5>2
        <5> QED BY <5>3 DEF Placed
      <4> QED BY <3>2, <4>1, <4>2, <4>3 DEF Placed
    <3> QED BY <1>2, <3>1, <3>2, Zenon DEF NoneLost
  <2>10. Listed1to1'
    BY <1>2 DEF Listed1to1, Listing
  <2> QED BY <2>2, <2>8, <2>9, <2>10 DEF OrdersPlaced
<1>14. RowsSettled' /\ Truthful'
  BY <1>2, <1>3, <1>11, StillUnsettled
<1> QED BY <1>11, <1>12, <1>13, <1>14 DEF DataInv

\* The names the generator makes are of the sets the cascade reads.
LEMMA NameFacts ==
  ASSUME NEW s \in Setups
  PROVE  /\ \A i \in 1..s.n_orders : <<"ord", i>> \in OrderIds
         /\ \A kind \in Kinds : \A b, o \in 1..s.n_orders : <<kind, b, o>> \in SettlementIds
         /\ \A twin \in {"a", "b"} : \A i \in 1..s.unresolvable :
               <<twin, i>> \in OrderIds /\ <<twin, i, 0>> \in SettlementIds
         /\ \A utr \in 1..(s.n_orders + s.bank_only + 2 * s.unresolvable) :
               /\ utr \in Utrs
               /\ Narration("clean", utr, 16) \in Narrations
               /\ Narration("unknown", utr, 16) \in Narrations
               /\ Narration("neft", utr, 6) \in Narrations
               /\ \A t \in s.templates : Narration(t[1], utr, t[2]) \in Narrations
<1>1. /\ \A i \in 1..s.n_orders : <<"ord", i>> \in OrderIds
      /\ \A kind \in Kinds : \A b, o \in 1..s.n_orders : <<kind, b, o>> \in SettlementIds
  BY NameAssumption DEF Kinds
<1>2. \A twin \in {"a", "b"} : \A i \in 1..s.unresolvable :
               <<twin, i>> \in OrderIds /\ <<twin, i, 0>> \in SettlementIds
  BY NameAssumption, Zenon
<1>3. ASSUME NEW utr \in 1..(s.n_orders + s.bank_only + 2 * s.unresolvable)
      PROVE  /\ utr \in Utrs
             /\ {Narration("clean", utr, 16), Narration("unknown", utr, 16),
                 Narration("neft", utr, 6)} \subseteq Narrations
             /\ {Narration(t[1], utr, t[2]) : t \in s.templates} \subseteq Narrations
  BY NameAssumption, Zenon
<1>4. ASSUME NEW utr \in 1..(s.n_orders + s.bank_only + 2 * s.unresolvable),
             NEW t \in s.templates
      PROVE  Narration(t[1], utr, t[2]) \in Narrations
  BY <1>3, Zenon
<1> QED BY <1>1, <1>2, <1>3, <1>4

\* What BuildBatch has done: batch b is settled by rows and paid by credit.
Settled(b, rows, credit) ==
  /\ b \in 1..Len(batches) /\ b = Len(files.bank) + 1
  /\ rows \in Seq(SettlementRow)
  /\ \A k \in DOMAIN rows : \E o \in DOMAIN batches[b] : \E kind \in Kinds :
       RowOf(rows[k], b, o, batches[b][o], kind)
  /\ \A k, l \in DOMAIN rows : rows[k].settlement_id = rows[l].settlement_id => k = l
  /\ \A o \in DOMAIN batches[b] : \E k \in DOMAIN rows :
       RowOf(rows[k], b, o, batches[b][o], "pay")
  /\ credit \in BankRow /\ credit.credit \in Int
  /\ assigned[b] = "NONE" => credit.credit = Net(rows, DOMAIN rows)
  /\ AsCharged(rows, DOMAIN rows, credit, assigned[b])
  /\ credit.narration \in NarrationsOf(setup, b)
  /\ files' = [files EXCEPT !.settlement = files.settlement \o rows,
                            !.bank = Append(files.bank, credit)]
  /\ truth' = Recorded(assigned[b], b, b, rows, batches[b])
  /\ step = "settle"

\* What a defect adds to a credit is a number, a few paise of rounding, half a per mille
\* of the net, or nothing.
LEMMA DriftType ==
  ASSUME NEW s \in Setups, s = setup, NEW label, NEW net \in Int,
         NEW drift \in Drifts(label, net)
  PROVE  drift \in Int /\ (label = "NONE" => drift = 0) /\ drift \in DriftsOf(label, net)
<1>1. \A x \in setup.roundings : x \in Int /\ x \in {-9, -7, -5, -3, 3, 5, 7, 9}
  <2>1. setup.roundings \subseteq {-9, -7, -5, -3, 3, 5, 7, 9}
    BY SetupAssumption
  <2> QED BY <2>1
<1>2. HalfUp(net * ResidualRate, 10000) \in Int
  BY WholeRate DEF ResidualRate
<1>3. PICK h \in Int : h = HalfUp(net * ResidualRate, 10000)
  BY <1>2
<1>4. Drifts(label, net) =
        CASE label = "ROUNDING" -> setup.roundings
          [] label = "UNEXPLAINED_RESIDUAL" -> {h, -h}
          [] OTHER -> {0}
  BY <1>3 DEF Drifts
<1>4a. DriftsOf(label, net) =
         CASE label = "ROUNDING" -> {-9, -7, -5, -3, 3, 5, 7, 9}
           [] label = "UNEXPLAINED_RESIDUAL" -> {h, -h}
           [] OTHER -> {0}
  BY <1>3 DEF DriftsOf
<1>5. CASE label = "ROUNDING"
  <2>1. drift \in setup.roundings
    BY <1>4, <1>5
  <2> QED BY <1>1, <1>4a, <1>5, <2>1
<1>6. CASE label = "UNEXPLAINED_RESIDUAL"
  <2>1. drift \in {h, -h}
    BY <1>4, <1>6
  <2> QED BY <1>4a, <1>6, <2>1
<1>7. CASE label \notin {"ROUNDING", "UNEXPLAINED_RESIDUAL"}
  <2>1. drift \in {0}
    BY <1>4, <1>7
  <2> QED BY <1>4a, <1>7, <2>1
<1> QED BY <1>5, <1>6, <1>7

\* BuildBatch settles the next batch, in the sense of Settled.
LEMMA BuildBatchFacts == DataInv /\ BuildBatch => \E b, rows, credit : Settled(b, rows, credit)
<1> SUFFICES ASSUME DataInv, BuildBatch PROVE \E b, rows, credit : Settled(b, rows, credit)
  OBVIOUS
<1>1. PICK n \in Nat : n = setup.n_orders
  BY SetupFacts DEF DataInv, DataTypes
<1>2. /\ setup \in Setups /\ batches \in Seq(Seq(Order(n)) \ {<<>>})
      /\ files \in [bank : Seq(BankRow), settlement : Seq(SettlementRow), ledger : Seq(LedgerRow)]
  BY <1>1 DEF DataInv, DataTypes
<1> DEFINE b == Len(files.bank) + 1
           batch == batches[b]
           label == assigned[b]
           mdr == IF label = "FEE_VARIANCE" THEN MdrVariant ELSE MdrDrawn
           gst == IF label = "GST_ON_MDR_VARIANCE" THEN GstVariant ELSE GstDrawn
           settledAt == batch[Len(batch)].created_at + 1
           date == IF label = "TIMING_T_PLUS_N" THEN settledAt + TimingDays ELSE settledAt
           Paid(rows, drift, narration) ==
             /\ files' = [files EXCEPT
                  !.settlement = files.settlement \o rows,
                  !.bank = Append(files.bank,
                    [narration |-> narration, credit |-> ActualNet(rows) + drift,
                     txn_date |-> date])]
             /\ truth' = Recorded(label, b, b, rows, batch)
           Some2(rows) ==
             \E drift \in Drifts(label, ActualNet(rows)), narration \in BatchNarrations(label, b) :
               Paid(rows, drift, narration)
           Some1(fate) == Some2(RowsOfBatch(b, batch, fate, mdr, gst, settledAt))
<1>5. /\ step = "settle" /\ b <= Len(batches)
      /\ \E fate \in [DOMAIN batch -> setup.fates] : Some1(fate)
  BY Zenon DEF BuildBatch, RowsOfBatch
<1>3. b \in Nat /\ b = Len(files.bank) + 1
  <2>1. Len(files.bank) \in Nat
    BY <1>2
  <2> QED BY <2>1
<1>4. batch = batches[b] /\ label = assigned[b]
  OBVIOUS
<1> HIDE DEF Some1
<1>6. PICK fate \in [DOMAIN batch -> setup.fates] : Some1(fate)
  BY <1>5
<1>7. PICK rows : rows = RowsOfBatch(b, batch, fate, mdr, gst, settledAt) /\ Some2(rows)
  <2> HIDE DEF Some2, b, batch, label, mdr, gst, settledAt
  <2> QED BY <1>6 DEF Some1
<1> HIDE DEF Some2, b, batch, label
<1>8. b \in 1..Len(batches) /\ batch \in Seq(Order(n)) \ {<<>>}
  <2>1. Len(files.bank) \in Nat /\ Len(batches) \in Nat
    BY <1>2
  <2>2. b \in 1..Len(batches)
    BY <1>3, <1>5, <2>1
  <2> QED BY <1>2, <1>4, <2>2
<1>9. b \in 1..n /\ Len(batch) <= n
  <2>1. /\ Len(batches) + Len(orders) <= n
        /\ \A c \in DOMAIN batches : Len(batches[c]) <= n
    BY <1>1 DEF DataInv, OrdersPlaced, FewBatches
  <2>2. Len(orders) \in Nat /\ Len(batches) \in Nat
    <3>1. orders \in Seq(Order(setup.n_orders))
      BY DEF DataInv, DataTypes
    <3> QED BY <1>2, <3>1
  <2>3. b \in DOMAIN batches
    BY <1>2, <1>8
  <2> QED BY <1>4, <1>8, <2>1, <2>2, <2>3
<1>10. b \in Utrs /\ \A x \in BatchNarrations(label, b) : x \in Narrations
  <2>1. b \in 1..(setup.n_orders + setup.bank_only + 2 * setup.unresolvable)
    BY <1>1, <1>2, <1>9, SetupFacts
  <2>2. /\ b \in Utrs /\ Narration("clean", b, 16) \in Narrations
        /\ \A t \in setup.templates : Narration(t[1], b, t[2]) \in Narrations
    BY <1>2, <2>1, NameFacts
  <2> QED BY <2>2 DEF BatchNarrations
<1>11. Payable(b, batch, fate)
  <2> SUFFICES ASSUME NEW o \in DOMAIN batch
               PROVE  /\ batch[o].amount \in Prices /\ batch[o].order_id \in OrderIds
                      /\ fate[o].on_hold \in BOOLEAN /\ fate[o].refund \in Int
                      /\ fate[o].chargeback \in BOOLEAN
                      /\ \A kind \in Kinds : <<kind, b, o>> \in SettlementIds
    BY Zenon DEF Payable
  <2>1. batch[o] \in Order(n) /\ o \in 1..n
    BY <1>8, <1>9
  <2>2. batch[o].amount \in Prices
    BY <2>1 DEF Order
  <2>3. batch[o].order_id \in OrderIds
    <3>1. PICK i \in 1..n : batch[o].order_id = <<"ord", i>>
      BY <2>1 DEF Order
    <3> QED BY <1>1, <1>2, <3>1, NameFacts
  <2>4. fate[o].on_hold \in BOOLEAN /\ fate[o].refund \in Int /\ fate[o].chargeback \in BOOLEAN
    <3>1. fate[o] \in setup.fates
      BY <1>6
    <3>2. fate[o] \in [on_hold : BOOLEAN, refund : 0..100, chargeback : BOOLEAN]
      BY <1>2, <3>1, SetupAssumption
    <3> QED BY <3>2
  <2>5. \A kind \in Kinds : <<kind, b, o>> \in SettlementIds
    BY <1>1, <1>2, <1>9, <2>1, NameFacts
  <2> QED BY <2>2, <2>3, <2>4, <2>5
<1>12. mdr \in Int /\ gst \in Int /\ settledAt \in Int /\ date \in Int
       /\ mdr = MdrOf(label) /\ gst = GstOf(label) /\ date = settledAt + DelayOf(label)
  <2>1. batch[Len(batch)] \in Order(n)
    <3>1. Len(batch) \in DOMAIN batch
      BY <1>8
    <3> QED BY <1>8, <3>1
  <2>2. batch[Len(batch)].created_at \in Int
    BY <2>1 DEF Order
  <2>3. settledAt \in Int
    BY <2>2
  <2>4. mdr \in Int /\ gst \in Int /\ mdr = MdrOf(label) /\ gst = GstOf(label)
    BY DEF MdrOf, GstOf, MdrVariant, MdrDrawn, GstVariant, GstDrawn
  <2>5. date \in Int /\ date = settledAt + DelayOf(label)
    <3> HIDE DEF settledAt
    <3> QED BY <2>3 DEF DelayOf, TimingDays
  <2> QED BY <2>3, <2>4, <2>5
<1> HIDE DEF mdr, gst, settledAt, date
<1>13. /\ rows \in Seq(SettlementRow)
       /\ \A k \in DOMAIN rows : \E o \in DOMAIN batch : \E kind \in Kinds :
            RowOf(rows[k], b, o, batch[o], kind)
       /\ \A k, l \in DOMAIN rows : rows[k].settlement_id = rows[l].settlement_id => k = l
       /\ \A o \in DOMAIN batch : \E k \in DOMAIN rows : RowOf(rows[k], b, o, batch[o], "pay")
       /\ \A k \in DOMAIN rows : SettledAs(rows[k], mdr, gst, settledAt)
  <2>1. batch \in Seq(Order(n))
    BY <1>8
  <2> QED BY <1>7, <1>10, <1>11, <1>12, <2>1, BatchFacts
<1>14. ActualNet(rows) = Net(rows, DOMAIN rows) /\ ActualNet(rows) \in Int
  <2>1. IsFiniteSet(DOMAIN rows) /\ DOMAIN rows \subseteq Nat
    BY <1>13, PositionsFinite
  <2>2. \A k \in DOMAIN rows : RowNet(rows[k]) = ActualOf(rows[k])
    BY <1>13 DEF RowOf, ActualOf
  <2>3. ActualNet(rows) = Net(rows, DOMAIN rows)
    BY <2>1, <2>2, ActualIsNet
  <2>4. Net(rows, DOMAIN rows) \in Int
    BY <1>13, <2>1, NetType
  <2> QED BY <2>3, <2>4
<1> HIDE DEF Paid
<1>15. PICK drift \in Drifts(label, ActualNet(rows)), narration \in BatchNarrations(label, b) :
         Paid(rows, drift, narration)
  BY <1>7 DEF Some2
<1>16. drift \in Int /\ (label = "NONE" => drift = 0) /\ drift \in DriftsOf(label, ActualNet(rows))
  BY <1>2, <1>14, DriftType
<1>17. PICK net \in Int : net = ActualNet(rows)
  BY <1>14
<1>18. PICK credit : credit = [narration |-> narration, credit |-> net + drift, txn_date |-> date]
  OBVIOUS
<1>19. credit \in BankRow /\ credit.credit \in Int
  BY <1>10, <1>12, <1>15, <1>16, <1>18 DEF BankRow
<1>20. assigned[b] = "NONE" => credit.credit = Net(rows, DOMAIN rows)
  BY <1>4, <1>14, <1>16, <1>17, <1>18
<1>21. /\ files' = [files EXCEPT !.settlement = files.settlement \o rows,
                                 !.bank = Append(files.bank, credit)]
       /\ truth' = Recorded(assigned[b], b, b, rows, batches[b])
  BY <1>4, <1>15, <1>17, <1>18, Zenon DEF Paid
<1>22. credit.narration \in NarrationsOf(setup, b)
  <2>1. narration \in NarrationsOf(setup, b)
    BY <1>15 DEF BatchNarrations, NarrationsOf
  <2> QED BY <1>18, <2>1
<1>22a. AsCharged(rows, DOMAIN rows, credit, assigned[b])
  <2>1. AllCharged(rows, DOMAIN rows, MdrOf(label), GstOf(label))
    BY <1>12, <1>13 DEF AllCharged, SettledAs
  <2>2. \A k \in DOMAIN rows : credit.txn_date = rows[k].settled_at + DelayOf(label)
    BY <1>12, <1>13, <1>18 DEF SettledAs
  <2>3. credit.credit - Net(rows, DOMAIN rows) \in DriftsOf(label, Net(rows, DOMAIN rows))
    <3>1. credit.credit = net + drift /\ net = Net(rows, DOMAIN rows)
      BY <1>14, <1>17, <1>18
    <3>2. (net + drift) - net = drift /\ drift \in DriftsOf(label, net)
      BY <1>16, <1>17
    <3> QED BY <3>1, <3>2
  <2> QED BY <1>4, <2>1, <2>2, <2>3 DEF AsCharged
<1>23. Settled(b, rows, credit)
  BY <1>3, <1>4, <1>5, <1>8, <1>13, <1>19, <1>20, <1>21, <1>22, <1>22a DEF Settled
<1> QED BY <1>23

\* Where the rows of a file stand when others are added behind them.
Behind(new, old, rows, a, m) ==
  /\ DOMAIN old = 1..a /\ DOMAIN rows = 1..m /\ DOMAIN new = 1..(a + m)
  /\ \A i \in 1..a : i \in 1..(a + m) /\ new[i] = old[i]
  /\ \A k \in 1..m : a + k \in 1..(a + m) /\ new[a + k] = rows[k]
  /\ \A i \in 1..(a + m) : i \notin 1..a => i - a \in 1..m /\ i = a + (i - a)

\* Rows appended to a file are behind those it had.
LEMMA AddedBehind ==
  ASSUME NEW R, NEW old \in Seq(R), NEW rows \in Seq(R)
  PROVE  /\ old \o rows \in Seq(R)
         /\ \E a, m \in Nat : /\ a = Len(old) /\ m = Len(rows)
                              /\ Behind(old \o rows, old, rows, a, m)
<1>1. PICK a \in Nat, m \in Nat : a = Len(old) /\ m = Len(rows)
  OBVIOUS
<1>2. PICK new : new = old \o rows
  OBVIOUS
<1>3. /\ new \in Seq(R) /\ Len(new) = a + m
      /\ \A k \in 1..(a + m) : new[k] = IF k <= a THEN old[k] ELSE rows[k - a]
  BY <1>1, <1>2, ConcatProperties
<1>4. DOMAIN old = 1..a /\ DOMAIN rows = 1..m /\ DOMAIN new = 1..(a + m)
  BY <1>1, <1>3, LenProperties
<1>5. \A i \in 1..a : i \in 1..(a + m) /\ new[i] = old[i]
  BY <1>3
<1>6. ASSUME NEW k \in 1..m PROVE a + k \in 1..(a + m) /\ new[a + k] = rows[k]
  <2>1. a + k \in 1..(a + m) /\ ~ (a + k <= a) /\ (a + k) - a = k
    OBVIOUS
  <2> QED BY <1>3, <2>1
<1>7. \A i \in 1..(a + m) : i \notin 1..a => i - a \in 1..m /\ i = a + (i - a)
  OBVIOUS
<1>8. Behind(new, old, rows, a, m)
  BY <1>4, <1>5, <1>6, <1>7 DEF Behind
<1> QED BY <1>1, <1>2, <1>3, <1>8

\* What the later phases leave alone.
LEMMA LateFrame ==
  ASSUME DataInv, step \in Settling, step' \in Settling, setup' = setup, orders' = orders,
         batches' = batches, files'.ledger = files.ledger, Victims' = Victims
  PROVE  LedgerMade' /\ OrdersPlaced'
<1>1. LedgerMade'
  BY DEF DataInv, LedgerMade, Settling
<1>2. Listed1to1'
  BY DEF Listed1to1, Listing, Settling
<1>3. FewBatches'
  BY DEF DataInv, OrdersPlaced, FewBatches
<1>4. PlacedOnce'
  BY DEF DataInv, OrdersPlaced, PlacedOnce
<1>5. NoneLost'
  <2>1. NoneLost /\ step # "orders" /\ step' # "orders"
    BY DEF DataInv, OrdersPlaced, Settling
  <2>2. \A id : Placed(id) => Placed(id)'
    BY DEF Placed
  <2> QED BY <2>1, <2>2, Zenon DEF NoneLost
<1> QED BY <1>1, <1>2, <1>3, <1>4, <1>5 DEF OrdersPlaced

NoneOf(rows, utr) == \A k \in DOMAIN rows : rows[k].settlement_utr # utr
AllOf(rows, utr) == \A k \in DOMAIN rows : rows[k].settlement_utr = utr

\* Rows of other UTRs change nothing of the batch of a UTR.
LEMMA UnderStays ==
  ASSUME NEW file \in Seq(SettlementRow), NEW rows \in Seq(SettlementRow), NEW c, NoneOf(rows, c)
  PROVE  /\ IdsUnder(file \o rows, c) = IdsUnder(file, c)
         /\ Net(file \o rows, Under(file \o rows, c)) = Net(file, Under(file, c))
<1>1. PICK new : new = file \o rows
  OBVIOUS
<1>2. PICK a \in Nat, m \in Nat : Behind(new, file, rows, a, m)
  BY <1>1, AddedBehind
<1>3. Under(new, c) = Under(file, c)
  <2>1. ASSUME NEW i \in DOMAIN new
        PROVE  new[i].settlement_utr = c <=> (i \in 1..a /\ file[i].settlement_utr = c)
    <3>1. CASE i \in 1..a
      BY <1>2, <3>1 DEF Behind
    <3>2. CASE i \notin 1..a
      <4>1. i - a \in 1..m /\ new[a + (i - a)] = rows[i - a] /\ i = a + (i - a)
        BY <1>2, <2>1, <3>2 DEF Behind
      <4> QED BY <1>2, <3>2, <4>1 DEF Behind, NoneOf
    <3> QED BY <3>1, <3>2
  <2>2. 1..a \subseteq DOMAIN new /\ DOMAIN file = 1..a
    BY <1>2 DEF Behind
  <2> QED BY <2>1, <2>2 DEF Under, SpelledGroup
<1>4. \A i \in Under(file, c) : i \in 1..a /\ i \in DOMAIN file /\ new[i] = file[i]
  BY <1>2 DEF Under, SpelledGroup, Behind
<1>5. IdsUnder(new, c) = IdsUnder(file, c)
  <2>1. \A i \in Under(file, c) : new[i].settlement_id = file[i].settlement_id
    BY <1>4
  <2> QED BY <1>3, <2>1 DEF IdsUnder
<1>6. Net(new, Under(file, c)) = Net(file, Under(file, c))
  <2>1. PICK S : S = Under(file, c)
    OBVIOUS
  <2>2. S \in SUBSET Nat /\ IsFiniteSet(S)
    <3>1. IsFiniteSet(DOMAIN file) /\ DOMAIN file = 1..Len(file)
      BY PositionsFinite
    <3>2. S \subseteq DOMAIN file
      BY <2>1 DEF Under, SpelledGroup
    <3> QED BY <3>1, <3>2, FS_Subset
  <2>3. \A i \in S : RowNet(file[i]) \in Int /\ new[i] = file[i]
    <3>1. \A i \in DOMAIN file : file[i] \in SettlementRow
      OBVIOUS
    <3> QED BY <1>4, <2>1, <3>1, RowFields
  <2>4. Net(new, S) = Net(file, S)
    BY <2>2, <2>3, NetStays
  <2> QED BY <2>1, <2>4
<1> QED BY <1>1, <1>3, <1>5, <1>6

\* The batch of a UTR nothing was settled under is what is added for it.
LEMMA UnderAdded ==
  ASSUME NEW file \in Seq(SettlementRow), NEW rows \in Seq(SettlementRow), NEW c,
         NoneOf(file, c), AllOf(rows, c)
  PROVE  /\ IdsUnder(file \o rows, c) = {rows[k].settlement_id : k \in DOMAIN rows}
         /\ Net(file \o rows, Under(file \o rows, c)) = Net(rows, DOMAIN rows)
<1>1. PICK new : new = file \o rows
  OBVIOUS
<1>2. PICK a \in Nat, m \in Nat : Behind(new, file, rows, a, m)
  BY <1>1, AddedBehind
<1>3. Under(new, c) = Moved(DOMAIN rows, a)
  <2>1. ASSUME NEW i \in DOMAIN new
        PROVE  new[i].settlement_utr = c <=> i \notin 1..a
    <3>1. CASE i \in 1..a
      BY <1>2, <3>1 DEF Behind, NoneOf
    <3>2. CASE i \notin 1..a
      <4>1. i - a \in 1..m /\ new[a + (i - a)] = rows[i - a] /\ i = a + (i - a)
        BY <1>2, <2>1, <3>2 DEF Behind
      <4> QED BY <1>2, <3>2, <4>1 DEF Behind, AllOf
    <3> QED BY <3>1, <3>2
  <2>2. DOMAIN new = 1..(a + m) /\ DOMAIN rows = 1..m
    BY <1>2 DEF Behind
  <2>3. \A i \in 1..(a + m) : i \notin 1..a => i - a \in 1..m /\ i = a + (i - a)
    OBVIOUS
  <2>4. \A k \in 1..m : a + k \in 1..(a + m) /\ a + k \notin 1..a
    OBVIOUS
  <2>5. Under(new, c) = {i \in 1..(a + m) : i \notin 1..a}
    BY <2>1, <2>2 DEF Under, SpelledGroup
  <2>6. {i \in 1..(a + m) : i \notin 1..a} = {a + k : k \in 1..m}
    BY <2>3, <2>4
  <2> QED BY <2>2, <2>5, <2>6 DEF Moved
<1>4. \A k \in DOMAIN rows : new[a + k] = rows[k]
  BY <1>2 DEF Behind
<1>5. IdsUnder(new, c) = {rows[k].settlement_id : k \in DOMAIN rows}
  BY <1>3, <1>4 DEF IdsUnder, Moved
<1>6. Net(new, Moved(DOMAIN rows, a)) = Net(rows, DOMAIN rows)
  <2>1. PICK S : S = DOMAIN rows
    OBVIOUS
  <2>2. S \in SUBSET Nat /\ IsFiniteSet(S)
    <3>1. IsFiniteSet(DOMAIN rows) /\ DOMAIN rows = 1..Len(rows)
      BY PositionsFinite
    <3> QED BY <2>1, <3>1
  <2>3. \A k \in S : RowNet(rows[k]) \in Int /\ RowNet(new[a + k]) = RowNet(rows[k])
    <3>1. \A k \in DOMAIN rows : rows[k] \in SettlementRow
      OBVIOUS
    <3> QED BY <1>4, <2>1, <3>1, RowFields
  <2>4. Net(new, Moved(S, a)) = Net(rows, S)
    BY <2>2, <2>3, NetMoves
  <2> QED BY <2>1, <2>4
<1> QED BY <1>1, <1>3, <1>5, <1>6

\* Rows of the settled batches are under the UTRs of those batches.
LEMMA MadeUnder ==
  ASSUME NEW file, NEW bs, NEW built \in Nat, NEW first, NEW c, c \notin 1..built,
         AllMade(file, bs, built, first, 0)
  PROVE  NoneOf(file, c)
<1> SUFFICES ASSUME NEW r \in DOMAIN file, file[r].settlement_utr = c PROVE FALSE
  BY DEF NoneOf
<1>1. IsMade(file[r], bs, built, first, 0)
  BY DEF AllMade
<1>2. \A i : i \notin 1..0
  OBVIOUS
<1>3. \E b \in 1..built : file[r].settlement_utr = b
  BY <1>1, <1>2 DEF IsMade, OfOrder
<1> QED BY <1>3

\* Rows that are made stay made when more is settled.
LEMMA StillMade ==
  ASSUME NEW row, NEW bs, NEW built \in Nat, NEW built2 \in Nat, built <= built2,
         NEW first, NEW pairs \in Nat, NEW pairs2 \in Nat, pairs <= pairs2,
         IsMade(row, bs, built, first, pairs)
  PROVE  IsMade(row, bs, built2, first, pairs2)
<1>1. \A b \in 1..built : b \in 1..built2
  OBVIOUS
<1>2. \A i \in 1..pairs : i \in 1..pairs2
  OBVIOUS
<1>3. CASE \E b \in 1..built : \E o \in DOMAIN bs[b] : \E kind \in Kinds :
             OfOrder(row, b, o, bs[b][o], kind)
  BY <1>1, <1>3, Zenon DEF IsMade
<1>4. CASE \E i \in 1..pairs : \E twin \in {"a", "b"} : OfTwin(row, first, i, twin)
  BY <1>2, <1>4, Zenon DEF IsMade
<1> QED BY <1>3, <1>4 DEF IsMade

\* While batches are settled the bank file has one credit for each that has been.
LEMMA BuiltSoFar ==
  ASSUME DataInv, step = "settle"
  PROVE  /\ Built = Len(files.bank) /\ Strays = 0 /\ Pairs = 0 /\ Built \in Nat
         /\ files.bank \in Seq(BankRow) /\ files.settlement \in Seq(SettlementRow)
         /\ setup.bank_only \in Nat /\ setup.unresolvable \in Nat /\ Len(batches) \in Nat
<1>1. /\ setup \in Setups /\ batches \in Seq(Seq(Order(setup.n_orders)) \ {<<>>})
      /\ files \in [bank : Seq(BankRow), settlement : Seq(SettlementRow), ledger : Seq(LedgerRow)]
  BY DEF DataInv, DataTypes
<1>2. files.bank \in Seq(BankRow) /\ files.settlement \in Seq(SettlementRow)
  BY <1>1
<1>3. Built = Len(files.bank) /\ Strays = 0 /\ Pairs = 0
  BY DEF Built, Strays, Pairs
<1>4. Len(files.bank) \in Nat /\ Len(batches) \in Nat
  BY <1>1, <1>2
<1> QED BY <1>1, <1>2, <1>3, <1>4, SetupFacts

\* Settling a batch keeps every row of the orders settled before, and adds the rows of
\* its own under new identifiers.
LEMMA BatchRowsKept ==
  ASSUME DataInv, UNCHANGED <<setup, step, orders, batches, assigned>>,
         NEW b, NEW rows, NEW credit, Settled(b, rows, credit)
  PROVE  RowsSettled'
<1>1. PICK built \in Nat : built = Built /\ built = Len(files.bank) /\ b = built + 1
  BY BuiltSoFar DEF Settled
<1>2. PICK file, new : file = files.settlement /\ new = file \o rows
  OBVIOUS
<1>3. file \in Seq(SettlementRow) /\ rows \in Seq(SettlementRow) /\ files.bank \in Seq(BankRow)
  BY <1>2, BuiltSoFar DEF Settled
<1>4. PICK a \in Nat, m \in Nat : Behind(new, file, rows, a, m)
  BY <1>2, <1>3, AddedBehind
<1>5. files'.settlement = new /\ files'.bank = Append(files.bank, credit)
      /\ Len(files'.bank) = b
  <2>1. /\ files' = [files EXCEPT !.settlement = files.settlement \o rows,
                                  !.bank = Append(files.bank, credit)]
        /\ credit \in BankRow
    BY DEF Settled
  <2>2. files \in [bank : Seq(BankRow), settlement : Seq(SettlementRow), ledger : Seq(LedgerRow)]
    BY DEF DataInv, DataTypes
  <2>3. files'.settlement = new /\ files'.bank = Append(files.bank, credit)
    BY <1>2, <2>1, <2>2
  <2>4. Len(Append(files.bank, credit)) = Len(files.bank) + 1
    BY <1>3, <2>1, AppendProperties
  <2> QED BY <1>1, <2>3, <2>4
<1>6. Built' = b /\ Strays' = 0 /\ Pairs' = 0 /\ step = "settle"
  BY <1>5 DEF Settled, Built, Strays, Pairs
<1>7. PICK first, bs : first = Len(batches) + setup.bank_only /\ bs = batches
  OBVIOUS
<1>8. /\ AllMade(file, bs, built, first, 0) /\ IdsOnce(file) /\ AllPaid(file, bs, built)
  <2>1. Pairs = 0
    BY <1>6, BuiltSoFar
  <2> QED BY <1>1, <1>2, <1>7, <2>1 DEF DataInv, RowsSettled
<1>9. ASSUME NEW k \in 1..m
      PROVE  \E o \in DOMAIN bs[b] : \E kind \in Kinds :
               RowOf(rows[k], b, o, bs[b][o], kind) /\ OfOrder(rows[k], b, o, bs[b][o], kind)
  <2>1. k \in DOMAIN rows
    BY <1>4 DEF Behind
  <2>2. PICK o \in DOMAIN bs[b] : \E kind \in Kinds : RowOf(rows[k], b, o, bs[b][o], kind)
    BY <1>7, <2>1 DEF Settled
  <2>3. PICK kind \in Kinds : RowOf(rows[k], b, o, bs[b][o], kind)
    BY <2>2
  <2>4. OfOrder(rows[k], b, o, bs[b][o], kind)
    BY <2>3 DEF RowOf, OfOrder
  <2> QED BY <2>3, <2>4
<1>10. ASSUME NEW i \in 1..(a + m)
       PROVE  \/ i \in 1..a /\ i \in DOMAIN file /\ new[i] = file[i]
              \/ i \notin 1..a /\ i - a \in 1..m /\ new[i] = rows[i - a]
  <2>1. CASE i \in 1..a
    BY <1>4, <2>1 DEF Behind
  <2>2. CASE i \notin 1..a
    <3>1. i - a \in 1..m /\ i = a + (i - a)
      BY <2>2
    <3>2. new[a + (i - a)] = rows[i - a]
      BY <1>4, <3>1 DEF Behind
    <3> QED BY <2>2, <3>1, <3>2
  <2> QED BY <2>1, <2>2
<1>11. DOMAIN new = 1..(a + m) /\ DOMAIN file = 1..a /\ DOMAIN rows = 1..m
  BY <1>4 DEF Behind
<1>12. AllMade(new, bs, b, first, 0)
  <2> SUFFICES ASSUME NEW i \in 1..(a + m) PROVE IsMade(new[i], bs, b, first, 0)
    BY <1>11 DEF AllMade
  <2>1. CASE i \in 1..a /\ i \in DOMAIN file /\ new[i] = file[i]
    <3>1. IsMade(file[i], bs, built, first, 0)
      BY <1>8, <2>1 DEF AllMade
    <3>2. built <= b /\ b \in Nat
      BY <1>1
    <3> QED BY <2>1, <3>1, <3>2, StillMade
  <2>2. CASE i - a \in 1..m /\ new[i] = rows[i - a]
    <3>1. PICK o \in DOMAIN bs[b] : \E kind \in Kinds : OfOrder(rows[i - a], b, o, bs[b][o], kind)
      BY <1>9, <2>2
    <3>2. b \in 1..b
      BY <1>1
    <3> QED BY <2>2, <3>1, <3>2, Zenon DEF IsMade
  <2> QED BY <1>10, <2>1, <2>2
<1>13. IdsOnce(new)
  <2> SUFFICES ASSUME NEW i \in 1..(a + m), NEW j \in 1..(a + m),
                      new[i].settlement_id = new[j].settlement_id
               PROVE  i = j
    BY <1>11 DEF IdsOnce
  <2>1. ASSUME NEW k \in 1..a
        PROVE  \A l \in 1..m : file[k].settlement_id # rows[l].settlement_id
    <3> SUFFICES ASSUME NEW l \in 1..m, file[k].settlement_id = rows[l].settlement_id
                 PROVE  FALSE
      OBVIOUS
    <3>1. IsMade(file[k], bs, built, first, 0)
      BY <1>8, <1>11 DEF AllMade
    <3>2. \A x : x \notin 1..0
      OBVIOUS
    <3>3. PICK c \in 1..built : \E o \in DOMAIN bs[c] : \E kind \in Kinds :
             OfOrder(file[k], c, o, bs[c][o], kind)
      BY <3>1, <3>2 DEF IsMade
    <3>4. PICK o, kind : file[k].settlement_id = <<kind, c, o>>
      BY <3>3 DEF OfOrder
    <3>5. PICK p, kind2 : rows[l].settlement_id = <<kind2, b, p>>
      BY <1>9 DEF OfOrder
    <3>6. c = b
      <4>1. <<kind, c, o>> = <<kind2, b, p>>
        BY <3>4, <3>5, Zenon
      <4> QED BY <4>1
    <3> QED BY <1>1, <3>6
  <2>2. CASE i \in 1..a /\ j \in 1..a
    BY <1>8, <1>10, <1>11, <2>2 DEF IdsOnce
  <2>3. CASE i \notin 1..a /\ j \notin 1..a
    <3>1. i - a \in DOMAIN rows /\ j - a \in DOMAIN rows
          /\ rows[i - a].settlement_id = rows[j - a].settlement_id
      BY <1>10, <1>11, <2>3
    <3>2. i - a = j - a
      BY <3>1 DEF Settled
    <3> QED BY <3>2
  <2>4. CASE i \in 1..a /\ j \notin 1..a
    BY <1>10, <2>1, <2>4
  <2>5. CASE i \notin 1..a /\ j \in 1..a
    BY <1>10, <2>1, <2>5
  <2> QED BY <2>2, <2>3, <2>4, <2>5
<1>14. AllPaid(new, bs, b)
  <2> SUFFICES ASSUME NEW c \in 1..b, NEW o \in DOMAIN bs[c]
               PROVE  \E r \in 1..(a + m) : OfOrder(new[r], c, o, bs[c][o], "pay")
    BY <1>11, Zenon DEF AllPaid
  <2>1. CASE c \in 1..built
    <3>1. PICK r \in DOMAIN file : OfOrder(file[r], c, o, bs[c][o], "pay")
      BY <1>8, <2>1, Zenon DEF AllPaid
    <3>2. r \in 1..(a + m) /\ new[r] = file[r]
      BY <1>4, <1>11 DEF Behind
    <3> QED BY <3>1, <3>2
  <2>2. CASE c = b
    <3>1. PICK k \in DOMAIN rows : RowOf(rows[k], b, o, bs[b][o], "pay")
      BY <1>7, <2>2, Zenon DEF Settled
    <3>2. a + k \in 1..(a + m) /\ new[a + k] = rows[k]
      BY <1>4, <1>11 DEF Behind
    <3>3. OfOrder(rows[k], b, o, bs[b][o], "pay")
      BY <3>1 DEF RowOf, OfOrder
    <3> QED BY <2>2, <3>2, <3>3
  <2>3. c \in 1..built \/ c = b
    BY <1>1
  <2> QED BY <2>1, <2>2, <2>3
<1>15. b <= Len(batches) /\ Len(files'.bank) = b + 0 + 0
  BY <1>1, <1>5, BuiltSoFar, <1>6 DEF Settled
<1>16. batches' = bs /\ Len(batches') + setup'.bank_only = first /\ Len(batches') = Len(batches)
  BY <1>7
<1> QED BY <1>5, <1>6, <1>12, <1>13, <1>14, <1>15, <1>16 DEF RowsSettled

\* A credit and a batch more do not change what is true of the earlier ones.
LEMMA TruthStays ==
  ASSUME NEW f, NEW g, NEW built \in Nat, NEW built2 \in Nat, built <= built2,
         \A c \in 1..built :
           /\ IdsUnder(g.settlement, c) = IdsUnder(f.settlement, c)
           /\ Net(g.settlement, Under(g.settlement, c)) = Net(f.settlement, Under(f.settlement, c))
           /\ g.bank[c] = f.bank[c]
  PROVE  /\ \A m : IsExpected(m, f, built) => IsExpected(m, g, built2)
         /\ \A e, strays : IsPlanted(e, f, built, 0) => IsPlanted(e, g, built2, strays)
<1>1. \A c \in 1..built : c \in 1..built2
  OBVIOUS
<1>2. ASSUME NEW m, IsExpected(m, f, built) PROVE IsExpected(m, g, built2)
  <2>1. m.row \in 1..built
    BY <1>2 DEF IsExpected
  <2> QED BY <1>1, <1>2, <2>1 DEF IsExpected
<1>3. ASSUME NEW e, NEW strays, IsPlanted(e, f, built, 0) PROVE IsPlanted(e, g, built2, strays)
  <2>1. e.row = NoRow \/ (e.row \in 1..built /\ Range(e.ids) = IdsUnder(f.settlement, e.row)
                            /\ e.label \in BatchDefects \cup {"UNEXPLAINED"})
    <3>1. \A i : i \notin (built + 1)..(built + 0)
      OBVIOUS
    <3> QED BY <1>3, <3>1 DEF IsPlanted
  <2> QED BY <1>1, <2>1 DEF IsPlanted
<1> QED BY <1>2, <1>3

\* Settling a batch keeps what the ground truth says of the credits before it, and says
\* of its own credit, once, what is true of it.
LEMMA BatchTruthKept ==
  ASSUME DataInv, UNCHANGED <<setup, step, orders, batches, assigned>>,
         NEW b, NEW rows, NEW credit, Settled(b, rows, credit)
  PROVE  /\ Truthful' /\ IsTruth(truth') /\ Victims' = Victims
         /\ truth'.unresolvable = {}
<1>1. PICK built \in Nat : built = Built /\ built = Len(files.bank) /\ b = built + 1
  BY BuiltSoFar DEF Settled
<1>2. PICK file, new : file = files.settlement /\ new = file \o rows
  OBVIOUS
<1>3. file \in Seq(SettlementRow) /\ rows \in Seq(SettlementRow) /\ files.bank \in Seq(BankRow)
  BY <1>2, BuiltSoFar DEF Settled
<1>4. /\ files'.settlement = new /\ Len(files'.bank) = b /\ DOMAIN files'.bank = 1..b
      /\ files'.bank[b] = credit /\ \A c \in 1..built : files'.bank[c] = files.bank[c]
  <2>1. /\ files' = [files EXCEPT !.settlement = files.settlement \o rows,
                                  !.bank = Append(files.bank, credit)]
        /\ credit \in BankRow
    BY DEF Settled
  <2>2. files \in [bank : Seq(BankRow), settlement : Seq(SettlementRow), ledger : Seq(LedgerRow)]
    BY DEF DataInv, DataTypes
  <2>3. files'.settlement = new /\ files'.bank = Append(files.bank, credit)
    BY <1>2, <2>1, <2>2
  <2>4. /\ files'.bank \in Seq(BankRow) /\ Len(files'.bank) = b /\ files'.bank[b] = credit
        /\ \A c \in 1..built : files'.bank[c] = files.bank[c]
    BY <1>1, <1>3, <2>1, <2>3, AppendProperties
  <2>5. DOMAIN files'.bank = 1..b
    <3>1. PICK bank2 : bank2 = files'.bank
      OBVIOUS
    <3>2. bank2 \in Seq(BankRow) /\ Len(bank2) = b
      BY <2>4, <3>1
    <3>3. DOMAIN bank2 = 1..b
      BY <3>2
    <3> QED BY <3>1, <3>3
  <2> QED BY <2>3, <2>4, <2>5
<1>5. Built' = b /\ Strays' = 0 /\ step = "settle" /\ step' = "settle" /\ Strays = 0 /\ Pairs = 0
  BY <1>4, BuiltSoFar DEF Settled, Built, Strays
<1>6. AllOf(rows, b)
  <2> SUFFICES ASSUME NEW k \in DOMAIN rows PROVE rows[k].settlement_utr = b
    BY DEF AllOf
  <2>1. \E o, order, kind : RowOf(rows[k], b, o, order, kind)
    BY DEF Settled
  <2> QED BY <2>1 DEF RowOf
<1>7. NoneOf(file, b)
  <2>1. b \notin 1..built
    BY <1>1
  <2>2. \E first : AllMade(file, batches, built, first, 0)
    BY <1>1, <1>2, <1>5 DEF DataInv, RowsSettled
  <2> QED BY <2>1, <2>2, MadeUnder
<1>8. /\ IdsUnder(new, b) = {rows[k].settlement_id : k \in DOMAIN rows}
      /\ Net(new, Under(new, b)) = Net(rows, DOMAIN rows)
  BY <1>2, <1>3, <1>6, <1>7, UnderAdded
<1>9. \A c \in 1..built :
        /\ IdsUnder(files'.settlement, c) = IdsUnder(files.settlement, c)
        /\ Net(files'.settlement, Under(files'.settlement, c))
             = Net(files.settlement, Under(files.settlement, c))
        /\ files'.bank[c] = files.bank[c]
  <2> SUFFICES ASSUME NEW c \in 1..built
               PROVE  /\ IdsUnder(new, c) = IdsUnder(file, c)
                      /\ Net(new, Under(new, c)) = Net(file, Under(file, c))
    BY <1>2, <1>4
  <2>1. NoneOf(rows, c)
    BY <1>1, <1>6 DEF AllOf, NoneOf
  <2> QED BY <1>2, <1>3, <2>1, UnderStays
<1>10. /\ \A m : IsExpected(m, files, built) => IsExpected(m, files', b)
       /\ \A e, strays : IsPlanted(e, files, built, 0) => IsPlanted(e, files', b, strays)
  <2>1. PICK f, g : f = files /\ g = files'
    OBVIOUS
  <2>2. \A c \in 1..built :
           /\ IdsUnder(g.settlement, c) = IdsUnder(f.settlement, c)
           /\ Net(g.settlement, Under(g.settlement, c)) = Net(f.settlement, Under(f.settlement, c))
           /\ g.bank[c] = f.bank[c]
    BY <1>9, <2>1
  <2>3. b \in Nat /\ built <= b
    BY <1>1
  <2>4. /\ \A m : IsExpected(m, f, built) => IsExpected(m, g, b)
        /\ \A e, strays : IsPlanted(e, f, built, 0) => IsPlanted(e, g, b, strays)
    BY <2>2, <2>3, TruthStays
  <2> QED BY <2>1, <2>4
<1>11. /\ \A m \in truth.expected : IsExpected(m, files, built) /\ m.row \in 1..built
       /\ \A e \in truth.planted : IsPlanted(e, files, built, 0) /\ (e.row = NoRow \/ e.row \in 1..built)
       /\ truth.unresolvable = {} /\ \A c \in 1..built : ToldOnce(truth, c)
       /\ IsTruth(truth)
  <2>1. Truthful /\ IsTruth(truth)
    BY DEF DataInv, DataTypes
  <2>2. \A m \in truth.expected : IsExpected(m, files, built) /\ m.row \in 1..built
    BY <1>1, <2>1 DEF Truthful, IsExpected
  <2>3. \A e \in truth.planted : IsPlanted(e, files, built, 0)
    BY <1>1, <1>5, <2>1 DEF Truthful
  <2>4. \A i : i \notin (built + 1)..(built + 0)
    OBVIOUS
  <2>5. \A e \in truth.planted : e.row = NoRow \/ e.row \in 1..built
    BY <2>3, <2>4 DEF IsPlanted
  <2>6. truth.unresolvable = {} /\ \A c \in 1..built : ToldOnce(truth, c)
    BY <1>1, <1>3, <1>5, <2>1 DEF Truthful
  <2> QED BY <2>1, <2>2, <2>3, <2>5, <2>6
<1>12. PICK ids : ids = [k \in DOMAIN rows |-> rows[k].settlement_id]
  OBVIOUS
<1>13. Range(ids) = IdsUnder(new, b)
  BY <1>8, <1>12 DEF Range
<1>14. assigned[b] \in BatchDefects \cup {"NONE"}
  <2>1. /\ assigned \in [DOMAIN batches -> BatchDefects \cup {"NONE"}]
        /\ batches \in Seq(Seq(Order(setup.n_orders)) \ {<<>>})
    BY <1>5 DEF DataInv, DataTypes, Settling
  <2>2. b \in DOMAIN batches
    BY <2>1 DEF Settled
  <2> QED BY <2>1, <2>2
<1>15. OfRow(truth.expected, b) = {} /\ OfRow(truth.planted, b) = {} /\ OfRow(truth.unresolvable, b) = {}
  <2>1. b # NoRow /\ b \notin 1..built
    BY <1>1 DEF NoRow
  <2> QED BY <1>11, <2>1 DEF OfRow
<1>16. b \in 1..b /\ \A c \in 1..b : c # b => c \in 1..built
  BY <1>1
<1>17. PICK orderIds : orderIds = {batches[b][o].order_id : o \in DOMAIN batches[b]}
  OBVIOUS
<1>18. CASE assigned[b] = "NONE"
  <2>1. PICK x : x = [row |-> b, utr |-> b, ids |-> ids, orders |-> orderIds]
    OBVIOUS
  <2>2. truth' = [truth EXCEPT !.expected = truth.expected \cup {x}]
    <3>1. truth' = Recorded(assigned[b], b, b, rows, batches[b])
      BY DEF Settled
    <3> QED BY <1>12, <1>17, <1>18, <2>1, <3>1 DEF Recorded
  <2>3. /\ truth'.expected = truth.expected \cup {x} /\ truth'.planted = truth.planted
        /\ truth'.unresolvable = {} /\ IsTruth(truth')
    BY <1>11, <2>2 DEF IsTruth
  <2>4. IsExpected(x, files', b)
    <3>1. /\ x.row = b /\ x.utr = b /\ x.ids = ids
      BY <2>1
    <3>2. credit.credit = Net(rows, DOMAIN rows)
      BY <1>18 DEF Settled
    <3> QED BY <1>4, <1>8, <1>13, <1>16, <3>1, <3>2 DEF IsExpected
  <2>5. \A m \in truth'.expected : IsExpected(m, files', Built')
    BY <1>5, <1>10, <1>11, <2>3, <2>4
  <2>6. \A e \in truth'.planted : IsPlanted(e, files', Built', Strays')
    BY <1>5, <1>10, <1>11, <2>3
  <2>7. ASSUME NEW c \in 1..b PROVE ToldOnce(truth', c)
    <3>1. CASE c = b
      <4>1. OfRow(truth'.expected, b) = {x}
        BY <1>15, <2>1, <2>3 DEF OfRow
      <4> QED BY <1>11, <1>15, <2>3, <3>1, <4>1 DEF ToldOnce, IsOne
    <3>2. CASE c # b
      <4>1. OfRow(truth'.expected, c) = OfRow(truth.expected, c)
        <5>1. x.row # c
          BY <2>1, <3>2
        <5> QED BY <2>3, <5>1 DEF OfRow
      <4>2. ToldOnce(truth, c)
        BY <1>11, <1>16, <3>2
      <4> QED BY <1>11, <2>3, <4>1, <4>2 DEF ToldOnce
    <3> QED BY <3>1, <3>2
  <2>8. Truthful'
    BY <1>4, <1>5, <2>3, <2>5, <2>6, <2>7 DEF Truthful
  <2>9. Victims' = Victims
    BY <2>3 DEF Victims
  <2> QED BY <2>3, <2>8, <2>9
<1>19. CASE assigned[b] # "NONE"
  <2>0. PICK label : label = IF assigned[b] = "UNEXPLAINED_RESIDUAL" THEN "UNEXPLAINED" ELSE assigned[b]
    OBVIOUS
  <2>1. PICK x : x = Planted(label, b, ids, {})
    OBVIOUS
  <2>2. truth' = [truth EXCEPT !.planted = truth.planted \cup {x}]
    <3>1. truth' = Recorded(assigned[b], b, b, rows, batches[b])
      BY DEF Settled
    <3> QED BY <1>12, <1>17, <1>19, <2>0, <2>1, <3>1 DEF Recorded
  <2>3. /\ truth'.planted = truth.planted \cup {x} /\ truth'.expected = truth.expected
        /\ truth'.unresolvable = {} /\ IsTruth(truth')
    BY <1>11, <2>2 DEF IsTruth
  <2>3a. x.row = b /\ x.ids = ids /\ x.label = label /\ label \in BatchDefects \cup {"UNEXPLAINED"}
    BY <1>14, <1>19, <2>0, <2>1 DEF Planted
  <2>4. IsPlanted(x, files', b, 0)
    BY <1>4, <1>13, <1>16, <2>3a DEF IsPlanted
  <2>5. \A m \in truth'.expected : IsExpected(m, files', Built')
    BY <1>5, <1>10, <1>11, <2>3
  <2>6. \A e \in truth'.planted : IsPlanted(e, files', Built', Strays')
    BY <1>5, <1>10, <1>11, <2>3, <2>4
  <2>7. ASSUME NEW c \in 1..b PROVE ToldOnce(truth', c)
    <3>1. CASE c = b
      <4>1. OfRow(truth'.planted, b) = {x}
        BY <1>15, <2>3, <2>3a DEF OfRow
      <4> QED BY <1>11, <1>15, <2>3, <3>1, <4>1 DEF ToldOnce, IsOne
    <3>2. CASE c # b
      <4>1. OfRow(truth'.planted, c) = OfRow(truth.planted, c)
        <5>1. x.row # c
          BY <2>3a, <3>2
        <5> QED BY <2>3, <5>1 DEF OfRow
      <4>2. ToldOnce(truth, c)
        BY <1>11, <1>16, <3>2
      <4> QED BY <1>11, <2>3, <4>1, <4>2 DEF ToldOnce
    <3> QED BY <3>1, <3>2
  <2>8. Truthful'
    BY <1>4, <1>5, <2>3, <2>5, <2>6, <2>7 DEF Truthful
  <2>9. Victims' = Victims
    <3>1. x.label # "LEDGER_ONLY"
      BY <2>3a DEF BatchDefects
    <3>2. {p \in truth'.planted : p.label = "LEDGER_ONLY"} = {p \in truth.planted : p.label = "LEDGER_ONLY"}
      BY <2>3, <3>1
    <3> QED BY <3>2, Zenon DEF Victims
  <2> QED BY <2>3, <2>8, <2>9
<1> QED BY <1>18, <1>19

\* A settled batch keeps the invariant.
LEMMA BuildBatchKeeps == DataInv /\ BuildBatch => DataInv'
<1> SUFFICES ASSUME DataInv, BuildBatch PROVE DataInv'
  OBVIOUS
<1>1. UNCHANGED <<setup, step, orders, batches, assigned>>
  BY Zenon DEF BuildBatch
<1>2. PICK b, rows, credit : Settled(b, rows, credit)
  BY BuildBatchFacts
<1>3. RowsSettled'
  BY <1>1, <1>2, BatchRowsKept
<1>4. Truthful' /\ IsTruth(truth') /\ Victims' = Victims /\ truth'.unresolvable = {}
  BY <1>1, <1>2, BatchTruthKept
<1>5. /\ step = "settle" /\ credit \in BankRow /\ credit.credit \in Int
      /\ rows \in Seq(SettlementRow)
      /\ files' = [files EXCEPT !.settlement = files.settlement \o rows,
                                !.bank = Append(files.bank, credit)]
  BY <1>2 DEF Settled
<1>6. files \in [bank : Seq(BankRow), settlement : Seq(SettlementRow), ledger : Seq(LedgerRow)]
  BY DEF DataInv, DataTypes
<1>7. PICK bank2 : bank2 = Append(files.bank, credit)
  OBVIOUS
<1>8. PICK rows2 : rows2 = files.settlement \o rows
  OBVIOUS
<1>9. /\ bank2 \in Seq(BankRow) /\ Len(bank2) = Len(files.bank) + 1
      /\ bank2[Len(files.bank) + 1] = credit
      /\ \A c \in 1..Len(files.bank) : bank2[c] = files.bank[c]
  BY <1>5, <1>6, <1>7, AppendProperties
<1>10. rows2 \in Seq(SettlementRow)
  BY <1>5, <1>6, <1>8, ConcatProperties
<1>11. /\ files' \in [bank : Seq(BankRow), settlement : Seq(SettlementRow), ledger : Seq(LedgerRow)]
       /\ files'.bank = bank2 /\ files'.ledger = files.ledger
  BY <1>5, <1>6, <1>7, <1>8, <1>9, <1>10
<1>12. \A c \in DOMAIN bank2 : bank2[c].credit \in Int
  <2>1. \A c \in 1..Len(files.bank) : files.bank[c].credit \in Int
    <3>1. \A c \in DOMAIN files.bank : files.bank[c].credit \in Int
      BY DEF DataInv, DataTypes
    <3>2. DOMAIN files.bank = 1..Len(files.bank)
      BY <1>6
    <3> QED BY <3>1, <3>2
  <2>2. \A c \in DOMAIN bank2 : c \in 1..Len(files.bank) \/ c = Len(files.bank) + 1
    BY <1>6, <1>9
  <2> QED BY <1>5, <1>9, <2>1, <2>2
<1>13. DataTypes'
  BY <1>1, <1>4, <1>5, <1>11, <1>12 DEF DataInv, DataTypes, Settling, Listing
<1>14. LedgerMade' /\ OrdersPlaced'
  BY <1>1, <1>4, <1>5, <1>11, LateFrame DEF Settling
<1> QED BY <1>3, <1>4, <1>13, <1>14 DEF DataInv

\* The stray credits are told of once each, and have no rows.
LEMMA PlantBankOnlyKeeps == DataInv /\ PlantBankOnly => DataInv'
<1> SUFFICES ASSUME DataInv, PlantBankOnly PROVE DataInv'
  OBVIOUS
<1>1. PICK n \in Nat, built \in Nat : n = setup.bank_only /\ built = Built /\ built = Len(files.bank)
  BY BuiltSoFar DEF PlantBankOnly
<1>2. /\ step = "settle" /\ step' = "unresolvable" /\ built = Len(batches)
      /\ UNCHANGED <<setup, orders, batches, assigned>>
      /\ setup \in Setups
      /\ files \in [bank : Seq(BankRow), settlement : Seq(SettlementRow), ledger : Seq(LedgerRow)]
      /\ files.bank \in Seq(BankRow) /\ DOMAIN files.bank = 1..built
  <2>1. /\ setup \in Setups
        /\ files \in [bank : Seq(BankRow), settlement : Seq(SettlementRow), ledger : Seq(LedgerRow)]
    BY DEF DataInv, DataTypes
  <2>2. files.bank \in Seq(BankRow)
    BY <2>1
  <2>3. /\ step = "settle" /\ step' = "unresolvable" /\ built = Len(batches)
        /\ UNCHANGED <<setup, orders, batches, assigned>>
    BY <1>1 DEF PlantBankOnly
  <2>4. DOMAIN files.bank = 1..built
    BY <1>1, <2>2
  <2> QED BY <2>1, <2>2, <2>3, <2>4
<1>3. PICK amount \in [1..n -> setup.stray_amounts] :
        files' = [files EXCEPT !.bank = files.bank \o [i \in 1..n |->
             [narration |-> Narration("unknown", Len(files.bank) + i, 16), credit |-> amount[i],
              txn_date |-> Cutover]]]
  BY <1>1 DEF PlantBankOnly
<1>4. truth' = [truth EXCEPT !.planted = truth.planted \cup
           {Planted("BANK_ONLY", built + i, <<>>, {}) : i \in 1..n}]
  BY <1>1 DEF PlantBankOnly
<1>5. PICK added : added = [i \in 1..n |->
             [narration |-> Narration("unknown", built + i, 16), credit |-> amount[i],
              txn_date |-> Cutover]]
  OBVIOUS
<1>6. ASSUME NEW i \in 1..n PROVE added[i] \in BankRow /\ added[i].credit \in Int
  <2>1. amount[i] \in Int
    <3>1. amount[i] \in setup.stray_amounts
      BY <1>3
    <3> QED BY <1>2, <3>1, SetupAssumption DEF Within
  <2>2. Narration("unknown", built + i, 16) \in Narrations
    <3>1. built + i \in 1..(setup.n_orders + setup.bank_only + 2 * setup.unresolvable)
      <4>1. Len(batches) + Len(orders) <= setup.n_orders
        BY DEF DataInv, OrdersPlaced, FewBatches
      <4>2. Len(orders) \in Nat
        <5>1. orders \in Seq(Order(setup.n_orders))
          BY DEF DataInv, DataTypes
        <5> QED BY <5>1
      <4>3. setup.n_orders \in Nat /\ setup.unresolvable \in Nat
        BY <1>2, SetupFacts
      <4>4. PICK x \in Nat, y \in Nat : x = setup.n_orders /\ y = setup.unresolvable
        BY <4>3
      <4>5. built <= x
        BY <1>2, <4>1, <4>2, <4>4
      <4>6. built + i \in 1..(x + n + 2 * y)
        BY <4>5
      <4> QED BY <1>1, <4>4, <4>6
    <3> QED BY <1>2, <3>1, NameFacts
  <2>3. added[i] = [narration |-> Narration("unknown", built + i, 16), credit |-> amount[i],
                    txn_date |-> Cutover]
    BY <1>5
  <2> QED BY <2>1, <2>2, <2>3 DEF BankRow, Cutover
<1>7. added \in Seq(BankRow) /\ Len(added) = n
  <2>1. added \in [1..n -> BankRow]
    <3>1. added = [i \in 1..n |-> added[i]]
      BY <1>5
    <3> QED BY <1>6, <3>1
  <2> QED BY <2>1
<1>8. PICK bank2 : bank2 = files.bank \o added
  OBVIOUS
<1>9. /\ files'.bank = bank2 /\ files'.ledger = files.ledger /\ files'.settlement = files.settlement
      /\ files' \in [bank : Seq(BankRow), settlement : Seq(SettlementRow), ledger : Seq(LedgerRow)]
      /\ bank2 \in Seq(BankRow)
  <2>1. bank2 \in Seq(BankRow)
    BY <1>2, <1>7, <1>8, ConcatProperties
  <2>2. files' = [files EXCEPT !.bank = bank2]
    BY <1>1, <1>3, <1>5, <1>8
  <2> QED BY <1>2, <2>1, <2>2
<1>10. Behind(bank2, files.bank, added, built, n)
  BY <1>1, <1>2, <1>7, <1>8, AddedBehind
<1>11. /\ DOMAIN bank2 = 1..(built + n) /\ Len(bank2) = built + n
       /\ \A c \in 1..built : c \in 1..(built + n) /\ bank2[c] = files.bank[c]
       /\ \A i \in 1..n : bank2[built + i] = added[i]
       /\ \A c \in 1..(built + n) : c \notin 1..built => c - built \in 1..n /\ c = built + (c - built)
  <2>1. /\ DOMAIN bank2 = 1..(built + n)
        /\ \A c \in 1..built : c \in 1..(built + n) /\ bank2[c] = files.bank[c]
        /\ \A i \in 1..n : bank2[built + i] = added[i]
    BY <1>10 DEF Behind
  <2>2. Len(bank2) = built + n
    BY <1>9, <2>1
  <2> QED BY <2>1, <2>2
<1>12. Built' = built /\ Strays' = n /\ Pairs' = 0 /\ Strays = 0 /\ Pairs = 0
  BY <1>1, <1>2 DEF Built, Strays, Pairs
<1>13. PICK told : told = {Planted("BANK_ONLY", built + i, <<>>, {}) : i \in 1..n}
  OBVIOUS
<1>14. /\ truth'.planted = truth.planted \cup told /\ truth'.expected = truth.expected
       /\ truth'.unresolvable = truth.unresolvable /\ IsTruth(truth')
       /\ truth.unresolvable = {}
  <2>1. IsTruth(truth) /\ truth.unresolvable = {}
    BY <1>2 DEF DataInv, DataTypes, Truthful
  <2> QED BY <1>4, <1>13, <2>1 DEF IsTruth
<1>15. /\ \A e \in told : e.label = "BANK_ONLY" /\ e.row \in (built + 1)..(built + n)
       /\ \A i \in 1..n : OfRow(told, built + i) = {Planted("BANK_ONLY", built + i, <<>>, {})}
       /\ \A c \in 1..built : OfRow(told, c) = {}
  <2>1. \A i \in 1..n : built + i \in (built + 1)..(built + n)
    OBVIOUS
  <2>2. \A e \in told : e.label = "BANK_ONLY" /\ e.row \in (built + 1)..(built + n)
    BY <1>13, <2>1 DEF Planted
  <2>3. ASSUME NEW i \in 1..n
        PROVE  OfRow(told, built + i) = {Planted("BANK_ONLY", built + i, <<>>, {})}
    <3>1. \A j \in 1..n : Planted("BANK_ONLY", built + j, <<>>, {}).row = built + j
      BY DEF Planted
    <3>2. \A j \in 1..n : built + j = built + i => j = i
      OBVIOUS
    <3> QED BY <1>13, <3>1, <3>2 DEF OfRow
  <2>4. \A c \in 1..built : OfRow(told, c) = {}
    <3>1. \A c \in 1..built : c \notin (built + 1)..(built + n)
      OBVIOUS
    <3> QED BY <2>2, <3>1 DEF OfRow
  <2> QED BY <2>2, <2>3, <2>4
<1>16. /\ \A m \in truth.expected : m.row \in 1..built
       /\ \A e \in truth.planted : e.row = NoRow \/ e.row \in 1..built
       /\ \A e \in truth.planted : IsPlanted(e, files, built, 0)
       /\ \A m \in truth.expected : IsExpected(m, files, built)
       /\ \A c \in 1..built : ToldOnce(truth, c)
  <2>1. Truthful
    BY DEF DataInv
  <2>2. \A e \in truth.planted : IsPlanted(e, files, built, 0)
    BY <1>1, <1>12, <2>1 DEF Truthful
  <2>3. \A i : i \notin (built + 1)..(built + 0)
    OBVIOUS
  <2>4. \A m \in truth.expected : IsExpected(m, files, built)
    BY <1>1, <2>1 DEF Truthful
  <2>5. \A m \in truth.expected : m.row \in 1..built
    BY <2>4 DEF IsExpected
  <2>6. \A e \in truth.planted : e.row = NoRow \/ e.row \in 1..built
    BY <2>2, <2>3 DEF IsPlanted
  <2>7. \A c \in 1..built : ToldOnce(truth, c)
    BY <1>2, <2>1 DEF Truthful
  <2> QED BY <2>2, <2>4, <2>5, <2>6, <2>7
<1>17. /\ \A m : IsExpected(m, files, built) => IsExpected(m, files', built)
       /\ \A e, strays : IsPlanted(e, files, built, 0) => IsPlanted(e, files', built, strays)
  <2>1. PICK f, g : f = files /\ g = files'
    OBVIOUS
  <2>2. \A c \in 1..built :
           /\ IdsUnder(g.settlement, c) = IdsUnder(f.settlement, c)
           /\ Net(g.settlement, Under(g.settlement, c)) = Net(f.settlement, Under(f.settlement, c))
           /\ g.bank[c] = f.bank[c]
    BY <1>9, <1>11, <2>1
  <2>3. /\ \A m : IsExpected(m, f, built) => IsExpected(m, g, built)
        /\ \A e, strays : IsPlanted(e, f, built, 0) => IsPlanted(e, g, built, strays)
    <3>1. built <= built
      OBVIOUS
    <3> QED BY <2>2, <3>1, TruthStays
  <2> QED BY <2>1, <2>3
<1>18. Truthful'
  <2>1. \A m \in truth'.expected : IsExpected(m, files', Built')
    BY <1>12, <1>14, <1>16, <1>17
  <2>2. \A e \in truth'.planted : IsPlanted(e, files', Built', Strays')
    <3>1. \A e \in told : IsPlanted(e, files', built, n)
      BY <1>15 DEF IsPlanted
    <3> QED BY <1>12, <1>14, <1>16, <1>17, <3>1
  <2>3. ASSUME NEW c \in 1..(built + n) PROVE ToldOnce(truth', c)
    <3>1. CASE c \in 1..built
      <4>1. OfRow(truth'.planted, c) = OfRow(truth.planted, c)
        <5>1. OfRow(told, c) = {}
          BY <1>15, <3>1
        <5> QED BY <1>14, <5>1 DEF OfRow
      <4>2. ToldOnce(truth, c)
        BY <1>16, <3>1
      <4> QED BY <1>14, <4>1, <4>2 DEF ToldOnce
    <3>2. CASE c \notin 1..built
      <4>1. PICK i \in 1..n : c = built + i
        BY <1>11, <3>2
      <4>2. OfRow(told, c) = {Planted("BANK_ONLY", c, <<>>, {})}
        BY <1>15, <4>1
      <4>3. c # NoRow
        BY DEF NoRow
      <4>4. OfRow(truth'.planted, c) = OfRow(told, c)
        BY <1>14, <1>16, <3>2, <4>3 DEF OfRow
      <4>5. OfRow(truth'.expected, c) = {} /\ OfRow(truth'.unresolvable, c) = {}
        BY <1>14, <1>16, <3>2 DEF OfRow
      <4> QED BY <4>2, <4>4, <4>5, Zenon DEF ToldOnce, IsOne
    <3> QED BY <3>1, <3>2
  <2> QED BY <1>2, <1>9, <1>11, <1>14, <2>1, <2>2, <2>3 DEF Truthful
<1>19. Victims' = Victims
  <2>1. {p \in truth'.planted : p.label = "LEDGER_ONLY"} = {p \in truth.planted : p.label = "LEDGER_ONLY"}
    BY <1>14, <1>15
  <2> QED BY <2>1, Zenon DEF Victims
<1>20. RowsSettled'
  <2>1. RowsSettled
    BY DEF DataInv
  <2>2. /\ AllMade(files'.settlement, batches', Built', Len(batches') + setup'.bank_only, Pairs')
        /\ IdsOnce(files'.settlement) /\ AllPaid(files'.settlement, batches', Built')
    BY <1>1, <1>2, <1>9, <1>12, <2>1 DEF RowsSettled
  <2>3. Built' <= Len(batches') /\ Len(files'.bank) = Built' + Strays' + Pairs'
    BY <1>2, <1>9, <1>11, <1>12
  <2> QED BY <2>2, <2>3 DEF RowsSettled
<1>21. \A c \in DOMAIN bank2 : bank2[c].credit \in Int
  <2>1. \A c \in 1..built : files.bank[c].credit \in Int
    BY <1>2 DEF DataInv, DataTypes
  <2>2. ASSUME NEW c \in 1..(built + n) PROVE bank2[c].credit \in Int
    <3>1. CASE c \in 1..built
      BY <1>11, <2>1, <3>1
    <3>2. CASE c \notin 1..built
      <4>1. PICK i \in 1..n : c = built + i
        BY <1>11, <3>2
      <4> QED BY <1>6, <1>11, <4>1
    <3> QED BY <3>1, <3>2
  <2> QED BY <1>11, <2>2
<1>22. DataTypes'
  BY <1>2, <1>9, <1>14, <1>21 DEF DataInv, DataTypes, Settling, Listing
<1>23. LedgerMade' /\ OrdersPlaced'
  BY <1>2, <1>9, <1>19, LateFrame DEF Settling
<1> QED BY <1>18, <1>20, <1>22, <1>23 DEF DataInv

\* The payment of one of a pair.
TwinRow(row, first, i, twin) == row \in SettlementRow /\ OfTwin(row, first, i, twin)

\* The rows of n pairs: one for each of the two UTRs of each pair.
PairRows(rows, first, n) ==
  /\ rows \in Seq(SettlementRow)
  /\ \A k \in DOMAIN rows : \E i \in 1..n : \E twin \in {"a", "b"} : TwinRow(rows[k], first, i, twin)
  /\ \A k, l \in DOMAIN rows : rows[k].settlement_id = rows[l].settlement_id => k = l

\* The two rows of the i-th pair.
IsPair(s, first, i) ==
  s \in Seq(SettlementRow) /\ DOMAIN s = 1..2
    /\ TwinRow(s[1], first, i, "a") /\ TwinRow(s[2], first, i, "b")

\* Both rows of every pair are there.
HasPairs(rows, seqs, n) ==
  \A i \in 1..n, j \in 1..2 : \E k \in DOMAIN rows : rows[k] = seqs[i][j]

\* The rows of the pairs, put together, are all there, and are of their pairs.
LEMMA PairsSettled ==
  ASSUME NEW n \in Nat, NEW first, NEW seqs, DOMAIN seqs = 1..n, seqs = [i \in 1..n |-> seqs[i]],
         \A i \in 1..n : IsPair(seqs[i], first, i)
  PROVE  PairRows(FlattenSeq(seqs), first, n) /\ HasPairs(FlattenSeq(seqs), seqs, n)
<1>1. seqs \in Seq(Seq(SettlementRow)) /\ Len(seqs) = n
  <2>1. \A i \in 1..n : seqs[i] \in Seq(SettlementRow)
    BY DEF IsPair
  <2>2. seqs \in [1..n -> Seq(SettlementRow)]
    BY <2>1
  <2> QED BY <2>2
<1>2. PICK rows : rows = FlattenSeq(seqs)
  OBVIOUS
<1>3. rows \in Seq(SettlementRow) /\ \E of, nth : Spreads(rows, seqs, n, of, nth)
  BY <1>1, <1>2, FlattenFacts
<1>4. PICK of, nth : Spreads(rows, seqs, n, of, nth)
  BY <1>3
<1>5. ASSUME NEW k \in DOMAIN rows
      PROVE  /\ of[k] \in 1..n /\ nth[k] \in 1..2
             /\ TwinRow(rows[k], first, of[k], IF nth[k] = 1 THEN "a" ELSE "b")
  <2>1. of[k] \in 1..n /\ nth[k] \in DOMAIN seqs[of[k]] /\ rows[k] = seqs[of[k]][nth[k]]
    BY <1>4 DEF Spreads
  <2>2. IsPair(seqs[of[k]], first, of[k])
    BY <2>1
  <2>3. nth[k] \in 1..2
    BY <2>1, <2>2 DEF IsPair
  <2>4. CASE nth[k] = 1
    BY <2>1, <2>2, <2>4 DEF IsPair
  <2>5. CASE nth[k] = 2
    BY <2>1, <2>2, <2>5 DEF IsPair
  <2> QED BY <2>1, <2>3, <2>4, <2>5
<1>6. ASSUME NEW k \in DOMAIN rows
      PROVE  \E i \in 1..n : \E twin \in {"a", "b"} : TwinRow(rows[k], first, i, twin)
  <2>1. PICK twin : twin = IF nth[k] = 1 THEN "a" ELSE "b"
    OBVIOUS
  <2>2. twin \in {"a", "b"}
    BY <2>1
  <2> QED BY <1>5, <2>1, <2>2
<1>7. ASSUME NEW k \in DOMAIN rows, NEW l \in DOMAIN rows,
             rows[k].settlement_id = rows[l].settlement_id
      PROVE  k = l
  <2>1. PICK s, t : s = (IF nth[k] = 1 THEN "a" ELSE "b") /\ t = (IF nth[l] = 1 THEN "a" ELSE "b")
    OBVIOUS
  <2>2. rows[k].settlement_id = <<s, of[k], 0>> /\ rows[l].settlement_id = <<t, of[l], 0>>
    BY <1>5, <2>1 DEF TwinRow, OfTwin
  <2>3. <<s, of[k], 0>> = <<t, of[l], 0>>
    BY <1>7, <2>2, Zenon
  <2>4. s = t /\ of[k] = of[l]
    BY <2>3
  <2>5. nth[k] \in 1..2 /\ nth[l] \in 1..2
    BY <1>5
  <2>6. nth[k] = nth[l]
    BY <2>1, <2>4, <2>5
  <2> QED BY <1>4, <2>4, <2>6 DEF Spreads
<1>8. PairRows(rows, first, n)
  BY <1>3, <1>6, <1>7 DEF PairRows
<1>9. ASSUME NEW i \in 1..n, NEW j \in 1..2 PROVE \E k \in DOMAIN rows : rows[k] = seqs[i][j]
  <2>1. DOMAIN seqs[i] = 1..2
    BY DEF IsPair
  <2>2. PICK k \in DOMAIN rows : of[k] = i /\ nth[k] = j
    BY <1>4, <2>1 DEF Spreads
  <2> QED BY <1>4, <2>2 DEF Spreads
<1>10. HasPairs(rows, seqs, n)
  BY <1>9 DEF HasPairs
<1> QED BY <1>2, <1>8, <1>10

\* A row of each of the two UTRs of the i-th pair, whose net is the credit.
Alike(row, credit, first, i, j) ==
  /\ row.settlement_utr = first + 2 * i - 2 + j
  /\ RowNet(row) = credit.credit /\ row.settled_at = credit.txn_date

\* What PlantUnresolvable has done.
Twinned(n, rows, credits) ==
  /\ n \in Nat /\ n = setup.unresolvable
  /\ PairRows(rows, Len(files.bank), n)
  /\ credits \in Seq(BankRow) /\ Len(credits) = n
  /\ \A i \in 1..n :
       /\ credits[i].credit \in Int
       /\ credits[i].narration = Narration("neft", Len(files.bank) + 2 * i - 1, 6)
       /\ \A j \in 1..2 : \E k \in DOMAIN rows : Alike(rows[k], credits[i], Len(files.bank), i, j)
  /\ files' = [files EXCEPT !.settlement = files.settlement \o rows,
                            !.bank = files.bank \o credits]
  /\ truth' = [truth EXCEPT !.unresolvable =
                 {[row |-> Len(files.bank) + i, a |-> Len(files.bank) + 2 * i - 1,
                   b |-> Len(files.bank) + 2 * i] : i \in 1..n}]
  /\ step = "unresolvable" /\ step' = "written"
  /\ UNCHANGED <<setup, orders, batches, assigned>>

\* PlantUnresolvable writes the pairs, in the sense of Twinned.
LEMMA TwinFacts == DataInv /\ PlantUnresolvable => \E n, rows, credits : Twinned(n, rows, credits)
<1> SUFFICES ASSUME DataInv, PlantUnresolvable PROVE \E n, rows, credits : Twinned(n, rows, credits)
  OBVIOUS
<1>1. /\ setup \in Setups
      /\ files \in [bank : Seq(BankRow), settlement : Seq(SettlementRow), ledger : Seq(LedgerRow)]
      /\ orders \in Seq(Order(setup.n_orders))
      /\ batches \in Seq(Seq(Order(setup.n_orders)) \ {<<>>})
  BY DEF DataInv, DataTypes
<1>1a. step = "unresolvable" /\ step' = "written" /\ UNCHANGED <<setup, orders, batches, assigned>>
  BY Zenon DEF PlantUnresolvable
<1> DEFINE first == Len(files.bank)
           n == setup.unresolvable
<1>1b. truth' = [truth EXCEPT !.unresolvable =
                     {[row |-> first + i, a |-> first + 2 * i - 1, b |-> first + 2 * i] : i \in 1..n}]
  BY Zenon DEF PlantUnresolvable
<1> DEFINE Pair(i, amount) ==
             <<TwinPayment(i, "a", first + 2 * i - 1, amount),
               TwinPayment(i, "b", first + 2 * i, amount)>>
           Done(amount) ==
             files' = [files EXCEPT
                        !.settlement = files.settlement
                          \o FlattenSeq([i \in 1..n |-> Pair(i, amount[i])]),
                        !.bank = files.bank
                          \o [i \in 1..n |-> SharedCredit(i, first + 2 * i - 1, amount[i])]]
<1>2. \E amount \in [1..n -> setup.shared_amounts] : Done(amount)
  BY Zenon DEF PlantUnresolvable
<1> HIDE DEF Done
<1>3. PICK amount \in [1..n -> setup.shared_amounts] : Done(amount)
  BY <1>2
<1>4. n \in Nat /\ setup.bank_only \in Nat /\ setup.n_orders \in Nat
  BY <1>1, SetupFacts
<1>5. first \in Nat /\ first <= setup.n_orders + setup.bank_only
  <2>1. first = Built + Strays + Pairs
    BY DEF DataInv, RowsSettled
  <2>2. first = Len(batches) + setup.bank_only + 0
    BY <1>1a, <2>1 DEF Built, Strays, Pairs
  <2>3. Len(batches) + Len(orders) <= setup.n_orders
    BY DEF DataInv, OrdersPlaced, FewBatches
  <2>4. Len(batches) \in Nat /\ Len(orders) \in Nat
    BY <1>1
  <2>5. PICK B \in Nat, m \in Nat, p \in Nat, q \in Nat :
          B = Len(batches) /\ m = Len(orders) /\ p = setup.n_orders /\ q = setup.bank_only
    BY <1>4, <2>4
  <2>6. first = B + q /\ B + m <= p
    BY <2>2, <2>3, <2>5
  <2>7. first \in Nat /\ first <= p + q
    <3> HIDE DEF first
    <3> QED BY <2>6
  <2> QED BY <2>5, <2>7
<1> HIDE DEF first, n
<1>6. ASSUME NEW x \in Int
      PROVE  \E fee, tax \in Int :
               /\ fee = HalfUp(x * MdrDrawn, 10000) /\ tax = HalfUp(fee * GstDrawn, 10000)
  <2>1. PICK fee \in Int : fee = HalfUp(x * MdrDrawn, 10000)
    <3>1. HalfUp(x * MdrDrawn, 10000) \in Int
      BY WholeRate DEF MdrDrawn
    <3> QED BY <3>1
  <2>2. HalfUp(fee * GstDrawn, 10000) \in Int
    BY WholeRate DEF GstDrawn
  <2> QED BY <2>1, <2>2
<1>7. ASSUME NEW i \in 1..n
      PROVE  /\ first + 2 * i - 1 \in Utrs /\ first + 2 * i \in Utrs
             /\ Narration("neft", first + 2 * i - 1, 6) \in Narrations
             /\ <<"a", i>> \in OrderIds /\ <<"a", i, 0>> \in SettlementIds
             /\ <<"b", i>> \in OrderIds /\ <<"b", i, 0>> \in SettlementIds
             /\ amount[i] \in Int
  <2>1. PICK p \in Nat, q \in Nat : p = setup.n_orders /\ q = setup.bank_only
    BY <1>4
  <2>2. first + 2 * i - 1 \in 1..(p + q + 2 * n) /\ first + 2 * i \in 1..(p + q + 2 * n)
    <3>1. PICK f \in Nat, x \in Nat : f = first /\ x = n
      BY <1>4, <1>5
    <3>2. f <= p + q /\ i \in 1..x
      BY <1>5, <2>1, <3>1
    <3>3. f + 2 * i - 1 \in 1..(p + q + 2 * x) /\ f + 2 * i \in 1..(p + q + 2 * x)
      BY <3>2
    <3> QED BY <3>1, <3>3
  <2>3. p + q + 2 * n = setup.n_orders + setup.bank_only + 2 * setup.unresolvable
    BY <2>1 DEF n
  <2>4. /\ first + 2 * i - 1 \in Utrs /\ first + 2 * i \in Utrs
        /\ Narration("neft", first + 2 * i - 1, 6) \in Narrations
    BY <1>1, <2>2, <2>3, NameFacts
  <2>5. /\ <<"a", i>> \in OrderIds /\ <<"a", i, 0>> \in SettlementIds
        /\ <<"b", i>> \in OrderIds /\ <<"b", i, 0>> \in SettlementIds
    BY <1>1, NameFacts DEF n
  <2>6. amount[i] \in Int
    <3>1. amount[i] \in setup.shared_amounts
      BY <1>3
    <3> QED BY <1>1, <3>1, SetupAssumption DEF Within
  <2> QED BY <2>4, <2>5, <2>6
<1>8. PICK seqs : seqs = [i \in 1..n |-> Pair(i, amount[i])]
  OBVIOUS
<1>9. PICK credits : credits = [i \in 1..n |-> SharedCredit(i, first + 2 * i - 1, amount[i])]
  OBVIOUS
<1>10. ASSUME NEW i \in 1..n
       PROVE  /\ IsPair(seqs[i], first, i)
              /\ \A j \in 1..2 : Alike(seqs[i][j], credits[i], first, i, j)
  <2>0. PICK x : x = amount[i]
    OBVIOUS
  <2>0a. x \in Int
    BY <1>7, <2>0
  <2>1. PICK fee \in Int, tax \in Int :
          fee = HalfUp(x * MdrDrawn, 10000) /\ tax = HalfUp(fee * GstDrawn, 10000)
    BY <1>6, <2>0a
  <2>2. PICK ra, rb :
          /\ ra = TwinPayment(i, "a", first + 2 * i - 1, x)
          /\ rb = TwinPayment(i, "b", first + 2 * i, x)
    OBVIOUS
  <2>3. /\ ra = [settlement_id |-> <<"a", i, 0>>, settlement_utr |-> first + 2 * i - 1,
                 type |-> "payment", amount |-> x, fee |-> fee, tax |-> tax,
                 on_hold |-> FALSE, settled_at |-> Cutover + i - 1, order_id |-> <<"a", i>>,
                 dispute_id |-> FALSE]
        /\ rb = [settlement_id |-> <<"b", i, 0>>, settlement_utr |-> first + 2 * i,
                 type |-> "payment", amount |-> x, fee |-> fee, tax |-> tax,
                 on_hold |-> FALSE, settled_at |-> Cutover + i - 1, order_id |-> <<"b", i>>,
                 dispute_id |-> FALSE]
    BY <2>1, <2>2 DEF TwinPayment, Settlement
  <2>4. Cutover + i - 1 \in Int
    BY <1>4 DEF Cutover
  <2>5. ra \in SettlementRow /\ rb \in SettlementRow
    BY <1>7, <2>0a, <2>3, <2>4 DEF SettlementRow, RowTypes
  <2>6. OfTwin(ra, first, i, "a")
    <3>1. first + 2 * i - (IF "a" = "a" THEN 1 ELSE 0) = first + 2 * i - 1
      BY <1>5
    <3> QED BY <2>3, <3>1 DEF OfTwin
  <2>7. OfTwin(rb, first, i, "b")
    <3>1. first + 2 * i - (IF "b" = "a" THEN 1 ELSE 0) = first + 2 * i
      BY <1>4, <1>5
    <3> QED BY <2>3, <3>1 DEF OfTwin
  <2>8. seqs[i] = <<ra, rb>>
    BY <1>8, <2>0, <2>2
  <2>9. /\ <<ra, rb>> \in Seq(SettlementRow) /\ DOMAIN <<ra, rb>> = 1..2
        /\ <<ra, rb>>[1] = ra /\ <<ra, rb>>[2] = rb
    BY <2>5
  <2>10. IsPair(seqs[i], first, i)
    BY <2>5, <2>6, <2>7, <2>8, <2>9 DEF IsPair, TwinRow
  <2>11. credits[i].credit = x - fee - tax /\ credits[i].txn_date = Cutover + i - 1
    BY <1>9, <2>0, <2>1 DEF SharedCredit
  <2>12. RowNet(ra) = x - fee - tax /\ RowNet(rb) = x - fee - tax
    BY <2>3 DEF RowNet
  <2>13. first + 2 * i - 2 + 1 = first + 2 * i - 1 /\ first + 2 * i - 2 + 2 = first + 2 * i
    BY <1>4, <1>5
  <2>14. Alike(ra, credits[i], first, i, 1) /\ Alike(rb, credits[i], first, i, 2)
    BY <2>3, <2>11, <2>12, <2>13 DEF Alike
  <2> QED BY <2>8, <2>9, <2>10, <2>14
<1>11. ASSUME NEW i \in 1..n
       PROVE  /\ credits[i] \in BankRow /\ credits[i].credit \in Int
              /\ credits[i].narration = Narration("neft", first + 2 * i - 1, 6)
  <2>0. PICK x : x = amount[i]
    OBVIOUS
  <2>0a. x \in Int
    BY <1>7, <2>0
  <2>1. PICK fee \in Int, tax \in Int :
          fee = HalfUp(x * MdrDrawn, 10000) /\ tax = HalfUp(fee * GstDrawn, 10000)
    BY <1>6, <2>0a
  <2>2. credits[i] = [narration |-> Narration("neft", first + 2 * i - 1, 6),
                      txn_date |-> Cutover + i - 1, credit |-> x - fee - tax]
    BY <1>9, <2>0, <2>1 DEF SharedCredit
  <2>3. Narration("neft", first + 2 * i - 1, 6) \in Narrations
    BY <1>7
  <2>4. PICK net \in Int : net = x - fee - tax
    BY <2>0a
  <2>5. PICK day \in Int : day = Cutover + i - 1
    BY <1>4 DEF Cutover
  <2>6. PICK text \in Narrations : text = Narration("neft", first + 2 * i - 1, 6)
    BY <2>3
  <2>7. credits[i] = [narration |-> text, txn_date |-> day, credit |-> net]
    BY <2>2, <2>4, <2>5, <2>6
  <2> QED BY <2>6, <2>7 DEF BankRow
<1>12. DOMAIN seqs = 1..n /\ seqs = [i \in 1..n |-> seqs[i]] /\ credits = [i \in 1..n |-> credits[i]]
  BY <1>8, <1>9
<1>13. credits \in Seq(BankRow) /\ Len(credits) = n
  <2>1. credits \in [1..n -> BankRow]
    BY <1>11, <1>12
  <2> QED BY <1>4, <2>1
<1>14. PICK rows : rows = FlattenSeq(seqs)
  OBVIOUS
<1>15. /\ PairRows(rows, first, n)
       /\ \A i \in 1..n, j \in 1..2 : \E k \in DOMAIN rows : rows[k] = seqs[i][j]
  <2>1. \A i \in 1..n : IsPair(seqs[i], first, i)
    BY <1>10
  <2>2. PairRows(FlattenSeq(seqs), first, n) /\ HasPairs(FlattenSeq(seqs), seqs, n)
    BY <1>4, <1>12, <2>1, PairsSettled
  <2> QED BY <1>14, <2>2 DEF HasPairs
<1>15a. ASSUME NEW i \in 1..n, NEW j \in 1..2
        PROVE  \E k \in DOMAIN rows : Alike(rows[k], credits[i], first, i, j)
  BY <1>10, <1>15
<1>16. files' = [files EXCEPT !.settlement = files.settlement \o rows,
                              !.bank = files.bank \o credits]
  BY <1>3, <1>8, <1>9, <1>14, Zenon DEF Done
<1>17. Twinned(n, rows, credits)
  BY <1>1a, <1>1b, <1>4, <1>11, <1>13, <1>15, <1>15a, <1>16 DEF Twinned, first, n
<1> QED BY <1>17

\* What there is before the pairs are planted.
LEMMA BeforePairs ==
  ASSUME DataInv, NEW n, NEW rows, NEW credits, Twinned(n, rows, credits)
  PROVE  /\ n \in Nat /\ Len(batches) \in Nat /\ setup.bank_only \in Nat
         /\ Built = Len(batches) /\ Strays = setup.bank_only /\ Pairs = 0
         /\ Built' = Len(batches) /\ Strays' = setup.bank_only /\ Pairs' = n
         /\ Len(files.bank) = Len(batches) + setup.bank_only
         /\ files.bank \in Seq(BankRow) /\ files.settlement \in Seq(SettlementRow)
<1>1. /\ setup \in Setups /\ batches \in Seq(Seq(Order(setup.n_orders)) \ {<<>>})
      /\ files \in [bank : Seq(BankRow), settlement : Seq(SettlementRow), ledger : Seq(LedgerRow)]
  BY DEF DataInv, DataTypes
<1>2. files.bank \in Seq(BankRow) /\ files.settlement \in Seq(SettlementRow)
  BY <1>1
<1>3. setup.bank_only \in Nat /\ Len(batches) \in Nat
  BY <1>1, SetupFacts
<1>4. /\ n \in Nat /\ n = setup.unresolvable /\ step = "unresolvable" /\ step' = "written"
      /\ setup' = setup /\ batches' = batches
  BY DEF Twinned
<1>5. Built = Len(batches) /\ Strays = setup.bank_only /\ Pairs = 0
  BY <1>4 DEF Built, Strays, Pairs
<1>6. Built' = Len(batches) /\ Strays' = setup.bank_only /\ Pairs' = n
  BY <1>4 DEF Built, Strays, Pairs
<1>7. Len(files.bank) = Built + Strays + Pairs
  BY DEF DataInv, RowsSettled
<1>8. Len(files.bank) = Len(batches) + setup.bank_only
  BY <1>3, <1>5, <1>7
<1> QED BY <1>2, <1>3, <1>4, <1>5, <1>6, <1>8

\* The rows of the pairs come under UTRs and identifiers no batch has.
LEMMA PairRowsKept ==
  ASSUME DataInv, NEW n, NEW rows, NEW credits, Twinned(n, rows, credits)
  PROVE  RowsSettled'
<1>1. PICK built \in Nat, first \in Nat, k0 \in Nat :
        /\ built = Len(batches) /\ k0 = setup.bank_only /\ first = built + k0
        /\ first = Len(files.bank)
  BY BeforePairs
<1>2. PICK file, new, bs : file = files.settlement /\ new = file \o rows /\ bs = batches
  OBVIOUS
<1>3. /\ file \in Seq(SettlementRow) /\ rows \in Seq(SettlementRow) /\ n \in Nat
      /\ PairRows(rows, first, n) /\ files.bank \in Seq(BankRow)
      /\ credits \in Seq(BankRow) /\ Len(credits) = n
  <2>1. file \in Seq(SettlementRow) /\ n \in Nat /\ files.bank \in Seq(BankRow)
    BY <1>2, BeforePairs
  <2>2. PairRows(rows, first, n) /\ credits \in Seq(BankRow) /\ Len(credits) = n
    BY <1>1 DEF Twinned
  <2>3. rows \in Seq(SettlementRow)
    BY <2>2 DEF PairRows
  <2> QED BY <2>1, <2>2, <2>3
<1>4. PICK a \in Nat, m \in Nat : Behind(new, file, rows, a, m)
  BY <1>2, <1>3, AddedBehind
<1>5. PICK bank2 : bank2 = files.bank \o credits
  OBVIOUS
<1>6. files'.settlement = new /\ files'.bank = bank2
  <2>1. files' = [files EXCEPT !.settlement = new, !.bank = bank2]
    BY <1>2, <1>5 DEF Twinned
  <2>2. files \in [bank : Seq(BankRow), settlement : Seq(SettlementRow), ledger : Seq(LedgerRow)]
    BY DEF DataInv, DataTypes
  <2> QED BY <2>1, <2>2
<1>7. Len(bank2) = first + n
  <2>1. Len(files.bank \o credits) = Len(files.bank) + Len(credits)
    BY <1>3, ConcatProperties
  <2> QED BY <1>1, <1>3, <1>5, <2>1
<1>8. AllMade(file, bs, built, first, 0) /\ IdsOnce(file) /\ AllPaid(file, bs, built)
  BY <1>1, <1>2, BeforePairs DEF DataInv, RowsSettled
<1>9. DOMAIN new = 1..(a + m) /\ DOMAIN file = 1..a /\ DOMAIN rows = 1..m
  BY <1>4 DEF Behind
<1>10. ASSUME NEW i \in 1..(a + m)
       PROVE  \/ i \in 1..a /\ i \in DOMAIN file /\ new[i] = file[i]
              \/ i \notin 1..a /\ i - a \in 1..m /\ new[i] = rows[i - a]
  <2>1. CASE i \in 1..a
    BY <1>4, <2>1 DEF Behind
  <2>2. CASE i \notin 1..a
    <3>1. i - a \in 1..m /\ i = a + (i - a)
      BY <2>2
    <3>2. new[a + (i - a)] = rows[i - a]
      BY <1>4, <3>1 DEF Behind
    <3> QED BY <2>2, <3>1, <3>2
  <2> QED BY <2>1, <2>2
<1>11. \A k \in 1..m : \E i \in 1..n : \E twin \in {"a", "b"} : OfTwin(rows[k], first, i, twin)
  BY <1>3, <1>9 DEF PairRows, TwinRow
<1>12. AllMade(new, bs, built, first, n)
  <2> SUFFICES ASSUME NEW i \in 1..(a + m) PROVE IsMade(new[i], bs, built, first, n)
    BY <1>9 DEF AllMade
  <2>1. CASE i \in 1..a /\ i \in DOMAIN file /\ new[i] = file[i]
    <3>1. IsMade(file[i], bs, built, first, 0)
      BY <1>8, <2>1 DEF AllMade
    <3>2. built <= built /\ 0 <= n /\ 0 \in Nat
      BY <1>3
    <3> QED BY <1>3, <2>1, <3>1, <3>2, StillMade
  <2>2. CASE i - a \in 1..m /\ new[i] = rows[i - a]
    <3>1. \E j \in 1..n : \E twin \in {"a", "b"} : OfTwin(new[i], first, j, twin)
      BY <1>11, <2>2
    <3> QED BY <3>1, Zenon DEF IsMade
  <2> QED BY <1>10, <2>1, <2>2
<1>13. IdsOnce(new)
  <2> SUFFICES ASSUME NEW i \in 1..(a + m), NEW j \in 1..(a + m),
                      new[i].settlement_id = new[j].settlement_id
               PROVE  i = j
    BY <1>9 DEF IdsOnce
  <2>1. ASSUME NEW k \in 1..a
        PROVE  \A l \in 1..m : file[k].settlement_id # rows[l].settlement_id
    <3> SUFFICES ASSUME NEW l \in 1..m, file[k].settlement_id = rows[l].settlement_id
                 PROVE  FALSE
      OBVIOUS
    <3>1. IsMade(file[k], bs, built, first, 0)
      BY <1>8, <1>9 DEF AllMade
    <3>2. \A x : x \notin 1..0
      OBVIOUS
    <3>3. PICK c \in 1..built : \E o \in DOMAIN bs[c] : \E kind \in Kinds :
             OfOrder(file[k], c, o, bs[c][o], kind)
      BY <3>1, <3>2 DEF IsMade
    <3>4. PICK kind \in Kinds, o \in DOMAIN bs[c] : file[k].settlement_id = <<kind, c, o>>
      BY <3>3 DEF OfOrder
    <3>5. PICK twin \in {"a", "b"}, p \in 1..n : rows[l].settlement_id = <<twin, p, 0>>
      BY <1>11 DEF OfTwin
    <3>6. <<kind, c, o>> = <<twin, p, 0>>
      BY <3>4, <3>5, Zenon
    <3>7. kind = twin
      BY <3>6
    <3> QED BY <3>7 DEF Kinds
  <2>2. CASE i \in 1..a /\ j \in 1..a
    BY <1>8, <1>10, <1>9, <2>2 DEF IdsOnce
  <2>3. CASE i \notin 1..a /\ j \notin 1..a
    <3>1. i - a \in DOMAIN rows /\ j - a \in DOMAIN rows
          /\ rows[i - a].settlement_id = rows[j - a].settlement_id
      BY <1>10, <1>9, <2>3
    <3>2. i - a = j - a
      BY <1>3, <3>1 DEF PairRows
    <3> QED BY <3>2
  <2>4. CASE i \in 1..a /\ j \notin 1..a
    BY <1>10, <2>1, <2>4
  <2>5. CASE i \notin 1..a /\ j \in 1..a
    BY <1>10, <2>1, <2>5
  <2> QED BY <2>2, <2>3, <2>4, <2>5
<1>14. AllPaid(new, bs, built)
  <2> SUFFICES ASSUME NEW c \in 1..built, NEW o \in DOMAIN bs[c]
               PROVE  \E r \in 1..(a + m) : OfOrder(new[r], c, o, bs[c][o], "pay")
    BY <1>9, Zenon DEF AllPaid
  <2>1. PICK r \in DOMAIN file : OfOrder(file[r], c, o, bs[c][o], "pay")
    BY <1>8, Zenon DEF AllPaid
  <2>2. r \in 1..(a + m) /\ new[r] = file[r]
    BY <1>4, <1>9 DEF Behind
  <2> QED BY <2>1, <2>2
<1>15. built <= built /\ Len(files'.bank) = built + k0 + n
  BY <1>1, <1>6, <1>7
<1>16. /\ Built' = built /\ Strays' = k0 /\ Pairs' = n /\ batches' = bs
       /\ Len(batches') + setup'.bank_only = first /\ Len(batches') = built
  <2>1. batches' = bs /\ setup' = setup
    BY <1>2 DEF Twinned
  <2>2. Built' = built /\ Strays' = k0 /\ Pairs' = n
    BY <1>1, BeforePairs
  <2> QED BY <1>1, <1>2, <2>1, <2>2
<1> QED BY <1>6, <1>12, <1>13, <1>14, <1>15, <1>16 DEF RowsSettled

\* The pairs leave what the ground truth says of the other credits as it was.
LEMMA PairTruthKept ==
  ASSUME DataInv, NEW n, NEW rows, NEW credits, Twinned(n, rows, credits)
  PROVE  Truthful' /\ IsTruth(truth') /\ Victims' = Victims
<1>1. PICK built \in Nat, first \in Nat, k0 \in Nat :
        /\ built = Len(batches) /\ k0 = setup.bank_only /\ first = built + k0
        /\ first = Len(files.bank)
  BY BeforePairs
<1>2. /\ Built = built /\ Strays = k0 /\ Pairs = 0 /\ n \in Nat
      /\ Built' = built /\ Strays' = k0 /\ Pairs' = n /\ setup' = setup
      /\ step = "unresolvable" /\ step' = "written"
  <2>1. setup' = setup /\ step = "unresolvable" /\ step' = "written"
    BY DEF Twinned
  <2>2. /\ Built = built /\ Strays = k0 /\ Pairs = 0 /\ n \in Nat
        /\ Built' = built /\ Strays' = k0 /\ Pairs' = n
    BY <1>1, BeforePairs
  <2> QED BY <2>1, <2>2
<1>3. PICK f, g, bank2 : f = files /\ g = files' /\ bank2 = files.bank \o credits
  OBVIOUS
<1>4. /\ f.settlement \in Seq(SettlementRow) /\ rows \in Seq(SettlementRow)
      /\ PairRows(rows, first, n) /\ f.bank \in Seq(BankRow)
      /\ credits \in Seq(BankRow) /\ Len(credits) = n
  <2>1. f.settlement \in Seq(SettlementRow) /\ f.bank \in Seq(BankRow)
    BY <1>3, BeforePairs
  <2>2. PairRows(rows, first, n) /\ credits \in Seq(BankRow) /\ Len(credits) = n
    BY <1>1 DEF Twinned
  <2>3. rows \in Seq(SettlementRow)
    BY <2>2 DEF PairRows
  <2> QED BY <2>1, <2>2, <2>3
<1>5. g.settlement = f.settlement \o rows /\ g.bank = bank2
  <2>1. g = [f EXCEPT !.settlement = f.settlement \o rows, !.bank = bank2]
    BY <1>3 DEF Twinned
  <2>2. f \in [bank : Seq(BankRow), settlement : Seq(SettlementRow), ledger : Seq(LedgerRow)]
    BY <1>3 DEF DataInv, DataTypes
  <2> QED BY <2>1, <2>2
<1>6. Behind(bank2, f.bank, credits, first, n)
  BY <1>1, <1>3, <1>4, AddedBehind
<1>7. /\ DOMAIN bank2 = 1..(first + n)
      /\ \A c \in 1..first : c \in 1..(first + n) /\ bank2[c] = f.bank[c]
      /\ \A c \in 1..(first + n) : c \notin 1..first => c - first \in 1..n /\ c = first + (c - first)
  BY <1>6 DEF Behind
<1>8. ASSUME NEW c \in 1..built
      PROVE  /\ IdsUnder(g.settlement, c) = IdsUnder(f.settlement, c)
             /\ Net(g.settlement, Under(g.settlement, c)) = Net(f.settlement, Under(f.settlement, c))
             /\ g.bank[c] = f.bank[c]
  <2>1. NoneOf(rows, c)
    <3> SUFFICES ASSUME NEW k \in DOMAIN rows, rows[k].settlement_utr = c PROVE FALSE
      BY DEF NoneOf
    <3>1. PICK i \in 1..n, twin \in {"a", "b"} :
            rows[k].settlement_utr = first + 2 * i - (IF twin = "a" THEN 1 ELSE 0)
      BY <1>4 DEF PairRows, TwinRow, OfTwin
    <3>2. PICK x \in Nat : x = i /\ x >= 1
      BY <1>2
    <3>3. c = first + 2 * x - 1 \/ c = first + 2 * x
      BY <3>1, <3>2
    <3>4. c <= first
      BY <1>1
    <3> QED BY <3>2, <3>3, <3>4
  <2>2. c \in 1..first
    BY <1>1
  <2> QED BY <1>4, <1>5, <1>7, <2>1, <2>2, UnderStays
<1>9. ASSUME NEW m, IsExpected(m, f, built) PROVE IsExpected(m, g, built)
  <2>1. m.row \in 1..built
    BY <1>9 DEF IsExpected
  <2> QED BY <1>8, <1>9, <2>1 DEF IsExpected
<1>10. ASSUME NEW e, IsPlanted(e, f, built, k0) PROVE IsPlanted(e, g, built, k0)
  BY <1>8, <1>10 DEF IsPlanted
<1>11. /\ \A m \in truth.expected : IsExpected(m, f, built)
       /\ \A e \in truth.planted : IsPlanted(e, f, built, k0)
       /\ truth.unresolvable = {}
       /\ \A c \in 1..first : ToldOnce(truth, c)
       /\ IsTruth(truth)
  <2>1. Truthful /\ IsTruth(truth)
    BY DEF DataInv, DataTypes
  <2>2. DOMAIN files.bank = 1..first
    BY <1>1, BeforePairs
  <2> QED BY <1>2, <1>3, <2>1, <2>2 DEF Truthful
<1>12. PICK told : told = {[row |-> first + i, a |-> first + 2 * i - 1, b |-> first + 2 * i] : i \in 1..n}
  OBVIOUS
<1>13. /\ truth'.unresolvable = told /\ truth'.expected = truth.expected
       /\ truth'.planted = truth.planted /\ IsTruth(truth')
  <2>1. truth' = [truth EXCEPT !.unresolvable = told]
    BY <1>1, <1>12 DEF Twinned
  <2> QED BY <1>11, <2>1 DEF IsTruth
<1>14. /\ \A u \in told : u.row > first
       /\ \A i \in 1..n : IsOne(OfRow(told, first + i))
       /\ \A c \in 1..first : OfRow(told, c) = {}
  <2>1. \A u \in told : \E i \in 1..n : u.row = first + i
    BY <1>12
  <2>2. \A u \in told : u.row > first
    BY <2>1
  <2>3. ASSUME NEW i \in 1..n PROVE IsOne(OfRow(told, first + i))
    <3>1. PICK u : u = [row |-> first + i, a |-> first + 2 * i - 1, b |-> first + 2 * i]
      OBVIOUS
    <3>2. u \in told /\ u.row = first + i
      BY <1>12, <3>1
    <3>3. ASSUME NEW v \in told, v.row = first + i PROVE v = u
      <4>1. PICK j \in 1..n : v = [row |-> first + j, a |-> first + 2 * j - 1, b |-> first + 2 * j]
        BY <1>12
      <4>2. first + j = first + i
        BY <3>3, <4>1
      <4>3. j = i
        BY <4>2
      <4> QED BY <3>1, <4>1, <4>3
    <3>4. OfRow(told, first + i) = {u}
      BY <3>2, <3>3 DEF OfRow
    <3> QED BY <3>4 DEF IsOne
  <2>4. \A c \in 1..first : OfRow(told, c) = {}
    BY <2>2 DEF OfRow
  <2> QED BY <2>2, <2>3, <2>4
<1>15. /\ \A m \in truth.expected : m.row \in 1..first
       /\ \A e \in truth.planted : e.row = NoRow \/ e.row \in 1..first
  <2>1. \A m \in truth.expected : m.row \in 1..built
    BY <1>11 DEF IsExpected
  <2>2. \A e \in truth.planted : e.row = NoRow \/ e.row \in 1..built \/ e.row \in (built + 1)..(built + k0)
    BY <1>11 DEF IsPlanted
  <2>3. \A c \in 1..built : c \in 1..first
    BY <1>1
  <2>4. \A c \in (built + 1)..(built + k0) : c \in 1..first
    BY <1>1
  <2> QED BY <2>1, <2>2, <2>3, <2>4
<1>16. Truthful'
  <2>1. \A m \in truth'.expected : IsExpected(m, files', Built')
    BY <1>2, <1>3, <1>9, <1>11, <1>13
  <2>2. \A e \in truth'.planted : IsPlanted(e, files', Built', Strays')
    BY <1>2, <1>3, <1>10, <1>11, <1>13
  <2>3. \A u \in truth'.unresolvable : u.row > Built' + setup'.bank_only
    BY <1>1, <1>2, <1>13, <1>14
  <2>4. ASSUME NEW c \in 1..(first + n) PROVE ToldOnce(truth', c)
    <3>1. CASE c \in 1..first
      <4>1. OfRow(truth'.unresolvable, c) = {} /\ OfRow(truth.unresolvable, c) = {}
        BY <1>11, <1>13, <1>14, <3>1 DEF OfRow
      <4>2. ToldOnce(truth, c)
        BY <1>11, <3>1
      <4> QED BY <1>13, <4>1, <4>2 DEF ToldOnce
    <3>2. CASE c \notin 1..first
      <4>1. PICK i \in 1..n : c = first + i
        BY <1>7, <3>2
      <4>2. IsOne(OfRow(truth'.unresolvable, c))
        BY <1>13, <1>14, <4>1
      <4>3. c # NoRow
        BY DEF NoRow
      <4>4. OfRow(truth'.expected, c) = {} /\ OfRow(truth'.planted, c) = {}
        BY <1>13, <1>15, <3>2, <4>3 DEF OfRow
      <4> QED BY <4>2, <4>4 DEF ToldOnce
    <3> QED BY <3>1, <3>2
  <2> QED BY <1>2, <1>3, <1>5, <1>7, <2>1, <2>2, <2>3, <2>4 DEF Truthful
<1>17. Victims' = Victims
  BY <1>13, Zenon DEF Victims
<1> QED BY <1>13, <1>16, <1>17

\* The unresolvable pairs keep the invariant.
LEMMA PlantUnresolvableKeeps == DataInv /\ PlantUnresolvable => DataInv'
<1> SUFFICES ASSUME DataInv, PlantUnresolvable PROVE DataInv'
  OBVIOUS
<1>1. PICK n, rows, credits : Twinned(n, rows, credits)
  BY TwinFacts
<1>2. RowsSettled' /\ Truthful' /\ IsTruth(truth') /\ Victims' = Victims
  BY <1>1, PairRowsKept, PairTruthKept
<1>3. /\ step = "unresolvable" /\ step' = "written"
      /\ UNCHANGED <<setup, orders, batches, assigned>>
      /\ rows \in Seq(SettlementRow) /\ credits \in Seq(BankRow) /\ Len(credits) = n /\ n \in Nat
      /\ \A i \in 1..n : credits[i].credit \in Int
      /\ files' = [files EXCEPT !.settlement = files.settlement \o rows,
                                !.bank = files.bank \o credits]
  BY <1>1 DEF Twinned, PairRows
<1>4. files \in [bank : Seq(BankRow), settlement : Seq(SettlementRow), ledger : Seq(LedgerRow)]
  BY DEF DataInv, DataTypes
<1>5. PICK bank2, rows2 : bank2 = files.bank \o credits /\ rows2 = files.settlement \o rows
  OBVIOUS
<1>6. files.bank \in Seq(BankRow) /\ files.settlement \in Seq(SettlementRow)
  BY <1>4
<1>7. bank2 \in Seq(BankRow) /\ rows2 \in Seq(SettlementRow)
  BY <1>3, <1>5, <1>6, ConcatProperties
<1>8. /\ files' \in [bank : Seq(BankRow), settlement : Seq(SettlementRow), ledger : Seq(LedgerRow)]
      /\ files'.bank = bank2 /\ files'.ledger = files.ledger
  BY <1>3, <1>4, <1>5, <1>7
<1>9. PICK first \in Nat : first = Len(files.bank)
  BY <1>6
<1>10. Behind(bank2, files.bank, credits, first, n)
  BY <1>3, <1>5, <1>6, <1>9, AddedBehind
<1>11. ASSUME NEW c \in DOMAIN bank2 PROVE bank2[c].credit \in Int
  <2>1. CASE c \in 1..first
    <3>1. \A x \in DOMAIN files.bank : files.bank[x].credit \in Int
      BY DEF DataInv, DataTypes
    <3> QED BY <1>6, <1>9, <1>10, <2>1, <3>1 DEF Behind
  <2>2. CASE c \notin 1..first
    <3>1. c - first \in 1..n /\ c = first + (c - first)
      BY <1>10, <1>11, <2>2 DEF Behind
    <3>2. bank2[first + (c - first)] = credits[c - first]
      BY <1>10, <3>1 DEF Behind
    <3> QED BY <1>3, <3>1, <3>2
  <2> QED BY <2>1, <2>2
<1>12. DataTypes'
  BY <1>2, <1>3, <1>8, <1>11 DEF DataInv, DataTypes, Settling, Listing
<1>13. LedgerMade' /\ OrdersPlaced'
  BY <1>2, <1>3, <1>8, LateFrame DEF Settling
<1> QED BY <1>2, <1>12, <1>13 DEF DataInv

-----------------------------------------------------------------------------
(* The dataset and its ground truth                                        *)

\* Every phase of the generator keeps the invariant, and a run does not touch it.
LEMMA DataInvNext == DataInv /\ [BenchmarkNext]_<<vars, generatorVars>> => DataInv'
<1> SUFFICES ASSUME DataInv, [BenchmarkNext]_<<vars, generatorVars>> PROVE DataInv'
  OBVIOUS
<1>1. CASE UNCHANGED generatorVars
  BY <1>1, DataFrame
<1>2. CASE Generate
  BY <1>2, MakeOrdersKeeps, BuildLedgerKeeps, PlantTdsDefectsKeeps, PlantLedgerOnlyKeeps,
     DrawBatchKeeps, AssignDefectsKeeps, BuildBatchKeeps, PlantBankOnlyKeeps,
     PlantUnresolvableKeeps DEF Generate
<1>3. Generate \/ UNCHANGED generatorVars
  BY Zenon DEF BenchmarkNext
<1> QED BY <1>1, <1>2, <1>3

\* The inductive invariant of the generator: every order of the ledger is in one batch
\* or a LEDGER_ONLY victim, every settlement row is a row of an order of its batch, and
\* what is recorded of a credit says so.
THEOREM DatasetInvariant == BenchmarkSpec => []DataInv
<1>1. BenchmarkInit => DataInv
  BY DataStart DEF BenchmarkInit
<1> QED BY <1>1, DataInvNext, PTL DEF BenchmarkSpec

\* A credit is accounted for once.
LEMMA CreditsAccounted ==
  ASSUME NEW t, NEW b, ToldOnce(t, b), NEW OnBank, OfRow(OnBank, b) = OfRow(t.planted, b)
  PROVE  Cardinality({m \in t.expected : m.row = b}) + Cardinality({e \in OnBank : e.row = b})
           + Cardinality({u \in t.unresolvable : u.row = b}) = 1
<1> USE DEF OfRow
<1>1. /\ {m \in t.expected : m.row = b} = OfRow(t.expected, b)
      /\ {e \in OnBank : e.row = b} = OfRow(t.planted, b)
      /\ {u \in t.unresolvable : u.row = b} = OfRow(t.unresolvable, b)
  OBVIOUS
<1> HIDE DEF OfRow
<1>2. PICK p, q, r : /\ p = OfRow(t.expected, b) /\ q = OfRow(t.planted, b)
                     /\ r = OfRow(t.unresolvable, b)
  OBVIOUS
<1>3. \A S : IsOne(S) => Cardinality(S) = 1
  BY FS_Singleton DEF IsOne
<1>4. Cardinality({}) = 0
  BY FS_EmptySet
<1>5. \/ Cardinality(p) = 1 /\ Cardinality(q) = 0 /\ Cardinality(r) = 0
      \/ Cardinality(p) = 0 /\ Cardinality(q) = 1 /\ Cardinality(r) = 0
      \/ Cardinality(p) = 0 /\ Cardinality(q) = 0 /\ Cardinality(r) = 1
  <2>1. \/ IsOne(p) /\ q = {} /\ r = {}
        \/ p = {} /\ IsOne(q) /\ r = {}
        \/ p = {} /\ q = {} /\ IsOne(r)
    BY <1>2 DEF ToldOnce
  <2> QED BY <1>3, <1>4, <2>1
<1>6. Cardinality(p) + Cardinality(q) + Cardinality(r) = 1
  BY <1>5
<1>7. /\ {m \in t.expected : m.row = b} = p
      /\ {e \in OnBank : e.row = b} = q
      /\ {u \in t.unresolvable : u.row = b} = r
  BY <1>1, <1>2, Zenon
<1> QED BY <1>6, <1>7, Zenon

\* The settlement rows of an order of the ledger: the payment of the batch that has it.
LEMMA PaidOnce ==
  ASSUME DataInv, step = "written", NEW l \in DOMAIN files.ledger
  PROVE  LET paid == {i \in Payments(files.settlement) :
                        files.settlement[i].order_id = files.ledger[l].order_id}
         IN  IF files.ledger[l].order_id \in Victims THEN paid = {}
             ELSE \E i : paid = {i} /\ files.settlement[i].amount = files.ledger[l].gross_amount
<1>1. /\ files \in [bank : Seq(BankRow), settlement : Seq(SettlementRow), ledger : Seq(LedgerRow)]
      /\ setup \in Setups /\ setup.n_orders \in Nat /\ setup.unresolvable \in Nat
      /\ orders = <<>> /\ batches \in Seq(Seq(Order(setup.n_orders)) \ {<<>>})
  BY SetupFacts DEF DataInv, DataTypes, Settling
<1>2a. PICK n \in Nat, file \in Seq(SettlementRow) : n = setup.n_orders /\ file = files.settlement
  BY <1>1
<1>2b. PICK bs, id : bs = batches /\ id = <<"ord", l>>
  OBVIOUS
<1>2. n = setup.n_orders /\ file = files.settlement /\ bs = batches /\ id = <<"ord", l>>
  BY <1>2a, <1>2b
<1>3. l \in 1..n /\ files.ledger[l].order_id = id
  <2>1. Len(files.ledger) = setup.n_orders /\ \A k \in 1..setup.n_orders : files.ledger[k].order_id = <<"ord", k>>
    BY DEF DataInv, LedgerMade
  <2>2. DOMAIN files.ledger = 1..Len(files.ledger)
    BY <1>1
  <2> QED BY <1>2, <2>1, <2>2
<1>4. PICK paid : paid = {i \in Payments(files.settlement) :
                            files.settlement[i].order_id = files.ledger[l].order_id}
  OBVIOUS
<1>5. paid = {i \in DOMAIN file : file[i].type = "payment" /\ file[i].order_id = id}
  BY <1>2, <1>3, <1>4 DEF Payments
<1>6a. PICK built \in Nat : built = Len(batches)
  BY <1>1
<1>6b. PICK first : first = Len(batches) + setup.bank_only
  OBVIOUS
<1>6. built = Len(batches) /\ first = Len(batches) + setup.bank_only
  BY <1>6a, <1>6b
<1>7. /\ AllMade(file, bs, built, first, setup.unresolvable) /\ IdsOnce(file)
      /\ AllPaid(file, bs, built) /\ DOMAIN bs = 1..built
  <2>1. Built = Len(batches) /\ Pairs = setup.unresolvable
    BY DEF Built, Pairs
  <2>2. DOMAIN bs = 1..built
    BY <1>1, <1>2, <1>6
  <2> QED BY <1>2, <1>6, <2>1, <2>2 DEF DataInv, RowsSettled
<1>8. ASSUME NEW i \in paid
      PROVE  \E b \in 1..built : \E o \in DOMAIN bs[b] :
               OfOrder(file[i], b, o, bs[b][o], "pay") /\ bs[b][o].order_id = id
  <2>1. i \in DOMAIN file /\ file[i].type = "payment" /\ file[i].order_id = id
    BY <1>5
  <2>2. IsMade(file[i], bs, built, first, setup.unresolvable)
    BY <1>7, <2>1 DEF AllMade
  <2>3. ASSUME NEW j \in 1..setup.unresolvable, NEW twin \in {"a", "b"},
               OfTwin(file[i], first, j, twin)
        PROVE  FALSE
    <3>1. file[i].order_id = <<twin, j>>
      BY <2>3 DEF OfTwin
    <3>2. <<twin, j>> = <<"ord", l>>
      BY <1>2, <2>1, <3>1
    <3>3. twin = "ord"
      BY <3>2
    <3> QED BY <3>3
  <2>4. PICK b \in 1..built : \E o \in DOMAIN bs[b] : \E kind \in Kinds :
           OfOrder(file[i], b, o, bs[b][o], kind)
    BY <2>2, <2>3 DEF IsMade
  <2>5. PICK o \in DOMAIN bs[b] : \E kind \in Kinds : OfOrder(file[i], b, o, bs[b][o], kind)
    BY <2>4
  <2>6. PICK kind \in Kinds : OfOrder(file[i], b, o, bs[b][o], kind)
    BY <2>5
  <2>7. kind = "pay" /\ file[i].order_id = bs[b][o].order_id
    BY <2>1, <2>6 DEF OfOrder
  <2>8. OfOrder(file[i], b, o, bs[b][o], "pay") /\ bs[b][o].order_id = id
    BY <2>1, <2>6, <2>7
  <2> QED BY <2>8
<1>9. CASE id \in Victims
  <2>1. ASSUME NEW i \in paid PROVE FALSE
    <3>0. PICK b \in 1..built : \E o \in DOMAIN bs[b] : bs[b][o].order_id = id
      BY <1>8
    <3>1. PICK o \in DOMAIN bs[b] : bs[b][o].order_id = id
      BY <3>0
    <3>2. batches[b][o].order_id \notin Victims
      BY <1>2, <1>7, <3>1 DEF DataInv, OrdersPlaced, PlacedOnce
    <3> QED BY <1>2, <1>9, <3>1, <3>2
  <2>2. paid = {}
    BY <2>1
  <2> QED BY <1>3, <1>4, <1>9, <2>2
<1>10. CASE id \notin Victims
  <2>1. PICK b \in 1..built : \E o \in DOMAIN bs[b] : bs[b][o].order_id = id
    <3>1. Placed(id)
      <4>1. id \in {<<"ord", k>> : k \in 1..setup.n_orders}
        BY <1>2, <1>3
      <4> QED BY <4>1 DEF DataInv, OrdersPlaced, NoneLost
    <3>2. DOMAIN orders = {}
      BY <1>1
    <3> QED BY <1>2, <1>7, <1>10, <3>1, <3>2 DEF Placed
  <2>2. PICK o \in DOMAIN bs[b] : bs[b][o].order_id = id
    BY <2>1
  <2>3. PICK r \in DOMAIN file : OfOrder(file[r], b, o, bs[b][o], "pay")
    BY <1>7, Zenon DEF AllPaid
  <2>4. PICK order : order = bs[b][o]
    OBVIOUS
  <2>5. /\ file[r].type = "payment" /\ file[r].order_id = id /\ file[r].amount = order.amount
        /\ file[r].settlement_id = <<"pay", b, o>>
    BY <2>2, <2>3, <2>4 DEF OfOrder
  <2>6. r \in paid
    BY <1>5, <2>5
  <2>7. ASSUME NEW i \in paid PROVE i = r
    <3>1. PICK c \in 1..built : \E p \in DOMAIN bs[c] :
                OfOrder(file[i], c, p, bs[c][p], "pay") /\ bs[c][p].order_id = id
      BY <1>8
    <3>2. PICK p \in DOMAIN bs[c] : OfOrder(file[i], c, p, bs[c][p], "pay") /\ bs[c][p].order_id = id
      BY <3>1
    <3>3. c = b /\ p = o
      <4>1. /\ c \in DOMAIN batches /\ b \in DOMAIN batches
            /\ p \in DOMAIN batches[c] /\ o \in DOMAIN batches[b]
            /\ batches[c][p].order_id = batches[b][o].order_id
        BY <1>2, <1>7, <2>2, <3>2
      <4>2. \A x, c2 \in DOMAIN batches : \A y \in DOMAIN batches[x], p2 \in DOMAIN batches[c2] :
              batches[x][y].order_id = batches[c2][p2].order_id => x = c2 /\ y = p2
        BY DEF DataInv, OrdersPlaced, PlacedOnce
      <4> QED BY <4>1, <4>2, Zenon
    <3>4. file[i].settlement_id = <<"pay", b, o>>
      BY <3>2, <3>3 DEF OfOrder
    <3>5. i \in DOMAIN file
      BY <1>5
    <3> QED BY <1>7, <2>5, <3>4, <3>5 DEF IdsOnce
  <2>8. paid = {r}
    BY <2>6, <2>7
  <2>9. order.amount = files.ledger[l].gross_amount
    <3>1. \A x \in DOMAIN batches : \A y \in DOMAIN batches[x] :
             batches[x][y].order_id = <<"ord", l>>
               => batches[x][y].amount = files.ledger[l].gross_amount
      BY <1>2, <1>3 DEF DataInv, LedgerMade
    <3>2. b \in DOMAIN batches /\ o \in DOMAIN batches[b] /\ batches[b][o].order_id = <<"ord", l>>
      BY <1>2, <1>7, <2>2
    <3> QED BY <1>2, <2>4, <3>1, <3>2
  <2>10. files.settlement[r].amount = files.ledger[l].gross_amount
    BY <1>2, <2>5, <2>9
  <2> QED BY <1>3, <1>4, <1>10, <2>8, <2>10
<1> QED BY <1>9, <1>10

\* The ground truth says of the files what is true of them: generate leaves every credit
\* accounted for once, by a batch whose rows it names, and every order paid once or not
\* at all.
THEOREM TruthIsOfTheFiles == BenchmarkSpec => []TruthMatchesTheFiles
<1>1. DataInv => TruthMatchesTheFiles
  <2> SUFFICES ASSUME DataInv, step = "written" PROVE TruthMatchesTheFiles
    BY DEF TruthMatchesTheFiles
  <2> DEFINE OnBank == {e \in truth.planted : e.row # NoRow}
             Settled1(utr) == {files.settlement[i].settlement_id :
                                 i \in SpelledGroup(files.settlement, DOMAIN files.settlement, utr)}
             rowsOf == [b \in DOMAIN files.bank |->
                 Cardinality({m \in truth.expected : m.row = b})
                 + Cardinality({e \in OnBank : e.row = b})
                 + Cardinality({u \in truth.unresolvable : u.row = b})]
             ledgerOnly == UNION {e.orders : e \in {p \in truth.planted : p.label = "LEDGER_ONLY"}}
             Paid(l) == {i \in Payments(files.settlement) :
                            files.settlement[i].order_id = files.ledger[l].order_id}
  <2>1. \A utr : Settled1(utr) = IdsUnder(files.settlement, utr)
    BY DEF IdsUnder, Under
  <2>2. /\ \A m \in truth.expected : IsExpected(m, files, Built)
        /\ \A e \in truth.planted : IsPlanted(e, files, Built, Strays)
        /\ \A b \in DOMAIN files.bank : ToldOnce(truth, b)
    BY DEF DataInv, Truthful
  <2>3. \A m \in truth.expected :
           /\ Range(m.ids) = Settled1(m.utr)
           /\ files.bank[m.row].credit =
                Net(files.settlement,
                    SpelledGroup(files.settlement, DOMAIN files.settlement, m.utr))
    BY <2>1, <2>2 DEF IsExpected, Under
  <2>4. ASSUME NEW e \in OnBank, e.label # "BANK_ONLY"
        PROVE  \E u \in Utrs : Range(e.ids) = Settled1(u)
    <3>1. e.row \in 1..Built /\ Range(e.ids) = IdsUnder(files.settlement, e.row)
      BY <2>2, <2>4 DEF IsPlanted
    <3>2. e.row \in Utrs
      <4>1. setup \in Setups /\ Len(orders) \in Nat /\ Len(batches) \in Nat
        <5>1. /\ setup \in Setups /\ orders \in Seq(Order(setup.n_orders))
              /\ batches \in Seq(Seq(Order(setup.n_orders)) \ {<<>>})
          BY DEF DataInv, DataTypes
        <5> QED BY <5>1
      <4>2. Built = Len(batches) /\ Len(batches) + Len(orders) <= setup.n_orders
        BY DEF Built, DataInv, OrdersPlaced, FewBatches
      <4>3. PICK n \in Nat, s \in Nat, u \in Nat :
              n = setup.n_orders /\ s = setup.bank_only /\ u = setup.unresolvable
        BY <4>1, SetupFacts
      <4>3a. PICK m \in Nat, k \in Nat : m = Len(batches) /\ k = Len(orders)
        BY <4>1
      <4>3b. e.row \in 1..m /\ m + k <= n
        BY <3>1, <4>2, <4>3, <4>3a
      <4>4. e.row \in 1..(n + s + 2 * u)
        BY <4>3b
      <4> QED BY <4>1, <4>3, <4>4, NameFacts
    <3> QED BY <2>1, <3>1, <3>2
  <2>5. ASSUME NEW b \in DOMAIN files.bank PROVE rowsOf[b] = 1
    <3>1. b # NoRow
      <4>1. files.bank \in Seq(BankRow)
        BY DEF DataInv, DataTypes
      <4> QED BY <4>1 DEF NoRow
    <3>2. OfRow(OnBank, b) = OfRow(truth.planted, b)
      BY <3>1 DEF OfRow
    <3>3. ToldOnce(truth, b)
      BY <2>2
    <3> HIDE DEF OnBank
    <3> QED BY <3>2, <3>3, CreditsAccounted
  <2>6. ASSUME NEW l \in DOMAIN files.ledger
        PROVE  Cardinality(Paid(l)) = IF files.ledger[l].order_id \in ledgerOnly THEN 0 ELSE 1
    <3>1. ledgerOnly = Victims
      BY DEF Victims
    <3>2. IF files.ledger[l].order_id \in Victims THEN Paid(l) = {} ELSE \E i : Paid(l) = {i}
      BY PaidOnce
    <3> HIDE DEF Paid, ledgerOnly
    <3> QED BY <3>1, <3>2, FS_EmptySet, FS_Singleton
  <2> HIDE DEF Settled1, rowsOf, ledgerOnly, OnBank, Paid
  <2> QED BY <2>3, <2>4, <2>5, <2>6 DEF TruthMatchesTheFiles, Settled1, rowsOf, ledgerOnly, OnBank, Paid
<1> QED BY DatasetInvariant, <1>1, PTL

-----------------------------------------------------------------------------
(* A run of the dataset                                                    *)

\* The invariant of a run whose input was generated: the run's own, and that its input
\* is the dataset.
DatasetRun == RunOfDataset /\ (pc # "waiting" => FoundInv)

\* A generated dataset gives a run no reason to raise: every credit is a number, every
\* order has a price, and no identifier is used twice.
Sound ==
  /\ \A b \in DOMAIN bank : bank[b].credit # Blank
  /\ \A l \in DOMAIN ledger : ledger[l].gross_amount # 0
  /\ IdsDistinct

\* No credit of a dataset is blank, no order of it is without a price, and no identifier
\* is used twice: run_pipeline finds nothing to raise about.
LEMMA DatasetIsSound ==
  ASSUME DataInv, RunOfDataset, pc # "waiting"
  PROVE  Sound
<1>1. step = "written" /\ bank = files.bank /\ settlement = files.settlement /\ ledger = files.ledger
  BY DEF RunOfDataset
<1>2. \A b \in DOMAIN bank : bank[b].credit # Blank
  BY <1>1, AbsentAssumption DEF DataInv, DataTypes
<1>3. \A l \in DOMAIN ledger : ledger[l].gross_amount \in Prices /\ ledger[l].order_id = <<"ord", l>>
  <2>1. Len(ledger) = setup.n_orders
        /\ \A l \in 1..setup.n_orders :
             ledger[l].order_id = <<"ord", l>> /\ ledger[l].gross_amount \in Prices
    BY <1>1 DEF DataInv, LedgerMade
  <2>2. ledger \in Seq(LedgerRow)
    BY <1>1 DEF DataInv, DataTypes
  <2> QED BY <2>1, <2>2
<1>4. \A l \in DOMAIN ledger : ledger[l].gross_amount # 0
  BY <1>3 DEF Prices
<1>5. \A l, k \in DOMAIN ledger : ledger[l].order_id = ledger[k].order_id => l = k
  BY <1>3
<1>6. \A i, j \in DOMAIN settlement :
         settlement[i].settlement_id = settlement[j].settlement_id => i = j
  BY <1>1 DEF DataInv, RowsSettled, IdsOnce
<1> QED BY <1>2, <1>4, <1>5, <1>6 DEF Sound, IdsDistinct

\* The ledger row of a matched payment is one of the file.
LEMMA MatchedLedgerRow ==
  ASSUME IInv, Past3, NEW m \in stage3.matched
  PROVE  \E l \in DOMAIN ledger : LedgerOf(ledger, m.order) = ledger[l] /\ ledger[l].order_id = m.order
<1>1. stage3 = OrderOutcome /\ ledger \in Seq(LedgerRow)
  BY InputFacts DEF IInv, Matching, Control
<1>2. m \in OrderMatched(settlement, ledger)
  BY <1>1 DEF OrderOutcome, MatchOrder, StageResult
<1>3. LedgerPositions(ledger, m.order) # {}
  BY <1>2 DEF OrderMatched
<1>4. PICK S : S = LedgerPositions(ledger, m.order)
  OBVIOUS
<1>5. S \in SUBSET Nat /\ IsFiniteSet(S) /\ S # {} /\ S \subseteq DOMAIN ledger
  <2>1. IsFiniteSet(DOMAIN ledger) /\ DOMAIN ledger \subseteq Nat
    BY <1>1, PositionsFinite
  <2>2. S \subseteq DOMAIN ledger
    BY <1>4 DEF LedgerPositions
  <2> QED BY <1>3, <1>4, <2>1, <2>2, FS_Subset
<1>6. PICK l \in S : l = Max(S)
  <2>1. PICK n \in Nat : n = Len(ledger) /\ DOMAIN ledger = 1..n
    BY <1>1
  <2>2. S \in SUBSET (1..n)
    BY <1>5, <2>1
  <2> QED BY <1>5, <2>2, LargestNat
<1>7. l \in DOMAIN ledger /\ ledger[l].order_id = m.order
  BY <1>4, <1>6 DEF LedgerPositions
<1>8. LedgerOf(ledger, m.order) = ledger[l]
  BY <1>4, <1>6 DEF LedgerOf
<1> QED BY <1>7, <1>8

\* No step of the cascade raises then.
LEMMA NoStepRaises ==
  ASSUME IInv, Sound, Next
  PROVE  pc' # "raised"
<1>1. CASE RunStage1
  <2>1. ~ UtrRaises(bank, settlement)
    BY DEF Sound, UtrRaises
  <2> QED BY <1>1, <2>1 DEF RunStage1
<1>2. CASE RunStage5
  <2>1. pc = "stage5"
    BY <1>2 DEF RunStage5
  <2>2. Past1
    BY <2>1 DEF Past1, Past
  <2>3. stage1 \in UtrResults
    BY <2>2, UtrOutcomeFacts DEF IInv, Matching, Control
  <2>4. \A b \in stage1.residue_bank : b \in DOMAIN bank
    BY <2>3 DEF UtrResults
  <2>5. ~ FuzzyRaises(bank, settlement, stage1.residue_bank, stage1.residue_settlement)
    BY <2>4 DEF Sound, FuzzyRaises
  <2> QED BY <1>2, <2>5 DEF RunStage5
<1>3. CASE RunStage3
  BY <1>3 DEF RunStage3
<1>4. CASE AuditBridges
  BY <1>4 DEF AuditBridges
<1>5. CASE ValidateTds
  <2>1. pc = "stage4"
    BY <1>5 DEF ValidateTds
  <2>2. Past3
    BY <2>1 DEF Past3, Past
  <2>3. ASSUME NEW m \in stage3.matched PROVE MatchRule(m) # "ZERO_DIVISION"
    <3>1. PICK l \in DOMAIN ledger : LedgerOf(ledger, m.order) = ledger[l]
      BY <2>2, MatchedLedgerRow
    <3>2. ledger[l].gross_amount # 0
      BY DEF Sound
    <3> QED BY <3>1, <3>2 DEF MatchRule, TdsRule
  <2>4. \A m \in (IF input.use_stage4 THEN stage3.matched ELSE {}) : MatchRule(m) # "ZERO_DIVISION"
    BY <2>3
  <2>5. pc' = "stage6"
    BY <1>5, <2>4, Zenon DEF ValidateTds
  <2> QED BY <2>5
<1>6. CASE ClassifyResidues
  <2>1. pc = "stage6"
    BY <1>6 DEF ClassifyResidues
  <2>2. Past1 /\ Past5
    BY <2>1 DEF Past1, Past5, Past
  <2>3. stage5 \in UtrResults
    BY <2>2, FuzzyOutcomeFacts DEF IInv, Matching, Control
  <2>4. \A b \in stage5.residue_bank : bank[b].credit # Blank
    BY <2>3 DEF UtrResults, Sound
  <2> QED BY <1>6, <2>4 DEF ClassifyResidues
<1>7. CASE Account
  <2>1. pc = "account"
    BY <1>7 DEF Account
  <2>2. Past3
    BY <2>1 DEF Past3, Past
  <2>3. Counts.matched + Counts.needs_review + Counts.exception = TotalInputRows
    BY <2>2, CountsAddUp DEF Sound
  <2> QED BY <1>7, <2>3 DEF Account
<1> QED BY <1>1, <1>2, <1>3, <1>4, <1>5, <1>6, <1>7 DEF Next

\* A dataset that is run is complete: nothing is added to it.
LEMMA WrittenStays ==
  ASSUME step = "written", [BenchmarkNext]_<<vars, generatorVars>>
  PROVE  UNCHANGED generatorVars /\ ([Next]_vars \/ Evaluate)
<1>1. ~ Generate
  BY DEF Generate, MakeOrders, BuildLedger, PlantTdsDefects, PlantLedgerOnly, DrawBatch,
     AssignDefects, BuildBatch, PlantBankOnly, PlantUnresolvable
<1> QED BY <1>1, Zenon DEF BenchmarkNext

\* Evaluate starts a run of the files.
LEMMA EvaluateStarts ==
  ASSUME DataInv, DatasetRun, Evaluate
  PROVE  /\ Starts'
         /\ bank' = files.bank /\ settlement' = files.settlement /\ ledger' = files.ledger
<1>1. PICK config \in setup.configs : input' = Arguments(files, config)
  BY DEF Evaluate
<1>2. /\ config \in [use_stage2 : BOOLEAN, use_stage3 : BOOLEAN, use_stage4 : BOOLEAN,
                     use_stage5 : BOOLEAN, auto_threshold : 0..MaxScore]
      /\ files \in [bank : Seq(BankRow), settlement : Seq(SettlementRow), ledger : Seq(LedgerRow)]
  BY ConfigAssumption DEF DataInv, DataTypes
<1>3. PICK args : args = Arguments(files, config)
  OBVIOUS
<1>4. /\ args \in InputRecord
      /\ args.bank = files.bank /\ args.settlement = files.settlement /\ args.ledger = files.ledger
  BY <1>2, <1>3 DEF Arguments, InputRecord
<1>5. pc = "waiting" /\ pc' = "stage1"
      /\ UNCHANGED <<stage1, stage5, stage3, exceptions, bridges, flagged, report, error>>
  BY DEF Evaluate
<1>6. input' = args
  BY <1>1, <1>3
<1> QED BY <1>4, <1>5, <1>6 DEF Starts, DatasetRun, RunOfDataset, bank, settlement, ledger


\* A run that starts has the run's invariant.
LEMMA StartsFound == Starts' => FoundInv'
BY InitInvariant, NothingFound, PTL DEF FoundInv

\* A step of the generator or of the cascade keeps the run's invariant.
LEMMA DatasetRunNext ==
  DataInv /\ DatasetRun /\ [BenchmarkNext]_<<vars, generatorVars>> => DatasetRun'
<1> SUFFICES ASSUME DataInv, DatasetRun, [BenchmarkNext]_<<vars, generatorVars>>
             PROVE  DatasetRun'
  OBVIOUS
<1>1. ASSUME UNCHANGED vars, pc = "waiting" PROVE DatasetRun'
  BY <1>1 DEF vars, DatasetRun, RunOfDataset
<1>2. CASE step # "written"
  <2>1. pc = "waiting"
    BY <1>2 DEF DatasetRun, RunOfDataset
  <2>2. ~ Next /\ ~ Evaluate
    BY <1>2, <2>1 DEF Next, RunStage1, RunStage5, RunStage3, AuditBridges, ValidateTds,
       ClassifyResidues, Account, Evaluate
  <2>3. UNCHANGED vars
    BY <2>2, Zenon DEF BenchmarkNext
  <2> QED BY <1>1, <2>1, <2>3
<1>3. CASE step = "written"
  <2>1. UNCHANGED generatorVars /\ ([Next]_vars \/ Evaluate)
    BY <1>3, WrittenStays
  <2>2. files' = files /\ step' = "written"
    BY <1>3, <2>1 DEF generatorVars
  <2>3. CASE Evaluate
    <3>1. Starts' /\ bank' = files.bank /\ settlement' = files.settlement /\ ledger' = files.ledger
      BY <2>3, EvaluateStarts
    <3>2. FoundInv'
      BY <3>1, StartsFound
    <3>3. pc' = "stage1"
      BY <3>1 DEF Starts
    <3>4. RunOfDataset'
      BY <2>2, <3>1, <3>3 DEF RunOfDataset
    <3> QED BY <3>2, <3>4 DEF DatasetRun
  <2>4. CASE [Next]_vars /\ pc = "waiting"
    <3>1. ~ Next
      BY <2>4 DEF Next, RunStage1, RunStage5, RunStage3, AuditBridges, ValidateTds,
         ClassifyResidues, Account
    <3> QED BY <1>1, <2>4, <3>1
  <2>5. CASE [Next]_vars /\ pc # "waiting"
    <3>1. FoundInv /\ IInv
      BY <2>5 DEF DatasetRun, FoundInv
    <3>2. IInv' /\ AsFound'
      BY <2>5, <3>1, InvariantSteps, FoundStep
    <3>3. Sound
      BY <2>5, DatasetIsSound DEF DatasetRun
    <3>4. pc' # "raised"
      <4>1. pc # "raised"
        BY <2>5 DEF DatasetRun, RunOfDataset
      <4>2. CASE Next
        BY <3>1, <3>3, <4>2, NoStepRaises
      <4>3. CASE UNCHANGED vars
        BY <4>1, <4>3 DEF vars
      <4> QED BY <2>5, <4>2, <4>3
    <3>5. input' = input
      BY <2>5 DEF vars, Next, RunStage1, RunStage5, RunStage3, AuditBridges, ValidateTds,
         ClassifyResidues, Account, Raise
    <3>6. bank' = bank /\ settlement' = settlement /\ ledger' = ledger
      BY <3>5, Frame
    <3>7. pc' # "waiting"
      BY <3>2 DEF IInv, Control
    <3>8. RunOfDataset'
      BY <2>2, <2>5, <3>4, <3>6, <3>7 DEF DatasetRun, RunOfDataset
    <3> QED BY <3>2, <3>8 DEF DatasetRun, FoundInv
  <2> QED BY <2>1, <2>3, <2>4, <2>5
<1> QED BY <1>2, <1>3

\* A run of a generated dataset has the invariant of every run, and is of that dataset.
THEOREM DatasetRunInvariant == BenchmarkSpec => []DatasetRun
<1>1. BenchmarkInit => DatasetRun
  BY DEF BenchmarkInit, DatasetRun, RunOfDataset
<1> QED BY DatasetInvariant, <1>1, DatasetRunNext, PTL DEF BenchmarkSpec

\* run_pipeline accounts for every dataset generate writes: no configuration of the
\* ablation raises on one.
THEOREM GeneratedIsAccepted == BenchmarkSpec => []GeneratedRunCompletes
<1>1. DatasetRun => GeneratedRunCompletes
  BY DEF DatasetRun, RunOfDataset, GeneratedRunCompletes
<1> QED BY DatasetRunInvariant, <1>1, PTL

-----------------------------------------------------------------------------
(* The labels of the orders                                                *)

\* The TDS defects planted in an order.
TdsLabels(t, id) ==
  {e.label : e \in {p \in t.planted : id \in p.orders /\ p.label # "LEDGER_ONLY"}}

\* A row as the ledger is built: TDS at the rate of section s, or none.
OnSection(row, s) ==
  IF row.migrated
    THEN row.tds_section_legacy = NoCode /\ row.tds_code_new = LegacyToNewCode[s]
    ELSE row.tds_section_legacy = s /\ row.tds_code_new = NoCode

Deducted(row, s) ==
  OnSection(row, s) /\ row.tds_amount = TdsFor(row.gross_amount, s, row.has_pan)

AsDrawn(row) == row.tds_amount = 0 \/ \E s \in DOMAIN LegacyToNewCode : Deducted(row, s)

\* What Stage 4 says of a row is what was planted in it.
LabelledRow(row, labels) ==
  \/ labels = {} /\ TdsRule(row) = "NONE"
  \/ labels = {"TDS_CODE_MIGRATION_BREAK"} /\ TdsRule(row) \in {"A", "B"}
  \/ labels = {"TDS_AMOUNT_MISMATCH"} /\ (TdsRule(row) = "D" \/ row.tds_amount <= 0)

Unlabelled == {"orders", "ledger", "tds_defects"}

LabelInv ==
  /\ step \in Unlabelled => truth.planted = {}
  /\ step = "tds_defects" => \A l \in DOMAIN files.ledger : AsDrawn(files.ledger[l])
  /\ step \notin Unlabelled =>
       \A l \in DOMAIN files.ledger :
          LabelledRow(files.ledger[l], TdsLabels(truth, files.ledger[l].order_id))

\* The tables of a section: its code, and the rate both sides have for it.
LEMMA SectionFacts ==
  ASSUME NEW s \in DOMAIN LegacyToNewCode, NEW code, code = LegacyToNewCode[s],
         NEW hasPan \in BOOLEAN
  PROVE  /\ s \in LegacySections /\ s # NoCode /\ code \in PaymentCodes /\ code # NoCode
         /\ s \in DOMAIN CodeMap /\ CodeMap[s] = code /\ code \in DOMAIN RateWithPan
         /\ TdsRateFor(code, hasPan) = IF hasPan THEN RateWithPan[code] ELSE RateNoPan[code]
<1>2. s \in LegacySections /\ code \in PaymentCodes
  BY NameAssumption
<1>3. s # NoCode /\ code # NoCode
  BY <1>2, AbsentAssumption
<1>4. /\ s \in DOMAIN CodeMap /\ CodeMap[s] = code /\ code \in DOMAIN RateWithPan
      /\ RateWithPan[code] = TdsRateFor(code, TRUE) /\ RateNoPan[code] = TdsRateFor(code, FALSE)
  BY TableAssumption
<1>6. TdsRateFor(code, hasPan) = IF hasPan THEN RateWithPan[code] ELSE RateNoPan[code]
  BY <1>4
<1>7. s \in LegacySections /\ s # NoCode /\ code \in PaymentCodes /\ code # NoCode
  BY <1>2, <1>3
<1>8. s \in DOMAIN CodeMap /\ CodeMap[s] = code /\ code \in DOMAIN RateWithPan
  BY <1>4
<1> QED BY <1>6, <1>7, <1>8

\* A deduction at a rate of the schedule is positive, and the rate read off it again is
\* that rate.
Rates == {100, 500, 1000, 2000}

At(g, r) == HalfUp(g * r, 10000)

\* The deduction at a rate implies that rate, within the tolerance of the rules.
LEMMA DeductionFacts ==
  ASSUME NEW g \in Prices, NEW r \in Rates, NEW t, t = At(g, r)
  PROVE  t \in Int /\ t > 0 /\ ~ (Abs(ImpliedRate(t, g) - r) > TdsRateTolerance)
<1>1. g \in Int /\ g >= 50000
  BY DEF Prices
<1>2. PICK w \in Int : w = g * r /\ w >= 50000 * r
  <2>1. r \in Int /\ r > 0
    BY DEF Rates
  <2>2. g * r \in Int /\ g * r >= 50000 * r
    BY <1>1, <2>1
  <2> QED BY <2>2
<1>2a. r \in Int /\ r >= 100
  BY DEF Rates
<1>3. t \in Int /\ 2 * w - 10000 <= 20000 * t /\ 20000 * t <= 2 * w + 10000
  <2>1. t = HalfUp(w, 10000)
    BY <1>2 DEF At
  <2>2. t \in Int /\ 2 * w - 10000 <= 2 * (10000 * t) /\ 2 * (10000 * t) <= 2 * w + 10000
    BY <2>1, HalfUpBounds
  <2> QED BY <2>2
<1>4. t > 0
  BY <1>2, <1>2a, <1>3
<1>5. PICK d \in Int, p \in Int :
        /\ d = ImpliedRate(t, g) /\ p = g * d
        /\ 20000 * t - g <= 2 * p /\ 2 * p <= 20000 * t + g
  <2>1. PICK v \in Int : v = t * 10000
    BY <1>3
  <2>2. PICK d : d = HalfUp(v, g)
    OBVIOUS
  <2>3. d \in Int /\ 2 * v - g <= 2 * (g * d) /\ 2 * (g * d) <= 2 * v + g
    <3>1. v \in Int /\ g \in Int /\ g > 0
      BY <1>1
    <3> QED BY <2>2, <3>1, HalfUpBounds
  <2>4. d = ImpliedRate(t, g)
    BY <2>1, <2>2 DEF ImpliedRate
  <2>5. PICK p \in Int : p = g * d
    BY <1>1, <2>3
  <2> QED BY <1>3, <2>1, <2>3, <2>4, <2>5
<1>6. 2 * w - 10000 - g <= 2 * p /\ 2 * p <= 2 * w + 10000 + g
  BY <1>1, <1>3, <1>5
<1>7. d <= r + 10
  <2> SUFFICES ASSUME d >= r + 11 PROVE FALSE
    BY <1>2a, <1>5
  <2>1. g * d >= g * (r + 11)
    BY <1>1, <1>2a, <1>5
  <2>2. g * (r + 11) = w + 11 * g
    BY <1>1, <1>2, <1>2a
  <2>3. p >= w + 11 * g
    BY <1>5, <2>1, <2>2
  <2> QED BY <1>1, <1>6, <2>3
<1>8. d >= r - 10
  <2> SUFFICES ASSUME d <= r - 11 PROVE FALSE
    BY <1>2a, <1>5
  <2>1. g * d <= g * (r - 11)
    BY <1>1, <1>2a, <1>5
  <2>2. g * (r - 11) = w - 11 * g
    BY <1>1, <1>2, <1>2a
  <2>3. p <= w - 11 * g
    BY <1>5, <2>1, <2>2
  <2> QED BY <1>1, <1>6, <2>3
<1>9. ~ (Abs(d - r) > TdsRateTolerance)
  BY <1>2a, <1>5, <1>7, <1>8 DEF Abs, TdsRateTolerance
<1>10. d = ImpliedRate(t, g)
  BY <1>5
<1>11. ~ (Abs(ImpliedRate(t, g) - r) > TdsRateTolerance)
  BY <1>9, <1>10, Zenon
<1> QED BY <1>3, <1>4, <1>11

\* Stage 4 finds the section of a row back, and no contradiction in it.
LEMMA OnSectionFacts ==
  ASSUME NEW row \in LedgerRow, NEW s \in DOMAIN LegacyToNewCode, OnSection(row, s)
  PROVE  /\ ~ MigrationBreak(row) /\ ~ Contradiction(row)
         /\ EffectiveCode(row) # NoCode /\ EffectiveCode(row) \in DOMAIN RateWithPan
         /\ ScheduledRate(row) = TdsRateFor(LegacyToNewCode[s], row.has_pan)
<1>1. row.has_pan \in BOOLEAN /\ row.migrated \in BOOLEAN
  BY DEF LedgerRow
<1>2. PICK code : code = LegacyToNewCode[s]
  OBVIOUS
<1>3. /\ s # NoCode /\ code # NoCode /\ s \in DOMAIN CodeMap /\ CodeMap[s] = code
      /\ code \in DOMAIN RateWithPan
      /\ TdsRateFor(code, row.has_pan) = IF row.has_pan THEN RateWithPan[code] ELSE RateNoPan[code]
  BY <1>1, <1>2, SectionFacts
<1>4. NoCode \notin DOMAIN CodeMap
  BY TdsAssumption, AbsentAssumption
<1>5. \/ row.migrated /\ row.tds_section_legacy = NoCode /\ row.tds_code_new = code
      \/ ~row.migrated /\ row.tds_section_legacy = s /\ row.tds_code_new = NoCode
  BY <1>1, <1>2 DEF OnSection
<1>6. ~ MigrationBreak(row) /\ ~ Contradiction(row)
  BY <1>3, <1>4, <1>5 DEF MigrationBreak, Contradiction, Mapped
<1>7. EffectiveCode(row) = code
  BY <1>3, <1>5 DEF EffectiveCode, Mapped
<1>8. ScheduledRate(row) = TdsRateFor(code, row.has_pan)
  BY <1>3, <1>7 DEF ScheduledRate
<1> QED BY <1>2, <1>3, <1>6, <1>7, <1>8, Zenon

\* The deduction of a row as it was drawn.
LEMMA DeductedFacts ==
  ASSUME NEW row \in LedgerRow, NEW s \in DOMAIN LegacyToNewCode,
         Deducted(row, s), row.gross_amount \in Prices
  PROVE  /\ row.tds_amount \in Int /\ row.tds_amount > 0
         /\ row.tds_amount = At(row.gross_amount, ScheduledRate(row))
         /\ ~ (RateDelta(row) > TdsRateTolerance)
<1>1. ScheduledRate(row) = TdsRateFor(LegacyToNewCode[s], row.has_pan)
  BY OnSectionFacts DEF Deducted
<1>2. ScheduledRate(row) \in Rates
  <2>1. TdsRateFor(LegacyToNewCode[s], row.has_pan) \in Rates
    BY DEF TdsRateFor, Rates
  <2> QED BY <1>1, <2>1
<1>3. row.tds_amount = At(row.gross_amount, ScheduledRate(row))
  <2>1. TdsFor(row.gross_amount, s, row.has_pan)
          = At(row.gross_amount, TdsRateFor(LegacyToNewCode[s], row.has_pan))
    BY DEF TdsFor, At
  <2> QED BY <1>1, <2>1, Zenon DEF Deducted
<1>4. /\ row.tds_amount \in Int /\ row.tds_amount > 0
      /\ ~ (Abs(ImpliedRate(row.tds_amount, row.gross_amount) - ScheduledRate(row))
              > TdsRateTolerance)
  BY <1>2, <1>3, DeductionFacts, Zenon
<1>5. ~ (RateDelta(row) > TdsRateTolerance)
  <2>1. RateDelta(row) = Abs(ImpliedRate(row.tds_amount, row.gross_amount) - ScheduledRate(row))
    BY DEF RateDelta, ImpliedRate
  <2> QED BY <1>4, <2>1, Zenon
<1> QED BY <1>3, <1>4, <1>5, Zenon

\* Stage 4 has nothing to say of a row as it was drawn.
LEMMA DrawnRule ==
  ASSUME NEW row \in LedgerRow, AsDrawn(row), row.gross_amount \in Prices
  PROVE  TdsRule(row) = "NONE"
<1>1. CASE row.tds_amount = 0
  BY <1>1 DEF TdsRule
<1>2. CASE \E s \in DOMAIN LegacyToNewCode : Deducted(row, s)
  <2>1. PICK s \in DOMAIN LegacyToNewCode : Deducted(row, s)
    BY <1>2
  <2>2. /\ ~ MigrationBreak(row) /\ ~ Contradiction(row)
        /\ EffectiveCode(row) # NoCode /\ EffectiveCode(row) \in DOMAIN RateWithPan
    BY <2>1, OnSectionFacts DEF Deducted
  <2>3. PICK h \in Int : /\ h = At(row.gross_amount, ScheduledRate(row))
                         /\ row.tds_amount = h
    BY <2>1, DeductedFacts, Zenon
  <2>4. AmountDelta(row) = Abs(h - h)
    <3>1. AmountDelta(row) = Abs(row.tds_amount - At(row.gross_amount, ScheduledRate(row)))
      BY DEF AmountDelta, At
    <3> QED BY <2>3, <3>1, Zenon
  <2>5. ~ (AmountDelta(row) > TdsAmountTolerance)
    BY <2>4 DEF Abs, TdsAmountTolerance
  <2>6. ~ (RateDelta(row) > TdsRateTolerance) /\ row.gross_amount # 0
    BY <2>1, DeductedFacts DEF Prices
  <2> QED BY <2>2, <2>5, <2>6, Zenon DEF TdsRule
<1> QED BY <1>1, <1>2 DEF AsDrawn

\* Stage 4 sees a planted drift, unless nothing is left of the deduction.
LEMMA DriftedRule ==
  ASSUME NEW row \in LedgerRow, NEW s \in DOMAIN LegacyToNewCode, Deducted(row, s),
         row.gross_amount \in Prices, NEW drift \in Int, drift >= 250 \/ drift <= -250
  PROVE  TdsRule(Drifted(row, drift)) = "D" \/ Drifted(row, drift).tds_amount <= 0
<1>1. PICK new : new = Drifted(row, drift)
  OBVIOUS
<1>2. PICK t \in Int : t = row.tds_amount /\ t = At(row.gross_amount, ScheduledRate(row))
  BY DeductedFacts
<1>3. /\ new \in LedgerRow /\ new.gross_amount = row.gross_amount /\ new.has_pan = row.has_pan
      /\ new.migrated = row.migrated /\ new.tds_section_legacy = row.tds_section_legacy
      /\ new.tds_code_new = row.tds_code_new /\ new.tds_amount = t + drift
  <2>1. new \in LedgerRow
    BY <1>1, DriftedEntry
  <2>2. PICK sum \in Int : sum = t + drift
    OBVIOUS
  <2>3. new = [row EXCEPT !.tds_amount = sum]
    BY <1>1, <1>2, <2>2 DEF Drifted
  <2> QED BY <2>1, <2>2, <2>3 DEF LedgerRow
<1>4. OnSection(row, s) /\ OnSection(new, s)
  BY <1>3 DEF Deducted, OnSection
<1>5. /\ ~ MigrationBreak(new) /\ ~ Contradiction(new)
      /\ EffectiveCode(new) # NoCode /\ EffectiveCode(new) \in DOMAIN RateWithPan
  BY <1>3, <1>4, OnSectionFacts
<1>6. ScheduledRate(new) = ScheduledRate(row)
  <2>1. ScheduledRate(new) = TdsRateFor(LegacyToNewCode[s], new.has_pan)
    BY <1>3, <1>4, OnSectionFacts
  <2>2. ScheduledRate(row) = TdsRateFor(LegacyToNewCode[s], row.has_pan)
    BY <1>4, OnSectionFacts
  <2> QED BY <1>3, <2>1, <2>2, Zenon
<1>7. AmountDelta(new) = Abs((t + drift) - t)
  <2>1. AmountDelta(new) = Abs(new.tds_amount - At(new.gross_amount, ScheduledRate(new)))
    BY DEF AmountDelta, At
  <2> QED BY <1>2, <1>3, <1>6, <2>1, Zenon
<1>8. AmountDelta(new) > TdsAmountTolerance
  BY <1>7 DEF Abs, TdsAmountTolerance
<1>9. TdsRule(new) = "D" \/ new.tds_amount <= 0
  BY <1>5, <1>8, Zenon DEF TdsRule
<1> QED BY <1>1, <1>9

\* Stage 4 sees a section without its new code, and one with another code.
LEMMA RestatedRule ==
  ASSUME NEW row \in LedgerRow, NEW s \in DOMAIN LegacyToNewCode,
         NEW code \in PaymentCodes \cup {NoCode}, row.migrated, row.gross_amount \in Prices,
         code # LegacyToNewCode[s]
  PROVE  TdsRule(Restated(row, s, code)) \in {"A", "B"}
<1>1. PICK new, g, pan : new = Restated(row, s, code) /\ g = row.gross_amount /\ pan = row.has_pan
  OBVIOUS
<1>2. PICK t \in Int : t = TdsFor(g, s, pan) /\ t > 0
  <2>1. TdsRateFor(LegacyToNewCode[s], pan) \in Rates
    BY DEF TdsRateFor, Rates
  <2>2. TdsFor(g, s, pan) = At(g, TdsRateFor(LegacyToNewCode[s], pan))
    BY DEF TdsFor, At
  <2> QED BY <1>1, <2>1, <2>2, DeductionFacts
<1>3. /\ new.tds_amount = t /\ new.migrated /\ new.tds_section_legacy = s
      /\ new.tds_code_new = code
  <2>1. new = [row EXCEPT !.tds_section_legacy = s, !.tds_code_new = code, !.tds_amount = t]
    BY <1>1, <1>2 DEF Restated
  <2> QED BY <2>1 DEF LedgerRow
<1>4. s # NoCode /\ s \in DOMAIN CodeMap /\ CodeMap[s] = LegacyToNewCode[s]
  <2>1. TRUE \in BOOLEAN
    OBVIOUS
  <2> QED BY <2>1, SectionFacts
<1>5. ~ (new.tds_amount <= 0)
  BY <1>2, <1>3
<1>6. ASSUME code = NoCode PROVE TdsRule(new) = "A"
  <2>1. MigrationBreak(new)
    BY <1>3, <1>4, <1>6 DEF MigrationBreak
  <2> QED BY <1>5, <2>1, Zenon DEF TdsRule
<1>7. ASSUME code # NoCode PROVE TdsRule(new) = "B"
  <2>1. ~ MigrationBreak(new)
    BY <1>3, <1>7 DEF MigrationBreak
  <2>2. Contradiction(new)
    BY <1>3, <1>4, <1>7 DEF Contradiction, Mapped
  <2> QED BY <1>5, <2>1, <2>2, Zenon DEF TdsRule
<1> QED BY <1>1, <1>6, <1>7

OrdersOnce(led) == \A j, k \in DOMAIN led : led[j].order_id = led[k].order_id => j = k

\* Each order has the label of its own group.
LEMMA PlannedLabels ==
  ASSUME NEW led, NEW section, NEW wrong, NEW drift, NEW t, NEW l \in DOMAIN led, NEW id,
         t.planted = TdsDefects(led, section, drift), id = led[l].order_id,
         TdsPlan(led, section, wrong, drift), OrdersOnce(led)
  PROVE  TdsLabels(t, id) =
           IF l \in DOMAIN section THEN {"TDS_CODE_MIGRATION_BREAK"}
           ELSE IF l \in DOMAIN drift THEN {"TDS_AMOUNT_MISMATCH"} ELSE {}
<1>0. /\ DOMAIN section \subseteq DOMAIN led /\ DOMAIN drift \subseteq DOMAIN led
      /\ \A j \in DOMAIN led : led[j].order_id = id => j = l
      /\ ~ (l \in DOMAIN section /\ l \in DOMAIN drift)
  BY DEF TdsPlan, OrdersOnce
<1> DEFINE Break(j) == Planted("TDS_CODE_MIGRATION_BREAK", NoRow, <<>>, {led[j].order_id})
           Wrong(j) == Planted("TDS_AMOUNT_MISMATCH", NoRow, <<>>, {led[j].order_id})
<1>1. t.planted = {Break(j) : j \in DOMAIN section} \cup {Wrong(j) : j \in DOMAIN drift}
  BY DEF TdsDefects
<1>2. \A j : /\ Break(j).label = "TDS_CODE_MIGRATION_BREAK" /\ Break(j).orders = {led[j].order_id}
            /\ Wrong(j).label = "TDS_AMOUNT_MISMATCH" /\ Wrong(j).orders = {led[j].order_id}
  BY DEF Planted
<1> HIDE DEF Break, Wrong
<1>3. ASSUME NEW x \in TdsLabels(t, id)
      PROVE  \/ x = "TDS_CODE_MIGRATION_BREAK" /\ l \in DOMAIN section
             \/ x = "TDS_AMOUNT_MISMATCH" /\ l \in DOMAIN drift
  <2>1. PICK e \in t.planted : id \in e.orders /\ x = e.label
    BY DEF TdsLabels
  <2>2. CASE \E j \in DOMAIN section : e = Break(j)
    BY <1>0, <1>2, <2>1, <2>2
  <2>3. CASE \E j \in DOMAIN drift : e = Wrong(j)
    BY <1>0, <1>2, <2>1, <2>3
  <2> QED BY <1>1, <2>1, <2>2, <2>3
<1>4. ASSUME l \in DOMAIN section PROVE "TDS_CODE_MIGRATION_BREAK" \in TdsLabels(t, id)
  <2>1. PICK e : e = Break(l)
    OBVIOUS
  <2>2. e \in t.planted /\ id \in e.orders /\ e.label = "TDS_CODE_MIGRATION_BREAK"
    BY <1>1, <1>2, <1>4, <2>1
  <2>3. "TDS_CODE_MIGRATION_BREAK" # "LEDGER_ONLY"
    OBVIOUS
  <2> QED BY <2>2, <2>3 DEF TdsLabels
<1>5. ASSUME l \in DOMAIN drift PROVE "TDS_AMOUNT_MISMATCH" \in TdsLabels(t, id)
  <2>1. PICK e : e = Wrong(l)
    OBVIOUS
  <2>2. e \in t.planted /\ id \in e.orders /\ e.label = "TDS_AMOUNT_MISMATCH"
    BY <1>1, <1>2, <1>5, <2>1
  <2>3. "TDS_AMOUNT_MISMATCH" # "LEDGER_ONLY"
    OBVIOUS
  <2> QED BY <2>2, <2>3 DEF TdsLabels
<1> QED BY <1>0, <1>3, <1>4, <1>5

\* What is planted for rows, and an order left out, are no TDS labels.
LEMMA NoTdsLabel ==
  ASSUME NEW old, NEW new, NEW id, old.planted \subseteq new.planted,
         \A e \in new.planted : e \in old.planted \/ e.label = "LEDGER_ONLY" \/ e.orders = {}
  PROVE  TdsLabels(new, id) = TdsLabels(old, id)
BY DEF TdsLabels

\* The rows of the planted ledger have the labels that were planted.
LEMMA PlantedRows ==
  ASSUME NEW led \in Seq(LedgerRow), NEW section, NEW wrong, NEW drift,
         TdsPlan(led, section, wrong, drift), NEW l \in DOMAIN led,
         AsDrawn(led[l]), led[l].gross_amount \in Prices,
         NEW new, new = WithTdsDefects(led, section, wrong, drift)[l]
  PROVE  /\ new.order_id = led[l].order_id
         /\ LabelledRow(new, IF l \in DOMAIN section THEN {"TDS_CODE_MIGRATION_BREAK"}
                             ELSE IF l \in DOMAIN drift THEN {"TDS_AMOUNT_MISMATCH"} ELSE {})
<1>1. PICK row \in LedgerRow : row = led[l]
  OBVIOUS
<1>2. /\ DOMAIN wrong \subseteq DOMAIN section /\ DOMAIN drift \cap DOMAIN section = {}
      /\ AsDrawn(row) /\ row.gross_amount \in Prices
  BY <1>1 DEF TdsPlan
<1>3. new = CASE l \in DOMAIN wrong -> Restated(row, section[l], wrong[l])
              [] l \in DOMAIN section \ DOMAIN wrong -> Restated(row, section[l], NoCode)
              [] l \in DOMAIN drift -> Drifted(row, drift[l])
              [] OTHER -> row
  BY <1>1 DEF WithTdsDefects
<1>4. CASE l \in DOMAIN section
  <2>1. PICK s \in DOMAIN LegacyToNewCode : s = section[l] /\ row.migrated
    BY <1>1, <1>4 DEF TdsPlan
  <2>2. /\ s \in LegacySections /\ LegacyToNewCode[s] # NoCode
    BY NameAssumption, AbsentAssumption
  <2>3. PICK code \in PaymentCodes \cup {NoCode} :
          code # LegacyToNewCode[s] /\ new = Restated(row, s, code)
    <3>1. CASE l \in DOMAIN wrong
      <4>1. wrong[l] \in PaymentCodes /\ wrong[l] # LegacyToNewCode[s]
        BY <2>1, <3>1 DEF TdsPlan
      <4>2. new = Restated(row, s, wrong[l])
        <5>1. new = Restated(row, section[l], wrong[l])
          BY <1>2, <1>3, <3>1
        <5> QED BY <2>1, <5>1, Zenon
      <4> QED BY <4>1, <4>2
    <3>2. CASE l \notin DOMAIN wrong
      <4>1. new = Restated(row, s, NoCode)
        <5>1. new = Restated(row, section[l], NoCode)
          BY <1>2, <1>3, <1>4, <3>2
        <5> QED BY <2>1, <5>1, Zenon
      <4> QED BY <2>2, <4>1
    <3> QED BY <3>1, <3>2
  <2>4. new.order_id = row.order_id
    BY <2>2, <2>3, RestatedEntry DEF SameOrder
  <2>5. TdsRule(new) \in {"A", "B"}
    BY <1>2, <2>1, <2>3, RestatedRule
  <2> QED BY <1>1, <1>4, <2>4, <2>5 DEF LabelledRow
<1>5. CASE l \in DOMAIN drift
  <2>1. PICK d \in Int : /\ d = drift[l] /\ row.tds_amount > 0
                         /\ d >= 250 \/ d <= -250
    BY <1>1, <1>5 DEF TdsPlan
  <2>2. new = Drifted(row, d) /\ l \notin DOMAIN section
    <3>1. l \notin DOMAIN wrong /\ l \notin DOMAIN section
      BY <1>2, <1>5
    <3>2. new = Drifted(row, drift[l])
      BY <1>3, <1>5, <3>1
    <3> QED BY <2>1, <3>1, <3>2, Zenon
  <2>3. PICK s \in DOMAIN LegacyToNewCode : Deducted(row, s)
    BY <1>2, <2>1 DEF AsDrawn
  <2>4. TdsRule(new) = "D" \/ new.tds_amount <= 0
    BY <1>2, <2>1, <2>2, <2>3, DriftedRule
  <2>5. new.order_id = row.order_id
    BY <2>2, DriftedEntry DEF SameOrder
  <2> QED BY <1>1, <1>5, <2>2, <2>4, <2>5 DEF LabelledRow
<1>6. CASE l \notin DOMAIN section /\ l \notin DOMAIN drift
  <2>1. new = row
    BY <1>2, <1>3, <1>6
  <2>2. TdsRule(new) = "NONE"
    BY <1>2, <2>1, DrawnRule
  <2> QED BY <1>1, <1>6, <2>1, <2>2 DEF LabelledRow
<1> QED BY <1>4, <1>5, <1>6

\* The labels of the orders stay what they are as the files are settled.
LEMMA LabelsStay ==
  ASSUME LabelInv, step \notin Unlabelled, step' \notin Unlabelled,
         files'.ledger = files.ledger, truth.planted \subseteq truth'.planted,
         \A e \in truth'.planted :
            e \in truth.planted \/ e.label = "LEDGER_ONLY" \/ e.orders = {}
  PROVE  LabelInv'
<1>1. \A id : TdsLabels(truth', id) = TdsLabels(truth, id)
  BY NoTdsLabel
<1>2. PICK led : led = files.ledger
  OBVIOUS
<1>3. \A l \in DOMAIN led : LabelledRow(led[l], TdsLabels(truth', led[l].order_id))
  BY <1>1, <1>2 DEF LabelInv
<1>4. step' # "tds_defects"
  BY DEF Unlabelled
<1> QED BY <1>2, <1>3, <1>4 DEF LabelInv

\* Nothing is labelled at the start.
LEMMA LabelStart == GenerateInit => LabelInv
BY DEF GenerateInit, LabelInv, Unlabelled

\* Made orders have no label.
LEMMA MakeOrdersLabels == DataInv /\ MakeOrders => LabelInv'
<1> SUFFICES ASSUME DataInv, MakeOrders PROVE LabelInv'
  OBVIOUS
<1>1. truth' = truth /\ step = "orders" /\ step' = "ledger"
  BY DEF MakeOrders
<1>2. truth.planted = {}
  BY <1>1 DEF DataInv, OrdersPlaced, Listed1to1
<1> QED BY <1>1, <1>2 DEF LabelInv, Unlabelled

\* The ledger is built without a defect.
LEMMA BuildLedgerLabels == DataInv /\ LabelInv /\ BuildLedger => LabelInv'
<1> SUFFICES ASSUME DataInv, LabelInv, BuildLedger PROVE LabelInv'
  OBVIOUS
<1>1. truth' = truth /\ step = "ledger" /\ step' = "tds_defects"
  BY DEF BuildLedger
<1>2. truth'.planted = {}
  BY <1>1 DEF LabelInv, Unlabelled
<1>3. PICK section \in [DOMAIN orders -> setup.sections] :
        files' = [files EXCEPT !.ledger = [i \in DOMAIN orders |-> LedgerEntry(i, section[i])]]
  BY DEF BuildLedger
<1>4. PICK led : led = [i \in DOMAIN orders |-> LedgerEntry(i, section[i])]
  OBVIOUS
<1>5. files'.ledger = led /\ setup \in Setups
  <2>1. files \in [bank : Seq(BankRow), settlement : Seq(SettlementRow), ledger : Seq(LedgerRow)]
        /\ setup \in Setups
    BY DEF DataInv, DataTypes
  <2> QED BY <1>3, <1>4, <2>1
<1>6. ASSUME NEW i \in DOMAIN orders PROVE AsDrawn(led[i])
  <2>1. PICK s \in DOMAIN LegacyToNewCode \cup {NoCode} : s = section[i]
    <3>1. section[i] \in setup.sections
      BY <1>3
    <3>2. setup.sections \subseteq DOMAIN LegacyToNewCode \cup {NoCode}
      BY <1>5, SetupFacts
    <3> QED BY <3>1, <3>2
  <2>2. PICK row : row = LedgerEntry(i, s) /\ row = led[i]
    BY <1>4, <2>1
  <2>3. PICK tds, order, pan, post :
          /\ order = orders[i] /\ pan = ((i - 1) % 3 # 0)
          /\ post = (order.created_at >= Cutover)
          /\ tds = TdsFor(order.amount, s, pan)
    OBVIOUS
  <2>4. row = [order_id |-> order.order_id, gross_amount |-> order.amount,
               tds_amount |-> IF s = NoCode THEN 0 ELSE tds,
               tds_section_legacy |-> IF post THEN NoCode ELSE s,
               tds_code_new |-> IF post /\ s # NoCode THEN LegacyToNewCode[s] ELSE NoCode,
               has_pan |-> pan, migrated |-> post]
    BY <2>2, <2>3 DEF LedgerEntry
  <2>5. CASE s = NoCode
    BY <2>2, <2>4, <2>5 DEF AsDrawn
  <2>6. CASE s # NoCode
    <3>1. s \in DOMAIN LegacyToNewCode
      BY <2>1, <2>6
    <3>2. OnSection(row, s)
      BY <2>4, <2>6 DEF OnSection
    <3>3. row.tds_amount = tds /\ row.gross_amount = order.amount /\ row.has_pan = pan
      BY <2>4, <2>6
    <3>4. row.tds_amount = TdsFor(row.gross_amount, s, row.has_pan)
      BY <2>3, <3>3, Zenon
    <3> QED BY <2>2, <3>1, <3>2, <3>4 DEF AsDrawn, Deducted
  <2> QED BY <2>5, <2>6
<1>7. \A l \in DOMAIN led : AsDrawn(led[l])
  BY <1>4, <1>6
<1> QED BY <1>1, <1>2, <1>5, <1>7 DEF LabelInv, Unlabelled

\* Each row has the label of the group it was drawn into.
LEMMA PlantTdsDefectsLabels == DataInv /\ LabelInv /\ PlantTdsDefects => LabelInv'
<1> SUFFICES ASSUME DataInv, LabelInv, PlantTdsDefects PROVE LabelInv'
  OBVIOUS
<1>1. step = "tds_defects" /\ step' = "ledger_only"
  BY DEF PlantTdsDefects
<1>2. /\ setup \in Setups /\ IsTruth(truth)
      /\ files \in [bank : Seq(BankRow), settlement : Seq(SettlementRow), ledger : Seq(LedgerRow)]
  BY DEF DataInv, DataTypes
<1>3. PICK led \in Seq(LedgerRow) : led = files.ledger
  BY <1>2
<1>4. PICK section, wrong, drift :
        /\ TdsPlan(files.ledger, section, wrong, drift)
        /\ files' = [files EXCEPT !.ledger = WithTdsDefects(files.ledger, section, wrong, drift)]
        /\ truth' = [truth EXCEPT !.planted = TdsDefects(files.ledger, section, drift)]
  BY <1>2, PlannedDefects
<1>5. PICK new : new = WithTdsDefects(led, section, wrong, drift)
  OBVIOUS
<1>6. /\ TdsPlan(led, section, wrong, drift) /\ files'.ledger = new
      /\ truth'.planted = TdsDefects(led, section, drift)
  <2>1. files' = [files EXCEPT !.ledger = new]
    BY <1>3, <1>4, <1>5
  <2>2. PICK planted : planted = TdsDefects(led, section, drift)
    OBVIOUS
  <2>3. truth' = [truth EXCEPT !.planted = planted]
    BY <1>3, <1>4, <2>2
  <2> QED BY <1>2, <1>3, <1>4, <2>1, <2>2, <2>3 DEF IsTruth
<1>7. /\ \A l \in DOMAIN led : led[l].order_id = <<"ord", l>>
      /\ \A l \in DOMAIN led : led[l].gross_amount \in Prices
      /\ \A l \in DOMAIN led : AsDrawn(led[l])
  <2>1. DOMAIN led = 1..setup.n_orders
    BY <1>1, <1>3 DEF DataInv, LedgerMade
  <2> QED BY <1>1, <1>3, <2>1 DEF DataInv, LedgerMade, LabelInv
<1>8. ASSUME NEW l \in DOMAIN led
      PROVE  LabelledRow(new[l], TdsLabels(truth', new[l].order_id))
  <2>1. PICK id : id = led[l].order_id
    OBVIOUS
  <2>2. PICK labels : labels = IF l \in DOMAIN section THEN {"TDS_CODE_MIGRATION_BREAK"}
                               ELSE IF l \in DOMAIN drift THEN {"TDS_AMOUNT_MISMATCH"} ELSE {}
    OBVIOUS
  <2>3. new[l].order_id = id /\ LabelledRow(new[l], labels)
    BY <1>5, <1>6, <1>7, <2>1, <2>2, PlantedRows
  <2>4. TdsLabels(truth', id) = labels
    <3>1. OrdersOnce(led)
      <4>1. \A j, k \in DOMAIN led : <<"ord", j>> = <<"ord", k>> => j = k
        OBVIOUS
      <4> QED BY <1>7, <4>1 DEF OrdersOnce
    <3>3. PICK t : t = truth'
      OBVIOUS
    <3>4. t.planted = TdsDefects(led, section, drift)
      BY <1>6, <3>3
    <3>5. TdsLabels(t, id) =
            IF l \in DOMAIN section THEN {"TDS_CODE_MIGRATION_BREAK"}
            ELSE IF l \in DOMAIN drift THEN {"TDS_AMOUNT_MISMATCH"} ELSE {}
      BY <1>6, <2>1, <3>1, <3>4, PlannedLabels
    <3> QED BY <2>2, <3>3, <3>5, Zenon
  <2> QED BY <2>3, <2>4, Zenon
<1>9. DOMAIN new = DOMAIN led
  BY <1>5 DEF WithTdsDefects
<1>10. \A l \in DOMAIN new : LabelledRow(new[l], TdsLabels(truth', new[l].order_id))
  BY <1>8, <1>9
<1> QED BY <1>1, <1>6, <1>10 DEF LabelInv, Unlabelled

\* From then on an entry has no order, or is of one left out.
LEMMA LaterLabels ==
  /\ DataInv /\ LabelInv /\ PlantLedgerOnly => LabelInv'
  /\ DataInv /\ LabelInv /\ (DrawBatch \/ AssignDefects) => LabelInv'
  /\ DataInv /\ LabelInv /\ BuildBatch => LabelInv'
  /\ DataInv /\ LabelInv /\ PlantBankOnly => LabelInv'
  /\ DataInv /\ LabelInv /\ PlantUnresolvable => LabelInv'
<1> SUFFICES ASSUME DataInv, LabelInv
             PROVE  /\ PlantLedgerOnly => LabelInv'
                    /\ DrawBatch \/ AssignDefects => LabelInv'
                    /\ BuildBatch => LabelInv'
                    /\ PlantBankOnly => LabelInv'
                    /\ PlantUnresolvable => LabelInv'
  OBVIOUS
<1>1. /\ IsTruth(truth)
      /\ files \in [bank : Seq(BankRow), settlement : Seq(SettlementRow), ledger : Seq(LedgerRow)]
  BY DEF DataInv, DataTypes
<1>2. ASSUME PlantLedgerOnly PROVE LabelInv'
  <2>1. step = "ledger_only" /\ step' = "batches" /\ files' = files
    BY <1>2 DEF PlantLedgerOnly
  <2>2. PICK victims :
          truth' = [truth EXCEPT !.planted =
             truth.planted \cup {Planted("LEDGER_ONLY", NoRow, <<>>, {id}) : id \in victims}]
    BY <1>2 DEF PlantLedgerOnly
  <2>3. PICK added : added = {Planted("LEDGER_ONLY", NoRow, <<>>, {id}) : id \in victims}
    OBVIOUS
  <2>4. truth'.planted = truth.planted \cup added
    BY <1>1, <2>2, <2>3 DEF IsTruth
  <2>5. \A e \in added : e.label = "LEDGER_ONLY"
    BY <2>3 DEF Planted
  <2> QED BY <2>1, <2>4, <2>5, LabelsStay DEF Unlabelled
<1>3. ASSUME DrawBatch \/ AssignDefects PROVE LabelInv'
  <2>1. /\ step = "batches" /\ step' \in {"batches", "settle", "refused"}
        /\ files' = files /\ truth' = truth
    BY <1>3 DEF DrawBatch, AssignDefects
  <2> QED BY <2>1, LabelsStay DEF Unlabelled
<1>4. ASSUME BuildBatch PROVE LabelInv'
  <2>1. PICK b, rows, credit : Settled(b, rows, credit)
    BY <1>4, BuildBatchFacts
  <2>2. /\ step = "settle" /\ step' = "settle"
        /\ files' = [files EXCEPT !.settlement = files.settlement \o rows,
                                  !.bank = Append(files.bank, credit)]
        /\ truth' = Recorded(assigned[b], b, b, rows, batches[b])
    <3>1. step = "settle" /\ step' = step
      BY <1>4, Zenon DEF BuildBatch
    <3> QED BY <2>1, <3>1 DEF Settled
  <2>3. files'.ledger = files.ledger
    BY <1>1, <2>2
  <2>4. /\ truth.planted \subseteq truth'.planted
        /\ \A e \in truth'.planted : e \in truth.planted \/ e.orders = {}
    <3>1. PICK ids, orderIds, entry, label :
            /\ ids = [i \in DOMAIN rows |-> rows[i].settlement_id]
            /\ orderIds = {batches[b][o].order_id : o \in DOMAIN batches[b]}
            /\ label = (IF assigned[b] = "UNEXPLAINED_RESIDUAL" THEN "UNEXPLAINED"
                        ELSE assigned[b])
            /\ entry = Planted(label, b, ids, {})
      OBVIOUS
    <3>2. entry.orders = {}
      BY <3>1 DEF Planted
    <3>3. truth' = IF assigned[b] = "NONE"
            THEN [truth EXCEPT !.expected = truth.expected
                    \cup {[row |-> b, utr |-> b, ids |-> ids, orders |-> orderIds]}]
            ELSE [truth EXCEPT !.planted = truth.planted \cup {entry}]
      BY <2>2, <3>1, Zenon DEF Recorded
    <3>4. PICK expected : expected = truth.expected
                    \cup {[row |-> b, utr |-> b, ids |-> ids, orders |-> orderIds]}
      OBVIOUS
    <3>5. \/ truth' = [truth EXCEPT !.expected = expected]
          \/ truth' = [truth EXCEPT !.planted = truth.planted \cup {entry}]
      BY <3>3, <3>4, Zenon
    <3>6. truth'.planted = truth.planted \/ truth'.planted = truth.planted \cup {entry}
      BY <1>1, <3>5 DEF IsTruth
    <3> QED BY <3>2, <3>6
  <2> QED BY <2>2, <2>3, <2>4, LabelsStay DEF Unlabelled
<1>5. ASSUME PlantBankOnly PROVE LabelInv'
  <2>1. step = "settle" /\ step' = "unresolvable"
    BY <1>5 DEF PlantBankOnly
  <2>2. PICK bank2 : files' = [files EXCEPT !.bank = bank2]
    BY <1>5 DEF PlantBankOnly
  <2>3. files'.ledger = files.ledger
    BY <1>1, <2>2
  <2>4. PICK added :
          /\ added = {Planted("BANK_ONLY", Len(files.bank) + i, <<>>, {}) : i \in 1..setup.bank_only}
          /\ truth' = [truth EXCEPT !.planted = truth.planted \cup added]
    BY <1>5 DEF PlantBankOnly
  <2>5. \A e \in added : e.orders = {}
    BY <2>4 DEF Planted
  <2>6. truth'.planted = truth.planted \cup added
    BY <1>1, <2>4 DEF IsTruth
  <2> QED BY <2>1, <2>3, <2>5, <2>6, LabelsStay DEF Unlabelled
<1>6. ASSUME PlantUnresolvable PROVE LabelInv'
  <2>1. PICK n, rows, credits : Twinned(n, rows, credits)
    BY <1>6, TwinFacts
  <2>2. /\ step = "unresolvable" /\ step' = "written"
        /\ files' = [files EXCEPT !.settlement = files.settlement \o rows,
                                  !.bank = files.bank \o credits]
    BY <2>1 DEF Twinned
  <2>3. PICK pairs : truth' = [truth EXCEPT !.unresolvable = pairs]
    BY <2>1 DEF Twinned
  <2>4. files'.ledger = files.ledger /\ truth'.planted = truth.planted
    BY <1>1, <2>2, <2>3 DEF IsTruth
  <2> QED BY <2>2, <2>4, LabelsStay DEF Unlabelled
<1> QED BY <1>2, <1>3, <1>4, <1>5, <1>6

\* Every step keeps the labels' invariant.
LEMMA LabelInvNext ==
  DataInv /\ LabelInv /\ [BenchmarkNext]_<<vars, generatorVars>> => LabelInv'
<1> SUFFICES ASSUME DataInv, LabelInv, [BenchmarkNext]_<<vars, generatorVars>> PROVE LabelInv'
  OBVIOUS
<1>1. CASE UNCHANGED generatorVars
  <2>1. step' = step /\ files' = files /\ truth' = truth
    BY <1>1 DEF generatorVars
  <2>2. PICK led, t : led = files.ledger /\ t = truth
    OBVIOUS
  <2>3. led = files'.ledger /\ t = truth'
    BY <2>1, <2>2
  <2> QED BY <2>1, <2>2, <2>3, Zenon DEF LabelInv
<1>2. CASE Generate
  BY <1>2, MakeOrdersLabels, BuildLedgerLabels, PlantTdsDefectsLabels, LaterLabels DEF Generate
<1>3. Generate \/ UNCHANGED generatorVars
  BY Zenon DEF BenchmarkNext
<1> QED BY <1>1, <1>2, <1>3

\* What is planted in the ledger is what Stage 4 says of it: a row with a planted section
\* breaks the migration or contradicts it, a row with a drift is off its rate or has
\* nothing deducted, and no other row has anything wrong.
THEOREM LabelInvariant == BenchmarkSpec => []LabelInv
<1>1. BenchmarkInit => LabelInv
  BY LabelStart DEF BenchmarkInit
<1> QED BY DatasetInvariant, <1>1, LabelInvNext, PTL DEF BenchmarkSpec

\* The one ledger row of an order.
LEMMA OneLedgerRow ==
  ASSUME NEW led \in Seq(LedgerRow), OrdersOnce(led), NEW l \in DOMAIN led,
         NEW order, order = led[l].order_id
  PROVE  LedgerPositions(led, order) # {} /\ LedgerOf(led, order) = led[l]
<1>1. PICK S : S = LedgerPositions(led, order)
  OBVIOUS
<1>2. S = {l}
  BY <1>1 DEF LedgerPositions, OrdersOnce
<1>3. PICK n \in Nat : n = Len(led) /\ DOMAIN led = 1..n
  OBVIOUS
<1>4. S \in SUBSET (1..n) /\ S # {}
  BY <1>2, <1>3
<1>5. Max(S) = l
  BY <1>2, <1>3, <1>4, LargestNat
<1> QED BY <1>1, <1>4, <1>5 DEF LedgerOf

\* The exceptions of a finished run that give an order a code.
LEMMA OrderFindings ==
  ASSUME FoundInv, pc = "done", FullCascade
  PROVE  /\ stage3.matched = OrderMatched(settlement, ledger)
         /\ {x \in exceptions : x.source = "tds"}
              = {Exception("tds", m.row, TdsCode(MatchRule(m))) :
                   m \in {n \in stage3.matched : MatchRule(n) # "NONE"}}
         /\ {x \in exceptions : x.source = "ledger_only"}
              = {Exception("ledger_only", l, "LEDGER_ONLY") :
                   l \in {k \in DOMAIN ledger :
                            ledger[k].order_id \notin {m.order : m \in stage3.matched}}}
<1>1. PastAudit /\ PastTds /\ Classified /\ Past3
  BY DEF FoundInv, IInv, Control, PastAudit, PastTds, Classified, Past3, Past
<1>2. stage3 = MatchOrder(settlement, ledger)
  BY <1>1 DEF FoundInv, IInv, Matching, OrderOutcome, FullCascade
<1>3. /\ stage3.matched = OrderMatched(settlement, ledger)
      /\ stage3.residue_ledger =
           {k \in DOMAIN ledger : ledger[k].order_id \notin {m.order : m \in stage3.matched}}
  BY <1>2 DEF MatchOrder, StageResult
<1>4. exceptions = BridgeFindings \cup TdsFindings \cup ResidueFindings
  BY <1>1 DEF FoundInv, AsFound
<1>5. Found = {n \in stage3.matched : MatchRule(n) # "NONE"}
  BY DEF Found, Evaluated, FullCascade
<1>6. /\ \A e \in BridgeFindings : e.source = "bridge"
      /\ \A e \in TdsFindings : e.source = "tds"
  BY DEF BridgeFindings, TdsFindings, Exception
<1>7. PICK Open : Open = {Exception("ledger_only", l, "LEDGER_ONLY") : l \in stage3.residue_ledger}
  OBVIOUS
<1>8. /\ \A e \in Open : e.source = "ledger_only" /\ e \in ResidueFindings
      /\ \A e \in ResidueFindings : e.source # "tds"
      /\ \A e \in ResidueFindings : e.source = "ledger_only" => e \in Open
  BY <1>7 DEF ResidueFindings, Exception
<1>9. {x \in exceptions : x.source = "tds"} = TdsFindings
  BY <1>4, <1>6, <1>8
<1>10. {x \in exceptions : x.source = "ledger_only"} = Open
  BY <1>4, <1>6, <1>8
<1> QED BY <1>3, <1>5, <1>7, <1>9, <1>10 DEF TdsFindings

\* The codes of an order that no payment was matched to.
LEMMA CodesOfUnsettled ==
  ASSUME FoundInv, pc = "done", FullCascade, NEW l \in DOMAIN ledger,
         NEW order, order = ledger[l].order_id, ~ \E m \in stage3.matched : m.order = order
  PROVE  OrderCodes(order) = {"LEDGER_ONLY"}
<1>1. PICK T, O : /\ T = {x \in exceptions : x.source = "tds"}
                  /\ O = {x \in exceptions : x.source = "ledger_only"}
  OBVIOUS
<1>2. OrderCodes(order) = {e.code : e \in {x \in T : settlement[x.row].order_id = order}}
                            \cup {e.code : e \in {x \in O : ledger[x.row].order_id = order}}
  BY <1>1 DEF OrderCodes
<1>3. \A e \in T : \E m \in stage3.matched : e.row = m.row
  BY <1>1, OrderFindings DEF Exception
<1>4. \A m \in stage3.matched : settlement[m.row].order_id = m.order
  BY OrderFindings DEF OrderMatched
<1>5. \A e \in T : settlement[e.row].order_id # order
  BY <1>3, <1>4
<1>6. \A e \in O : e.code = "LEDGER_ONLY"
  BY <1>1, OrderFindings DEF Exception
<1>7. \E e \in O : e.row = l
  <2>1. PICK e : e = Exception("ledger_only", l, "LEDGER_ONLY")
    OBVIOUS
  <2>2. l \in {k \in DOMAIN ledger :
                 ledger[k].order_id \notin {m.order : m \in stage3.matched}}
    OBVIOUS
  <2>3. e \in O
    BY <1>1, <2>1, <2>2, OrderFindings
  <2> QED BY <2>1, <2>3 DEF Exception
<1> QED BY <1>2, <1>5, <1>6, <1>7

\* The codes of an order that was paid.
LEMMA CodesOfSettled ==
  ASSUME FoundInv, pc = "done", FullCascade, NEW l \in DOMAIN ledger, OrdersOnce(ledger),
         NEW order, order = ledger[l].order_id, NEW m \in stage3.matched, m.order = order
  PROVE  OrderCodes(order) =
           IF TdsRule(ledger[l]) = "NONE" THEN {} ELSE {TdsCode(TdsRule(ledger[l]))}
<1>1. PICK T, O : /\ T = {x \in exceptions : x.source = "tds"}
                  /\ O = {x \in exceptions : x.source = "ledger_only"}
  OBVIOUS
<1>2. OrderCodes(order) = {e.code : e \in {x \in T : settlement[x.row].order_id = order}}
                            \cup {e.code : e \in {x \in O : ledger[x.row].order_id = order}}
  BY <1>1 DEF OrderCodes
<1>3. LedgerOf(ledger, order) = ledger[l]
  <2>1. ledger \in Seq(LedgerRow)
    BY InputFacts DEF FoundInv, IInv, Control
  <2> QED BY <2>1, OneLedgerRow
<1>4. \A n \in stage3.matched : settlement[n.row].order_id = n.order
  BY OrderFindings DEF OrderMatched
<1>5. PICK rule : rule = TdsRule(ledger[l])
  OBVIOUS
<1>6. \A n \in stage3.matched : n.order = order => MatchRule(n) = rule
  BY <1>3, <1>5 DEF MatchRule
<1>7. ASSUME NEW e \in T, settlement[e.row].order_id = order
      PROVE  rule # "NONE" /\ e.code = TdsCode(rule)
  <2>1. PICK n \in stage3.matched :
          MatchRule(n) # "NONE" /\ e = Exception("tds", n.row, TdsCode(MatchRule(n)))
    BY <1>1, OrderFindings
  <2>2. e.row = n.row /\ e.code = TdsCode(MatchRule(n))
    BY <2>1 DEF Exception
  <2>3. n.order = order
    BY <1>4, <1>7, <2>2
  <2>4. MatchRule(n) = rule
    BY <1>6, <2>3
  <2> QED BY <2>1, <2>2, <2>4, Zenon
<1>8. ASSUME rule # "NONE"
      PROVE  \E e \in T : settlement[e.row].order_id = order /\ e.code = TdsCode(rule)
  <2>1. MatchRule(m) = rule
    BY <1>6
  <2>2. PICK e : e = Exception("tds", m.row, TdsCode(MatchRule(m)))
    OBVIOUS
  <2>3. m \in {n \in stage3.matched : MatchRule(n) # "NONE"}
    BY <1>8, <2>1
  <2>4. e \in T
    BY <1>1, <2>2, <2>3, OrderFindings
  <2>5. e.row = m.row /\ e.code = TdsCode(MatchRule(m))
    BY <2>2 DEF Exception
  <2>6. settlement[e.row].order_id = order
    BY <1>4, <2>5
  <2>7. e.code = TdsCode(rule)
    BY <2>1, <2>5, Zenon
  <2> QED BY <2>4, <2>6, <2>7
<1>9. \A e \in O : ledger[e.row].order_id # order
  <2> SUFFICES ASSUME NEW e \in O PROVE ledger[e.row].order_id # order
    OBVIOUS
  <2>1. PICK k \in DOMAIN ledger :
          /\ ledger[k].order_id \notin {n.order : n \in stage3.matched}
          /\ e = Exception("ledger_only", k, "LEDGER_ONLY")
    BY <1>1, OrderFindings
  <2>2. e.row = k
    BY <2>1 DEF Exception
  <2> QED BY <2>1, <2>2
<1>10. OrderCodes(order) = IF rule = "NONE" THEN {} ELSE {TdsCode(rule)}
  <2>1. PICK code : code = TdsCode(rule)
    OBVIOUS
  <2>2. OrderCodes(order) = IF rule = "NONE" THEN {} ELSE {code}
    BY <1>2, <1>7, <1>8, <1>9, <2>1
  <2> QED BY <2>1, <2>2
<1> QED BY <1>5, <1>10

\* The true label of an order.
LEMMA TrueLabelFacts ==
  ASSUME NEW order
  PROVE  IF order \in Victims THEN OrderTrueLabel(order) = "LEDGER_ONLY"
         ELSE IF TdsLabels(truth, order) = {} THEN OrderTrueLabel(order) = "CLEAN"
         ELSE OrderTrueLabel(order) \in TdsLabels(truth, order)
<1>1. PICK labels : labels = {e.label : e \in {p \in truth.planted : order \in p.orders}}
  OBVIOUS
<1>2. OrderTrueLabel(order) = IF "LEDGER_ONLY" \in labels THEN "LEDGER_ONLY"
        ELSE IF labels # {} THEN CHOOSE x \in labels : TRUE ELSE "CLEAN"
  BY <1>1 DEF OrderTrueLabel
<1>3. "LEDGER_ONLY" \in labels <=> order \in Victims
  BY <1>1 DEF Victims
<1>4. "LEDGER_ONLY" \notin labels => labels = TdsLabels(truth, order)
  BY <1>1 DEF TdsLabels
<1> QED BY <1>2, <1>3, <1>4

\* An order that is not left out is matched, and one that is left out is not.
LEMMA SettledOrders ==
  ASSUME DataInv, DatasetRun, pc = "done", FullCascade, NEW l \in DOMAIN ledger,
         NEW order, order = ledger[l].order_id
  PROVE  /\ OrdersOnce(ledger)
         /\ order \in Victims <=> ~ \E m \in stage3.matched : m.order = order
<1>1. FoundInv /\ RunOfDataset
  BY DEF DatasetRun
<1>2. /\ step = "written" /\ settlement = files.settlement /\ ledger = files.ledger
      /\ ledger \in Seq(LedgerRow)
  BY <1>1, InputFacts DEF RunOfDataset, FoundInv, IInv, Control
<1>3. OrdersOnce(ledger)
  <2>1. \A k \in DOMAIN ledger : ledger[k].order_id = <<"ord", k>>
    BY <1>2 DEF DataInv, LedgerMade
  <2>2. \A j, k : <<"ord", j>> = <<"ord", k>> => j = k
    OBVIOUS
  <2> QED BY <2>1, <2>2 DEF OrdersOnce
<1>4. PICK paid : paid = {i \in Payments(files.settlement) :
                            files.settlement[i].order_id = files.ledger[l].order_id}
  OBVIOUS
<1>5. IF order \in Victims THEN paid = {}
      ELSE \E i : paid = {i} /\ files.settlement[i].amount = files.ledger[l].gross_amount
  BY <1>2, <1>4, PaidOnce
<1>6. paid = {i \in Payments(settlement) : settlement[i].order_id = order}
  BY <1>2, <1>4
<1>7. ASSUME order \in Victims, NEW m \in stage3.matched, m.order = order PROVE FALSE
  <2>1. m.row \in Payments(settlement) /\ settlement[m.row].order_id = order
    BY <1>1, <1>7, OrderFindings DEF OrderMatched
  <2> QED BY <1>5, <1>6, <1>7, <2>1
<1>8. ASSUME order \notin Victims PROVE \E m \in stage3.matched : m.order = order
  <2>1. PICK i : paid = {i} /\ settlement[i].amount = ledger[l].gross_amount
    BY <1>2, <1>5, <1>8
  <2>2. i \in Payments(settlement) /\ settlement[i].order_id = order
    BY <1>6, <2>1
  <2>3. LedgerPositions(ledger, order) # {} /\ LedgerOf(ledger, order) = ledger[l]
    BY <1>2, <1>3, OneLedgerRow
  <2>4. order \in OrderIds /\ ledger[l].gross_amount \in Int
    <3>1. ledger[l] \in LedgerRow
      BY <1>2
    <3> QED BY <3>1 DEF LedgerRow
  <2>5. PICK m : m = [row |-> i, order |-> order]
    OBVIOUS
  <2>6. Abs(settlement[i].amount - LedgerOf(ledger, order).gross_amount) <= Tolerance
    <3>1. PICK g \in Int : g = settlement[i].amount /\ g = LedgerOf(ledger, order).gross_amount
      BY <2>1, <2>3, <2>4
    <3>2. Abs(g - g) <= Tolerance
      BY DEF Abs, Tolerance
    <3> QED BY <3>1, <3>2, Zenon
  <2>7. m \in OrderMatched(settlement, ledger)
    <3>1. m \in [row : Payments(settlement), order : OrderIds] /\ m.row = i /\ m.order = order
      BY <2>2, <2>4, <2>5
    <3> QED BY <2>2, <2>3, <2>6, <3>1, Zenon DEF OrderMatched
  <2>8. m \in stage3.matched
    BY <1>1, <2>7, OrderFindings
  <2> QED BY <2>5, <2>8
<1> QED BY <1>3, <1>7, <1>8

\* Every order of a generated ledger is given the label planted in it, and no other order
\* one, whatever the configured rates, sizes and draws: Stage 3 finds the payment of
\* every order that has one, and Stage 4 says of a matched row what was planted in it.
THEOREM OrdersAreLabelled == BenchmarkSpec => []OrdersAreLabelledAsPlanted
<1>1. DataInv /\ LabelInv /\ DatasetRun => OrdersAreLabelledAsPlanted
  <2> SUFFICES ASSUME DataInv, LabelInv, DatasetRun, pc = "done", FullCascade,
                      NEW l \in DOMAIN ledger, NEW order, order = ledger[l].order_id
               PROVE  \/ OrderCodes(order) = {OrderTrueLabel(order)} \ {"CLEAN"}
                      \/ OrderTrueLabel(order) = "TDS_AMOUNT_MISMATCH" /\ NothingDeducted(order)
    BY Zenon DEF OrdersAreLabelledAsPlanted, Scored, OrderIdsOf
  <2>1. FoundInv /\ step = "written" /\ ledger = files.ledger /\ ledger \in Seq(LedgerRow)
    BY InputFacts DEF DatasetRun, RunOfDataset, FoundInv, IInv, Control
  <2>2. PICK row, rule, labels :
          row = ledger[l] /\ rule = TdsRule(row) /\ labels = TdsLabels(truth, order)
    OBVIOUS
  <2>3. LabelledRow(row, labels)
    BY <2>1, <2>2 DEF LabelInv, Unlabelled
  <2>4. OrdersOnce(ledger) /\ (order \in Victims <=> ~ \E m \in stage3.matched : m.order = order)
    BY SettledOrders
  <2>5. CASE order \in Victims
    <3>1. OrderTrueLabel(order) = "LEDGER_ONLY"
      BY <2>5, TrueLabelFacts
    <3>2. OrderCodes(order) = {"LEDGER_ONLY"}
      BY <2>1, <2>4, <2>5, CodesOfUnsettled
    <3> QED BY <3>1, <3>2
  <2>6. CASE order \notin Victims
    <3>1. PICK true : true = OrderTrueLabel(order)
      OBVIOUS
    <3>2. IF labels = {} THEN true = "CLEAN" ELSE true \in labels
      BY <2>2, <2>6, <3>1, TrueLabelFacts
    <3>3. PICK codes : codes = OrderCodes(order)
      OBVIOUS
    <3>4. codes = IF rule = "NONE" THEN {} ELSE {TdsCode(rule)}
      <4>1. PICK m \in stage3.matched : m.order = order
        BY <2>4, <2>6
      <4>2. OrderCodes(order) =
              IF TdsRule(ledger[l]) = "NONE" THEN {} ELSE {TdsCode(TdsRule(ledger[l]))}
        BY <2>1, <2>4, <4>1, CodesOfSettled
      <4> QED BY <2>2, <3>3, <4>2, Zenon
    <3>5. CASE labels = {} /\ rule = "NONE"
      BY <3>1, <3>2, <3>3, <3>4, <3>5
    <3>6. CASE labels = {"TDS_CODE_MIGRATION_BREAK"} /\ rule \in {"A", "B"}
      <4>1. TdsCode(rule) = "TDS_CODE_MIGRATION_BREAK"
        BY <3>6 DEF TdsCode
      <4>2. true = "TDS_CODE_MIGRATION_BREAK"
        BY <3>2, <3>6
      <4>3. codes = {true} \ {"CLEAN"}
        BY <3>4, <3>6, <4>1, <4>2
      <4> QED BY <3>1, <3>3, <4>3
    <3>7. CASE labels = {"TDS_AMOUNT_MISMATCH"} /\ rule = "D"
      <4>1. TdsCode(rule) = "TDS_AMOUNT_MISMATCH"
        BY <3>7 DEF TdsCode
      <4>2. true = "TDS_AMOUNT_MISMATCH"
        BY <3>2, <3>7
      <4>3. codes = {true} \ {"CLEAN"}
        BY <3>4, <3>7, <4>1, <4>2
      <4> QED BY <3>1, <3>3, <4>3
    <3>8. CASE labels = {"TDS_AMOUNT_MISMATCH"} /\ row.tds_amount <= 0
      <4>1. true = "TDS_AMOUNT_MISMATCH"
        BY <3>2, <3>8
      <4>2. LedgerOf(ledger, order) = row
        BY <2>1, <2>2, <2>4, OneLedgerRow
      <4>3. NothingDeducted(order)
        BY <3>8, <4>2 DEF NothingDeducted
      <4> QED BY <3>1, <4>1, <4>3
    <3> QED BY <2>2, <2>3, <3>5, <3>6, <3>7, <3>8 DEF LabelledRow
  <2> QED BY <2>5, <2>6
<1> QED BY DatasetInvariant, LabelInvariant, DatasetRunInvariant, <1>1, PTL

-----------------------------------------------------------------------------
(* What the credits say                                                    *)

\* The narration of a credit names the UTR of its batch, that of no batch, or six
\* digits of the first of its pair.
NamedCredits(rows, s, built, strays, pairs) ==
  /\ \A b \in 1..built : rows[b].narration \in NarrationsOf(s, b)
  /\ \A b \in (built + 1)..(built + strays) : rows[b].narration = Narration("unknown", b, 16)
  /\ \A i \in 1..pairs :
       rows[built + strays + i].narration = Narration("neft", built + strays + 2 * i - 1, 6)

\* A defect planted in a batch does not make its match a false one.
PlantedMatches(t, built) ==
  \A e \in t.planted :
    e.row \in 1..built => e.label \in FlaggedButTrueMatchLabels /\ 1 \in DOMAIN e.ids

\* The credit of a pair is the net of both batches.
PairsAlike(f, t, first, pairs) ==
  /\ t.unresolvable =
       {[row |-> first + i, a |-> first + 2 * i - 1, b |-> first + 2 * i] : i \in 1..pairs}
  /\ \A i \in 1..pairs, j \in 1..2 : \E r \in DOMAIN f.settlement :
       Alike(f.settlement[r], f.bank[first + i], first, i, j)

CreditInv ==
  /\ NamedCredits(files.bank, setup, Built, Strays, Pairs)
  /\ PlantedMatches(truth, Built)
  /\ PairsAlike(files, truth, Built + Strays, Pairs)

\* Before a batch is settled there is no credit to speak of.
NoCredit ==
  /\ files.bank = <<>> /\ truth.unresolvable = {} /\ step \notin {"unresolvable", "written"}
  /\ \A e \in truth.planted : e.row = NoRow

\* Where there is no credit the invariant says nothing.
LEMMA NoCreditYet == NoCredit => CreditInv
<1> SUFFICES ASSUME NoCredit PROVE CreditInv
  OBVIOUS
<1>1. Built = 0 /\ Strays = 0 /\ Pairs = 0
  BY DEF NoCredit, Built, Strays, Pairs
<1>2. \A i : i \notin 1..0 /\ i \notin (0 + 1)..(0 + 0)
  OBVIOUS
<1>3. NamedCredits(files.bank, setup, 0, 0, 0)
  BY <1>2 DEF NamedCredits
<1>4. PlantedMatches(truth, 0)
  BY <1>2 DEF PlantedMatches
<1>5. \A first : PairsAlike(files, truth, first, 0)
  BY <1>2 DEF NoCredit, PairsAlike
<1> QED BY <1>1, <1>3, <1>4, <1>5 DEF CreditInv

\* There is no credit at the start.
LEMMA CreditStart == GenerateInit => CreditInv
BY NoCreditYet DEF GenerateInit, NoCredit

\* The same of the state after a step.
LEMMA NoCreditNext == NoCredit' => CreditInv'
BY NoCreditYet, PTL

\* The phases before the batches are settled.
LEMMA EarlyCredits ==
  ASSUME DataInv, DataInv',
         MakeOrders \/ BuildLedger \/ PlantTdsDefects \/ PlantLedgerOnly \/ DrawBatch \/ AssignDefects
  PROVE  CreditInv'
<1>1. CASE step' \notin Settling
  <2>1. /\ files'.bank = <<>> /\ truth'.unresolvable = {} /\ \A e \in truth'.planted : e.row = NoRow
    BY <1>1 DEF DataInv, DataTypes
  <2> QED BY <1>1, <2>1, NoCreditNext DEF Settling, NoCredit
<1>2. CASE step' \in Settling
  <2>1. AssignDefects
    BY <1>2 DEF MakeOrders, BuildLedger, PlantTdsDefects, PlantLedgerOnly, DrawBatch, Settling
  <2>2. step = "batches" /\ step' \in {"refused", "settle"} /\ files' = files /\ truth' = truth
    BY <2>1, Zenon DEF AssignDefects
  <2>3. /\ files.bank = <<>> /\ truth.unresolvable = {} /\ \A e \in truth.planted : e.row = NoRow
    BY <2>2 DEF DataInv, DataTypes, Settling
  <2> QED BY <2>2, <2>3, NoCreditNext DEF NoCredit
<1> QED BY <1>1, <1>2

\* What the files are when batch b has been settled.
LEMMA SettledFiles ==
  ASSUME DataInv, UNCHANGED <<setup, step, orders, batches, assigned>>,
         NEW b, NEW rows, NEW credit, Settled(b, rows, credit)
  PROVE  /\ b \in Nat /\ b = Built + 1 /\ Built \in Nat
         /\ files'.settlement = files.settlement \o rows
         /\ files'.bank[b] = credit /\ \A c \in 1..Built : files'.bank[c] = files.bank[c]
         /\ Built' = b /\ Strays' = 0 /\ Pairs' = 0 /\ Strays = 0 /\ Pairs = 0
<1>1. PICK built \in Nat : built = Built /\ built = Len(files.bank) /\ b = built + 1
  BY BuiltSoFar DEF Settled
<1>2. files.bank \in Seq(BankRow) /\ step = "settle" /\ step' = "settle" /\ Strays = 0 /\ Pairs = 0
  BY BuiltSoFar DEF Settled
<1>3. /\ files' = [files EXCEPT !.settlement = files.settlement \o rows,
                                !.bank = Append(files.bank, credit)]
      /\ credit \in BankRow
  BY DEF Settled
<1>4. files \in [bank : Seq(BankRow), settlement : Seq(SettlementRow), ledger : Seq(LedgerRow)]
  BY DEF DataInv, DataTypes
<1>5. files'.settlement = files.settlement \o rows /\ files'.bank = Append(files.bank, credit)
  BY <1>3, <1>4
<1>6. /\ Len(files'.bank) = b /\ files'.bank[b] = credit
      /\ \A c \in 1..built : files'.bank[c] = files.bank[c]
  BY <1>1, <1>2, <1>3, <1>5, AppendProperties
<1>7. Built' = b /\ Strays' = 0 /\ Pairs' = 0
  BY <1>2, <1>6 DEF Built, Strays, Pairs
<1> QED BY <1>1, <1>2, <1>5, <1>6, <1>7

\* The ground truth of a settled batch: a match that is expected, or a planted defect
\* with the rows it concerns.
LEMMA RecordedMatch ==
  ASSUME DataInv, NEW b, NEW rows, NEW credit, Settled(b, rows, credit)
  PROVE  /\ truth'.unresolvable = truth.unresolvable
         /\ \/ truth'.planted = truth.planted
            \/ \E x : /\ truth'.planted = truth.planted \cup {x}
                      /\ x.label \in FlaggedButTrueMatchLabels /\ 1 \in DOMAIN x.ids
<1>1. PICK ids : ids = [k \in DOMAIN rows |-> rows[k].settlement_id]
  OBVIOUS
<1>2. 1 \in DOMAIN ids
  <2>1. /\ rows \in Seq(SettlementRow) /\ b \in 1..Len(batches)
        /\ \A o \in DOMAIN batches[b] : \E k \in DOMAIN rows :
             RowOf(rows[k], b, o, batches[b][o], "pay")
    BY DEF Settled
  <2>2. batches \in Seq(Seq(Order(setup.n_orders)) \ {<<>>})
    BY DEF DataInv, DataTypes
  <2>3. batches[b] \in Seq(Order(setup.n_orders)) \ {<<>>}
    BY <2>1, <2>2
  <2>4. 1 \in DOMAIN batches[b]
    BY <2>3
  <2>5. \E k \in DOMAIN rows : TRUE
    BY <2>1, <2>4
  <2>6. 1 \in DOMAIN rows
    BY <2>1, <2>5
  <2> QED BY <1>1, <2>6
<1>3. assigned[b] \in BatchDefects \cup {"NONE"}
  <2>1. /\ assigned \in [DOMAIN batches -> BatchDefects \cup {"NONE"}]
        /\ batches \in Seq(Seq(Order(setup.n_orders)) \ {<<>>})
    BY DEF DataInv, DataTypes, Settled, Settling
  <2>2. b \in DOMAIN batches
    BY <2>1 DEF Settled
  <2> QED BY <2>1, <2>2
<1>4. IsTruth(truth)
  BY DEF DataInv, DataTypes
<1>5. truth' = Recorded(assigned[b], b, b, rows, batches[b])
  BY DEF Settled
<1>6. CASE assigned[b] = "NONE"
  <2>1. PICK m : truth' = [truth EXCEPT !.expected = truth.expected \cup {m}]
    BY <1>5, <1>6 DEF Recorded
  <2> QED BY <1>4, <2>1 DEF IsTruth
<1>7. CASE assigned[b] # "NONE"
  <2>1. PICK label : label = IF assigned[b] = "UNEXPLAINED_RESIDUAL" THEN "UNEXPLAINED" ELSE assigned[b]
    OBVIOUS
  <2>2. PICK x : x = Planted(label, b, ids, {})
    OBVIOUS
  <2>3. truth' = [truth EXCEPT !.planted = truth.planted \cup {x}]
    BY <1>1, <1>5, <1>7, <2>1, <2>2 DEF Recorded
  <2>4. truth'.planted = truth.planted \cup {x} /\ truth'.unresolvable = truth.unresolvable
    BY <1>4, <2>3 DEF IsTruth
  <2>5. x.label = label /\ x.ids = ids
    BY <2>2 DEF Planted
  <2>6. label \in FlaggedButTrueMatchLabels
    BY <1>3, <1>7, <2>1 DEF FlaggedButTrueMatchLabels, BatchDefects
  <2> QED BY <1>2, <2>4, <2>5, <2>6
<1> QED BY <1>6, <1>7

\* The credit of a settled batch names it, and a defect planted in it keeps its match.
LEMMA BuildBatchCredits == DataInv /\ CreditInv /\ BuildBatch => CreditInv'
<1> SUFFICES ASSUME DataInv, CreditInv, BuildBatch PROVE CreditInv'
  OBVIOUS
<1>1. UNCHANGED <<setup, step, orders, batches, assigned>>
  BY Zenon DEF BuildBatch
<1>2. PICK b, rows, credit : Settled(b, rows, credit)
  BY BuildBatchFacts
<1>3. /\ b \in Nat /\ b = Built + 1 /\ Built \in Nat
      /\ files'.bank[b] = credit /\ \A c \in 1..Built : files'.bank[c] = files.bank[c]
      /\ Built' = b /\ Strays' = 0 /\ Pairs' = 0 /\ Strays = 0 /\ Pairs = 0
  BY <1>1, <1>2, SettledFiles
<1>4. \A c \in 1..b : c = b \/ c \in 1..Built
  BY <1>3
<1>5. NamedCredits(files'.bank, setup, b, 0, 0)
  <2>1. credit.narration \in NarrationsOf(setup, b)
    BY <1>2 DEF Settled
  <2>2. \A c \in 1..Built : files.bank[c].narration \in NarrationsOf(setup, c)
    BY DEF CreditInv, NamedCredits
  <2>3. \A i : i \notin (b + 1)..(b + 0) /\ i \notin 1..0
    BY <1>3
  <2> QED BY <1>3, <1>4, <2>1, <2>2, <2>3 DEF NamedCredits
<1>6. PlantedMatches(truth', b)
  <2>1. \A e \in truth.planted :
          e.row \in 1..Built => e.label \in FlaggedButTrueMatchLabels /\ 1 \in DOMAIN e.ids
    BY DEF CreditInv, PlantedMatches
  <2>2. \A e \in truth.planted : e.row = NoRow \/ e.row \in 1..Built
    <3>1. \A e \in truth.planted : IsPlanted(e, files, Built, 0)
      BY <1>3 DEF DataInv, Truthful
    <3>2. \A i : i \notin (Built + 1)..(Built + 0)
      BY <1>3
    <3> QED BY <3>1, <3>2 DEF IsPlanted
  <2>3. NoRow \notin 1..b
    BY <1>3 DEF NoRow
  <2>4. \A e \in truth.planted :
          e.row \in 1..b => e.label \in FlaggedButTrueMatchLabels /\ 1 \in DOMAIN e.ids
    BY <2>1, <2>2, <2>3
  <2>5. \/ truth'.planted = truth.planted
        \/ \E x : /\ truth'.planted = truth.planted \cup {x}
                  /\ x.label \in FlaggedButTrueMatchLabels /\ 1 \in DOMAIN x.ids
    BY <1>2, RecordedMatch
  <2>6. PICK t : t = truth'
    OBVIOUS
  <2>7. PlantedMatches(t, b)
    BY <2>4, <2>5, <2>6 DEF PlantedMatches
  <2> QED BY <2>6, <2>7
<1>7. PairsAlike(files', truth', b + 0, 0)
  <2>1. truth.unresolvable = {}
    BY <1>2 DEF DataInv, Truthful, Settled
  <2>2. truth'.unresolvable = {}
    BY <1>2, <2>1, RecordedMatch
  <2>3. \A i : i \notin 1..0
    OBVIOUS
  <2> QED BY <2>2, <2>3 DEF PairsAlike
<1> QED BY <1>1, <1>3, <1>5, <1>6, <1>7 DEF CreditInv

\* A stray credit names a UTR that nothing is settled under.
LEMMA PlantBankOnlyCredits == DataInv /\ CreditInv /\ PlantBankOnly => CreditInv'
<1> SUFFICES ASSUME DataInv, CreditInv, PlantBankOnly PROVE CreditInv'
  OBVIOUS
<1>1. PICK n \in Nat, built \in Nat : n = setup.bank_only /\ built = Built /\ built = Len(files.bank)
  BY BuiltSoFar DEF PlantBankOnly
<1>2. /\ step = "settle" /\ step' = "unresolvable" /\ built = Len(batches)
      /\ UNCHANGED <<setup, orders, batches, assigned>>
      /\ files.bank \in Seq(BankRow) /\ Strays = 0 /\ Pairs = 0
  BY <1>1, BuiltSoFar DEF PlantBankOnly
<1>3. PICK amount \in [1..n -> setup.stray_amounts] :
        files' = [files EXCEPT !.bank = files.bank \o [i \in 1..n |->
             [narration |-> Narration("unknown", Len(files.bank) + i, 16), credit |-> amount[i],
              txn_date |-> Cutover]]]
  BY <1>1 DEF PlantBankOnly
<1>4. PICK strays : strays = {Planted("BANK_ONLY", built + i, <<>>, {}) : i \in 1..n}
  OBVIOUS
<1>5. truth' = [truth EXCEPT !.planted = truth.planted \cup strays]
  BY <1>1, <1>4 DEF PlantBankOnly
<1>6. PICK added : added = [i \in 1..n |->
             [narration |-> Narration("unknown", built + i, 16), credit |-> amount[i],
              txn_date |-> Cutover]]
  OBVIOUS
<1>7. /\ files.bank \in Seq(BankRow \cup Range(added)) /\ added \in Seq(BankRow \cup Range(added))
      /\ Len(added) = n
  <2>1. added \in [1..n -> Range(added)]
    BY <1>6 DEF Range
  <2>2. added \in Seq(BankRow \cup Range(added)) /\ Len(added) = n
    BY <2>1
  <2> QED BY <1>2, <2>2
<1>8. files \in [bank : Seq(BankRow), settlement : Seq(SettlementRow), ledger : Seq(LedgerRow)]
  BY DEF DataInv, DataTypes
<1>9. files'.bank = files.bank \o added
  BY <1>1, <1>3, <1>6, <1>8
<1>10. PICK bank2 : bank2 = files'.bank
  OBVIOUS
<1>11. Behind(bank2, files.bank, added, built, n)
  <2>1. PICK a \in Nat, m \in Nat :
          a = Len(files.bank) /\ m = Len(added) /\ Behind(files.bank \o added, files.bank, added, a, m)
    BY <1>7, AddedBehind
  <2> QED BY <1>1, <1>7, <1>9, <1>10, <2>1
<1>12. Built' = built /\ Strays' = n /\ Pairs' = 0
  BY <1>1, <1>2 DEF Built, Strays, Pairs
<1>13. NamedCredits(bank2, setup, built, n, 0)
  <2>1. \A c \in 1..built : bank2[c].narration \in NarrationsOf(setup, c)
    <3>1. \A c \in 1..built : files.bank[c].narration \in NarrationsOf(setup, c)
      BY <1>1 DEF CreditInv, NamedCredits
    <3> QED BY <1>11, <3>1 DEF Behind
  <2>2. ASSUME NEW b \in (built + 1)..(built + n)
        PROVE  bank2[b].narration = Narration("unknown", b, 16)
    <3>1. b - built \in 1..n /\ built + (b - built) = b
      OBVIOUS
    <3>2. bank2[b] = added[b - built]
      <4>1. bank2[built + (b - built)] = added[b - built]
        BY <1>11, <3>1 DEF Behind
      <4> QED BY <3>1, <4>1
    <3>3. added[b - built].narration = Narration("unknown", built + (b - built), 16)
      BY <1>6, <3>1
    <3> QED BY <3>1, <3>2, <3>3
  <2>3. \A i : i \notin 1..0
    OBVIOUS
  <2> QED BY <2>1, <2>2, <2>3 DEF NamedCredits
<1>14. truth'.planted = truth.planted \cup strays /\ truth'.unresolvable = truth.unresolvable
  <2>1. IsTruth(truth)
    BY DEF DataInv, DataTypes
  <2> QED BY <1>5, <2>1 DEF IsTruth
<1>15. PlantedMatches(truth', built)
  <2>1. \A e \in truth.planted :
          e.row \in 1..built => e.label \in FlaggedButTrueMatchLabels /\ 1 \in DOMAIN e.ids
    BY <1>1 DEF CreditInv, PlantedMatches
  <2>2. \A e \in strays : e.row \notin 1..built
    <3>1. \A i \in 1..n : built + i \notin 1..built
      OBVIOUS
    <3> QED BY <1>4, <3>1 DEF Planted
  <2>3. PICK t : t = truth'
    OBVIOUS
  <2>4. PlantedMatches(t, built)
    BY <1>14, <2>1, <2>2, <2>3 DEF PlantedMatches
  <2> QED BY <2>3, <2>4
<1>16. PairsAlike(files', truth', built + n, 0)
  <2>1. truth'.unresolvable = {}
    BY <1>2, <1>14 DEF DataInv, Truthful
  <2>2. \A i : i \notin 1..0
    OBVIOUS
  <2> QED BY <2>1, <2>2 DEF PairsAlike
<1> QED BY <1>1, <1>2, <1>10, <1>12, <1>13, <1>15, <1>16 DEF CreditInv

\* The credit of a pair names six digits of one of its UTRs, and is the net of both.
LEMMA PlantUnresolvableCredits == DataInv /\ CreditInv /\ PlantUnresolvable => CreditInv'
<1> SUFFICES ASSUME DataInv, CreditInv, PlantUnresolvable PROVE CreditInv'
  OBVIOUS
<1>1. PICK n, rows, credits : Twinned(n, rows, credits)
  BY TwinFacts
<1>2. PICK built \in Nat, strays \in Nat, first \in Nat :
        built = Len(batches) /\ strays = setup.bank_only /\ first = Len(files.bank)
  BY <1>1, BeforePairs
<1>3. /\ n \in Nat /\ first = built + strays
      /\ Built = built /\ Strays = strays /\ Pairs = 0
      /\ Built' = built /\ Strays' = strays /\ Pairs' = n
      /\ files.bank \in Seq(BankRow) /\ files.settlement \in Seq(SettlementRow)
  BY <1>1, <1>2, BeforePairs
<1>4. /\ PairRows(rows, first, n) /\ credits \in Seq(BankRow) /\ Len(credits) = n
      /\ \A i \in 1..n :
           /\ credits[i].credit \in Int
           /\ credits[i].narration = Narration("neft", first + 2 * i - 1, 6)
           /\ \A j \in 1..2 : \E k \in DOMAIN rows : Alike(rows[k], credits[i], first, i, j)
      /\ files' = [files EXCEPT !.settlement = files.settlement \o rows,
                                !.bank = files.bank \o credits]
      /\ truth' = [truth EXCEPT !.unresolvable =
           {[row |-> first + i, a |-> first + 2 * i - 1, b |-> first + 2 * i] : i \in 1..n}]
      /\ setup' = setup
  BY <1>1, <1>2 DEF Twinned
<1>5. PICK bank2, rows2 : bank2 = files.bank \o credits /\ rows2 = files.settlement \o rows
  OBVIOUS
<1>6. files'.bank = bank2 /\ files'.settlement = rows2
  <2>1. files \in [bank : Seq(BankRow), settlement : Seq(SettlementRow), ledger : Seq(LedgerRow)]
    BY DEF DataInv, DataTypes
  <2> QED BY <1>4, <1>5, <2>1
<1>7. Behind(bank2, files.bank, credits, first, n)
  <2>1. PICK a \in Nat, m \in Nat :
          a = Len(files.bank) /\ m = Len(credits)
            /\ Behind(files.bank \o credits, files.bank, credits, a, m)
    BY <1>3, <1>4, AddedBehind
  <2> QED BY <1>2, <1>4, <1>5, <2>1
<1>8. PICK a \in Nat, m \in Nat : Behind(rows2, files.settlement, rows, a, m)
  <2>1. rows \in Seq(SettlementRow)
    BY <1>4 DEF PairRows
  <2> QED BY <1>3, <1>5, <2>1, AddedBehind
<1>9. /\ truth'.planted = truth.planted
      /\ truth'.unresolvable =
           {[row |-> first + i, a |-> first + 2 * i - 1, b |-> first + 2 * i] : i \in 1..n}
  <2>1. IsTruth(truth)
    BY DEF DataInv, DataTypes
  <2> QED BY <1>4, <2>1 DEF IsTruth
<1>10. NamedCredits(bank2, setup, built, strays, n)
  <2>1. NamedCredits(files.bank, setup, built, strays, 0)
    BY <1>3 DEF CreditInv
  <2>2. \A c \in 1..built : bank2[c].narration \in NarrationsOf(setup, c)
    <3>1. \A c \in 1..built : c \in 1..first
      BY <1>3
    <3> QED BY <1>7, <2>1, <3>1 DEF NamedCredits, Behind
  <2>3. \A c \in (built + 1)..(built + strays) : bank2[c].narration = Narration("unknown", c, 16)
    <3>1. \A c \in (built + 1)..(built + strays) : c \in 1..first
      BY <1>3
    <3> QED BY <1>7, <2>1, <3>1 DEF NamedCredits, Behind
  <2>4. \A i \in 1..n : bank2[first + i].narration = Narration("neft", first + 2 * i - 1, 6)
    BY <1>4, <1>7 DEF Behind
  <2> QED BY <1>3, <2>2, <2>3, <2>4 DEF NamedCredits
<1>11. PlantedMatches(truth', built)
  BY <1>3, <1>9 DEF CreditInv, PlantedMatches
<1>12. ASSUME NEW i \in 1..n, NEW j \in 1..2
       PROVE  \E r \in DOMAIN rows2 : Alike(rows2[r], bank2[first + i], first, i, j)
  <2>1. PICK k \in DOMAIN rows : Alike(rows[k], credits[i], first, i, j)
    BY <1>4
  <2>2. bank2[first + i] = credits[i] /\ a + k \in DOMAIN rows2 /\ rows2[a + k] = rows[k]
    BY <1>7, <1>8 DEF Behind
  <2> QED BY <2>1, <2>2
<1>13. PairsAlike(files', truth', first, n)
  BY <1>6, <1>9, <1>12 DEF PairsAlike
<1> QED BY <1>3, <1>4, <1>6, <1>10, <1>11, <1>13 DEF CreditInv

\* A step of the cascade, or none, leaves the credits alone.
LEMMA CreditFrame == CreditInv /\ UNCHANGED generatorVars => CreditInv'
BY DEF CreditInv, Built, Strays, Pairs, generatorVars

\* Every step keeps the credits' invariant.
LEMMA CreditInvNext ==
  DataInv /\ DataInv' /\ CreditInv /\ [BenchmarkNext]_<<vars, generatorVars>> => CreditInv'
<1> SUFFICES ASSUME DataInv, DataInv', CreditInv, [BenchmarkNext]_<<vars, generatorVars>>
             PROVE  CreditInv'
  OBVIOUS
<1>1. CASE UNCHANGED generatorVars
  BY <1>1, CreditFrame
<1>2. CASE Generate
  BY <1>2, EarlyCredits, BuildBatchCredits, PlantBankOnlyCredits, PlantUnresolvableCredits
     DEF Generate
<1> QED BY <1>1, <1>2, Zenon DEF BenchmarkNext

\* A credit names the batch it pays, and that of a pair is the net of either batch.
THEOREM CreditInvariant == BenchmarkSpec => []CreditInv
<1>1. BenchmarkInit => CreditInv
  BY CreditStart DEF BenchmarkInit
<1> QED BY <1>1, CreditInvNext, DatasetInvariant, PTL DEF BenchmarkSpec

-----------------------------------------------------------------------------
(* What a narration reads like                                             *)

\* The UTRs drawn for a dataset.
Drawn(s) == 1..(s.n_orders + s.bank_only + 2 * s.unresolvable)

\* A narration is read as v, by its token or by the characters they have in common.
ReadsAs(n, v) == Token[n] = v \/ Ratio[n][v] >= 67

\* What the narrations of a dataset read like: ReadingAssumption in the words of ReadsAs.
LEMMA ReadingFacts ==
  ASSUME NEW s \in Setups, NEW u \in Drawn(s), NEW v \in Drawn(s)
  PROVE  /\ Upper[u] = u
         /\ u # v => \A n \in NarrationsOf(s, u) : ~ ReadsAs(n, v)
         /\ ~ ReadsAs(Narration("neft", u, 6), v)
         /\ Ratio[Narration("neft", u, 6)][v] <= Ratio[Narration("neft", u, 6)][u]
<1>1. /\ u \in Utrs /\ v \in Utrs
      /\ \A n \in NarrationsOf(s, u) : n \in Narrations
      /\ Narration("neft", u, 6) \in Narrations
  BY NameFacts DEF Drawn, NarrationsOf
<1>2. \A n \in Narrations : Ratio[n][v] \in 0..100
  BY <1>1, FuzzyAssumption
<1>3. /\ Upper[u] = u
      /\ \A n \in NarrationsOf(s, u) : u # v => Token[n] # v /\ Ratio[n][v] < 67
      /\ Token[Narration("neft", u, 6)] # v /\ Ratio[Narration("neft", u, 6)][v] < 67
      /\ Ratio[Narration("neft", u, 6)][v] <= Ratio[Narration("neft", u, 6)][u]
  BY ReadingAssumption DEF Drawn
<1>4. ASSUME NEW n \in Narrations, Token[n] # v, Ratio[n][v] < 67 PROVE ~ ReadsAs(n, v)
  BY <1>2, <1>4 DEF ReadsAs
<1> QED BY <1>1, <1>3, <1>4

\* The UTRs of a finished dataset.
LEMMA DatasetUtrs ==
  ASSUME DataInv, step = "written"
  PROVE  \E built, strays, pairs \in Nat :
           /\ built = Built /\ strays = Strays /\ pairs = Pairs
           /\ DOMAIN files.bank = 1..(built + strays + pairs)
           /\ 1..(built + strays + 2 * pairs) \subseteq Drawn(setup)
           /\ \A r \in DOMAIN files.settlement :
                \/ files.settlement[r].settlement_utr \in 1..built
                \/ files.settlement[r].settlement_utr
                     \in (built + strays + 1)..(built + strays + 2 * pairs)
<1>1. /\ setup \in Setups
      /\ files \in [bank : Seq(BankRow), settlement : Seq(SettlementRow), ledger : Seq(LedgerRow)]
      /\ orders \in Seq(Order(setup.n_orders))
      /\ batches \in Seq(Seq(Order(setup.n_orders)) \ {<<>>})
  BY DEF DataInv, DataTypes
<1>2. PICK strays \in Nat, pairs \in Nat, p \in Nat :
        strays = setup.bank_only /\ pairs = setup.unresolvable /\ p = setup.n_orders
  BY <1>1, SetupFacts
<1>3. PICK built \in Nat, m \in Nat : built = Len(batches) /\ m = Len(orders)
  BY <1>1
<1>4. built = Built /\ strays = Strays /\ pairs = Pairs
  BY <1>2, <1>3 DEF Built, Strays, Pairs
<1>5. built <= p
  BY <1>2, <1>3 DEF DataInv, OrdersPlaced, FewBatches
<1>6. 1..(built + strays + 2 * pairs) \subseteq Drawn(setup)
  <2>1. 1..(built + strays + 2 * pairs) \subseteq 1..(p + strays + 2 * pairs)
    BY <1>5
  <2> QED BY <1>2, <2>1 DEF Drawn
<1>7. DOMAIN files.bank = 1..(built + strays + pairs)
  <2>1. Len(files.bank) = Built + Strays + Pairs
    BY DEF DataInv, RowsSettled
  <2> QED BY <1>1, <1>4, <2>1
<1>8. ASSUME NEW r \in DOMAIN files.settlement, NEW v, v = files.settlement[r].settlement_utr
      PROVE  v \in 1..built \/ v \in (built + strays + 1)..(built + strays + 2 * pairs)
  <2>1. PICK first : first = built + strays
    OBVIOUS
  <2>2. IsMade(files.settlement[r], batches, built, first, pairs)
    BY <1>2, <1>3, <1>4, <2>1 DEF DataInv, RowsSettled, AllMade
  <2>3. CASE \E b \in 1..built : v = b
    BY <2>3
  <2>4. CASE \E i \in 1..pairs : \E twin \in {"a", "b"} : v = first + 2 * i - (IF twin = "a" THEN 1 ELSE 0)
    <3>1. PICK i \in 1..pairs : v = first + 2 * i - 1 \/ v = first + 2 * i
      BY <2>4
    <3> QED BY <2>1, <3>1
  <2> QED BY <1>8, <2>2, <2>3, <2>4 DEF IsMade, OfOrder, OfTwin
<1> QED BY <1>4, <1>6, <1>7, <1>8

\* A credit that reads like a UTR something was settled under is that batch's.
LEMMA ReadsOwn ==
  ASSUME DataInv, CreditInv, step = "written",
         NEW b \in DOMAIN files.bank, NEW r \in DOMAIN files.settlement,
         ReadsAs(files.bank[b].narration, files.settlement[r].settlement_utr)
  PROVE  b \in 1..Built /\ files.settlement[r].settlement_utr = b
<1>1. PICK v, n : v = files.settlement[r].settlement_utr /\ n = files.bank[b].narration
  OBVIOUS
<1>2. PICK built \in Nat, strays \in Nat, pairs \in Nat :
        /\ built = Built /\ strays = Strays /\ pairs = Pairs
        /\ b \in 1..(built + strays + pairs)
        /\ 1..(built + strays + 2 * pairs) \subseteq Drawn(setup)
        /\ \/ v \in 1..built
           \/ v \in (built + strays + 1)..(built + strays + 2 * pairs)
  BY <1>1, DatasetUtrs
<1>3. NamedCredits(files.bank, setup, built, strays, pairs) /\ setup \in Setups
  BY <1>2 DEF CreditInv, DataInv, DataTypes
<1>4. v \in 1..(built + strays + 2 * pairs) /\ v \in Drawn(setup)
  <2>1. v \in 1..(built + strays + 2 * pairs)
    BY <1>2
  <2> QED BY <1>2, <2>1
<1>5. CASE b \in 1..(built + strays)
  <2>1. n \in NarrationsOf(setup, b)
    <3>1. CASE b \in 1..built
      BY <1>1, <1>3, <3>1 DEF NamedCredits
    <3>2. CASE b \in (built + 1)..(built + strays)
      BY <1>1, <1>3, <3>2 DEF NamedCredits, NarrationsOf
    <3> QED BY <1>5, <3>1, <3>2
  <2>2. b \in Drawn(setup)
    <3>1. b \in 1..(built + strays + 2 * pairs)
      BY <1>5
    <3> QED BY <1>2, <3>1
  <2>3. b = v
    BY <1>1, <1>3, <1>4, <2>1, <2>2, ReadingFacts
  <2>4. b \in 1..built
    BY <1>2, <1>5, <2>3
  <2> QED BY <1>1, <1>2, <2>3, <2>4
<1>6. CASE b \notin 1..(built + strays)
  <2>1. b - (built + strays) \in 1..pairs /\ built + strays + (b - (built + strays)) = b
    BY <1>2, <1>6
  <2>2. PICK i \in 1..pairs : built + strays + i = b
    BY <2>1
  <2>3. PICK u : u = built + strays + 2 * i - 1
    OBVIOUS
  <2>4. n = Narration("neft", u, 6)
    BY <1>1, <1>3, <2>2, <2>3 DEF NamedCredits
  <2>5. u \in Drawn(setup)
    <3>1. u \in 1..(built + strays + 2 * pairs)
      BY <2>3
    <3> QED BY <1>2, <3>1
  <2> QED BY <1>1, <1>3, <1>4, <2>4, <2>5, ReadingFacts
<1> QED BY <1>5, <1>6

-----------------------------------------------------------------------------
(* What the scores say                                                     *)

\* Stage 5 sorts a row of the residue as it decided for it.
LEMMA FuzzyBuckets ==
  ASSUME IInv, Past5
  PROVE  LET rs == stage1.residue_settlement
             Bucket(b) == Decision(bank[b], settlement, rs, input.auto_threshold).bucket
         IN  /\ \A m \in stage5.matched : Bucket(m.bank) = "matched"
             /\ input.use_stage5 =>
                  \A b \in stage1.residue_bank : Bucket(b) = "ambiguous" => b \in stage5.ambiguous
<1> DEFINE rb == UtrOutcome.residue_bank
           rs == UtrOutcome.residue_settlement
           D(b) == Decision(bank[b], settlement, rs, input.auto_threshold)
           decision == [b \in rb |-> D(b)]
           In(bucket) == {b \in rb : decision[b].bucket = bucket}
           Put(bucket) == {[bank |-> b, utr |-> decision[b].utr] : b \in In(bucket)}
<1>1. stage1 = UtrOutcome /\ stage5 = FuzzyOutcome
  BY DEF Past5, Past1, Past, IInv, Matching, Control
<1>2. ~ input.use_stage5 => stage5.matched = {}
  BY <1>1 DEF FuzzyOutcome, StageResult
<1>3. CASE input.use_stage5
  <2>1. stage5 = MatchFuzzy(bank, settlement, rb, rs, input.auto_threshold)
    BY <1>1, <1>3 DEF FuzzyOutcome
  <2>2. stage5.matched = Put("matched") /\ stage5.ambiguous = In("ambiguous")
    BY <2>1 DEF MatchFuzzy, StageResult
  <2>3. \A b \in rb : decision[b] = D(b)
    OBVIOUS
  <2>4. \A m \in stage5.matched : D(m.bank).bucket = "matched"
    <3> HIDE DEF decision, D
    <3> QED BY <2>2, <2>3
  <2>5. \A b \in rb : D(b).bucket = "ambiguous" => b \in stage5.ambiguous
    <3> HIDE DEF decision, D
    <3> QED BY <2>2, <2>3
  <2> QED BY <1>1, <2>4, <2>5
<1> QED BY <1>2, <1>3

\* What the parts of a score are at most, and are when x and y agree.
Capped(score, max, x, y) == score \in Int /\ score <= max /\ (x = y => score = max)

\* The amount scores 1500 at most, and scores that when the credit is the net.
LEMMA AmountScoreBound ==
  ASSUME NEW credit \in Int, NEW net \in Int
  PROVE  Capped(AmountScore(credit, net), 1500, credit, net)
<1> DEFINE tolerance == IF Abs(net) > 100000 THEN Abs(net) ELSE 100000
           diff == 200 * Abs(credit - net)
<1>1. PICK t \in Nat, d \in Nat : t = tolerance /\ d = diff /\ t > 0 /\ (credit = net => d = 0)
  BY DEF Abs
<1> HIDE DEF tolerance, diff
<1>2. AmountScore(credit, net) = IF d >= t THEN 0 ELSE (1500 * (t - d)) \div t
  BY <1>1 DEF AmountScore, tolerance, diff
<1>3. CASE d >= t
  BY <1>1, <1>2, <1>3 DEF Capped
<1>4. CASE ~ (d >= t)
  <2>1. PICK n \in Nat : n = 1500 * (t - d) /\ n <= 1500 * t /\ (d = 0 => n = 1500 * t)
    BY <1>1, <1>4
  <2>2. PICK q : q = n \div t
    OBVIOUS
  <2>3. q \in Nat /\ t * q <= n /\ n < t * q + t
    BY <1>1, <2>1, <2>2, DivBounds
  <2>4. q <= 1500
    <3> SUFFICES ASSUME q >= 1501 PROVE FALSE
      BY <2>3
    <3>1. t * q >= t * 1501
      BY <1>1, <2>3
    <3> QED BY <1>1, <2>1, <2>3, <3>1
  <2>5. d = 0 => q >= 1500
    <3> SUFFICES ASSUME d = 0, q <= 1499 PROVE FALSE
      BY <2>3
    <3>1. t * q <= t * 1499
      BY <1>1, <2>3
    <3> QED BY <1>1, <2>1, <2>3, <3>1
  <2> QED BY <1>1, <1>2, <1>4, <2>1, <2>2, <2>3, <2>4, <2>5 DEF Capped
<1> QED BY <1>3, <1>4

\* The date scores 600 at most, and scores that on the same day.
LEMMA DateScoreBound ==
  ASSUME NEW x \in Int, NEW y \in Int
  PROVE  Capped(DateScore(x, y), 600, x, y)
<1>1. PICK days \in Nat : days = Abs(x - y) /\ (x = y => days = 0)
  BY DEF Abs
<1>2. DateScore(x, y) = IF days >= 3 THEN 0 ELSE 200 * (3 - days)
  BY <1>1 DEF DateScore
<1> QED BY <1>1, <1>2 DEF Capped

\* A score is that of the narration and at most the 2100 of the amount and the date,
\* which an equal amount on the same day has.
ScoreCapped(row, s, rows, u) ==
  /\ Score(row, s, rows, u) \in Int /\ Ratio[row.narration][u] \in 0..100
  /\ Score(row, s, rows, u) <= 2100 + NarrationScore(row.narration, u)
  /\ /\ row.credit = Net(s, SpelledGroup(s, rows, u))
     /\ SettledDates(s, SpelledGroup(s, rows, u)) = {row.txn_date}
     => Score(row, s, rows, u) = 2100 + NarrationScore(row.narration, u)

\* The score of a candidate is bounded by what its narration adds to 2100.
LEMMA ScoreBound ==
  ASSUME NEW s \in Seq(SettlementRow), NEW rows \in SUBSET DOMAIN s,
         \A g \in SUBSET DOMAIN s : Net(s, g) \in Int,
         NEW row \in BankRow, row.credit # Blank, NEW u \in Candidates(s, rows)
  PROVE  ScoreCapped(row, s, rows, u)
<1> DEFINE group == SpelledGroup(s, rows, u)
           date == CHOOSE d \in SettledDates(s, group) : TRUE
<1>1. group # {} /\ group \subseteq DOMAIN s /\ u \in Utrs
  BY CandidateFacts
<1>2. SettledDates(s, group) # {} /\ SettledDates(s, group) \subseteq Int
  <2>1. \A i \in group : s[i] \in SettlementRow
    BY <1>1
  <2> QED BY <2>1, <1>1 DEF SettledDates, SettlementRow
<1>3. date \in Int /\ \A x : SettledDates(s, group) = {x} => date = x
  BY <1>2
<1>4. row.credit \in Int /\ row.txn_date \in Int /\ row.narration \in Narrations
  BY DEF BankRow
<1>5. PICK net \in Int : net = Net(s, group)
  BY <1>1
<1>6. PICK x : x = AmountScore(row.credit, Net(s, group)) /\ Capped(x, 1500, row.credit, net)
  BY <1>4, <1>5, AmountScoreBound
<1>7. PICK day \in Int : day = date /\ \A z : SettledDates(s, group) = {z} => day = z
  BY <1>3
<1> HIDE DEF date
<1>8. PICK y : y = DateScore(row.txn_date, date) /\ Capped(y, 600, row.txn_date, day)
  BY <1>4, <1>7, DateScoreBound
<1>9. PICK r \in 0..100 : r = Ratio[row.narration][u]
  BY <1>1, <1>4, FuzzyAssumption
<1>10. NarrationScore(row.narration, u) = 9 * r
  BY <1>9 DEF NarrationScore
<1>11. Score(row, s, rows, u) = x + y + 9 * r
  <2>1. Score(row, s, rows, u) =
          AmountScore(row.credit, Net(s, group)) + DateScore(row.txn_date, date)
            + NarrationScore(row.narration, u)
    BY Zenon DEF Score, date
  <2> QED BY <1>6, <1>8, <1>10, <2>1
<1>12. PICK score : score = Score(row, s, rows, u)
  OBVIOUS
<1>13. score \in Int /\ score <= 2100 + 9 * r
  <2>1. x \in Int /\ y \in Int /\ x <= 1500 /\ y <= 600
    BY <1>6, <1>8 DEF Capped
  <2>2. PICK v \in Int : v = 9 * r
    OBVIOUS
  <2>3. score = x + y + v
    BY <1>11, <1>12, <2>2
  <2> QED BY <2>1, <2>2, <2>3
<1>14. ASSUME row.credit = Net(s, group), SettledDates(s, group) = {row.txn_date}
       PROVE  score = 2100 + 9 * r
  <2>1. x = 1500
    BY <1>5, <1>6, <1>14 DEF Capped
  <2>2. y = 600
    BY <1>7, <1>8, <1>14 DEF Capped
  <2> QED BY <1>9, <1>11, <1>12, <2>1, <2>2
<1> QED BY <1>9, <1>10, <1>12, <1>13, <1>14 DEF ScoreCapped

\* A row is matched only to a batch that scores as high as the automatic threshold.
LEMMA DecisionMatched ==
  ASSUME NEW row, NEW s, NEW rows, NEW auto,
         Decision(row, s, rows, auto).bucket = "matched",
         Decision(row, s, rows, auto).utr \in Candidates(s, rows)
  PROVE  Score(row, s, rows, Decision(row, s, rows, auto).utr) >= auto
<1> DEFINE candidates == Candidates(s, rows)
           score == [c \in candidates |-> Score(row, s, rows, c)]
           first == [c \in candidates |-> Min(SpelledGroup(s, rows, c))]
           top == CHOOSE c \in candidates : \A d \in candidates : Precedes(score, first, c, d)
           contested == /\ score[top] >= ReviewThreshold
                        /\ \E d \in candidates \ {top} : score[top] - score[d] <= AmbiguityMargin
           bucket == IF contested THEN "ambiguous"
                     ELSE IF score[top] >= auto THEN "matched"
                     ELSE IF score[top] >= ReviewThreshold THEN "needs_review"
                     ELSE "residue"
<1>1. candidates # {}
  OBVIOUS
<1>2. Decision(row, s, rows, auto) = [bucket |-> bucket, utr |-> top]
  BY <1>1, Zenon DEF Decision
<1>3. bucket = "matched" /\ top = Decision(row, s, rows, auto).utr
  <2> HIDE DEF bucket, top
  <2> QED BY <1>2
<1>4. score[top] >= auto
  <2> HIDE DEF contested, score, top
  <2> QED BY <1>3
<1>5. \A d \in candidates : score[d] = Score(row, s, rows, d)
  OBVIOUS
<1> HIDE DEF score, top
<1> QED BY <1>3, <1>4, <1>5

\* A row two batches explain about as well, better than any other, is left to a person.
LEMMA DecisionContested ==
  ASSUME NEW s \in Seq(SettlementRow), NEW rows \in SUBSET DOMAIN s,
         \A g \in SUBSET DOMAIN s : Net(s, g) \in Int,
         NEW row \in BankRow, row.credit # Blank, NEW auto,
         NEW a \in Candidates(s, rows), NEW b \in Candidates(s, rows) \ {a},
         Score(row, s, rows, a) >= ReviewThreshold,
         \A c \in Candidates(s, rows) : Score(row, s, rows, c) <= Score(row, s, rows, a),
         Score(row, s, rows, a) - Score(row, s, rows, b) <= AmbiguityMargin
  PROVE  Decision(row, s, rows, auto).bucket = "ambiguous"
<1> DEFINE candidates == Candidates(s, rows)
           score == [c \in candidates |-> Score(row, s, rows, c)]
           first == [c \in candidates |-> Min(SpelledGroup(s, rows, c))]
           top == CHOOSE c \in candidates : \A d \in candidates : Precedes(score, first, c, d)
           contested == /\ score[top] >= ReviewThreshold
                        /\ \E d \in candidates \ {top} : score[top] - score[d] <= AmbiguityMargin
           bucket == IF contested THEN "ambiguous"
                     ELSE IF score[top] >= auto THEN "matched"
                     ELSE IF score[top] >= ReviewThreshold THEN "needs_review"
                     ELSE "residue"
<1>1. candidates # {}
  OBVIOUS
<1>2. Decision(row, s, rows, auto) = [bucket |-> bucket, utr |-> top]
  BY <1>1, Zenon DEF Decision
<1>3. score \in [candidates -> Int]
  BY ScoreType
<1>4. first \in [candidates -> Int]
  <2> SUFFICES ASSUME NEW c \in candidates PROVE Min(SpelledGroup(s, rows, c)) \in Int
    OBVIOUS
  <2>1. SpelledGroup(s, rows, c) # {} /\ SpelledGroup(s, rows, c) \in SUBSET Nat
    BY CandidateFacts
  <2> QED BY <2>1, MinOfNats
<1>5. top \in candidates /\ Precedes(score, first, top, a)
  <2> HIDE DEF score, first
  <2>1. \E c \in candidates : \A d \in candidates : Precedes(score, first, c, d)
    BY <1>1, <1>3, <1>4, CandidateFacts, SomeoneIsFirst
  <2> QED BY <2>1
<1>6. \A d \in candidates : score[d] = Score(row, s, rows, d)
  OBVIOUS
<1>7. AmbiguityMargin \in Nat /\ ReviewThreshold \in Int
  BY FuzzyAssumption DEF MaxScore
<1> HIDE DEF candidates, score, first, top
<1>8. a \in candidates /\ b \in candidates
  BY DEF candidates
<1>9. \A c \in candidates : score[c] <= score[a]
  BY <1>6, <1>8 DEF candidates
<1>10. score[top] = score[a]
  <2>1. score[top] >= score[a]
    BY <1>3, <1>5, <1>8 DEF Precedes
  <2> QED BY <1>3, <1>5, <1>8, <1>9, <2>1
<1>11. score[a] >= ReviewThreshold /\ score[a] - score[b] <= AmbiguityMargin
  BY <1>6, <1>8
<1>12. contested
  <2>1. CASE top = a
    BY <1>7, <1>8, <1>10, <1>11, <2>1
  <2>2. CASE top # a
    BY <1>3, <1>7, <1>8, <1>10, <1>11, <2>2
  <2> QED BY <2>1, <2>2
<1>13. bucket = "ambiguous"
  <2> HIDE DEF contested
  <2> QED BY <1>12
<1> HIDE DEF bucket
<1> QED BY <1>2, <1>13

-----------------------------------------------------------------------------
(* No false match                                                          *)

\* Every credit of a settled batch has a true pairing, expected or planted: its own batch.
LEMMA TruePairing ==
  ASSUME DataInv, CreditInv, step = "written", settlement = files.settlement,
         NEW b \in 1..Built
  PROVE  [bank |-> b, utr |-> b] \in TruePairings
<1>1. PICK file : file = settlement
  OBVIOUS
<1>2. /\ files \in [bank : Seq(BankRow), settlement : Seq(SettlementRow), ledger : Seq(LedgerRow)]
      /\ b \in DOMAIN files.bank /\ b \in Nat
  <2>1. PICK built \in Nat, strays \in Nat, pairs \in Nat :
          b \in 1..built /\ DOMAIN files.bank = 1..(built + strays + pairs)
    BY DatasetUtrs
  <2> QED BY <2>1 DEF DataInv, DataTypes
<1>3. /\ Truthful /\ IdsOnce(file) /\ file \in Seq(SettlementRow)
  BY <1>1, <1>2 DEF DataInv, RowsSettled
<1>4. OfRow(truth.unresolvable, b) = {}
  <2>1. PICK built \in Nat, strays \in Nat : built = Built /\ strays = setup.bank_only
    <3>1. PICK built \in Nat, strays \in Nat : built = Built /\ strays = Strays
      BY DatasetUtrs
    <3> QED BY <3>1 DEF Strays
  <2>2. \A u \in truth.unresolvable : u.row > built + strays
    BY <1>3, <2>1 DEF Truthful
  <2>3. \A u \in truth.unresolvable : u.row # b
    BY <2>1, <2>2
  <2> QED BY <2>3 DEF OfRow
<1>5. ToldOnce(truth, b)
  BY <1>2, <1>3 DEF Truthful
<1>6. CASE OfRow(truth.expected, b) # {}
  <2>1. PICK m \in truth.expected : m.row = b
    BY <1>6 DEF OfRow
  <2>2. m.utr = m.row
    BY <1>3, <2>1 DEF Truthful, IsExpected
  <2> QED BY <2>1, <2>2 DEF TruePairings
<1>7. CASE OfRow(truth.planted, b) # {}
  <2>1. PICK e \in truth.planted : e.row = b
    BY <1>7 DEF OfRow
  <2>2. e.label \in FlaggedButTrueMatchLabels /\ 1 \in DOMAIN e.ids
    BY <2>1 DEF CreditInv, PlantedMatches
  <2>3. Range(e.ids) = IdsUnder(file, b)
    <3>1. IsPlanted(e, files, Built, Strays)
      BY <1>3 DEF Truthful
    <3>2. e.label # "BANK_ONLY" /\ e.row # NoRow
      BY <2>1, <2>2 DEF FlaggedButTrueMatchLabels, NoRow
    <3> QED BY <1>1, <2>1, <3>1, <3>2 DEF IsPlanted
  <2>4. PICK id : id = e.ids[1]
    OBVIOUS
  <2>5. id \in IdsUnder(file, b)
    BY <2>2, <2>3, <2>4 DEF Range
  <2>6. PICK i \in DOMAIN file : file[i].settlement_id = id /\ file[i].settlement_utr = b
    BY <2>5 DEF IdsUnder, Under, SpelledGroup
  <2>7. {k \in DOMAIN file : file[k].settlement_id = id} = {i}
    BY <1>3, <2>6 DEF IdsOnce
  <2>8. Max({i}) = i
    <3>1. i \in Nat
      BY <1>3
    <3>2. PICK S : S = {i}
      OBVIOUS
    <3>3. \A x : (x \in S /\ \A y \in S : x >= y) <=> x = i
      BY <3>1, <3>2
    <3>4. Max(S) = i
      BY <3>2, <3>3 DEF Max
    <3> QED BY <3>2, <3>4
  <2>9. UtrById(id) = b
    <3>1. PICK S : S = {k \in DOMAIN file : file[k].settlement_id = id} /\ S = {i}
      BY <2>7
    <3>2. UtrById(id) = file[Max(S)].settlement_utr
      BY <1>1, <3>1, Zenon DEF UtrById
    <3> QED BY <2>6, <2>8, <3>1, <3>2
  <2>10. [bank |-> e.row, utr |-> UtrById(e.ids[1])] \in TruePairings
    BY <2>2 DEF TruePairings
  <2> QED BY <2>1, <2>4, <2>9, <2>10
<1> QED BY <1>4, <1>5, <1>6, <1>7 DEF ToldOnce, IsOne

\* A credit whose narration names a batch, in whatever spelling, names its own.
LEMMA NamesOwn ==
  ASSUME DataInv, CreditInv, step = "written",
         NEW b \in DOMAIN files.bank, NEW r \in DOMAIN files.settlement,
         ExtractUtr(files.bank[b].narration) = Upper[files.settlement[r].settlement_utr]
  PROVE  /\ b \in 1..Built /\ files.settlement[r].settlement_utr = b
         /\ Upper[files.settlement[r].settlement_utr] = files.settlement[r].settlement_utr
<1>1. PICK v : v = files.settlement[r].settlement_utr
  OBVIOUS
<1>2. PICK built \in Nat, strays \in Nat, pairs \in Nat :
        /\ 1..(built + strays + 2 * pairs) \subseteq Drawn(setup)
        /\ \/ v \in 1..built
           \/ v \in (built + strays + 1)..(built + strays + 2 * pairs)
  BY <1>1, DatasetUtrs
<1>3. v \in 1..(built + strays + 2 * pairs)
  BY <1>2
<1>4. v \in Drawn(setup) /\ setup \in Setups
  BY <1>2, <1>3 DEF DataInv, DataTypes
<1>5. Upper[v] = v
  BY <1>4, ReadingFacts
<1>6. ReadsAs(files.bank[b].narration, v)
  BY <1>1, <1>5 DEF ReadsAs, ExtractUtr
<1> QED BY <1>1, <1>5, <1>6, ReadsOwn

\* What a credit is matched to in a finished run: the batch it was paid from.
LEMMA MatchedToOwn ==
  ASSUME DataInv, CreditInv, DatasetRun, pc = "done",
         input.auto_threshold >= ConfiguredThreshold, NEW m \in BatchMatches
  PROVE  m.bank \in 1..Built /\ m.utr = m.bank
<1>1. /\ FoundInv /\ IInv /\ Past5 /\ input \in InputRecord
      /\ step = "written" /\ bank = files.bank /\ settlement = files.settlement
  BY DEF DatasetRun, RunOfDataset, FoundInv, IInv, Control, Past5, Past
<1>2. /\ bank \in Seq(BankRow) /\ settlement \in Seq(SettlementRow)
      /\ \A g \in SUBSET DOMAIN settlement : Net(settlement, g) \in Int
  BY <1>1, InputFacts
<1>3. PICK n : n = bank[m.bank].narration
  OBVIOUS
<1>4. CASE m \in stage1.matched
  <2>1. m \in UtrMatched(bank, settlement)
    BY <1>1, <1>4, UtrOutcomeFacts DEF Past5, Past1, Past, IInv, Matching
  <2>2. m.bank \in DOMAIN bank /\ ExtractUtr(bank[m.bank].narration) = m.utr
        /\ Group(settlement, m.utr) # {}
    BY <2>1, UtrMatchedFacts
  <2>3. PICK r \in DOMAIN settlement : Upper[settlement[r].settlement_utr] = m.utr
    BY <2>2 DEF Group
  <2>4. m.bank \in 1..Built /\ settlement[r].settlement_utr = m.bank
        /\ Upper[settlement[r].settlement_utr] = settlement[r].settlement_utr
    BY <1>1, <2>2, <2>3, NamesOwn
  <2> QED BY <2>3, <2>4
<1>5. CASE m \in stage5.matched
  <2>1. PICK rs, auto, row, u :
          /\ rs = stage1.residue_settlement /\ auto = input.auto_threshold
          /\ row = bank[m.bank] /\ u = m.utr
    OBVIOUS
  <2>2. PICK d : d = Decision(row, settlement, rs, auto)
    OBVIOUS
  <2>3. /\ row \in BankRow /\ row.credit # Blank /\ rs \in SUBSET DOMAIN settlement
        /\ m = [bank |-> m.bank, utr |-> d.utr] /\ d.utr \in Candidates(settlement, rs)
    BY <1>1, <1>5, <2>1, <2>2, FuzzyDecided
  <2>4. d.bucket = "matched"
    BY <1>1, <1>5, <2>1, <2>2, FuzzyBuckets
  <2>5. u = d.utr
    BY <2>1, <2>3
  <2>6. PICK score, ratio : score = Score(row, settlement, rs, u) /\ ratio = Ratio[n][u]
    OBVIOUS
  <2>6a. score \in Int /\ ratio \in 0..100 /\ score <= 2100 + 9 * ratio
    <3>1. ScoreCapped(row, settlement, rs, u)
      BY <1>2, <2>3, <2>5, ScoreBound
    <3>2. n = row.narration
      BY <1>3, <2>1
    <3>3. score \in Int /\ ratio \in 0..100
      BY <2>6, <3>1, <3>2 DEF ScoreCapped
    <3>4. NarrationScore(row.narration, u) = 9 * ratio
      BY <2>6, <3>2 DEF NarrationScore
    <3>5. score <= 2100 + NarrationScore(row.narration, u)
      BY <2>6, <3>1 DEF ScoreCapped
    <3> QED BY <3>3, <3>4, <3>5
  <2>7. score >= auto
    BY <2>2, <2>3, <2>4, <2>5, <2>6, DecisionMatched
  <2>8. auto >= 2700 /\ auto \in Int
    <3>1. input.auto_threshold \in 0..MaxScore
      BY <1>1 DEF InputRecord
    <3>2. \A t \in 0..MaxScore : t \in Int
      BY DEF MaxScore
    <3>3. input.auto_threshold \in Int
      BY <3>1, <3>2, Zenon
    <3> QED BY <2>1, <3>3 DEF ConfiguredThreshold
  <2>9. ratio >= 67
    BY <2>6a, <2>7, <2>8
  <2>10. PICK r \in DOMAIN settlement : settlement[r].settlement_utr = m.utr
    BY <1>2, <2>3, <2>5, CandidateFacts DEF SpelledGroup
  <2>11. m.bank \in DOMAIN bank
    BY <1>1, <1>5, FuzzyOutcomeFacts DEF Past5, Past1, Past, IInv, Matching, Control
  <2>12. ReadsAs(n, settlement[r].settlement_utr)
    <3>1. Ratio[n][settlement[r].settlement_utr] = ratio
      BY <2>1, <2>6, <2>10
    <3>2. Ratio[n][settlement[r].settlement_utr] >= 67
      BY <2>9, <3>1
    <3> QED BY <3>2 DEF ReadsAs
  <2> QED BY <1>1, <1>3, <2>10, <2>11, <2>12, ReadsOwn
<1> QED BY <1>4, <1>5 DEF BatchMatches

\* At the configured threshold and above the cascade makes no false match, whatever is
\* drawn: no narration reads like a UTR other than its own, and where it does not, amount
\* and date together do not reach the threshold.
THEOREM MakesNoFalseMatch == BenchmarkSpec => []NoFalseMatch
<1>1. DataInv /\ CreditInv /\ DatasetRun => NoFalseMatch
  <2> SUFFICES ASSUME DataInv, CreditInv, DatasetRun, pc = "done",
                      input.auto_threshold >= ConfiguredThreshold, NEW m \in BatchMatches
               PROVE  m \in TruePairings
    BY DEF NoFalseMatch, Scored, PredictedPairs
  <2>1. m.bank \in 1..Built /\ m.utr = m.bank
    BY MatchedToOwn
  <2>2. step = "written" /\ settlement = files.settlement
    BY DEF DatasetRun, RunOfDataset
  <2>3. [bank |-> m.bank, utr |-> m.bank] \in TruePairings
    BY <2>1, <2>2, TruePairing
  <2>4. m = [bank |-> m.bank, utr |-> m.utr]
    <3>1. FoundInv /\ pc = "done"
      BY DEF DatasetRun
    <3>2. m \in [bank : DOMAIN bank, utr : Utrs]
      BY <3>1, MatchType DEF FoundInv
    <3> QED BY <3>2
  <2> QED BY <2>1, <2>3, <2>4
<1> QED BY DatasetInvariant, CreditInvariant, DatasetRunInvariant, <1>1, PTL

-----------------------------------------------------------------------------
(* The unresolvable pairs                                                  *)

\* A UTR of a pair has one row.
LEMMA TwinOnce ==
  ASSUME DataInv, step = "written",
         NEW q \in DOMAIN files.settlement, NEW r \in DOMAIN files.settlement,
         files.settlement[q].settlement_utr = files.settlement[r].settlement_utr,
         files.settlement[r].settlement_utr \notin 1..Built
  PROVE  q = r
<1>1. PICK rowQ, rowR : rowQ = files.settlement[q] /\ rowR = files.settlement[r]
  OBVIOUS
<1>2. PICK built \in Nat, pairs \in Nat, first \in Nat :
        built = Built /\ pairs = Pairs /\ first = Len(batches) + setup.bank_only
  <2>1. PICK built \in Nat, strays \in Nat, pairs \in Nat :
          built = Built /\ strays = Strays /\ pairs = Pairs
    BY DatasetUtrs
  <2>2. built = Len(batches) /\ strays = setup.bank_only
    BY <2>1 DEF Built, Strays
  <2>3. PICK first : first = Len(batches) + setup.bank_only
    OBVIOUS
  <2>4. first = built + strays
    BY <2>2, <2>3
  <2>5. first \in Nat
    BY <2>4
  <2> QED BY <2>1, <2>3, <2>5, Zenon
<1>3. IsMade(rowQ, batches, built, first, pairs) /\ IsMade(rowR, batches, built, first, pairs)
  BY <1>1, <1>2 DEF DataInv, RowsSettled, AllMade
<1>4. rowQ.settlement_utr = rowR.settlement_utr /\ rowR.settlement_utr \notin 1..built
  BY <1>1, <1>2
<1>5. PICK i \in 1..pairs, x \in {"a", "b"} : OfTwin(rowQ, first, i, x)
  BY <1>3, <1>4 DEF IsMade, OfOrder
<1>6. PICK j \in 1..pairs, y \in {"a", "b"} : OfTwin(rowR, first, j, y)
  BY <1>3, <1>4 DEF IsMade, OfOrder
<1>7. i = j /\ x = y
  <2>1. PICK d, e : d = (IF x = "a" THEN 1 ELSE 0) /\ e = (IF y = "a" THEN 1 ELSE 0)
    OBVIOUS
  <2>2. first + 2 * i - d = first + 2 * j - e
    BY <1>4, <1>5, <1>6, <2>1 DEF OfTwin
  <2>3. (d = 0 \/ d = 1) /\ (e = 0 \/ e = 1) /\ (d = e => x = y)
    BY <2>1
  <2>4. i \in Int /\ j \in Int
    OBVIOUS
  <2>5. i = j /\ d = e
    <3>1. first \in Int
      BY <1>2
    <3>2. CASE d = 0 /\ e = 0
      BY <2>2, <2>4, <3>1, <3>2
    <3>3. CASE d = 1 /\ e = 1
      BY <2>2, <2>4, <3>1, <3>3
    <3>4. CASE d = 0 /\ e = 1
      BY <2>2, <2>4, <3>1, <3>4
    <3>5. CASE d = 1 /\ e = 0
      BY <2>2, <2>4, <3>1, <3>5
    <3> QED BY <2>3, <3>2, <3>3, <3>4, <3>5
  <2> QED BY <2>3, <2>5
<1>8. rowQ.settlement_id = rowR.settlement_id
  BY <1>5, <1>6, <1>7 DEF OfTwin
<1> QED BY <1>1, <1>8 DEF DataInv, RowsSettled, IdsOnce

\* Stage 1 leaves a credit of a pair, and the rows of a pair, to Stage 5.
LEMMA LeftToFuzzy ==
  ASSUME DataInv, CreditInv, DatasetRun, pc = "done"
  PROVE  /\ \A b \in DOMAIN bank : b \notin 1..Built => b \in stage1.residue_bank
         /\ \A r \in DOMAIN settlement :
              settlement[r].settlement_utr \notin 1..Built => r \in stage1.residue_settlement
<1>1. /\ IInv /\ Past5 /\ step = "written" /\ bank = files.bank /\ settlement = files.settlement
  BY DEF DatasetRun, RunOfDataset, FoundInv, IInv, Control, Past5, Past
<1>2. /\ stage1.matched = UtrMatched(bank, settlement)
      /\ stage1.ambiguous = UtrAmbiguous(bank, settlement)
      /\ stage1.residue_bank = DOMAIN bank \ ({m.bank : m \in stage1.matched} \cup stage1.ambiguous)
      /\ stage1.residue_settlement =
           {i \in DOMAIN settlement :
              \A m \in stage1.matched : Upper[settlement[i].settlement_utr] # m.utr}
  BY <1>1, UtrOutcomeFacts DEF Past5, Past1, Past, IInv, Matching
<1>3. ASSUME NEW b \in DOMAIN bank, NEW r \in DOMAIN settlement,
             ExtractUtr(bank[b].narration) = Upper[settlement[r].settlement_utr]
      PROVE  b \in 1..Built /\ settlement[r].settlement_utr \in 1..Built
  BY <1>1, <1>3, NamesOwn
<1>4. ASSUME NEW m \in stage1.matched
      PROVE  /\ m.bank \in DOMAIN bank /\ ExtractUtr(bank[m.bank].narration) = m.utr
             /\ Group(settlement, m.utr) # {}
  BY <1>2, UtrMatchedFacts
<1>5. ASSUME NEW b \in DOMAIN bank, b \notin 1..Built PROVE b \in stage1.residue_bank
  <2>1. ASSUME NEW m \in stage1.matched PROVE m.bank # b
    <3>1. PICK r \in DOMAIN settlement : Upper[settlement[r].settlement_utr] = m.utr
      BY <1>4 DEF Group
    <3> QED BY <1>3, <1>4, <1>5, <3>1
  <2>2. ASSUME b \in UtrAmbiguous(bank, settlement) PROVE FALSE
    <3>1. Group(settlement, ExtractUtr(bank[b].narration)) # {}
      BY <2>2 DEF UtrAmbiguous
    <3>2. PICK r \in DOMAIN settlement :
            Upper[settlement[r].settlement_utr] = ExtractUtr(bank[b].narration)
      BY <3>1 DEF Group
    <3> QED BY <1>3, <1>5, <3>2
  <2> QED BY <1>2, <2>1, <2>2
<1>6. ASSUME NEW r \in DOMAIN settlement, settlement[r].settlement_utr \notin 1..Built,
             NEW m \in stage1.matched
      PROVE  Upper[settlement[r].settlement_utr] # m.utr
  BY <1>3, <1>4, <1>6
<1> QED BY <1>2, <1>5, <1>6

\* Each batch of a pair is scored, with all of the amount and the date.
LEMMA TwinScored ==
  ASSUME DataInv, CreditInv, DatasetRun, pc = "done",
         NEW i \in 1..Pairs, NEW j \in 1..2,
         NEW b, b = Built + Strays + i, NEW u, u = Built + Strays + 2 * i - 2 + j,
         NEW rs, rs = stage1.residue_settlement
  PROVE  /\ u \in Candidates(settlement, rs)
         /\ bank[b].credit = Net(settlement, SpelledGroup(settlement, rs, u))
         /\ SettledDates(settlement, SpelledGroup(settlement, rs, u)) = {bank[b].txn_date}
<1>1. /\ FoundInv /\ IInv /\ step = "written" /\ bank = files.bank /\ settlement = files.settlement
      /\ settlement \in Seq(SettlementRow)
  <2>1. /\ FoundInv /\ IInv /\ step = "written" /\ bank = files.bank /\ settlement = files.settlement
        /\ input \in InputRecord
    BY DEF DatasetRun, RunOfDataset, FoundInv, IInv, Control
  <2> QED BY <2>1, InputFacts
<1>2. PICK r \in DOMAIN settlement : Alike(settlement[r], bank[b], Built + Strays, i, j)
  BY <1>1 DEF CreditInv, PairsAlike
<1>3. settlement[r].settlement_utr = u
  BY <1>2 DEF Alike
<1>4. u \notin 1..Built
  <2>1. PICK built \in Nat, strays \in Nat, pairs \in Nat :
          built = Built /\ strays = Strays /\ pairs = Pairs
    BY <1>1, DatasetUtrs
  <2>2. i \in 1..pairs /\ u = built + strays + 2 * i - 2 + j
    BY <2>1
  <2>3. u > built
    BY <2>1, <2>2
  <2> QED BY <2>1, <2>3
<1>5. r \in rs /\ rs \subseteq DOMAIN settlement
  <2>1. rs \subseteq DOMAIN settlement
    BY <1>1, UtrOutcomeFacts DEF Past1, Past, IInv, Matching
  <2> QED BY <1>3, <1>4, <2>1, LeftToFuzzy
<1>6. SpelledGroup(settlement, rs, u) = {r}
  <2>1. \A q \in DOMAIN settlement : settlement[q].settlement_utr = u => q = r
    BY <1>1, <1>3, <1>4, TwinOnce
  <2> QED BY <1>3, <1>5, <2>1 DEF SpelledGroup
<1>7. SettledDates(settlement, {r}) = {bank[b].txn_date}
  BY <1>2 DEF SettledDates, Alike
<1>8. Net(settlement, {r}) = RowNet(settlement[r])
  <2>1. settlement[r] \in SettlementRow
    BY <1>1
  <2>2. PICK x : x = RowNet(settlement[r]) /\ x \in Int
    BY <2>1, RowFields
  <2>3. IsFiniteSet({r}) /\ {r} \ {r} = {}
    BY FS_Singleton
  <2>4. Net(settlement, {}) = 0
    BY NetFacts, FS_EmptySet
  <2>5. PICK net : net = Net(settlement, {r} \ {r}) /\ net = 0
    BY <2>3, <2>4
  <2>6. \A k \in {r} : RowNet(settlement[k]) \in Int
    BY <2>2
  <2>7. Net(settlement, {r}) = RowNet(settlement[r]) + Net(settlement, {r} \ {r})
    BY <2>3, <2>6, NetFacts
  <2>8. Net(settlement, {r}) = x + 0
    BY <2>2, <2>5, <2>7
  <2> QED BY <2>2, <2>8
<1>9. u \in Candidates(settlement, rs)
  <2>1. Cardinality({bank[b].txn_date}) = 1
    BY FS_Singleton
  <2> QED BY <1>3, <1>5, <1>6, <1>7, <2>1 DEF Candidates
<1> QED BY <1>2, <1>6, <1>7, <1>8, <1>9 DEF Alike

\* A credit of a pair whose narration is no nearer to one batch than the margin is
\* left to a person, at any automatic threshold.
LEMMA PairContested ==
  ASSUME DataInv, CreditInv, DatasetRun, pc = "done", FullCascade,
         NEW i \in 1..Pairs, NEW b, b = Built + Strays + i,
         NEW x, x = Built + Strays + 2 * i - 1, NEW y, y = Built + Strays + 2 * i,
         Abs(NarrationScore(bank[b].narration, x) - NarrationScore(bank[b].narration, y))
           <= AmbiguityMargin
  PROVE  b \in stage5.ambiguous
<1> DEFINE rs == stage1.residue_settlement
           S(u) == Score(bank[b], settlement, rs, u)
           N(u) == NarrationScore(bank[b].narration, u)
<1>1. /\ IInv /\ Past5 /\ step = "written" /\ bank = files.bank /\ settlement = files.settlement
      /\ input \in InputRecord /\ input.use_stage5
  BY DEF DatasetRun, RunOfDataset, FoundInv, IInv, Control, Past5, Past, FullCascade
<1>2. /\ bank \in Seq(BankRow) /\ settlement \in Seq(SettlementRow)
      /\ \A g \in SUBSET DOMAIN settlement : Net(settlement, g) \in Int
  BY <1>1, InputFacts
<1>3. PICK built \in Nat, strays \in Nat, pairs \in Nat :
        /\ built = Built /\ strays = Strays /\ pairs = Pairs
        /\ DOMAIN bank = 1..(built + strays + pairs)
        /\ 1..(built + strays + 2 * pairs) \subseteq Drawn(setup)
        /\ \A r \in DOMAIN settlement :
             \/ settlement[r].settlement_utr \in 1..built
             \/ settlement[r].settlement_utr \in (built + strays + 1)..(built + strays + 2 * pairs)
  BY <1>1, DatasetUtrs
<1>4. i \in 1..pairs /\ b = built + strays + i
      /\ x = built + strays + 2 * i - 1 /\ y = built + strays + 2 * i
  BY <1>3
<1>5. b \in DOMAIN bank /\ b \notin 1..Built
  <2>1. b \in 1..(built + strays + pairs) /\ b \notin 1..built
    BY <1>4
  <2> QED BY <1>3, <2>1
<1>6. b \in stage1.residue_bank
  BY <1>5, LeftToFuzzy
<1>7. bank[b] \in BankRow /\ bank[b].credit # Blank
  <2>1. bank[b].credit \in Int
    BY <1>1, <1>5 DEF DataInv, DataTypes
  <2> QED BY <1>2, <1>5, <2>1, AbsentAssumption
<1>8. rs \in SUBSET DOMAIN settlement
  BY <1>1, UtrOutcomeFacts DEF Past1, Past, Past5, IInv, Matching
<1>10. ASSUME NEW u \in Candidates(settlement, rs) PROVE ScoreCapped(bank[b], settlement, rs, u)
  BY <1>2, <1>7, <1>8, ScoreBound
<1>11. ASSUME NEW j \in 1..2, NEW u, u = Built + Strays + 2 * i - 2 + j
       PROVE  u \in Candidates(settlement, rs) /\ S(u) = 2100 + N(u)
  <2>1. /\ u \in Candidates(settlement, rs)
        /\ bank[b].credit = Net(settlement, SpelledGroup(settlement, rs, u))
        /\ SettledDates(settlement, SpelledGroup(settlement, rs, u)) = {bank[b].txn_date}
    BY <1>11, TwinScored
  <2>2. ScoreCapped(bank[b], settlement, rs, u)
    BY <1>10, <2>1
  <2> QED BY <2>1, <2>2 DEF ScoreCapped
<1>12. x = Built + Strays + 2 * i - 2 + 1 /\ y = Built + Strays + 2 * i - 2 + 2 /\ x # y
  <2>1. PICK first \in Int : first = Built + Strays
    BY <1>3
  <2>2. i \in Int /\ x = first + 2 * i - 1 /\ y = first + 2 * i
    BY <1>4, <2>1
  <2>3. x = first + 2 * i - 2 + 1 /\ y = first + 2 * i - 2 + 2 /\ x # y
    BY <2>1, <2>2
  <2> QED BY <2>1, <2>3
<1>13. x \in Candidates(settlement, rs) /\ y \in Candidates(settlement, rs) \ {x}
       /\ S(x) = 2100 + N(x) /\ S(y) = 2100 + N(y)
  BY <1>11, <1>12
<1>14. \A u \in Candidates(settlement, rs) : Ratio[bank[b].narration][u] \in 0..100
  BY <1>10 DEF ScoreCapped
<1>15. \A u \in Candidates(settlement, rs) : Ratio[bank[b].narration][u] <= Ratio[bank[b].narration][x]
  <2> SUFFICES ASSUME NEW u \in Candidates(settlement, rs)
               PROVE  Ratio[bank[b].narration][u] <= Ratio[bank[b].narration][x]
    OBVIOUS
  <2>1. bank[b].narration = Narration("neft", x, 6)
    BY <1>1 DEF CreditInv, NamedCredits
  <2>2. PICK r \in DOMAIN settlement : settlement[r].settlement_utr = u
    BY <1>2, <1>8, CandidateFacts DEF SpelledGroup
  <2>3. u \in 1..(built + strays + 2 * pairs)
    BY <1>3, <2>2
  <2>4. x \in 1..(built + strays + 2 * pairs)
    BY <1>4
  <2>5. u \in Drawn(setup) /\ x \in Drawn(setup) /\ setup \in Setups
    BY <1>3, <2>3, <2>4 DEF DataInv, DataTypes
  <2> QED BY <2>1, <2>5, ReadingFacts
<1>16. \A u \in Candidates(settlement, rs) : S(u) <= S(x)
  <2> SUFFICES ASSUME NEW u \in Candidates(settlement, rs) PROVE S(u) <= S(x)
    OBVIOUS
  <2>1. PICK p : p = Ratio[bank[b].narration][u]
    OBVIOUS
  <2>2. PICK q : q = Ratio[bank[b].narration][x]
    OBVIOUS
  <2>3. p \in 0..100 /\ q \in 0..100 /\ p <= q
    <3>1. x \in Candidates(settlement, rs)
      BY <1>13
    <3> QED BY <1>14, <1>15, <2>1, <2>2, <3>1, Zenon
  <2>4. N(u) = 9 * p /\ N(x) = 9 * q
    BY <2>1, <2>2 DEF NarrationScore
  <2>5. PICK score : score = S(u) /\ score \in Int /\ score <= 2100 + 9 * p
    BY <1>10, <2>4 DEF ScoreCapped
  <2>6. S(x) = 2100 + 9 * q
    BY <1>13, <2>4
  <2> HIDE DEF S
  <2> QED BY <2>3, <2>5, <2>6
<1>17. S(x) >= ReviewThreshold /\ S(x) - S(y) <= AmbiguityMargin
  <2>1. PICK p : p = Ratio[bank[b].narration][x]
    OBVIOUS
  <2>2. PICK q : q = Ratio[bank[b].narration][y]
    OBVIOUS
  <2>3. p \in 0..100 /\ q \in 0..100
    <3>1. x \in Candidates(settlement, rs) /\ y \in Candidates(settlement, rs)
      BY <1>13
    <3> QED BY <1>14, <2>1, <2>2, <3>1, Zenon
  <2>4. N(x) = 9 * p /\ N(y) = 9 * q
    BY <2>1, <2>2 DEF NarrationScore
  <2>5. S(x) = 2100 + 9 * p /\ S(y) = 2100 + 9 * q
    BY <1>13, <2>4
  <2>6. 9 * p - 9 * q <= AmbiguityMargin
    <3>1. PICK margin \in Int : margin = AmbiguityMargin
      BY FuzzyAssumption DEF MaxScore
    <3>2. Abs(9 * p - 9 * q) <= margin
      BY <2>4, <3>1
    <3>3. 9 * p - 9 * q \in Int
      BY <2>3
    <3>4. \A k \in Int : Abs(k) <= margin => k <= margin
      BY <3>1 DEF Abs
    <3> QED BY <3>1, <3>2, <3>3, <3>4, Zenon
  <2>7. PICK review \in Int : review = ReviewThreshold /\ review <= 2100
    BY ReadingAssumption, FuzzyAssumption DEF MaxScore
  <2> HIDE DEF S
  <2>8. S(x) >= review
    BY <2>3, <2>5, <2>7
  <2>9. S(x) - S(y) = 9 * p - 9 * q
    BY <2>3, <2>5
  <2> QED BY <2>6, <2>7, <2>8, <2>9
<1>18. Decision(bank[b], settlement, rs, input.auto_threshold).bucket = "ambiguous"
  BY <1>2, <1>7, <1>8, <1>13, <1>16, <1>17, DecisionContested
<1> QED BY <1>1, <1>6, <1>18, FuzzyBuckets

\* A credit left to a person is labelled so.
LEMMA LabelledAmbiguous ==
  ASSUME FoundInv, pc = "done", NEW b \in stage5.ambiguous
  PROVE  BankLabel(b) = "AMBIGUOUS_MATCH"
<1> DEFINE named == {e \in exceptions : e.row = b /\ e.source \in {"ambiguous", "bank_only"}}
<1>1. PastAudit /\ PastTds /\ Classified /\ Past5 /\ IInv /\ input \in InputRecord
  BY DEF FoundInv, IInv, Control, PastAudit, PastTds, Classified, Past5, Past
<1>2. exceptions = BridgeFindings \cup TdsFindings \cup ResidueFindings
  BY <1>1 DEF FoundInv, AsFound
<1>3. b \notin stage5.residue_bank
  BY <1>1, FuzzyOutcomeFacts DEF Past5, Past1, Past, IInv, Matching, Control
<1>4. PICK e : e = Exception("ambiguous", b, "AMBIGUOUS_MATCH")
  OBVIOUS
<1>5. e \in named
  BY <1>2, <1>4 DEF ResidueFindings, Exception
<1>6. ASSUME NEW f \in named PROVE f.code = "AMBIGUOUS_MATCH"
  <2>1. f \in ResidueFindings
    BY <1>2 DEF BridgeFindings, TdsFindings, Exception
  <2> QED BY <1>3, <2>1 DEF ResidueFindings, Exception
<1>7. BankLabel(b) = (CHOOSE f \in named : TRUE).code
  BY <1>5 DEF BankLabel
<1> HIDE DEF named
<1>8. (CHOOSE f \in named : TRUE) \in named
  BY <1>5
<1> QED BY <1>6, <1>7, <1>8

\* A credit that two batches explain equally is left to a person, at every threshold,
\* unless its narration is nearer to one of them by more than the margin.
THEOREM PuntsUnresolvable == BenchmarkSpec => []UnresolvableIsPunted
<1>1. DataInv /\ CreditInv /\ DatasetRun => UnresolvableIsPunted
  <2> SUFFICES ASSUME DataInv, CreditInv, DatasetRun, pc = "done", FullCascade,
                      NEW u \in truth.unresolvable,
                      Abs(NarrationScore(bank[u.row].narration, u.a)
                            - NarrationScore(bank[u.row].narration, u.b)) <= AmbiguityMargin
               PROVE  u \in Punted
    BY DEF UnresolvableIsPunted, Scored
  <2>1. PICK first : first = Built + Strays
    OBVIOUS
  <2>2. PICK i \in 1..Pairs : u = [row |-> first + i, a |-> first + 2 * i - 1, b |-> first + 2 * i]
    BY <2>1 DEF CreditInv, PairsAlike
  <2>3. u.row = Built + Strays + i /\ u.a = Built + Strays + 2 * i - 1 /\ u.b = Built + Strays + 2 * i
    BY <2>1, <2>2
  <2>4. u.row \in stage5.ambiguous
    BY <2>3, PairContested
  <2>5. BankLabel(u.row) = "AMBIGUOUS_MATCH"
    BY <2>4, LabelledAmbiguous DEF DatasetRun
  <2> QED BY <2>5 DEF Punted, PuntLabels
<1> QED BY DatasetInvariant, CreditInvariant, DatasetRunInvariant, <1>1, PTL

-----------------------------------------------------------------------------
(* What the bridge of a batch reads                                        *)

\* part is rate of whole, in units of 0.0001, give or take k.
Near(part, whole, rate, k) ==
  (rate - k) * whole <= 10000 * part /\ 10000 * part <= (rate + k) * whole

\* An amount with a fee and a tax near their rates.
Rated(amount, fee, tax, mdr, gst) ==
  /\ amount \in Int /\ amount > 0 /\ fee \in Int /\ fee > 0 /\ tax \in Int
  /\ Near(fee, amount, mdr, 1) /\ Near(tax, fee, gst, 6)

\* The rates of the generator, in hundredths of a percent.
OnRate(mdr, gst) == mdr \in {200, 240} /\ gst \in {1700, 1800}

\* Half goes away from zero.
LEMMA HalfUpAway ==
  ASSUME NEW n \in Int, NEW d \in Int, d > 0
  PROVE  /\ n >= 0 => 2 * n - d < 2 * (d * HalfUp(n, d))
         /\ n < 0 => 2 * (d * HalfUp(n, d)) < 2 * n + d
<1> DEFINE a == 2 * Abs(n) + d
           b == 2 * d
           q == a \div b
<1>1. a \in Nat /\ b \in Nat /\ b > 0 /\ Abs(d) = d
  BY DEF Abs
<1>2. q \in Nat /\ b * q <= a /\ a < b * q + b
  <2> HIDE DEF a, b
  <2> QED BY <1>1, DivBounds
<1>3. b * q = 2 * (d * q) /\ d * (-q) = -(d * q) /\ d * q \in Int
  <2> HIDE DEF q
  <2> QED BY <1>2
<1>4. HalfUp(n, d) = IF n < 0 THEN -q ELSE q
  BY <1>1 DEF HalfUp
<1> DEFINE p == d * q
<1>5. 2 * Abs(n) + d < 2 * p + 2 * d /\ p \in Int
  BY <1>2, <1>3
<1>6. CASE n < 0
  <2>1. HalfUp(n, d) = -q /\ d * HalfUp(n, d) = -p /\ Abs(n) = -n
    BY <1>3, <1>4, <1>6 DEF Abs
  <2> HIDE DEF p, q
  <2> QED BY <1>2, <1>5, <1>6, <2>1
<1>7. CASE ~ (n < 0)
  <2>1. HalfUp(n, d) = q /\ d * HalfUp(n, d) = p /\ Abs(n) = n
    BY <1>3, <1>4, <1>7 DEF Abs
  <2> HIDE DEF p, q
  <2> QED BY <1>2, <1>5, <1>7, <2>1
<1> QED BY <1>6, <1>7

\* An amount at a rate, up to half a paisa.
LEMMA AtRate ==
  ASSUME NEW n \in Int, NEW h, h = HalfUp(n, 10000)
  PROVE  h \in Int /\ 2 * n - 10000 <= 2 * (10000 * h) /\ 2 * (10000 * h) <= 2 * n + 10000
<1>1. PICK d \in Int : d = 10000
  OBVIOUS
<1>2. h = HalfUp(n, d)
  BY <1>1
<1>3. h \in Int /\ 2 * n - d <= 2 * (d * h) /\ 2 * (d * h) <= 2 * n + d
  <2>1. d > 0
    BY <1>1
  <2> QED BY <1>2, <2>1, HalfUpBounds
<1> QED BY <1>1, <1>3

\* The fee and the tax of a payment are at their rates up to half a paisa.
LEMMA ChargedRates ==
  ASSUME NEW amount, NEW fee, NEW tax, NEW mdr, NEW gst,
         OnRate(mdr, gst), Priced(amount, fee, tax, mdr, gst)
  PROVE  Rated(amount, fee, tax, mdr, gst)
<1>1. amount \in Int /\ amount >= 50000 /\ mdr \in Int /\ gst \in Int
  BY DEF Prices, Priced, OnRate
<1>1a. fee = HalfUp(amount * mdr, 10000) /\ tax = HalfUp(fee * gst, 10000)
  BY DEF Priced
<1>2. PICK n \in Int : n = amount * mdr
  BY <1>1
<1>3. fee \in Int /\ 2 * n - 10000 <= 2 * (10000 * fee) /\ 2 * (10000 * fee) <= 2 * n + 10000
  <2>1. fee = HalfUp(n, 10000)
    BY <1>1a, <1>2
  <2> QED BY <2>1, AtRate
<1>4. n = 200 * amount \/ n = 240 * amount
  BY <1>1, <1>2 DEF OnRate
<1>5. fee >= 995
  BY <1>1, <1>3, <1>4
<1>6. /\ (mdr - 1) * amount = n - amount /\ (mdr + 1) * amount = n + amount
  BY <1>1, <1>2
<1>7. Near(fee, amount, mdr, 1)
  BY <1>1, <1>3, <1>6 DEF Near
<1>8. PICK m \in Int : m = fee * gst
  BY <1>1, <1>3
<1>9. tax \in Int /\ 2 * m - 10000 <= 2 * (10000 * tax) /\ 2 * (10000 * tax) <= 2 * m + 10000
  <2>1. tax = HalfUp(m, 10000)
    BY <1>1a, <1>8
  <2> QED BY <2>1, AtRate
<1>10. /\ (gst - 6) * fee = m - 6 * fee /\ (gst + 6) * fee = m + 6 * fee
  BY <1>1, <1>3, <1>8
<1>11. Near(tax, fee, gst, 6)
  BY <1>3, <1>5, <1>9, <1>10 DEF Near
<1> QED BY <1>1, <1>3, <1>5, <1>7, <1>9, <1>11 DEF Rated

\* What is so of the amounts row by row is so of their sums.
LEMMA TotalsOrdered ==
  ASSUME NEW file \in Seq(SettlementRow), NEW rows \in SUBSET DOMAIN file,
         NEW x \in {"amount", "fee", "tax"}, NEW y \in {"amount", "fee", "tax"},
         NEW p \in Int, NEW q \in Int,
         \A i \in rows : p * file[i][x] <= q * file[i][y]
  PROVE  p * Total(file, rows, x) <= q * Total(file, rows, y)
<1> DEFINE Bigger == {s \in SUBSET rows : ~ (p * Total(file, s, x) <= q * Total(file, s, y))}
<1>1. IsFiniteSet(rows)
  BY PositionsFinite, FS_Subset
<1>a. ASSUME NEW s \in SUBSET rows, NEW k \in s, NEW f \in {"amount", "fee", "tax"}
      PROVE  /\ Total(file, s \ {k}, f) \in Int
             /\ Total(file, s, f) = file[k][f] + Total(file, s \ {k}, f)
  <2>1. s \in SUBSET DOMAIN file
    OBVIOUS
  <2> QED BY <2>1, TotalLess
<1>2. Bigger = {}
  <2> SUFFICES ASSUME Bigger # {} PROVE FALSE
    OBVIOUS
  <2>1. PICK s \in Bigger : \A k \in s : s \ {k} \notin Bigger
    <3>1. Bigger \in SUBSET (SUBSET rows)
      OBVIOUS
    <3> HIDE DEF Bigger
    <3> QED BY <1>1, <3>1, MinimalPart
  <2>2. s \in SUBSET rows /\ ~ (p * Total(file, s, x) <= q * Total(file, s, y))
    OBVIOUS
  <2>3. s # {}
    <3> SUFFICES ASSUME s = {} PROVE FALSE
      OBVIOUS
    <3>1. s \in SUBSET DOMAIN file
      OBVIOUS
    <3>2. Total(file, s, x) = 0 /\ Total(file, s, y) = 0
      BY <3>1, TotalLess
    <3> QED BY <2>2, <3>2
  <2>4. PICK k \in s : TRUE
    BY <2>3
  <2>5. s \in SUBSET DOMAIN file /\ k \in rows
    BY <2>2, <2>4
  <2>6. PICK a, a1 : a = Total(file, s, x) /\ a1 = Total(file, s \ {k}, x)
    OBVIOUS
  <2>7. PICK b, b1 : b = Total(file, s, y) /\ b1 = Total(file, s \ {k}, y)
    OBVIOUS
  <2>8. a1 \in Int /\ a = file[k][x] + a1
    <3>1. /\ Total(file, s \ {k}, x) \in Int
          /\ Total(file, s, x) = file[k][x] + Total(file, s \ {k}, x)
      BY <2>2, <2>4, <1>a
    <3> QED BY <2>6, <3>1
  <2>9. b1 \in Int /\ b = file[k][y] + b1
    <3>1. /\ Total(file, s \ {k}, y) \in Int
          /\ Total(file, s, y) = file[k][y] + Total(file, s \ {k}, y)
      BY <2>2, <2>4, <1>a
    <3> QED BY <2>7, <3>1
  <2>10. p * a1 <= q * b1
    <3>1. s \ {k} \notin Bigger /\ s \ {k} \in SUBSET rows
      BY <2>1, <2>2, <2>4
    <3> QED BY <2>6, <2>7, <3>1
  <2>11. PICK u \in Int, v \in Int : u = file[k][x] /\ v = file[k][y]
    <3>1. file[k] \in SettlementRow
      BY <2>4, <2>5
    <3>2. file[k].amount \in Int /\ file[k].fee \in Int /\ file[k].tax \in Int
      BY <3>1, RowFields
    <3>3. file[k][x] \in Int
      BY <3>2
    <3>4. file[k][y] \in Int
      BY <3>2
    <3> QED BY <3>3, <3>4
  <2>12. p * u <= q * v
    BY <2>5, <2>11
  <2>13. a = u + a1 /\ b = v + b1 /\ a1 \in Int /\ b1 \in Int
    BY <2>8, <2>9, <2>11
  <2>14. p * a = p * u + p * a1 /\ q * b = q * v + q * b1
    BY <2>13
  <2>14a. p * u \in Int /\ p * a1 \in Int /\ q * v \in Int /\ q * b1 \in Int
    BY <2>13
  <2>15. p * a <= q * b
    BY <2>10, <2>12, <2>14, <2>14a
  <2> QED BY <2>2, <2>6, <2>7, <2>15
<1>3. rows \in SUBSET rows
  OBVIOUS
<1> QED BY <1>2, <1>3

\* A rate within k of one is read within k of it.
LEMMA NearRate ==
  ASSUME NEW part \in Int, NEW whole \in Int, whole > 0, NEW rate \in Int, NEW k \in Int,
         Near(part, whole, rate, k), NEW h, h = ImpliedRate(part, whole)
  PROVE  h \in Int /\ rate - k <= h /\ h <= rate + k
<1>2. /\ h \in Int /\ 20000 * part - whole <= 2 * (whole * h)
      /\ 2 * (whole * h) <= 20000 * part + whole
  BY ImpliedBounds
<1>3. PICK low \in Int, high \in Int : low = (rate - k) * whole /\ high = (rate + k) * whole
  OBVIOUS
<1>4. low <= 10000 * part /\ 10000 * part <= high
  BY <1>3 DEF Near
<1>5. h >= rate - k
  <2> SUFFICES ASSUME h <= rate - k - 1 PROVE FALSE
    BY <1>2
  <2>1. whole * h <= whole * (rate - k - 1)
    BY <1>2
  <2>2. whole * (rate - k - 1) = low - whole
    BY <1>3
  <2>3. whole * h \in Int
    BY <1>2
  <2> QED BY <1>2, <1>4, <2>1, <2>2, <2>3
<1>6. h <= rate + k
  <2> SUFFICES ASSUME h >= rate + k + 1 PROVE FALSE
    BY <1>2
  <2>1. whole * h >= whole * (rate + k + 1)
    BY <1>2
  <2>2. whole * (rate + k + 1) = high + whole
    BY <1>3
  <2>3. whole * h \in Int
    BY <1>2
  <2> QED BY <1>2, <1>4, <2>1, <2>2, <2>3
<1> QED BY <1>2, <1>5, <1>6

\* Parts that are near a rate of their wholes add up to one that is near it.
LEMMA TotalsNear ==
  ASSUME NEW file \in Seq(SettlementRow), NEW rows \in SUBSET DOMAIN file,
         NEW x \in {"amount", "fee", "tax"}, NEW y \in {"amount", "fee", "tax"},
         NEW rate \in Int, NEW k \in Int,
         \A i \in rows : Near(file[i][x], file[i][y], rate, k)
  PROVE  Near(Total(file, rows, x), Total(file, rows, y), rate, k)
<1>1. PICK d \in Int : d = 10000
  OBVIOUS
<1>2. PICK low \in Int, high \in Int : low = rate - k /\ high = rate + k
  OBVIOUS
<1>3. \A i \in rows : low * file[i][y] <= d * file[i][x]
  BY <1>1, <1>2 DEF Near
<1>4. \A i \in rows : d * file[i][x] <= high * file[i][y]
  BY <1>1, <1>2 DEF Near
<1>5. low * Total(file, rows, y) <= d * Total(file, rows, x)
  BY <1>3, TotalsOrdered
<1>6. d * Total(file, rows, x) <= high * Total(file, rows, y)
  BY <1>4, TotalsOrdered
<1> QED BY <1>1, <1>2, <1>5, <1>6 DEF Near

\* Amounts above zero add up to one.
LEMMA TotalsPositive ==
  ASSUME NEW file \in Seq(SettlementRow), NEW rows \in SUBSET DOMAIN file,
         NEW x \in {"amount", "fee", "tax"}, rows # {},
         \A i \in rows : file[i][x] > 0
  PROVE  Total(file, rows, x) > 0
<1>1. PICK k \in rows : TRUE
  OBVIOUS
<1>2. PICK p \in Int, q \in Int : p = 0 /\ q = 1
  OBVIOUS
<1>3. PICK less \in SUBSET DOMAIN file : less = rows \ {k}
  OBVIOUS
<1>4. \A i \in less : file[i][x] \in Int
  BY RowFields
<1>5. \A i \in less : p * file[i][x] <= q * file[i][x]
  BY <1>2, <1>3, <1>4
<1>6. p * Total(file, less, x) <= q * Total(file, less, x)
  BY <1>5, TotalsOrdered
<1>7. PICK part : part = Total(file, less, x)
  OBVIOUS
<1>8. part \in Int
  BY <1>3, <1>7, TotalLess
<1>9. Total(file, rows, x) = file[k][x] + part
  BY <1>1, <1>3, <1>7, TotalLess
<1>10. part >= 0
  BY <1>2, <1>6, <1>7, <1>8
<1>11. file[k][x] \in Int /\ file[k][x] > 0
  BY <1>1, RowFields
<1> QED BY <1>8, <1>9, <1>10, <1>11

\* Rows near their rates, and the sums of such rows.
AllRated(file, rows, mdr, gst) ==
  \A i \in rows : Rated(file[i].amount, file[i].fee, file[i].tax, mdr, gst)

RatedTotals(gross, fees, taxes, rows, mdr, gst) ==
  /\ gross \in Int /\ fees \in Int /\ taxes \in Int
  /\ Near(fees, gross, mdr, 1) /\ Near(taxes, fees, gst, 6)
  /\ rows = {} => gross = 0 /\ fees = 0
  /\ rows # {} => gross > 0 /\ fees > 0

\* The amounts, fees and taxes of rows that are at their rates, added up, are.
LEMMA RatedSums ==
  ASSUME NEW file \in Seq(SettlementRow), NEW rows \in SUBSET DOMAIN file,
         NEW mdr \in Int, NEW gst \in Int, AllRated(file, rows, mdr, gst)
  PROVE  RatedTotals(Total(file, rows, "amount"), Total(file, rows, "fee"),
                     Total(file, rows, "tax"), rows, mdr, gst)
<1>1. PICK amount \in {"amount", "fee", "tax"}, fee \in {"amount", "fee", "tax"},
           tax \in {"amount", "fee", "tax"} : amount = "amount" /\ fee = "fee" /\ tax = "tax"
  OBVIOUS
<1>2. PICK one \in Int, six \in Int : one = 1 /\ six = 6
  OBVIOUS
<1>3. /\ \A i \in rows : Near(file[i][fee], file[i][amount], mdr, one)
      /\ \A i \in rows : Near(file[i][tax], file[i][fee], gst, six)
      /\ \A i \in rows : file[i][amount] > 0
      /\ \A i \in rows : file[i][fee] > 0
  BY <1>1, <1>2 DEF AllRated, Rated
<1>4. Near(Total(file, rows, fee), Total(file, rows, amount), mdr, one)
  BY <1>3, TotalsNear
<1>5. Near(Total(file, rows, tax), Total(file, rows, fee), gst, six)
  BY <1>3, TotalsNear
<1>6. /\ rows # {} => Total(file, rows, amount) > 0 /\ Total(file, rows, fee) > 0
  BY <1>3, TotalsPositive
<1>7. /\ Total(file, rows, amount) \in Int /\ (rows = {} => Total(file, rows, amount) = 0)
      /\ Total(file, rows, fee) \in Int /\ (rows = {} => Total(file, rows, fee) = 0)
      /\ Total(file, rows, tax) \in Int
  BY TotalLess
<1> QED BY <1>1, <1>2, <1>4, <1>5, <1>6, <1>7 DEF RatedTotals

\* The bridge of a batch reads the rates it was charged at, and leaves what its credit
\* has beyond its net.
LEMMA BridgeRates ==
  ASSUME NEW file \in Seq(SettlementRow), NEW rows \in SUBSET DOMAIN file,
         NEW mdr, NEW gst, OnRate(mdr, gst), AllCharged(file, rows, mdr, gst),
         NEW credit, NEW b, b = Bridge(file, rows, credit)
  PROVE  /\ MdrOffContract(b) <=> mdr = 240 /\ Active(file, rows) # {}
         /\ GstOffContract(b) <=> gst = 1700 /\ Active(file, rows) # {}
         /\ b.residual = credit - Net(file, rows)
<1>1. PICK act \in SUBSET DOMAIN file : act = Active(file, rows)
  BY DEF Active, Typed
<1>2. AllRated(file, act, mdr, gst)
  <2> SUFFICES ASSUME NEW i \in act
               PROVE  Rated(file[i].amount, file[i].fee, file[i].tax, mdr, gst)
    BY DEF AllRated
  <2>1. i \in rows /\ file[i].type = "payment"
    BY <1>1 DEF Active, Typed
  <2>2. Priced(file[i].amount, file[i].fee, file[i].tax, mdr, gst)
    BY <2>1 DEF AllCharged, Charged
  <2> QED BY <2>2, ChargedRates
<1>3. RatedTotals(Total(file, act, "amount"), Total(file, act, "fee"),
                  Total(file, act, "tax"), act, mdr, gst)
  <2>1. mdr \in Int /\ gst \in Int
    BY DEF OnRate
  <2> QED BY <1>2, <2>1, RatedSums
<1>4. PICK gross, fees, taxes :
        /\ gross = Total(file, act, "amount") /\ fees = Total(file, act, "fee")
        /\ taxes = Total(file, act, "tax")
  OBVIOUS
<1>5. RatedTotals(gross, fees, taxes, act, mdr, gst)
  BY <1>3, <1>4
<1>6. /\ b.residual = credit - Waterfall(file, rows)
      /\ b.activeGross = gross /\ b.mdr = fees /\ b.gst = taxes
  BY <1>1, <1>4, BridgeParts
<1>7. /\ gross \in Int /\ fees \in Int /\ taxes \in Int
      /\ Near(fees, gross, mdr, 1) /\ Near(taxes, fees, gst, 6)
      /\ act = {} => gross = 0 /\ fees = 0
      /\ act # {} => gross > 0 /\ fees > 0
  BY <1>5 DEF RatedTotals
<1>8. MdrOffContract(b) <=> mdr = 240 /\ act # {}
  <2>1. CASE act = {}
    BY <1>6, <1>7, <2>1 DEF MdrOffContract
  <2>2. CASE act # {}
    <3>1. mdr \in Int /\ gross > 0
      BY <1>7, <2>2 DEF OnRate
    <3>2. PICK r : r = ImpliedRate(fees, gross)
      OBVIOUS
    <3>3. r \in Int /\ mdr - 1 <= r /\ r <= mdr + 1
      <4>1. 1 \in Int
        OBVIOUS
      <4> QED BY <1>7, <3>1, <3>2, <4>1, NearRate
    <3>4. MdrOffContract(b) <=> Abs(r - 200) > 10
      BY <1>6, <3>1, <3>2 DEF MdrOffContract, MdrRate, RateTolerance
    <3>5. mdr \in {200, 240}
      BY DEF OnRate
    <3> QED BY <2>2, <3>3, <3>4, <3>5 DEF Abs
  <2> QED BY <2>1, <2>2
<1>9. GstOffContract(b) <=> gst = 1700 /\ act # {}
  <2>1. CASE act = {}
    BY <1>6, <1>7, <2>1 DEF GstOffContract
  <2>2. CASE act # {}
    <3>1. gst \in Int /\ fees > 0
      BY <1>7, <2>2 DEF OnRate
    <3>2. PICK r : r = ImpliedRate(taxes, fees)
      OBVIOUS
    <3>3. r \in Int /\ gst - 6 <= r /\ r <= gst + 6
      <4>1. 6 \in Int
        OBVIOUS
      <4> QED BY <1>7, <3>1, <3>2, <4>1, NearRate
    <3>4. GstOffContract(b) <=> Abs(r - 1800) > 10
      BY <1>6, <3>1, <3>2 DEF GstOffContract, GstRate, RateTolerance
    <3>5. gst \in {1700, 1800}
      BY DEF OnRate
    <3> QED BY <2>2, <3>3, <3>4, <3>5 DEF Abs
  <2> QED BY <2>1, <2>2
<1>10. Counted(file, rows) = rows
  BY DEF Counted, AllCharged, Charged
<1>11. Waterfall(file, rows) = Net(file, rows)
  BY <1>10, TwoSums
<1> QED BY <1>1, <1>6, <1>8, <1>9, <1>11

\* The label of the ground truth for a batch, and the code of its bridge.
TrueOf(label) ==
  CASE label = "NONE" -> "CLEAN" [] label = "UNEXPLAINED_RESIDUAL" -> "UNEXPLAINED" [] OTHER -> label
CodeOf(label) == IF label \in {"NONE", "TIMING_T_PLUS_N"} THEN "NONE" ELSE TrueOf(label)

\* There is something of the defect to be seen in the batch.
Visible(file, rows, label) ==
  /\ label \in {"FEE_VARIANCE", "GST_ON_MDR_VARIANCE"} => Active(file, rows) # {}
  /\ label = "UNEXPLAINED_RESIDUAL" => Abs(Net(file, rows)) >= 199000

\* Half a per mille of Rs 1990 is Rs 1.00 when it is rounded.
LEMMA ResidualShows ==
  ASSUME NEW net \in Int, Abs(net) >= 199000, NEW h, h = HalfUp(net * ResidualRate, 10000)
  PROVE  h \in Int /\ Abs(h) >= 100
<1>1. PICK n \in Int : n = net * 5
  OBVIOUS
<1>2. PICK d \in Int : d = 10000
  OBVIOUS
<1>3. h = HalfUp(n, d)
  BY <1>1, <1>2 DEF ResidualRate
<1>4. d > 0
  BY <1>2
<1>5. /\ HalfUp(n, d) \in Int
      /\ n >= 0 => 2 * n - d < 2 * (d * HalfUp(n, d))
      /\ n < 0 => 2 * (d * HalfUp(n, d)) < 2 * n + d
  <2>1. HalfUp(n, d) \in Int
    BY <1>4, HalfUpBounds
  <2> QED BY <1>4, <2>1, HalfUpAway
<1>6. net >= 199000 \/ net <= -199000
  BY DEF Abs
<1>7. h >= 100 \/ h <= -100
  BY <1>1, <1>2, <1>3, <1>5, <1>6
<1> QED BY <1>3, <1>5, <1>7 DEF Abs

\* The bridge of a batch as the generator settled it has the code of the planted defect.
LEMMA CodeOfBatch ==
  ASSUME NEW file \in Seq(SettlementRow), NEW rows \in SUBSET DOMAIN file,
         NEW label \in BatchDefects \cup {"NONE"},
         AllCharged(file, rows, MdrOf(label), GstOf(label)), Visible(file, rows, label),
         NEW net \in Int, net = Net(file, rows),
         NEW credit \in Int, credit - net \in DriftsOf(label, net)
  PROVE  BridgeCode(Bridge(file, rows, credit)) = CodeOf(label)
<1>1. PICK b : b = Bridge(file, rows, credit)
  OBVIOUS
<1>2. OnRate(MdrOf(label), GstOf(label))
  BY DEF OnRate, MdrOf, GstOf, MdrDrawn, MdrVariant, GstDrawn, GstVariant
<1>3. /\ MdrOffContract(b) <=> MdrOf(label) = 240 /\ Active(file, rows) # {}
      /\ GstOffContract(b) <=> GstOf(label) = 1700 /\ Active(file, rows) # {}
      /\ b.residual = credit - Net(file, rows)
  BY <1>1, <1>2, BridgeRates
<1>4. MdrOffContract(b) <=> label = "FEE_VARIANCE"
  BY <1>3 DEF Visible, MdrOf, MdrDrawn, MdrVariant
<1>5. GstOffContract(b) <=> label = "GST_ON_MDR_VARIANCE"
  BY <1>3 DEF Visible, GstOf, GstDrawn, GstVariant
<1>6. b.residual = credit - net /\ b.residual \in Int
  BY <1>3
<1>7. CASE label \in {"FEE_VARIANCE", "GST_ON_MDR_VARIANCE"}
  BY <1>1, <1>4, <1>5, <1>7 DEF BridgeCode, RateVariance, CodeOf, TrueOf
<1>8. CASE label \notin {"FEE_VARIANCE", "GST_ON_MDR_VARIANCE"}
  <2>1. BridgeCode(b) = IF Attribution(b) = "UNATTRIBUTED" THEN "UNEXPLAINED" ELSE Attribution(b)
    BY <1>4, <1>5, <1>8 DEF BridgeCode, RateVariance
  <2>2. Attribution(b) = IF Abs(b.residual) <= 1 THEN "NONE"
                         ELSE IF Abs(b.residual) < 100 THEN "ROUNDING" ELSE "UNATTRIBUTED"
    BY <1>4, <1>5, <1>8
       DEF Attribution, MdrExplains, GstExplains, Closed, Tolerance, BridgeTolerance
  <2>3. CASE label = "ROUNDING"
    <3>1. Abs(b.residual) > 1 /\ Abs(b.residual) < 100
      BY <1>6, <2>3 DEF DriftsOf, Abs
    <3> QED BY <1>1, <2>1, <2>2, <2>3, <3>1, <1>6 DEF CodeOf, TrueOf, Abs
  <2>4. CASE label = "UNEXPLAINED_RESIDUAL"
    <3>1. PICK h : h = HalfUp(net * ResidualRate, 10000)
      OBVIOUS
    <3>2. b.residual \in {h, -h}
      BY <1>6, <2>4, <3>1 DEF DriftsOf
    <3>3. Abs(net) >= 199000
      BY <2>4 DEF Visible
    <3>4. h \in Int /\ Abs(h) >= 100
      BY <3>1, <3>3, ResidualShows
    <3>5. Abs(b.residual) >= 100 /\ Abs(b.residual) \in Int
      <4>1. PICK e : e = b.residual
        OBVIOUS
      <4>2. e = h \/ e = -h
        BY <3>2, <4>1
      <4>3. Abs(e) >= 100 /\ Abs(e) \in Int
        <5>1. CASE e = h
          BY <3>4, <5>1 DEF Abs
        <5>2. CASE e = -h
          BY <3>4, <5>2 DEF Abs
        <5> QED BY <4>2, <5>1, <5>2
      <4> QED BY <4>1, <4>3
    <3> QED BY <1>1, <2>1, <2>2, <2>4, <3>5 DEF CodeOf, TrueOf
  <2>5. CASE label \in {"NONE", "TIMING_T_PLUS_N"}
    <3>1. b.residual = 0
      BY <1>6, <2>5 DEF DriftsOf
    <3> QED BY <1>1, <2>1, <2>2, <2>5, <3>1 DEF CodeOf, Abs
  <2> QED BY <1>8, <2>3, <2>4, <2>5 DEF BatchDefects
<1> QED BY <1>7, <1>8

-----------------------------------------------------------------------------
(* What the credits are made of                                            *)

\* A credit stays what it was made of when the rows of its batch are put elsewhere.
LEMMA AsChargedMoves ==
  ASSUME NEW file, NEW S, NEW new, NEW T, NEW credit, NEW label,
         Net(new, T) = Net(file, S), \A i \in T : \E k \in S : new[i] = file[k],
         AsCharged(file, S, credit, label)
  PROVE  AsCharged(new, T, credit, label)
<1>1. AllCharged(new, T, MdrOf(label), GstOf(label))
  BY DEF AsCharged, AllCharged
<1>2. \A i \in T : credit.txn_date = new[i].settled_at + DelayOf(label)
  BY DEF AsCharged
<1> QED BY <1>1, <1>2 DEF AsCharged

\* Rows of other UTRs take nothing from what a credit was made of.
LEMMA ChargeStays ==
  ASSUME NEW file \in Seq(SettlementRow), NEW rows \in Seq(SettlementRow), NEW c, NoneOf(rows, c),
         NEW credit, NEW label, AsCharged(file, Under(file, c), credit, label)
  PROVE  AsCharged(file \o rows, Under(file \o rows, c), credit, label)
<1>1. PICK new : new = file \o rows
  OBVIOUS
<1>2. PICK a \in Nat, m \in Nat : Behind(new, file, rows, a, m)
  BY <1>1, AddedBehind
<1>3. Net(new, Under(new, c)) = Net(file, Under(file, c))
  BY <1>1, UnderStays
<1>4. ASSUME NEW i \in Under(new, c) PROVE \E k \in Under(file, c) : new[i] = file[k]
  <2>1. i \in DOMAIN new /\ new[i].settlement_utr = c
    BY DEF Under, SpelledGroup
  <2>2. CASE i \in 1..a
    <3>1. new[i] = file[i] /\ i \in DOMAIN file
      BY <1>2, <2>2 DEF Behind
    <3>2. i \in Under(file, c)
      BY <2>1, <3>1 DEF Under, SpelledGroup
    <3> QED BY <3>1, <3>2
  <2>3. CASE i \notin 1..a
    <3>1. i - a \in 1..m /\ i = a + (i - a)
      BY <1>2, <2>1, <2>3 DEF Behind
    <3>2. new[a + (i - a)] = rows[i - a] /\ i - a \in DOMAIN rows
      BY <1>2, <3>1 DEF Behind
    <3> QED BY <2>1, <3>1, <3>2 DEF NoneOf
  <2> QED BY <2>2, <2>3
<1>5. AsCharged(new, Under(new, c), credit, label)
  BY <1>3, <1>4, AsChargedMoves
<1> QED BY <1>1, <1>5

\* The rows of a batch are what its credit was made of once they are in the file.
LEMMA ChargeAdded ==
  ASSUME NEW file \in Seq(SettlementRow), NEW rows \in Seq(SettlementRow), NEW c,
         NoneOf(file, c), AllOf(rows, c),
         NEW credit, NEW label, AsCharged(rows, DOMAIN rows, credit, label)
  PROVE  AsCharged(file \o rows, Under(file \o rows, c), credit, label)
<1>1. PICK new : new = file \o rows
  OBVIOUS
<1>2. PICK a \in Nat, m \in Nat : Behind(new, file, rows, a, m)
  BY <1>1, AddedBehind
<1>3. Net(new, Under(new, c)) = Net(rows, DOMAIN rows)
  BY <1>1, UnderAdded
<1>4. ASSUME NEW i \in Under(new, c) PROVE \E k \in DOMAIN rows : new[i] = rows[k]
  <2>1. i \in DOMAIN new /\ new[i].settlement_utr = c
    BY DEF Under, SpelledGroup
  <2>2. i \notin 1..a
    <3> SUFFICES ASSUME i \in 1..a PROVE FALSE
      OBVIOUS
    <3>1. new[i] = file[i] /\ i \in DOMAIN file
      BY <1>2 DEF Behind
    <3> QED BY <2>1, <3>1 DEF NoneOf
  <2>3. i - a \in 1..m /\ i = a + (i - a)
    BY <1>2, <2>1, <2>2 DEF Behind
  <2>4. new[a + (i - a)] = rows[i - a] /\ i - a \in DOMAIN rows
    BY <1>2, <2>3 DEF Behind
  <2> QED BY <2>3, <2>4
<1>5. AsCharged(new, Under(new, c), credit, label)
  BY <1>3, <1>4, AsChargedMoves
<1> QED BY <1>1, <1>5

\* What is planted on a bank row is the label of its batch.
LabelTold(planted, label, b) ==
  /\ \A e \in planted : e.row = b => e.label = TrueOf(label)
  /\ label # "NONE" <=> \E e \in planted : e.row = b

\* The credits of the first batches are made of their rows, and labelled as their defects.
ChargedTo(f, labels, planted, built) ==
  \A b \in 1..built :
    /\ AsCharged(f.settlement, Under(f.settlement, b), f.bank[b], labels[b])
    /\ LabelTold(planted, labels[b], b)

\* The same of the files so far.
ChargeInv == ChargedTo(files, assigned, truth.planted, Built)

\* Where there is no credit the invariant says nothing.
LEMMA NoChargeYet == NoCredit => ChargeInv
<1> SUFFICES ASSUME NoCredit PROVE ChargeInv
  OBVIOUS
<1>1. Built = 0
  BY DEF NoCredit, Built
<1>2. \A i : i \notin 1..0
  OBVIOUS
<1> QED BY <1>1, <1>2 DEF ChargeInv, ChargedTo

\* There is no credit at the start.
LEMMA ChargeStart == GenerateInit => ChargeInv
BY NoChargeYet DEF GenerateInit, NoCredit

\* The same of the state after a step.
LEMMA NoChargeNext == NoCredit' => ChargeInv'
BY NoChargeYet, PTL

\* The phases before the batches are settled.
LEMMA EarlyCharges ==
  ASSUME DataInv, DataInv',
         MakeOrders \/ BuildLedger \/ PlantTdsDefects \/ PlantLedgerOnly \/ DrawBatch \/ AssignDefects
  PROVE  ChargeInv'
<1>1. CASE step' \notin Settling
  <2>1. /\ files'.bank = <<>> /\ truth'.unresolvable = {} /\ \A e \in truth'.planted : e.row = NoRow
    BY <1>1 DEF DataInv, DataTypes
  <2> QED BY <1>1, <2>1, NoChargeNext DEF Settling, NoCredit
<1>2. CASE step' \in Settling
  <2>1. AssignDefects
    BY <1>2 DEF MakeOrders, BuildLedger, PlantTdsDefects, PlantLedgerOnly, DrawBatch, Settling
  <2>2. step = "batches" /\ step' \in {"refused", "settle"} /\ files' = files /\ truth' = truth
    BY <2>1, Zenon DEF AssignDefects
  <2>3. /\ files.bank = <<>> /\ truth.unresolvable = {} /\ \A e \in truth.planted : e.row = NoRow
    BY <2>2 DEF DataInv, DataTypes, Settling
  <2> QED BY <2>2, <2>3, NoChargeNext DEF NoCredit
<1> QED BY <1>1, <1>2

\* The label recorded for a batch is that of its defect, and none for a clean one.
LEMMA RecordedLabel ==
  ASSUME DataInv, NEW b, NEW rows, NEW credit, Settled(b, rows, credit)
  PROVE  \/ assigned[b] = "NONE" /\ truth'.planted = truth.planted
         \/ /\ assigned[b] # "NONE"
            /\ \E x : /\ truth'.planted = truth.planted \cup {x}
                      /\ x.row = b /\ x.label = TrueOf(assigned[b])
<1>1. PICK ids : ids = [k \in DOMAIN rows |-> rows[k].settlement_id]
  OBVIOUS
<1>2. IsTruth(truth)
  BY DEF DataInv, DataTypes
<1>3. truth' = Recorded(assigned[b], b, b, rows, batches[b])
  BY DEF Settled
<1>4. CASE assigned[b] = "NONE"
  <2>1. PICK m : truth' = [truth EXCEPT !.expected = truth.expected \cup {m}]
    BY <1>3, <1>4 DEF Recorded
  <2> QED BY <1>2, <1>4, <2>1 DEF IsTruth
<1>5. CASE assigned[b] # "NONE"
  <2>1. PICK label : label = IF assigned[b] = "UNEXPLAINED_RESIDUAL" THEN "UNEXPLAINED" ELSE assigned[b]
    OBVIOUS
  <2>2. PICK x : x = Planted(label, b, ids, {})
    OBVIOUS
  <2>3. truth' = [truth EXCEPT !.planted = truth.planted \cup {x}]
    BY <1>1, <1>3, <1>5, <2>1, <2>2 DEF Recorded
  <2>4. truth'.planted = truth.planted \cup {x}
    BY <1>2, <2>3 DEF IsTruth
  <2>5. x.label = label /\ x.row = b /\ label = TrueOf(assigned[b])
    BY <1>5, <2>1, <2>2 DEF Planted, TrueOf
  <2> QED BY <1>5, <2>4, <2>5
<1> QED BY <1>4, <1>5

\* A label is told of a bank row as before when nothing is planted on it.
LEMMA StillTold ==
  ASSUME NEW planted, NEW more, NEW label, NEW b, \A x \in more : x.row # b,
         LabelTold(planted, label, b)
  PROVE  LabelTold(planted \cup more, label, b)
BY DEF LabelTold

\* The credit of a settled batch is made of its rows.
LEMMA BuildBatchCharges == DataInv /\ ChargeInv /\ BuildBatch => ChargeInv'
<1> SUFFICES ASSUME DataInv, ChargeInv, BuildBatch PROVE ChargeInv'
  OBVIOUS
<1>1. UNCHANGED <<setup, step, orders, batches, assigned>>
  BY Zenon DEF BuildBatch
<1>2. PICK b, rows, credit : Settled(b, rows, credit)
  BY BuildBatchFacts
<1>3. /\ b \in Nat /\ b = Built + 1 /\ Built \in Nat
      /\ files'.settlement = files.settlement \o rows
      /\ files'.bank[b] = credit /\ \A c \in 1..Built : files'.bank[c] = files.bank[c]
      /\ Built' = b /\ Strays = 0 /\ Pairs = 0
  BY <1>1, <1>2, SettledFiles
<1>4. \A c \in 1..b : c = b \/ (c \in 1..Built /\ c # b)
  BY <1>3
<1>5. rows \in Seq(SettlementRow) /\ files.settlement \in Seq(SettlementRow)
  BY <1>2, BuiltSoFar DEF Settled
<1>6. AllOf(rows, b)
  BY <1>2 DEF Settled, RowOf, AllOf
<1>7. NoneOf(files.settlement, b)
  <2>1. PICK first : first = Len(batches) + setup.bank_only
    OBVIOUS
  <2>2. AllMade(files.settlement, batches, Built, first, 0)
    BY <1>3, <2>1 DEF DataInv, RowsSettled
  <2>3. b \notin 1..Built
    BY <1>3
  <2> QED BY <1>3, <2>2, <2>3, MadeUnder
<1>8. \A e \in truth.planted : e.row # b
  <2>1. \A e \in truth.planted : IsPlanted(e, files, Built, 0)
    BY <1>3 DEF DataInv, Truthful
  <2>2. b \notin 1..Built /\ b \notin (Built + 1)..(Built + 0) /\ b # NoRow
    BY <1>3 DEF NoRow
  <2> QED BY <2>1, <2>2 DEF IsPlanted
<1>9. PICK planted : planted = truth'.planted
  OBVIOUS
<1>10. PICK more : /\ planted = truth.planted \cup more /\ \A x \in more : x.row = b
                   /\ \A x \in more : x.label = TrueOf(assigned[b])
                   /\ more = {} <=> assigned[b] = "NONE"
  <2>1. CASE assigned[b] = "NONE" /\ truth'.planted = truth.planted
    BY <1>9, <2>1
  <2>2. ASSUME assigned[b] # "NONE",
               NEW x, truth'.planted = truth.planted \cup {x},
               x.row = b, x.label = TrueOf(assigned[b])
        PROVE  \E more : /\ planted = truth.planted \cup more /\ \A y \in more : y.row = b
                         /\ \A y \in more : y.label = TrueOf(assigned[b])
                         /\ more = {} <=> assigned[b] = "NONE"
    <3>1. {x} # {} /\ \A y \in {x} : y = x
      OBVIOUS
    <3> QED BY <1>9, <2>2, <3>1, Zenon
  <2> QED BY <1>2, <2>1, <2>2, RecordedLabel
<1>11. LabelTold(planted, assigned[b], b)
  BY <1>8, <1>10 DEF LabelTold
<1>12. PICK new : new = files'.settlement
  OBVIOUS
<1>13. AsCharged(new, Under(new, b), credit, assigned[b])
  <2>1. AsCharged(rows, DOMAIN rows, credit, assigned[b])
    BY <1>2 DEF Settled
  <2>2. AsCharged(files.settlement \o rows, Under(files.settlement \o rows, b), credit, assigned[b])
    BY <1>5, <1>6, <1>7, <2>1, ChargeAdded
  <2> QED BY <1>3, <1>12, <2>2
<1>14. ASSUME NEW c \in 1..Built, c # b
       PROVE  /\ AsCharged(new, Under(new, c), files.bank[c], assigned[c])
              /\ LabelTold(planted, assigned[c], c)
  <2>1. /\ AsCharged(files.settlement, Under(files.settlement, c), files.bank[c], assigned[c])
        /\ LabelTold(truth.planted, assigned[c], c)
    BY DEF ChargeInv, ChargedTo
  <2>2. NoneOf(rows, c)
    BY <1>6, <1>14 DEF AllOf, NoneOf
  <2>3. AsCharged(files.settlement \o rows, Under(files.settlement \o rows, c), files.bank[c],
                  assigned[c])
    BY <1>5, <2>1, <2>2, ChargeStays
  <2>4. LabelTold(planted, assigned[c], c)
    <3>1. \A x \in more : x.row # c
      BY <1>10, <1>14
    <3>2. LabelTold(truth.planted \cup more, assigned[c], c)
      BY <2>1, <3>1, StillTold
    <3> QED BY <1>10, <3>2
  <2> QED BY <1>3, <1>12, <2>3, <2>4
<1>15. ASSUME NEW c \in 1..b
       PROVE  /\ AsCharged(new, Under(new, c), files'.bank[c], assigned[c])
              /\ LabelTold(planted, assigned[c], c)
  <2>1. CASE c = b
    BY <1>3, <1>11, <1>13, <2>1
  <2>2. CASE c \in 1..Built /\ c # b
    BY <1>3, <1>14, <2>2
  <2> QED BY <1>4, <2>1, <2>2
<1>16. ChargedTo(files', assigned, planted, b)
  BY <1>12, <1>15 DEF ChargedTo
<1> QED BY <1>1, <1>3, <1>9, <1>16 DEF ChargeInv

\* The stray credits are of no batch.
LEMMA PlantBankOnlyCharges == DataInv /\ ChargeInv /\ PlantBankOnly => ChargeInv'
<1> SUFFICES ASSUME DataInv, ChargeInv, PlantBankOnly PROVE ChargeInv'
  OBVIOUS
<1>1. PICK n \in Nat, built \in Nat : n = setup.bank_only /\ built = Built /\ built = Len(files.bank)
  BY BuiltSoFar DEF PlantBankOnly
<1>2. /\ step = "settle" /\ step' = "unresolvable" /\ built = Len(batches)
      /\ UNCHANGED <<setup, orders, batches, assigned>>
      /\ files.bank \in Seq(BankRow)
  BY <1>1, BuiltSoFar DEF PlantBankOnly
<1>3. PICK amount \in [1..n -> setup.stray_amounts] :
        files' = [files EXCEPT !.bank = files.bank \o [i \in 1..n |->
             [narration |-> Narration("unknown", Len(files.bank) + i, 16), credit |-> amount[i],
              txn_date |-> Cutover]]]
  BY <1>1 DEF PlantBankOnly
<1>4. PICK strays : strays = {Planted("BANK_ONLY", built + i, <<>>, {}) : i \in 1..n}
  OBVIOUS
<1>5. truth' = [truth EXCEPT !.planted = truth.planted \cup strays]
  BY <1>1, <1>4 DEF PlantBankOnly
<1>6. PICK added : added = [i \in 1..n |->
             [narration |-> Narration("unknown", built + i, 16), credit |-> amount[i],
              txn_date |-> Cutover]]
  OBVIOUS
<1>7. /\ files.bank \in Seq(BankRow \cup Range(added)) /\ added \in Seq(BankRow \cup Range(added))
  <2>1. added \in [1..n -> Range(added)]
    BY <1>6 DEF Range
  <2>2. added \in Seq(BankRow \cup Range(added))
    BY <2>1
  <2> QED BY <1>2, <2>2
<1>8. files \in [bank : Seq(BankRow), settlement : Seq(SettlementRow), ledger : Seq(LedgerRow)]
  BY DEF DataInv, DataTypes
<1>9. files'.bank = files.bank \o added /\ files'.settlement = files.settlement
  BY <1>1, <1>3, <1>6, <1>8
<1>10. \A c \in 1..built : files'.bank[c] = files.bank[c]
  <2>1. PICK a \in Nat, m \in Nat :
          a = Len(files.bank) /\ m = Len(added) /\ Behind(files.bank \o added, files.bank, added, a, m)
    BY <1>7, AddedBehind
  <2> QED BY <1>1, <1>9, <2>1 DEF Behind
<1>11. Built' = built
  BY <1>1, <1>2 DEF Built
<1>12. truth'.planted = truth.planted \cup strays
  <2>1. IsTruth(truth)
    BY DEF DataInv, DataTypes
  <2> QED BY <1>5, <2>1 DEF IsTruth
<1>13. \A c \in 1..built : \A x \in strays : x.row # c
  <2>1. \A i \in 1..n : built + i \notin 1..built
    OBVIOUS
  <2> QED BY <1>4, <2>1 DEF Planted
<1>14. ASSUME NEW c \in 1..built
       PROVE  /\ AsCharged(files.settlement, Under(files.settlement, c), files.bank[c], assigned[c])
              /\ LabelTold(truth.planted \cup strays, assigned[c], c)
  <2>1. /\ AsCharged(files.settlement, Under(files.settlement, c), files.bank[c], assigned[c])
        /\ LabelTold(truth.planted, assigned[c], c)
    BY <1>1 DEF ChargeInv, ChargedTo
  <2> QED BY <1>13, <2>1, StillTold
<1>15. ChargedTo(files', assigned, truth.planted \cup strays, built)
  BY <1>9, <1>10, <1>14 DEF ChargedTo
<1> QED BY <1>2, <1>11, <1>12, <1>15 DEF ChargeInv

\* The rows of the pairs are of no batch.
LEMMA PlantUnresolvableCharges == DataInv /\ ChargeInv /\ PlantUnresolvable => ChargeInv'
<1> SUFFICES ASSUME DataInv, ChargeInv, PlantUnresolvable PROVE ChargeInv'
  OBVIOUS
<1>1. PICK n, rows, credits : Twinned(n, rows, credits)
  BY TwinFacts
<1>2. PICK built \in Nat, strays \in Nat, first \in Nat :
        built = Len(batches) /\ strays = setup.bank_only /\ first = Len(files.bank)
  BY <1>1, BeforePairs
<1>3. /\ n \in Nat /\ first = built + strays
      /\ Built = built /\ Built' = built
      /\ files.bank \in Seq(BankRow) /\ files.settlement \in Seq(SettlementRow)
  BY <1>1, <1>2, BeforePairs
<1>4. /\ PairRows(rows, first, n) /\ credits \in Seq(BankRow)
      /\ files' = [files EXCEPT !.settlement = files.settlement \o rows,
                                !.bank = files.bank \o credits]
      /\ truth' = [truth EXCEPT !.unresolvable =
           {[row |-> first + i, a |-> first + 2 * i - 1, b |-> first + 2 * i] : i \in 1..n}]
      /\ assigned' = assigned
  BY <1>1, <1>2 DEF Twinned
<1>5. files'.bank = files.bank \o credits /\ files'.settlement = files.settlement \o rows
  <2>1. files \in [bank : Seq(BankRow), settlement : Seq(SettlementRow), ledger : Seq(LedgerRow)]
    BY DEF DataInv, DataTypes
  <2> QED BY <1>4, <2>1
<1>6. \A c \in 1..built : files'.bank[c] = files.bank[c]
  <2>1. PICK a \in Nat, m \in Nat :
          a = Len(files.bank) /\ m = Len(credits)
            /\ Behind(files.bank \o credits, files.bank, credits, a, m)
    BY <1>3, <1>4, AddedBehind
  <2>2. \A c \in 1..built : c \in 1..first
    BY <1>3
  <2> QED BY <1>2, <1>5, <2>1, <2>2 DEF Behind
<1>7. truth'.planted = truth.planted
  <2>1. IsTruth(truth)
    BY DEF DataInv, DataTypes
  <2> QED BY <1>4, <2>1 DEF IsTruth
<1>8. rows \in Seq(SettlementRow)
  BY <1>4 DEF PairRows
<1>9. ASSUME NEW c \in 1..built PROVE NoneOf(rows, c)
  <2> SUFFICES ASSUME NEW k \in DOMAIN rows, rows[k].settlement_utr = c PROVE FALSE
    BY DEF NoneOf
  <2>1. PICK i \in 1..n : \E twin \in {"a", "b"} : OfTwin(rows[k], first, i, twin)
    BY <1>4 DEF PairRows, TwinRow
  <2>2. PICK j \in {0, 1} : rows[k].settlement_utr = first + 2 * i - j
    BY <2>1 DEF OfTwin
  <2>3. first + 2 * i - j > built
    BY <1>3
  <2> QED BY <2>2, <2>3
<1>10. ASSUME NEW c \in 1..built
       PROVE  /\ AsCharged(files.settlement \o rows, Under(files.settlement \o rows, c),
                           files.bank[c], assigned[c])
              /\ LabelTold(truth.planted, assigned[c], c)
  <2>1. /\ AsCharged(files.settlement, Under(files.settlement, c), files.bank[c], assigned[c])
        /\ LabelTold(truth.planted, assigned[c], c)
    BY <1>3 DEF ChargeInv, ChargedTo
  <2> QED BY <1>3, <1>8, <1>9, <2>1, ChargeStays
<1>11. ChargedTo(files', assigned, truth.planted, built)
  BY <1>5, <1>6, <1>10 DEF ChargedTo
<1> QED BY <1>3, <1>4, <1>7, <1>11 DEF ChargeInv

\* A step of the cascade, or none, leaves the credits and their labels alone.
LEMMA ChargeFrame == ChargeInv /\ UNCHANGED generatorVars => ChargeInv'
BY DEF ChargeInv, Built, generatorVars

\* Every step keeps what is said of the credits and their labels.
LEMMA ChargeInvNext ==
  DataInv /\ DataInv' /\ ChargeInv /\ [BenchmarkNext]_<<vars, generatorVars>> => ChargeInv'
<1> SUFFICES ASSUME DataInv, DataInv', ChargeInv, [BenchmarkNext]_<<vars, generatorVars>>
             PROVE  ChargeInv'
  OBVIOUS
<1>1. CASE UNCHANGED generatorVars
  BY <1>1, ChargeFrame
<1>2. CASE Generate
  BY <1>2, EarlyCharges, BuildBatchCharges, PlantBankOnlyCharges, PlantUnresolvableCharges
     DEF Generate
<1> QED BY <1>1, <1>2, Zenon DEF BenchmarkNext

\* The credit of a batch is the net of its rows, at the rates, on the date and with the
\* remainder its planted defect says, and the ground truth says which defect that is.
THEOREM ChargeInvariant == BenchmarkSpec => []ChargeInv
<1>1. BenchmarkInit => ChargeInv
  BY ChargeStart DEF BenchmarkInit
<1> QED BY <1>1, DatasetInvariant, ChargeInvNext, PTL DEF BenchmarkSpec

-----------------------------------------------------------------------------
(* The labels                                                              *)

\* A credit that an exception names is labelled as ambiguous, or as without a batch.
LEMMA NamedLabel ==
  ASSUME FoundInv, pc = "done",
         NEW b \in stage1.ambiguous \cup stage5.ambiguous \cup stage5.residue_bank
  PROVE  BankLabel(b) \in {"AMBIGUOUS_MATCH", "BANK_ONLY"}
<1> DEFINE named == {e \in exceptions : e.row = b /\ e.source \in {"ambiguous", "bank_only"}}
<1>1. Classified /\ PastAudit /\ PastTds
  BY DEF PastAudit, PastTds, Classified
<1>2. exceptions = BridgeFindings \cup TdsFindings \cup ResidueFindings
  BY <1>1 DEF FoundInv, AsFound
<1>3. named # {}
  <2>1. b \in Named({"ambiguous", "bank_only"})
    BY <1>1, NamedRows
  <2> QED BY <2>1 DEF Named
<1>4. ASSUME NEW f \in named PROVE f.code \in {"AMBIGUOUS_MATCH", "BANK_ONLY"}
  <2>1. f \in ResidueFindings
    BY <1>2 DEF BridgeFindings, TdsFindings, Exception
  <2> QED BY <2>1 DEF ResidueFindings, Exception
<1>5. BankLabel(b) = (CHOOSE f \in named : TRUE).code
  BY <1>3 DEF BankLabel
<1> HIDE DEF named
<1>6. (CHOOSE f \in named : TRUE) \in named
  BY <1>3
<1> QED BY <1>4, <1>5, <1>6

\* A settled batch has rows under its UTR.
LEMMA OwnRows ==
  ASSUME DataInv, step = "written", NEW b \in 1..Built
  PROVE  Under(files.settlement, b) # {}
<1>1. /\ AllPaid(files.settlement, batches, Built) /\ Built = Len(batches)
      /\ batches \in Seq(Seq(Order(setup.n_orders)) \ {<<>>})
  BY DEF DataInv, RowsSettled, DataTypes, Built
<1>2. batches[b] \in Seq(Order(setup.n_orders)) /\ batches[b] # <<>>
  BY <1>1
<1>3. 1 \in DOMAIN batches[b]
  BY <1>2
<1>4. PICK r \in DOMAIN files.settlement : OfOrder(files.settlement[r], b, 1, batches[b][1], "pay")
  BY <1>1, <1>3 DEF AllPaid
<1>5. r \in Under(files.settlement, b)
  BY <1>4 DEF OfOrder, Under, SpelledGroup
<1> QED BY <1>5

\* A date three days late scores nothing.
LEMMA LateScoresNothing ==
  ASSUME NEW x \in Int, NEW y \in Int, x = y + 3
  PROVE  DateScore(x, y) = 0
<1>1. PICK days \in Nat : days = Abs(x - y) /\ days = 3
  BY DEF Abs
<1>2. DateScore(x, y) = IF days >= 3 THEN 0 ELSE 200 * (3 - days)
  BY <1>1 DEF DateScore
<1> QED BY <1>1, <1>2

\* A batch that was settled three days before scores 2400 at most.
LEMMA LateScore ==
  ASSUME NEW s \in Seq(SettlementRow), NEW rows \in SUBSET DOMAIN s,
         \A g \in SUBSET DOMAIN s : Net(s, g) \in Int,
         NEW row \in BankRow, row.credit # Blank, NEW u \in Candidates(s, rows),
         SettledDates(s, SpelledGroup(s, rows, u)) \subseteq {row.txn_date - 3}
  PROVE  Score(row, s, rows, u) <= 2400
<1> DEFINE group == SpelledGroup(s, rows, u)
           date == CHOOSE d \in SettledDates(s, group) : TRUE
<1>1. group # {} /\ group \subseteq DOMAIN s /\ u \in Utrs
  BY CandidateFacts
<1>2. SettledDates(s, group) # {}
  BY <1>1 DEF SettledDates
<1>3. row.credit \in Int /\ row.txn_date \in Int /\ row.narration \in Narrations
  BY DEF BankRow
<1>4. date = row.txn_date - 3
  BY <1>2
<1>5. PICK net \in Int : net = Net(s, group)
  BY <1>1
<1>6. PICK x : x = AmountScore(row.credit, Net(s, group)) /\ Capped(x, 1500, row.credit, net)
  BY <1>3, <1>5, AmountScoreBound
<1>7. PICK day \in Int : day = row.txn_date - 3 /\ row.txn_date = day + 3
  BY <1>3
<1> HIDE DEF date
<1>8. DateScore(row.txn_date, date) = 0
  <2>1. DateScore(row.txn_date, day) = 0
    BY <1>3, <1>7, LateScoresNothing
  <2> QED BY <1>4, <1>7, <2>1
<1>9. PICK r \in 0..100 : r = Ratio[row.narration][u]
  BY <1>1, <1>3, FuzzyAssumption
<1>10. NarrationScore(row.narration, u) = 9 * r
  BY <1>9 DEF NarrationScore
<1>11. Score(row, s, rows, u) =
          AmountScore(row.credit, Net(s, group)) + DateScore(row.txn_date, date)
            + NarrationScore(row.narration, u)
  BY Zenon DEF Score, date
<1>12. x \in Int /\ x <= 1500
  BY <1>6 DEF Capped
<1>13. PICK v \in Int : v = 9 * r /\ v <= 900
  OBVIOUS
<1>14. Score(row, s, rows, u) = x + 0 + v
  BY <1>6, <1>8, <1>10, <1>11, <1>13
<1> QED BY <1>12, <1>13, <1>14

\* A credit that came three days late is not matched.
LEMMA LateNotMatched ==
  ASSUME DataInv, CreditInv, DatasetRun, pc = "done",
         input.auto_threshold >= ConfiguredThreshold, NEW m \in BatchMatches,
         \A i \in Under(settlement, m.bank) : bank[m.bank].txn_date = settlement[i].settled_at + 3
  PROVE  FALSE
<1>1. /\ FoundInv /\ IInv /\ Past5 /\ input \in InputRecord
      /\ step = "written" /\ bank = files.bank /\ settlement = files.settlement
  BY DEF DatasetRun, RunOfDataset, FoundInv, IInv, Control, Past5, Past
<1>2. /\ bank \in Seq(BankRow) /\ settlement \in Seq(SettlementRow)
      /\ \A g \in SUBSET DOMAIN settlement : Net(settlement, g) \in Int
  BY <1>1, InputFacts
<1>3. PICK b : b = m.bank
  OBVIOUS
<1>4. m.utr = b
  BY <1>3, MatchedToOwn
<1>5. ASSUME NEW i \in DOMAIN settlement, settlement[i].settlement_utr = b
      PROVE  bank[b].txn_date = settlement[i].settled_at + 3 /\ settlement[i].settled_at \in Int
  <2>1. i \in Under(settlement, m.bank)
    BY <1>3, <1>5 DEF Under, SpelledGroup
  <2>2. settlement[i] \in SettlementRow
    BY <1>2
  <2>3. settlement[i].settled_at \in Int
    BY <2>2 DEF SettlementRow
  <2> QED BY <1>3, <2>1, <2>3
<1>6. CASE m \in stage1.matched
  <2>1. m \in UtrMatched(bank, settlement)
    BY <1>1, <1>6, UtrOutcomeFacts DEF Past5, Past1, Past, IInv, Matching
  <2>2. b \in DOMAIN bank /\ ExtractUtr(bank[b].narration) = b /\ Group(settlement, b) # {}
    BY <1>3, <1>4, <2>1, UtrMatchedFacts
  <2>3. PICK r \in Group(settlement, b) : TRUE
    BY <2>2
  <2>4. r \in DOMAIN settlement /\ Upper[settlement[r].settlement_utr] = b
    BY DEF Group
  <2>5. settlement[r].settlement_utr = b
    BY <1>1, <2>2, <2>4, NamesOwn
  <2>6. settlement[r].settled_at \in SettledDates(settlement, Group(settlement, b))
    BY <2>3 DEF SettledDates
  <2>7. Abs(bank[b].txn_date - settlement[r].settled_at) <= 2
    <3>1. WithinTolerance(bank, settlement, b, b)
      BY <1>3, <1>4, <2>1 DEF UtrMatched
    <3> QED BY <2>6, <3>1 DEF WithinTolerance, UtrDateTolerance
  <2>8. PICK d \in Int : d = settlement[r].settled_at /\ bank[b].txn_date = d + 3
    BY <1>5, <2>4, <2>5
  <2> QED BY <2>7, <2>8 DEF Abs
<1>7. CASE m \in stage5.matched
  <2>1. PICK rs, auto, row :
          rs = stage1.residue_settlement /\ auto = input.auto_threshold /\ row = bank[b]
    OBVIOUS
  <2>2. PICK d : d = Decision(row, settlement, rs, auto)
    OBVIOUS
  <2>3. /\ row \in BankRow /\ row.credit # Blank /\ rs \in SUBSET DOMAIN settlement
        /\ m = [bank |-> b, utr |-> d.utr] /\ d.utr \in Candidates(settlement, rs)
    BY <1>1, <1>3, <1>7, <2>1, <2>2, FuzzyDecided
  <2>4. d.bucket = "matched"
    BY <1>1, <1>3, <1>7, <2>1, <2>2, FuzzyBuckets
  <2>5. d.utr = b
    BY <1>4, <2>3
  <2>6. PICK score : score = Score(row, settlement, rs, b)
    OBVIOUS
  <2>7. score >= auto
    BY <2>2, <2>3, <2>4, <2>5, <2>6, DecisionMatched
  <2>8. SettledDates(settlement, SpelledGroup(settlement, rs, b)) \subseteq {row.txn_date - 3}
    <3> SUFFICES ASSUME NEW i \in SpelledGroup(settlement, rs, b)
                 PROVE  settlement[i].settled_at = row.txn_date - 3
      BY DEF SettledDates
    <3>1. i \in DOMAIN settlement /\ settlement[i].settlement_utr = b
      BY <2>3 DEF SpelledGroup
    <3>2. PICK d3 \in Int : d3 = settlement[i].settled_at /\ row.txn_date = d3 + 3
      BY <1>5, <2>1, <3>1
    <3> QED BY <3>2
  <2>9. b \in Candidates(settlement, rs)
    BY <2>3, <2>5
  <2>10. score <= 2400
    BY <1>2, <2>3, <2>6, <2>8, <2>9, LateScore
  <2>11. score \in Int
    <3>1. ScoreCapped(row, settlement, rs, b)
      BY <1>2, <2>3, <2>9, ScoreBound
    <3> QED BY <2>6, <3>1 DEF ScoreCapped
  <2>12. auto >= 2700 /\ auto \in Int
    <3>1. input.auto_threshold \in 0..MaxScore
      BY <1>1 DEF InputRecord
    <3>2. \A t \in 0..MaxScore : t \in Int
      BY DEF MaxScore
    <3>3. input.auto_threshold \in Int
      BY <3>1, <3>2, Zenon
    <3> QED BY <2>1, <3>3 DEF ConfiguredThreshold
  <2> QED BY <2>7, <2>10, <2>11, <2>12
<1> QED BY <1>6, <1>7 DEF BatchMatches

\* What a matched credit is labelled: the code of its own bridge, if it has one.
LEMMA MatchLabel ==
  ASSUME DataInv, CreditInv, DatasetRun, pc = "done", FullCascade,
         input.auto_threshold >= ConfiguredThreshold, NEW m \in BatchMatches,
         m.bank \notin stage1.ambiguous \cup stage5.ambiguous \cup stage5.residue_bank,
         NEW code,
         code = BridgeCode(Bridge(settlement, Under(settlement, m.bank), bank[m.bank].credit))
  PROVE  BankLabel(m.bank) = IF code = "NONE" THEN "CLEAN" ELSE code
<1>1. FoundInv /\ Classified /\ IInv /\ Past5
  BY DEF DatasetRun, FoundInv, Classified, Past5, Past
<1>2. PICK b : b = m.bank
  OBVIOUS
<1>3. b \in 1..Built /\ m.utr = b
  BY <1>2, MatchedToOwn
<1>4. m \in [bank : DOMAIN bank, utr : Utrs]
  BY <1>1, MatchType
<1>5. BankLabel(b) = BatchLabel(b)
  BY <1>1, <1>2, <1>3, BankLabels
<1>6. m = [bank |-> b, utr |-> b] /\ b \in DOMAIN bank
  BY <1>2, <1>3, <1>4
<1>7. FlaggedUnder(b) = {c \in DOMAIN bank : [bank |-> c, utr |-> b] \in Bad}
  BY <1>1, FlaggedRows
<1>8. \A c : [bank |-> c, utr |-> b] \in Bad => c = b
  <2> SUFFICES ASSUME NEW c, [bank |-> c, utr |-> b] \in Bad PROVE c = b
    OBVIOUS
  <2>1. PICK n \in BatchMatches : n = [bank |-> c, utr |-> b]
    BY DEF Bad, Audited
  <2>2. n.utr = n.bank
    BY MatchedToOwn
  <2> QED BY <2>1, <2>2
<1>9. MatchCode(m) = code
  BY <1>2, <1>3 DEF MatchCode, BatchRows, Under
<1>10. m \in Audited
  <2>1. step = "written" /\ settlement = files.settlement
    BY <1>1 DEF DatasetRun, RunOfDataset
  <2>2. BatchRows(m) # {}
    BY <1>3, <2>1, OwnRows DEF BatchRows, Under
  <2> QED BY <2>2 DEF Audited, FullCascade
<1>11. ContestedUnder(b) = {}
  <2> SUFFICES ASSUME NEW c \in stage1.ambiguous, ExtractUtr(bank[c].narration) = b
               PROVE  FALSE
    BY DEF ContestedUnder
  <2>1. step = "written" /\ bank = files.bank /\ settlement = files.settlement
    BY DEF DatasetRun, RunOfDataset
  <2>2. c \in UtrAmbiguous(bank, settlement)
    BY <1>1, UtrOutcomeFacts DEF Past5, Past1, Past, IInv, Matching
  <2>3. c \in DOMAIN bank /\ Group(settlement, b) # {}
    BY <2>2 DEF UtrAmbiguous
  <2>4. PICK r \in DOMAIN settlement : Upper[settlement[r].settlement_utr] = b
    BY <2>3 DEF Group
  <2>5. settlement[r].settlement_utr = c
        /\ Upper[settlement[r].settlement_utr] = settlement[r].settlement_utr
    BY <2>1, <2>3, <2>4, NamesOwn
  <2> QED BY <1>2, <2>4, <2>5
<1>12. CASE code = "NONE"
  <2>1. m \notin Bad
    BY <1>9, <1>12 DEF Bad
  <2>2. FlaggedUnder(b) = {}
    BY <1>6, <1>7, <1>8, <2>1
  <2> QED BY <1>2, <1>5, <1>12, <1>11, <2>2 DEF BatchLabel
<1>13. CASE code # "NONE"
  <2>1. m \in Bad
    BY <1>9, <1>10, <1>13 DEF Bad
  <2>2. PICK S : S = FlaggedUnder(b)
    OBVIOUS
  <2>3. S = {b}
    BY <1>6, <1>7, <1>8, <2>1, <2>2
  <2>4. Max(S) = b
    <3>1. b \in Nat
      BY <1>3
    <3>2. \A x : (x \in S /\ \A y \in S : x >= y) <=> x = b
      BY <2>3, <3>1
    <3> QED BY <3>2 DEF Max
  <2>5. BatchLabel(b) = MatchCode([bank |-> Max(S), utr |-> b])
    BY <1>11, <2>2, <2>3 DEF BatchLabel
  <2>6. BatchLabel(b) = code
    BY <1>6, <1>9, <2>4, <2>5
  <2> QED BY <1>2, <1>5, <1>13, <2>6
<1> QED BY <1>12, <1>13

\* The credit of a batch, its label, and what the ground truth calls it.
LEMMA BatchLabelled ==
  ASSUME DataInv, ChargeInv, DatasetRun, pc = "done", NEW b \in 1..Built
  PROVE  /\ assigned[b] \in BatchDefects \cup {"NONE"}
         /\ AsCharged(settlement, Under(settlement, b), bank[b], assigned[b])
         /\ BankTrueLabel(b) = TrueOf(assigned[b])
<1>1. step = "written" /\ bank = files.bank /\ settlement = files.settlement
  BY DEF DatasetRun, RunOfDataset
<1>2. assigned[b] \in BatchDefects \cup {"NONE"}
  <2>1. assigned \in [DOMAIN batches -> BatchDefects \cup {"NONE"}] /\ DOMAIN batches = 1..Built
    BY <1>1 DEF DataInv, DataTypes, Settling, Built
  <2> QED BY <2>1
<1>3. /\ AsCharged(settlement, Under(settlement, b), bank[b], assigned[b])
      /\ LabelTold(truth.planted, assigned[b], b)
  BY <1>1 DEF ChargeInv, ChargedTo
<1>4. BankTrueLabel(b) = TrueOf(assigned[b])
  <2>1. CASE \E e \in truth.planted : e.row = b
    <3>1. PICK x : x = CHOOSE e \in truth.planted : e.row = b
      OBVIOUS
    <3>2. x \in truth.planted /\ x.row = b
      BY <2>1, <3>1
    <3>3. x.label = TrueOf(assigned[b])
      BY <1>3, <3>2 DEF LabelTold
    <3> QED BY <2>1, <3>1, <3>3 DEF BankTrueLabel
  <2>2. CASE ~ \E e \in truth.planted : e.row = b
    <3>1. assigned[b] = "NONE"
      BY <1>3, <2>2 DEF LabelTold
    <3> QED BY <2>2, <3>1 DEF BankTrueLabel, TrueOf
  <2> QED BY <2>1, <2>2
<1> QED BY <1>2, <1>3, <1>4

\* A matched credit is labelled with the defect planted in its batch.
LEMMA MatchedAsPlanted ==
  ASSUME DataInv, CreditInv, ChargeInv, DatasetRun, pc = "done", FullCascade,
         input.auto_threshold >= ConfiguredThreshold, NEW m \in BatchMatches,
         m.bank \notin stage1.ambiguous \cup stage5.ambiguous \cup stage5.residue_bank,
         ~ TooSmallToSee(m.bank)
  PROVE  BankLabel(m.bank) \in {BankTrueLabel(m.bank)} \ {"TIMING_T_PLUS_N"}
<1>1. /\ FoundInv /\ IInv /\ input \in InputRecord
      /\ step = "written" /\ bank = files.bank /\ settlement = files.settlement
  BY DEF DatasetRun, RunOfDataset, FoundInv, IInv, Control
<1>2. /\ bank \in Seq(BankRow) /\ settlement \in Seq(SettlementRow)
      /\ \A g \in SUBSET DOMAIN settlement : Net(settlement, g) \in Int
  BY <1>1, InputFacts
<1>3. PICK b : b = m.bank
  OBVIOUS
<1>4. b \in 1..Built
  BY <1>3, MatchedToOwn
<1>5. PICK label, rows : label = assigned[b] /\ rows = Under(settlement, b)
  OBVIOUS
<1>6. label \in BatchDefects \cup {"NONE"} /\ BankTrueLabel(b) = TrueOf(label)
  BY <1>4, <1>5, BatchLabelled
<1>7. AsCharged(settlement, rows, bank[b], label)
  BY <1>4, <1>5, BatchLabelled
<1>8. rows \in SUBSET DOMAIN settlement
  BY <1>5 DEF Under, SpelledGroup
<1>9. label # "TIMING_T_PLUS_N"
  <2> SUFFICES ASSUME label = "TIMING_T_PLUS_N" PROVE FALSE
    OBVIOUS
  <2>1. \A i \in rows : bank[b].txn_date = settlement[i].settled_at + 3
    BY <1>7 DEF AsCharged, DelayOf, TimingDays
  <2> QED BY <1>3, <1>5, <2>1, LateNotMatched
<1>10. PICK net \in Int : net = Net(settlement, rows)
  BY <1>2, <1>8
<1>11. PICK credit : credit = bank[b].credit
  OBVIOUS
<1>12. credit \in Int
  <2>1. b \in DOMAIN bank
    BY <1>1, <1>3, MatchType DEF DatasetRun
  <2> QED BY <1>1, <1>11, <2>1 DEF DataInv, DataTypes
<1>13. AllCharged(settlement, rows, MdrOf(label), GstOf(label)) /\ credit - net \in DriftsOf(label, net)
  BY <1>7, <1>10, <1>11 DEF AsCharged
<1>14. Visible(settlement, rows, label)
  <2>1. PICK group : group = SpelledGroup(settlement, DOMAIN settlement, b) /\ group = rows
    BY <1>5 DEF Under
  <2>2. CASE label \in {"FEE_VARIANCE", "GST_ON_MDR_VARIANCE"}
    <3>1. BankTrueLabel(b) = label
      BY <1>6, <2>2 DEF TrueOf
    <3>2. ~ \A i \in rows : settlement[i].type = "payment" => settlement[i].on_hold
      BY <1>3, <2>1, <2>2, <3>1 DEF TooSmallToSee
    <3>3. PICK i \in rows : settlement[i].type = "payment" /\ ~ settlement[i].on_hold
      BY <3>2
    <3>4. i \in Active(settlement, rows)
      BY <3>3 DEF Active, Typed, Held
    <3> QED BY <2>2, <3>4 DEF Visible
  <2>3. CASE label = "UNEXPLAINED_RESIDUAL"
    <3>1. BankTrueLabel(b) = "UNEXPLAINED"
      BY <1>6, <2>3 DEF TrueOf
    <3>2. ~ (Abs(Net(settlement, rows)) < 199000)
      BY <1>3, <2>1, <3>1 DEF TooSmallToSee
    <3>3. Abs(net) >= 199000
      BY <1>10, <3>2 DEF Abs
    <3> QED BY <1>10, <2>3, <3>3 DEF Visible
  <2> QED BY <2>2, <2>3 DEF Visible
<1>15. BridgeCode(Bridge(settlement, rows, credit)) = CodeOf(label)
  BY <1>2, <1>6, <1>8, <1>10, <1>12, <1>13, <1>14, CodeOfBatch
<1>16. BankLabel(b) = IF CodeOf(label) = "NONE" THEN "CLEAN" ELSE CodeOf(label)
  <2>1. PICK code : code = BridgeCode(Bridge(settlement, Under(settlement, m.bank), bank[m.bank].credit))
    OBVIOUS
  <2>2. BankLabel(m.bank) = IF code = "NONE" THEN "CLEAN" ELSE code
    BY <2>1, MatchLabel
  <2> QED BY <1>3, <1>5, <1>11, <1>15, <2>1, <2>2
<1>17. BankLabel(b) = TrueOf(label) /\ TrueOf(label) # "TIMING_T_PLUS_N"
  BY <1>6, <1>9, <1>16 DEF CodeOf, TrueOf, BatchDefects
<1> QED BY <1>3, <1>6, <1>17

\* The full cascade labels every bank row with the defect planted in its batch, or
\* leaves the row open: whatever batch is drawn, its bridge reads the rates it was
\* charged at and the remainder its credit was given.
THEOREM LabelsPlanted == BenchmarkSpec => []LabelsAreAsPlanted
<1>1. DataInv /\ CreditInv /\ ChargeInv /\ DatasetRun => LabelsAreAsPlanted
  <2> SUFFICES ASSUME DataInv, CreditInv, ChargeInv, DatasetRun, pc = "done", FullCascade,
                      input.auto_threshold >= ConfiguredThreshold,
                      NEW b \in DOMAIN bank, ~ TooSmallToSee(b)
               PROVE  BankLabel(b) \in LeftOpen \cup ({BankTrueLabel(b)} \ {"TIMING_T_PLUS_N"})
    BY DEF LabelsAreAsPlanted, Scored
  <2>1. FoundInv /\ Classified /\ IInv /\ Past5
    BY DEF DatasetRun, FoundInv, Classified, Past5, Past
  <2>2. PICK named : named = stage1.ambiguous \cup stage5.ambiguous \cup stage5.residue_bank
    OBVIOUS
  <2>3. CASE b \in named
    BY <2>1, <2>2, <2>3, NamedLabel DEF LeftOpen
  <2>4. CASE b \notin named /\ b \in MatchedBankIds
    <3>1. PICK m \in BatchMatches : m.bank = b
      BY <2>4 DEF MatchedBankIds
    <3> QED BY <2>2, <2>4, <3>1, MatchedAsPlanted
  <2>5. CASE b \notin named /\ b \notin MatchedBankIds
    <3>1. b \in ReviewBankIds
      BY <2>1, <2>2, <2>5, BankPartition DEF MatchedBankIds, BatchMatches
    <3>2. BankLabel(b) = "NEEDS_REVIEW"
      BY <2>1, <2>2, <2>5, <3>1, BankLabels
    <3> QED BY <3>2 DEF LeftOpen
  <2> QED BY <2>3, <2>4, <2>5
<1> QED BY DatasetInvariant, CreditInvariant, ChargeInvariant, DatasetRunInvariant, <1>1, PTL
=============================================================================
