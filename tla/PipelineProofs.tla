--------------------------- MODULE PipelineProofs ---------------------------
(***************************************************************************)
(* Proofs of what modules PipelineProps and Evaluation state, for every    *)
(* set of input rows.  The run is deterministic once its input is chosen,  *)
(* so that the inductive invariant says which outcome each variable holds  *)
(* when.  The second half is about what a run records and counts: its      *)
(* exceptions and dispositions agree, the labels evaluation/metrics.py     *)
(* reads off it follow them, it implements the abstract run of module      *)
(* Dispositions, and what it counts as matched closes to the paisa and to  *)
(* the contracted rates.                                                   *)
(***************************************************************************)
EXTENDS Evaluation, FiniteSetTheorems, TLAPS

-----------------------------------------------------------------------------
(* Facts about the stages of the cascade, for any rows                     *)

\* A set of natural numbers that is not empty has a least element.
LEMMA SmallestNat ==
  ASSUME NEW S \in SUBSET Nat, S # {}
  PROVE  \E n \in S : \A m \in S : n <= m
<1>1. \E n \in S : \A m \in S : ~ (<<m, n>> \in OpToRel(<, Nat))
  BY NatLessThanWellFounded, WFMin, Zenon
<1>2. \E n \in S : \A m \in S : ~ (m < n)
  BY <1>1, Zenon DEF OpToRel
<1> QED BY <1>2

LEMMA LargestNat ==
  ASSUME NEW n \in Nat, NEW S \in SUBSET (1..n), S # {}
  PROVE  Max(S) \in S /\ \A x \in S : x <= Max(S)
<1> DEFINE T == {n - x : x \in S}
<1>1. PICK t \in T : \A u \in T : t <= u
  <2>1. \A x \in S : n - x \in Nat
    OBVIOUS
  <2>2. T \subseteq Nat /\ T # {}
    BY <2>1
  <2> HIDE DEF T
  <2> QED BY <2>2, SmallestNat
<1>2. PICK m \in S : t = n - m
  BY <1>1
<1>3. \A x \in S : m >= x
  BY <1>1, <1>2
<1> QED BY <1>2, <1>3 DEF Max

LEMMA MinOfNats ==
  ASSUME NEW S \in SUBSET Nat, S # {}
  PROVE  Min(S) \in S /\ \A x \in S : Min(S) <= x
BY SmallestNat DEF Min

\* The rows of a file are finitely many.
LEMMA PositionsFinite ==
  ASSUME NEW R, NEW s \in Seq(R)
  PROVE  /\ DOMAIN s = 1..Len(s) /\ Len(s) \in Nat
         /\ IsFiniteSet(DOMAIN s) /\ Cardinality(DOMAIN s) = Len(s)
<1>1. DOMAIN s = 1..Len(s) /\ Len(s) \in Nat
  OBVIOUS
<1>2. IsFiniteSet(1..Len(s)) /\ Cardinality(1..Len(s)) = Len(s)
  BY <1>1, FS_Interval
<1> QED BY <1>1, <1>2

\* The image of a finite set under a function is finite and no larger, and as
\* large only if the function is one to one.
LEMMA ImageOfFinite ==
  ASSUME NEW S, IsFiniteSet(S), NEW f, f = [x \in S |-> f[x]]
  PROVE  LET T == {f[x] : x \in S}
         IN  /\ IsFiniteSet(T)
             /\ Cardinality(T) <= Cardinality(S)
             /\ Cardinality(T) = Cardinality(S) <=> \A x, y \in S : f[x] = f[y] => x = y
<1> DEFINE T == {f[x] : x \in S}
<1>1. f \in [S -> T]
  OBVIOUS
<1>2. f \in Surjection(S, T)
  BY <1>1 DEF Surjection
<1>3. f \in Injection(S, T) <=> \A x, y \in S : f[x] = f[y] => x = y
  BY <1>1 DEF Injection, IsInjective
<1> QED BY <1>2, <1>3, FS_Surjection

-----------------------------------------------------------------------------
\* Among finitely many candidates with integer scores there is one that comes
\* first: the sort of Stage 5 has a head, and CHOOSE in Decision finds it.
LEMMA SomeoneIsFirst ==
  ASSUME NEW C, IsFiniteSet(C), C # {},
         NEW score \in [C -> Int], NEW first \in [C -> Int]
  PROVE  \E c \in C : \A d \in C : Precedes(score, first, c, d)
<1> DEFINE Headless(S) == S # {} /\ ~ \E c \in S : \A d \in S : Precedes(score, first, c, d)
           Sizes == {n \in Nat : \E S \in SUBSET C : Headless(S) /\ Cardinality(S) = n}
<1> SUFFICES ASSUME Headless(C) PROVE FALSE
  OBVIOUS
<1>1. Cardinality(C) \in Sizes
  BY FS_CardinalityType
<1>2. PICK n \in Sizes : \A m \in Sizes : n <= m
  BY <1>1, SmallestNat
<1>3. PICK S \in SUBSET C : Headless(S) /\ Cardinality(S) = n
  BY <1>2
<1>4. PICK x \in S : TRUE
  BY <1>3
<1>5. /\ IsFiniteSet(S)
      /\ Cardinality(S \ {x}) = n - 1 /\ Cardinality(S \ {x}) \in Nat
  BY <1>3, <1>4, FS_Subset, FS_RemoveElement, FS_CardinalityType
<1>6. ~ Headless(S \ {x})
  <2> SUFFICES ASSUME Headless(S \ {x}) PROVE FALSE
    OBVIOUS
  <2>1. n - 1 \in Sizes
    BY <1>3, <1>5
  <2> QED BY <2>1, <1>2
<1>7. CASE S \ {x} = {}
  <2>1. \A d \in S : Precedes(score, first, x, d)
    BY <1>4, <1>7 DEF Precedes
  <2> QED BY <2>1, <1>3, <1>4
<1>8. CASE S \ {x} # {}
  <2>1. PICK c \in S \ {x} : \A d \in S \ {x} : Precedes(score, first, c, d)
    BY <1>6, <1>8
  <2>2. \/ \A d \in S : Precedes(score, first, c, d)
        \/ \A d \in S : Precedes(score, first, x, d)
    BY <2>1, <1>4 DEF Precedes
  <2> QED BY <2>2, <2>1, <1>3, <1>4
<1> QED BY <1>7, <1>8

-----------------------------------------------------------------------------
(* Sums over rows                                                          *)

\* The element that a fold over a set takes first.
Chosen(s) == CHOOSE x \in s : TRUE

\* sum is what a fold that adds up the values val computes for each of some sets.
Adds(sum, val, sets) ==
  sum = [s \in sets |-> IF s = {} THEN 0 ELSE val[Chosen(s)] + sum[s \ {Chosen(s)}]]

SameWithin(other, T, val, S) == \A x \in T : x \in S /\ other[x] = val[x]

Upto(S, n) == {s \in SUBSET S : Cardinality(s) <= n}

\* Taking an element out of a finite set makes it smaller by one.
LEMMA ChosenOne ==
  ASSUME NEW S, IsFiniteSet(S), NEW s \in SUBSET S, s # {}
  PROVE  /\ Chosen(s) \in s
         /\ \A x \in s : /\ s \ {x} \in SUBSET S
                         /\ Cardinality(s) \in Nat
                         /\ Cardinality(s \ {x}) \in Nat
                         /\ Cardinality(s) = Cardinality(s \ {x}) + 1
<1>1. Chosen(s) \in s
  BY DEF Chosen
<1>2. IsFiniteSet(s)
  BY FS_Subset
<1>3. ASSUME NEW x \in s PROVE Cardinality(s \ {x}) = Cardinality(s) - 1 /\ Cardinality(s) \in Nat
               /\ Cardinality(s \ {x}) \in Nat
  BY <1>2, FS_RemoveElement, FS_CardinalityType
<1> QED
  BY <1>1, <1>3

\* The recursion of the fold defines a function: if it did up to some size but not
\* beyond, one could go a step further.
LEMMA SumExists ==
  ASSUME NEW S, IsFiniteSet(S), NEW val
  PROVE  \E sum : Adds(sum, val, SUBSET S)
<1> DEFINE Has(n) == \E sum : Adds(sum, val, Upto(S, n))
<1> DEFINE Lacking == {n \in Nat : ~Has(n)}
<1>1. Has(0)
  <2> DEFINE sum == [s \in Upto(S, 0) |-> 0]
  <2>1. \A s \in Upto(S, 0) : s = {}
    <3> TAKE s \in Upto(S, 0)
    <3>1. IsFiniteSet(s) /\ Cardinality(s) \in Nat /\ Cardinality(s) <= 0
      BY FS_Subset, FS_CardinalityType DEF Upto
    <3> QED BY <3>1, FS_EmptySet
  <2>2. Adds(sum, val, Upto(S, 0))
    BY <2>1 DEF Adds
  <2> QED BY <2>2
<1>2. ASSUME NEW n \in Nat, Has(n) PROVE Has(n + 1)
  <2>1. PICK sum : Adds(sum, val, Upto(S, n))
    BY <1>2
  <2> DEFINE next == [s \in Upto(S, n + 1) |->
                        IF s = {} THEN 0 ELSE val[Chosen(s)] + sum[s \ {Chosen(s)}]]
  <2>2. ASSUME NEW s \in Upto(S, n + 1), s # {}
        PROVE  /\ s \ {Chosen(s)} \in Upto(S, n)
               /\ s \ {Chosen(s)} \in Upto(S, n + 1)
    BY <2>2, ChosenOne DEF Upto
  <2>3. \A s \in Upto(S, n) : s \in Upto(S, n + 1) => next[s] = sum[s]
    BY <2>1 DEF Adds
  <2>4. ASSUME NEW s \in Upto(S, n + 1), s # {}
        PROVE  next[s \ {Chosen(s)}] = sum[s \ {Chosen(s)}]
    BY <2>2, <2>3, <2>4
  <2>5. Adds(next, val, Upto(S, n + 1))
    <3>1. \A s \in Upto(S, n + 1) :
             next[s] = IF s = {} THEN 0 ELSE val[Chosen(s)] + next[s \ {Chosen(s)}]
      BY <2>4
    <3> HIDE DEF next
    <3>2. next = [s \in Upto(S, n + 1) |-> next[s]]
      BY DEF next
    <3> QED BY <3>1, <3>2 DEF Adds
  <2> QED BY <2>5
<1>3. Lacking = {}
  <2> SUFFICES ASSUME Lacking # {} PROVE FALSE
    OBVIOUS
  <2>1. PICK n \in Lacking : \A m \in Lacking : n <= m
    BY SmallestNat
  <2>2. n # 0 /\ n \in Nat
    BY <1>1
  <2>3. n - 1 \in Nat /\ n - 1 \notin Lacking
    BY <2>1, <2>2
  <2>4. Has(n - 1)
    BY <2>3
  <2>5. Has((n - 1) + 1)
    <3> HIDE DEF Has
    <3> QED BY <2>3, <2>4, <1>2
  <2>6. (n - 1) + 1 = n
    BY <2>2
  <2> QED BY <2>5, <2>6
<1>4. Upto(S, Cardinality(S)) = SUBSET S /\ Cardinality(S) \in Nat
  BY FS_Subset, FS_CardinalityType DEF Upto
<1>5. Has(Cardinality(S))
  BY <1>3, <1>4
<1> QED
  BY <1>4, <1>5

\* Among some parts of a finite set there is one no element of which can be taken
\* away: the least counterexample of an induction over finite sets.
LEMMA MinimalPart ==
  ASSUME NEW S, IsFiniteSet(S), NEW Bad \in SUBSET (SUBSET S), Bad # {}
  PROVE  \E s \in Bad : \A x \in s : s \ {x} \notin Bad
<1> DEFINE sizes == {Cardinality(s) : s \in Bad}
<1>1. \A s \in Bad : Cardinality(s) \in Nat
  BY FS_Subset, FS_CardinalityType
<1>2. PICK n \in sizes : \A m \in sizes : n <= m
  <2>1. sizes \subseteq Nat /\ sizes # {}
    BY <1>1
  <2> HIDE DEF sizes
  <2> QED BY <2>1, SmallestNat
<1>3. PICK s \in Bad : n = Cardinality(s)
  BY <1>2
<1>4. \A t \in Bad : Cardinality(s) <= Cardinality(t)
  BY <1>2, <1>3
<1>5. ASSUME NEW x \in s, s \ {x} \in Bad PROVE FALSE
  BY <1>1, <1>4, <1>5, ChosenOne
<1> QED BY <1>5

\* Integers add up to an integer.
LEMMA SumType ==
  ASSUME NEW S, IsFiniteSet(S), NEW val, \A x \in S : val[x] \in Int,
         NEW sum, Adds(sum, val, SUBSET S)
  PROVE  sum[{}] = 0 /\ \A s \in SUBSET S : sum[s] \in Int
<1>1. sum[{}] = 0
  BY DEF Adds
<1>2. ASSUME NEW s \in SUBSET S, s # {}
      PROVE  Chosen(s) \in s /\ sum[s] = val[Chosen(s)] + sum[s \ {Chosen(s)}]
  BY <1>2, ChosenOne DEF Adds
<1> DEFINE Bad == {s \in SUBSET S : sum[s] \notin Int}
<1>3. Bad = {}
  <2> SUFFICES ASSUME Bad # {} PROVE FALSE
    OBVIOUS
  <2>1. PICK s \in Bad : \A x \in s : s \ {x} \notin Bad
    <3>1. Bad \in SUBSET (SUBSET S)
      OBVIOUS
    <3> HIDE DEF Bad
    <3> QED BY <3>1, MinimalPart
  <2>2. s \in SUBSET S /\ sum[s] \notin Int
    OBVIOUS
  <2>3. s # {}
    <3>1. sum[{}] \in Int
      BY <1>1
    <3> QED BY <2>2, <3>1, Zenon
  <2>4. Chosen(s) \in s /\ sum[s] = val[Chosen(s)] + sum[s \ {Chosen(s)}]
    BY <1>2, <2>2, <2>3
  <2>5. sum[s \ {Chosen(s)}] \in Int /\ val[Chosen(s)] \in Int
    BY <2>1, <2>4
  <2> QED BY <2>2, <2>4, <2>5
<1> QED
  BY <1>1, <1>3

\* A sum can be taken in any order.
LEMMA SumStep ==
  ASSUME NEW S, IsFiniteSet(S), NEW val, \A x \in S : val[x] \in Int,
         NEW sum, Adds(sum, val, SUBSET S)
  PROVE  \A y \in S : sum[S] = val[y] + sum[S \ {y}]
<1>1. ASSUME NEW s \in SUBSET S, s # {}
      PROVE  Chosen(s) \in s /\ sum[s] = val[Chosen(s)] + sum[s \ {Chosen(s)}]
  BY <1>1, ChosenOne DEF Adds
<1>2. \A s \in SUBSET S : sum[s] \in Int
  BY SumType
<1> DEFINE Fine(s) == \A y \in s : sum[s] = val[y] + sum[s \ {y}]
<1> DEFINE Bad == {s \in SUBSET S : ~Fine(s)}
<1>3. Bad = {}
  <2> SUFFICES ASSUME Bad # {} PROVE FALSE
    OBVIOUS
  <2>1. PICK s \in Bad : \A x \in s : s \ {x} \notin Bad
    <3>1. Bad \in SUBSET (SUBSET S)
      OBVIOUS
    <3> HIDE DEF Bad
    <3> QED BY <3>1, MinimalPart
  <2>2. \A x \in s : Fine(s \ {x})
    BY <2>1
  <2> DEFINE c == Chosen(s)
  <2>3. c \in s /\ sum[s] = val[c] + sum[s \ {c}]
    BY <1>1, <2>1
  <2>4. ASSUME NEW y \in s, y # c PROVE sum[s] = val[y] + sum[s \ {y}]
    <3>1. sum[s \ {c}] = val[y] + sum[(s \ {c}) \ {y}]
      BY <2>2, <2>3, <2>4
    <3>2. sum[s \ {y}] = val[c] + sum[(s \ {c}) \ {y}]
      <4>1. (s \ {y}) \ {c} = (s \ {c}) \ {y}
        OBVIOUS
      <4> QED BY <2>2, <2>3, <2>4, <4>1
    <3>3. val[y] \in Int /\ val[c] \in Int /\ sum[(s \ {c}) \ {y}] \in Int
      BY <1>2, <2>3
    <3> HIDE DEF c
    <3> QED BY <2>3, <3>1, <3>2, <3>3
  <2> QED BY <2>1, <2>3, <2>4
<1> QED
  BY <1>3

\* A part of a set has one sum, whichever set it is summed as a part of.
LEMMA SumsAgree ==
  ASSUME NEW S, NEW val, NEW sum, NEW T, NEW other, NEW part, IsFiniteSet(S),
         Adds(sum, val, SUBSET S), Adds(part, other, SUBSET T),
         SameWithin(other, T, val, S)
  PROVE  part[T] = sum[T]
<1> USE DEF SameWithin
<1>1. IsFiniteSet(T) /\ T \in SUBSET S
  BY FS_Subset
<1> DEFINE Bad == {s \in SUBSET T : part[s] # sum[s]}
<1>2. Bad = {}
  <2> SUFFICES ASSUME Bad # {} PROVE FALSE
    OBVIOUS
  <2>1. PICK s \in Bad : \A x \in s : s \ {x} \notin Bad
    <3>1. Bad \in SUBSET (SUBSET T)
      OBVIOUS
    <3> HIDE DEF Bad
    <3> QED BY <1>1, <3>1, MinimalPart
  <2>2. s # {}
    BY DEF Adds
  <2>3. Chosen(s) \in s
    BY <1>1, <2>2, ChosenOne
  <2>4. part[s \ {Chosen(s)}] = sum[s \ {Chosen(s)}]
    BY <2>1, <2>3
  <2>5. part[s] = other[Chosen(s)] + part[s \ {Chosen(s)}]
    BY <2>2 DEF Adds
  <2>6. sum[s] = val[Chosen(s)] + sum[s \ {Chosen(s)}]
    <3>1. s \in SUBSET S
      OBVIOUS
    <3> QED BY <2>2, <3>1 DEF Adds
  <2>7. other[Chosen(s)] = val[Chosen(s)]
    BY <2>3
  <2> QED BY <2>1, <2>4, <2>5, <2>6, <2>7
<1> QED
  BY <1>2

\* Net and Total are sums in this sense.
LEMMA NetIsSum ==
  ASSUME NEW file, NEW rows, IsFiniteSet(rows)
  PROVE  \E sum : /\ Adds(sum, [i \in rows |-> RowNet(file[i])], SUBSET rows)
                  /\ Net(file, rows) = sum[rows]
<1> DEFINE val == [i \in rows |-> RowNet(file[i])]
<1> DEFINE Folds(sum) ==
      sum = [s \in SUBSET rows |->
               IF s = {} THEN 0
               ELSE RowNet(file[CHOOSE x \in s : TRUE]) + sum[s \ {CHOOSE x \in s : TRUE}]]
<1>1. Net(file, rows) = (CHOOSE sum : Folds(sum))[rows]
  BY Zenon DEF Net, MapThenSumSet, MapThenFoldSet
<1>2. \A s \in SUBSET rows : s # {} => val[Chosen(s)] = RowNet(file[Chosen(s)])
  BY ChosenOne
<1>3. \A sum : Adds(sum, val, SUBSET rows) <=> Folds(sum)
  BY <1>2 DEF Adds, Chosen
<1>4. \E sum : Adds(sum, val, SUBSET rows)
  <2> HIDE DEF val
  <2> QED BY SumExists
<1>5. Folds(CHOOSE sum : Folds(sum))
  <2> HIDE DEF val, Folds
  <2> QED BY <1>3, <1>4, Zenon
<1> QED
  BY <1>1, <1>3, <1>5

LEMMA TotalIsSum ==
  ASSUME NEW file, NEW field, NEW rows, IsFiniteSet(rows)
  PROVE  \E sum : /\ Adds(sum, [i \in rows |-> file[i][field]], SUBSET rows)
                  /\ Total(file, rows, field) = sum[rows]
<1> DEFINE val == [i \in rows |-> file[i][field]]
<1> DEFINE Folds(sum) ==
      sum = [s \in SUBSET rows |->
               IF s = {} THEN 0
               ELSE file[CHOOSE x \in s : TRUE][field] + sum[s \ {CHOOSE x \in s : TRUE}]]
<1>1. Total(file, rows, field) = (CHOOSE sum : Folds(sum))[rows]
  BY Zenon DEF Total, MapThenSumSet, MapThenFoldSet
<1>2. \A s \in SUBSET rows : s # {} => val[Chosen(s)] = file[Chosen(s)][field]
  BY ChosenOne
<1>3. \A sum : Adds(sum, val, SUBSET rows) <=> Folds(sum)
  BY <1>2 DEF Adds, Chosen
<1>4. \E sum : Adds(sum, val, SUBSET rows)
  <2> HIDE DEF val
  <2> QED BY SumExists
<1>5. Folds(CHOOSE sum : Folds(sum))
  <2> HIDE DEF val, Folds
  <2> QED BY <1>3, <1>4, Zenon
<1> QED
  BY <1>1, <1>3, <1>5

\* What a sum over rows is, row by row.
LEMMA NetFacts ==
  ASSUME NEW file, NEW rows, IsFiniteSet(rows),
         \A i \in rows : RowNet(file[i]) \in Int
  PROVE  /\ Net(file, rows) \in Int
         /\ rows = {} => Net(file, rows) = 0
         /\ \A i \in rows :
              /\ Net(file, rows \ {i}) \in Int
              /\ Net(file, rows) = RowNet(file[i]) + Net(file, rows \ {i})
<1> DEFINE val == [i \in rows |-> RowNet(file[i])]
<1>1. PICK sum : Adds(sum, val, SUBSET rows) /\ Net(file, rows) = sum[rows]
  BY NetIsSum
<1>2. /\ \A i \in rows : val[i] = RowNet(file[i])
      /\ \A i \in rows : val[i] \in Int
  OBVIOUS
<1>3. ASSUME NEW i \in rows PROVE Net(file, rows \ {i}) = sum[rows \ {i}]
  <2> DEFINE rest == rows \ {i}
             other == [j \in rest |-> RowNet(file[j])]
  <2>1. IsFiniteSet(rest)
    BY FS_Subset
  <2>2. PICK part : Adds(part, other, SUBSET rest) /\ Net(file, rest) = part[rest]
    <3> HIDE DEF rest
    <3> QED BY <2>1, NetIsSum
  <2>3. SameWithin(other, rest, val, rows)
    BY DEF SameWithin
  <2> HIDE DEF val, other, rest
  <2>4. part[rest] = sum[rest]
    <3>1. Adds(sum, val, SUBSET rows) /\ Adds(part, other, SUBSET rest)
      BY <1>1, <2>2
    <3> QED BY <3>1, <2>3, SumsAgree
  <2> QED BY <2>2, <2>4 DEF rest
<1> HIDE DEF val
<1>4. sum[{}] = 0 /\ (\A s \in SUBSET rows : sum[s] \in Int)
  BY <1>1, <1>2, SumType
<1>5. \A i \in rows : sum[rows] = val[i] + sum[rows \ {i}]
  BY <1>1, <1>2, SumStep
<1>6. rows = {} => Net(file, rows) = 0
  BY <1>1, <1>4
<1>7. \A i \in rows : sum[rows] = RowNet(file[i]) + sum[rows \ {i}]
  BY <1>2, <1>5
<1> QED
  BY <1>1, <1>3, <1>4, <1>6, <1>7

LEMMA TotalFacts ==
  ASSUME NEW file, NEW field, NEW rows, IsFiniteSet(rows),
         \A i \in rows : file[i][field] \in Int
  PROVE  /\ Total(file, rows, field) \in Int
         /\ rows = {} => Total(file, rows, field) = 0
         /\ \A i \in rows :
              /\ Total(file, rows \ {i}, field) \in Int
              /\ Total(file, rows, field) = file[i][field] + Total(file, rows \ {i}, field)
<1> DEFINE val == [i \in rows |-> file[i][field]]
<1>1. PICK sum : Adds(sum, val, SUBSET rows) /\ Total(file, rows, field) = sum[rows]
  BY TotalIsSum
<1>2. /\ \A i \in rows : val[i] = file[i][field]
      /\ \A i \in rows : val[i] \in Int
  OBVIOUS
<1>3. ASSUME NEW i \in rows PROVE Total(file, rows \ {i}, field) = sum[rows \ {i}]
  <2> DEFINE rest == rows \ {i}
             other == [j \in rest |-> file[j][field]]
  <2>1. IsFiniteSet(rest)
    BY FS_Subset
  <2>2. PICK part : Adds(part, other, SUBSET rest) /\ Total(file, rest, field) = part[rest]
    <3> HIDE DEF rest
    <3> QED BY <2>1, TotalIsSum
  <2>3. SameWithin(other, rest, val, rows)
    BY DEF SameWithin
  <2> HIDE DEF val, other, rest
  <2>4. part[rest] = sum[rest]
    <3>1. Adds(sum, val, SUBSET rows) /\ Adds(part, other, SUBSET rest)
      BY <1>1, <2>2
    <3> QED BY <3>1, <2>3, SumsAgree
  <2> QED BY <2>2, <2>4 DEF rest
<1> HIDE DEF val
<1>4. sum[{}] = 0 /\ (\A s \in SUBSET rows : sum[s] \in Int)
  BY <1>1, <1>2, SumType
<1>5. \A i \in rows : sum[rows] = val[i] + sum[rows \ {i}]
  BY <1>1, <1>2, SumStep
<1>6. rows = {} => Total(file, rows, field) = 0
  BY <1>1, <1>4
<1>7. \A i \in rows : sum[rows] = file[i][field] + sum[rows \ {i}]
  BY <1>2, <1>5
<1> QED
  BY <1>1, <1>3, <1>4, <1>6, <1>7

LEMMA RowFields ==
  ASSUME NEW row \in SettlementRow
  PROVE  /\ row.amount \in Int /\ row.fee \in Int /\ row.tax \in Int
         /\ RowNet(row) \in Int
BY DEF SettlementRow, RowNet

\* The net of any rows of a settlement file is an amount of money.
LEMMA NetType ==
  ASSUME NEW file \in Seq(SettlementRow), NEW rows \in SUBSET DOMAIN file
  PROVE  Net(file, rows) \in Int
<1>1. IsFiniteSet(rows)
  BY PositionsFinite, FS_Subset
<1>2. \A i \in rows : RowNet(file[i]) \in Int
  BY RowFields
<1> QED BY <1>1, <1>2, NetFacts

-----------------------------------------------------------------------------
(* Stage 1                                                                 *)

\* Stage 1 only ever names rows of its input.
LEMMA UtrResult ==
  ASSUME NEW b, NEW s
  PROVE  MatchUtr(b, s) \in
           [matched : SUBSET [bank : DOMAIN b, utr : Utrs], needs_review : {{}},
            ambiguous : SUBSET DOMAIN b, residue_bank : SUBSET DOMAIN b,
            residue_settlement : SUBSET DOMAIN s, residue_ledger : {{}}]
BY DEF MatchUtr, StageResult, UtrMatched, UtrAmbiguous

\* The bank row of a match is the only claimant of its UTR, which is the one
\* in its narration, in upper case, and names a batch.
LEMMA UtrMatchedFacts ==
  ASSUME NEW b, NEW s, NEW m \in UtrMatched(b, s)
  PROVE  /\ m \in [bank : DOMAIN b, utr : Utrs]
         /\ Claims(b, m.utr) = {m.bank}
         /\ ExtractUtr(b[m.bank].narration) = m.utr
         /\ Group(s, m.utr) # {}
<1>1. /\ m \in [bank : DOMAIN b, utr : Utrs]
      /\ Claims(b, m.utr) = {m.bank}
      /\ Cardinality(SettledDates(s, Group(s, m.utr))) = 1
  BY DEF UtrMatched, Compared
<1>2. Group(s, m.utr) # {}
  <2> SUFFICES ASSUME Group(s, m.utr) = {} PROVE FALSE
    OBVIOUS
  <2>1. SettledDates(s, Group(s, m.utr)) = {}
    BY DEF SettledDates
  <2> QED BY <1>1, <2>1, FS_EmptySet
<1>3. ExtractUtr(b[m.bank].narration) = m.utr
  BY <1>1 DEF Claims
<1> QED BY <1>1, <1>2, <1>3

\* No bank row is matched and ambiguous: an ambiguous one shares its UTR.
LEMMA UtrMatchedNotAmbiguous ==
  ASSUME NEW b, NEW s, NEW m \in UtrMatched(b, s)
  PROVE  m.bank \notin UtrAmbiguous(b, s)
BY UtrMatchedFacts DEF UtrAmbiguous

-----------------------------------------------------------------------------
(* Stage 5                                                                 *)

LEMMA CandidateFacts ==
  ASSUME NEW s \in Seq(SettlementRow), NEW rows \in SUBSET DOMAIN s
  PROVE  /\ IsFiniteSet(Candidates(s, rows))
         /\ \A u \in Candidates(s, rows) :
               /\ u \in Utrs
               /\ SpelledGroup(s, rows, u) # {}
               /\ SpelledGroup(s, rows, u) \subseteq DOMAIN s
<1> DEFINE f == [i \in rows |-> s[i].settlement_utr]
           spellings == {f[i] : i \in rows}
<1>1. IsFiniteSet(rows)
  BY PositionsFinite, FS_Subset
<1>2. f = [i \in rows |-> f[i]]
  OBVIOUS
<1>3. Candidates(s, rows) \subseteq spellings
  BY DEF Candidates
<1>4. IsFiniteSet(Candidates(s, rows))
  <2> HIDE DEF f
  <2>1. IsFiniteSet(spellings)
    BY <1>1, <1>2, ImageOfFinite
  <2> QED BY <2>1, <1>3, FS_Subset
<1>5. ASSUME NEW u \in Candidates(s, rows)
      PROVE  u \in Utrs /\ SpelledGroup(s, rows, u) # {}
  <2>1. PICK i \in rows : u = s[i].settlement_utr
    BY DEF Candidates
  <2>2. s[i] \in SettlementRow
    OBVIOUS
  <2> QED BY <2>1, <2>2 DEF SettlementRow, SpelledGroup
<1> QED BY <1>4, <1>5 DEF SpelledGroup

LEMMA AmountScoreType ==
  ASSUME NEW credit \in Int, NEW net \in Int
  PROVE  AmountScore(credit, net) \in Int
<1> DEFINE tolerance == IF Abs(net) > 100000 THEN Abs(net) ELSE 100000
           diff == 200 * Abs(credit - net)
<1>1. tolerance \in Nat \ {0} /\ diff \in Int
  BY DEF Abs
<1>2. 1500 * (tolerance - diff) \in Int
  BY <1>1
<1> HIDE DEF tolerance, diff
<1>3. (1500 * (tolerance - diff)) \div tolerance \in Int
  BY <1>1, <1>2
<1> QED BY <1>3 DEF AmountScore, tolerance, diff

LEMMA ScoreType ==
  ASSUME NEW s \in Seq(SettlementRow), NEW rows \in SUBSET DOMAIN s,
         \A g \in SUBSET DOMAIN s : Net(s, g) \in Int,
         NEW row \in BankRow, row.credit # Blank, NEW u \in Candidates(s, rows)
  PROVE  Score(row, s, rows, u) \in Int
<1> DEFINE group == SpelledGroup(s, rows, u)
           date == CHOOSE d \in SettledDates(s, group) : TRUE
<1>1. group # {} /\ group \subseteq DOMAIN s /\ u \in Utrs
  BY CandidateFacts
<1>2. SettledDates(s, group) # {} /\ SettledDates(s, group) \subseteq Int
  <2>1. \A i \in group : s[i] \in SettlementRow
    BY <1>1
  <2> QED BY <2>1, <1>1 DEF SettledDates, SettlementRow
<1>3. date \in Int
  BY <1>2
<1>4. row.credit \in Int /\ row.txn_date \in Int /\ row.narration \in Narrations
  BY DEF BankRow
<1>5. AmountScore(row.credit, Net(s, group)) \in Int
  BY <1>1, <1>4, AmountScoreType
<1> HIDE DEF date
<1>6. DateScore(row.txn_date, date) \in Int
  BY <1>3, <1>4 DEF DateScore, Abs
<1>7. NarrationScore(row.narration, u) \in Int
  <2>1. Ratio[row.narration][u] \in 0..100
    BY <1>1, <1>4, FuzzyAssumption
  <2>2. \A percent \in 0..100 : 9 * percent \in Int
    OBVIOUS
  <2> QED BY <2>1, <2>2, Zenon DEF NarrationScore
<1> QED BY <1>5, <1>6, <1>7 DEF Score, date

\* What Stage 5 decides for a row with an amount is one of the four buckets, and
\* the batch it names is one of the candidates.
LEMMA DecisionFacts ==
  ASSUME NEW s \in Seq(SettlementRow), NEW rows \in SUBSET DOMAIN s,
         \A g \in SUBSET DOMAIN s : Net(s, g) \in Int,
         NEW row \in BankRow, row.credit # Blank \/ Candidates(s, rows) = {},
         NEW auto
  PROVE  LET d == Decision(row, s, rows, auto)
         IN  /\ d.bucket \in {"ambiguous", "matched", "needs_review", "residue"}
             /\ d.bucket # "residue" => d.utr \in Candidates(s, rows)
<1> DEFINE candidates == Candidates(s, rows)
           score == [c \in candidates |-> Score(row, s, rows, c)]
           first == [c \in candidates |-> Min(SpelledGroup(s, rows, c))]
           top == CHOOSE c \in candidates : \A d \in candidates : Precedes(score, first, c, d)
<1>1. CASE candidates = {}
  BY <1>1 DEF Decision
<1>2. CASE candidates # {}
  <2>1. score \in [candidates -> Int]
    BY <1>2, ScoreType
  <2>2. first \in [candidates -> Int]
    <3> SUFFICES ASSUME NEW c \in candidates PROVE Min(SpelledGroup(s, rows, c)) \in Int
      OBVIOUS
    <3>1. SpelledGroup(s, rows, c) # {} /\ SpelledGroup(s, rows, c) \in SUBSET Nat
      BY CandidateFacts
    <3> QED BY <3>1, MinOfNats
  <2>3. top \in candidates
    <3> HIDE DEF score, first
    <3>1. \E c \in candidates : \A d \in candidates : Precedes(score, first, c, d)
      BY <2>1, <2>2, <1>2, CandidateFacts, SomeoneIsFirst
    <3> QED BY <3>1
  <2> QED BY <2>3, <1>2, Zenon DEF Decision
<1> QED BY <1>1, <1>2

\* The result r of a matching stage sorts the bank rows rb into its buckets, one
\* each, and matches or proposes none of them to a batch outside utrs.
Sorts(r, rb, rs, utrs) ==
  LET named == {m.bank : m \in r.matched}
      proposed == {m.bank : m \in r.needs_review}
  IN  /\ r \in [matched : SUBSET [bank : rb, utr : utrs],
               needs_review : SUBSET [bank : rb, utr : utrs],
               ambiguous : SUBSET rb, residue_bank : SUBSET rb,
               residue_settlement : SUBSET rs, residue_ledger : {{}}]
      /\ rb = named \cup proposed \cup r.ambiguous \cup r.residue_bank
      /\ named \cap (proposed \cup r.ambiguous \cup r.residue_bank) = {}
      /\ proposed \cap (r.ambiguous \cup r.residue_bank) = {}
      /\ r.ambiguous \cap r.residue_bank = {}

\* Stage 5 only names rows it was given, puts each bank row of them into exactly
\* one bucket, and matches or proposes it to a batch of the rows it was given.
LEMMA FuzzyResult ==
  ASSUME NEW b \in Seq(BankRow), NEW s \in Seq(SettlementRow),
         NEW rb \in SUBSET DOMAIN b, NEW rs \in SUBSET DOMAIN s,
         \A g \in SUBSET DOMAIN s : Net(s, g) \in Int,
         ~ FuzzyRaises(b, s, rb, rs), NEW auto
  PROVE  Sorts(MatchFuzzy(b, s, rb, rs, auto), rb, rs, Candidates(s, rs))
<1> DEFINE decision == [row \in rb |-> Decision(b[row], s, rs, auto)]
           In(bucket) == {row \in rb : decision[row].bucket = bucket}
           Sorted(bucket) == {[bank |-> row, utr |-> decision[row].utr] : row \in In(bucket)}
           r == MatchFuzzy(b, s, rb, rs, auto)
<1>1. ASSUME NEW row \in rb
      PROVE  /\ decision[row].bucket \in {"ambiguous", "matched", "needs_review", "residue"}
             /\ decision[row].bucket # "residue" => decision[row].utr \in Candidates(s, rs)
  <2>1. b[row] \in BankRow /\ (b[row].credit # Blank \/ Candidates(s, rs) = {})
    BY DEF FuzzyRaises
  <2> QED BY <2>1, DecisionFacts
<1>2. r = StageResult(Sorted("matched"), Sorted("needs_review"), In("ambiguous"), In("residue"),
            {i \in rs : \A m \in Sorted("matched") : s[i].settlement_utr # m.utr}, {})
  BY DEF MatchFuzzy
<1> HIDE DEF decision, r
<1>3. /\ r.matched = Sorted("matched") /\ r.needs_review = Sorted("needs_review")
      /\ r.ambiguous = In("ambiguous") /\ r.residue_bank = In("residue")
  BY <1>2 DEF StageResult
<1>4. /\ Sorted("matched") \in SUBSET [bank : rb, utr : Candidates(s, rs)]
      /\ Sorted("needs_review") \in SUBSET [bank : rb, utr : Candidates(s, rs)]
  <2>1. ASSUME NEW bucket \in {"matched", "needs_review"}, NEW row \in In(bucket)
        PROVE  [bank |-> row, utr |-> decision[row].utr] \in [bank : rb, utr : Candidates(s, rs)]
    BY <1>1
  <2> QED BY <2>1
<1>5. r \in [matched : SUBSET [bank : rb, utr : Candidates(s, rs)],
            needs_review : SUBSET [bank : rb, utr : Candidates(s, rs)],
            ambiguous : SUBSET rb, residue_bank : SUBSET rb,
            residue_settlement : SUBSET rs, residue_ledger : {{}}]
  BY <1>2, <1>4 DEF StageResult
<1>6. ASSUME NEW bucket PROVE {m.bank : m \in Sorted(bucket)} = In(bucket)
  <2>1. ASSUME NEW row \in In(bucket) PROVE row \in {m.bank : m \in Sorted(bucket)}
    <3>1. [bank |-> row, utr |-> decision[row].utr] \in Sorted(bucket)
      OBVIOUS
    <3> QED BY <3>1
  <2>2. \A m \in Sorted(bucket) : m.bank \in In(bucket)
    OBVIOUS
  <2> QED BY <2>1, <2>2
<1>7. /\ {m.bank : m \in r.matched} = In("matched")
      /\ {m.bank : m \in r.needs_review} = In("needs_review")
  BY <1>3, <1>6
<1>8. /\ rb = In("matched") \cup In("needs_review") \cup In("ambiguous") \cup In("residue")
      /\ In("matched") \cap (In("needs_review") \cup In("ambiguous") \cup In("residue")) = {}
      /\ In("needs_review") \cap (In("ambiguous") \cup In("residue")) = {}
      /\ In("ambiguous") \cap In("residue") = {}
  BY <1>1
<1> HIDE DEF In
<1> QED BY <1>3, <1>5, <1>7, <1>8 DEF r, Sorts

\* Without a candidate batch every row stays in the residue.
LEMMA NoCandidates ==
  ASSUME NEW b, NEW s, NEW rb, NEW rs, NEW auto, Candidates(s, rs) = {}
  PROVE  MatchFuzzy(b, s, rb, rs, auto).residue_bank = rb
<1>1. \A row \in rb : Decision(b[row], s, rs, auto).bucket = "residue"
  BY DEF Decision
<1> QED BY <1>1 DEF MatchFuzzy, StageResult

-----------------------------------------------------------------------------
(* The cascade                                                             *)

\* The outcome of each matching stage as a function of the input.
UtrOutcome == MatchUtr(bank, settlement)

FuzzyOutcome ==
  LET rb == UtrOutcome.residue_bank
      rs == UtrOutcome.residue_settlement
  IN  IF input.use_stage5 THEN MatchFuzzy(bank, settlement, rb, rs, input.auto_threshold)
      ELSE StageResult({}, {}, {}, rb, rs, {})

OrderOutcome ==
  IF input.use_stage3 THEN MatchOrder(settlement, ledger)
  ELSE StageResult({}, {}, {}, {}, DOMAIN settlement, DOMAIN ledger)

FuzzySound ==
  ~ (input.use_stage5 /\ FuzzyRaises(bank, settlement, UtrOutcome.residue_bank,
                                     UtrOutcome.residue_settlement))

\* Errors of the stages after the matching ones.
Late == error \in {"DivisionByZero", "ValidationError", "InvariantViolation"}
Past(stages) == pc \notin stages \cup {"raised"} \/ Late
Past1 == Past({"stage1"})
Past5 == Past({"stage1", "stage5"})
Past3 == Past({"stage1", "stage5", "stage3"})

Control ==
  /\ input \in InputRecord
  /\ pc \in {"stage1", "stage5", "stage3", "stage2", "stage4", "stage6", "account",
             "done", "raised"}
  /\ error \in {"none", "TypeError", "DivisionByZero", "ValidationError",
                "InvariantViolation"}
  /\ pc = "raised" <=> error # "none"

Matching ==
  /\ stage1 = EmptyResult \/ stage1 = UtrOutcome
  /\ Past1 => stage1 = UtrOutcome /\ ~ UtrRaises(bank, settlement)
  /\ Past5 \/ stage5 = EmptyResult
  /\ Past5 => stage5 = FuzzyOutcome /\ FuzzySound
  /\ Past3 \/ stage3 = EmptyResult
  /\ Past3 => stage3 = OrderOutcome

Recording ==
  /\ exceptions \subseteq [source : Sources, row : Nat, code : Codes]
  /\ DOMAIN bridges \subseteq Utrs
  /\ \A utr \in DOMAIN bridges : bridges[utr] \in DOMAIN bank
  /\ flagged \in [bank : SUBSET DOMAIN bank, settlement : SUBSET SettlementIds,
                  order : SUBSET OrderIds]
  /\ flagged.bank \subseteq MatchedBankIds
  /\ flagged.settlement \subseteq SettlementIdsOf(DOMAIN settlement)
  /\ flagged.order \subseteq {m.order : m \in stage3.matched}
  /\ Past3 \/ flagged.bank \cup flagged.settlement \cup flagged.order = {}

\* Reading the counts of a completed run needs that the check has passed, and
\* of a refused one that it has failed.
Accounting ==
  /\ report \in [matched : Nat, needs_review : Nat, exception : Nat]
  /\ Classified => \A b \in stage5.residue_bank : bank[b].credit # Blank
  /\ pc = "done" => Counts.matched + Counts.needs_review + Counts.exception = TotalInputRows
  /\ error = "InvariantViolation" =>
       Counts.matched + Counts.needs_review + Counts.exception # TotalInputRows

IInv == Control /\ Matching /\ Recording /\ Accounting

-----------------------------------------------------------------------------
(* The outcomes, for any input                                             *)

LEMMA InputFacts ==
  ASSUME input \in InputRecord
  PROVE  /\ bank \in Seq(BankRow) /\ settlement \in Seq(SettlementRow)
         /\ ledger \in Seq(LedgerRow)
         /\ \A rows \in SUBSET DOMAIN settlement : Net(settlement, rows) \in Int
<1>1. /\ bank \in Seq(BankRow) /\ settlement \in Seq(SettlementRow)
      /\ ledger \in Seq(LedgerRow)
  BY DEF InputRecord, bank, settlement, ledger
<1> QED BY <1>1, NetType

LEMMA UtrOutcomeFacts ==
  /\ UtrOutcome \in UtrResults
  /\ UtrOutcome.needs_review = {}
  /\ UtrOutcome.matched = UtrMatched(bank, settlement)
  /\ UtrOutcome.ambiguous = UtrAmbiguous(bank, settlement)
  /\ UtrOutcome.residue_bank = DOMAIN bank \ ({m.bank : m \in UtrOutcome.matched}
                                               \cup UtrOutcome.ambiguous)
  /\ UtrOutcome.residue_settlement =
       {i \in DOMAIN settlement :
          \A m \in UtrOutcome.matched : Upper[settlement[i].settlement_utr] # m.utr}
<1>1. UtrOutcome \in UtrResults /\ UtrOutcome.needs_review = {}
  BY UtrResult DEF UtrOutcome, UtrResults
<1> QED BY <1>1 DEF UtrOutcome, MatchUtr, StageResult

\* Stage 5, run or disabled, sorts the residue of Stage 1 and nothing else.
LEMMA FuzzyOutcomeFacts ==
  ASSUME input \in InputRecord, FuzzySound
  PROVE  LET rb == UtrOutcome.residue_bank
             rs == UtrOutcome.residue_settlement
             r == FuzzyOutcome
             named == {m.bank : m \in r.matched}
             proposed == {m.bank : m \in r.needs_review}
         IN  /\ r \in UtrResults
             /\ \A m \in r.matched \cup r.needs_review :
                   /\ m \in [bank : DOMAIN bank, utr : Utrs]
                   /\ m.bank \in rb
                   /\ \E i \in rs : settlement[i].settlement_utr = m.utr
             /\ rb = named \cup proposed \cup r.ambiguous \cup r.residue_bank
             /\ named \cap (proposed \cup r.ambiguous \cup r.residue_bank) = {}
             /\ proposed \cap (r.ambiguous \cup r.residue_bank) = {}
             /\ r.ambiguous \cap r.residue_bank = {}
<1> DEFINE rb == UtrOutcome.residue_bank
           rs == UtrOutcome.residue_settlement
<1>1. rb \subseteq DOMAIN bank /\ rs \subseteq DOMAIN settlement
  BY UtrOutcomeFacts
<1>2. CASE input.use_stage5
  <2>1. FuzzyOutcome = MatchFuzzy(bank, settlement, rb, rs, input.auto_threshold)
    BY <1>2 DEF FuzzyOutcome
  <2>2. ~ FuzzyRaises(bank, settlement, rb, rs)
    BY <1>2 DEF FuzzySound
  <2> HIDE DEF rb, rs
  <2>3. Sorts(FuzzyOutcome, rb, rs, Candidates(settlement, rs))
    <3>1. /\ bank \in Seq(BankRow) /\ settlement \in Seq(SettlementRow)
          /\ \A g \in SUBSET DOMAIN settlement : Net(settlement, g) \in Int
      BY InputFacts
    <3>2. rb \in SUBSET DOMAIN bank /\ rs \in SUBSET DOMAIN settlement
      BY <1>1
    <3> QED BY <3>1, <3>2, <2>1, <2>2, FuzzyResult
  <2>4. \A utr \in Candidates(settlement, rs) :
           utr \in Utrs /\ \E i \in rs : settlement[i].settlement_utr = utr
    BY <1>1, InputFacts, CandidateFacts DEF SpelledGroup
  <2>5. \A m \in FuzzyOutcome.matched \cup FuzzyOutcome.needs_review :
           m \in [bank : rb, utr : Candidates(settlement, rs)]
    BY <2>3 DEF Sorts
  <2>6. [bank : rb, utr : Candidates(settlement, rs)] \subseteq [bank : DOMAIN bank, utr : Utrs]
    BY <1>1, <2>4
  <2>7. FuzzyOutcome \in UtrResults
    <3>1. /\ FuzzyOutcome.matched \subseteq [bank : DOMAIN bank, utr : Utrs]
          /\ FuzzyOutcome.needs_review \subseteq [bank : DOMAIN bank, utr : Utrs]
      BY <2>5, <2>6
    <3> QED BY <2>3, <3>1, <1>1, Zenon DEF UtrResults, Sorts
  <2>8. \A m \in FuzzyOutcome.matched \cup FuzzyOutcome.needs_review :
           /\ m \in [bank : DOMAIN bank, utr : Utrs]
           /\ m.bank \in rb
           /\ \E i \in rs : settlement[i].settlement_utr = m.utr
    BY <2>5, <2>6, <2>4
  <2> QED BY <2>3, <2>7, <2>8 DEF rb, rs, Sorts
<1>3. CASE ~ input.use_stage5
  <2>1. FuzzyOutcome = StageResult({}, {}, {}, rb, rs, {})
    BY <1>3 DEF FuzzyOutcome
  <2> HIDE DEF rb, rs
  <2> QED BY <1>1, <2>1 DEF StageResult, UtrResults, rb, rs
<1> QED BY <1>2, <1>3

LEMMA OrderOutcomeFacts ==
  ASSUME input \in InputRecord
  PROVE  /\ OrderOutcome \in OrderResults
         /\ \A m \in OrderOutcome.matched : m.order \in OrderIdsOf(DOMAIN ledger)
         /\ OrderIdsOf(DOMAIN ledger) =
              {m.order : m \in OrderOutcome.matched} \cup OrderIdsOf(OrderOutcome.residue_ledger)
<1>1. CASE input.use_stage3
  <2>1. OrderOutcome = MatchOrder(settlement, ledger)
    BY <1>1 DEF OrderOutcome
  <2>2. OrderOutcome \in OrderResults
    BY <2>1 DEF MatchOrder, OrderMatched, Payments, StageResult, OrderResults
  <2>3. \A m \in OrderOutcome.matched : m.order \in OrderIdsOf(DOMAIN ledger)
    BY <2>1 DEF MatchOrder, OrderMatched, StageResult, OrderIdsOf, LedgerPositions
  <2>4. \A l \in DOMAIN ledger :
           \/ ledger[l].order_id \in {m.order : m \in OrderOutcome.matched}
           \/ l \in OrderOutcome.residue_ledger
    BY <2>1 DEF MatchOrder, StageResult
  <2> QED BY <2>2, <2>3, <2>4 DEF OrderIdsOf, OrderResults
<1>2. CASE ~ input.use_stage3
  BY <1>2 DEF OrderOutcome, StageResult, OrderIdsOf, OrderResults
<1> QED BY <1>1, <1>2

-----------------------------------------------------------------------------
(* The invariant holds at first                                            *)

\* A run of any three files and any configuration: Init, which takes one of Inputs,
\* and the run that evaluates a generated dataset both start like this.
Starts ==
  /\ input \in InputRecord
  /\ pc = "stage1"
  /\ stage1 = EmptyResult /\ stage5 = EmptyResult /\ stage3 = EmptyResult
  /\ exceptions = {}
  /\ bridges = <<>>
  /\ flagged = [bank |-> {}, settlement |-> {}, order |-> {}]
  /\ report = [matched |-> 0, needs_review |-> 0, exception |-> 0]
  /\ error = "none"

LEMMA InitStarts == Init => Starts
BY InputAssumption DEF Init, Starts

LEMMA InitInvariant == Starts => IInv
<1> SUFFICES ASSUME Starts PROVE IInv
  OBVIOUS
<1> USE DEF Starts
<1>1. Control
  BY DEF Control
<1>2. ~ Past1 /\ ~ Past5 /\ ~ Past3
  BY DEF Past1, Past5, Past3, Past, Late
<1>3. Matching
  BY <1>2 DEF Matching
<1>4. Recording
  BY <1>2 DEF Recording, EmptyResult, StageResult, MatchedBankIds, BatchMatches
<1>5. Accounting
  BY DEF Accounting, Classified
<1> QED BY <1>1, <1>3, <1>4, <1>5 DEF IInv

-----------------------------------------------------------------------------
(* and every step preserves it                                             *)

\* No step touches the input, so that the outcomes stand.
LEMMA Frame ==
  ASSUME input' = input
  PROVE  /\ bank' = bank /\ settlement' = settlement /\ ledger' = ledger
         /\ UtrOutcome' = UtrOutcome /\ FuzzyOutcome' = FuzzyOutcome
         /\ OrderOutcome' = OrderOutcome /\ FuzzySound' = FuzzySound
         /\ UtrRaises(bank, settlement)' = UtrRaises(bank, settlement)
         /\ TotalInputRows' = TotalInputRows
         /\ SettlementIdsOf(DOMAIN settlement)' = SettlementIdsOf(DOMAIN settlement)
<1>1. bank' = bank /\ settlement' = settlement /\ ledger' = ledger
  BY DEF bank, settlement, ledger
<1>2. UtrOutcome' = UtrOutcome
  BY <1>1 DEF UtrOutcome
<1>3. FuzzyOutcome' = FuzzyOutcome /\ FuzzySound' = FuzzySound
  BY <1>1, <1>2 DEF FuzzyOutcome, FuzzySound
<1>4. OrderOutcome' = OrderOutcome
  BY <1>1 DEF OrderOutcome
<1> QED BY <1>1, <1>2, <1>3, <1>4 DEF TotalInputRows, SettlementIdsOf

\* The counts depend on what the stages decided and flagged.
LEMMA CountsFrame ==
  ASSUME UNCHANGED <<input, stage1, stage5, stage3, flagged>>
  PROVE  Counts' = Counts /\ TotalInputRows' = TotalInputRows
BY Frame DEF Counts, BankMatched, BankException, BankReview, MatchedBankIds, ReviewBankIds,
   BatchMatches, SettlementMatched, SettlementException, LedgerMatched, LedgerException,
   SettlementIdsOf, OrderIdsOf

\* Raising one of the errors of the matching stages changes nothing they decided.
LEMMA RaiseTypeError ==
  ASSUME IInv, Raise("TypeError"), pc \in {"stage1", "stage5"}
  PROVE  IInv'
<1> USE DEF Raise
<1>1. ~ Past1' /\ ~ Past5' /\ ~ Past3' /\ ~ Past5 /\ ~ Past3
  BY DEF Past1, Past5, Past3, Past, Late, IInv, Control
<1>2. Control'
  BY DEF IInv, Control
<1>3. Matching'
  BY <1>1, Frame DEF IInv, Matching
<1>4. Recording'
  BY <1>1, Frame DEF IInv, Recording, MatchedBankIds, BatchMatches
<1>5. Accounting'
  BY DEF IInv, Accounting, Classified
<1> QED BY <1>2, <1>3, <1>4, <1>5 DEF IInv

LEMMA RaiseLate ==
  ASSUME IInv, NEW what \in {"DivisionByZero", "ValidationError"}, Raise(what),
         pc \in {"stage4", "stage6"}
  PROVE  IInv'
<1> USE DEF Raise
<1>1. Past1 /\ Past5 /\ Past3 /\ Past1' /\ Past5' /\ Past3'
  BY DEF Past1, Past5, Past3, Past, Late
<1>2. Control'
  BY DEF IInv, Control
<1>3. Matching'
  BY <1>1, Frame DEF IInv, Matching
<1>4. Recording'
  BY <1>1, Frame DEF IInv, Recording, MatchedBankIds, BatchMatches
<1>5. Accounting'
  BY DEF IInv, Accounting, Classified
<1> QED BY <1>2, <1>3, <1>4, <1>5 DEF IInv

LEMMA Stage1Step ==
  ASSUME IInv, RunStage1
  PROVE  IInv'
<1>1. CASE UtrRaises(bank, settlement)
  BY <1>1, RaiseTypeError DEF RunStage1
<1>2. CASE ~ UtrRaises(bank, settlement)
  <2> USE <1>2 DEF RunStage1
  <2>1. Past1' /\ ~ Past5' /\ ~ Past3' /\ ~ Past5 /\ ~ Past3
    BY DEF Past1, Past5, Past3, Past, Late, IInv, Control
  <2>2. Control'
    BY DEF IInv, Control
  <2>3. Matching'
    BY <2>1, Frame DEF IInv, Matching, UtrOutcome
  <2>4. Recording'
    BY <2>1, Frame DEF IInv, Recording
  <2>5. Accounting'
    BY DEF IInv, Accounting, Classified, Control
  <2> QED BY <2>2, <2>3, <2>4, <2>5 DEF IInv
<1> QED BY <1>1, <1>2

LEMMA Stage5Step ==
  ASSUME IInv, RunStage5
  PROVE  IInv'
<1>0. Past1 /\ ~ Past5 /\ ~ Past3 /\ stage1 = UtrOutcome
  BY DEF RunStage5, Past1, Past5, Past3, Past, Late, IInv, Control, Matching
<1>1. CASE ~ FuzzySound
  BY <1>0, <1>1, RaiseTypeError DEF RunStage5, FuzzySound
<1>2. CASE FuzzySound
  <2>0. /\ pc = "stage5" /\ pc' = "stage3" /\ stage5' = FuzzyOutcome
        /\ UNCHANGED <<input, stage1, stage3, exceptions, bridges, flagged, report, error>>
    BY <1>0, <1>2 DEF RunStage5, FuzzySound, FuzzyOutcome
  <2>1. Past1' /\ Past5' /\ ~ Past3'
    BY <2>0 DEF Past1, Past5, Past3, Past, Late, IInv, Control
  <2>2. Control'
    BY <2>0 DEF IInv, Control
  <2>3. Matching'
    BY <2>0, <2>1, <1>0, <1>2, Frame DEF IInv, Matching
  <2>4. Recording'
    BY <2>0, <2>1, <1>0, Frame DEF IInv, Recording
  <2>5. Accounting'
    BY <2>0 DEF IInv, Accounting, Classified, Control
  <2> QED BY <2>2, <2>3, <2>4, <2>5 DEF IInv
<1> QED BY <1>1, <1>2

LEMMA Stage3Step ==
  ASSUME IInv, RunStage3
  PROVE  IInv'
<1>0. /\ pc = "stage3" /\ pc' = "stage2" /\ stage3' = OrderOutcome
      /\ UNCHANGED <<input, stage1, stage5, exceptions, bridges, flagged, report, error>>
  BY DEF RunStage3, OrderOutcome
<1>1. Past1 /\ Past5 /\ ~ Past3 /\ Past1' /\ Past5' /\ Past3'
  BY <1>0 DEF Past1, Past5, Past3, Past, Late, IInv, Control
<1>2. Control'
  BY <1>0 DEF IInv, Control
<1>3. Matching'
  BY <1>0, <1>1, Frame DEF IInv, Matching
<1>4. Recording'
  BY <1>0, <1>1, Frame DEF IInv, Recording, MatchedBankIds, BatchMatches
<1>5. Accounting'
  BY <1>0 DEF IInv, Accounting, Classified, Control
<1> QED BY <1>2, <1>3, <1>4, <1>5 DEF IInv

\* Every match names a bank row and a UTR, and the groups it is audited on are
\* rows of the input.
LEMMA MatchType ==
  ASSUME IInv
  PROVE  \A m \in BatchMatches : m \in [bank : DOMAIN bank, utr : Utrs]
<1>1. stage1.matched \subseteq [bank : DOMAIN bank, utr : Utrs]
  BY UtrOutcomeFacts DEF IInv, Matching, EmptyResult, StageResult, UtrResults
<1>2. stage5.matched \subseteq [bank : DOMAIN bank, utr : Utrs]
  <2>1. CASE Past5
    BY <2>1, FuzzyOutcomeFacts DEF IInv, Matching, Control, UtrResults
  <2>2. CASE ~ Past5
    BY <2>2 DEF IInv, Matching, EmptyResult, StageResult
  <2> QED BY <2>1, <2>2
<1> QED BY <1>1, <1>2 DEF BatchMatches

LEMMA IdsType ==
  ASSUME input \in InputRecord
  PROVE  /\ SettlementIdsOf(DOMAIN settlement) \subseteq SettlementIds
         /\ \A i \in DOMAIN settlement : settlement[i] \in SettlementRow
         /\ DOMAIN bank = 1..Len(bank) /\ Len(bank) \in Nat
         /\ DOMAIN settlement = 1..Len(settlement) /\ Len(settlement) \in Nat
         /\ DOMAIN ledger = 1..Len(ledger) /\ Len(ledger) \in Nat
<1>1. \A i \in DOMAIN settlement : settlement[i] \in SettlementRow
  BY InputFacts
<1> QED BY <1>1, InputFacts DEF SettlementIdsOf, SettlementRow

LEMMA BridgeCodes == \A b : BridgeCode(b) \in Codes \cup {"NONE"}
BY DEF BridgeCode, RateVariance, Attribution, Codes

LEMMA BridgeStep ==
  ASSUME IInv, AuditBridges
  PROVE  IInv'
<1> DEFINE audited == IF input.use_stage2
                        THEN {m \in BatchMatches : BatchRows(m) # {}} ELSE {}
           bad == {m \in audited : MatchCode(m) # "NONE"}
           Auditors(utr) == {b \in DOMAIN bank : [bank |-> b, utr |-> utr] \in audited}
<1>0. /\ pc = "stage2" /\ pc' = "stage4"
      /\ bridges' = [utr \in {m.utr : m \in audited} |-> Max(Auditors(utr))]
      /\ exceptions' = exceptions \cup {Exception("bridge", m.bank, MatchCode(m)) : m \in bad}
      /\ flagged' = [flagged EXCEPT
           !.bank = {m.bank : m \in bad},
           !.settlement = UNION {SettlementIdsOf(BatchRows(m)) : m \in bad}]
      /\ UNCHANGED <<input, stage1, stage5, stage3, report, error>>
  BY DEF AuditBridges
<1>1. /\ audited \subseteq BatchMatches /\ bad \subseteq BatchMatches
      /\ \A m \in BatchMatches : m \in [bank : DOMAIN bank, utr : Utrs]
  BY MatchType
<1>2. \A m \in bad : Exception("bridge", m.bank, MatchCode(m))
                        \in [source : Sources, row : Nat, code : Codes]
  <2> SUFFICES ASSUME NEW m \in bad
               PROVE  Exception("bridge", m.bank, MatchCode(m))
                        \in [source : Sources, row : Nat, code : Codes]
    OBVIOUS
  <2>1. m.bank \in Nat
    BY <1>1, IdsType DEF IInv, Control
  <2>2. MatchCode(m) \in Codes
    BY BridgeCodes DEF MatchCode
  <2> QED BY <2>1, <2>2 DEF Exception, Sources
<1>3. \A utr \in {m.utr : m \in audited} : utr \in Utrs /\ Max(Auditors(utr)) \in DOMAIN bank
  <2> SUFFICES ASSUME NEW m \in audited
               PROVE  m.utr \in Utrs /\ Max(Auditors(m.utr)) \in DOMAIN bank
    OBVIOUS
  <2>1. m \in [bank : DOMAIN bank, utr : Utrs]
    BY <1>1
  <2>2. m = [bank |-> m.bank, utr |-> m.utr]
    BY <2>1
  <2>3. m.bank \in Auditors(m.utr)
    BY <2>1, <2>2
  <2>4. Auditors(m.utr) \in SUBSET (1..Len(bank)) /\ Len(bank) \in Nat
    BY IdsType DEF IInv, Control
  <2> HIDE DEF Auditors
  <2>5. Max(Auditors(m.utr)) \in Auditors(m.utr)
    BY <2>3, <2>4, LargestNat
  <2> QED BY <2>1, <2>4, <2>5, IdsType DEF IInv, Control
<1>4. \A m \in bad : SettlementIdsOf(BatchRows(m)) \subseteq SettlementIdsOf(DOMAIN settlement)
  BY DEF SettlementIdsOf, BatchRows, SpelledGroup
<1>5. Past1 /\ Past5 /\ Past3 /\ Past1' /\ Past5' /\ Past3'
  BY <1>0 DEF Past1, Past5, Past3, Past, Late, IInv, Control
<1> HIDE DEF audited, bad
<1>6. Control'
  BY <1>0 DEF IInv, Control
<1>7. Matching'
  BY <1>0, <1>5, Frame DEF IInv, Matching
<1>8. Recording'
  <2>1. bank' = bank /\ MatchedBankIds' = MatchedBankIds
        /\ SettlementIdsOf(DOMAIN settlement)' = SettlementIdsOf(DOMAIN settlement)
    BY <1>0, Frame DEF MatchedBankIds, BatchMatches
  <2>2. exceptions' \subseteq [source : Sources, row : Nat, code : Codes]
    BY <1>0, <1>2 DEF IInv, Recording
  <2>3. DOMAIN bridges' \subseteq Utrs /\ \A utr \in DOMAIN bridges' : bridges'[utr] \in DOMAIN bank
    BY <1>0, <1>3
  <2>4. /\ flagged'.bank = {m.bank : m \in bad}
        /\ flagged'.settlement = UNION {SettlementIdsOf(BatchRows(m)) : m \in bad}
        /\ flagged'.order = flagged.order
        /\ flagged' = [bank |-> flagged'.bank, settlement |-> flagged'.settlement,
                       order |-> flagged'.order]
    BY <1>0 DEF IInv, Recording
  <2>5. /\ flagged'.bank \subseteq DOMAIN bank /\ flagged'.bank \subseteq MatchedBankIds
    BY <1>1, <2>4 DEF MatchedBankIds
  <2>6. flagged'.settlement \subseteq SettlementIdsOf(DOMAIN settlement)
        /\ flagged'.settlement \subseteq SettlementIds
    BY <1>4, <2>4, IdsType DEF IInv, Control
  <2>7. /\ flagged'.order \subseteq OrderIds
        /\ flagged'.order \subseteq {m.order : m \in stage3'.matched}
    BY <2>4, <1>0 DEF IInv, Recording
  <2>8. flagged' \in [bank : SUBSET DOMAIN bank, settlement : SUBSET SettlementIds,
                      order : SUBSET OrderIds]
    BY <2>4, <2>5, <2>6, <2>7
  <2> QED BY <1>5, <2>1, <2>2, <2>3, <2>5, <2>6, <2>7, <2>8 DEF Recording
<1>9. Accounting'
  BY <1>0 DEF IInv, Accounting, Classified, Control
<1> QED BY <1>6, <1>7, <1>8, <1>9 DEF IInv

LEMMA TdsStep ==
  ASSUME IInv, ValidateTds
  PROVE  IInv'
<1> DEFINE evaluated == IF input.use_stage4 THEN stage3.matched ELSE {}
           found == {m \in evaluated : MatchRule(m) # "NONE"}
<1>1. CASE \E m \in evaluated : MatchRule(m) = "ZERO_DIVISION"
  BY <1>1, RaiseLate DEF ValidateTds
<1>2. CASE \A m \in evaluated : MatchRule(m) # "ZERO_DIVISION"
  <2>0. /\ pc = "stage4" /\ pc' = "stage6"
        /\ exceptions' = exceptions
                            \cup {Exception("tds", m.row, TdsCode(MatchRule(m))) : m \in found}
        /\ flagged' = [flagged EXCEPT !.order = {m.order : m \in found}]
        /\ UNCHANGED <<input, stage1, stage5, stage3, bridges, report, error>>
    BY <1>2 DEF ValidateTds
  <2>1. Past1 /\ Past5 /\ Past3 /\ Past1' /\ Past5' /\ Past3'
    BY <2>0 DEF Past1, Past5, Past3, Past, Late, IInv, Control
  <2>2. \A m \in found : m \in [row : DOMAIN settlement, order : OrderIds] /\ m \in stage3.matched
    BY <2>1, OrderOutcomeFacts DEF IInv, Matching, Control, OrderResults
  <2>3. \A m \in found : Exception("tds", m.row, TdsCode(MatchRule(m)))
                           \in [source : Sources, row : Nat, code : Codes]
    <3> SUFFICES ASSUME NEW m \in found
                 PROVE  Exception("tds", m.row, TdsCode(MatchRule(m)))
                          \in [source : Sources, row : Nat, code : Codes]
      OBVIOUS
    <3>1. m.row \in Nat
      BY <2>2, IdsType DEF IInv, Control
    <3>2. MatchRule(m) \in {"A", "B", "C", "D", "E"}
      BY <1>2 DEF MatchRule, TdsRule
    <3>3. TdsCode(MatchRule(m)) \in Codes
      BY <3>2 DEF TdsCode, Codes
    <3> QED BY <3>1, <3>3 DEF Exception, Sources
  <2> HIDE DEF evaluated, found
  <2>4. Control'
    BY <2>0 DEF IInv, Control
  <2>5. Matching'
    BY <2>0, <2>1, Frame DEF IInv, Matching
  <2>6. Recording'
    <3>1. bank' = bank /\ MatchedBankIds' = MatchedBankIds
          /\ SettlementIdsOf(DOMAIN settlement)' = SettlementIdsOf(DOMAIN settlement)
      BY <2>0, Frame DEF MatchedBankIds, BatchMatches
    <3>2. exceptions' \subseteq [source : Sources, row : Nat, code : Codes]
      BY <2>0, <2>3 DEF IInv, Recording
    <3>3. /\ flagged'.bank = flagged.bank /\ flagged'.settlement = flagged.settlement
          /\ flagged'.order = {m.order : m \in found}
      BY <2>0 DEF IInv, Recording
    <3>4. /\ flagged'.order \subseteq OrderIds
          /\ flagged'.order \subseteq {m.order : m \in stage3'.matched}
      BY <3>3, <2>0, <2>2
    <3>5. flagged' \in [bank : SUBSET DOMAIN bank, settlement : SUBSET SettlementIds,
                        order : SUBSET OrderIds]
      BY <3>3, <3>4, <2>0 DEF IInv, Recording
    <3> QED BY <2>0, <2>1, <3>1, <3>2, <3>3, <3>4, <3>5 DEF IInv, Recording
  <2>7. Accounting'
    BY <2>0 DEF IInv, Accounting, Classified, Control
  <2> QED BY <2>4, <2>5, <2>6, <2>7 DEF IInv
<1> QED BY <1>1, <1>2

LEMMA ClassifyStep ==
  ASSUME IInv, ClassifyResidues
  PROVE  IInv'
<1>1. CASE \E b \in stage5.residue_bank : bank[b].credit = Blank
  BY <1>1, RaiseLate DEF ClassifyResidues
<1>2. CASE \A b \in stage5.residue_bank : bank[b].credit # Blank
  <2> DEFINE new == {Exception("ambiguous", b, "AMBIGUOUS_MATCH") :
                        b \in stage1.ambiguous \cup stage5.ambiguous}
                    \cup {Exception("bank_only", b, "BANK_ONLY") : b \in stage5.residue_bank}
                    \cup {Exception("ledger_only", l, "LEDGER_ONLY") : l \in stage3.residue_ledger}
                    \cup {Exception("settlement_only", i, "SETTLEMENT_ONLY") :
                             i \in stage3.residue_settlement}
  <2>0. /\ pc = "stage6" /\ pc' = "account" /\ exceptions' = exceptions \cup new
        /\ UNCHANGED <<input, stage1, stage5, stage3, bridges, flagged, report, error>>
    BY <1>2 DEF ClassifyResidues
  <2>1. Past1 /\ Past5 /\ Past3 /\ Past1' /\ Past5' /\ Past3'
    BY <2>0 DEF Past1, Past5, Past3, Past, Late, IInv, Control
  <2>2. /\ stage1 \in UtrResults /\ stage5 \in UtrResults /\ stage3 \in OrderResults
    BY <2>1, UtrOutcomeFacts, FuzzyOutcomeFacts, OrderOutcomeFacts DEF IInv, Matching, Control
  <2>3. /\ stage1.ambiguous \cup stage5.ambiguous \cup stage5.residue_bank \subseteq Nat
        /\ stage3.residue_ledger \cup stage3.residue_settlement \subseteq Nat
    BY <2>2, IdsType DEF UtrResults, OrderResults, IInv, Control
  <2>4. new \subseteq [source : Sources, row : Nat, code : Codes]
    <3> DEFINE Record == [source : Sources, row : Nat, code : Codes]
    <3>1. \A n \in Nat : /\ Exception("ambiguous", n, "AMBIGUOUS_MATCH") \in Record
                        /\ Exception("bank_only", n, "BANK_ONLY") \in Record
                        /\ Exception("ledger_only", n, "LEDGER_ONLY") \in Record
                        /\ Exception("settlement_only", n, "SETTLEMENT_ONLY") \in Record
      BY DEF Exception, Sources, Codes
    <3> HIDE DEF Record
    <3>2. new \subseteq Record
      BY <2>3, <3>1
    <3> QED BY <3>2 DEF Record
  <2> HIDE DEF new
  <2>5. Control'
    BY <2>0 DEF IInv, Control
  <2>6. Matching'
    BY <2>0, <2>1, Frame DEF IInv, Matching
  <2>7. Recording'
    BY <2>0, <2>1, <2>4, Frame DEF IInv, Recording, MatchedBankIds, BatchMatches
  <2>8. Accounting'
    BY <2>0, <1>2, Frame DEF IInv, Accounting, Classified, Control
  <2> QED BY <2>5, <2>6, <2>7, <2>8 DEF IInv
<1> QED BY <1>1, <1>2

-----------------------------------------------------------------------------
(* Counting                                                                *)

\* Stages 1 and 5 together leave no bank row out and decide none twice.
LEMMA BankPartition ==
  ASSUME IInv, Past5
  PROVE  /\ DOMAIN bank = {m.bank : m \in stage1.matched} \cup stage1.ambiguous
                           \cup {m.bank : m \in stage5.matched} \cup ReviewBankIds
                           \cup stage5.ambiguous \cup stage5.residue_bank
         /\ \A m \in stage1.matched : m.bank \notin stage1.ambiguous
         /\ LET later == {m.bank : m \in stage5.matched} \cup ReviewBankIds
                           \cup stage5.ambiguous \cup stage5.residue_bank
            IN  later \cap ({m.bank : m \in stage1.matched} \cup stage1.ambiguous) = {}
         /\ {m.bank : m \in stage5.matched}
              \cap (ReviewBankIds \cup stage5.ambiguous \cup stage5.residue_bank) = {}
         /\ ReviewBankIds \cap (stage5.ambiguous \cup stage5.residue_bank) = {}
         /\ stage5.ambiguous \cap stage5.residue_bank = {}
<1>1. stage1 = UtrOutcome /\ stage5 = FuzzyOutcome /\ FuzzySound /\ input \in InputRecord
  BY DEF IInv, Matching, Control, Past1, Past5, Past
<1>2. /\ {m.bank : m \in stage1.matched} \subseteq DOMAIN bank
      /\ stage1.ambiguous \subseteq DOMAIN bank
  BY <1>1, UtrOutcomeFacts DEF UtrResults
<1>3. stage1.residue_bank = DOMAIN bank \ ({m.bank : m \in stage1.matched} \cup stage1.ambiguous)
  BY <1>1, UtrOutcomeFacts
<1>4. \A m \in stage1.matched : m.bank \notin stage1.ambiguous
  BY <1>1, UtrOutcomeFacts, UtrMatchedNotAmbiguous
<1>5. /\ stage1.residue_bank = {m.bank : m \in stage5.matched} \cup ReviewBankIds
                                \cup stage5.ambiguous \cup stage5.residue_bank
      /\ {m.bank : m \in stage5.matched}
              \cap (ReviewBankIds \cup stage5.ambiguous \cup stage5.residue_bank) = {}
      /\ ReviewBankIds \cap (stage5.ambiguous \cup stage5.residue_bank) = {}
      /\ stage5.ambiguous \cap stage5.residue_bank = {}
  BY <1>1, FuzzyOutcomeFacts DEF ReviewBankIds
<1> HIDE DEF ReviewBankIds
<1> QED BY <1>2, <1>3, <1>4, <1>5

\* Of a finite set, the members taken and those left make up the whole.
LEMMA TakenAndLeft ==
  ASSUME NEW T, IsFiniteSet(T), NEW A \in SUBSET T
  PROVE  /\ IsFiniteSet(A) /\ IsFiniteSet(T \ A)
         /\ Cardinality(A) \in Nat /\ Cardinality(T \ A) \in Nat
         /\ Cardinality(A) + Cardinality(T \ A) = Cardinality(T)
<1>1. /\ IsFiniteSet(A) /\ IsFiniteSet(T \ A)
      /\ Cardinality(T \ A) = Cardinality(T) - Cardinality(T \cap A)
  BY FS_Subset, FS_Difference
<1>2. T \cap A = A
  OBVIOUS
<1>3. Cardinality(A) \in Nat /\ Cardinality(T \ A) \in Nat /\ Cardinality(T) \in Nat
  BY <1>1, FS_CardinalityType
<1>4. Cardinality(T \ A) = Cardinality(T) - Cardinality(A)
  BY <1>1, <1>2
<1> QED BY <1>1, <1>3, <1>4

\* The bank rows are counted as three disjoint parts of the statement.
LEMMA BankCount ==
  ASSUME IInv, Past3
  PROVE  /\ Cardinality(BankMatched) \in Nat /\ Cardinality(BankReview) \in Nat
         /\ Cardinality(BankException) \in Nat
         /\ Cardinality(BankMatched) + Cardinality(BankReview) + Cardinality(BankException)
              = Len(bank)
<1>0. Past5 /\ input \in InputRecord /\ bank \in Seq(BankRow)
  BY InputFacts DEF Past3, Past5, Past, IInv, Control
<1>1. IsFiniteSet(DOMAIN bank) /\ Cardinality(DOMAIN bank) = Len(bank)
  BY <1>0, PositionsFinite
<1>2. DOMAIN bank = MatchedBankIds \cup ReviewBankIds \cup stage1.ambiguous
                    \cup stage5.ambiguous \cup stage5.residue_bank
  BY <1>0, BankPartition DEF MatchedBankIds, BatchMatches
<1>3. BankException \subseteq DOMAIN bank
  BY <1>2 DEF BankException, IInv, Recording
<1>4. BankMatched \subseteq DOMAIN bank \ BankException
  BY <1>2 DEF BankMatched
<1>5. BankReview = (DOMAIN bank \ BankException) \ BankMatched
  BY <1>2 DEF BankReview, BankMatched, BankException
<1>6. /\ IsFiniteSet(DOMAIN bank \ BankException)
      /\ Cardinality(BankException) \in Nat /\ Cardinality(DOMAIN bank \ BankException) \in Nat
      /\ Cardinality(BankException) + Cardinality(DOMAIN bank \ BankException) = Len(bank)
  BY <1>1, <1>3, TakenAndLeft
<1>7. /\ Cardinality(BankMatched) \in Nat /\ Cardinality(BankReview) \in Nat
      /\ Cardinality(BankMatched) + Cardinality(BankReview)
           = Cardinality(DOMAIN bank \ BankException)
  BY <1>4, <1>5, <1>6, TakenAndLeft
<1> QED BY <1>6, <1>7

\* Settlement and ledger rows are counted by identifier: as many as the file has
\* different ones.
LEMMA SettlementCount ==
  ASSUME IInv, Past3
  PROVE  LET n == Cardinality(SettlementIdsOf(DOMAIN settlement))
         IN  /\ Cardinality(SettlementMatched) \in Nat /\ Cardinality(SettlementException) \in Nat
             /\ Cardinality(SettlementMatched) + Cardinality(SettlementException) = n
             /\ n <= Len(settlement)
             /\ n = Len(settlement) <=>
                  \A i, j \in DOMAIN settlement :
                     settlement[i].settlement_id = settlement[j].settlement_id => i = j
<1> DEFINE id == [i \in DOMAIN settlement |-> settlement[i].settlement_id]
           ids == {id[i] : i \in DOMAIN settlement}
<1>0. input \in InputRecord /\ settlement \in Seq(SettlementRow)
  BY InputFacts DEF IInv, Control
<1>1. /\ IsFiniteSet(DOMAIN settlement) /\ Cardinality(DOMAIN settlement) = Len(settlement)
  BY <1>0, PositionsFinite
<1>2. id = [i \in DOMAIN settlement |-> id[i]]
  OBVIOUS
<1>3. ids = SettlementIdsOf(DOMAIN settlement)
  BY DEF SettlementIdsOf
<1>4. /\ IsFiniteSet(ids) /\ Cardinality(ids) <= Cardinality(DOMAIN settlement)
      /\ Cardinality(ids) = Cardinality(DOMAIN settlement) <=>
           \A i, j \in DOMAIN settlement : id[i] = id[j] => i = j
  <2> HIDE DEF id
  <2> QED BY <1>1, <1>2, ImageOfFinite
<1>5. \A i \in DOMAIN settlement : id[i] = settlement[i].settlement_id
  OBVIOUS
<1>6. SettlementException \subseteq ids
  <2>1. stage3.residue_settlement \subseteq DOMAIN settlement
    BY <1>0, OrderOutcomeFacts DEF IInv, Matching, OrderResults
  <2>2. SettlementIdsOf(stage3.residue_settlement) \subseteq SettlementIdsOf(DOMAIN settlement)
    BY <2>1 DEF SettlementIdsOf
  <2>3. flagged.settlement \subseteq SettlementIdsOf(DOMAIN settlement)
    BY DEF IInv, Recording
  <2> QED BY <1>3, <2>2, <2>3 DEF SettlementException
<1>7. SettlementMatched = ids \ SettlementException
  BY <1>3 DEF SettlementMatched
<1> HIDE DEF id, ids
<1>8. /\ Cardinality(SettlementException) \in Nat /\ Cardinality(SettlementMatched) \in Nat
      /\ Cardinality(SettlementException) + Cardinality(SettlementMatched) = Cardinality(ids)
  BY <1>4, <1>6, <1>7, TakenAndLeft
<1> QED BY <1>1, <1>3, <1>4, <1>5, <1>8

LEMMA LedgerCount ==
  ASSUME IInv, Past3
  PROVE  LET n == Cardinality(OrderIdsOf(DOMAIN ledger))
         IN  /\ Cardinality(LedgerMatched) \in Nat /\ Cardinality(LedgerException) \in Nat
             /\ Cardinality(LedgerMatched) + Cardinality(LedgerException) = n
             /\ n <= Len(ledger)
             /\ n = Len(ledger) <=>
                  \A l, k \in DOMAIN ledger : ledger[l].order_id = ledger[k].order_id => l = k
<1> DEFINE id == [l \in DOMAIN ledger |-> ledger[l].order_id]
           ids == {id[l] : l \in DOMAIN ledger}
<1>0. input \in InputRecord /\ ledger \in Seq(LedgerRow)
  BY InputFacts DEF IInv, Control
<1>1. /\ IsFiniteSet(DOMAIN ledger) /\ Cardinality(DOMAIN ledger) = Len(ledger)
  BY <1>0, PositionsFinite
<1>2. id = [l \in DOMAIN ledger |-> id[l]]
  OBVIOUS
<1>3. ids = OrderIdsOf(DOMAIN ledger)
  BY DEF OrderIdsOf
<1>4. /\ IsFiniteSet(ids) /\ Cardinality(ids) <= Cardinality(DOMAIN ledger)
      /\ Cardinality(ids) = Cardinality(DOMAIN ledger) <=>
           \A l, k \in DOMAIN ledger : id[l] = id[k] => l = k
  <2> HIDE DEF id
  <2> QED BY <1>1, <1>2, ImageOfFinite
<1>5. \A l \in DOMAIN ledger : id[l] = ledger[l].order_id
  OBVIOUS
<1>6. ids = {m.order : m \in stage3.matched} \cup OrderIdsOf(stage3.residue_ledger)
  BY <1>0, <1>3, OrderOutcomeFacts DEF IInv, Matching
<1>7. flagged.order \subseteq {m.order : m \in stage3.matched}
  BY DEF IInv, Recording
<1>8. /\ LedgerException \subseteq ids
      /\ LedgerMatched = ids \ LedgerException
  BY <1>6, <1>7 DEF LedgerException, LedgerMatched
<1> HIDE DEF id, ids
<1>9. /\ Cardinality(LedgerException) \in Nat /\ Cardinality(LedgerMatched) \in Nat
      /\ Cardinality(LedgerException) + Cardinality(LedgerMatched) = Cardinality(ids)
  BY <1>4, <1>8, TakenAndLeft
<1> QED BY <1>1, <1>3, <1>4, <1>5, <1>9

\* The counts add up to the number of input rows exactly when the identifiers
\* are distinct.
LEMMA CountsAddUp ==
  ASSUME IInv, Past3
  PROVE  /\ Counts \in [matched : Nat, needs_review : Nat, exception : Nat]
         /\ Counts.matched + Counts.needs_review + Counts.exception = TotalInputRows
              <=> IdsDistinct
<1> DEFINE DistinctSettlements ==
             \A i, j \in DOMAIN settlement :
                settlement[i].settlement_id = settlement[j].settlement_id => i = j
           DistinctOrders ==
             \A l, k \in DOMAIN ledger : ledger[l].order_id = ledger[k].order_id => l = k
           bm == Cardinality(BankMatched)
           br == Cardinality(BankReview)
           be == Cardinality(BankException)
           sm == Cardinality(SettlementMatched)
           se == Cardinality(SettlementException)
           lm == Cardinality(LedgerMatched)
           le == Cardinality(LedgerException)
<1>1. /\ bm \in Nat /\ br \in Nat /\ be \in Nat
      /\ bm + br + be = Len(bank)
  BY BankCount
<1>2. /\ sm \in Nat /\ se \in Nat /\ sm + se <= Len(settlement)
      /\ sm + se = Len(settlement) <=> DistinctSettlements
  BY SettlementCount
<1>3. /\ lm \in Nat /\ le \in Nat /\ lm + le <= Len(ledger)
      /\ lm + le = Len(ledger) <=> DistinctOrders
  BY LedgerCount
<1>4. Len(bank) \in Nat /\ Len(settlement) \in Nat /\ Len(ledger) \in Nat
  BY IdsType DEF IInv, Control
<1>5. Counts = [matched |-> bm + sm + lm, needs_review |-> br, exception |-> be + se + le]
  BY DEF Counts
<1>6. TotalInputRows = Len(bank) + Len(settlement) + Len(ledger)
  BY DEF TotalInputRows
<1> HIDE DEF bm, br, be, sm, se, lm, le
<1>7. Counts \in [matched : Nat, needs_review : Nat, exception : Nat]
  BY <1>1, <1>2, <1>3, <1>5
<1>8. Counts.matched + Counts.needs_review + Counts.exception = TotalInputRows
        <=> (sm + se = Len(settlement) /\ lm + le = Len(ledger))
  BY <1>1, <1>2, <1>3, <1>4, <1>5, <1>6
<1>9. IdsDistinct <=> DistinctSettlements /\ DistinctOrders
  BY DEF IdsDistinct
<1> HIDE DEF DistinctSettlements, DistinctOrders
<1> QED BY <1>2, <1>3, <1>7, <1>8, <1>9

LEMMA AccountStep ==
  ASSUME IInv, Account
  PROVE  IInv'
<1>0. /\ pc = "account" /\ error = "none"
      /\ UNCHANGED <<input, stage1, stage5, stage3, exceptions, bridges, flagged>>
  BY DEF Account, Raise, IInv, Control
<1>1. Past1 /\ Past5 /\ Past3
  BY <1>0 DEF Past1, Past5, Past3, Past
<1>2. Counts \in [matched : Nat, needs_review : Nat, exception : Nat]
  BY <1>1, CountsAddUp
<1>3. \/ /\ Counts.matched + Counts.needs_review + Counts.exception # TotalInputRows
         /\ pc' = "raised" /\ error' = "InvariantViolation" /\ report' = report
      \/ /\ Counts.matched + Counts.needs_review + Counts.exception = TotalInputRows
         /\ pc' = "done" /\ error' = "none" /\ report' = Counts
  BY <1>0 DEF Account, Raise
<1>4. Past1' /\ Past5' /\ Past3'
  BY <1>3 DEF Past1, Past5, Past3, Past, Late
<1>5. Control'
  BY <1>0, <1>3 DEF IInv, Control
<1>6. Matching'
  BY <1>0, <1>1, <1>4, Frame DEF IInv, Matching
<1>7. Recording'
  BY <1>0, <1>1, <1>4, Frame DEF IInv, Recording, MatchedBankIds, BatchMatches
<1>8. Accounting'
  <2>1. Counts' = Counts /\ TotalInputRows' = TotalInputRows
    BY <1>0, CountsFrame
  <2>2. \A b \in stage5'.residue_bank : bank'[b].credit # Blank
    BY <1>0, Frame DEF IInv, Accounting, Classified
  <2>3. report' \in [matched : Nat, needs_review : Nat, exception : Nat]
    BY <1>2, <1>3 DEF IInv, Accounting
  <2> QED BY <1>3, <2>1, <2>2, <2>3 DEF Accounting
<1> QED BY <1>5, <1>6, <1>7, <1>8 DEF IInv

LEMMA StutterStep ==
  ASSUME IInv, UNCHANGED vars
  PROVE  IInv'
<1> USE DEF vars
<1>1. Control'
  BY DEF IInv, Control
<1>2. (Past1' <=> Past1) /\ (Past5' <=> Past5) /\ (Past3' <=> Past3)
  BY DEF Past1, Past5, Past3, Past, Late
<1>3. Matching'
  BY <1>2, Frame DEF IInv, Matching
<1>4. Recording'
  BY <1>2, Frame DEF IInv, Recording, MatchedBankIds, BatchMatches
<1>5. Accounting'
  BY CountsFrame, Frame DEF IInv, Accounting, Classified
<1> QED BY <1>1, <1>3, <1>4, <1>5 DEF IInv

\* The induction step, for whatever started the run.
LEMMA InvariantSteps == IInv /\ [Next]_vars => IInv'
BY Stage1Step, Stage5Step, Stage3Step, BridgeStep, TdsStep, ClassifyStep, AccountStep,
   StutterStep DEF Next

\* The inductive invariant: the outcome of each stage stands from the moment
\* the stage has run, nothing is flagged that was not matched, and a run ends
\* with a report or an InvariantViolation according to its counts.
THEOREM InvariantHolds == Spec => []IInv
<1> QED BY InitStarts, InitInvariant, InvariantSteps, PTL DEF Spec

-----------------------------------------------------------------------------
(* What follows from it                                                    *)

\* Type correctness of run_pipeline: every stage names rows of its input, every
\* exception has a code of the taxonomy, every stored bridge a bank row.
THEOREM TypeCorrect == Spec => []TypeOK
<1>1. IInv => TypeOK
  <2> SUFFICES ASSUME IInv PROVE TypeOK
    OBVIOUS
  <2>1. input \in InputRecord
    BY DEF IInv, Control
  <2>2. EmptyResult \in UtrResults /\ EmptyResult \in OrderResults
    BY DEF EmptyResult, StageResult, UtrResults, OrderResults
  <2>3. stage1 \in UtrResults
    BY <2>2, UtrOutcomeFacts DEF IInv, Matching
  <2>4. stage5 \in UtrResults
    BY <2>1, <2>2, FuzzyOutcomeFacts DEF IInv, Matching
  <2>5. stage3 \in OrderResults
    BY <2>1, <2>2, OrderOutcomeFacts DEF IInv, Matching
  <2> QED BY <2>1, <2>3, <2>4, <2>5 DEF TypeOK, IInv, Control, Recording, Accounting
<1> QED BY InvariantHolds, <1>1, PTL

\* Stages 1 and 5 of run_pipeline leave every bank row in exactly one bucket.
THEOREM DecidedOnce == Spec => []BankRowsDecidedOnce
<1>1. IInv => BankRowsDecidedOnce
  <2> SUFFICES ASSUME IInv, AfterStage5, NEW b \in DOMAIN bank
               PROVE  \E k \in 1..6 : /\ b \in BankBuckets[k]
                                      /\ \A j \in 1..6 \ {k} : b \notin BankBuckets[j]
    BY DEF BankRowsDecidedOnce
  <2>1. Past5
    BY DEF AfterStage5, Past5, Past
  <2> DEFINE matched1 == {m.bank : m \in stage1.matched}
             matched5 == {m.bank : m \in stage5.matched}
  <2>2. /\ BankBuckets[1] = matched1 /\ BankBuckets[2] = stage1.ambiguous
        /\ BankBuckets[3] = matched5 /\ BankBuckets[4] = ReviewBankIds
        /\ BankBuckets[5] = stage5.ambiguous /\ BankBuckets[6] = stage5.residue_bank
    BY DEF BankBuckets
  <2>3. matched1 \cap stage1.ambiguous = {}
    BY <2>1, BankPartition
  <2>4. /\ b \in matched1 \cup stage1.ambiguous \cup matched5 \cup ReviewBankIds
               \cup stage5.ambiguous \cup stage5.residue_bank
        /\ (matched5 \cup ReviewBankIds \cup stage5.ambiguous \cup stage5.residue_bank)
              \cap (matched1 \cup stage1.ambiguous) = {}
        /\ matched5 \cap (ReviewBankIds \cup stage5.ambiguous \cup stage5.residue_bank) = {}
        /\ ReviewBankIds \cap (stage5.ambiguous \cup stage5.residue_bank) = {}
        /\ stage5.ambiguous \cap stage5.residue_bank = {}
    BY <2>1, BankPartition
  <2> HIDE DEF matched1, matched5
  <2>5. PICK k \in 1..6 : b \in BankBuckets[k]
    BY <2>2, <2>4
  <2>6. \A j \in 1..6 : b \in BankBuckets[j] => j = k
    BY <2>2, <2>3, <2>4, <2>5
  <2> QED BY <2>5, <2>6
<1> QED BY InvariantHolds, <1>1, PTL

\* Neither stage picks one of several bank rows that name the same batch.
THEOREM NeverPicked == Spec => []ContestedUtrNeverPicked
<1>1. IInv => ContestedUtrNeverPicked
  <2> SUFFICES ASSUME IInv, AfterStage5, NEW b \in DOMAIN bank, NEW c \in DOMAIN bank,
                      b # c, ExtractUtr(bank[b].narration) # NoUtr,
                      ExtractUtr(bank[c].narration) = ExtractUtr(bank[b].narration),
                      Group(settlement, ExtractUtr(bank[b].narration)) # {}
               PROVE  {b, c} \cap (MatchedBankIds \cup ReviewBankIds) = {}
    BY DEF ContestedUtrNeverPicked
  <2>1. Past5 /\ stage1 = UtrOutcome
    BY DEF AfterStage5, Past5, Past1, Past, IInv, Matching
  <2>2. {b, c} \subseteq Claims(bank, ExtractUtr(bank[b].narration))
    BY DEF Claims
  <2>3. {b, c} \subseteq stage1.ambiguous
    BY <2>1, <2>2, UtrOutcomeFacts DEF UtrAmbiguous
  <2> QED BY <2>1, <2>3, BankPartition DEF MatchedBankIds, BatchMatches
<1> QED BY InvariantHolds, <1>1, PTL

\* A batch Stage 1 matched is matched to, and proposed for, no other bank row.
THEOREM Exclusive == Spec => []ExactMatchIsExclusive
<1>1. IInv => ExactMatchIsExclusive
  <2> SUFFICES ASSUME IInv, AfterStage5, NEW m \in stage1.matched,
                      NEW n \in BatchMatches \cup stage5.needs_review, Upper[n.utr] = m.utr
               PROVE  n = m
    BY DEF ExactMatchIsExclusive
  <2>1. /\ Past5 /\ stage1 = UtrOutcome /\ stage5 = FuzzyOutcome /\ FuzzySound
        /\ input \in InputRecord /\ stage1.matched = UtrMatched(bank, settlement)
    BY UtrOutcomeFacts DEF AfterStage5, Past5, Past1, Past, IInv, Matching, Control
  <2>2. CASE n \in stage1.matched
    <3>1. /\ m \in [bank : DOMAIN bank, utr : Utrs] /\ n \in [bank : DOMAIN bank, utr : Utrs]
          /\ Claims(bank, m.utr) = {m.bank} /\ Claims(bank, n.utr) = {n.bank}
          /\ ExtractUtr(bank[n.bank].narration) = n.utr
      BY <2>1, <2>2, UtrMatchedFacts
    <3>2. bank[n.bank].narration \in Narrations
      <4>1. bank[n.bank] \in BankRow
        BY <3>1, <2>1, InputFacts
      <4> QED BY <4>1 DEF BankRow
    <3>3. Upper[n.utr] = n.utr
      BY <3>1, <3>2, NarrationAssumption, UtrAssumption DEF ExtractUtr
    <3>4. n.utr = m.utr
      BY <3>3
    <3>5. n.bank = m.bank
      BY <3>1, <3>4
    <3> QED BY <3>1, <3>4, <3>5
  <2>3. CASE n \notin stage1.matched
    <3>1. PICK i \in stage1.residue_settlement : settlement[i].settlement_utr = n.utr
      BY <2>1, <2>3, FuzzyOutcomeFacts DEF BatchMatches
    <3>2. Upper[settlement[i].settlement_utr] # m.utr
      BY <2>1, <3>1, UtrOutcomeFacts
    <3> QED BY <3>1, <3>2
  <2> QED BY <2>2, <2>3
<1> QED BY InvariantHolds, <1>1, PTL

\* A proposal of Stage 5 is counted as a proposal, whatever the audit stages flag.
THEOREM NeverPromoted == Spec => []ReviewNeverPromoted
<1>1. IInv => ReviewNeverPromoted
  <2> SUFFICES ASSUME IInv, Classified PROVE BankReview = ReviewBankIds
    BY DEF ReviewNeverPromoted
  <2>1. Past5
    BY DEF Classified, Past5, Past, Late
  <2>2. ReviewBankIds \cap (MatchedBankIds \cup stage1.ambiguous \cup stage5.ambiguous
                            \cup stage5.residue_bank) = {}
    BY <2>1, BankPartition DEF MatchedBankIds, BatchMatches
  <2>3. flagged.bank \subseteq MatchedBankIds
    BY DEF IInv, Recording
  <2> QED BY <2>2, <2>3 DEF BankReview, BankMatched, BankException
<1> QED BY InvariantHolds, <1>1, PTL

\* The accounting check of run_pipeline fires exactly on duplicate identifiers.
THEOREM RaisesOnDuplicates == Spec => []RaisesExactlyOnDuplicates
<1>1. IInv => RaisesExactlyOnDuplicates
  <2> SUFFICES ASSUME IInv, pc = "done" \/ error = "InvariantViolation"
               PROVE  (pc = "done" => IdsDistinct) /\ (error = "InvariantViolation" => ~IdsDistinct)
    BY DEF RaisesExactlyOnDuplicates
  <2>1. Past3
    BY DEF Past3, Past, Late
  <2> QED BY <2>1, CountsAddUp DEF IInv, Accounting
<1> QED BY InvariantHolds, <1>1, PTL

\* A completed run has read no empty credit cell: Stage 1 would have raised on
\* comparing it, Stage 5 on scoring it, Stage 6 on reporting it.
THEOREM BlankNeverCounted == Spec => []BlankCreditNeverCounted
<1>1. IInv => BlankCreditNeverCounted
  <2> SUFFICES ASSUME IInv, pc = "done", NEW b \in DOMAIN bank, bank[b].credit = Blank,
                      b \notin stage1.ambiguous
               PROVE  FALSE
    BY DEF BlankCreditNeverCounted
  <2>1. /\ stage1 = UtrOutcome /\ stage5 = FuzzyOutcome /\ FuzzySound
        /\ stage1.matched = UtrMatched(bank, settlement) /\ ~ UtrRaises(bank, settlement)
        /\ b \notin stage5.residue_bank
    BY UtrOutcomeFacts DEF Past5, Past1, Past, Classified, IInv, Matching, Accounting
  <2>2. ASSUME NEW m \in stage1.matched, m.bank = b PROVE FALSE
    <3>1. m.utr \in Utrs /\ Compared(bank, settlement, b, m.utr)
      BY <2>1, <2>2 DEF UtrMatched
    <3> QED BY <2>1, <3>1 DEF UtrRaises
  <2>3. b \in stage1.residue_bank
    BY <2>1, <2>2, UtrOutcomeFacts
  <2>4. stage5.residue_bank = stage1.residue_bank
    <3>1. CASE input.use_stage5
      <4>1. Candidates(settlement, UtrOutcome.residue_settlement) = {}
        BY <2>1, <2>3, <3>1 DEF FuzzySound, FuzzyRaises
      <4> QED BY <2>1, <3>1, <4>1, NoCandidates DEF FuzzyOutcome
    <3>2. CASE ~ input.use_stage5
      BY <2>1, <3>2 DEF FuzzyOutcome, StageResult
    <3> QED BY <3>1, <3>2
  <2> QED BY <2>1, <2>3, <2>4
<1> QED BY InvariantHolds, <1>1, PTL

-----------------------------------------------------------------------------
(* Near ties                                                               *)

\* Stage 5 names a batch for a row only if no other scores as well, or if the
\* batch scores below the review threshold.
LEMMA DecisionClear ==
  ASSUME NEW row, NEW s, NEW rows, NEW auto,
         Decision(row, s, rows, auto).bucket \in {"matched", "needs_review"},
         Decision(row, s, rows, auto).utr \in Candidates(s, rows),
         Score(row, s, rows, Decision(row, s, rows, auto).utr) \in Int,
         NEW u \in Candidates(s, rows) \ {Decision(row, s, rows, auto).utr},
         Score(row, s, rows, Decision(row, s, rows, auto).utr) - Score(row, s, rows, u)
            <= AmbiguityMargin
  PROVE  Score(row, s, rows, Decision(row, s, rows, auto).utr) < ReviewThreshold
<1> DEFINE candidates == Candidates(s, rows)
           score == [c \in candidates |-> Score(row, s, rows, c)]
           first == [c \in candidates |-> Min(SpelledGroup(s, rows, c))]
           top == CHOOSE c \in candidates : \A d \in candidates : Precedes(score, first, c, d)
           contested == /\ score[top] >= ReviewThreshold
                        /\ \E d \in candidates \ {top} : score[top] - score[d] <= AmbiguityMargin
           bucket == IF contested THEN "ambiguous"
                     ELSE IF score[top] >= auto THEN "matched"
                     ELSE IF score[top] >= ReviewThreshold THEN "needs_review"
                     ELSE "residue"
<1>1. candidates # {}
  OBVIOUS
<1>2. Decision(row, s, rows, auto) = [bucket |-> bucket, utr |-> top]
  BY <1>1, Zenon DEF Decision
<1>3. bucket \in {"matched", "needs_review"} /\ top = Decision(row, s, rows, auto).utr
  <2> HIDE DEF bucket, top
  <2> QED BY <1>2
<1>4. ~ contested
  <2> HIDE DEF contested
  <2> QED BY <1>3
<1>5. \A d \in candidates : score[d] = Score(row, s, rows, d)
  OBVIOUS
<1> HIDE DEF candidates, score, top
<1>6. top \in candidates /\ u \in candidates \ {top}
  BY <1>3 DEF candidates
<1>7. score[top] - score[u] <= AmbiguityMargin /\ score[top] \in Int
  BY <1>3, <1>5, <1>6
<1>8. ~ (score[top] >= ReviewThreshold)
  BY <1>4, <1>6, <1>7
<1> QED BY <1>3, <1>5, <1>6, <1>7, <1>8, FuzzyAssumption DEF MaxScore

\* What Stage 5 matched or proposed is what it decided for the row, which it could
\* decide because the row has an amount.
LEMMA FuzzyDecided ==
  ASSUME IInv, Past5, NEW m \in stage5.matched \cup stage5.needs_review
  PROVE  LET rs == stage1.residue_settlement
             d == Decision(bank[m.bank], settlement, rs, input.auto_threshold)
         IN  /\ bank[m.bank] \in BankRow /\ bank[m.bank].credit # Blank
             /\ rs \in SUBSET DOMAIN settlement
             /\ m = [bank |-> m.bank, utr |-> d.utr]
             /\ d.bucket \in {"matched", "needs_review"}
             /\ d.utr \in Candidates(settlement, rs)
<1> DEFINE rb == UtrOutcome.residue_bank
           rs == UtrOutcome.residue_settlement
           D(b) == Decision(bank[b], settlement, rs, input.auto_threshold)
<1>1. /\ stage1 = UtrOutcome /\ stage5 = FuzzyOutcome /\ FuzzySound /\ input \in InputRecord
  BY DEF Past5, Past1, Past, IInv, Matching, Control
<1>2. input.use_stage5
  BY <1>1 DEF FuzzyOutcome, StageResult
<1>3. /\ stage5 = MatchFuzzy(bank, settlement, rb, rs, input.auto_threshold)
      /\ ~ FuzzyRaises(bank, settlement, rb, rs)
  BY <1>1, <1>2 DEF FuzzyOutcome, FuzzySound
<1>4. rb \subseteq DOMAIN bank /\ rs \subseteq DOMAIN settlement
  BY UtrOutcomeFacts
<1>5. /\ m.bank \in rb /\ D(m.bank).bucket \in {"matched", "needs_review"}
      /\ m = [bank |-> m.bank, utr |-> D(m.bank).utr]
  <2> DEFINE decision == [b \in rb |-> D(b)]
             In(bucket) == {b \in rb : decision[b].bucket = bucket}
             Put(bucket) == {[bank |-> b, utr |-> decision[b].utr] : b \in In(bucket)}
  <2>1. stage5.matched = Put("matched") /\ stage5.needs_review = Put("needs_review")
    BY <1>3 DEF MatchFuzzy, StageResult
  <2>2. PICK bucket \in {"matched", "needs_review"} : m \in Put(bucket)
    BY <2>1
  <2>3. \A b \in rb : decision[b] = D(b)
    OBVIOUS
  <2> HIDE DEF decision, D
  <2> QED BY <2>2, <2>3
<1>6. bank[m.bank] \in BankRow
  BY <1>1, <1>4, <1>5, InputFacts
<1>7. bank[m.bank].credit # Blank \/ Candidates(settlement, rs) = {}
  BY <1>3, <1>5 DEF FuzzyRaises
<1>8. D(m.bank).utr \in Candidates(settlement, rs)
  <2>1. D(m.bank).bucket # "residue" => D(m.bank).utr \in Candidates(settlement, rs)
    BY <1>1, <1>4, <1>6, <1>7, InputFacts, DecisionFacts
  <2> QED BY <1>5, <2>1
<1> HIDE DEF rb, rs
<1> QED BY <1>1, <1>4, <1>5, <1>6, <1>7, <1>8 DEF rs

\* Stage 5 of the cascade settles a near tie only below the review threshold.
THEOREM NearTiesBelowReview == Spec => []NearTieOnlyBelowReview
<1>1. IInv => NearTieOnlyBelowReview
  <2> DEFINE rs == stage1.residue_settlement
             d(m) == Decision(bank[m.bank], settlement, rs, input.auto_threshold)
  <2> SUFFICES ASSUME IInv, AfterStage5,
                      NEW m \in stage5.matched \cup stage5.needs_review,
                      NEW u \in Candidates(settlement, rs) \ {m.utr},
                      Score(bank[m.bank], settlement, rs, m.utr)
                        - Score(bank[m.bank], settlement, rs, u) <= AmbiguityMargin
               PROVE  Score(bank[m.bank], settlement, rs, m.utr) < ReviewThreshold
    BY DEF NearTieOnlyBelowReview
  <2>1. Past5 /\ input \in InputRecord
    BY DEF AfterStage5, Past5, Past, IInv, Control
  <2>2. /\ bank[m.bank] \in BankRow /\ bank[m.bank].credit # Blank
        /\ rs \in SUBSET DOMAIN settlement
        /\ m = [bank |-> m.bank, utr |-> d(m).utr]
        /\ d(m).bucket \in {"matched", "needs_review"}
        /\ d(m).utr \in Candidates(settlement, rs)
    BY <2>1, FuzzyDecided
  <2>3. m.utr = d(m).utr
    <3> HIDE DEF d
    <3> QED BY <2>2
  <2>4. Score(bank[m.bank], settlement, rs, m.utr) \in Int
    BY <2>1, <2>2, <2>3, InputFacts, ScoreType
  <2> HIDE DEF rs
  <2> QED BY <2>2, <2>3, <2>4, DecisionClear
<1> QED BY InvariantHolds, <1>1, PTL

\* A bank row is matched to one batch at most.
LEMMA OneMatchPerRow ==
  ASSUME IInv, Past5, NEW m \in BatchMatches, NEW n \in BatchMatches, m.bank = n.bank
  PROVE  m = n
<1>1. /\ stage1.matched = UtrMatched(bank, settlement)
      /\ {x.bank : x \in stage1.matched} \cap {x.bank : x \in stage5.matched} = {}
  BY UtrOutcomeFacts, BankPartition DEF Past5, Past1, Past, IInv, Matching
<1>2. CASE m \in stage1.matched /\ n \in stage1.matched
  <2>1. /\ m \in [bank : DOMAIN bank, utr : Utrs] /\ n \in [bank : DOMAIN bank, utr : Utrs]
        /\ m.utr = n.utr
    BY <1>1, <1>2, UtrMatchedFacts
  <2> QED BY <2>1
<1>3. CASE m \in stage5.matched /\ n \in stage5.matched
  <2> DEFINE d(b) == Decision(bank[b], settlement, stage1.residue_settlement, input.auto_threshold)
  <2>1. m = [bank |-> m.bank, utr |-> d(m.bank).utr] /\ n = [bank |-> n.bank, utr |-> d(n.bank).utr]
    BY <1>3, FuzzyDecided
  <2> HIDE DEF d
  <2> QED BY <2>1
<1> QED BY <1>1, <1>2, <1>3 DEF BatchMatches

-----------------------------------------------------------------------------
(* What the stages record                                                  *)

Audited == IF input.use_stage2 THEN {m \in BatchMatches : BatchRows(m) # {}} ELSE {}
Bad == {m \in Audited : MatchCode(m) # "NONE"}

Evaluated == IF input.use_stage4 THEN stage3.matched ELSE {}
Found == {m \in Evaluated : MatchRule(m) # "NONE"}

BridgeFindings == {Exception("bridge", m.bank, MatchCode(m)) : m \in Bad}

TdsFindings == {Exception("tds", m.row, TdsCode(MatchRule(m))) : m \in Found}

ResidueFindings ==
  {Exception("ambiguous", b, "AMBIGUOUS_MATCH") : b \in stage1.ambiguous \cup stage5.ambiguous}
  \cup {Exception("bank_only", b, "BANK_ONLY") : b \in stage5.residue_bank}
  \cup {Exception("ledger_only", l, "LEDGER_ONLY") : l \in stage3.residue_ledger}
  \cup {Exception("settlement_only", i, "SETTLEMENT_ONLY") : i \in stage3.residue_settlement}

\* The run has come past the stage that records the findings.
PastAudit == pc \in {"stage4", "stage6", "account", "done"} \/ Late
PastTds == pc \in {"stage6", "account", "done"}
             \/ error \in {"ValidationError", "InvariantViolation"}

\* Each stage has recorded its findings, and flagged the rows they are about, from
\* the moment it has run, and nothing else is recorded or flagged; a bridge is kept
\* for the batches that were audited.
AsFound ==
  /\ exceptions = (IF PastAudit THEN BridgeFindings ELSE {})
                    \cup (IF PastTds THEN TdsFindings ELSE {})
                    \cup (IF Classified THEN ResidueFindings ELSE {})
  /\ flagged.bank = IF PastAudit THEN {m.bank : m \in Bad} ELSE {}
  /\ flagged.settlement =
       IF PastAudit THEN UNION {SettlementIdsOf(BatchRows(m)) : m \in Bad} ELSE {}
  /\ flagged.order = IF PastTds THEN {m.order : m \in Found} ELSE {}
  /\ DOMAIN bridges = IF PastAudit THEN {m.utr : m \in Audited} ELSE {}

FoundInv == IInv /\ AsFound

LEMMA FindingsFrame ==
  ASSUME UNCHANGED <<input, stage1, stage5, stage3>>
  PROVE  /\ BridgeFindings' = BridgeFindings /\ TdsFindings' = TdsFindings
         /\ ResidueFindings' = ResidueFindings /\ Bad' = Bad /\ Found' = Found
         /\ {m.bank : m \in Bad}' = {m.bank : m \in Bad}
         /\ UNION {SettlementIdsOf(BatchRows(m)) : m \in Bad}'
              = UNION {SettlementIdsOf(BatchRows(m)) : m \in Bad}
         /\ {m.order : m \in Found}' = {m.order : m \in Found}
         /\ {m.utr : m \in Audited}' = {m.utr : m \in Audited}
<1>1. bank' = bank /\ settlement' = settlement /\ ledger' = ledger
  BY Frame
<1>2. Bad' = Bad /\ BridgeFindings' = BridgeFindings
  BY <1>1 DEF Bad, BridgeFindings, Audited, BatchMatches, BatchRows, MatchCode
<1>3. Found' = Found /\ TdsFindings' = TdsFindings
  BY <1>1 DEF Found, TdsFindings, Evaluated, MatchRule
<1>4. ResidueFindings' = ResidueFindings
  BY DEF ResidueFindings
<1>5. UNION {SettlementIdsOf(BatchRows(m)) : m \in Bad}'
        = UNION {SettlementIdsOf(BatchRows(m)) : m \in Bad}
  BY <1>1, <1>2 DEF SettlementIdsOf, BatchRows
<1>6. Audited' = Audited
  BY <1>1 DEF Audited, BatchMatches, BatchRows
<1> QED BY <1>2, <1>3, <1>4, <1>5, <1>6

LEMMA NothingFound == Starts => AsFound
<1> SUFFICES ASSUME Starts PROVE AsFound
  OBVIOUS
<1>1. ~ PastAudit /\ ~ PastTds /\ ~ Classified
  BY DEF Starts, PastAudit, PastTds, Classified, Late
<1> QED BY <1>1 DEF Starts, AsFound

\* A step that records nothing and does not come past a stage that does.
LEMMA NothingNewFound ==
  ASSUME AsFound, UNCHANGED <<exceptions, flagged, bridges>>,
         PastAudit' <=> PastAudit, PastTds' <=> PastTds, Classified' <=> Classified,
         \/ ~ PastAudit /\ ~ PastTds /\ ~ Classified
         \/ UNCHANGED <<input, stage1, stage5, stage3>>
  PROVE  AsFound'
<1>1. CASE UNCHANGED <<input, stage1, stage5, stage3>>
  BY <1>1, FindingsFrame DEF AsFound
<1>2. CASE ~ PastAudit /\ ~ PastTds /\ ~ Classified
  BY <1>2 DEF AsFound
<1> QED BY <1>1, <1>2

LEMMA FoundStep ==
  ASSUME FoundInv, [Next]_vars
  PROVE  AsFound'
<1> USE DEF FoundInv
<1> DEFINE Marks == /\ PastAudit' <=> PastAudit
                    /\ PastTds' <=> PastTds
                    /\ Classified' <=> Classified
<1>0. pc = "raised" <=> error # "none"
  BY DEF IInv, Control
<1>1. ASSUME NEW what \in {"TypeError", "DivisionByZero", "ValidationError", "InvariantViolation"},
             Raise(what),
             \/ what = "TypeError" /\ pc \in {"stage1", "stage5"}
             \/ what = "DivisionByZero" /\ pc = "stage4"
             \/ what = "ValidationError" /\ pc = "stage6"
             \/ what = "InvariantViolation" /\ pc = "account"
      PROVE  AsFound'
  <2>1. Marks
    BY <1>0, <1>1 DEF Raise, PastAudit, PastTds, Classified, Late
  <2> QED BY <1>1, <2>1, NothingNewFound DEF Raise
<1>2. CASE RunStage1 \/ RunStage5 \/ RunStage3
  <2>1. CASE Raise("TypeError")
    <3>1. pc \in {"stage1", "stage5"}
      BY <1>2, <2>1 DEF RunStage1, RunStage5, RunStage3, Raise
    <3> QED BY <1>1, <2>1, <3>1
  <2>2. CASE ~ Raise("TypeError")
    <3>1. /\ pc \in {"stage1", "stage5", "stage3"} /\ pc' \in {"stage5", "stage3", "stage2"}
          /\ UNCHANGED <<exceptions, flagged, bridges, error>>
      BY <1>2, <2>2 DEF RunStage1, RunStage5, RunStage3
    <3>2. Marks /\ ~ PastAudit /\ ~ PastTds /\ ~ Classified
      BY <1>0, <3>1 DEF PastAudit, PastTds, Classified, Late
    <3> QED BY <3>1, <3>2, NothingNewFound
  <2> QED BY <2>1, <2>2
<1>3. CASE AuditBridges
  <2>1. /\ pc = "stage2" /\ pc' = "stage4"
        /\ exceptions' = exceptions \cup BridgeFindings
        /\ flagged' = [flagged EXCEPT
             !.bank = {m.bank : m \in Bad},
             !.settlement = UNION {SettlementIdsOf(BatchRows(m)) : m \in Bad}]
        /\ DOMAIN bridges' = {m.utr : m \in Audited}
        /\ UNCHANGED <<input, stage1, stage5, stage3, report, error>>
    BY <1>3 DEF AuditBridges, BridgeFindings, Bad, Audited
  <2>2. /\ ~ PastAudit /\ ~ PastTds /\ ~ Classified
        /\ PastAudit' /\ ~ PastTds' /\ ~ Classified'
    BY <1>0, <2>1 DEF PastAudit, PastTds, Classified, Late
  <2>3. flagged \in [bank : SUBSET DOMAIN bank, settlement : SUBSET SettlementIds,
                     order : SUBSET OrderIds]
    BY DEF IInv, Recording
  <2>4. /\ flagged'.bank = {m.bank : m \in Bad}
        /\ flagged'.settlement = UNION {SettlementIdsOf(BatchRows(m)) : m \in Bad}
        /\ flagged'.order = flagged.order
    BY <2>1, <2>3
  <2> QED BY <2>1, <2>2, <2>4, FindingsFrame DEF AsFound
<1>4. CASE ValidateTds
  <2>1. CASE \E m \in Evaluated : MatchRule(m) = "ZERO_DIVISION"
    <3>1. pc = "stage4" /\ Raise("DivisionByZero")
      BY <1>4, <2>1 DEF ValidateTds, Evaluated
    <3> QED BY <1>1, <3>1
  <2>2. CASE ~ \E m \in Evaluated : MatchRule(m) = "ZERO_DIVISION"
    <3>1. /\ pc = "stage4" /\ pc' = "stage6"
          /\ exceptions' = exceptions \cup TdsFindings
          /\ flagged' = [flagged EXCEPT !.order = {m.order : m \in Found}]
          /\ UNCHANGED <<input, stage1, stage5, stage3, bridges, report, error>>
      BY <1>4, <2>2 DEF ValidateTds, TdsFindings, Found, Evaluated
    <3>2. /\ PastAudit /\ ~ PastTds /\ ~ Classified
          /\ PastAudit' /\ PastTds' /\ ~ Classified'
      BY <1>0, <3>1 DEF PastAudit, PastTds, Classified, Late
    <3>3. flagged \in [bank : SUBSET DOMAIN bank, settlement : SUBSET SettlementIds,
                       order : SUBSET OrderIds]
      BY DEF IInv, Recording
    <3>4. /\ flagged'.bank = flagged.bank /\ flagged'.settlement = flagged.settlement
          /\ flagged'.order = {m.order : m \in Found}
      BY <3>1, <3>3
    <3> QED BY <3>1, <3>2, <3>4, FindingsFrame DEF AsFound
  <2> QED BY <2>1, <2>2
<1>5. CASE ClassifyResidues
  <2>1. CASE \E b \in stage5.residue_bank : bank[b].credit = Blank
    <3>1. pc = "stage6" /\ Raise("ValidationError")
      BY <1>5, <2>1 DEF ClassifyResidues
    <3> QED BY <1>1, <3>1
  <2>2. CASE ~ \E b \in stage5.residue_bank : bank[b].credit = Blank
    <3>1. /\ pc = "stage6" /\ pc' = "account"
          /\ exceptions' = exceptions \cup ResidueFindings
          /\ UNCHANGED <<input, stage1, stage5, stage3, bridges, flagged, report, error>>
      BY <1>5, <2>2 DEF ClassifyResidues, ResidueFindings
    <3>2. /\ PastAudit /\ PastTds /\ ~ Classified
          /\ PastAudit' /\ PastTds' /\ Classified'
      BY <1>0, <3>1 DEF PastAudit, PastTds, Classified, Late
    <3> QED BY <3>1, <3>2, FindingsFrame DEF AsFound
  <2> QED BY <2>1, <2>2
<1>6. CASE Account
  <2>1. CASE Raise("InvariantViolation")
    BY <1>1, <1>6, <2>1 DEF Account
  <2>2. CASE ~ Raise("InvariantViolation")
    <3>1. /\ pc = "account" /\ pc' = "done"
          /\ UNCHANGED <<input, stage1, stage5, stage3, exceptions, bridges, flagged, error>>
      BY <1>6, <2>2 DEF Account
    <3>2. Marks
      BY <1>0, <3>1 DEF PastAudit, PastTds, Classified, Late
    <3> QED BY <3>1, <3>2, NothingNewFound
  <2> QED BY <2>1, <2>2
<1>7. CASE UNCHANGED vars
  <2>1. Marks
    BY <1>7 DEF vars, PastAudit, PastTds, Classified, Late
  <2> QED BY <1>7, <2>1, NothingNewFound DEF vars
<1> QED BY <1>2, <1>3, <1>4, <1>5, <1>6, <1>7 DEF Next

\* What a run has recorded is what its stages found.
THEOREM RecordsFindings == Spec => []FoundInv
<1>1. Init => FoundInv
  BY InitStarts, InitInvariant, NothingFound DEF FoundInv
<1>2. FoundInv /\ IInv' /\ [Next]_vars => FoundInv'
  BY FoundStep DEF FoundInv
<1> QED BY InvariantHolds, <1>1, <1>2, PTL DEF Spec

-----------------------------------------------------------------------------
(* What follows from it                                                    *)

RowsOf(F, sources) == {e.row : e \in {x \in F : x.source \in sources}}

\* Exceptions of one source and code, one for each of some rows.
Listed(source, code, S) == {Exception(source, r, code) : r \in S}

LEMMA ListedRows ==
  ASSUME NEW source, NEW code, NEW S, NEW sources
  PROVE  RowsOf(Listed(source, code, S), sources) = IF source \in sources THEN S ELSE {}
<1>1. ASSUME NEW r \in S, source \in sources PROVE r \in RowsOf(Listed(source, code, S), sources)
  <2>1. Exception(source, r, code) \in Listed(source, code, S)
    BY DEF Listed
  <2> QED BY <1>1, <2>1 DEF Exception, RowsOf
<1>2. \A e \in Listed(source, code, S) : e.source = source /\ e.row \in S
  BY DEF Exception, Listed
<1> QED BY <1>1, <1>2 DEF RowsOf

\* Which rows the exceptions of a classified run name.
LEMMA NamedRows ==
  ASSUME FoundInv, Classified
  PROVE  /\ Named({"bridge"}) = flagged.bank
         /\ flagged.bank = {m.bank : m \in Bad}
         /\ Named({"bridge", "ambiguous", "bank_only"}) = BankException
         /\ Named({"ambiguous", "bank_only"})
              = stage1.ambiguous \cup stage5.ambiguous \cup stage5.residue_bank
         /\ Named({"ambiguous"}) = stage1.ambiguous \cup stage5.ambiguous
         /\ Named({"settlement_only"}) = stage3.residue_settlement
         /\ Named({"ledger_only"}) = stage3.residue_ledger
         /\ Named({"tds"}) = {m.row : m \in Found}
<1>1. PastAudit /\ PastTds
  BY DEF Classified, PastAudit, PastTds, Late
<1>2. exceptions = BridgeFindings \cup TdsFindings \cup ResidueFindings
  BY <1>1 DEF FoundInv, AsFound
<1>3. \A sources : Named(sources) = RowsOf(BridgeFindings, sources)
                                      \cup RowsOf(TdsFindings, sources)
                                      \cup RowsOf(ResidueFindings, sources)
  BY <1>2 DEF Named, RowsOf
<1>4. \A sources : RowsOf(BridgeFindings, sources)
                     = IF "bridge" \in sources THEN {m.bank : m \in Bad} ELSE {}
  <2> SUFFICES ASSUME NEW sources
               PROVE  RowsOf(BridgeFindings, sources)
                        = IF "bridge" \in sources THEN {m.bank : m \in Bad} ELSE {}
    OBVIOUS
  <2>1. ASSUME NEW m \in Bad, "bridge" \in sources PROVE m.bank \in RowsOf(BridgeFindings, sources)
    <3>1. Exception("bridge", m.bank, MatchCode(m)) \in BridgeFindings
      BY DEF BridgeFindings
    <3> QED BY <2>1, <3>1 DEF Exception, RowsOf
  <2>2. ASSUME NEW e \in BridgeFindings
        PROVE  e.source = "bridge" /\ e.row \in {m.bank : m \in Bad}
    BY DEF BridgeFindings, Exception
  <2> QED BY <2>1, <2>2 DEF RowsOf
<1>5. \A sources : RowsOf(TdsFindings, sources)
                     = IF "tds" \in sources THEN {m.row : m \in Found} ELSE {}
  <2> SUFFICES ASSUME NEW sources
               PROVE  RowsOf(TdsFindings, sources)
                        = IF "tds" \in sources THEN {m.row : m \in Found} ELSE {}
    OBVIOUS
  <2>1. ASSUME NEW m \in Found, "tds" \in sources PROVE m.row \in RowsOf(TdsFindings, sources)
    <3>1. Exception("tds", m.row, TdsCode(MatchRule(m))) \in TdsFindings
      BY DEF TdsFindings
    <3> QED BY <2>1, <3>1 DEF Exception, RowsOf
  <2>2. ASSUME NEW e \in TdsFindings
        PROVE  e.source = "tds" /\ e.row \in {m.row : m \in Found}
    BY DEF TdsFindings, Exception
  <2> QED BY <2>1, <2>2 DEF RowsOf
<1>6. \A sources : RowsOf(ResidueFindings, sources)
        = (IF "ambiguous" \in sources THEN stage1.ambiguous \cup stage5.ambiguous ELSE {})
          \cup (IF "bank_only" \in sources THEN stage5.residue_bank ELSE {})
          \cup (IF "ledger_only" \in sources THEN stage3.residue_ledger ELSE {})
          \cup (IF "settlement_only" \in sources THEN stage3.residue_settlement ELSE {})
  <2> SUFFICES ASSUME NEW sources
               PROVE  RowsOf(ResidueFindings, sources)
                 = (IF "ambiguous" \in sources THEN stage1.ambiguous \cup stage5.ambiguous ELSE {})
                   \cup (IF "bank_only" \in sources THEN stage5.residue_bank ELSE {})
                   \cup (IF "ledger_only" \in sources THEN stage3.residue_ledger ELSE {})
                   \cup (IF "settlement_only" \in sources THEN stage3.residue_settlement ELSE {})
    OBVIOUS
  <2> DEFINE A == Listed("ambiguous", "AMBIGUOUS_MATCH", stage1.ambiguous \cup stage5.ambiguous)
             B == Listed("bank_only", "BANK_ONLY", stage5.residue_bank)
             L == Listed("ledger_only", "LEDGER_ONLY", stage3.residue_ledger)
             S == Listed("settlement_only", "SETTLEMENT_ONLY", stage3.residue_settlement)
  <2>1. /\ RowsOf(A, sources) = IF "ambiguous" \in sources
                                THEN stage1.ambiguous \cup stage5.ambiguous ELSE {}
        /\ RowsOf(B, sources) = IF "bank_only" \in sources THEN stage5.residue_bank ELSE {}
        /\ RowsOf(L, sources) = IF "ledger_only" \in sources THEN stage3.residue_ledger ELSE {}
        /\ RowsOf(S, sources) = IF "settlement_only" \in sources THEN stage3.residue_settlement
                              ELSE {}
    BY ListedRows, Zenon
  <2>2. ResidueFindings = A \cup B \cup L \cup S
    BY Zenon DEF ResidueFindings, Listed
  <2> HIDE DEF A, B, L, S
  <2>3. RowsOf(ResidueFindings, sources)
          = RowsOf(A, sources) \cup RowsOf(B, sources)
              \cup RowsOf(L, sources) \cup RowsOf(S, sources)
    BY <2>2 DEF RowsOf
  <2> QED BY <2>1, <2>3, Zenon
<1>7. flagged.bank = {m.bank : m \in Bad}
  BY <1>1 DEF FoundInv, AsFound
<1>8. Named({"bridge"}) = flagged.bank
  BY <1>3, <1>4, <1>5, <1>6, <1>7
<1>9. /\ Named({"ambiguous", "bank_only"})
           = stage1.ambiguous \cup stage5.ambiguous \cup stage5.residue_bank
      /\ Named({"ambiguous"}) = stage1.ambiguous \cup stage5.ambiguous
      /\ Named({"settlement_only"}) = stage3.residue_settlement
      /\ Named({"ledger_only"}) = stage3.residue_ledger
  BY <1>3, <1>4, <1>5, <1>6
<1>10. Named({"tds"}) = {m.row : m \in Found}
  BY <1>3, <1>4, <1>5, <1>6
<1>11. Named({"bridge", "ambiguous", "bank_only"}) = BankException
  BY <1>3, <1>4, <1>5, <1>6, <1>7 DEF BankException
<1> QED BY <1>7, <1>8, <1>9, <1>10, <1>11

\* The settlement row of an order match names the order.
LEMMA FoundOrders ==
  ASSUME IInv, Past3
  PROVE  /\ \A m \in Found : m.order = settlement[m.row].order_id
         /\ {m.order : m \in Found} = {settlement[i].order_id : i \in {m.row : m \in Found}}
<1>1. stage3 = OrderOutcome
  BY DEF IInv, Matching
<1>2. \A m \in stage3.matched : m.order = settlement[m.row].order_id
  BY <1>1 DEF OrderOutcome, MatchOrder, StageResult, OrderMatched
<1>3. \A m \in Found : m.order = settlement[m.row].order_id
  BY <1>2 DEF Found, Evaluated
<1> HIDE DEF Found
<1> QED BY <1>3

\* A settlement row matched to its order is an exception through its batch only.
LEMMA MatchedToOrder ==
  ASSUME FoundInv, Classified, IdsDistinct, NEW f \in Found,
         \A m \in Bad : f.row \notin BatchRows(m)
  PROVE  settlement[f.row].settlement_id \in SettlementMatched
<1>1. IInv /\ Past3 /\ PastAudit
  BY DEF FoundInv, Classified, Past3, Past, PastAudit, Late
<1>2. stage3 = OrderOutcome
  BY <1>1 DEF IInv, Matching
<1>3. f \in stage3.matched
  BY DEF Found, Evaluated
<1>4. f.row \in DOMAIN settlement
  BY <1>2, <1>3 DEF OrderOutcome, MatchOrder, StageResult, OrderMatched, Payments
<1>5. PICK id : id = settlement[f.row].settlement_id
  OBVIOUS
<1>6. id \notin SettlementIdsOf(stage3.residue_settlement)
  BY <1>2, <1>3, <1>5 DEF OrderOutcome, MatchOrder, StageResult, SettlementIdsOf
<1>7. id \notin flagged.settlement
  <2>1. flagged.settlement = UNION {SettlementIdsOf(BatchRows(m)) : m \in Bad}
    BY <1>1 DEF FoundInv, AsFound
  <2>2. ASSUME NEW m \in Bad PROVE id \notin SettlementIdsOf(BatchRows(m))
    <3>1. BatchRows(m) \subseteq DOMAIN settlement
      BY DEF BatchRows, SpelledGroup
    <3> QED BY <1>4, <1>5, <3>1 DEF IdsDistinct, SettlementIdsOf
  <2> QED BY <2>1, <2>2
<1>8. id \in SettlementIdsOf(DOMAIN settlement)
  BY <1>4, <1>5 DEF SettlementIdsOf
<1> QED BY <1>5, <1>6, <1>7, <1>8 DEF SettlementMatched, SettlementException

\* The rows run_pipeline counts as exceptions and the exceptions it lists agree.
THEOREM ExceptionsAgree == Spec => []ExceptionsMatchTheCount
<1>1. FoundInv => ExceptionsMatchTheCount
  <2> DEFINE badBatches ==
               {BatchRows(m) : m \in {n \in BatchMatches : n.bank \in Named({"bridge"})}}
  <2> SUFFICES ASSUME FoundInv, Classified
               PROVE  /\ BankException = Named({"bridge", "ambiguous", "bank_only"})
                      /\ SettlementException =
                           SettlementIdsOf(Named({"settlement_only"}))
                           \cup UNION {SettlementIdsOf(rows) : rows \in badBatches}
                      /\ LedgerException =
                           OrderIdsOf(Named({"ledger_only"}))
                           \cup {settlement[i].order_id : i \in Named({"tds"})}
                      /\ IdsDistinct =>
                           \A i \in Named({"tds"}) \ UNION badBatches :
                              settlement[i].settlement_id \in SettlementMatched
    BY DEF ExceptionsMatchTheCount
  <2>1. IInv /\ Past5 /\ Past3 /\ PastAudit /\ PastTds
    BY DEF FoundInv, Classified, Past5, Past3, Past, PastAudit, PastTds, Late
  <2>2. badBatches = {BatchRows(m) : m \in Bad}
    <3>1. Bad \subseteq BatchMatches
      BY DEF Bad, Audited
    <3>2. {n \in BatchMatches : n.bank \in Named({"bridge"})} = Bad
      BY <2>1, <3>1, NamedRows, OneMatchPerRow
    <3> QED BY <3>2
  <2> HIDE DEF badBatches
  <2>3. flagged.settlement = UNION {SettlementIdsOf(BatchRows(m)) : m \in Bad}
    BY <2>1 DEF FoundInv, AsFound
  <2>4. SettlementException =
          SettlementIdsOf(Named({"settlement_only"}))
          \cup UNION {SettlementIdsOf(rows) : rows \in badBatches}
    BY <2>2, <2>3, NamedRows DEF SettlementException
  <2>5. flagged.order = {settlement[i].order_id : i \in Named({"tds"})}
    BY <2>1, FoundOrders, NamedRows DEF FoundInv, AsFound
  <2>6. LedgerException =
          OrderIdsOf(Named({"ledger_only"})) \cup {settlement[i].order_id : i \in Named({"tds"})}
    BY <2>5, NamedRows DEF LedgerException
  <2>7. ASSUME IdsDistinct, NEW i \in Named({"tds"}) \ UNION badBatches
        PROVE  settlement[i].settlement_id \in SettlementMatched
    <3>1. PICK f \in Found : f.row = i
      BY NamedRows
    <3>2. \A m \in Bad : f.row \notin BatchRows(m)
      BY <2>2, <2>7, <3>1
    <3> QED BY <2>7, <3>1, <3>2, MatchedToOrder
  <2> QED BY <2>4, <2>6, <2>7, NamedRows
<1> QED BY RecordsFindings, <1>1, PTL

\* The rows an exception of a batch stands for are those whose bridge did not close.
LEMMA FlaggedRows ==
  ASSUME FoundInv, Classified
  PROVE  \A utr : FlaggedUnder(utr) = {b \in DOMAIN bank : [bank |-> b, utr |-> utr] \in Bad}
<1> SUFFICES ASSUME NEW utr
             PROVE  FlaggedUnder(utr) = {b \in DOMAIN bank : [bank |-> b, utr |-> utr] \in Bad}
  OBVIOUS
<1>1. IInv /\ Past5
  BY DEF FoundInv, Classified, Past5, Past, Late
<1>2. \A b : (\E e \in exceptions : e.source = "bridge" /\ e.row = b) <=> b \in Named({"bridge"})
  BY DEF Named
<1>3. Named({"bridge"}) = {m.bank : m \in Bad} /\ Bad \subseteq BatchMatches
  BY NamedRows DEF Bad, Audited
<1>4. ASSUME NEW b \in DOMAIN bank, [bank |-> b, utr |-> utr] \in BatchMatches
      PROVE  b \in {m.bank : m \in Bad} <=> [bank |-> b, utr |-> utr] \in Bad
  BY <1>1, <1>3, <1>4, OneMatchPerRow
<1>5. FlaggedUnder(utr) =
        {b \in DOMAIN bank : [bank |-> b, utr |-> utr] \in BatchMatches /\ b \in Named({"bridge"})}
  BY <1>2 DEF FlaggedUnder
<1> QED BY <1>3, <1>4, <1>5

\* A batch's UTR is contested, for its label, if several rows name it in Stage 1.
LEMMA ContestedClaims ==
  ASSUME FoundInv, Classified, NEW m \in BatchMatches
  PROVE  ContestedUnder(m.utr) = {} <=> \A b, c \in Claims(bank, m.utr) : b = c
<1>1. IInv /\ Past5
  BY DEF FoundInv, Classified, Past5, Past, Late
<1>2. /\ stage1 = UtrOutcome /\ stage5 = FuzzyOutcome /\ FuzzySound /\ input \in InputRecord
      /\ stage1.matched = UtrMatched(bank, settlement)
      /\ stage1.ambiguous = UtrAmbiguous(bank, settlement)
  BY <1>1, UtrOutcomeFacts DEF Past5, Past1, Past, IInv, Matching, Control
<1>3. PICK u \in Utrs : u = m.utr
  BY <1>1, MatchType
<1>4. ContestedUnder(u) = {b \in stage1.ambiguous : ExtractUtr(bank[b].narration) = u}
  <2>1. \A b : (\E e \in exceptions : e.source = "ambiguous" /\ e.row = b)
                 <=> b \in Named({"ambiguous"})
    BY DEF Named
  <2> QED BY <2>1, NamedRows DEF ContestedUnder
<1>5. ContestedUnder(u) =
        {b \in Claims(bank, u) : Group(settlement, u) # {} /\ Claims(bank, u) # {b}}
  BY <1>2, <1>4, UtrAssumption DEF UtrAmbiguous, Claims
<1>6. ASSUME NEW b \in Claims(bank, u), NEW c \in Claims(bank, u), b # c
      PROVE  Group(settlement, u) # {}
  <2>1. CASE m \in stage1.matched
    BY <1>2, <1>3, <1>6, <2>1, UtrMatchedFacts
  <2>2. CASE m \in stage5.matched
    <3>1. PICK i \in stage1.residue_settlement : settlement[i].settlement_utr = u
      BY <1>2, <1>3, <2>2, FuzzyOutcomeFacts
    <3>2. i \in DOMAIN settlement
      BY <1>2, <3>1, UtrOutcomeFacts
    <3>3. bank[b].narration \in Narrations
      <4>1. bank[b] \in BankRow
        BY <1>2, <1>6, InputFacts DEF Claims
      <4> QED BY <4>1 DEF BankRow
    <3>4. Upper[u] = u
      BY <1>3, <1>6, <3>3, NarrationAssumption, UtrAssumption DEF Claims, ExtractUtr
    <3> QED BY <3>1, <3>2, <3>4 DEF Group
  <2> QED BY <2>1, <2>2 DEF BatchMatches
<1>7. ASSUME ContestedUnder(u) = {}, NEW b \in Claims(bank, u), NEW c \in Claims(bank, u), b # c
      PROVE  FALSE
  BY <1>5, <1>6, <1>7
<1>8. ASSUME \A b, c \in Claims(bank, u) : b = c PROVE ContestedUnder(u) = {}
  BY <1>5, <1>8
<1> QED BY <1>3, <1>7, <1>8

\* The label of a batch is a code of the taxonomy if its UTR is contested or one of its
\* bridges is bad.
LEMMA BatchLabels ==
  ASSUME FoundInv, Classified, NEW utr
  PROVE  IF ContestedUnder(utr) = {} /\ FlaggedUnder(utr) = {} THEN BatchLabel(utr) = "CLEAN"
         ELSE BatchLabel(utr) \in Codes
<1>1. CASE ContestedUnder(utr) # {}
  BY <1>1 DEF BatchLabel, Codes
<1>2. CASE ContestedUnder(utr) = {} /\ FlaggedUnder(utr) = {}
  BY <1>2 DEF BatchLabel
<1>3. CASE ContestedUnder(utr) = {} /\ FlaggedUnder(utr) # {}
  <2>1. input \in InputRecord
    BY DEF FoundInv, IInv, Control
  <2>2. FlaggedUnder(utr) \in SUBSET (1..Len(bank)) /\ Len(bank) \in Nat
    BY <2>1, IdsType DEF FlaggedUnder
  <2>3. Max(FlaggedUnder(utr)) \in FlaggedUnder(utr)
    BY <1>3, <2>2, LargestNat
  <2>4. [bank |-> Max(FlaggedUnder(utr)), utr |-> utr] \in Bad
    BY <2>3, FlaggedRows
  <2>5. MatchCode([bank |-> Max(FlaggedUnder(utr)), utr |-> utr]) \in Codes
    BY <2>4, BridgeCodes DEF Bad, MatchCode
  <2>6. BatchLabel(utr) = MatchCode([bank |-> Max(FlaggedUnder(utr)), utr |-> utr])
    BY <1>3 DEF BatchLabel
  <2> QED BY <1>3, <2>5, <2>6
<1> QED BY <1>1, <1>2, <1>3

\* The label of a bank row is decided by the exception that names it, then by its match.
LEMMA BankLabels ==
  ASSUME FoundInv, Classified, NEW b
  PROVE  LET named == b \in stage1.ambiguous \cup stage5.ambiguous \cup stage5.residue_bank
         IN  /\ named => BankLabel(b) \in Codes
             /\ \A m \in BatchMatches :
                   ~ named /\ m.bank = b => BankLabel(b) = BatchLabel(m.utr)
             /\ ~ named /\ b \notin MatchedBankIds =>
                   BankLabel(b) = IF b \in ReviewBankIds THEN "NEEDS_REVIEW" ELSE "CLEAN"
<1> DEFINE names == {e \in exceptions : e.row = b /\ e.source \in {"ambiguous", "bank_only"}}
           utrs == {m.utr : m \in {n \in BatchMatches : n.bank = b}}
           named == b \in stage1.ambiguous \cup stage5.ambiguous \cup stage5.residue_bank
<1>1. IInv /\ Past5
  BY DEF FoundInv, Classified, Past5, Past, Late
<1>2. names # {} <=> named
  <2>1. names # {} <=> b \in Named({"ambiguous", "bank_only"})
    BY DEF Named
  <2> QED BY <2>1, NamedRows
<1>3. BankLabel(b) =
        CASE names # {} -> (CHOOSE e \in names : TRUE).code
          [] names = {} /\ utrs # {} -> BatchLabel(CHOOSE utr \in utrs : TRUE)
          [] names = {} /\ utrs = {} /\ b \in ReviewBankIds -> "NEEDS_REVIEW"
          [] OTHER -> "CLEAN"
  BY DEF BankLabel
<1>4. \A e \in names : e.code \in Codes
  <2>1. exceptions \subseteq [source : Sources, row : Nat, code : Codes]
    BY <1>1 DEF IInv, Recording
  <2> QED BY <2>1
<1>5. ASSUME NEW m \in BatchMatches, m.bank = b PROVE utrs = {m.utr}
  <2>1. \A n \in BatchMatches : n.bank = b => n = m
    BY <1>1, <1>5, OneMatchPerRow
  <2> QED BY <1>5, <2>1
<1>6. utrs = {} <=> b \notin MatchedBankIds
  BY DEF MatchedBankIds
<1> HIDE DEF names, utrs, named
<1>7. named => BankLabel(b) \in Codes
  BY <1>2, <1>3, <1>4
<1>8. ASSUME NEW m \in BatchMatches, ~ named, m.bank = b PROVE BankLabel(b) = BatchLabel(m.utr)
  <2>1. utrs = {m.utr} /\ names = {}
    BY <1>2, <1>5, <1>8
  <2>2. (CHOOSE utr \in utrs : TRUE) = m.utr
    BY <2>1
  <2>3. BankLabel(b) = BatchLabel(CHOOSE utr \in utrs : TRUE)
    BY <1>3, <2>1
  <2> QED BY <2>2, <2>3
<1>9. ~ named /\ b \notin MatchedBankIds =>
         BankLabel(b) = IF b \in ReviewBankIds THEN "NEEDS_REVIEW" ELSE "CLEAN"
  BY <1>2, <1>3, <1>6
<1> QED BY <1>7, <1>8, <1>9 DEF named

\* The labels evaluation/metrics.py scores a run by are the dispositions it reported.
THEOREM LabelsFollow == Spec => []LabelsFollowTheCount
<1>1. FoundInv => LabelsFollowTheCount
  <2> SUFFICES ASSUME FoundInv, pc = "done"
               PROVE  /\ \A b \in BankException : BankLabel(b) \in Codes
                      /\ \A b \in BankReview : BankLabel(b) = "NEEDS_REVIEW"
                      /\ \A m \in BatchMatches :
                           m.bank \in BankMatched =>
                             (BankLabel(m.bank) = "CLEAN"
                                <=> /\ \A b, c \in Claims(bank, m.utr) : b = c
                                    /\ \A n \in BatchMatches :
                                         n.utr = m.utr => n.bank \in BankMatched)
                      /\ LedgerException = LabelledOrders
    BY DEF LabelsFollowTheCount
  <2>0. IInv /\ Classified /\ Past5 /\ Past3 /\ PastAudit /\ PastTds
    BY DEF FoundInv, Classified, Past5, Past3, Past, PastAudit, PastTds, Late
  <2> DEFINE named == stage1.ambiguous \cup stage5.ambiguous \cup stage5.residue_bank
  <2>1. ASSUME NEW b \in BankException PROVE BankLabel(b) \in Codes
    <3>1. CASE b \in named
      BY <2>0, <3>1, BankLabels
    <3>2. CASE b \notin named
      <4>1. PICK m \in Bad : m.bank = b
        BY <2>0, <2>1, <3>2, NamedRows DEF BankException
      <4>2. m \in BatchMatches /\ m \in [bank : DOMAIN bank, utr : Utrs]
        BY <2>0, <4>1, MatchType DEF Bad, Audited
      <4>3. BankLabel(b) = BatchLabel(m.utr)
        BY <2>0, <3>2, <4>1, <4>2, BankLabels
      <4>4. m.bank \in FlaggedUnder(m.utr)
        <5>1. m = [bank |-> m.bank, utr |-> m.utr] /\ m.bank \in DOMAIN bank
          BY <4>2
        <5> QED BY <2>0, <4>1, <5>1, FlaggedRows
      <4> QED BY <2>0, <4>3, <4>4, BatchLabels
    <3> QED BY <3>1, <3>2
  <2>2. ASSUME NEW b \in BankReview PROVE BankLabel(b) = "NEEDS_REVIEW"
    <3>1. b \in ReviewBankIds /\ b \notin named /\ b \notin MatchedBankIds
      BY <2>0, BankPartition DEF BankReview, BankException, MatchedBankIds, BatchMatches
    <3> QED BY <2>0, <3>1, BankLabels
  <2>3. ASSUME NEW m \in BatchMatches, m.bank \in BankMatched
        PROVE  BankLabel(m.bank) = "CLEAN"
                 <=> /\ \A b, c \in Claims(bank, m.utr) : b = c
                     /\ \A n \in BatchMatches : n.utr = m.utr => n.bank \in BankMatched
    <3>1. m.bank \notin named
      BY <2>3 DEF BankMatched, BankException
    <3>2. BankLabel(m.bank) = BatchLabel(m.utr)
      BY <2>0, <3>1, BankLabels
    <3>3. BankLabel(m.bank) = "CLEAN" <=> ContestedUnder(m.utr) = {} /\ FlaggedUnder(m.utr) = {}
      BY <2>0, <3>2, BatchLabels DEF Codes
    <3>4. FlaggedUnder(m.utr) = {}
            <=> \A n \in BatchMatches : n.utr = m.utr => n.bank \in BankMatched
      <4>1. ASSUME NEW n \in BatchMatches, n.utr = m.utr
            PROVE  n.bank \in FlaggedUnder(m.utr) <=> n.bank \notin BankMatched
        <5>1. n \in [bank : DOMAIN bank, utr : Utrs]
          BY <2>0, MatchType
        <5>2. n = [bank |-> n.bank, utr |-> m.utr] /\ n.bank \in DOMAIN bank
          BY <4>1, <5>1
        <5>3. n.bank \in FlaggedUnder(m.utr) <=> n \in Bad
          BY <2>0, <5>2, FlaggedRows
        <5>4. n.bank \in MatchedBankIds /\ n.bank \notin named
          BY <2>0, BankPartition DEF MatchedBankIds, BatchMatches
        <5>5. n.bank \in BankMatched <=> n.bank \notin {x.bank : x \in Bad}
          BY <2>0, <5>4, NamedRows DEF BankMatched, BankException
        <5>6. n.bank \in {x.bank : x \in Bad} <=> n \in Bad
          BY <2>0, OneMatchPerRow DEF Bad, Audited
        <5> QED BY <5>3, <5>5, <5>6
      <4>2. ASSUME NEW b \in FlaggedUnder(m.utr)
            PROVE  \E n \in BatchMatches : n.utr = m.utr /\ n.bank = b
        BY <4>2 DEF FlaggedUnder
      <4> QED BY <4>1, <4>2
    <3> QED BY <2>0, <3>3, <3>4, ContestedClaims
  <2>4. LedgerException = LabelledOrders
    <3>1. LabelledOrders = {settlement[i].order_id : i \in Named({"tds"})}
                             \cup {ledger[l].order_id : l \in Named({"ledger_only"})}
      BY DEF LabelledOrders, Named
    <3>2. flagged.order = {settlement[i].order_id : i \in Named({"tds"})}
      BY <2>0, FoundOrders, NamedRows DEF FoundInv, AsFound
    <3> QED BY <2>0, <3>1, <3>2, NamedRows DEF LedgerException, OrderIdsOf
  <2> QED BY <2>1, <2>2, <2>3, <2>4
<1> QED BY RecordsFindings, <1>1, PTL

-----------------------------------------------------------------------------
(* The abstract run                                                        *)

BankFate(i) ==
  IF i \in BankException THEN "exception"
  ELSE IF i \in BankMatched THEN "matched"
  ELSE IF i \in BankReview THEN "needs_review" ELSE "open"

SettlementFate(i) ==
  IF Classified
    THEN IF settlement[i].settlement_id \in SettlementException THEN "exception" ELSE "matched"
    ELSE "open"

LedgerFate(l) ==
  IF ledger[l].order_id \in LedgerException THEN "exception"
  ELSE IF ledger[l].order_id \in LedgerMatched THEN "matched" ELSE "open"

LEMMA Disjoint ==
  /\ BankMatched \cap BankException = {}
  /\ BankReview \cap (BankException \cup BankMatched) = {}
  /\ LedgerMatched \cap LedgerException = {}
BY DEF BankMatched, BankReview, LedgerMatched

LEMMA Fates ==
  /\ \A i : RowDisposition(<<"bank", i>>) = BankFate(i)
  /\ \A i : RowDisposition(<<"settlement", i>>) = SettlementFate(i)
  /\ \A l : RowDisposition(<<"ledger", l>>) = LedgerFate(l)
<1>1. ASSUME NEW i PROVE RowDisposition(<<"bank", i>>) = BankFate(i)
  BY Disjoint DEF RowDisposition, BankFate
<1>2. ASSUME NEW i PROVE RowDisposition(<<"settlement", i>>) = SettlementFate(i)
  BY DEF RowDisposition, SettlementFate
<1>3. ASSUME NEW i PROVE RowDisposition(<<"ledger", i>>) = LedgerFate(i)
  BY Disjoint DEF RowDisposition, LedgerFate
<1> QED BY <1>1, <1>2, <1>3

LEMMA FatesAfter ==
  /\ \A i : RowDisposition(<<"bank", i>>)' = BankFate(i)'
  /\ \A i : RowDisposition(<<"settlement", i>>)' = SettlementFate(i)'
  /\ \A l : RowDisposition(<<"ledger", l>>)' = LedgerFate(l)'
<1>1. /\ BankMatched' \cap BankException' = {}
      /\ BankReview' \cap (BankException' \cup BankMatched') = {}
      /\ LedgerMatched' \cap LedgerException' = {}
  BY DEF BankMatched, BankReview, LedgerMatched
<1>2. ASSUME NEW i PROVE RowDisposition(<<"bank", i>>)' = BankFate(i)'
  BY <1>1 DEF RowDisposition, BankFate
<1>3. ASSUME NEW i PROVE RowDisposition(<<"settlement", i>>)' = SettlementFate(i)'
  BY DEF RowDisposition, SettlementFate
<1>4. ASSUME NEW i PROVE RowDisposition(<<"ledger", i>>)' = LedgerFate(i)'
  BY <1>1 DEF RowDisposition, LedgerFate
<1> QED BY <1>2, <1>3, <1>4

\* Rows of the abstract run are positions in the three files.
LEMMA RowsOfFiles ==
  ASSUME input \in InputRecord
  PROVE  AllRows = {<<"bank", i>> : i \in DOMAIN bank}
                     \cup {<<"settlement", i>> : i \in DOMAIN settlement}
                     \cup {<<"ledger", l>> : l \in DOMAIN ledger}
BY IdsType DEF AllRows, Side

\* Dispositions depend on what the stages decided and flagged.
LEMMA DispositionsStand ==
  ASSUME UNCHANGED <<input, stage1, stage5, stage3, flagged>>, Classified' <=> Classified
  PROVE  /\ [r \in AllRows |-> RowDisposition(r)]' = [r \in AllRows |-> RowDisposition(r)]
         /\ AllRows' = AllRows
<1>1. bank' = bank /\ settlement' = settlement /\ ledger' = ledger
  BY Frame
<1>2. AllRows' = AllRows
  BY <1>1 DEF AllRows
<1>3. /\ BankException' = BankException /\ BankMatched' = BankMatched
      /\ BankReview' = BankReview
  BY DEF BankException, BankMatched, BankReview, MatchedBankIds, ReviewBankIds, BatchMatches
<1>4. SettlementException' = SettlementException
  BY <1>1 DEF SettlementException, SettlementIdsOf
<1>5. LedgerException' = LedgerException /\ LedgerMatched' = LedgerMatched
  BY <1>1 DEF LedgerException, LedgerMatched, OrderIdsOf
<1>6. \A r \in AllRows : RowDisposition(r)' = RowDisposition(r)
  BY <1>1, <1>3, <1>4, <1>5 DEF RowDisposition
<1> QED BY <1>2, <1>6

\* A step under which no row's fate goes backwards is one of Decide.
LEMMA DecideForward ==
  ASSUME input \in InputRecord, input' = input, report' = report,
         pc \notin {"done", "raised"}, pc' \notin {"done", "raised"},
         \A i \in DOMAIN bank : Abstract!MayBecome(BankFate(i), BankFate(i)'),
         \A i \in DOMAIN settlement : Abstract!MayBecome(SettlementFate(i), SettlementFate(i)'),
         \A l \in DOMAIN ledger : Abstract!MayBecome(LedgerFate(l), LedgerFate(l)')
  PROVE  Abstract!Next
<1> DEFINE disposition == [r \in AllRows |-> RowDisposition(r)]
<1>1. AllRows' = AllRows
  BY Frame DEF AllRows
<1>2. \A r \in AllRows : Abstract!MayBecome(RowDisposition(r), RowDisposition(r)')
  BY Fates, FatesAfter, RowsOfFiles
<1>3. DOMAIN disposition = AllRows /\ DOMAIN disposition' = AllRows
  BY <1>1
<1>4. \A r \in AllRows : disposition[r] = RowDisposition(r) /\ disposition'[r] = RowDisposition(r)'
  BY <1>1
<1>5. \A r \in DOMAIN disposition : Abstract!MayBecome(disposition[r], disposition'[r])
  BY <1>2, <1>3, <1>4
<1>6. Abstract!Decide
  BY <1>3, <1>5 DEF Abstract!Decide
<1> QED BY <1>6 DEF Abstract!Next

\* One that decides nothing and raises is GiveUp.
LEMMA RaiseGivesUp ==
  ASSUME IInv, pc \notin {"done", "raised"}, NEW what, Raise(what),
         what = "InvariantViolation" <=> pc = "account"
  PROVE  Abstract!Next
<1>1. /\ UNCHANGED <<input, stage1, stage5, stage3, exceptions, bridges, flagged, report>>
      /\ pc' = "raised"
  BY DEF Raise
<1>2. Classified' <=> Classified
  BY DEF Raise, Classified, IInv, Control
<1>3. [r \in AllRows |-> RowDisposition(r)]' = [r \in AllRows |-> RowDisposition(r)]
  BY <1>1, <1>2, DispositionsStand
<1>4. Abstract!GiveUp
  BY <1>1, <1>3 DEF Abstract!GiveUp
<1> QED BY <1>4 DEF Abstract!Next

LEMMA AbstractStart == Init => Abstract!Init
<1> SUFFICES ASSUME Init PROVE Abstract!Init
  OBVIOUS
<1>0. input \in InputRecord
  BY InputAssumption DEF Init
<1>1. /\ BankException = {} /\ BankMatched = {} /\ BankReview = {}
      /\ LedgerException = {} /\ LedgerMatched = {} /\ ~ Classified
  BY DEF Init, BankException, BankMatched, BankReview, MatchedBankIds, ReviewBankIds,
     BatchMatches, LedgerException, LedgerMatched, OrderIdsOf, EmptyResult, StageResult, Classified
<1>2. \A r \in AllRows : RowDisposition(r) = "open"
  BY <1>0, <1>1, Fates, RowsOfFiles DEF BankFate, SettlementFate, LedgerFate
<1> QED BY <1>2 DEF Init, Abstract!Init, Abstract!NoReport

-----------------------------------------------------------------------------
(* Its steps                                                               *)

LEMMA BankStands ==
  ASSUME UNCHANGED <<stage1, stage5>>, flagged'.bank = flagged.bank
  PROVE  \A i : BankFate(i)' = BankFate(i)
BY DEF BankFate, BankException, BankMatched, BankReview, MatchedBankIds, ReviewBankIds, BatchMatches

LEMMA LedgerStands ==
  ASSUME UNCHANGED <<input, stage3>>, flagged'.order = flagged.order
  PROVE  \A l : LedgerFate(l)' = LedgerFate(l)
BY Frame DEF LedgerFate, LedgerException, LedgerMatched, OrderIdsOf

\* Until Stage 6 has spoken settlement rows are open, and they stay so in a step
\* after which it has not.
LEMMA SettlementWaits ==
  ASSUME ~ Classified
  PROVE  \A i : Abstract!MayBecome(SettlementFate(i), SettlementFate(i)')
BY DEF SettlementFate, Abstract!MayBecome

LEMMA MayStay ==
  \A fate, other : Abstract!MayBecome(fate, fate) /\ Abstract!MayBecome("open", other)
BY DEF Abstract!MayBecome

LEMMA Stage1Decides ==
  ASSUME FoundInv, RunStage1
  PROVE  Abstract!Next
<1>0. input \in InputRecord /\ pc = "stage1" /\ (pc = "raised" <=> error # "none") /\ IInv
  BY DEF RunStage1, FoundInv, IInv, Control
<1>1. CASE Raise("TypeError")
  BY <1>0, <1>1, RaiseGivesUp
<1>2. CASE ~ Raise("TypeError")
  <2>1. /\ stage1' = UtrOutcome /\ pc' = "stage5"
        /\ UNCHANGED <<input, stage5, stage3, exceptions, bridges, flagged, report, error>>
    BY <1>2 DEF RunStage1, UtrOutcome
  <2>2. ~ Past5 /\ ~ PastAudit /\ ~ Classified
    BY <1>0 DEF Past5, Past, PastAudit, Classified, Late
  <2>3. ASSUME NEW i \in DOMAIN bank PROVE Abstract!MayBecome(BankFate(i), BankFate(i)')
    <3>1. CASE stage1 = UtrOutcome
      BY <2>1, <3>1, BankStands, MayStay
    <3>2. CASE stage1 = EmptyResult
      <4>1. stage5 = EmptyResult /\ flagged.bank = {}
        BY <2>2 DEF FoundInv, IInv, Matching, AsFound
      <4>2. BankFate(i) = "open"
        BY <3>2, <4>1 DEF BankFate, BankException, BankMatched, BankReview, MatchedBankIds,
           ReviewBankIds, BatchMatches, EmptyResult, StageResult
      <4> QED BY <4>2, MayStay
    <3> QED BY <3>1, <3>2 DEF FoundInv, IInv, Matching
  <2>4. \A l \in DOMAIN ledger : Abstract!MayBecome(LedgerFate(l), LedgerFate(l)')
    BY <2>1, LedgerStands, MayStay
  <2> QED BY <1>0, <2>1, <2>2, <2>3, <2>4, SettlementWaits, DecideForward
<1> QED BY <1>1, <1>2

LEMMA Stage5Decides ==
  ASSUME FoundInv, RunStage5
  PROVE  Abstract!Next
<1>0. input \in InputRecord /\ pc = "stage5" /\ (pc = "raised" <=> error # "none") /\ IInv
  BY DEF RunStage5, FoundInv, IInv, Control
<1>1. CASE Raise("TypeError")
  BY <1>0, <1>1, RaiseGivesUp
<1>2. CASE ~ Raise("TypeError")
  <2>1. /\ pc' = "stage3"
        /\ UNCHANGED <<input, stage1, stage3, exceptions, bridges, flagged, report, error>>
    BY <1>2 DEF RunStage5
  <2>2. ~ Past5 /\ ~ PastAudit /\ ~ Classified
    BY <1>0 DEF Past5, Past, PastAudit, Classified, Late
  <2>3. ASSUME NEW i \in DOMAIN bank PROVE Abstract!MayBecome(BankFate(i), BankFate(i)')
    <3>1. stage5 = EmptyResult /\ flagged.bank = {} /\ flagged'.bank = {}
      BY <2>1, <2>2 DEF FoundInv, IInv, Matching, AsFound
    <3>2. CASE i \in stage1.ambiguous
      <4>1. BankFate(i) = "exception" /\ BankFate(i)' = "exception"
        BY <2>1, <3>2 DEF BankFate, BankException
      <4> QED BY <4>1, MayStay
    <3>3. CASE i \notin stage1.ambiguous /\ i \in {m.bank : m \in stage1.matched}
      <4>1. i \in MatchedBankIds /\ i \in MatchedBankIds'
        BY <2>1, <3>3 DEF MatchedBankIds, BatchMatches
      <4>2. i \notin BankException
        BY <3>1, <3>3 DEF BankException, EmptyResult, StageResult
      <4>3. BankFate(i) = "matched" /\ BankFate(i)' \in {"exception", "matched"}
        BY <4>1, <4>2 DEF BankFate, BankMatched
      <4> QED BY <4>3 DEF Abstract!MayBecome
    <3>4. CASE i \notin stage1.ambiguous /\ i \notin {m.bank : m \in stage1.matched}
      <4>1. BankFate(i) = "open"
        BY <3>1, <3>4 DEF BankFate, BankException, BankMatched, BankReview, MatchedBankIds,
           ReviewBankIds, BatchMatches, EmptyResult, StageResult
      <4> QED BY <4>1, MayStay
    <3> QED BY <3>2, <3>3, <3>4
  <2>4. \A l \in DOMAIN ledger : Abstract!MayBecome(LedgerFate(l), LedgerFate(l)')
    BY <2>1, LedgerStands, MayStay
  <2> QED BY <1>0, <2>1, <2>2, <2>3, <2>4, SettlementWaits, DecideForward
<1> QED BY <1>1, <1>2

LEMMA Stage3Decides ==
  ASSUME FoundInv, RunStage3
  PROVE  Abstract!Next
<1>0. input \in InputRecord /\ pc = "stage3" /\ (pc = "raised" <=> error # "none")
  BY DEF RunStage3, FoundInv, IInv, Control
<1>1. /\ pc' = "stage2"
      /\ UNCHANGED <<input, stage1, stage5, exceptions, bridges, flagged, report, error>>
  BY DEF RunStage3
<1>2. ~ Past3 /\ ~ PastTds /\ ~ Classified
  BY <1>0 DEF Past3, Past, PastTds, Classified, Late
<1>3. \A i \in DOMAIN bank : Abstract!MayBecome(BankFate(i), BankFate(i)')
  BY <1>1, BankStands, MayStay
<1>4. ASSUME NEW l \in DOMAIN ledger PROVE Abstract!MayBecome(LedgerFate(l), LedgerFate(l)')
  <2>1. stage3 = EmptyResult /\ flagged.order = {}
    BY <1>2 DEF FoundInv, IInv, Matching, AsFound
  <2>2. LedgerFate(l) = "open"
    BY <2>1 DEF LedgerFate, LedgerException, LedgerMatched, OrderIdsOf, EmptyResult, StageResult
  <2> QED BY <2>2, MayStay
<1> QED BY <1>0, <1>1, <1>2, <1>3, <1>4, SettlementWaits, DecideForward

LEMMA AuditDecides ==
  ASSUME FoundInv, AuditBridges
  PROVE  Abstract!Next
<1>0. /\ input \in InputRecord /\ pc = "stage2" /\ (pc = "raised" <=> error # "none")
      /\ flagged \in [bank : SUBSET DOMAIN bank, settlement : SUBSET SettlementIds,
                      order : SUBSET OrderIds]
  BY DEF AuditBridges, FoundInv, IInv, Control, Recording
<1>1. /\ pc' = "stage4"
      /\ flagged' = [flagged EXCEPT
             !.bank = {m.bank : m \in Bad},
             !.settlement = UNION {SettlementIdsOf(BatchRows(m)) : m \in Bad}]
      /\ UNCHANGED <<input, stage1, stage5, stage3, report, error>>
  BY DEF AuditBridges, Bad, Audited
<1>2. ~ PastAudit /\ ~ Classified
  BY <1>0 DEF PastAudit, Classified, Late
<1>3. flagged.bank = {} /\ flagged'.bank = {m.bank : m \in Bad} /\ flagged'.order = flagged.order
  BY <1>0, <1>1, <1>2 DEF FoundInv, AsFound
<1>4. ASSUME NEW i \in DOMAIN bank PROVE Abstract!MayBecome(BankFate(i), BankFate(i)')
  <2>1. MatchedBankIds' = MatchedBankIds /\ ReviewBankIds' = ReviewBankIds
    BY <1>1 DEF MatchedBankIds, ReviewBankIds, BatchMatches
  <2>2. BankException' = BankException \cup {m.bank : m \in Bad}
    BY <1>1, <1>3 DEF BankException
  <2>3. {m.bank : m \in Bad} \subseteq MatchedBankIds
    BY DEF Bad, Audited, MatchedBankIds
  <2> HIDE DEF Bad
  <2>4. CASE i \in BankException
    BY <2>2, <2>4, MayStay DEF BankFate
  <2>5. CASE i \in BankMatched
    <3>1. BankFate(i) = "matched" /\ BankFate(i)' \in {"exception", "matched"}
      BY <2>1, <2>2, <2>5 DEF BankFate, BankMatched
    <3> QED BY <3>1 DEF Abstract!MayBecome
  <2>6. CASE i \in BankReview
    <3>1. BankFate(i) = "needs_review" /\ BankFate(i)' = "needs_review"
      BY <2>1, <2>2, <2>3, <2>6 DEF BankFate, BankMatched, BankReview
    <3> QED BY <3>1, MayStay
  <2>7. CASE i \notin BankException \cup BankMatched \cup BankReview
    BY <2>7, MayStay DEF BankFate
  <2> QED BY <2>4, <2>5, <2>6, <2>7
<1>5. \A l \in DOMAIN ledger : Abstract!MayBecome(LedgerFate(l), LedgerFate(l)')
  BY <1>1, <1>3, LedgerStands, MayStay
<1> QED BY <1>0, <1>1, <1>2, <1>4, <1>5, SettlementWaits, DecideForward

LEMMA TdsDecides ==
  ASSUME FoundInv, ValidateTds
  PROVE  Abstract!Next
<1>0. /\ input \in InputRecord /\ pc = "stage4" /\ (pc = "raised" <=> error # "none") /\ IInv
      /\ flagged \in [bank : SUBSET DOMAIN bank, settlement : SUBSET SettlementIds,
                      order : SUBSET OrderIds]
  BY DEF ValidateTds, FoundInv, IInv, Control, Recording
<1>1. CASE Raise("DivisionByZero")
  BY <1>0, <1>1, RaiseGivesUp
<1>2. CASE ~ Raise("DivisionByZero")
  <2>1. /\ pc' = "stage6"
        /\ flagged' = [flagged EXCEPT !.order = {m.order : m \in Found}]
        /\ UNCHANGED <<input, stage1, stage5, stage3, bridges, report, error>>
    BY <1>2 DEF ValidateTds, Found, Evaluated
  <2>2. ~ PastTds /\ ~ Classified
    BY <1>0 DEF PastTds, Classified, Late
  <2>3. /\ flagged.order = {} /\ flagged'.order = {m.order : m \in Found}
        /\ flagged'.bank = flagged.bank
    BY <1>0, <2>1, <2>2 DEF FoundInv, AsFound
  <2>4. \A i \in DOMAIN bank : Abstract!MayBecome(BankFate(i), BankFate(i)')
    BY <2>1, <2>3, BankStands, MayStay
  <2>5. ASSUME NEW l \in DOMAIN ledger PROVE Abstract!MayBecome(LedgerFate(l), LedgerFate(l)')
    <3>1. ledger' = ledger /\ LedgerException' = LedgerException \cup {m.order : m \in Found}
      BY <2>1, <2>3, Frame DEF LedgerException, OrderIdsOf
    <3> HIDE DEF Found
    <3>2. CASE ledger[l].order_id \in LedgerException
      BY <3>1, <3>2, MayStay DEF LedgerFate
    <3>3. CASE ledger[l].order_id \in LedgerMatched
      <4>1. LedgerFate(l) = "matched" /\ LedgerFate(l)' \in {"exception", "matched"}
        BY <2>1, <3>1, <3>3 DEF LedgerFate, LedgerMatched
      <4> QED BY <4>1 DEF Abstract!MayBecome
    <3>4. CASE ledger[l].order_id \notin LedgerException \cup LedgerMatched
      BY <3>4, MayStay DEF LedgerFate
    <3> QED BY <3>2, <3>3, <3>4
  <2> QED BY <1>0, <2>1, <2>2, <2>4, <2>5, SettlementWaits, DecideForward
<1> QED BY <1>1, <1>2

LEMMA ClassifyDecides ==
  ASSUME FoundInv, ClassifyResidues
  PROVE  Abstract!Next
<1>0. input \in InputRecord /\ pc = "stage6" /\ (pc = "raised" <=> error # "none") /\ IInv
  BY DEF ClassifyResidues, FoundInv, IInv, Control
<1>1. CASE Raise("ValidationError")
  BY <1>0, <1>1, RaiseGivesUp
<1>2. CASE ~ Raise("ValidationError")
  <2>1. /\ pc' = "account"
        /\ UNCHANGED <<input, stage1, stage5, stage3, bridges, flagged, report, error>>
    BY <1>2 DEF ClassifyResidues
  <2>2. ~ Classified
    BY <1>0 DEF Classified
  <2>3. \A i \in DOMAIN bank : Abstract!MayBecome(BankFate(i), BankFate(i)')
    BY <2>1, BankStands, MayStay
  <2>4. \A l \in DOMAIN ledger : Abstract!MayBecome(LedgerFate(l), LedgerFate(l)')
    BY <2>1, LedgerStands, MayStay
  <2> QED BY <1>0, <2>1, <2>2, <2>3, <2>4, SettlementWaits, DecideForward
<1> QED BY <1>1, <1>2

-----------------------------------------------------------------------------
(* and its report                                                          *)

\* Rows of one file, tagged with the file they are from, are as many as before.
LEMMA TaggedCount ==
  ASSUME NEW side, NEW S, IsFiniteSet(S)
  PROVE  LET T == {<<side, i>> : i \in S}
         IN  IsFiniteSet(T) /\ Cardinality(T) = Cardinality(S)
<1> DEFINE f == [i \in S |-> <<side, i>>]
<1>1. f = [i \in S |-> f[i]] /\ \A i \in S : f[i] = <<side, i>>
  OBVIOUS
<1>2. \A x, y \in S : f[x] = f[y] => x = y
  BY <1>1
<1>3. {f[i] : i \in S} = {<<side, i>> : i \in S}
  BY <1>1
<1> HIDE DEF f
<1>4. IsFiniteSet({f[i] : i \in S}) /\ Cardinality({f[i] : i \in S}) = Cardinality(S)
  BY <1>1, <1>2, ImageOfFinite
<1> QED BY <1>3, <1>4

\* Rows of the three files are counted by adding up.
Sides(B, S, L) ==
  {<<"bank", i>> : i \in B} \cup {<<"settlement", i>> : i \in S} \cup {<<"ledger", l>> : l \in L}

LEMMA SidesCount ==
  ASSUME NEW B, IsFiniteSet(B), NEW S, IsFiniteSet(S), NEW L, IsFiniteSet(L)
  PROVE  Cardinality(Sides(B, S, L)) = Cardinality(B) + Cardinality(S) + Cardinality(L)
<1> DEFINE b == {<<"bank", i>> : i \in B}
           s == {<<"settlement", i>> : i \in S}
           l == {<<"ledger", k>> : k \in L}
<1>1. /\ IsFiniteSet(b) /\ Cardinality(b) = Cardinality(B)
      /\ IsFiniteSet(s) /\ Cardinality(s) = Cardinality(S)
      /\ IsFiniteSet(l) /\ Cardinality(l) = Cardinality(L)
  BY TaggedCount
<1>2. b \cap s = {} /\ (b \cup s) \cap l = {}
  OBVIOUS
<1>3. Sides(B, S, L) = (b \cup s) \cup l
  BY DEF Sides
<1> HIDE DEF b, s, l
<1>4. Cardinality(b) \in Nat /\ Cardinality(s) \in Nat /\ Cardinality(l) \in Nat
  BY <1>1, FS_CardinalityType
<1>5. Cardinality(b \cap s) = 0 /\ Cardinality((b \cup s) \cap l) = 0
  BY <1>2, FS_EmptySet
<1>6. /\ IsFiniteSet(b \cup s)
      /\ Cardinality(b \cup s) = Cardinality(b) + Cardinality(s) - Cardinality(b \cap s)
  BY <1>1, FS_Union
<1>7. Cardinality(b \cup s) = Cardinality(b) + Cardinality(s)
  BY <1>4, <1>5, <1>6
<1>8. Cardinality((b \cup s) \cup l)
        = Cardinality(b \cup s) + Cardinality(l) - Cardinality((b \cup s) \cap l)
  BY <1>1, <1>6, FS_Union
<1>9. Cardinality((b \cup s) \cup l) = Cardinality(b) + Cardinality(s) + Cardinality(l)
  BY <1>4, <1>5, <1>7, <1>8
<1> QED BY <1>1, <1>3, <1>9

\* Where identifiers are distinct, as many rows as identifiers.
LEMMA IdCount ==
  ASSUME NEW D, IsFiniteSet(D), NEW id, id = [x \in D |-> id[x]],
         \A x, y \in D : id[x] = id[y] => x = y,
         NEW A, \A a \in A : \E x \in D : id[x] = a,
         NEW T \in SUBSET D, \A x \in D : x \in T <=> id[x] \in A
  PROVE  IsFiniteSet(T) /\ Cardinality(T) = Cardinality(A)
<1> DEFINE f == [x \in T |-> id[x]]
<1>1. IsFiniteSet(T)
  BY FS_Subset
<1>2. f = [x \in T |-> f[x]] /\ \A x \in T : f[x] = id[x]
  OBVIOUS
<1> HIDE DEF f
<1>3. {f[x] : x \in T} = A
  <2>1. \A x \in T : f[x] \in A
    BY <1>2
  <2>2. ASSUME NEW a \in A PROVE \E x \in T : f[x] = a
    <3>1. PICK x \in D : id[x] = a
      BY <2>2
    <3> QED BY <1>2, <3>1
  <2> QED BY <2>1, <2>2
<1>4. \A x, y \in T : f[x] = f[y] => x = y
  BY <1>2
<1>5. Cardinality({f[x] : x \in T}) = Cardinality(T)
  BY <1>1, <1>2, <1>4, ImageOfFinite
<1> QED BY <1>1, <1>3, <1>5

\* The rows with each fate, in a classified run.
With(what) == {r \in AllRows : RowDisposition(r) = what}

SettlementWith(ids) == {i \in DOMAIN settlement : settlement[i].settlement_id \in ids}
LedgerWith(ids) == {l \in DOMAIN ledger : ledger[l].order_id \in ids}

LEMMA SettlementIdCount ==
  ASSUME input \in InputRecord, IdsDistinct, NEW ids \in SUBSET SettlementIdsOf(DOMAIN settlement)
  PROVE  IsFiniteSet(SettlementWith(ids)) /\ Cardinality(SettlementWith(ids)) = Cardinality(ids)
<1> DEFINE D == DOMAIN settlement
           id == [i \in D |-> settlement[i].settlement_id]
<1>1. IsFiniteSet(D)
  BY InputFacts, PositionsFinite
<1>2. id = [i \in D |-> id[i]] /\ \A i \in D : id[i] = settlement[i].settlement_id
  OBVIOUS
<1>3. \A x \in ids : \E i \in D : id[i] = x
  BY DEF SettlementIdsOf
<1>4. \A i, j \in D : id[i] = id[j] => i = j
  BY DEF IdsDistinct
<1>5. SettlementWith(ids) \in SUBSET D /\ \A i \in D : i \in SettlementWith(ids) <=> id[i] \in ids
  BY DEF SettlementWith
<1> HIDE DEF D, id
<1> QED BY <1>1, <1>2, <1>3, <1>4, <1>5, IdCount

LEMMA LedgerIdCount ==
  ASSUME input \in InputRecord, IdsDistinct, NEW ids \in SUBSET OrderIdsOf(DOMAIN ledger)
  PROVE  IsFiniteSet(LedgerWith(ids)) /\ Cardinality(LedgerWith(ids)) = Cardinality(ids)
<1> DEFINE D == DOMAIN ledger
           id == [l \in D |-> ledger[l].order_id]
<1>1. IsFiniteSet(D)
  BY InputFacts, PositionsFinite
<1>2. id = [l \in D |-> id[l]] /\ \A l \in D : id[l] = ledger[l].order_id
  OBVIOUS
<1>3. \A x \in ids : \E l \in D : id[l] = x
  BY DEF OrderIdsOf
<1>4. \A l, k \in D : id[l] = id[k] => l = k
  BY DEF IdsDistinct
<1>5. LedgerWith(ids) \in SUBSET D /\ \A l \in D : l \in LedgerWith(ids) <=> id[l] \in ids
  BY DEF LedgerWith
<1> HIDE DEF D, id
<1> QED BY <1>1, <1>2, <1>3, <1>4, <1>5, IdCount

\* The identifiers counted are those of the files.
LEMMA IdsOfFiles ==
  ASSUME IInv, Past3
  PROVE  /\ SettlementException \subseteq SettlementIdsOf(DOMAIN settlement)
         /\ SettlementMatched = SettlementIdsOf(DOMAIN settlement) \ SettlementException
         /\ LedgerException \subseteq OrderIdsOf(DOMAIN ledger)
         /\ LedgerMatched = OrderIdsOf(DOMAIN ledger) \ LedgerException
<1>1. stage3 = OrderOutcome /\ input \in InputRecord
  BY DEF IInv, Matching, Control
<1>2. SettlementIdsOf(stage3.residue_settlement) \subseteq SettlementIdsOf(DOMAIN settlement)
  <2>1. stage3.residue_settlement \subseteq DOMAIN settlement
    BY <1>1, OrderOutcomeFacts DEF OrderResults
  <2> QED BY <2>1 DEF SettlementIdsOf
<1>3. flagged.settlement \subseteq SettlementIdsOf(DOMAIN settlement)
      /\ flagged.order \subseteq {m.order : m \in stage3.matched}
  BY DEF IInv, Recording
<1>4. OrderIdsOf(DOMAIN ledger)
        = {m.order : m \in stage3.matched} \cup OrderIdsOf(stage3.residue_ledger)
  BY <1>1, OrderOutcomeFacts
<1> QED BY <1>2, <1>3, <1>4
     DEF SettlementException, SettlementMatched, LedgerException, LedgerMatched

LEMMA BankRowsCovered ==
  ASSUME IInv, Past3
  PROVE  DOMAIN bank = BankException \cup BankMatched \cup BankReview
<1>1. Past5
  BY DEF Past3, Past5, Past
<1>2. DOMAIN bank = MatchedBankIds \cup ReviewBankIds \cup stage1.ambiguous
                    \cup stage5.ambiguous \cup stage5.residue_bank
  BY <1>1, BankPartition DEF MatchedBankIds, BatchMatches
<1>3. flagged.bank \subseteq MatchedBankIds
  BY DEF IInv, Recording
<1> QED BY <1>2, <1>3 DEF BankException, BankMatched, BankReview

LEMMA RowsByFate ==
  ASSUME IInv, Past3, Classified
  PROVE  /\ With("open") = {}
         /\ With("needs_review") = Sides(BankReview, {}, {})
         /\ With("matched") = Sides(BankMatched, SettlementWith(SettlementMatched),
                                  LedgerWith(LedgerMatched))
         /\ With("exception") = Sides(BankException, SettlementWith(SettlementException),
                                  LedgerWith(LedgerException))
<1>0. input \in InputRecord
  BY DEF IInv, Control
<1>1. \A i \in DOMAIN bank :
         /\ RowDisposition(<<"bank", i>>) \in {"exception", "matched", "needs_review"}
         /\ RowDisposition(<<"bank", i>>) = "exception" <=> i \in BankException
         /\ RowDisposition(<<"bank", i>>) = "matched" <=> i \in BankMatched
         /\ RowDisposition(<<"bank", i>>) = "needs_review" <=> i \in BankReview
  BY Fates, Disjoint, BankRowsCovered DEF BankFate
<1>2. \A i \in DOMAIN settlement :
         /\ RowDisposition(<<"settlement", i>>) \in {"exception", "matched"}
         /\ RowDisposition(<<"settlement", i>>) = "exception"
              <=> i \in SettlementWith(SettlementException)
         /\ RowDisposition(<<"settlement", i>>) = "matched"
              <=> i \in SettlementWith(SettlementMatched)
  BY Fates, IdsOfFiles DEF SettlementFate, SettlementWith, SettlementIdsOf
<1>3. \A l \in DOMAIN ledger :
         /\ RowDisposition(<<"ledger", l>>) \in {"exception", "matched"}
         /\ RowDisposition(<<"ledger", l>>) = "exception" <=> l \in LedgerWith(LedgerException)
         /\ RowDisposition(<<"ledger", l>>) = "matched" <=> l \in LedgerWith(LedgerMatched)
  BY Fates, IdsOfFiles DEF LedgerFate, LedgerWith, OrderIdsOf
<1>4. /\ AllRows = {<<"bank", i>> : i \in DOMAIN bank}
                     \cup {<<"settlement", i>> : i \in DOMAIN settlement}
                     \cup {<<"ledger", l>> : l \in DOMAIN ledger}
      /\ BankException \cup BankMatched \cup BankReview = DOMAIN bank
      /\ \A ids : SettlementWith(ids) \subseteq DOMAIN settlement
      /\ \A ids : LedgerWith(ids) \subseteq DOMAIN ledger
  BY <1>0, RowsOfFiles, BankRowsCovered DEF SettlementWith, LedgerWith
<1>5. With("open") = {}
  BY <1>1, <1>2, <1>3, <1>4 DEF With
<1>6. With("needs_review") = Sides(BankReview, {}, {})
  BY <1>1, <1>2, <1>3, <1>4 DEF With, Sides
<1>7. With("matched")
        = Sides(BankMatched, SettlementWith(SettlementMatched), LedgerWith(LedgerMatched))
  BY <1>1, <1>2, <1>3, <1>4 DEF With, Sides
<1>8. With("exception")
        = Sides(BankException, SettlementWith(SettlementException), LedgerWith(LedgerException))
  BY <1>1, <1>2, <1>3, <1>4 DEF With, Sides
<1> QED BY <1>5, <1>6, <1>7, <1>8

\* What a run reports is the number of rows of each disposition.
LEMMA ReportIsTheCount ==
  ASSUME IInv, Past3, Classified, IdsDistinct
  PROVE  /\ With("open") = {}
         /\ Counts = [matched |-> Cardinality(With("matched")),
                      needs_review |-> Cardinality(With("needs_review")),
                      exception |-> Cardinality(With("exception"))]
<1>0. input \in InputRecord
  BY DEF IInv, Control
<1>1. IsFiniteSet(BankException) /\ IsFiniteSet(BankMatched) /\ IsFiniteSet(BankReview)
  <2>1. IsFiniteSet(DOMAIN bank)
    BY <1>0, InputFacts, PositionsFinite
  <2> QED BY <2>1, BankRowsCovered, FS_Subset
<1>2. /\ IsFiniteSet(SettlementWith(SettlementMatched))
      /\ Cardinality(SettlementWith(SettlementMatched)) = Cardinality(SettlementMatched)
      /\ IsFiniteSet(SettlementWith(SettlementException))
      /\ Cardinality(SettlementWith(SettlementException)) = Cardinality(SettlementException)
  BY <1>0, IdsOfFiles, SettlementIdCount
<1>3. /\ IsFiniteSet(LedgerWith(LedgerMatched))
      /\ Cardinality(LedgerWith(LedgerMatched)) = Cardinality(LedgerMatched)
      /\ IsFiniteSet(LedgerWith(LedgerException))
      /\ Cardinality(LedgerWith(LedgerException)) = Cardinality(LedgerException)
  BY <1>0, IdsOfFiles, LedgerIdCount
<1>4. Cardinality(With("matched")) = Counts.matched
  <2>1. Cardinality(With("matched"))
          = Cardinality(BankMatched) + Cardinality(SettlementWith(SettlementMatched))
              + Cardinality(LedgerWith(LedgerMatched))
    BY <1>1, <1>2, <1>3, RowsByFate, SidesCount
  <2> QED BY <1>2, <1>3, <2>1 DEF Counts
<1>5. Cardinality(With("exception")) = Counts.exception
  <2>1. Cardinality(With("exception"))
          = Cardinality(BankException) + Cardinality(SettlementWith(SettlementException))
              + Cardinality(LedgerWith(LedgerException))
    BY <1>1, <1>2, <1>3, RowsByFate, SidesCount
  <2> QED BY <1>2, <1>3, <2>1 DEF Counts
<1>6. Cardinality(With("needs_review")) = Counts.needs_review
  <2>1. Cardinality(With("needs_review")) = Cardinality(BankReview) + 0 + 0
    BY <1>1, RowsByFate, SidesCount, FS_EmptySet
  <2> QED BY <1>1, <2>1, FS_CardinalityType DEF Counts
<1>7. Counts = [matched |-> Counts.matched, needs_review |-> Counts.needs_review,
                exception |-> Counts.exception]
  BY DEF Counts
<1> QED BY <1>4, <1>5, <1>6, <1>7, RowsByFate

\* Module Dispositions counts with the operator of its own FiniteSets.
LEMMA SameCardinality ==
  ASSUME NEW S
  PROVE  Abstract!Cardinality(S) = Cardinality(S)
BY DEF Abstract!Cardinality, Cardinality

LEMMA AccountFinishes ==
  ASSUME FoundInv, Account
  PROVE  Abstract!Next
<1>0. /\ pc = "account" /\ IInv /\ Past3 /\ Classified
  BY DEF Account, FoundInv, Past3, Past, Classified
<1>1. CASE Raise("InvariantViolation")
  BY <1>0, <1>1, RaiseGivesUp
<1>2. CASE ~ Raise("InvariantViolation")
  <2>1. /\ pc' = "done" /\ report' = Counts
        /\ UNCHANGED <<input, stage1, stage5, stage3, exceptions, bridges, flagged, error>>
        /\ Counts.matched + Counts.needs_review + Counts.exception = TotalInputRows
    BY <1>2 DEF Account
  <2>2. Classified' <=> Classified
    BY <1>0, <2>1 DEF Classified
  <2>3. [r \in AllRows |-> RowDisposition(r)]' = [r \in AllRows |-> RowDisposition(r)]
    BY <2>1, <2>2, DispositionsStand
  <2>4. IdsDistinct
    BY <1>0, <2>1, CountsAddUp
  <2>5. /\ With("open") = {}
        /\ report' = [matched |-> Cardinality(With("matched")),
                      needs_review |-> Cardinality(With("needs_review")),
                      exception |-> Cardinality(With("exception"))]
    BY <1>0, <2>1, <2>4, ReportIsTheCount
  <2>6. /\ Abstract!RowsWith("open") = With("open")
        /\ Abstract!RowsWith("matched") = With("matched")
        /\ Abstract!RowsWith("needs_review") = With("needs_review")
        /\ Abstract!RowsWith("exception") = With("exception")
    BY DEF Abstract!RowsWith, With
  <2>7. /\ Abstract!RowsWith("open") = {}
        /\ report' = [matched |-> Abstract!Cardinality(Abstract!RowsWith("matched")),
                      needs_review |-> Abstract!Cardinality(Abstract!RowsWith("needs_review")),
                      exception |-> Abstract!Cardinality(Abstract!RowsWith("exception"))]
    BY <2>5, <2>6, SameCardinality
  <2>8. Abstract!Finish
    BY <1>0, <2>1, <2>3, <2>7 DEF Abstract!Finish
  <2> QED BY <2>8 DEF Abstract!Next
<1> QED BY <1>1, <1>2

LEMMA AbstractStutter ==
  ASSUME UNCHANGED vars
  PROVE  UNCHANGED Abstract!vars
<1>1. Classified' <=> Classified
  BY DEF vars, Classified
<1>2. [r \in AllRows |-> RowDisposition(r)]' = [r \in AllRows |-> RowDisposition(r)]
  BY <1>1, DispositionsStand DEF vars
<1> QED BY <1>2 DEF vars, Abstract!vars

\* run_pipeline implements the abstract run of module Dispositions: rows are decided
\* forward only, an exception is never taken back nor a proposal promoted, and the
\* report of a completed run counts the rows of each disposition and leaves none out.
THEOREM PromiseKept == Spec => KeepsThePromise
<1>1. Init => Abstract!Init
  BY AbstractStart
<1>2. FoundInv /\ [Next]_vars => [Abstract!Next]_Abstract!vars
  BY Stage1Decides, Stage5Decides, Stage3Decides, AuditDecides, TdsDecides, ClassifyDecides,
     AccountFinishes, AbstractStutter DEF Next
<1> QED BY RecordsFindings, <1>1, <1>2, PTL DEF Spec, KeepsThePromise, Abstract!Spec

-----------------------------------------------------------------------------
(* Rounding, rates and the two ways to sum a batch                         *)

LEMMA AbsBound ==
  ASSUME NEW x \in Int, NEW k \in Int
  PROVE  /\ Abs(x) \in Nat
         /\ Abs(x) <= k <=> -k <= x /\ x <= k
BY DEF Abs

\* The whole part of a quotient.
LEMMA DivBounds ==
  ASSUME NEW a \in Nat, NEW b \in Nat, b > 0
  PROVE  a \div b \in Nat /\ b * (a \div b) <= a /\ a < b * (a \div b) + b
OBVIOUS

\* HalfUp is within one half of the quotient it rounds.
LEMMA HalfUpBounds ==
  ASSUME NEW n \in Int, NEW d \in Int, d > 0
  PROVE  /\ HalfUp(n, d) \in Int
         /\ 2 * n - d <= 2 * (d * HalfUp(n, d))
         /\ 2 * (d * HalfUp(n, d)) <= 2 * n + d
<1> DEFINE a == 2 * Abs(n) + d
           b == 2 * d
           q == a \div b
<1>1. a \in Nat /\ b \in Nat /\ b > 0 /\ Abs(d) = d
  BY DEF Abs
<1>2. q \in Nat /\ b * q <= a /\ a < b * q + b
  <2> HIDE DEF a, b
  <2> QED BY <1>1, DivBounds
<1>3. b * q = 2 * (d * q) /\ d * (-q) = -(d * q) /\ d * q \in Int
  <2> HIDE DEF q
  <2> QED BY <1>2
<1>4. HalfUp(n, d) = IF n < 0 THEN -q ELSE q
  BY <1>1 DEF HalfUp
<1> DEFINE p == d * q
<1>5. 2 * p <= 2 * Abs(n) + d /\ 2 * Abs(n) + d < 2 * p + 2 * d /\ p \in Int
  BY <1>2, <1>3
<1>6. CASE n < 0
  <2>1. HalfUp(n, d) = -q /\ d * HalfUp(n, d) = -p /\ Abs(n) = -n
    BY <1>3, <1>4, <1>6 DEF Abs
  <2> HIDE DEF p, q
  <2> QED BY <1>2, <1>5, <1>6, <2>1
<1>7. CASE ~ (n < 0)
  <2>1. HalfUp(n, d) = q /\ d * HalfUp(n, d) = p /\ Abs(n) = n
    BY <1>3, <1>4, <1>7 DEF Abs
  <2> HIDE DEF p, q
  <2> QED BY <1>2, <1>5, <1>7, <2>1
<1> QED BY <1>6, <1>7

LEMMA ImpliedBounds ==
  ASSUME NEW part \in Int, NEW whole \in Int, whole > 0
  PROVE  /\ ImpliedRate(part, whole) \in Int
         /\ 20000 * part - whole <= 2 * (whole * ImpliedRate(part, whole))
         /\ 2 * (whole * ImpliedRate(part, whole)) <= 20000 * part + whole
<1>1. PICK n \in Int : n = part * 10000
  OBVIOUS
<1>2. PICK h : h = ImpliedRate(part, whole)
  OBVIOUS
<1>3. h = HalfUp(n, whole)
  BY <1>1, <1>2 DEF ImpliedRate
<1>4. h \in Int /\ 2 * n - whole <= 2 * (whole * h) /\ 2 * (whole * h) <= 2 * n + whole
  BY <1>3, HalfUpBounds
<1>5. 2 * n = 20000 * part
  BY <1>1
<1>6. whole * h \in Int
  BY <1>4
<1>7. 20000 * part - whole <= 2 * (whole * h) /\ 2 * (whole * h) <= 20000 * part + whole
  BY <1>4, <1>5, <1>6
<1> QED BY <1>2, <1>4, <1>7

\* A rate read off two amounts is within the tolerance of the contract only if the
\* part is: in units of 0.0001, rounded.
LEMMA RateWithin ==
  ASSUME NEW part \in Int, NEW whole \in Int, whole > 0, NEW rate \in Int,
         Abs(ImpliedRate(part, whole) - rate) <= RateTolerance
  PROVE  /\ 20000 * part - 2 * (whole * rate) <= 21 * whole
         /\ 2 * (whole * rate) - 20000 * part <= 21 * whole
<1> DEFINE q == ImpliedRate(part, whole)
           p == whole * q
<1>1. /\ q \in Int
      /\ 20000 * part - whole <= 2 * p
      /\ 2 * p <= 20000 * part + whole
  BY ImpliedBounds DEF ImpliedRate
<1>2. rate - 10 <= q /\ q <= rate + 10
  BY <1>1, AbsBound DEF ImpliedRate, RateTolerance
<1>3. whole * (rate - 10) <= whole * q /\ whole * q <= whole * (rate + 10)
  <2> HIDE DEF q
  <2> QED BY <1>1, <1>2
<1>4. /\ whole * (rate - 10) = whole * rate - 10 * whole
      /\ whole * (rate + 10) = whole * rate + 10 * whole
  OBVIOUS
<1>5. whole * rate \in Int /\ p \in Int
  BY <1>1
<1> DEFINE w == whole * rate
<1>6. w - 10 * whole <= p /\ p <= w + 10 * whole
  BY <1>3, <1>4
<1> HIDE DEF p, q, w
<1>7. /\ 20000 * part - 2 * w <= 21 * whole
      /\ 2 * w - 20000 * part <= 21 * whole
  BY <1>1, <1>5, <1>6 DEF w
<1> QED BY <1>7 DEF w

\* Where rule D is silent and rule C fires, the order is small.
LEMMA RuleCIsSmall ==
  ASSUME NEW row \in LedgerRow, TdsRule(row) = "C"
  PROVE  row.gross_amount <= 95714
<1> DEFINE g == row.gross_amount
           t == row.tds_amount
           r == ScheduledRate(row)
           w == g * r
           e == HalfUp(w, 10000)
           q == ImpliedRate(t, g)
           p == g * q
<1> SUFFICES ASSUME g > 0 PROVE g <= 95714
  BY DEF LedgerRow
<1>1. /\ EffectiveCode(row) \in DOMAIN RateWithPan
      /\ ~ (AmountDelta(row) > TdsAmountTolerance)
      /\ RateDelta(row) > TdsRateTolerance
  BY DEF TdsRule
<1>2. g \in Int /\ t \in Int /\ r \in Nat
  BY <1>1, TdsAssumption DEF LedgerRow, ScheduledRate
<1>3. w \in Int
  BY <1>2
<1>4. /\ e \in Int
      /\ 2 * w - 10000 <= 20000 * e
      /\ 20000 * e <= 2 * w + 10000
  <2> HIDE DEF w
  <2>1. e \in Int /\ 2 * w - 10000 <= 2 * (10000 * e) /\ 2 * (10000 * e) <= 2 * w + 10000
    BY <1>3, HalfUpBounds
  <2> HIDE DEF e
  <2> QED BY <1>3, <2>1
<1>5. e - 100 <= t /\ t <= e + 100
  <2>1. Abs(t - e) <= 100
    <3>1. AmountDelta(row) = Abs(t - e)
      BY DEF AmountDelta
    <3>2. Abs(t - e) \in Nat
      <4> HIDE DEF e, t
      <4> QED BY <1>2, <1>4, AbsBound
    <3> HIDE DEF e, t
    <3> QED BY <1>1, <3>1, <3>2 DEF TdsAmountTolerance
  <2> HIDE DEF e, t
  <2> QED BY <1>2, <1>4, <2>1, AbsBound
<1>6. /\ q \in Int
      /\ 20000 * t - g <= 2 * p
      /\ 2 * p <= 20000 * t + g
  <2> HIDE DEF g, t
  <2> QED BY <1>2, ImpliedBounds
<1>7. q >= r + 11 \/ q <= r - 11
  <2>1. RateDelta(row) = Abs(q - r)
    BY DEF RateDelta, ImpliedRate
  <2> HIDE DEF q, r
  <2> QED BY <1>1, <1>2, <1>6, <2>1 DEF TdsRateTolerance, Abs
<1>8. p >= w + 11 * g \/ p <= w - 11 * g
  <2> HIDE DEF q, r, g
  <2>1. g * (r + 11) = g * r + 11 * g /\ g * (r - 11) = g * r - 11 * g
    BY <1>2
  <2>2. q >= r + 11 => g * q >= g * (r + 11)
    BY <1>2, <1>6
  <2>3. q <= r - 11 => g * q <= g * (r - 11)
    BY <1>2, <1>6
  <2> QED BY <1>7, <2>1, <2>2, <2>3
<1>9. p \in Int
  BY <1>2, <1>6
<1> HIDE DEF p, q, w, e, g, t, r
<1> QED BY <1>2, <1>3, <1>4, <1>5, <1>6, <1>8, <1>9

\* The rows a bridge sums, and those that Stages 1 and 5 would sum of them.
Typed(file, rows, type) == {i \in rows : file[i].type = type}
Held(file, rows) == {i \in Typed(file, rows, "payment") : file[i].on_hold}
Active(file, rows) == Typed(file, rows, "payment") \ Held(file, rows)
Chargebacks(file, rows) == {i \in Typed(file, rows, "adjustment") : file[i].dispute_id}
Counted(file, rows) == {i \in rows : file[i].type = "adjustment" => file[i].dispute_id}

Waterfall(file, rows) ==
  Total(file, Typed(file, rows, "payment"), "amount")
    - Total(file, Active(file, rows), "fee") - Total(file, Active(file, rows), "tax")
    + Total(file, Typed(file, rows, "refund"), "amount")
    + Total(file, Chargebacks(file, rows), "amount")
    - Total(file, Held(file, rows), "amount")

\* A total with and without one row.
LEMMA TotalLess ==
  ASSUME NEW file \in Seq(SettlementRow), NEW part \in SUBSET DOMAIN file, NEW y,
         NEW field \in {"amount", "fee", "tax"}
  PROVE  /\ Total(file, part, field) \in Int
         /\ Total(file, part \ {y}, field) \in Int
         /\ part = {} => Total(file, part, field) = 0
         /\ y \in part => Total(file, part, field) = file[y][field] + Total(file, part \ {y}, field)
         /\ y \notin part => Total(file, part, field) = Total(file, part \ {y}, field)
<1>1. IsFiniteSet(part)
  BY PositionsFinite, FS_Subset
<1>2. \A i \in part : file[i][field] \in Int
  BY RowFields
<1>3. /\ Total(file, part, field) \in Int
      /\ part = {} => Total(file, part, field) = 0
      /\ \A i \in part : /\ Total(file, part \ {i}, field) \in Int
                         /\ Total(file, part, field)
                              = file[i][field] + Total(file, part \ {i}, field)
  BY <1>1, <1>2, TotalFacts
<1>4. CASE y \in part
  BY <1>3, <1>4
<1>5. CASE y \notin part
  <2>1. part \ {y} = part
    BY <1>5
  <2> QED BY <1>3, <1>5, <2>1
<1> QED BY <1>4, <1>5

\* The bridge of a batch and the sum over its rows are two ways of adding up one net.
LEMMA TwoSums ==
  ASSUME NEW file \in Seq(SettlementRow), NEW rows \in SUBSET DOMAIN file
  PROVE  Waterfall(file, rows) = Net(file, Counted(file, rows))
<1> DEFINE Failing == {s \in SUBSET rows : Waterfall(file, s) # Net(file, Counted(file, s))}
<1>1. IsFiniteSet(rows)
  BY PositionsFinite, FS_Subset
<1>2. SUFFICES ASSUME Failing # {} PROVE FALSE
  OBVIOUS
<1>3. PICK s \in Failing : \A x \in s : s \ {x} \notin Failing
  <2>1. Failing \in SUBSET (SUBSET rows)
    OBVIOUS
  <2> HIDE DEF Failing
  <2> QED BY <1>1, <1>2, <2>1, MinimalPart
<1>4. s \in SUBSET DOMAIN file /\ Waterfall(file, s) # Net(file, Counted(file, s))
  OBVIOUS
<1> DEFINE pay == Typed(file, s, "payment")
           refund == Typed(file, s, "refund")
           held == Held(file, s)
           active == Active(file, s)
           back == Chargebacks(file, s)
           counted == Counted(file, s)
<1>5. /\ pay \in SUBSET DOMAIN file /\ refund \in SUBSET DOMAIN file
      /\ held \in SUBSET DOMAIN file /\ active \in SUBSET DOMAIN file
      /\ back \in SUBSET DOMAIN file /\ counted \in SUBSET DOMAIN file
  BY <1>4 DEF Typed, Held, Active, Chargebacks, Counted
<1>6. IsFiniteSet(counted) /\ \A i \in counted : RowNet(file[i]) \in Int
  BY <1>5, PositionsFinite, FS_Subset, RowFields
<1>7. CASE s = {}
  <2>1. pay = {} /\ refund = {} /\ held = {} /\ active = {} /\ back = {} /\ counted = {}
    BY <1>7 DEF Typed, Held, Active, Chargebacks, Counted
  <2>2. Net(file, counted) = 0
    BY <1>6, <2>1, NetFacts
  <2> HIDE DEF pay, refund, held, active, back, counted
  <2>3. /\ Total(file, pay, "amount") = 0 /\ Total(file, active, "fee") = 0
        /\ Total(file, active, "tax") = 0 /\ Total(file, refund, "amount") = 0
        /\ Total(file, back, "amount") = 0 /\ Total(file, held, "amount") = 0
    BY <1>5, <2>1, TotalLess
  <2>4. Waterfall(file, s) = 0
    BY <2>3 DEF Waterfall, pay, refund, held, active, back
  <2> QED BY <1>4, <2>2, <2>4 DEF counted
<1>8. CASE s # {}
  <2>1. PICK y \in s : TRUE
    BY <1>8
  <2> DEFINE row == file[y]
  <2>2. Waterfall(file, s \ {y}) = Net(file, Counted(file, s \ {y}))
    <3>1. s \ {y} \notin Failing /\ s \ {y} \in SUBSET rows
      BY <1>3, <2>1
    <3> QED BY <3>1, Zenon
  <2>3. /\ row.amount \in Int /\ row.fee \in Int /\ row.tax \in Int
        /\ row.type \in {"payment", "refund", "adjustment", "other"}
        /\ row.on_hold \in BOOLEAN /\ row.dispute_id \in BOOLEAN
    <3>1. row \in SettlementRow
      BY <1>4, <2>1
    <3> HIDE DEF row
    <3> QED BY <3>1 DEF SettlementRow, RowTypes
  <2>4. /\ y \in pay <=> row.type = "payment"
        /\ y \in held <=> row.type = "payment" /\ row.on_hold
        /\ y \in active <=> row.type = "payment" /\ ~row.on_hold
        /\ y \in refund <=> row.type = "refund"
        /\ y \in back <=> row.type = "adjustment" /\ row.dispute_id
        /\ y \in counted <=> (row.type = "adjustment" => row.dispute_id)
    <3>1. y \in pay <=> row.type = "payment"
      BY <2>1, Zenon DEF Typed
    <3>2. y \in held <=> row.type = "payment" /\ row.on_hold
      BY <2>1, Zenon DEF Typed, Held
    <3>3. y \in active <=> row.type = "payment" /\ ~row.on_hold
      BY <2>1, Zenon DEF Typed, Held, Active
    <3>4. y \in refund <=> row.type = "refund"
      BY <2>1, Zenon DEF Typed
    <3>5. y \in back <=> row.type = "adjustment" /\ row.dispute_id
      BY <2>1, Zenon DEF Typed, Chargebacks
    <3>6. y \in counted <=> (row.type = "adjustment" => row.dispute_id)
      BY <2>1, Zenon DEF Counted
    <3> HIDE DEF pay, refund, held, active, back, counted, row
    <3> QED BY <3>1, <3>2, <3>3, <3>4, <3>5, <3>6, Zenon
  <2> DEFINE netLess == Net(file, counted \ {y})
             Less(part, field) == Total(file, part \ {y}, field)
  <2>5. /\ netLess \in Int
        /\ y \in counted => Net(file, counted) = RowNet(row) + netLess
        /\ y \notin counted => Net(file, counted) = netLess
    <3>1. CASE y \in counted
      BY <1>6, <3>1, NetFacts
    <3>2. CASE y \notin counted
      <4>1. counted \ {y} = counted
        BY <3>2
      <4>2. Net(file, counted) \in Int
        BY <1>5, NetType
      <4> HIDE DEF counted
      <4> QED BY <3>2, <4>1, <4>2
    <3> QED BY <3>1, <3>2
  <2>6. /\ Less(pay, "amount") \in Int /\ Less(active, "fee") \in Int
        /\ Less(active, "tax") \in Int /\ Less(refund, "amount") \in Int
        /\ Less(back, "amount") \in Int /\ Less(held, "amount") \in Int
    <3> HIDE DEF pay, refund, held, active, back, row
    <3> QED BY <1>5, TotalLess
  <2>7. /\ y \in pay => Total(file, pay, "amount") = row.amount + Less(pay, "amount")
        /\ y \in active => Total(file, active, "fee") = row.fee + Less(active, "fee")
        /\ y \in active => Total(file, active, "tax") = row.tax + Less(active, "tax")
        /\ y \in refund => Total(file, refund, "amount") = row.amount + Less(refund, "amount")
        /\ y \in back => Total(file, back, "amount") = row.amount + Less(back, "amount")
        /\ y \in held => Total(file, held, "amount") = row.amount + Less(held, "amount")
    <3> HIDE DEF Failing, pay, refund, held, active, back
    <3>1. y \in pay => Total(file, pay, "amount") = row.amount + Less(pay, "amount")
      BY <1>5, TotalLess
    <3>2. y \in active => Total(file, active, "fee") = row.fee + Less(active, "fee")
      BY <1>5, TotalLess
    <3>3. y \in active => Total(file, active, "tax") = row.tax + Less(active, "tax")
      BY <1>5, TotalLess
    <3>4. y \in refund => Total(file, refund, "amount") = row.amount + Less(refund, "amount")
      BY <1>5, TotalLess
    <3>5. y \in back => Total(file, back, "amount") = row.amount + Less(back, "amount")
      BY <1>5, TotalLess
    <3>6. y \in held => Total(file, held, "amount") = row.amount + Less(held, "amount")
      BY <1>5, TotalLess
    <3> HIDE DEF row, Less
    <3> QED BY <3>1, <3>2, <3>3, <3>4, <3>5, <3>6, Zenon
  <2>8. /\ y \notin pay => Total(file, pay, "amount") = Less(pay, "amount")
        /\ y \notin active => Total(file, active, "fee") = Less(active, "fee")
        /\ y \notin active => Total(file, active, "tax") = Less(active, "tax")
        /\ y \notin refund => Total(file, refund, "amount") = Less(refund, "amount")
        /\ y \notin back => Total(file, back, "amount") = Less(back, "amount")
        /\ y \notin held => Total(file, held, "amount") = Less(held, "amount")
    <3> HIDE DEF Failing, pay, refund, held, active, back
    <3>1. y \notin pay => Total(file, pay, "amount") = Less(pay, "amount")
      BY <1>5, TotalLess
    <3>2. y \notin active => Total(file, active, "fee") = Less(active, "fee")
      BY <1>5, TotalLess
    <3>3. y \notin active => Total(file, active, "tax") = Less(active, "tax")
      BY <1>5, TotalLess
    <3>4. y \notin refund => Total(file, refund, "amount") = Less(refund, "amount")
      BY <1>5, TotalLess
    <3>5. y \notin back => Total(file, back, "amount") = Less(back, "amount")
      BY <1>5, TotalLess
    <3>6. y \notin held => Total(file, held, "amount") = Less(held, "amount")
      BY <1>5, TotalLess
    <3> HIDE DEF row, Less
    <3> QED BY <3>1, <3>2, <3>3, <3>4, <3>5, <3>6, Zenon
  <2>9. /\ Waterfall(file, s \ {y}) =
             Less(pay, "amount") - Less(active, "fee") - Less(active, "tax")
               + Less(refund, "amount") + Less(back, "amount") - Less(held, "amount")
        /\ netLess = Net(file, Counted(file, s \ {y}))
    <3>1. /\ Typed(file, s \ {y}, "payment") = Typed(file, s, "payment") \ {y}
          /\ Typed(file, s \ {y}, "refund") = Typed(file, s, "refund") \ {y}
          /\ Held(file, s \ {y}) = Held(file, s) \ {y}
          /\ Active(file, s \ {y}) = Active(file, s) \ {y}
          /\ Chargebacks(file, s \ {y}) = Chargebacks(file, s) \ {y}
          /\ Counted(file, s \ {y}) = Counted(file, s) \ {y}
      BY DEF Typed, Held, Active, Chargebacks, Counted
    <3> QED BY <3>1, Zenon DEF Waterfall
  <2>10. Waterfall(file, s) =
          Total(file, pay, "amount") - Total(file, active, "fee") - Total(file, active, "tax")
            + Total(file, refund, "amount") + Total(file, back, "amount")
            - Total(file, held, "amount")
    BY DEF Waterfall
  <2>11. RowNet(row) = IF row.type = "payment"
                         THEN (IF row.on_hold THEN 0 ELSE row.amount - row.fee - row.tax)
                         ELSE IF row.type \in {"refund", "adjustment"} THEN row.amount ELSE 0
    BY <2>3 DEF RowNet
  <2>12. Waterfall(file, s) # Net(file, counted)
    BY <1>4
  <2> HIDE DEF pay, refund, held, active, back, counted, row, netLess, Less
  <2>13. PICK p \in Int, f \in Int, t \in Int, r \in Int, b \in Int, h \in Int :
            /\ p = Less(pay, "amount") /\ f = Less(active, "fee") /\ t = Less(active, "tax")
            /\ r = Less(refund, "amount") /\ b = Less(back, "amount") /\ h = Less(held, "amount")
    BY <2>6
  <2>14. PICK amount \in Int, fee \in Int, tax \in Int :
            amount = row.amount /\ fee = row.fee /\ tax = row.tax
    BY <2>3
  <2>15. netLess = p - f - t + r + b - h
    BY <2>2, <2>9, <2>13
  <2>16. CASE y \in held
    <3>1. y \in pay /\ y \in held /\ y \notin active /\ y \notin refund /\ y \notin back
          /\ y \in counted /\ RowNet(row) = 0
      BY <2>3, <2>4, <2>11, <2>16
    <3>2. /\ Total(file, pay, "amount") = amount + p
          /\ Total(file, active, "fee") = f
          /\ Total(file, active, "tax") = t
          /\ Total(file, refund, "amount") = r
          /\ Total(file, back, "amount") = b
          /\ Total(file, held, "amount") = amount + h
      BY <2>7, <2>8, <2>13, <2>14, <3>1
    <3>3. Waterfall(file, s) = p - f - t + r + b - h
      BY <2>10, <3>2
    <3>4. RowNet(row) = 0
      BY <2>14, <3>1
    <3> QED BY <2>5, <2>12, <2>15, <3>1, <3>3, <3>4
  <2>17. CASE y \in active
    <3>1. y \in pay /\ y \notin held /\ y \in active /\ y \notin refund /\ y \notin back
          /\ y \in counted /\ RowNet(row) = row.amount - row.fee - row.tax
      BY <2>3, <2>4, <2>11, <2>17
    <3>2. /\ Total(file, pay, "amount") = amount + p
          /\ Total(file, active, "fee") = fee + f
          /\ Total(file, active, "tax") = tax + t
          /\ Total(file, refund, "amount") = r
          /\ Total(file, back, "amount") = b
          /\ Total(file, held, "amount") = h
      BY <2>7, <2>8, <2>13, <2>14, <3>1
    <3>3. Waterfall(file, s) = (amount - fee - tax) + (p - f - t + r + b - h)
      BY <2>10, <3>2
    <3>4. RowNet(row) = amount - fee - tax
      BY <2>14, <3>1
    <3> QED BY <2>5, <2>12, <2>15, <3>1, <3>3, <3>4
  <2>18. CASE y \in refund
    <3>1. y \notin pay /\ y \notin held /\ y \notin active /\ y \in refund /\ y \notin back
          /\ y \in counted /\ RowNet(row) = row.amount
      BY <2>3, <2>4, <2>11, <2>18
    <3>2. /\ Total(file, pay, "amount") = p
          /\ Total(file, active, "fee") = f
          /\ Total(file, active, "tax") = t
          /\ Total(file, refund, "amount") = amount + r
          /\ Total(file, back, "amount") = b
          /\ Total(file, held, "amount") = h
      BY <2>7, <2>8, <2>13, <2>14, <3>1
    <3>3. Waterfall(file, s) = amount + (p - f - t + r + b - h)
      BY <2>10, <3>2
    <3>4. RowNet(row) = amount
      BY <2>14, <3>1
    <3> QED BY <2>5, <2>12, <2>15, <3>1, <3>3, <3>4
  <2>19. CASE y \in back
    <3>1. y \notin pay /\ y \notin held /\ y \notin active /\ y \notin refund /\ y \in back
          /\ y \in counted /\ RowNet(row) = row.amount
      BY <2>3, <2>4, <2>11, <2>19
    <3>2. /\ Total(file, pay, "amount") = p
          /\ Total(file, active, "fee") = f
          /\ Total(file, active, "tax") = t
          /\ Total(file, refund, "amount") = r
          /\ Total(file, back, "amount") = amount + b
          /\ Total(file, held, "amount") = h
      BY <2>7, <2>8, <2>13, <2>14, <3>1
    <3>3. Waterfall(file, s) = amount + (p - f - t + r + b - h)
      BY <2>10, <3>2
    <3>4. RowNet(row) = amount
      BY <2>14, <3>1
    <3> QED BY <2>5, <2>12, <2>15, <3>1, <3>3, <3>4
  <2>20. CASE y \notin pay /\ y \notin refund /\ y \notin back
    <3>1. y \notin pay /\ y \notin held /\ y \notin active /\ y \notin refund /\ y \notin back
          /\ (y \in counted => RowNet(row) = 0)
      BY <2>3, <2>4, <2>11, <2>20
    <3>2. /\ Total(file, pay, "amount") = p
          /\ Total(file, active, "fee") = f
          /\ Total(file, active, "tax") = t
          /\ Total(file, refund, "amount") = r
          /\ Total(file, back, "amount") = b
          /\ Total(file, held, "amount") = h
      BY <2>7, <2>8, <2>13, <2>14, <3>1
    <3>3. Waterfall(file, s) = netLess
      BY <2>10, <2>15, <3>2
    <3> QED BY <2>5, <2>11, <2>12, <3>1, <3>3
  <2> QED BY <2>3, <2>4, <2>16, <2>17, <2>18, <2>19, <2>20
<1> QED BY <1>7, <1>8

LEMMA BridgeParts ==
  ASSUME NEW file, NEW rows, NEW credit
  PROVE  LET b == Bridge(file, rows, credit)
         IN  /\ b.residual = credit - Waterfall(file, rows)
             /\ b.activeGross = Total(file, Active(file, rows), "amount")
             /\ b.mdr = Total(file, Active(file, rows), "fee")
             /\ b.gst = Total(file, Active(file, rows), "tax")
BY DEF Bridge, Waterfall, Active, Held, Chargebacks, Typed

\* What a run whose matches are decided knows of the credit of a matched row.
LEMMA MatchedCredit ==
  ASSUME IInv, Past5, NEW m \in BatchMatches
  PROVE  /\ m.bank \in DOMAIN bank /\ bank[m.bank].credit \in Int
         /\ BatchRows(m) \in SUBSET DOMAIN settlement
         /\ settlement \in Seq(SettlementRow)
<1>1. input \in InputRecord /\ stage1.matched = UtrMatched(bank, settlement)
      /\ ~ UtrRaises(bank, settlement)
  BY UtrOutcomeFacts DEF Past5, Past1, Past, IInv, Control, Matching
<1>2. bank \in Seq(BankRow) /\ settlement \in Seq(SettlementRow)
  BY <1>1, InputFacts
<1>3. CASE m \in stage1.matched
  <2>1. m \in [bank : DOMAIN bank, utr : Utrs] /\ Compared(bank, settlement, m.bank, m.utr)
    BY <1>1, <1>3 DEF UtrMatched
  <2>2. bank[m.bank].credit # Blank
    BY <1>1, <2>1 DEF UtrRaises
  <2>3. bank[m.bank] \in BankRow
    BY <1>2, <2>1
  <2> QED BY <1>2, <2>1, <2>2, <2>3 DEF BankRow, BatchRows, SpelledGroup
<1>4. CASE m \in stage5.matched
  <2>1. bank[m.bank] \in BankRow /\ bank[m.bank].credit # Blank
    BY <1>4, FuzzyDecided
  <2>2. m.bank \in DOMAIN bank
    <3>1. stage5 = FuzzyOutcome /\ FuzzySound
      BY DEF Past5, IInv, Matching
    <3>2. m \in [bank : DOMAIN bank, utr : Utrs]
      BY <1>1, <1>4, <3>1, FuzzyOutcomeFacts
    <3> QED BY <3>2
  <2> QED BY <1>2, <2>1, <2>2 DEF BankRow, BatchRows, SpelledGroup
<1> QED BY <1>3, <1>4 DEF BatchMatches

\* The bridge of a batch Stage 1 matched closes, for files of any length and batches of
\* any size: the sum by row of stage1_utr.py and the waterfall of stage2_bridge.py are
\* one sum, unless the batch has an adjustment without a dispute or is spelled in
\* several cases.
THEOREM BridgesClose == Spec => []ExactMatchesClose
<1>1. IInv => ExactMatchesClose
  <2> SUFFICES ASSUME IInv, AfterStage2, NEW m \in stage1.matched,
                      SpelledUpper(Group(settlement, m.utr)),
                      \A i \in Group(settlement, m.utr) :
                         settlement[i].type = "adjustment" => settlement[i].dispute_id
               PROVE  Closed(Bridge(settlement, BatchRows(m), bank[m.bank].credit))
    BY DEF ExactMatchesClose
  <2> DEFINE rows == BatchRows(m)
             credit == bank[m.bank].credit
  <2>1. Past5
    BY DEF AfterStage2, Past5, Past, IInv, Control
  <2>2. stage1.matched = UtrMatched(bank, settlement)
    BY <2>1, UtrOutcomeFacts DEF Past5, Past1, Past, IInv, Matching
  <2>3. /\ m.utr \in Utrs /\ m.bank \in DOMAIN bank
        /\ ExtractUtr(bank[m.bank].narration) = m.utr
        /\ Abs(credit - Net(settlement, Group(settlement, m.utr))) <= Tolerance
    BY <2>2, UtrMatchedFacts DEF UtrMatched, WithinTolerance
  <2>4. /\ credit \in Int /\ rows \in SUBSET DOMAIN settlement
        /\ settlement \in Seq(SettlementRow) /\ input \in InputRecord
    BY <2>1, MatchedCredit DEF BatchMatches, IInv, Control
  <2>5. Upper[m.utr] = m.utr
    <3>1. bank[m.bank].narration \in Narrations
      <4>1. bank[m.bank] \in BankRow
        BY <2>3, <2>4, InputFacts
      <4> QED BY <4>1 DEF BankRow
    <3> QED BY <2>3, <3>1, UtrAssumption, NarrationAssumption DEF ExtractUtr
  <2>6. rows = Group(settlement, m.utr)
    BY <2>5 DEF BatchRows, SpelledGroup, Group, SpelledUpper
  <2>7. Counted(settlement, rows) = rows
    BY <2>6 DEF Counted
  <2>8. Waterfall(settlement, rows) = Net(settlement, Group(settlement, m.utr))
    <3> HIDE DEF rows
    <3> QED BY <2>4, <2>6, <2>7, TwoSums
  <2>9. Bridge(settlement, rows, credit).residual = credit - Waterfall(settlement, rows)
    BY BridgeParts
  <2> HIDE DEF rows, credit
  <2> QED BY <2>3, <2>8, <2>9 DEF Closed, rows, credit
<1> QED BY InvariantHolds, <1>1, PTL

\* An audited match that is counted as matched is clean: its credit is the net of its
\* batch to the paisa, undisputed adjustments aside, and the MDR and GST on record are
\* the contracted ones up to the rounding of the tolerance.
THEOREM CleanIsClean == Spec => []CleanMatchesReconcile
<1>1. FoundInv => CleanMatchesReconcile
  <2> SUFFICES ASSUME FoundInv, pc = "done", NEW m \in BatchMatches,
                      m.bank \in BankMatched, m.utr \in DOMAIN bridges
               PROVE  LET rows == BatchRows(m)
                          counted == {i \in rows : settlement[i].type = "adjustment"
                                                     => settlement[i].dispute_id}
                          active == {i \in rows : settlement[i].type = "payment"
                                                     /\ ~settlement[i].on_hold}
                          gross == Total(settlement, active, "amount")
                          mdr == Total(settlement, active, "fee")
                          gst == Total(settlement, active, "tax")
                      IN  /\ Abs(bank[m.bank].credit - Net(settlement, counted)) <= Tolerance
                          /\ gross > 0 => 20 * Abs(1000 * mdr - 20 * gross) <= 21 * gross
                          /\ mdr > 0 => 20 * Abs(1000 * gst - 180 * mdr) <= 21 * mdr
    BY DEF CleanMatchesReconcile
  <2> DEFINE rows == BatchRows(m)
             credit == bank[m.bank].credit
             b == Bridge(settlement, rows, credit)
             counted == {i \in rows : settlement[i].type = "adjustment"
                                        => settlement[i].dispute_id}
             active == {i \in rows : settlement[i].type = "payment"
                                       /\ ~settlement[i].on_hold}
             gross == Total(settlement, active, "amount")
             mdr == Total(settlement, active, "fee")
             gst == Total(settlement, active, "tax")
             net == Net(settlement, counted)
  <2>0. counted = Counted(settlement, rows) /\ active = Active(settlement, rows)
    <3> HIDE DEF rows
    <3> QED BY DEF Counted, Active, Held, Typed
  <2>1. Past5 /\ IInv /\ AsFound /\ PastAudit
    BY DEF FoundInv, PastAudit, Past5, Past, IInv, Control
  <2>2. /\ credit \in Int /\ rows \in SUBSET DOMAIN settlement
        /\ settlement \in Seq(SettlementRow)
    BY <2>1, MatchedCredit
  <2>3. BridgeCode(b) = "NONE"
    <3>1. PICK n \in Audited : n.utr = m.utr
      BY <2>1 DEF AsFound
    <3>2. m \in Audited
      BY <3>1 DEF Audited, BatchRows
    <3>3. m \notin Bad
      BY <2>1 DEF AsFound, BankMatched, BankException
    <3> QED BY <3>2, <3>3 DEF Bad, MatchCode
  <2>4. ~ MdrOffContract(b) /\ ~ GstOffContract(b) /\ Closed(b)
    BY <2>3 DEF BridgeCode, RateVariance, Attribution
  <2>5. /\ b.residual = credit - Waterfall(settlement, rows)
        /\ b.activeGross = gross /\ b.mdr = mdr /\ b.gst = gst
    <3> HIDE DEF rows, active, credit
    <3> QED BY <2>0, BridgeParts
  <2>6. gross \in Int /\ mdr \in Int /\ gst \in Int
    <3>1. active \in SUBSET DOMAIN settlement
      BY <2>2
    <3> HIDE DEF active
    <3> QED BY <2>2, <3>1, TotalLess
  <2>7. Waterfall(settlement, rows) = net
    <3> HIDE DEF rows, counted
    <3> QED BY <2>0, <2>2, TwoSums
  <2> HIDE DEF rows, credit, b, gross, mdr, gst, net
  <2>8. Abs(credit - net) <= Tolerance
    BY <2>4, <2>5, <2>7 DEF Closed
  <2>9. ASSUME gross > 0 PROVE 20 * Abs(1000 * mdr - 20 * gross) <= 21 * gross
    <3>1. RateVariance(b) = "NONE" /\ ~ MdrOffContract(b)
      BY <2>4 DEF RateVariance
    <3>2. Abs(ImpliedRate(mdr, gross) - 200) <= RateTolerance
      <4>1. ImpliedRate(mdr, gross) \in Int
        BY <2>6, <2>9, ImpliedBounds
      <4>2. ~ (Abs(ImpliedRate(mdr, gross) - 200) > RateTolerance)
        BY <2>5, <2>9, <3>1 DEF MdrOffContract, MdrRate
      <4> QED BY <4>1, <4>2, AbsBound DEF RateTolerance
    <3>3. /\ 20000 * mdr - 2 * (gross * 200) <= 21 * gross
          /\ 2 * (gross * 200) - 20000 * mdr <= 21 * gross
      BY <2>6, <2>9, <3>2, RateWithin
    <3> QED BY <2>6, <2>9, <3>3 DEF Abs
  <2>10. ASSUME mdr > 0 PROVE 20 * Abs(1000 * gst - 180 * mdr) <= 21 * mdr
    <3>1. Abs(ImpliedRate(gst, mdr) - 1800) <= RateTolerance
      <4>1. ImpliedRate(gst, mdr) \in Int
        BY <2>6, <2>10, ImpliedBounds
      <4>2. ~ (Abs(ImpliedRate(gst, mdr) - 1800) > RateTolerance)
        BY <2>4, <2>5, <2>10 DEF GstOffContract, GstRate
      <4> QED BY <4>1, <4>2, AbsBound DEF RateTolerance
    <3>2. /\ 20000 * gst - 2 * (mdr * 1800) <= 21 * mdr
          /\ 2 * (mdr * 1800) - 20000 * gst <= 21 * mdr
      BY <2>6, <2>10, <3>1, RateWithin
    <3> QED BY <2>6, <2>10, <3>2 DEF Abs
  <2> QED BY <2>8, <2>9, <2>10, Zenon DEF rows, credit, gross, mdr, gst, net
<1> QED BY RecordsFindings, <1>1, PTL

\* Rule C is left with small orders: whatever the rates, an order above Rs 957.14 whose
\* withheld amount is within rule D's rupee is within rule C's tenth of a percent.
THEOREM RateRuleSmall == Spec => []RateRuleOnSmallOrders
<1>1. IInv => RateRuleOnSmallOrders
  <2> SUFFICES ASSUME IInv, AfterStage2, NEW m \in stage3.matched, MatchRule(m) = "C"
               PROVE  LedgerOf(ledger, m.order).gross_amount <= 95714
    BY DEF RateRuleOnSmallOrders
  <2>1. Past3 /\ input \in InputRecord
    BY DEF AfterStage2, Past3, Past, IInv, Control
  <2>2. m.order \in OrderIdsOf(DOMAIN ledger)
    BY <2>1, OrderOutcomeFacts DEF IInv, Matching
  <2> DEFINE positions == LedgerPositions(ledger, m.order)
  <2>3. positions # {} /\ ledger \in Seq(LedgerRow) /\ positions \in SUBSET (1..Len(ledger))
    BY <2>1, <2>2, InputFacts, PositionsFinite DEF OrderIdsOf, LedgerPositions
  <2>4. Max(positions) \in positions
    <3>1. Len(ledger) \in Nat
      BY <2>3
    <3> HIDE DEF positions
    <3> QED BY <2>3, <3>1, LargestNat
  <2>5. LedgerOf(ledger, m.order) \in LedgerRow
    BY <2>3, <2>4 DEF LedgerOf
  <2> QED BY <2>5, RuleCIsSmall DEF MatchRule
<1> QED BY InvariantHolds, <1>1, PTL
=============================================================================
