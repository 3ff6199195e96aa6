-------------------------- MODULE DiagnosisProofs ---------------------------
(***************************************************************************)
(* A diagnosis is correct for every spectrum, of any size.  At each round  *)
(* of the ranking loop the positions passed so far have the rank at which  *)
(* their run of ties ends; that uses nothing of the scores but that        *)
(* neighbours are tied or not, no transitivity, which the tolerance of the *)
(* code does not have.  That the rank counts the elements which may come   *)
(* before uses the order of the fractions, and that a dominant element is  *)
(* not outranked uses how each of the fourteen methods grows.              *)
(***************************************************************************)
EXTENDS Diagnosis, FunctionTheorems, FiniteSetTheorems, TLAPS

\* The types of order and rank are what makes the ties of all positions
\* well defined.
IInv == TypeOK /\ RankEndsItsTie

\* The width of the matrix, and with it the number of elements, is a number.
LEMMA SizeIsNat == ASSUME TypeOK PROVE Size \in Nat
    BY SpectraAssumption DEF TypeOK, Size

LEMMA InitIInv == Init => IInv
<1> SUFFICES ASSUME Init PROVE IInv
    OBVIOUS
<1>1. Size \in Nat
    BY SpectraAssumption DEF Init, Size
<1> QED BY <1>1 DEF Init, IInv, TypeOK, RankEndsItsTie

\* Scoring leaves the ranks alone.
LEMMA ScoreKeepsIInv == ASSUME IInv, ScoreElements PROVE IInv'
<1>1. Size' = Size /\ Size \in Nat
    BY SizeIsNat DEF IInv, ScoreElements, Size
<1>2. TypeOK'
    BY <1>1 DEF IInv, TypeOK, ScoreElements
<1>3. RankEndsItsTie'
    BY DEF RankEndsItsTie, ScoreElements
<1> QED BY <1>2, <1>3 DEF IInv

\* After the sort no position has been passed.
LEMMA SortKeepsIInv == ASSUME IInv, Sort PROVE IInv'
<1>1. Size' = Size /\ Size \in Nat
    BY SizeIsNat DEF IInv, Sort, Size
<1>2. TypeOK'
    BY <1>1 DEF IInv, TypeOK, Sort
<1>3. RankEndsItsTie'
    BY <1>1 DEF RankEndsItsTie, Sort
<1> QED BY <1>2, <1>3 DEF IInv

\* The last position ends its own tie.
LEMMA RankLastKeepsIInv == ASSUME IInv, RankLast PROVE IInv'
<1>1. Size' = Size /\ Size \in Nat
    BY SizeIsNat DEF IInv, RankLast, Size
<1>2. CASE Size = 0
    BY <1>1, <1>2 DEF IInv, TypeOK, RankEndsItsTie, RankLast
<1>3. CASE Size > 0
    <2>1. /\ rank \in [1..Size -> 0..Size]
          /\ rank' = [rank EXCEPT ![Size] = Size]
          /\ index' = Size - 1
        BY SMTT(30), <1>1, <1>3 DEF IInv, TypeOK, RankLast
    <2>2. TypeOK'
        <3>1. rank' \in [1..Size -> 0..Size] /\ index' \in 0..Size
            BY <1>1, <1>3, <2>1
        <3>2. /\ pc' \in {"rank", "done"}
              /\ UNCHANGED <<spectrum, method, scores, order>> /\ pc = "rank"
            BY <1>3 DEF RankLast
        <3> QED BY <1>1, <3>1, <3>2 DEF IInv, TypeOK
    <2>3. (index' + 1)..Size = {Size} /\ rank'[Size] = Size
        BY <1>1, <1>3, <2>1
    <2>4. RankEndsItsTie'
        BY <1>1, <2>3 DEF RankEndsItsTie
    <2> QED BY <2>2, <2>4 DEF IInv
<1> QED BY <1>1, <1>2, <1>3

\* One round extends the run of ties of its neighbour, or starts a new one.
LEMMA RankNextKeepsIInv == ASSUME IInv, RankNext PROVE IInv'
<1>1. /\ Size' = Size /\ Size \in Nat
      /\ \A p : Tied(p)' = Tied(p)
    BY SizeIsNat DEF IInv, RankNext, Size, Tied
<1>2. /\ rank \in [1..Size -> 0..Size]
      /\ index \in 1..(Size - 1) /\ index' = index - 1 /\ pc = "rank"
    BY DEF IInv, TypeOK, RankNext
<1>3. \A p \in (index + 1)..Size :
        /\ rank[p] \in p..Size
        /\ \A q \in p..(rank[p] - 1) : Tied(q)
        /\ rank[p] < Size => ~Tied(rank[p])
    BY <1>2 DEF IInv, RankEndsItsTie
<1>4. /\ rank'[index] = IF Tied(index) THEN rank[index + 1] ELSE index
      /\ \A p \in (index + 1)..Size : rank'[p] = rank[p]
      /\ rank' \in [1..Size -> 0..Size]
    <2>1. index + 1 \in 1..Size /\ rank[index + 1] \in 0..Size /\ index \in 0..Size
        BY <1>1, <1>2
    <2> QED BY <1>1, <1>2, <2>1 DEF RankNext
<1>5. TypeOK'
    <2>1. /\ pc' \in {"rank", "done"}
          /\ UNCHANGED <<spectrum, method, scores, order>>
        BY DEF RankNext
    <2>2. index' \in 0..Size
        BY <1>1, <1>2
    <2> QED BY <1>1, <1>2, <1>4, <2>1, <2>2 DEF IInv, TypeOK
<1>6. ASSUME NEW p \in (index' + 1)..Size
      PROVE  /\ rank'[p] \in p..Size
             /\ \A q \in p..(rank'[p] - 1) : Tied(q)
             /\ rank'[p] < Size => ~Tied(rank'[p])
    <2>1. CASE p \in (index + 1)..Size
        BY <1>3, <1>4, <2>1
    <2>2. CASE p = index /\ Tied(index)
        <3>1. index + 1 \in (index + 1)..Size
            BY <1>1, <1>2
        <3>2. rank'[p] = rank[index + 1] /\ rank[index + 1] \in (index + 1)..Size
            BY <1>3, <1>4, <2>2, <3>1
        <3>3. ASSUME NEW q \in p..(rank'[p] - 1) PROVE Tied(q)
            <4>1. q = index \/ q \in (index + 1)..(rank[index + 1] - 1)
                BY <1>1, <1>2, <2>2, <3>2
            <4> QED BY <1>3, <2>2, <3>1, <4>1
        <3>4. rank'[p] < Size => ~Tied(rank'[p])
            BY <1>3, <3>1, <3>2
        <3> QED BY <1>1, <1>2, <2>2, <3>2, <3>3, <3>4
    <2>3. CASE p = index /\ ~Tied(index)
        BY <1>1, <1>2, <1>4, <2>3
    <2> QED BY <1>1, <1>2, <2>1, <2>2, <2>3
<1>7. RankEndsItsTie'
    BY <1>1, <1>6 DEF RankEndsItsTie
<1> QED BY <1>5, <1>7 DEF IInv

LEMMA StutterKeepsIInv == ASSUME IInv, UNCHANGED vars PROVE IInv'
    BY DEF IInv, TypeOK, RankEndsItsTie, Tied, Size, vars

\* The inductive invariant of a diagnosis.
THEOREM Invariant == Spec => []IInv
<1>1. Init => IInv
    BY InitIInv
<1>2. IInv /\ [Next]_vars => IInv'
    BY ScoreKeepsIInv, SortKeepsIInv, RankLastKeepsIInv, RankNextKeepsIInv, StutterKeepsIInv DEF Next
<1> QED BY <1>1, <1>2, PTL DEF Spec

\* Every state of a diagnosis has its types, whatever the spectrum.
THEOREM TypeCorrect == Spec => []TypeOK
<1>1. IInv => TypeOK
    BY DEF IInv
<1> QED BY <1>1, Invariant, PTL

\* rankSuspicion gives every position the end of its run of ties, whatever
\* the scores are and whether or not being tied is transitive.
THEOREM RanksAreTieEnds == Spec => []RankEndsItsTie
<1>1. IInv => RankEndsItsTie
    BY DEF IInv
<1> QED BY <1>1, Invariant, PTL

-----------------------------------------------------------------------------
(* The order of the scores.                                                *)

\* Score x is at least score y.
AtLeast(x, y) == ~Higher(y, x)

LEMMA TimesKeepsOrder ==
    ASSUME NEW m \in Int, NEW n \in Int, m <= n, NEW k \in Nat
    PROVE  m * k <= n * k
    OBVIOUS

LEMMA TimesCancels ==
    ASSUME NEW m \in Int, NEW n \in Int, NEW k \in Nat \ {0}, m * k <= n * k
    PROVE  m <= n
    OBVIOUS

LEMMA AtLeastTransitive ==
    ASSUME NEW x \in Fractions, NEW y \in Fractions, NEW z \in Fractions,
           AtLeast(x, y), AtLeast(y, z)
    PROVE  AtLeast(x, z)
<1>1. /\ x.num \in Int /\ y.num \in Int /\ z.num \in Int
      /\ x.den \in Nat \ {0} /\ y.den \in Nat \ {0} /\ z.den \in Nat \ {0}
    BY DEF Fractions
<1>2. /\ y.num * x.den \in Int /\ x.num * y.den \in Int
      /\ z.num * y.den \in Int /\ y.num * z.den \in Int
      /\ z.num * x.den \in Int /\ x.num * z.den \in Int
    BY <1>1
<1>3. y.num * x.den <= x.num * y.den /\ z.num * y.den <= y.num * z.den
    BY <1>2 DEF AtLeast, Higher
<1>4. (y.num * x.den) * z.den <= (x.num * y.den) * z.den
    BY <1>1, <1>2, <1>3, TimesKeepsOrder
<1>5. (z.num * y.den) * x.den <= (y.num * z.den) * x.den
    BY <1>1, <1>2, <1>3, TimesKeepsOrder
<1>6. (z.num * x.den) * y.den <= (x.num * z.den) * y.den
    <2>1. (z.num * x.den) * y.den = (z.num * y.den) * x.den
        BY <1>1
    <2>2. (y.num * z.den) * x.den = (y.num * x.den) * z.den
        BY <1>1
    <2>3. (x.num * z.den) * y.den = (x.num * y.den) * z.den
        BY <1>1
    <2>4. /\ (z.num * y.den) * x.den \in Int /\ (y.num * z.den) * x.den \in Int
          /\ (x.num * y.den) * z.den \in Int
        BY <1>1
    <2> QED BY <1>4, <1>5, <2>1, <2>2, <2>3, <2>4
<1>7. z.num * x.den <= x.num * z.den
    BY <1>1, <1>2, <1>6, TimesCancels
<1> QED BY <1>2, <1>7 DEF AtLeast, Higher

\* One fraction is at least another, unless it or the other is 0 instead.
LEMMA OverAtLeast ==
    ASSUME NEW m \in Int, NEW d \in Nat, NEW n \in Int, NEW e \in Nat,
           d # 0 /\ e # 0 => n * d <= m * e,
           d = 0 /\ e # 0 => n <= 0,
           e = 0 /\ d # 0 => m >= 0
    PROVE  AtLeast(Over(m, d), Over(n, e)) /\ Over(m, d) \in Fractions
<1>1. CASE d # 0 /\ e # 0
    BY <1>1 DEF AtLeast, Higher, Over, Fractions
<1>2. CASE d = 0 /\ e # 0
    BY <1>2 DEF AtLeast, Higher, Over, Fractions
<1>3. CASE e = 0 /\ d # 0
    BY <1>3 DEF AtLeast, Higher, Over, Fractions
<1>4. CASE e = 0 /\ d = 0
    BY <1>4 DEF AtLeast, Higher, Over, Fractions
<1> QED BY <1>1, <1>2, <1>3, <1>4

\* x / d grows with x and falls with d - k * x, for k = 1 and k = 2.
LEMMA CrossProducts ==
    ASSUME NEW k \in Nat, NEW x \in Nat, NEW y \in Nat, NEW p \in Nat, NEW q \in Nat,
           x >= y, p <= q
    PROVE  y * (k * x + p) <= x * (k * y + q)
<1>1. y * p <= x * q
    <2>1. y * p <= x * p
        BY TimesKeepsOrder
    <2>2. p * x <= q * x
        BY TimesKeepsOrder
    <2>3. p * x = x * p /\ q * x = x * q
        OBVIOUS
    <2>4. y * p \in Nat /\ x * p \in Nat /\ x * q \in Nat
        OBVIOUS
    <2> QED BY <2>1, <2>2, <2>3, <2>4
<1>2. y * (k * x + p) = k * (x * y) + y * p /\ x * (k * y + q) = k * (x * y) + x * q
    OBVIOUS
<1>3. k * (x * y) \in Nat /\ y * p \in Nat /\ x * q \in Nat
    OBVIOUS
<1> QED BY <1>1, <1>2, <1>3

LEMMA RatioAtLeast ==
    ASSUME NEW x \in Nat, NEW y \in Nat, NEW d \in Nat, NEW e \in Nat,
           x >= y, x <= d, y <= e, d - x <= e - y
    PROVE  AtLeast(Over(x, d), Over(y, e))
<1>1. d - x \in Nat /\ e - y \in Nat /\ d = 1 * x + (d - x) /\ e = 1 * y + (e - y)
    OBVIOUS
<1>2. y * (1 * x + (d - x)) <= x * (1 * y + (e - y))
    BY <1>1, CrossProducts
<1>3. y * d <= x * e
    BY <1>1, <1>2
<1> QED BY <1>3, OverAtLeast

LEMMA HalfRatioAtLeast ==
    ASSUME NEW x \in Nat, NEW y \in Nat, NEW d \in Nat, NEW e \in Nat,
           x >= y, 2 * x <= d, 2 * y <= e, d - 2 * x <= e - 2 * y
    PROVE  AtLeast(Over(x, d), Over(y, e))
<1>1. /\ d - 2 * x \in Nat /\ e - 2 * y \in Nat
      /\ d = 2 * x + (d - 2 * x) /\ e = 2 * y + (e - 2 * y)
    OBVIOUS
<1>2. y * (2 * x + (d - 2 * x)) <= x * (2 * y + (e - 2 * y))
    BY <1>1, CrossProducts
<1>3. y * d <= x * e
    BY <1>1, <1>2
<1> QED BY <1>3, OverAtLeast

\* The counts of two elements under the same verdicts: the first is touched by
\* at least as many failed tests and at most as many passed ones.
CountRecords == [a11 : Nat, a01 : Nat, a10 : Nat, a00 : Nat]
Dominates(a, b) ==
    /\ a \in CountRecords /\ b \in CountRecords
    /\ a.a11 + a.a01 = b.a11 + b.a01 /\ a.a10 + a.a00 = b.a10 + b.a00
    /\ a.a11 >= b.a11 /\ a.a10 <= b.a10

LEMMA DominatesFacts ==
    ASSUME NEW a, NEW b, Dominates(a, b)
    PROVE  /\ a.a11 \in Nat /\ a.a01 \in Nat /\ a.a10 \in Nat /\ a.a00 \in Nat
           /\ b.a11 \in Nat /\ b.a01 \in Nat /\ b.a10 \in Nat /\ b.a00 \in Nat
           /\ a.a11 >= b.a11 /\ a.a10 <= b.a10 /\ a.a00 >= b.a00 /\ a.a01 <= b.a01
           /\ Tests(a) = Tests(b) /\ Tests(a) \in Nat
           /\ Agree(a) \in Nat /\ Agree(b) \in Nat /\ Agree(a) >= Agree(b)
           /\ Differ(a) \in Nat /\ Differ(b) \in Nat /\ Differ(a) <= Differ(b)
           /\ Tests(a) = Agree(a) + Differ(a) /\ Tests(b) = Agree(b) + Differ(b)
    BY DEF Dominates, CountRecords, Tests, Agree, Differ

\* An increasing numerator over a constant.
LEMMA SameDenominator ==
    ASSUME NEW m \in Int, NEW n \in Int, NEW d \in Nat, m >= n
    PROVE  AtLeast(Over(m, d), Over(n, d))
<1>1. n * d <= m * d
    BY TimesKeepsOrder
<1> QED BY <1>1, OverAtLeast

LEMMA HamannAtLeast == ASSUME NEW a, NEW b, Dominates(a, b) PROVE AtLeast(Hamann(a), Hamann(b))
    BY DominatesFacts, SameDenominator DEF Hamann

LEMMA SimpleMatchingAtLeast ==
    ASSUME NEW a, NEW b, Dominates(a, b) PROVE AtLeast(SimpleMatching(a), SimpleMatching(b))
    BY DominatesFacts, SameDenominator DEF SimpleMatching

LEMMA EuclidAtLeast == ASSUME NEW a, NEW b, Dominates(a, b) PROVE AtLeast(Euclid(a), Euclid(b))
    BY DominatesFacts, SameDenominator DEF Euclid

LEMMA AnderbergAtLeast ==
    ASSUME NEW a, NEW b, Dominates(a, b) PROVE AtLeast(Anderberg(a), Anderberg(b))
    BY DominatesFacts, RatioAtLeast DEF Anderberg

LEMMA SorensenDiceAtLeast ==
    ASSUME NEW a, NEW b, Dominates(a, b) PROVE AtLeast(SorensenDice(a), SorensenDice(b))
    BY SMTT(30), DominatesFacts, HalfRatioAtLeast DEF SorensenDice

LEMMA JaccardAtLeast == ASSUME NEW a, NEW b, Dominates(a, b) PROVE AtLeast(Jaccard(a), Jaccard(b))
    BY DominatesFacts, RatioAtLeast DEF Jaccard

LEMMA SokalAtLeast == ASSUME NEW a, NEW b, Dominates(a, b) PROVE AtLeast(Sokal(a), Sokal(b))
    BY DominatesFacts, RatioAtLeast DEF Sokal

LEMMA RogersTanimotoAtLeast ==
    ASSUME NEW a, NEW b, Dominates(a, b) PROVE AtLeast(RogersTanimoto(a), RogersTanimoto(b))
    BY DominatesFacts, RatioAtLeast DEF RogersTanimoto

LEMMA GoodmanAtLeast == ASSUME NEW a, NEW b, Dominates(a, b) PROVE AtLeast(Goodman(a), Goodman(b))
<1> DEFINE x == 2 * a.a11
           y == 2 * b.a11
           p == Differ(a)
           q == Differ(b)
<1>1. x \in Nat /\ y \in Nat /\ p \in Nat /\ q \in Nat /\ x >= y /\ p <= q
    BY DominatesFacts
<1> HIDE DEF x, y, p, q
<1>2. y * p <= x * q
    <2>1. y * p <= x * p /\ p * x <= q * x
        BY <1>1, TimesKeepsOrder
    <2>2. p * x = x * p /\ q * x = x * q /\ y * p \in Nat /\ x * p \in Nat /\ x * q \in Nat
        BY <1>1
    <2> QED BY <2>1, <2>2
<1>3. (y - q) * (x + p) <= (x - p) * (y + q)
    <2>1. /\ (y - q) * (x + p) = x * y + y * p - x * q - p * q
          /\ (x - p) * (y + q) = x * y + x * q - y * p - p * q
        BY <1>1
    <2>2. x * y \in Nat /\ p * q \in Nat /\ x * q \in Nat /\ y * p \in Nat
        BY <1>1
    <2> QED BY <1>2, <2>1, <2>2
<1>4. AtLeast(Over(x - p, x + p), Over(y - q, y + q))
    <2>1. x - p \in Int /\ y - q \in Int /\ x + p \in Nat /\ y + q \in Nat
        BY <1>1
    <2>2. (x + p = 0 => y - q <= 0) /\ (y + q = 0 => x - p >= 0)
        BY <1>1
    <2> QED BY <1>3, <2>1, <2>2, OverAtLeast
<1> QED BY <1>4 DEF Goodman, x, y, p, q

LEMMA Naish2AtLeast == ASSUME NEW a, NEW b, Dominates(a, b) PROVE AtLeast(Naish2(a), Naish2(b))
<1> DEFINE d == a.a10 + a.a00 + 1
<1>1. d \in Nat /\ d = b.a10 + b.a00 + 1
    BY DominatesFacts DEF Dominates
<1> HIDE DEF d
<1>2. b.a11 * d <= a.a11 * d /\ a.a11 * d \in Nat /\ b.a11 * d \in Nat
    BY <1>1, DominatesFacts, TimesKeepsOrder
<1>3. a.a11 * d - a.a10 \in Int /\ b.a11 * d - b.a10 \in Int /\ a.a11 * d - a.a10 >= b.a11 * d - b.a10
    BY <1>2, DominatesFacts
<1>4. AtLeast(Over(a.a11 * d - a.a10, d), Over(b.a11 * d - b.a10, d))
    BY <1>1, <1>3, SameDenominator
<1> QED BY <1>1, <1>4 DEF Naish2, d


LEMMA CbiAtLeast == ASSUME NEW a, NEW b, Dominates(a, b) PROVE AtLeast(Cbi(a), Cbi(b))
<1> DEFINE N == Tests(a)
           F == a.a11 + a.a01
           x == a.a11
           y == b.a11
           u == a.a11 + a.a10
           v == b.a11 + b.a10
<1>1. /\ N \in Nat /\ F \in Nat /\ x \in Nat /\ y \in Nat /\ u \in Nat /\ v \in Nat
      /\ x >= y /\ u - x <= v - y /\ x <= u /\ y <= v /\ F <= N
      /\ Tests(b) = N /\ b.a11 + b.a01 = F
    BY DominatesFacts DEF Dominates, Tests
<1>2. Cbi(a) = Over(x * N - F * u, u * N) /\ Cbi(b) = Over(y * N - F * v, v * N)
    BY <1>1 DEF Cbi
<1> HIDE DEF N, F, x, y, u, v
<1>3. y * u <= x * v
    <2>1. u - x \in Nat /\ v - y \in Nat /\ u = 1 * x + (u - x) /\ v = 1 * y + (v - y)
        BY <1>1
    <2>2. y * (1 * x + (u - x)) <= x * (1 * y + (v - y))
        BY <1>1, <2>1, CrossProducts
    <2> QED BY <2>1, <2>2
<1>4. (y * N - F * v) * (u * N) <= (x * N - F * u) * (v * N)
    <2>1. (y * u) * (N * N) <= (x * v) * (N * N)
        <3>1. y * u \in Int /\ x * v \in Int /\ N * N \in Nat
            BY <1>1
        <3> QED BY <1>3, <3>1, TimesKeepsOrder
    <2>2. /\ (y * N - F * v) * (u * N) = (y * u) * (N * N) - (F * N) * (u * v)
          /\ (x * N - F * u) * (v * N) = (x * v) * (N * N) - (F * N) * (u * v)
        BY <1>1
    <2>3. (y * u) * (N * N) \in Int /\ (x * v) * (N * N) \in Int /\ (F * N) * (u * v) \in Int
        BY <1>1
    <2> QED BY <2>1, <2>2, <2>3
<1>5. u * N = 0 => y * N - F * v <= 0
    <2>1. CASE N = 0
        <3>1. F = 0
            BY <1>1, <2>1
        <3> QED BY <1>1, <2>1, <3>1
    <2>2. CASE u = 0
        <3>1. y = 0 /\ F * v \in Nat
            BY <1>1, <2>2
        <3> QED BY <1>1, <3>1
    <2> QED BY <1>1, <2>1, <2>2
<1>6. v * N = 0 => x * N - F * u >= 0
    <2>1. CASE N = 0
        <3>1. F = 0
            BY <1>1, <2>1
        <3> QED BY <1>1, <2>1, <3>1
    <2>2. CASE v = 0
        <3>1. u = x
            BY <1>1, <2>2
        <3>2. F * x <= N * x /\ N * x = x * N /\ F * x \in Nat /\ x * N \in Nat
            BY <1>1, TimesKeepsOrder
        <3> QED BY <3>1, <3>2
    <2> QED BY <1>1, <2>1, <2>2
<1>7. u * N \in Nat /\ v * N \in Nat /\ x * N - F * u \in Int /\ y * N - F * v \in Int
    BY <1>1
<1> QED BY <1>2, <1>4, <1>5, <1>6, <1>7, OverAtLeast

LEMMA TarantulaAtLeast ==
    ASSUME NEW a, NEW b, Dominates(a, b) PROVE AtLeast(Tarantula(a), Tarantula(b))
<1> DEFINE X(c) == Over(c.a11, c.a11 + c.a01)
           Y(c) == Over(c.a10, c.a10 + c.a00)
<1>1. /\ X(a).num \in Nat /\ X(b).num \in Nat /\ X(a).den \in Nat /\ X(b).den = X(a).den
      /\ X(a).num >= X(b).num
    BY DominatesFacts DEF Over, Dominates
<1>2. /\ Y(a).num \in Nat /\ Y(b).num \in Nat /\ Y(a).den \in Nat /\ Y(b).den = Y(a).den
      /\ Y(a).num <= Y(b).num
    BY DominatesFacts DEF Over, Dominates
<1>3. /\ Tarantula(a) = Over(X(a).num * Y(a).den, X(a).num * Y(a).den + Y(a).num * X(a).den)
      /\ Tarantula(b) = Over(X(b).num * Y(a).den, X(b).num * Y(a).den + Y(b).num * X(a).den)
    BY <1>1, <1>2 DEF Tarantula
<1> HIDE DEF X, Y
<1>4. /\ X(b).num * Y(a).den <= X(a).num * Y(a).den
      /\ Y(a).num * X(a).den <= Y(b).num * X(a).den
    BY <1>1, <1>2, TimesKeepsOrder
<1>5. /\ X(b).num * Y(a).den \in Nat /\ X(a).num * Y(a).den \in Nat
      /\ Y(a).num * X(a).den \in Nat /\ Y(b).num * X(a).den \in Nat
    BY <1>1, <1>2
<1> QED BY <1>3, <1>4, <1>5, RatioAtLeast

LEMMA SquareCross ==
    ASSUME NEW x \in Nat, NEW y \in Nat, NEW u \in Nat, NEW v \in Nat, y <= x, y * u <= x * v
    PROVE  (y * y) * u <= (x * x) * v
<1>1. y * u \in Nat /\ x * v \in Nat
    OBVIOUS
<1>2. (y * u) * y <= (x * v) * y
    BY <1>1, TimesKeepsOrder
<1>3. y * (x * v) <= x * (x * v)
    BY <1>1, TimesKeepsOrder
<1>4. /\ (y * y) * u = (y * u) * y /\ (x * v) * y = y * (x * v) /\ (x * x) * v = x * (x * v)
      /\ (y * u) * y \in Nat /\ y * (x * v) \in Nat /\ x * (x * v) \in Nat
    OBVIOUS
<1> QED BY <1>2, <1>3, <1>4

LEMMA OchiaiAtLeast == ASSUME NEW a, NEW b, Dominates(a, b) PROVE AtLeast(Ochiai(a), Ochiai(b))
<1> DEFINE F == a.a11 + a.a01
           x == a.a11
           y == b.a11
           u == a.a11 + a.a10
           v == b.a11 + b.a10
<1>1. /\ F \in Nat /\ x \in Nat /\ y \in Nat /\ u \in Nat /\ v \in Nat
      /\ x >= y /\ u - x <= v - y /\ x <= u /\ y <= v /\ x <= F /\ b.a11 + b.a01 = F
    BY DominatesFacts DEF Dominates
<1>2. Ochiai(a) = Over(x * x, F * u) /\ Ochiai(b) = Over(y * y, F * v)
    BY <1>1 DEF Ochiai
<1> HIDE DEF F, x, y, u, v
<1>3. y * u <= x * v
    <2>1. u - x \in Nat /\ v - y \in Nat /\ u = 1 * x + (u - x) /\ v = 1 * y + (v - y)
        BY <1>1
    <2>2. y * (1 * x + (u - x)) <= x * (1 * y + (v - y))
        BY <1>1, <2>1, CrossProducts
    <2> QED BY <2>1, <2>2
<1>4. (y * y) * (F * u) <= (x * x) * (F * v)
    <2>1. (y * y) * u <= (x * x) * v
        BY <1>1, <1>3, SquareCross
    <2>2. (y * y) * u \in Nat /\ (x * x) * v \in Nat
        BY <1>1
    <2>3. ((y * y) * u) * F <= ((x * x) * v) * F
        BY <1>1, <2>1, <2>2, TimesKeepsOrder
    <2>4. (y * y) * (F * u) = ((y * y) * u) * F /\ (x * x) * (F * v) = ((x * x) * v) * F
        BY <1>1
    <2> QED BY <2>3, <2>4
<1>5. F * u = 0 => y * y = 0
    <2>1. F * u = 0 => F = 0 \/ u = 0
        BY <1>1
    <2>2. F = 0 \/ u = 0 => y = 0
        BY <1>1
    <2> QED BY <2>1, <2>2
<1>6. x * x \in Nat /\ y * y \in Nat /\ F * u \in Nat /\ F * v \in Nat
    BY <1>1
<1> QED BY <1>2, <1>4, <1>5, <1>6, OverAtLeast

LEMMA Ochiai2AtLeast == ASSUME NEW a, NEW b, Dominates(a, b) PROVE AtLeast(Ochiai2(a), Ochiai2(b))
<1> DEFINE F == a.a11 + a.a01
           P == a.a10 + a.a00
           x == a.a11
           y == b.a11
           u == a.a11 + a.a10
           v == b.a11 + b.a10
           x0 == a.a00
           y0 == b.a00
           u0 == a.a00 + a.a01
           v0 == b.a00 + b.a01
<1>1. /\ F \in Nat /\ x \in Nat /\ y \in Nat /\ u \in Nat /\ v \in Nat
      /\ x >= y /\ u - x <= v - y /\ x <= u /\ y <= v /\ b.a11 + b.a01 = F
    BY DominatesFacts DEF Dominates
<1>2. /\ P \in Nat /\ x0 \in Nat /\ y0 \in Nat /\ u0 \in Nat /\ v0 \in Nat
      /\ x0 >= y0 /\ u0 - x0 <= v0 - y0 /\ x0 <= u0 /\ y0 <= v0 /\ b.a10 + b.a00 = P
    BY DominatesFacts DEF Dominates
<1>3. /\ Ochiai2(a) = Over(x * x * x0 * x0, u * u0 * F * P)
      /\ Ochiai2(b) = Over(y * y * y0 * y0, v * v0 * F * P)
    BY <1>1, <1>2 DEF Ochiai2
<1> HIDE DEF F, P, x, y, u, v, x0, y0, u0, v0
<1>4. (y * y) * u <= (x * x) * v
    <2>1. u - x \in Nat /\ v - y \in Nat /\ u = 1 * x + (u - x) /\ v = 1 * y + (v - y)
        BY <1>1
    <2>2. y * (1 * x + (u - x)) <= x * (1 * y + (v - y))
        BY <1>1, <2>1, CrossProducts
    <2>3. y * u <= x * v
        BY <2>1, <2>2
    <2> QED BY <1>1, <2>3, SquareCross
<1>5. (y0 * y0) * u0 <= (x0 * x0) * v0
    <2>1. u0 - x0 \in Nat /\ v0 - y0 \in Nat /\ u0 = 1 * x0 + (u0 - x0) /\ v0 = 1 * y0 + (v0 - y0)
        BY <1>2
    <2>2. y0 * (1 * x0 + (u0 - x0)) <= x0 * (1 * y0 + (v0 - y0))
        BY <1>2, <2>1, CrossProducts
    <2>3. y0 * u0 <= x0 * v0
        BY <2>1, <2>2
    <2> QED BY <1>2, <2>3, SquareCross
<1> DEFINE A == (y * y) * u
           B == (x * x) * v
           A0 == (y0 * y0) * u0
           B0 == (x0 * x0) * v0
           FP == F * P
<1>6. A \in Nat /\ B \in Nat /\ A0 \in Nat /\ B0 \in Nat /\ FP \in Nat /\ A <= B /\ A0 <= B0
    BY <1>1, <1>2, <1>4, <1>5
<1>7. (A * A0) * FP <= (B * B0) * FP
    <2> HIDE DEF A, B, A0, B0, FP
    <2>1. A * A0 <= B * A0 /\ A0 * B <= B0 * B
        BY <1>6, TimesKeepsOrder
    <2>2. A0 * B = B * A0 /\ B0 * B = B * B0 /\ A * A0 \in Nat /\ B * A0 \in Nat /\ B * B0 \in Nat
        BY <1>6
    <2>3. A * A0 <= B * B0
        BY <2>1, <2>2
    <2> QED BY <1>6, <2>2, <2>3, TimesKeepsOrder
<1>8. (y * y * y0 * y0) * (u * u0 * F * P) <= (x * x * x0 * x0) * (v * v0 * F * P)
    <2>1. (y * y * y0 * y0) * (u * u0 * F * P) = (A * A0) * FP
        BY <1>1, <1>2
    <2>2. (x * x * x0 * x0) * (v * v0 * F * P) = (B * B0) * FP
        BY <1>1, <1>2
    <2> QED BY <1>7, <2>1, <2>2
<1>9. u * u0 * F * P = 0 /\ v * v0 * F * P # 0 => y * y * y0 * y0 <= 0
    <2> SUFFICES ASSUME u * u0 * F * P = 0, v * v0 * F * P # 0
                 PROVE  y * y * y0 * y0 <= 0
        OBVIOUS
    <2>1. F # 0 /\ P # 0
        BY <1>1, <1>2
    <2>2. u = 0 \/ u0 = 0
        <3>1. u * u0 \in Nat /\ (u * u0) * F \in Nat
            BY <1>1, <1>2
        <3>2. (u * u0) * F = 0
            BY <1>1, <1>2, <2>1, <3>1
        <3>3. u * u0 = 0
            BY <1>1, <2>1, <3>1, <3>2
        <3> QED BY <1>1, <1>2, <3>3
    <2>3. y = 0 \/ y0 = 0
        BY <1>1, <1>2, <2>2
    <2>4. y = 0 => y * y * y0 * y0 = 0
        BY <1>2
    <2>5. y0 = 0 => y * y * y0 * y0 = 0
        BY <1>1
    <2> QED BY <2>3, <2>4, <2>5
<1>10. /\ x * x * x0 * x0 \in Nat /\ y * y * y0 * y0 \in Nat
       /\ u * u0 * F * P \in Nat /\ v * v0 * F * P \in Nat
    BY <1>1, <1>2
<1>11. AtLeast(Over(x * x * x0 * x0, u * u0 * F * P), Over(y * y * y0 * y0, v * v0 * F * P))
    BY <1>8, <1>9, <1>10, OverAtLeast
<1> QED BY <1>3, <1>11

\* The element that dominates scores at least as high, whichever the method.
LEMMA ScoreAtLeast ==
    ASSUME NEW a, NEW b, Dominates(a, b), NEW m0
    PROVE  AtLeast(Score(m0, a), Score(m0, b))
BY SMTT(30), CbiAtLeast, HamannAtLeast, SimpleMatchingAtLeast, SokalAtLeast, RogersTanimotoAtLeast,
   EuclidAtLeast, AnderbergAtLeast, SorensenDiceAtLeast, GoodmanAtLeast, JaccardAtLeast,
   Naish2AtLeast, TarantulaAtLeast, OchiaiAtLeast, Ochiai2AtLeast DEF Score

LEMMA OverType == ASSUME NEW m \in Int, NEW d \in Nat PROVE Over(m, d) \in Fractions
    BY DEF Over, Fractions

\* Every score is a fraction.
LEMMA ScoreType ==
    ASSUME NEW a \in CountRecords, NEW m0
    PROVE  Score(m0, a) \in Fractions
<1>1. /\ a.a11 \in Nat /\ a.a01 \in Nat /\ a.a10 \in Nat /\ a.a00 \in Nat
      /\ Tests(a) \in Nat /\ Agree(a) \in Nat /\ Differ(a) \in Nat
    BY DEF CountRecords, Tests, Agree, Differ
<1>2. Cbi(a) \in Fractions
    <2>1. a.a11 * Tests(a) - (a.a11 + a.a01) * (a.a11 + a.a10) \in Int
        BY <1>1
    <2>2. (a.a11 + a.a10) * Tests(a) \in Nat
        BY <1>1
    <2> QED BY <2>1, <2>2, OverType DEF Cbi
<1>3. /\ Hamann(a) \in Fractions /\ SimpleMatching(a) \in Fractions /\ Euclid(a) \in Fractions
      /\ Sokal(a) \in Fractions /\ RogersTanimoto(a) \in Fractions
    BY <1>1, OverType DEF Hamann, SimpleMatching, Euclid, Sokal, RogersTanimoto
<1>4. /\ Anderberg(a) \in Fractions /\ SorensenDice(a) \in Fractions
      /\ Goodman(a) \in Fractions /\ Jaccard(a) \in Fractions
    BY <1>1, OverType DEF Anderberg, SorensenDice, Goodman, Jaccard
<1>5. Naish2(a) \in Fractions
    <2>1. a.a11 * (a.a10 + a.a00 + 1) - a.a10 \in Int /\ a.a10 + a.a00 + 1 \in Nat
        BY <1>1
    <2> QED BY <2>1, OverType DEF Naish2
<1>6. Tarantula(a) \in Fractions
    <2> DEFINE x == Over(a.a11, a.a11 + a.a01)
               y == Over(a.a10, a.a10 + a.a00)
    <2>1. x.num \in Nat /\ x.den \in Nat /\ y.num \in Nat /\ y.den \in Nat
        BY <1>1 DEF Over
    <2>2. Tarantula(a) = Over(x.num * y.den, x.num * y.den + y.num * x.den)
        BY DEF Tarantula
    <2> HIDE DEF x, y
    <2>3. x.num * y.den \in Nat /\ y.num * x.den \in Nat
        BY <2>1
    <2> QED BY <2>2, <2>3, OverType
<1>7. Ochiai(a) \in Fractions /\ Ochiai2(a) \in Fractions
    <2>1. a.a11 * a.a11 \in Int /\ (a.a11 + a.a01) * (a.a11 + a.a10) \in Nat
        BY <1>1
    <2>2. /\ a.a11 * a.a11 * a.a00 * a.a00 \in Int
          /\ (a.a11 + a.a10) * (a.a00 + a.a01) * (a.a11 + a.a01) * (a.a10 + a.a00) \in Nat
        BY <1>1
    <2> QED BY <2>1, <2>2, OverType DEF Ochiai, Ochiai2
<1> QED BY <1>2, <1>3, <1>4, <1>5, <1>6, <1>7 DEF Score

-----------------------------------------------------------------------------
(* Counts: every method is given the counts of the same failed and passed  *)
(* tests.                                                                  *)

LEMMA RowSetsAreFinite ==
    ASSUME NEW s \in Spectra
    PROVE  IsFiniteSet(Rows(s))
<1>1. Rows(s) = 1..Len(s.cells) /\ Len(s.cells) \in Nat
    BY SpectraAssumption DEF Rows
<1> QED BY <1>1, FS_Interval

LEMMA ApqType ==
    ASSUME NEW s \in Spectra, NEW touched, NEW passed, NEW j
    PROVE  Apq(s, touched, passed, j) \in Nat
<1> DEFINE T == {t \in Rows(s) : Touched(s, t, j) = touched /\ s.results[t] = passed}
<1>1. IsFiniteSet(T)
    BY RowSetsAreFinite, FS_Subset
<1>2. Cardinality(T) \in Nat
    BY <1>1, FS_CardinalityType
<1> QED BY <1>2 DEF Apq

LEMMA CountsType ==
    ASSUME NEW s \in Spectra, NEW j
    PROVE  Counts(s, j) \in CountRecords
    BY ApqType DEF Counts, CountRecords

\* The tests with a verdict are those that touch an element and those that do
\* not, whichever element it is.
LEMMA ApqSum ==
    ASSUME NEW s \in Spectra, NEW passed, NEW j
    PROVE  Apq(s, TRUE, passed, j) + Apq(s, FALSE, passed, j)
               = Cardinality({t \in Rows(s) : s.results[t] = passed})
<1> DEFINE A == {t \in Rows(s) : Touched(s, t, j) = TRUE /\ s.results[t] = passed}
           B == {t \in Rows(s) : Touched(s, t, j) = FALSE /\ s.results[t] = passed}
           U == {t \in Rows(s) : s.results[t] = passed}
<1>1. \A t : Touched(s, t, j) \in BOOLEAN
    BY DEF Touched
<1>2. A \cup B = U /\ A \cap B = {}
    BY <1>1
<1>3. IsFiniteSet(A) /\ IsFiniteSet(B)
    BY RowSetsAreFinite, FS_Subset
<1>4. Apq(s, TRUE, passed, j) = Cardinality(A) /\ Apq(s, FALSE, passed, j) = Cardinality(B)
    BY DEF Apq
<1>5. Cardinality(A) \in Nat /\ Cardinality(B) \in Nat
    BY <1>3, FS_CardinalityType
<1> HIDE DEF A, B, U
<1>6. Cardinality(A \cap B) = 0
    BY <1>2, FS_EmptySet
<1>7. Cardinality(U) = Cardinality(A) + Cardinality(B) - Cardinality(A \cap B)
    BY <1>2, <1>3, FS_Union
<1>8. Cardinality(U) = Cardinality(A) + Cardinality(B)
    BY <1>5, <1>6, <1>7
<1> QED BY <1>4, <1>8 DEF U

LEMMA CountsDominate ==
    ASSUME NEW s \in Spectra, NEW e, NEW f,
           Counts(s, e).a11 >= Counts(s, f).a11, Counts(s, e).a10 <= Counts(s, f).a10
    PROVE  Dominates(Counts(s, e), Counts(s, f))
<1>1. Counts(s, e) \in CountRecords /\ Counts(s, f) \in CountRecords
    BY CountsType
<1>2. /\ Counts(s, e).a11 + Counts(s, e).a01 = Counts(s, f).a11 + Counts(s, f).a01
      /\ Counts(s, e).a10 + Counts(s, e).a00 = Counts(s, f).a10 + Counts(s, f).a00
    <2>1. ASSUME NEW j
          PROVE  /\ Counts(s, j).a11 = Apq(s, TRUE, FALSE, j) /\ Counts(s, j).a01 = Apq(s, FALSE, FALSE, j)
                 /\ Counts(s, j).a10 = Apq(s, TRUE, TRUE, j) /\ Counts(s, j).a00 = Apq(s, FALSE, TRUE, j)
        BY DEF Counts
    <2>2. ASSUME NEW passed
          PROVE  Apq(s, TRUE, passed, e) + Apq(s, FALSE, passed, e)
                    = Apq(s, TRUE, passed, f) + Apq(s, FALSE, passed, f)
        BY ApqSum
    <2> QED BY <2>1, <2>2
<1> QED BY <1>1, <1>2 DEF Dominates

-----------------------------------------------------------------------------
(* The ranks count the elements that may come before.                      *)

ScoreOf(p) == scores[order[p]]

\* The order lists every element once, by decreasing score; a rank ends a run
\* of equal scores.
RankInv ==
    /\ pc \in {"sort", "rank", "done"} =>
          scores = [j \in 1..Size |-> Score(method, Counts(spectrum, j))]
    /\ pc \in {"rank", "done"} =>
          /\ \A p, q \in 1..Size :
                p < q => order[p] # order[q] /\ AtLeast(ScoreOf(p), ScoreOf(q))
          /\ \A p \in (index + 1)..Size : \A q \in p..rank[p] : Same(ScoreOf(p), ScoreOf(q))
    /\ pc = "done" => index = 0

LEMMA ScoresAreFractions ==
    ASSUME TypeOK, RankInv, pc \in {"sort", "rank", "done"}, NEW e \in 1..Size
    PROVE  scores[e] = Score(method, Counts(spectrum, e)) /\ scores[e] \in Fractions
<1>1. scores[e] = Score(method, Counts(spectrum, e))
    BY DEF RankInv
<1>2. Counts(spectrum, e) \in CountRecords
    BY CountsType DEF TypeOK
<1> QED BY <1>1, <1>2, ScoreType

LEMMA SameIsBoth ==
    ASSUME NEW x \in Fractions, NEW y \in Fractions
    PROVE  /\ Same(x, y) <=> AtLeast(x, y) /\ AtLeast(y, x)
           /\ Higher(x, y) => AtLeast(x, y)
           /\ Same(x, y) <=> Same(y, x)
           /\ Same(x, x)
<1>1. x.num * y.den \in Int /\ y.num * x.den \in Int
    BY DEF Fractions
<1> QED BY <1>1 DEF Same, AtLeast, Higher

LEMMA SameTransitive ==
    ASSUME NEW x \in Fractions, NEW y \in Fractions, NEW z \in Fractions,
           Same(x, y), Same(y, z)
    PROVE  Same(x, z)
    BY SameIsBoth, AtLeastTransitive

LEMMA InitRankInv == Init => RankInv
    BY DEF Init, RankInv

LEMMA SortKeepsRankInv == ASSUME IInv, RankInv, Sort PROVE RankInv'
<1>1. /\ Size' = Size /\ Size \in Nat /\ pc = "sort" /\ pc' = "rank"
      /\ index' = Size /\ scores' = scores /\ method' = method /\ spectrum' = spectrum
    BY SizeIsNat DEF IInv, Sort, Size
<1>2. /\ order' \in [1..Size -> 1..Size]
      /\ \A p, q \in 1..Size : p < q => order'[p] # order'[q] /\ Precedes(order'[p], order'[q])
    BY DEF Sort
<1>3. ASSUME NEW e \in 1..Size, NEW f \in 1..Size, Precedes(e, f)
      PROVE  AtLeast(scores[e], scores[f])
    <2>1. scores[e] \in Fractions /\ scores[f] \in Fractions
        BY <1>1, ScoresAreFractions DEF IInv
    <2> QED BY <1>3, <2>1, SameIsBoth DEF Precedes
<1>4. \A p, q \in 1..Size : p < q =>
          order'[p] # order'[q] /\ AtLeast(scores[order'[p]], scores[order'[q]])
    BY <1>2, <1>3
<1>5. \A p \in (Size + 1)..Size : FALSE
    BY <1>1
<1> QED BY <1>1, <1>4, <1>5 DEF RankInv, ScoreOf, AtLeast, Higher

LEMMA RankLastKeepsRankInv == ASSUME IInv, RankInv, RankLast PROVE RankInv'
<1>1. /\ Size' = Size /\ Size \in Nat /\ pc = "rank"
      /\ UNCHANGED <<spectrum, method, scores, order>>
    BY SizeIsNat DEF IInv, RankLast, Size
<1>2. CASE Size = 0
    BY <1>1, <1>2 DEF RankLast, RankInv
<1>3. CASE Size > 0
    <2>1. /\ rank \in [1..Size -> 0..Size] /\ order \in [1..Size -> 1..Size]
          /\ rank' = [rank EXCEPT ![Size] = Size]
          /\ index' = Size - 1 /\ pc' = IF Size = 1 THEN "done" ELSE "rank"
        <3>1. rank \in [1..Size -> 0..Size] /\ order \in [1..Size -> 1..Size]
            BY <1>1 DEF IInv, TypeOK
        <3>2. ~(Size = 0)
            BY <1>1, <1>3
        <3> QED BY <3>1, <3>2 DEF RankLast
    <2>2. (index' + 1)..Size = {Size} /\ Size..rank'[Size] = {Size}
        BY SMTT(30), <1>1, <1>3, <2>1
    <2>3. Same(ScoreOf(Size), ScoreOf(Size))
        <3>1. order[Size] \in 1..Size
            BY <1>1, <1>3, <2>1
        <3> QED BY <1>1, <3>1, ScoresAreFractions, SameIsBoth DEF ScoreOf, IInv
    <2>4. pc' = "done" => index' = 0
        BY <1>3, <2>1
    <2>5. pc' \in {"rank", "done"}
        BY <2>1
    <2>6. \A p : ScoreOf(p)' = ScoreOf(p)
        BY <1>1 DEF ScoreOf
    <2>7. \A p \in (index' + 1)..Size : \A q \in p..rank'[p] : Same(ScoreOf(p)', ScoreOf(q)')
        BY <2>2, <2>3, <2>6
    <2> QED BY <1>1, <2>4, <2>5, <2>6, <2>7 DEF RankInv, Same, AtLeast, Higher
<1> QED BY <1>1, <1>2, <1>3

LEMMA RankNextKeepsRankInv == ASSUME IInv, RankInv, RankNext PROVE RankInv'
<1>1. /\ Size' = Size /\ Size \in Nat /\ pc = "rank" /\ pc' \in {"rank", "done"}
      /\ UNCHANGED <<spectrum, method, scores, order>>
      /\ index \in 1..(Size - 1) /\ index' = index - 1
      /\ pc' = IF index = 1 THEN "done" ELSE "rank"
      /\ rank' = [rank EXCEPT ![index] = IF Tied(index) THEN rank[index + 1] ELSE index]
    BY SizeIsNat DEF IInv, RankNext, Size
<1>2. rank \in [1..Size -> 0..Size] /\ order \in [1..Size -> 1..Size]
    BY <1>1 DEF IInv, TypeOK
<1>3. /\ rank'[index] = IF Tied(index) THEN rank[index + 1] ELSE index
      /\ \A p \in (index + 1)..Size : rank'[p] = rank[p]
    <2>1. index \in 1..Size /\ \A p \in (index + 1)..Size : p \in 1..Size /\ p # index
        BY <1>1
    <2> QED BY <1>1, <1>2, <2>1
<1>4. \A p \in 1..Size : ScoreOf(p) \in Fractions
    BY <1>1, <1>2, ScoresAreFractions DEF ScoreOf, IInv
<1>5. \A p \in (index + 1)..Size : rank[p] \in p..Size /\ \A q \in p..rank[p] : Same(ScoreOf(p), ScoreOf(q))
    BY <1>1 DEF IInv, RankEndsItsTie, RankInv
<1>6. ASSUME NEW p \in index..Size, NEW q \in p..rank'[p]
      PROVE  Same(ScoreOf(p), ScoreOf(q))
    <2>1. CASE p \in (index + 1)..Size
        BY <1>3, <1>5, <1>6, <2>1
    <2>2. CASE p = index /\ q = index
        BY <1>1, <1>4, <2>2, SameIsBoth
    <2>3. CASE p = index /\ q # index
        <3>1. Tied(index) /\ q \in (index + 1)..rank[index + 1]
            BY <1>1, <1>3, <1>6, <2>3
        <3>2. index + 1 \in (index + 1)..Size /\ rank[index + 1] \in (index + 1)..Size
            BY <1>1, <1>5
        <3>3. Same(ScoreOf(index), ScoreOf(index + 1)) /\ Same(ScoreOf(index + 1), ScoreOf(q))
            BY <1>5, <3>1, <3>2 DEF Tied, ScoreOf
        <3>4. index \in 1..Size /\ index + 1 \in 1..Size /\ q \in 1..Size
            BY <1>1, <3>1, <3>2
        <3> QED BY <1>4, <2>3, <3>3, <3>4, SameTransitive
    <2> QED BY <1>1, <1>6, <2>1, <2>2, <2>3
<1>7. index' + 1 = index
    BY <1>1
<1>8. \A p : ScoreOf(p)' = ScoreOf(p)
    BY <1>1 DEF ScoreOf
<1>9. \A p \in (index' + 1)..Size : \A q \in p..rank'[p] : Same(ScoreOf(p)', ScoreOf(q)')
    BY <1>6, <1>7, <1>8
<1>10. pc' = "done" => index' = 0
    BY <1>1
<1> QED BY <1>1, <1>8, <1>9, <1>10 DEF RankInv, Same, AtLeast, Higher

LEMMA StepRankInv == IInv /\ RankInv /\ [Next]_vars => RankInv'
<1> SUFFICES ASSUME IInv, RankInv, [Next]_vars PROVE RankInv'
    OBVIOUS
<1>1. CASE ScoreElements
    BY <1>1 DEF ScoreElements, RankInv, Size
<1>2. CASE Sort
    BY <1>2, SortKeepsRankInv
<1>3. CASE RankLast
    BY <1>3, RankLastKeepsRankInv
<1>4. CASE RankNext
    BY <1>4, RankNextKeepsRankInv
<1>5. CASE UNCHANGED vars
    BY <1>5 DEF RankInv, ScoreOf, Size, vars
<1> QED BY <1>1, <1>2, <1>3, <1>4, <1>5 DEF Next

LEMMA RankInvariant == Spec => []RankInv
    BY InitRankInv, StepRankInv, Invariant, PTL DEF Spec

LEMMA InjectiveIsSurjective ==
    ASSUME NEW n \in Nat, NEW o \in [1..n -> 1..n], \A p, q \in 1..n : p < q => o[p] # o[q]
    PROVE  /\ \A p, q \in 1..n : o[p] = o[q] => p = q
           /\ \A e \in 1..n : \E p \in 1..n : o[p] = e
<1>1. \A p, q \in 1..n : o[p] = o[q] => p = q
    <2> TAKE p, q \in 1..n
    <2>1. p < q \/ q < p \/ p = q
        OBVIOUS
    <2> QED BY <2>1
<1>2. o \in Injection(1..n, 1..n)
    BY <1>1, Fun_IsInj
<1>3. IsFiniteSet(1..n)
    BY FS_Interval
<1>4. o \in Surjection(1..n, 1..n)
    BY <1>2, <1>3, FS_Injection
<1>5. \A e \in 1..n : \E p \in 1..n : o[p] = e
    BY <1>4 DEF Surjection
<1> QED BY <1>1, <1>5

\* Where the sort has put an element.
Position(e) == CHOOSE p \in 1..Size : order[p] = e

LEMMA PositionFacts ==
    ASSUME IInv, RankInv, pc = "done", NEW e \in 1..Size
    PROVE  /\ Size \in Nat /\ Position(e) \in 1..Size /\ order[Position(e)] = e
           /\ rank[Position(e)] \in Position(e)..Size
           /\ ElementsToInspect(e) = rank[Position(e)]
<1>1. Size \in Nat /\ order \in [1..Size -> 1..Size] /\ index = 0
    BY SizeIsNat DEF IInv, TypeOK, RankInv
<1>2. \E p \in 1..Size : order[p] = e
    <2>1. \A p, q \in 1..Size : p < q => order[p] # order[q]
        BY DEF RankInv
    <2> HIDE DEF Size
    <2> QED BY <1>1, <2>1, InjectiveIsSurjective
<1>3. Position(e) \in 1..Size /\ order[Position(e)] = e
    BY <1>2 DEF Position
<1>4. rank[Position(e)] \in Position(e)..Size
    BY <1>1, <1>3 DEF IInv, RankEndsItsTie
<1> QED BY <1>1, <1>3, <1>4 DEF ElementsToInspect, Position

\* The positions up to the rank hold the elements that score at least as high,
\* the later ones score less.
LEMMA RankDivides ==
    ASSUME IInv, RankInv, pc = "done", NEW e \in 1..Size, NEW q \in 1..Size
    PROVE  q <= ElementsToInspect(e) <=> ~Higher(scores[e], ScoreOf(q))
<1> DEFINE p == Position(e)
           r == rank[p]
<1>1. /\ Size \in Nat /\ p \in 1..Size /\ order[p] = e /\ r \in p..Size
      /\ ElementsToInspect(e) = r
    BY PositionFacts
<1>2. /\ index = 0 /\ order \in [1..Size -> 1..Size]
      /\ \A i, j \in 1..Size : i < j => AtLeast(ScoreOf(i), ScoreOf(j))
      /\ \A i \in 1..Size : \A j \in i..rank[i] : Same(ScoreOf(i), ScoreOf(j))
      /\ \A i \in 1..Size : rank[i] < Size => ~Tied(rank[i])
    BY SMTT(30) DEF RankInv, IInv, TypeOK, RankEndsItsTie
<1>3. \A i \in 1..Size : ScoreOf(i) \in Fractions
    BY <1>2, ScoresAreFractions DEF ScoreOf, IInv
<1>4. scores[e] = ScoreOf(p)
    BY <1>1 DEF ScoreOf
<1> HIDE DEF p, r
<1>5. CASE q < p
    <2>1. AtLeast(ScoreOf(q), ScoreOf(p))
        BY <1>1, <1>2, <1>5
    <2> QED BY <1>1, <1>4, <1>5, <2>1 DEF AtLeast
<1>6. CASE q \in p..r
    <2>1. Same(ScoreOf(p), ScoreOf(q))
        BY <1>1, <1>2, <1>6 DEF r
    <2>2. AtLeast(ScoreOf(q), ScoreOf(p))
        BY <1>1, <1>3, <2>1, SameIsBoth
    <2> QED BY <1>1, <1>4, <1>6, <2>2 DEF AtLeast
<1>7. CASE q > r
    <2>1. r \in 1..Size /\ r < Size /\ r + 1 \in 1..Size
        BY <1>1, <1>7
    <2>2. Same(ScoreOf(p), ScoreOf(r))
        BY <1>1, <1>2 DEF r
    <2>3. AtLeast(ScoreOf(r), ScoreOf(r + 1)) /\ ~Same(ScoreOf(r), ScoreOf(r + 1))
        BY SMTT(30), <1>1, <1>2, <2>1 DEF Tied, ScoreOf, r
    <2>4. r + 1 = q \/ AtLeast(ScoreOf(r + 1), ScoreOf(q))
        BY <1>1, <1>2, <1>7, <2>1
    <2>5. ~AtLeast(ScoreOf(r + 1), ScoreOf(r))
        BY <1>3, <2>1, <2>3, SameIsBoth
    <2>6. ~AtLeast(ScoreOf(q), ScoreOf(p))
        <3> SUFFICES ASSUME AtLeast(ScoreOf(q), ScoreOf(p)) PROVE FALSE
            OBVIOUS
        <3>1. AtLeast(ScoreOf(p), ScoreOf(r))
            BY <1>1, <1>3, <2>1, <2>2, SameIsBoth
        <3>2. AtLeast(ScoreOf(q), ScoreOf(r))
            BY <1>1, <1>3, <2>1, <3>1, AtLeastTransitive
        <3>3. AtLeast(ScoreOf(r + 1), ScoreOf(r))
            BY <1>3, <2>1, <2>4, <3>2, AtLeastTransitive
        <3> QED BY <2>5, <3>3
    <2> QED BY <1>1, <1>4, <1>7, <2>6 DEF AtLeast
<1> QED BY <1>1, <1>5, <1>6, <1>7

LEMMA DoneRanks ==
    ASSUME IInv, RankInv, pc = "done", NEW e \in 1..Size
    PROVE  ElementsToInspect(e) = Cardinality({f \in 1..Size : ~Higher(scores[e], scores[f])})
<1> DEFINE r == ElementsToInspect(e)
           S == {f \in 1..Size : ~Higher(scores[e], scores[f])}
           o == [q \in 1..r |-> order[q]]
<1>1. /\ Size \in Nat /\ r \in 0..Size /\ r \in Nat
      /\ order \in [1..Size -> 1..Size]
    <2>1. /\ Size \in Nat /\ Position(e) \in 1..Size /\ r = rank[Position(e)]
          /\ rank[Position(e)] \in Position(e)..Size
        BY PositionFacts
    <2>2. order \in [1..Size -> 1..Size]
        BY DEF IInv, TypeOK
    <2> HIDE DEF r
    <2>3. r \in 0..Size /\ r \in Nat
        BY <2>1
    <2> QED BY <2>1, <2>2, <2>3
<1>2. /\ \A i, j \in 1..Size : order[i] = order[j] => i = j
      /\ \A f \in 1..Size : \E i \in 1..Size : order[i] = f
    <2>1. \A p, q \in 1..Size : p < q => order[p] # order[q]
        BY DEF RankInv
    <2> QED BY <1>1, <2>1, InjectiveIsSurjective
<1>3. \A q \in 1..Size : q <= r <=> ~Higher(scores[e], scores[order[q]])
    BY RankDivides DEF ScoreOf
<1> HIDE DEF r
<1>4. o \in [1..r -> S]
    BY <1>1, <1>3
<1>5. \A i, j \in 1..r : o[i] = o[j] => i = j
    BY SMTT(30), <1>1, <1>2
<1>6. \A f \in S : \E i \in 1..r : o[i] = f
    <2> TAKE f \in S
    <2>1. PICK i \in 1..Size : order[i] = f
        BY <1>2
    <2>2. i \in 1..r
        BY <1>1, <1>3, <2>1
    <2> QED BY <2>1, <2>2
<1> HIDE DEF S, o
<1>7. o \in Bijection(1..r, S)
    BY <1>4, <1>5, <1>6, Fun_IsBij
<1>8. Cardinality(S) = r
    BY <1>1, <1>7, Fun_ExistsBij, FS_CountingElements
<1> QED BY <1>8 DEF S, r

\* The rank of an element is the number of elements that may be inspected up
\* to it, however rounding has ordered equal scores.
THEOREM RanksAreWorstCase == Spec => []RankIsWorstCase
<1>1. IInv /\ RankInv => RankIsWorstCase
    BY DoneRanks DEF RankIsWorstCase
<1> QED BY <1>1, Invariant, RankInvariant, PTL

\* No method ranks an element behind one that it dominates: all fourteen grow
\* with the failed tests that touch an element and fall with the passed ones,
\* through every 0 they answer for a denominator.
THEOREM DominantsComeFirst == Spec => []DominantIsNotOutranked
<1>1. IInv /\ RankInv => DominantIsNotOutranked
    <2> SUFFICES ASSUME IInv, RankInv, pc = "done", NEW e \in 1..Size, NEW f \in 1..Size,
                        Counts(spectrum, e).a11 >= Counts(spectrum, f).a11,
                        Counts(spectrum, e).a10 <= Counts(spectrum, f).a10
                 PROVE  ElementsToInspect(e) <= ElementsToInspect(f)
        BY DEF DominantIsNotOutranked
    <2> DEFINE E == {g \in 1..Size : ~Higher(scores[e], scores[g])}
               F == {g \in 1..Size : ~Higher(scores[f], scores[g])}
    <2>1. \A g \in 1..Size : scores[g] = Score(method, Counts(spectrum, g)) /\ scores[g] \in Fractions
        BY ScoresAreFractions DEF IInv
    <2>2. Dominates(Counts(spectrum, e), Counts(spectrum, f))
        BY CountsDominate DEF IInv, TypeOK
    <2>3. AtLeast(scores[e], scores[f])
        BY <2>1, <2>2, ScoreAtLeast
    <2>4. E \subseteq F
        <3> SUFFICES ASSUME NEW g \in 1..Size, AtLeast(scores[g], scores[e])
                     PROVE  AtLeast(scores[g], scores[f])
            BY DEF AtLeast
        <3> QED BY <2>1, <2>3, AtLeastTransitive
    <2>5. Size \in Nat /\ IsFiniteSet(1..Size)
        BY SizeIsNat, FS_Interval DEF IInv
    <2>6. IsFiniteSet(F)
        BY <2>5, FS_Subset
    <2> HIDE DEF E, F
    <2>7. Cardinality(E) <= Cardinality(F)
        BY <2>4, <2>6, FS_Subset
    <2> QED BY <2>7, DoneRanks DEF E, F
<1> QED BY <1>1, Invariant, RankInvariant, PTL

=============================================================================
