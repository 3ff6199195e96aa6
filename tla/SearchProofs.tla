---------------------------- MODULE SearchProofs ----------------------------
(***************************************************************************)
(* Whatever the alphabet, the strings a tester offers at a time, the       *)
(* formula and the order in which the core decides, backtracks and         *)
(* restarts: the plug-in never reads an empty list of options and never    *)
(* asks for a length that is not there; a value tester means the same      *)
(* strings for good, and the testers of a length offer each of its strings *)
(* once; an answer sat has a value that the formula accepts, and an answer *)
(* unsat is given only if there is none.                                   *)
(***************************************************************************)
EXTENDS Search, Integers, SequenceTheorems, FiniteSetTheorems, WellFoundedInduction, TLAPS

-----------------------------------------------------------------------------
(* The operators of Search on the variables they read, so that they can be *)
(* told before and after a step.                                           *)

NextOf(p, base) ==
    [i \in DOMAIN base |->
        LET carry == IF \A j \in 1..i - 1 : base[j] = p.charSetSize - 1 THEN 1 ELSE 0
        IN (base[i] + carry) % p.charSetSize]

\* f is the encodings of 0..n, from the first one on.
Runs(p, first, n, f) == f = [k \in 0..n |-> IF k = 0 THEN first ELSE NextOf(p, f[k - 1])]
RunOf(p, first) ==
    LET run[k \in 0..p.valStep] == IF k = 0 THEN first ELSE NextOf(p, run[k - 1]) IN run
Stops(p, first, k) ==
    /\ \A j \in 0..k - 1 : ~Covered(RunOf(p, first)[j])
    /\ Covered(RunOf(p, first)[k]) \/ k = p.valStep
OfferedOf(p, first) == CHOOSE k \in 0..p.valStep : Stops(p, first, k)
LastOf(p, first) == RunOf(p, first)[OfferedOf(p, first) - 1]
Zeros(n) == [d \in 1..n + 1 |-> 0]
FirstOf(p, ranges, n, i) == IF i = 0 THEN Zeros(n) ELSE NextOf(p, ranges[ValTester(n, i - 1)])
OptionsOf(p, ranges, n, i) ==
    LET first == FirstOf(p, ranges, n, i)
    IN [tester |-> ValTester(n, i),
        premise |-> {<<LenTester((n \div LenStep) + 1), n>>}
                    \cup {<<ValTester(n, j), More>> : j \in 0..i - 1},
        offers |-> [o \in {i * p.valStep + k : k \in 0..OfferedOf(p, first) - 1} |->
                       ValString(RunOf(p, first)[o - i * p.valStep])],
        more |-> ~Covered(RunOf(p, first)[OfferedOf(p, first)])]

LEMMA FirstIs == \A n, i : FirstEncoding(n, i) = FirstOf(problem, valRangeMap, n, i)
    BY DEF FirstEncoding, FirstOf, NextValEncode, NextOf, Zeros

LEMMA RunIs == \A n, i : Encodings(n, i) = RunOf(problem, FirstOf(problem, valRangeMap, n, i))
    BY FirstIs DEF Encodings, RunOf, NextValEncode, NextOf

LEMMA OfferedIs == \A n, i : Offered(n, i) = OfferedOf(problem, FirstOf(problem, valRangeMap, n, i))
    BY RunIs DEF Offered, OfferedOf, Stops

LEMMA OptionsAre == \A n, i : ValOptions(n, i) = OptionsOf(problem, valRangeMap, n, i)
<1> TAKE n, i
<1> DEFINE first == FirstOf(problem, valRangeMap, n, i)
<1>1. /\ Encodings(n, i) = RunOf(problem, first)
      /\ Offered(n, i) = OfferedOf(problem, first)
    BY RunIs, OfferedIs
<1>2. ValOptions(n, i) =
        [tester |-> ValTester(n, i),
         premise |-> {<<LenTester((n \div LenStep) + 1), n>>}
                     \cup {<<ValTester(n, j), More>> : j \in 0..i - 1},
         offers |-> [o \in {i * problem.valStep + k : k \in 0..OfferedOf(problem, first) - 1} |->
                        ValString(RunOf(problem, first)[o - i * problem.valStep])],
         more |-> ~Covered(RunOf(problem, first)[OfferedOf(problem, first)])]
    BY <1>1, Zenon DEF ValOptions
<1> QED BY <1>2, Zenon DEF OptionsOf

-----------------------------------------------------------------------------
(* What a tester offers.                                                   *)

LEMMA LeastOf ==
    ASSUME NEW S \in SUBSET Nat, S # {}
    PROVE  \E k \in S : \A l \in S : k <= l
<1>1. PICK k \in S : \A l \in S : ~(<<l, k>> \in OpToRel(<, Nat))
    <2>1. \E k \in S : \A l \in S : ~(<<l, k>> \in OpToRel(<, Nat))
        BY NatLessThanWellFounded, WFMin, Zenon
    <2> QED BY <2>1
<1>2. \A l \in S : ~(l < k)
    BY <1>1 DEF OpToRel
<1> QED BY <1>2

\* The definition of a run defines one.
LEMMA RunExists ==
    ASSUME NEW p, NEW first
    PROVE  \A n \in Nat : \E f : Runs(p, first, n, f)
<1> DEFINE S == {n \in Nat : ~\E f : Runs(p, first, n, f)}
<1>1. SUFFICES ASSUME S # {} PROVE FALSE
    OBVIOUS
<1>2. PICK n \in S : \A l \in S : n <= l
    BY <1>1, LeastOf
<1>3. n # 0
    <2> DEFINE f == [k \in 0..0 |-> first]
    <2>1. \A k \in 0..0 : k = 0
        OBVIOUS
    <2>2. Runs(p, first, 0, f)
        BY <2>1 DEF Runs
    <2> QED BY <2>2
<1>4. n - 1 \in Nat /\ n - 1 \notin S
    BY <1>2, <1>3
<1>5. PICK f : Runs(p, first, n - 1, f)
    BY <1>4
<1> DEFINE g == [k \in 0..n |-> IF k = 0 THEN first ELSE NextOf(p, f[k - 1])]
<1>6. \A k \in 0..n - 1 : g[k] = f[k]
    <2>1. \A k \in 0..n - 1 : k \in 0..n
        BY <1>4
    <2>2. \A k \in 0..n - 1 : f[k] = IF k = 0 THEN first ELSE NextOf(p, f[k - 1])
        BY <1>5 DEF Runs
    <2> QED BY <2>1, <2>2
<1>7. \A k \in 0..n : k # 0 => k - 1 \in 0..n - 1
    BY <1>4
<1>8. g = [k \in 0..n |-> IF k = 0 THEN first ELSE NextOf(p, g[k - 1])]
    <2> HIDE DEF g
    <2>1. g = [k \in 0..n |-> IF k = 0 THEN first ELSE NextOf(p, f[k - 1])]
        BY DEF g
    <2>2. \A k \in 0..n : (IF k = 0 THEN first ELSE NextOf(p, f[k - 1]))
                              = (IF k = 0 THEN first ELSE NextOf(p, g[k - 1]))
        BY <1>6, <1>7
    <2> QED BY <2>1, <2>2
<1>9. Runs(p, first, n, g)
    BY <1>8 DEF Runs
<1> QED BY <1>2, <1>9

LEMMA RunUnfolds ==
    ASSUME NEW p, p.valStep \in Nat, NEW first
    PROVE  /\ RunOf(p, first)[0] = first
           /\ \A k \in 1..p.valStep : RunOf(p, first)[k] = NextOf(p, RunOf(p, first)[k - 1])
<1> DEFINE run == RunOf(p, first)
<1>1. PICK f : Runs(p, first, p.valStep, f)
    BY RunExists
<1>2. Runs(p, first, p.valStep, run)
    <2>1. run = CHOOSE g : g = [k \in 0..p.valStep |-> IF k = 0 THEN first ELSE NextOf(p, g[k - 1])]
        BY DEF RunOf
    <2>2. f = [k \in 0..p.valStep |-> IF k = 0 THEN first ELSE NextOf(p, f[k - 1])]
        BY <1>1 DEF Runs
    <2> QED BY <2>1, <2>2 DEF Runs
<1> HIDE DEF run
<1>3. \A k \in 0..p.valStep : run[k] = IF k = 0 THEN first ELSE NextOf(p, run[k - 1])
    BY <1>2 DEF Runs
<1> QED BY <1>3 DEF run

\* A tester offers up to valStep encodings, at least one if its first is one;
\* there is "more" if the encoding after the last is one.
LEMMA OfferedFacts ==
    ASSUME NEW p, p.valStep \in Nat \ {0}, NEW first
    PROVE  /\ OfferedOf(p, first) \in 0..p.valStep /\ Stops(p, first, OfferedOf(p, first))
           /\ ~Covered(first) => OfferedOf(p, first) > 0
           /\ OfferedOf(p, first) > 0 =>
                  RunOf(p, first)[OfferedOf(p, first)] = NextOf(p, LastOf(p, first))
<1> DEFINE run == RunOf(p, first)
           S == {k \in Nat : k <= p.valStep /\ (Covered(run[k]) \/ k = p.valStep)}
<1>1. PICK k \in S : \A l \in S : k <= l
    <2>1. S # {} /\ S \subseteq Nat
        OBVIOUS
    <2> QED BY <2>1, LeastOf
<1>2. k \in 0..p.valStep /\ Stops(p, first, k)
    <2>1. ASSUME NEW j \in 0..k - 1 PROVE ~Covered(run[j])
        <3>1. j \in Nat /\ j < k /\ j <= p.valStep
            BY <1>1
        <3>2. j \notin S
            BY <1>1, <3>1
        <3> QED BY <3>1, <3>2
    <2> QED BY <1>1, <2>1 DEF Stops
<1>3. OfferedOf(p, first) \in 0..p.valStep /\ Stops(p, first, OfferedOf(p, first))
    BY <1>2 DEF OfferedOf
<1>4. run[0] = first
    BY RunUnfolds
<1>5. ASSUME ~Covered(first) PROVE OfferedOf(p, first) > 0
    <2>1. ~Stops(p, first, 0)
        BY <1>4, <1>5 DEF Stops
    <2> QED BY <1>3, <2>1
<1>6. ASSUME OfferedOf(p, first) > 0
      PROVE  run[OfferedOf(p, first)] = NextOf(p, LastOf(p, first))
    <2>1. OfferedOf(p, first) \in 1..p.valStep
        BY <1>3, <1>6
    <2> QED BY <2>1, RunUnfolds DEF LastOf
<1> QED BY <1>3, <1>5, <1>6

\* The first encoding of a length is that of a string, the empty one too.
LEMMA ZerosAreOne == \A n \in Nat : ~Covered(Zeros(n))
<1> TAKE n \in Nat
<1>1. Zeros(n) \in [1..n + 1 -> Nat]
    BY DEF Zeros
<1>2. Len(Zeros(n)) = n + 1
    <2>1. Zeros(n) \in Seq(Nat) /\ DOMAIN Zeros(n) = 1..n + 1
        <3>1. n + 1 \in Nat
            OBVIOUS
        <3> QED BY <1>1, <3>1, SeqDef
    <2>2. Len(Zeros(n)) \in Nat /\ DOMAIN Zeros(n) = 1..Len(Zeros(n))
        BY <2>1, LenProperties
    <2>3. \A a, b \in Nat : 1..a = 1..b => a = b
        <3> SUFFICES ASSUME NEW a \in Nat, NEW b \in Nat, 1..a = 1..b, a < b PROVE FALSE
            OBVIOUS
        <3>1. b \in 1..b /\ b \notin 1..a
            OBVIOUS
        <3> QED BY <3>1
    <2>4. n + 1 \in Nat
        OBVIOUS
    <2> QED BY <2>1, <2>2, <2>3, <2>4
<1> QED BY <1>2 DEF Covered, Zeros
-----------------------------------------------------------------------------
(* What a call of the plug-in may do to its maps.                          *)

LengthsOf(p) == 0..p.maxLen + 2 * LenStep
MadeTesters(p, vals) == UNION {{ValTester(n, i) : i \in 0..vals[n] - 1} : n \in LengthsOf(p)}

\* Every value tester there is offers something, and its range is its last
\* encoding.
MapsOK(p, lens, vals, ranges) ==
    /\ lens \in Nat /\ vals \in [LengthsOf(p) -> Nat]
    /\ DOMAIN ranges = MadeTesters(p, vals)
    /\ \A n \in LengthsOf(p) : \A i \in 0..vals[n] - 1 :
           /\ OfferedOf(p, FirstOf(p, ranges, n, i)) > 0
           /\ ranges[ValTester(n, i)] = LastOf(p, FirstOf(p, ranges, n, i))

\* An axiom is about testers that there are.
AxiomOK(p, lens, vals, ranges, ax) ==
    \/ \E k \in 1..lens : ax = LenOptions(k)
    \/ \E n \in LengthsOf(p) : \E i \in 0..vals[n] - 1 : ax = OptionsOf(p, ranges, n, i)

Grown(p, lens, vals, ranges, lens2, vals2, ranges2) ==
    /\ lens <= lens2
    /\ \A n \in LengthsOf(p) : vals[n] <= vals2[n]
    /\ \A t \in DOMAIN ranges : t \in DOMAIN ranges2 /\ ranges2[t] = ranges[t]

Good(o) ==
    /\ ~o.crashed
    /\ MapsOK(problem, o.lenTesters, o.valTesters, o.ranges)
    /\ Grown(problem, lenTesters, valTesters, valRangeMap, o.lenTesters, o.valTesters, o.ranges)
    /\ \A ax \in o.axioms : AxiomOK(problem, o.lenTesters, o.valTesters, o.ranges, ax)

MapsInv == problem \in Problems /\ MapsOK(problem, lenTesters, valTesters, valRangeMap)

LEMMA OutcomeFields ==
    \A lens, vals, ranges, axioms :
        LET o == Outcome(lens, vals, ranges, axioms)
        IN /\ o.lenTesters = lens /\ o.valTesters = vals /\ o.ranges = ranges
           /\ o.axioms = axioms /\ o.crashed = FALSE
    BY DEF Outcome

LEMMA TesterFacts ==
    /\ \A k, j : LenTester(k) = LenTester(j) => k = j
    /\ \A n, i, m, j : ValTester(n, i) = ValTester(m, j) => n = m /\ i = j
    /\ \A k, n, i : LenTester(k) # ValTester(n, i)
    /\ \A k : LenTester(k)[1] = "len" /\ LenTester(k)[2] = k
    /\ \A n, i : ValTester(n, i)[1] = "val" /\ ValTester(n, i)[2] = n /\ ValTester(n, i)[3] = i
    /\ \A k \in Nat : LenTester(k) \in Testers
    /\ \A n, i \in Nat : ValTester(n, i) \in Testers
<1>1. \A k : LenTester(k)[1] = "len" /\ LenTester(k)[2] = k
    BY DEF LenTester
<1>2. \A n, i : ValTester(n, i)[1] = "val" /\ ValTester(n, i)[2] = n /\ ValTester(n, i)[3] = i
    BY DEF ValTester
<1>3. "len" # "val"
    OBVIOUS
<1>4. \A k \in Nat : LenTester(k) \in Testers
    BY DEF LenTester, Testers
<1>5. \A n, i \in Nat : ValTester(n, i) \in Testers
    BY DEF ValTester, Testers
<1>6. \A k, j : LenTester(k) = LenTester(j) => k = j
    BY <1>1
<1>7. \A n, i, m, j : ValTester(n, i) = ValTester(m, j) => n = m /\ i = j
    BY <1>2
<1>8. \A k, n, i : LenTester(k) # ValTester(n, i)
    BY <1>1, <1>2, <1>3
<1> QED BY <1>1, <1>2, <1>4, <1>5, <1>6, <1>7, <1>8

LEMMA ProblemFacts ==
    ASSUME NEW p \in Problems
    PROVE  /\ LenStep \in Nat \ {0} /\ p.valStep \in Nat \ {0} /\ p.maxLen \in Nat
           /\ LengthsOf(p) \subseteq Nat
           /\ \A n \in Nat : n < p.maxLen + 2 * LenStep => n \in LengthsOf(p)
<1>1. LenStep \in Nat \ {0} /\ p.valStep \in Nat \ {0} /\ p.maxLen \in Nat
    BY SearchAssumption
<1> QED BY <1>1 DEF LengthsOf

\* The encodings a tester starts from stay as they are when there are more
\* testers.
LEMMA FirstKept ==
    ASSUME NEW p \in Problems, NEW lens, NEW vals, NEW ranges, MapsOK(p, lens, vals, ranges),
           NEW ranges2, \A t \in DOMAIN ranges : ranges2[t] = ranges[t],
           NEW n \in LengthsOf(p), NEW i \in 0..vals[n]
    PROVE  FirstOf(p, ranges2, n, i) = FirstOf(p, ranges, n, i)
<1>1. CASE i = 0
    BY <1>1 DEF FirstOf
<1>2. CASE i # 0
    <2>1. i - 1 \in 0..vals[n] - 1
        BY <1>2, ProblemFacts DEF MapsOK
    <2>2. ValTester(n, i - 1) \in DOMAIN ranges
        BY <2>1 DEF MapsOK, MadeTesters
    <2> QED BY <1>2, <2>2 DEF FirstOf
<1> QED BY <1>1, <1>2

LEMMA OptionsKept ==
    ASSUME NEW p \in Problems, NEW lens, NEW vals, NEW ranges, MapsOK(p, lens, vals, ranges),
           NEW ranges2, \A t \in DOMAIN ranges : ranges2[t] = ranges[t],
           NEW n \in LengthsOf(p), NEW i \in 0..vals[n]
    PROVE  OptionsOf(p, ranges2, n, i) = OptionsOf(p, ranges, n, i)
<1>1. FirstOf(p, ranges2, n, i) = FirstOf(p, ranges, n, i)
    BY FirstKept
<1> QED BY <1>1 DEF OptionsOf

\* Axioms are kept when there are more testers.
LEMMA AxiomKept ==
    ASSUME NEW p \in Problems, NEW lens, NEW vals, NEW ranges, MapsOK(p, lens, vals, ranges),
           NEW lens2 \in Nat, NEW vals2 \in [LengthsOf(p) -> Nat], NEW ranges2,
           Grown(p, lens, vals, ranges, lens2, vals2, ranges2),
           NEW ax, AxiomOK(p, lens, vals, ranges, ax)
    PROVE  AxiomOK(p, lens2, vals2, ranges2, ax)
<1>1. ASSUME NEW k \in 1..lens, ax = LenOptions(k) PROVE AxiomOK(p, lens2, vals2, ranges2, ax)
    <2>1. k \in 1..lens2
        BY <1>1 DEF Grown, MapsOK
    <2> QED BY <1>1, <2>1 DEF AxiomOK
<1>2. ASSUME NEW n \in LengthsOf(p), NEW i \in 0..vals[n] - 1, ax = OptionsOf(p, ranges, n, i)
      PROVE  AxiomOK(p, lens2, vals2, ranges2, ax)
    <2>1. vals[n] \in Nat /\ vals2[n] \in Nat /\ vals[n] <= vals2[n]
        BY DEF Grown, MapsOK
    <2>2. i \in 0..vals[n] /\ i \in 0..vals2[n] - 1
        BY <2>1
    <2>3. OptionsOf(p, ranges2, n, i) = OptionsOf(p, ranges, n, i)
        BY <2>2, OptionsKept DEF Grown
    <2> QED BY <1>2, <2>2, <2>3 DEF AxiomOK
<1> QED BY <1>1, <1>2 DEF AxiomOK

\* Value testers of a length are asserted, again or the next one for the first
\* time.
LEMMA WithValGood ==
    ASSUME MapsInv, NEW n \in LengthsOf(problem), NEW testers \in SUBSET (0..valTesters[n]),
           valTesters[n] \in testers =>
               OfferedOf(problem, FirstOf(problem, valRangeMap, n, valTesters[n])) > 0
    PROVE  LET o == WithValTesters(n, testers)
           IN /\ Good(o)
              /\ o.axioms = {ValOptions(n, i) : i \in testers}
              /\ \A i \in testers : i < o.valTesters[n]
<1> DEFINE v == valTesters[n]
           new == IF v \in testers THEN v + 1 ELSE v
           vals == [valTesters EXCEPT ![n] = new]
           first(m, i) == FirstOf(problem, valRangeMap, m, i)
           made == {ValTester(n, i) : i \in testers}
           ranges == [t \in DOMAIN valRangeMap \cup made |->
                         IF t \in made THEN LastOf(problem, first(n, t[3])) ELSE valRangeMap[t]]
           axioms == {ValOptions(n, i) : i \in testers}
<1>1. /\ problem \in Problems /\ lenTesters \in Nat /\ valTesters \in [LengthsOf(problem) -> Nat]
      /\ v \in Nat /\ DOMAIN valRangeMap = MadeTesters(problem, valTesters)
      /\ LengthsOf(problem) \subseteq Nat
    BY ProblemFacts DEF MapsInv, MapsOK
<1>2. \A i \in testers : i \in Nat /\ (i = v \/ i \in 0..v - 1) /\ (i >= v <=> i = v)
    BY <1>1
<1>3. \A i \in testers : OfferedOf(problem, first(n, i)) > 0
    BY <1>2 DEF MapsInv, MapsOK
<1>4. v + Cardinality({i \in testers : i >= v}) = new
    <2>1. CASE v \in testers
        <3>1. {i \in testers : i >= v} = {v}
            <4> HIDE DEF v
            <4> QED BY <1>2, <2>1
        <3> QED BY <1>1, <2>1, <3>1, FS_Singleton
    <2>2. CASE v \notin testers
        <3>1. {i \in testers : i >= v} = {}
            <4> HIDE DEF v
            <4> QED BY <1>2, <2>2
        <3> QED BY <1>1, <2>2, <3>1, FS_EmptySet
    <2> QED BY <2>1, <2>2
<1>5. WithValTesters(n, testers) = Outcome(lenTesters, vals, ranges, axioms)
    <2>1. \A i \in testers : Offered(n, i) # 0
        BY <1>1, <1>3, OfferedIs
    <2>2. \A t : Encodings(n, t[3])[Offered(n, t[3]) - 1] = LastOf(problem, first(n, t[3]))
        BY RunIs, OfferedIs DEF LastOf
    <2>3. [valTesters EXCEPT ![n] = @ + Cardinality({i \in testers : i >= @})] = vals
        BY <1>4
    <2> HIDE DEF vals, new, v, first
    <2> QED BY <2>1, <2>2, <2>3 DEF WithValTesters
<1> DEFINE o == Outcome(lenTesters, vals, ranges, axioms)
<1>6. /\ o.lenTesters = lenTesters /\ o.valTesters = vals /\ o.ranges = ranges
      /\ o.axioms = axioms /\ o.crashed = FALSE
    BY OutcomeFields
<1>7. /\ new \in Nat /\ v <= new /\ new <= v + 1
      /\ vals \in [LengthsOf(problem) -> Nat] /\ vals[n] = new
      /\ \A m \in LengthsOf(problem) : m # n => vals[m] = valTesters[m]
    BY <1>1
<1>8. \A i \in testers : i \in 0..new - 1
    <2> TAKE i \in testers
    <2>1. CASE i = v
        <3>1. new = v + 1
            BY <2>1
        <3> QED BY <1>1, <2>1, <3>1
    <2>2. CASE i \in 0..v - 1
        <3> HIDE DEF v, new
        <3> QED BY <1>1, <1>7, <2>2
    <2> QED BY <1>2, <2>1, <2>2
<1> HIDE DEF vals, new
<1>9. \A t \in DOMAIN valRangeMap : t \in DOMAIN ranges /\ ranges[t] = valRangeMap[t]
    <2> TAKE t \in DOMAIN valRangeMap
    <2>1. CASE t \notin made
        BY <2>1
    <2>2. ASSUME NEW i \in testers, t = ValTester(n, i) PROVE ranges[t] = valRangeMap[t]
        <3>1. PICK m \in LengthsOf(problem) : \E j \in 0..valTesters[m] - 1 : t = ValTester(m, j)
            BY <1>1 DEF MadeTesters
        <3>1a. PICK j \in 0..valTesters[m] - 1 : t = ValTester(m, j)
            BY <3>1
        <3>1b. ValTester(n, i) = ValTester(m, j) /\ t[3] = ValTester(n, i)[3]
            BY <2>2, <3>1a
        <3>2. m = n /\ j = i /\ t[3] = i
            BY <3>1b, TesterFacts
        <3>3. valRangeMap[t] = LastOf(problem, first(n, i))
            BY <2>2, <3>1a, <3>2 DEF MapsInv, MapsOK
        <3> QED BY <2>2, <3>2, <3>3
    <2> QED BY <2>1, <2>2
<1>10. DOMAIN ranges = MadeTesters(problem, vals)
    <2>1. ASSUME NEW t \in DOMAIN ranges PROVE t \in MadeTesters(problem, vals)
        <3>1. CASE t \in made
            <4>1. PICK i \in testers : t = ValTester(n, i)
                BY <3>1
            <4> QED BY <1>7, <1>8, <4>1 DEF MadeTesters
        <3>2. CASE t \in DOMAIN valRangeMap
            <4>1. PICK m \in LengthsOf(problem) : \E j \in 0..valTesters[m] - 1 : t = ValTester(m, j)
                BY <1>1, <3>2 DEF MadeTesters
            <4>1a. PICK j \in 0..valTesters[m] - 1 : t = ValTester(m, j)
                BY <4>1
            <4>2. j \in 0..vals[m] - 1
                BY <1>1, <1>7, <4>1a
            <4> QED BY <4>1a, <4>2 DEF MadeTesters
        <3> QED BY <3>1, <3>2
    <2>2. ASSUME NEW t \in MadeTesters(problem, vals) PROVE t \in DOMAIN ranges
        <3>1. PICK m \in LengthsOf(problem) : \E j \in 0..vals[m] - 1 : t = ValTester(m, j)
            BY <2>2 DEF MadeTesters
        <3>1a. PICK j \in 0..vals[m] - 1 : t = ValTester(m, j)
            BY <3>1
        <3>2. CASE j \in 0..valTesters[m] - 1
            BY <1>1, <3>1a, <3>2 DEF MadeTesters
        <3>3. CASE j \notin 0..valTesters[m] - 1
            <4>1. m = n /\ j = v /\ v \in testers
                BY <1>1, <1>7, <3>1a, <3>3 DEF new
            <4> QED BY <3>1a, <4>1
        <3> QED BY <3>2, <3>3
    <2> QED BY <2>1, <2>2
<1>11. ASSUME NEW m \in LengthsOf(problem), NEW j \in 0..vals[m] - 1
       PROVE  /\ FirstOf(problem, ranges, m, j) = first(m, j)
              /\ j \in 0..valTesters[m] - 1 \/ (m = n /\ j = v /\ v \in testers)
    <2>1. j \in 0..valTesters[m] - 1 \/ (m = n /\ j = v /\ v \in testers)
        BY <1>1, <1>7 DEF new
    <2>2. j \in 0..valTesters[m]
        BY <1>1, <2>1
    <2> HIDE DEF ranges
    <2>3. FirstOf(problem, ranges, m, j) = first(m, j)
        BY <1>1, <1>9, <2>2, FirstKept DEF MapsInv
    <2> QED BY <2>1, <2>3
<1>12. MapsOK(problem, lenTesters, vals, ranges)
    <2>1. ASSUME NEW m \in LengthsOf(problem), NEW j \in 0..vals[m] - 1
          PROVE  /\ OfferedOf(problem, FirstOf(problem, ranges, m, j)) > 0
                 /\ ranges[ValTester(m, j)] = LastOf(problem, FirstOf(problem, ranges, m, j))
        <3>1. CASE j \in 0..valTesters[m] - 1
            <4>1. ValTester(m, j) \in DOMAIN valRangeMap
                BY <1>1, <3>1 DEF MadeTesters
            <4>2. ranges[ValTester(m, j)] = valRangeMap[ValTester(m, j)]
                BY <1>9, <4>1
            <4> HIDE DEF ranges
            <4> QED BY <1>11, <3>1, <4>2 DEF MapsInv, MapsOK
        <3>2. CASE m = n /\ j = v /\ v \in testers
            <4>1. ValTester(m, j) \in made /\ ValTester(m, j)[3] = j
                BY <3>2, TesterFacts
            <4>2. ranges[ValTester(m, j)] = LastOf(problem, first(n, j))
                BY <4>1
            <4> HIDE DEF ranges
            <4> QED BY <1>3, <1>11, <3>2, <4>2
        <3> QED BY <1>11, <3>1, <3>2
    <2> HIDE DEF ranges
    <2> QED BY <1>1, <1>7, <1>10, <2>1 DEF MapsOK
<1>13. Grown(problem, lenTesters, valTesters, valRangeMap, lenTesters, vals, ranges)
    <2>1. \A m \in LengthsOf(problem) : valTesters[m] <= vals[m]
        BY <1>1, <1>7
    <2> HIDE DEF ranges
    <2> QED BY <1>1, <1>9, <2>1 DEF Grown
<1>14. ASSUME NEW i \in testers
       PROVE  AxiomOK(problem, lenTesters, vals, ranges, ValOptions(n, i))
    <2>1. i \in 0..vals[n] - 1
        BY <1>7, <1>8
    <2> HIDE DEF ranges
    <2>2. ValOptions(n, i) = OptionsOf(problem, ranges, n, i)
        BY <1>1, <1>9, OptionsAre, OptionsKept DEF MapsInv
    <2> QED BY <2>1, <2>2 DEF AxiomOK
<1>15. Good(o)
    <2> HIDE DEF ranges, o
    <2> QED BY <1>6, <1>12, <1>13, <1>14 DEF Good
<1>16. \A i \in testers : i < o.valTesters[n]
    <2> HIDE DEF ranges, o
    <2> QED BY <1>6, <1>7, <1>8
<1> HIDE DEF o, ranges
<1> QED BY <1>5, <1>6, <1>15, <1>16 DEF o

\* genFreeVarOptions at a length: the first tester, or again those that have
\* no value.
LEMMA FreeVarGood ==
    ASSUME MapsInv, NEW n \in LengthsOf(problem)
    PROVE  LET o == FreeVarOptions(n, None, None)
               again == {j \in 0..valTesters[n] - 1 : EqcValue(ValTester(n, j)) = None}
           IN /\ Good(o)
              /\ valTesters[n] = 0 => o.axioms = {ValOptions(n, 0)}
              /\ valTesters[n] # 0 => o.axioms = {ValOptions(n, j) : j \in again}
<1> DEFINE again == {j \in 0..valTesters[n] - 1 : EqcValue(ValTester(n, j)) = None}
<1>1. problem \in Problems /\ valTesters[n] \in Nat /\ n \in Nat
    BY ProblemFacts DEF MapsInv, MapsOK
<1>2. CASE valTesters[n] = 0
    <2>1. FreeVarOptions(n, None, None) = WithValTesters(n, {0})
        BY <1>2 DEF FreeVarOptions
    <2>2. OfferedOf(problem, FirstOf(problem, valRangeMap, n, 0)) > 0
        <3>1. FirstOf(problem, valRangeMap, n, 0) = Zeros(n)
            BY DEF FirstOf
        <3> QED BY <1>1, <3>1, ProblemFacts, OfferedFacts, ZerosAreOne
    <2>3. {0} \in SUBSET (0..valTesters[n])
        BY <1>2
    <2>4. /\ Good(WithValTesters(n, {0}))
          /\ WithValTesters(n, {0}).axioms = {ValOptions(n, i) : i \in {0}}
        BY <1>2, <2>2, <2>3, WithValGood
    <2>5. {ValOptions(n, i) : i \in {0}} = {ValOptions(n, 0)}
        OBVIOUS
    <2> QED BY <1>2, <2>1, <2>4, <2>5
<1>3. CASE valTesters[n] # 0
    <2>1. again \in SUBSET (0..valTesters[n]) /\ valTesters[n] \notin again
        BY <1>1
    <2>2. FreeVarOptions(n, None, None) = WithValTesters(n, again)
        <3>1. None # More
            BY SearchAssumption
        <3> QED BY <1>3, <3>1 DEF FreeVarOptions
    <2> HIDE DEF again
    <2>3. Good(WithValTesters(n, again)) /\ WithValTesters(n, again).axioms = {ValOptions(n, i) : i \in again}
        BY <2>1, WithValGood
    <2> QED BY <1>3, <2>2, <2>3 DEF again
<1> QED BY <1>2, <1>3

\* The encoding after the last of a tester with "more" is the first of the
\* next one.
LEMMA NextStarts ==
    ASSUME MapsInv, NEW n \in LengthsOf(problem), NEW i \in 0..valTesters[n] - 1,
           ValOptions(n, i).more
    PROVE  OfferedOf(problem, FirstOf(problem, valRangeMap, n, i + 1)) > 0
<1> DEFINE first == FirstOf(problem, valRangeMap, n, i)
<1>1. /\ problem \in Problems /\ i \in Nat
      /\ OfferedOf(problem, first) > 0 /\ valRangeMap[ValTester(n, i)] = LastOf(problem, first)
    BY DEF MapsInv, MapsOK
<1>2. ~Covered(RunOf(problem, first)[OfferedOf(problem, first)])
    BY OptionsAre DEF OptionsOf
<1>3. FirstOf(problem, valRangeMap, n, i + 1) = NextOf(problem, LastOf(problem, first))
    <2>1. i + 1 # 0 /\ i + 1 - 1 = i
        BY <1>1
    <2> QED BY <1>1, <2>1 DEF FirstOf
<1>4. ~Covered(NextOf(problem, LastOf(problem, first)))
    BY <1>1, <1>2, ProblemFacts, OfferedFacts
<1> QED BY <1>1, <1>3, <1>4, ProblemFacts, OfferedFacts

LEMMA FreeVarMoreGood ==
    ASSUME MapsInv, NEW n \in LengthsOf(problem), NEW i \in 0..valTesters[n] - 1,
           ValOptions(n, i).more
    PROVE  LET o == FreeVarOptions(n, ValTester(n, i), More)
           IN Good(o) /\ i + 1 < o.valTesters[n]
<1> DEFINE again == {j \in 0..i - 1 : EqcValue(ValTester(n, j)) = None}
           testers == again \cup {i + 1}
<1>1. valTesters[n] \in Nat /\ i \in Nat /\ i + 1 <= valTesters[n] /\ n \in Nat
    BY ProblemFacts DEF MapsInv, MapsOK
<1>2. FreeVarOptions(n, ValTester(n, i), More) = WithValTesters(n, testers)
    <2>1. ValTester(n, i) # None
        BY <1>1, TesterFacts, SearchAssumption
    <2>2. ValTester(n, i)[3] = i
        BY TesterFacts
    <2>3. valTesters[n] # 0
        BY <1>1
    <2> QED BY <2>1, <2>2, <2>3 DEF FreeVarOptions
<1>3. testers \in SUBSET (0..valTesters[n]) /\ i + 1 \in testers /\ (valTesters[n] \in testers => valTesters[n] = i + 1)
    BY <1>1
<1> HIDE DEF testers
<1>4. valTesters[n] \in testers =>
          OfferedOf(problem, FirstOf(problem, valRangeMap, n, valTesters[n])) > 0
    BY <1>3, NextStarts
<1> QED BY <1>2, <1>3, <1>4, WithValGood

\* genLenValOptionsForFreeVar: the first length tester that is not "more".
KnownLen(tester, value, k) == IF LenTester(k) = tester THEN value ELSE EqcValue(LenTester(k))

LEMMA NoneMade ==
    ASSUME MapsInv
    PROVE  /\ Good(Outcome(lenTesters, valTesters, valRangeMap, {}))
           /\ \A k \in 1..lenTesters + 1 :
                  LET o == Outcome(IF k > lenTesters THEN k ELSE lenTesters,
                                   valTesters, valRangeMap, {LenOptions(k)})
                  IN Good(o)
<1>1. lenTesters \in Nat /\ valTesters \in [LengthsOf(problem) -> Nat]
    BY DEF MapsInv, MapsOK
<1>2. Good(Outcome(lenTesters, valTesters, valRangeMap, {}))
    <2> DEFINE o == Outcome(lenTesters, valTesters, valRangeMap, {})
    <2>1. /\ o.lenTesters = lenTesters /\ o.valTesters = valTesters /\ o.ranges = valRangeMap
          /\ o.axioms = {} /\ o.crashed = FALSE
        BY OutcomeFields
    <2>2. Grown(problem, lenTesters, valTesters, valRangeMap, lenTesters, valTesters, valRangeMap)
        BY <1>1 DEF Grown
    <2> HIDE DEF o
    <2>3. Good(o)
        BY <2>1, <2>2 DEF Good, MapsInv
    <2> QED BY <2>3 DEF o
<1>3. ASSUME NEW k \in 1..lenTesters + 1
      PROVE  Good(Outcome(IF k > lenTesters THEN k ELSE lenTesters,
                          valTesters, valRangeMap, {LenOptions(k)}))
    <2> DEFINE lens == IF k > lenTesters THEN k ELSE lenTesters
               o == Outcome(lens, valTesters, valRangeMap, {LenOptions(k)})
    <2>1. /\ o.lenTesters = lens /\ o.valTesters = valTesters /\ o.ranges = valRangeMap
          /\ o.axioms = {LenOptions(k)} /\ o.crashed = FALSE
        BY OutcomeFields
    <2>2. lens \in Nat /\ lenTesters <= lens /\ k \in 1..lens
        BY <1>1
    <2> HIDE DEF lens
    <2>3. Grown(problem, lenTesters, valTesters, valRangeMap, lens, valTesters, valRangeMap)
        BY <1>1, <2>2 DEF Grown
    <2>4. MapsOK(problem, lens, valTesters, valRangeMap)
        BY <2>2 DEF MapsInv, MapsOK
    <2>5. AxiomOK(problem, lens, valTesters, valRangeMap, LenOptions(k))
        BY <2>2 DEF AxiomOK
    <2> HIDE DEF o
    <2>6. Good(o)
        BY <2>1, <2>3, <2>4, <2>5 DEF Good
    <2> QED BY <2>6 DEF o, lens
<1> QED BY <1>2, <1>3

Decides(tester, value, k) ==
    /\ \A j \in 1..k - 1 : KnownLen(tester, value, j) = More
    /\ k <= lenTesters => KnownLen(tester, value, k) # More
    /\ LenValOptions(tester, value) =
           IF k <= lenTesters /\ KnownLen(tester, value, k) # None
           THEN FreeVarOptions(KnownLen(tester, value, k), None, None)
           ELSE Outcome(IF k > lenTesters THEN k ELSE lenTesters,
                        valTesters, valRangeMap, {LenOptions(k)})

LEMMA LenValCases ==
    ASSUME lenTesters \in Nat, NEW tester, NEW value
    PROVE  \E k \in 1..lenTesters + 1 : Decides(tester, value, k)
<1> DEFINE known(k) == KnownLen(tester, value, k)
           P(k) == (\A j \in 1..k - 1 : known(j) = More) /\ (k <= lenTesters => known(k) # More)
           S == {k \in Nat : k \in 1..lenTesters + 1 /\ (k <= lenTesters => known(k) # More)}
           first == CHOOSE k \in 1..lenTesters + 1 : P(k)
<1>1. PICK k \in S : \A l \in S : k <= l
    <2>1. lenTesters + 1 \in S
        OBVIOUS
    <2> QED BY <2>1, LeastOf
<1>2. k \in 1..lenTesters + 1 /\ P(k)
    <2>1. ASSUME NEW j \in 1..k - 1 PROVE known(j) = More
        <3>1. j \in Nat /\ j \in 1..lenTesters + 1 /\ ~(k <= j)
            BY <1>1
        <3> QED BY <1>1, <3>1
    <2> QED BY <1>1, <2>1
<1>3. first \in 1..lenTesters + 1 /\ P(first)
    BY <1>2
<1>4. LenValOptions(tester, value) =
          IF first <= lenTesters /\ known(first) # None
          THEN FreeVarOptions(known(first), None, None)
          ELSE Outcome(IF first > lenTesters THEN first ELSE lenTesters,
                       valTesters, valRangeMap, {LenOptions(first)})
    BY DEF LenValOptions, KnownLen
<1> HIDE DEF first
<1> QED BY <1>3, <1>4 DEF Decides

LEMMA LenValGood ==
    ASSUME MapsInv, NEW tester, NEW value,
           \A k \in 1..lenTesters :
               KnownLen(tester, value, k) \in LengthsOf(problem) \cup {More, None}
    PROVE  Good(LenValOptions(tester, value))
<1>0. PICK k \in 1..lenTesters + 1 : Decides(tester, value, k)
    BY LenValCases DEF MapsInv, MapsOK
<1>1. /\ k <= lenTesters => KnownLen(tester, value, k) # More
      /\ LenValOptions(tester, value) =
             IF k <= lenTesters /\ KnownLen(tester, value, k) # None
             THEN FreeVarOptions(KnownLen(tester, value, k), None, None)
             ELSE Outcome(IF k > lenTesters THEN k ELSE lenTesters,
                          valTesters, valRangeMap, {LenOptions(k)})
    BY <1>0 DEF Decides
<1>2. CASE k <= lenTesters /\ KnownLen(tester, value, k) # None
    <2>1. KnownLen(tester, value, k) \in LengthsOf(problem)
        BY <1>1, <1>2 DEF MapsInv, MapsOK
    <2> QED BY <1>1, <1>2, <2>1, FreeVarGood
<1>3. CASE ~(k <= lenTesters /\ KnownLen(tester, value, k) # None)
    <2>1. LenValOptions(tester, value) =
              Outcome(IF k > lenTesters THEN k ELSE lenTesters,
                      valTesters, valRangeMap, {LenOptions(k)})
        BY <1>1, <1>3
    <2> QED BY <2>1, NoneMade
<1> QED BY <1>2, <1>3

-----------------------------------------------------------------------------
(* The core's scopes.                                                      *)

Scope(axioms) == [choice : Choice \cup {None}, axioms : SUBSET axioms]
Stack(stack) == (\E axioms : stack \in Seq(Scope(axioms))) /\ Len(stack) > 0

\* The choice that opens a scope is an option of an axiom asserted before, whose
\* premise was chosen before, and its tester had none before.
Chosen(stack, s) ==
    /\ \E r \in 1..s - 1 : \E ax \in stack[r].axioms :
           /\ stack[s].choice \in Options(ax)
           /\ \A q \in ax.premise : \E u \in 1..s - 1 : stack[u].choice = q
    /\ \A u \in 1..s - 1 : stack[u].choice # None => stack[u].choice[1] # stack[s].choice[1]

LEMMA StackFacts ==
    ASSUME NEW stack, Stack(stack)
    PROVE  /\ Len(stack) \in Nat \ {0} /\ DOMAIN stack = 1..Len(stack)
           /\ \A s \in 1..Len(stack) : stack[s].choice \in Choice \cup {None}
<1>1. PICK axioms : stack \in Seq(Scope(axioms))
    BY DEF Stack
<1>2. Len(stack) \in Nat /\ DOMAIN stack = 1..Len(stack)
    BY <1>1, LenProperties
<1>3. ASSUME NEW s \in 1..Len(stack) PROVE stack[s].choice \in Choice \cup {None}
    <2>1. stack[s] \in Scope(axioms)
        BY <1>1, <1>3, ElementOfSeq
    <2> QED BY <2>1 DEF Scope
<1> QED BY <1>2, <1>3 DEF Stack

LEMMA StackAppend ==
    ASSUME NEW stack, Stack(stack), NEW choice \in Choice \cup {None}, NEW axs
    PROVE  LET new == Append(stack, [choice |-> choice, axioms |-> axs])
           IN /\ Stack(new) /\ Len(new) = Len(stack) + 1
              /\ \A s \in 1..Len(stack) : new[s] = stack[s]
              /\ new[Len(stack) + 1] = [choice |-> choice, axioms |-> axs]
<1> DEFINE top == [choice |-> choice, axioms |-> axs]
<1>1. PICK axioms : stack \in Seq(Scope(axioms))
    BY DEF Stack
<1> DEFINE all == axioms \cup axs
<1>2. Scope(axioms) \subseteq Scope(all)
    BY DEF Scope
<1>3. stack \in Seq(Scope(all))
    BY <1>1, <1>2, SeqMonotonic
<1>4. top \in Scope(all)
    BY DEF Scope
<1> HIDE DEF top
<1>5. /\ Append(stack, top) \in Seq(Scope(all)) /\ Len(Append(stack, top)) = Len(stack) + 1
      /\ \A i \in 1.. Len(stack) : Append(stack, top)[i] = stack[i]
      /\ Append(stack, top)[Len(stack)+1] = top
    BY <1>3, <1>4, AppendProperties
<1>6. Len(Append(stack, top)) > 0
    BY <1>5, StackFacts
<1>7. Stack(Append(stack, top))
    BY <1>5, <1>6 DEF Stack
<1> QED BY <1>5, <1>7 DEF top

LEMMA StackAssert ==
    ASSUME NEW stack, Stack(stack), NEW axs
    PROVE  LET new == [stack EXCEPT ![Len(stack)].axioms = @ \cup axs]
           IN /\ Stack(new) /\ Len(new) = Len(stack)
              /\ \A s \in 1..Len(stack) :
                     /\ new[s].choice = stack[s].choice
                     /\ new[s].axioms = IF s = Len(stack) THEN stack[s].axioms \cup axs ELSE stack[s].axioms
<1>1. PICK axioms : stack \in Seq(Scope(axioms))
    BY DEF Stack
<1> DEFINE all == axioms \cup axs
           l == Len(stack)
           top == [stack[l] EXCEPT !.axioms = @ \cup axs]
           new == [stack EXCEPT ![l] = top]
<1>2. Scope(axioms) \subseteq Scope(all)
    BY DEF Scope
<1>3. stack \in Seq(Scope(all)) /\ l \in Nat /\ l \in 1..l /\ DOMAIN stack = 1..l
    <2>1. stack \in Seq(Scope(all))
        BY <1>1, <1>2, SeqMonotonic
    <2>2. l \in Nat \ {0} /\ DOMAIN stack = 1..l
        BY StackFacts
    <2> QED BY <2>1, <2>2
<1>4. stack[l] \in Scope(axioms)
    BY <1>1, <1>3, ElementOfSeq
<1>5. top \in Scope(all) /\ top.choice = stack[l].choice /\ top.axioms = stack[l].axioms \cup axs
    BY <1>4 DEF Scope
<1> HIDE DEF top
<1>6. /\ new \in Seq(Scope(all)) /\ Len(new) = l
      /\ \A s \in 1..l : new[s] = IF s = l THEN top ELSE stack[s]
    BY <1>3, <1>5, ExceptSeq
<1>7. new = [stack EXCEPT ![l].axioms = @ \cup axs]
    BY <1>3 DEF top
<1> HIDE DEF new
<1>8. Stack(new)
    BY <1>3, <1>6 DEF Stack
<1>9. \A s \in 1..l : /\ new[s].choice = stack[s].choice
                      /\ new[s].axioms = IF s = l THEN stack[s].axioms \cup axs ELSE stack[s].axioms
    BY <1>5, <1>6
<1> QED BY <1>6, <1>7, <1>8, <1>9

LEMMA StackCut ==
    ASSUME NEW stack, Stack(stack), NEW n \in 1..Len(stack)
    PROVE  LET new == SubSeq(stack, 1, n)
           IN Stack(new) /\ Len(new) = n /\ \A s \in 1..n : new[s] = stack[s]
<1>1. PICK axioms : stack \in Seq(Scope(axioms))
    BY DEF Stack
<1>2. Len(stack) \in Nat /\ n \in Nat /\ n > 0
    BY StackFacts
<1>3. \A s \in 1..n : s \in 1..Len(stack) /\ stack[s] \in Scope(axioms)
    BY <1>1, <1>2, ElementOfSeq
<1>4. /\ SubSeq(stack, 1, n) \in Seq(Scope(axioms)) /\ Len(SubSeq(stack, 1, n)) = n - 1 + 1
      /\ \A i \in 1..n - 1 + 1 : SubSeq(stack, 1, n)[i] = stack[1 + i - 1]
    BY <1>2, <1>3, SubSeqProperties
<1>5. n - 1 + 1 = n /\ \A i \in 1..n : 1 + i - 1 = i
    BY <1>2
<1>6. Len(SubSeq(stack, 1, n)) = n /\ \A i \in 1..n : SubSeq(stack, 1, n)[i] = stack[i]
    BY <1>4, <1>5
<1> QED BY <1>2, <1>4, <1>6 DEF Stack

-----------------------------------------------------------------------------
(* The inductive invariant.                                                *)

ScopesInv ==
    /\ Stack(scopes) /\ refuted \subseteq Choice
    /\ \A s \in 1..Len(scopes) : \A ax \in scopes[s].axioms :
           AxiomOK(problem, lenTesters, valTesters, valRangeMap, ax)
    /\ \A s \in 1..Len(scopes) : scopes[s].choice # None => Chosen(scopes, s)
    /\ \A s \in 1..Len(scopes) : \A n \in LengthsOf(problem) : \A i \in Nat :
           scopes[s].choice = <<ValTester(n, i), More>> => i + 1 < valTesters[n]

IInv ==
    /\ MapsInv /\ ScopesInv
    /\ restarts \in 0..MaxRestarts /\ verdict \in {"none", "sat", "unsat"}
    /\ SatHasValue

-----------------------------------------------------------------------------
(* What the choices tell of the axioms.                                    *)

LEMMA TimesNat == \A a, b \in Nat : a * b \in Nat
    OBVIOUS

LEMMA DivFacts ==
    ASSUME NEW n \in Nat, NEW d \in Nat \ {0}
    PROVE  /\ n \div d \in Nat
           /\ \A k \in Nat \ {0} : (k - 1) * d <= n /\ n < k * d => (n \div d) + 1 = k
<1> DEFINE q == n \div d
<1>1. q \in Int /\ q * d <= n /\ n < (q + 1) * d
    BY Z3
<1> HIDE DEF q
<1>2. q \in Nat
    <2>1. CASE q < 0
        <3>1. (q + 1) * d <= 0
            BY <1>1, <2>1, Z3
        <3> QED BY <1>1, <3>1
    <2> QED BY <1>1, <2>1
<1>3. ASSUME NEW k \in Nat \ {0}, (k - 1) * d <= n, n < k * d PROVE q + 1 = k
    <2>1. CASE q + 1 <= k - 1
        <3>1. (q + 1) * d <= (k - 1) * d
            BY <1>2, <2>1, Z3
        <3> QED BY <1>1, <1>2, <1>3, <3>1, Z3
    <2>2. CASE k <= q
        <3>1. k * d <= q * d
            BY <1>2, <2>2, Z3
        <3> QED BY <1>1, <1>2, <1>3, <3>1, Z3
    <2> QED BY <1>2, <2>1, <2>2
<1> QED BY <1>2, <1>3 DEF q

LEMMA OptionsAreChoices ==
    ASSUME MapsInv, NEW ax, AxiomOK(problem, lenTesters, valTesters, valRangeMap, ax)
    PROVE  /\ ax.premise \subseteq Choice /\ Options(ax) \subseteq Choice
           /\ DOMAIN ax.offers \subseteq Nat /\ ax.tester[1] \in {"len", "val"}
           /\ ax.tester[1] = "len" =>
                  \E k \in 1..lenTesters : ax = LenOptions(k) /\ ax.tester = LenTester(k)
           /\ ax.tester[1] = "val" =>
                  \E n \in LengthsOf(problem) : \E i \in 0..valTesters[n] - 1 :
                      ax = ValOptions(n, i) /\ ax.tester = ValTester(n, i)
           /\ \A c \in Options(ax) : c[1] = ax.tester /\ (c[2] \in DOMAIN ax.offers \/ (c[2] = More /\ ax.more))
<1>1. /\ problem \in Problems /\ lenTesters \in Nat /\ valTesters \in [LengthsOf(problem) -> Nat]
      /\ LenStep \in Nat \ {0} /\ problem.valStep \in Nat /\ LengthsOf(problem) \subseteq Nat
    BY ProblemFacts DEF MapsInv, MapsOK
<1>2. \A c \in Options(ax) : c[1] = ax.tester /\ (c[2] \in DOMAIN ax.offers \/ (c[2] = More /\ ax.more))
    BY DEF Options
<1>3. ASSUME ax.tester \in Testers, DOMAIN ax.offers \subseteq Nat PROVE Options(ax) \subseteq Choice
    BY <1>3 DEF Options, Choice
<1>4. ASSUME NEW k \in 1..lenTesters, ax = LenOptions(k)
      PROVE  /\ ax.premise \subseteq Choice /\ Options(ax) \subseteq Choice
             /\ DOMAIN ax.offers \subseteq Nat
             /\ ax.tester = LenTester(k) /\ ax.tester[1] = "len"
    <2>1. /\ ax.tester = LenTester(k) /\ ax.premise = {<<LenTester(j), More>> : j \in 1..k - 1}
          /\ DOMAIN ax.offers = (k - 1) * LenStep..k * LenStep - 1
        BY <1>4 DEF LenOptions
    <2>2. k \in Nat /\ k - 1 \in Nat /\ \A j \in 1..k - 1 : LenTester(j) \in Testers
        BY <1>1, TesterFacts
    <2>3. DOMAIN ax.offers \subseteq Nat
        <3>1. (k - 1) * LenStep \in Nat /\ k * LenStep \in Nat
            BY <1>1, <2>2, TimesNat
        <3> QED BY <2>1, <3>1
    <2>4. ax.premise \subseteq Choice
        BY <2>1, <2>2 DEF Choice
    <2> QED BY <1>3, <2>1, <2>2, <2>3, <2>4, TesterFacts
<1>5. ASSUME NEW n \in LengthsOf(problem), NEW i \in 0..valTesters[n] - 1,
             ax = OptionsOf(problem, valRangeMap, n, i)
      PROVE  /\ ax.premise \subseteq Choice /\ Options(ax) \subseteq Choice
             /\ DOMAIN ax.offers \subseteq Nat
             /\ ax.tester = ValTester(n, i) /\ ax.tester[1] = "val" /\ ax = ValOptions(n, i)
    <2> DEFINE offered == OfferedOf(problem, FirstOf(problem, valRangeMap, n, i))
    <2>1. /\ ax.tester = ValTester(n, i)
          /\ ax.premise = {<<LenTester((n \div LenStep) + 1), n>>}
                    \cup {<<ValTester(n, j), More>> : j \in 0..i - 1}
          /\ DOMAIN ax.offers = {i * problem.valStep + k : k \in 0..offered - 1}
        BY <1>5 DEF OptionsOf
    <2>2. /\ n \in Nat /\ i \in Nat /\ (n \div LenStep) + 1 \in Nat
          /\ \A j \in 0..i - 1 : ValTester(n, j) \in Testers
          /\ LenTester((n \div LenStep) + 1) \in Testers /\ ValTester(n, i) \in Testers
        <3>1. n \in Nat /\ i \in Nat
            BY <1>1
        <3>2. n \div LenStep \in Nat
            BY <1>1, <3>1, DivFacts
        <3>3. \A j \in 0..i - 1 : ValTester(n, j) \in Testers
            <4>1. \A j \in 0..i - 1 : j \in Nat
                BY <3>1
            <4> QED BY <3>1, <4>1, TesterFacts
        <3>4. (n \div LenStep) + 1 \in Nat
            BY <3>2
        <3> QED BY <3>1, <3>3, <3>4, TesterFacts
    <2>3. DOMAIN ax.offers \subseteq Nat
        <3>1. i * problem.valStep \in Nat
            BY <1>1, <2>2, TimesNat
        <3>2. \A k \in 0..offered - 1 : i * problem.valStep + k \in Nat
            <4> HIDE DEF offered
            <4> QED BY <3>1
        <3> QED BY <2>1, <3>2
    <2>4. ax.premise \subseteq Choice
        BY <2>1, <2>2 DEF Choice
    <2> QED BY <1>3, <1>5, <2>1, <2>2, <2>3, <2>4, TesterFacts, OptionsAre
<1>6. CASE \E k \in 1..lenTesters : ax = LenOptions(k)
    <2>1. PICK k \in 1..lenTesters : ax = LenOptions(k)
        BY <1>6
    <2> QED BY <1>2, <1>4, <2>1
<1>7. CASE \E n \in LengthsOf(problem) : \E i \in 0..valTesters[n] - 1 :
               ax = OptionsOf(problem, valRangeMap, n, i)
    <2>1. PICK n \in LengthsOf(problem) : \E i \in 0..valTesters[n] - 1 :
              ax = OptionsOf(problem, valRangeMap, n, i)
        BY <1>7
    <2>2. PICK i \in 0..valTesters[n] - 1 : ax = OptionsOf(problem, valRangeMap, n, i)
        BY <2>1
    <2> QED BY <1>2, <1>5, <2>2
<1> QED BY <1>6, <1>7 DEF AxiomOK

LEMMA InChoices ==
    \A c : c \in Choices <=> c # None /\ \E s \in 1..Len(scopes) : scopes[s].choice = c
    BY DEF Choices

LEMMA InAxioms ==
    \A ax : ax \in Axioms <=> \E s \in 1..Len(scopes) : ax \in scopes[s].axioms
    BY DEF Axioms

LEMMA ChoicePairs ==
    ASSUME NEW c \in Choice
    PROVE  c = <<c[1], c[2]>> /\ c[1] \in Testers /\ c[2] \in Nat \cup {More} /\ c[2] # None
    BY SearchAssumption DEF Choice

\* No tester is chosen twice, so its value is the one chosen.
LEMMA EqcFacts ==
    ASSUME ScopesInv
    PROVE  /\ \A c \in Choices : c \in Choice /\ EqcValue(c[1]) = c[2]
           /\ \A t : EqcValue(t) # None => <<t, EqcValue(t)>> \in Choices
           /\ \A t, o : <<t, o>> \in Choices => EqcValue(t) = o /\ o # None
<1>1. \A c \in Choices : c \in Choice
    BY InChoices, StackFacts DEF ScopesInv
<1>2. ASSUME NEW c \in Choices, NEW d \in Choices, c[1] = d[1] PROVE c = d
    <2>1. PICK s \in 1..Len(scopes) : scopes[s].choice = c
        BY InChoices
    <2>2. PICK u \in 1..Len(scopes) : scopes[u].choice = d
        BY InChoices
    <2>3. c # None /\ d # None
        BY InChoices
    <2>4. Chosen(scopes, s) /\ Chosen(scopes, u)
        BY <2>1, <2>2, <2>3 DEF ScopesInv
    <2>5. Len(scopes) \in Nat
        BY StackFacts DEF ScopesInv
    <2>6. CASE s = u
        BY <2>1, <2>2, <2>6
    <2>7. CASE s < u
        <3>1. s \in 1..u - 1
            BY <2>5, <2>7
        <3> QED BY <1>2, <2>1, <2>2, <2>3, <2>4, <3>1 DEF Chosen
    <2>8. CASE u < s
        <3>1. u \in 1..s - 1
            BY <2>5, <2>8
        <3> QED BY <1>2, <2>1, <2>2, <2>3, <2>4, <3>1 DEF Chosen
    <2> QED BY <2>5, <2>6, <2>7, <2>8
<1>3. ASSUME NEW c \in Choices PROVE EqcValue(c[1]) = c[2]
    <2>1. \E d \in Choices : d[1] = c[1]
        OBVIOUS
    <2>2. (CHOOSE d \in Choices : d[1] = c[1]) \in Choices /\ (CHOOSE d \in Choices : d[1] = c[1])[1] = c[1]
        BY <2>1
    <2>3. (CHOOSE d \in Choices : d[1] = c[1]) = c
        BY <1>2, <2>2
    <2> QED BY <2>1, <2>3 DEF EqcValue
<1>4. ASSUME NEW t, EqcValue(t) # None PROVE <<t, EqcValue(t)>> \in Choices
    <2>1. PICK c \in Choices : c[1] = t
        BY <1>4 DEF EqcValue
    <2>2. c = <<t, c[2]>>
        BY <1>1, <2>1, ChoicePairs
    <2> QED BY <1>3, <2>1, <2>2
<1>5. ASSUME NEW t, NEW o, <<t, o>> \in Choices PROVE EqcValue(t) = o /\ o # None
    <2>1. EqcValue(<<t, o>>[1]) = <<t, o>>[2] /\ <<t, o>> \in Choice
        BY <1>1, <1>3, <1>5
    <2>2. <<t, o>>[2] # None
        BY <2>1, ChoicePairs
    <2> QED BY <2>1, <2>2
<1> QED BY <1>1, <1>3, <1>4, <1>5

\* A choice is an option of an axiom in force whose premise is chosen.
LEMMA ChoiceRests ==
    ASSUME MapsInv, ScopesInv, NEW c \in Choices
    PROVE  \E ax \in Axioms : c \in Options(ax) /\ ax.premise \subseteq Choices
<1>1. PICK s \in 1..Len(scopes) : scopes[s].choice = c /\ c # None
    BY InChoices
<1>2. Chosen(scopes, s) /\ Len(scopes) \in Nat
    BY <1>1, StackFacts DEF ScopesInv
<1>3. PICK r \in 1..s - 1 : \E ax \in scopes[r].axioms :
          c \in Options(ax) /\ \A q \in ax.premise : \E u \in 1..s - 1 : scopes[u].choice = q
    BY <1>1, <1>2 DEF Chosen
<1>4. PICK ax \in scopes[r].axioms :
          c \in Options(ax) /\ \A q \in ax.premise : \E u \in 1..s - 1 : scopes[u].choice = q
    BY <1>3
<1>5. \A u \in 1..s - 1 : u \in 1..Len(scopes)
    BY <1>2
<1>6. ax \in Axioms
    BY <1>5, InAxioms
<1>7. AxiomOK(problem, lenTesters, valTesters, valRangeMap, ax)
    BY <1>5 DEF ScopesInv
<1>8. None \notin ax.premise
    BY <1>7, OptionsAreChoices, SearchAssumption
<1> QED BY <1>4, <1>5, <1>6, <1>8, InChoices

LEMMA NothingImpossible ==
    ASSUME Reasons = {}, NEW c \in Choices
    PROVE  ~Impossible(c)
<1>1. Impossible(c) => {c} \in Reasons
    BY DEF Reasons
<1> QED BY <1>1

LEMMA LenAxiom ==
    ASSUME MapsInv, ScopesInv, NEW ax \in Axioms, NEW k, ax.tester = LenTester(k)
    PROVE  /\ k \in 1..lenTesters /\ ax = LenOptions(k)
           /\ ax.premise = {<<LenTester(j), More>> : j \in 1..k - 1}
<1>1. AxiomOK(problem, lenTesters, valTesters, valRangeMap, ax)
    BY InAxioms DEF ScopesInv
<1>2. PICK j \in 1..lenTesters : ax = LenOptions(j) /\ ax.tester = LenTester(j)
    BY <1>1, OptionsAreChoices, TesterFacts
<1>3. j = k
    BY <1>2, TesterFacts
<1> QED BY <1>2, <1>3 DEF LenOptions

LEMMA ValAxiom ==
    ASSUME MapsInv, ScopesInv, NEW ax \in Axioms, NEW n, NEW i, ax.tester = ValTester(n, i)
    PROVE  /\ n \in LengthsOf(problem) /\ i \in 0..valTesters[n] - 1 /\ ax = ValOptions(n, i)
           /\ ax.premise = {<<LenTester((n \div LenStep) + 1), n>>}
                           \cup {<<ValTester(n, j), More>> : j \in 0..i - 1}
<1>1. AxiomOK(problem, lenTesters, valTesters, valRangeMap, ax)
    BY InAxioms DEF ScopesInv
<1>2. PICK m \in LengthsOf(problem) : \E j \in 0..valTesters[m] - 1 :
          ax = ValOptions(m, j) /\ ax.tester = ValTester(m, j)
    BY <1>1, OptionsAreChoices, TesterFacts
<1>3. PICK j \in 0..valTesters[m] - 1 : ax = ValOptions(m, j) /\ ax.tester = ValTester(m, j)
    BY <1>2
<1>4. ValTester(n, i) = ValTester(m, j)
    BY <1>3
<1>5. m = n /\ j = i
    BY <1>4, TesterFacts
<1>6. ax = ValOptions(n, i)
    BY <1>3, <1>5
<1> QED BY <1>3, <1>5, <1>6 DEF ValOptions

\* A length offered while nothing is impossible is one that the maps know: the
\* testers before it say that the formula allows longer ones.
LEMMA LenOffer ==
    ASSUME MapsInv, ScopesInv, Reasons = {}, NEW ax \in Axioms, ax.premise \subseteq Choices,
           NEW k, ax.tester = LenTester(k), NEW o \in DOMAIN ax.offers
    PROVE  o \in LengthsOf(problem) /\ (o \div LenStep) + 1 = k
<1>1. /\ k \in 1..lenTesters /\ ax = LenOptions(k)
      /\ ax.premise = {<<LenTester(j), More>> : j \in 1..k - 1}
    BY LenAxiom
<1>2. k \in Nat \ {0} /\ LenStep \in Nat \ {0} /\ problem.maxLen \in Nat /\ problem \in Problems
    BY <1>1, ProblemFacts DEF MapsInv, MapsOK
<1>3. o \in (k - 1) * LenStep..k * LenStep - 1
    BY <1>1 DEF LenOptions
<1>4. (k - 1) * LenStep \in Nat /\ k * LenStep \in Nat /\ k * LenStep = (k - 1) * LenStep + LenStep
    <2>1. k - 1 \in Nat
        BY <1>2
    <2>2. (k - 1) * LenStep \in Nat /\ k * LenStep \in Nat
        BY <1>2, <2>1, TimesNat
    <2>3. k * LenStep = (k - 1) * LenStep + LenStep
        BY <1>2, Z3
    <2> QED BY <2>2, <2>3
<1>5. o \in Nat /\ (k - 1) * LenStep <= o /\ o < k * LenStep
    BY <1>3, <1>4
<1>6. (o \div LenStep) + 1 = k
    BY <1>2, <1>5, DivFacts
<1>7. (k - 1) * LenStep <= problem.maxLen
    <2>1. CASE k = 1
        BY <1>2, <2>1
    <2>2. CASE k # 1
        <3>1. k - 1 \in 1..k - 1 /\ k - 1 \in Nat
            BY <1>2, <2>2
        <3>2. <<LenTester(k - 1), More>> \in Choices
            BY <1>1, <3>1
        <3>3. ~Impossible(<<LenTester(k - 1), More>>)
            BY <3>2, NothingImpossible
        <3>4. ~((k - 1) * LenStep > problem.maxLen)
            BY <3>3, TesterFacts DEF Impossible
        <3> QED BY <1>2, <1>4, <3>4
    <2> QED BY <2>1, <2>2
<1>8. o < problem.maxLen + 2 * LenStep
    BY <1>2, <1>4, <1>5, <1>7
<1> QED BY <1>2, <1>5, <1>6, <1>8, ProblemFacts

LEMMA ChosenLen ==
    ASSUME MapsInv, ScopesInv, Reasons = {}, NEW k, NEW o, <<LenTester(k), o>> \in Choices
    PROVE  /\ k \in 1..lenTesters
           /\ \A j \in 1..k - 1 : <<LenTester(j), More>> \in Choices
           /\ o = More \/ (o \in LengthsOf(problem) /\ (o \div LenStep) + 1 = k)
<1> DEFINE c == <<LenTester(k), o>>
<1>1. c[1] = LenTester(k) /\ c[2] = o
    OBVIOUS
<1> HIDE DEF c
<1>2. PICK ax \in Axioms : c \in Options(ax) /\ ax.premise \subseteq Choices
    BY ChoiceRests DEF c
<1>3. AxiomOK(problem, lenTesters, valTesters, valRangeMap, ax)
    BY InAxioms DEF ScopesInv
<1>4. ax.tester = LenTester(k) /\ (o \in DOMAIN ax.offers \/ o = More)
    BY <1>1, <1>2, <1>3, OptionsAreChoices
<1>5. k \in 1..lenTesters /\ ax.premise = {<<LenTester(j), More>> : j \in 1..k - 1}
    BY <1>4, LenAxiom
<1>6. \A j \in 1..k - 1 : <<LenTester(j), More>> \in Choices
    BY <1>2, <1>5
<1> QED BY <1>2, <1>4, <1>5, <1>6, LenOffer

LEMMA EqcLen ==
    ASSUME MapsInv, ScopesInv, Reasons = {}
    PROVE  \A k : EqcValue(LenTester(k)) \in LengthsOf(problem) \cup {More, None}
<1> TAKE k
<1>1. CASE EqcValue(LenTester(k)) # None
    <2>1. <<LenTester(k), EqcValue(LenTester(k))>> \in Choices
        BY <1>1, EqcFacts
    <2> QED BY <2>1, ChosenLen
<1> QED BY <1>1

-----------------------------------------------------------------------------
(* The calls of the plug-in.                                               *)

\* moreValueTests finds the length of the tester: its axiom rests on that
\* length, and the testers before it are "more".
LEMMA MoreFindsLength ==
    ASSUME MapsInv, ScopesInv, Reasons = {}, NEW n \in LengthsOf(problem), NEW i,
           <<LenTester((n \div LenStep) + 1), n>> \in Choices
    PROVE  MoreValueTests(ValTester(n, i)) = FreeVarOptions(n, ValTester(n, i), More)
<1> DEFINE k == (n \div LenStep) + 1
           settled == {j \in 1..lenTesters : EqcValue(LenTester(j)) \notin {None, More}}
           first == CHOOSE j \in settled : \A l \in settled : j <= l
<1>1. n \in Nat /\ n # More /\ lenTesters \in Nat
    BY ProblemFacts, SearchAssumption DEF MapsInv, MapsOK
<1>2. /\ k \in 1..lenTesters /\ \A j \in 1..k - 1 : <<LenTester(j), More>> \in Choices
      /\ EqcValue(LenTester(k)) = n /\ n # None
    BY ChosenLen, EqcFacts
<1> HIDE DEF k
<1>3. k \in settled
    BY <1>1, <1>2
<1>4. ASSUME NEW j \in settled PROVE k <= j
    <2>1. ASSUME j < k PROVE FALSE
        <3>1. j \in 1..k - 1
            BY <1>2, <2>1
        <3>2. EqcValue(LenTester(j)) = More
            BY <1>2, <3>1, EqcFacts
        <3> QED BY <3>2
    <2> QED BY <1>2, <2>1
<1>5. first = k
    <2>1. first \in settled /\ \A l \in settled : first <= l
        BY <1>3, <1>4
    <2>2. first \in Nat /\ k \in Nat
        BY <2>1, <1>2
    <2> QED BY <1>3, <1>4, <2>1, <2>2
<1>6. ValTester(n, i)[2] = n
    BY TesterFacts
<1>7. MoreValueTests(ValTester(n, i)) =
          IF settled = {} THEN Crash
          ELSE IF EqcValue(LenTester(first)) # ValTester(n, i)[2] THEN Crash
          ELSE FreeVarOptions(ValTester(n, i)[2], ValTester(n, i), More)
    BY DEF MoreValueTests
<1> QED BY <1>2, <1>3, <1>5, <1>6, <1>7

\* cb_new_eq tells of a choice that may be made.
LEMMA AttemptGood ==
    ASSUME MapsInv, ScopesInv, Reasons = {}, NEW ax \in Open, NEW choice \in Options(ax)
    PROVE  LET o == FreeVarAttempt(choice[1], choice[2])
           IN /\ Good(o) /\ choice \in Choice
              /\ \A n \in LengthsOf(problem) : \A i \in Nat :
                     choice = <<ValTester(n, i), More>> => i + 1 < o.valTesters[n]
<1>1. ax \in Axioms /\ ax.premise \subseteq Choices
    BY DEF Open
<1>2. AxiomOK(problem, lenTesters, valTesters, valRangeMap, ax)
    BY <1>1, InAxioms DEF ScopesInv
<1>3. /\ choice \in Choice /\ choice[1] = ax.tester /\ choice = <<choice[1], choice[2]>>
      /\ choice[2] \in DOMAIN ax.offers \/ (choice[2] = More /\ ax.more)
    BY <1>2, OptionsAreChoices, ChoicePairs
<1>4. CASE ax.tester[1] = "len"
    <2>1. PICK k \in 1..lenTesters : ax.tester = LenTester(k)
        BY <1>2, <1>4, OptionsAreChoices
    <2>2. ASSUME NEW j \in 1..lenTesters
          PROVE  KnownLen(choice[1], choice[2], j) \in LengthsOf(problem) \cup {More, None}
        <3>1. CASE j = k
            BY <1>1, <1>3, <2>1, <3>1, LenOffer DEF KnownLen
        <3>2. CASE j # k
            BY <1>3, <2>1, <3>2, TesterFacts, EqcLen DEF KnownLen
        <3> QED BY <3>1, <3>2
    <2>3. Good(LenValOptions(choice[1], choice[2]))
        BY <2>2, LenValGood
    <2>4. \A n, i : choice # <<ValTester(n, i), More>>
        BY <1>3, <2>1, TesterFacts
    <2> QED BY <1>3, <1>4, <2>3, <2>4 DEF FreeVarAttempt
<1>5. CASE ax.tester[1] = "val"
    <2>1. PICK n \in LengthsOf(problem) : \E i \in 0..valTesters[n] - 1 :
              ax = ValOptions(n, i) /\ ax.tester = ValTester(n, i)
        BY <1>2, <1>5, OptionsAreChoices
    <2>2. PICK i \in 0..valTesters[n] - 1 : ax = ValOptions(n, i) /\ ax.tester = ValTester(n, i)
        BY <2>1
    <2>3. "val" # "len"
        OBVIOUS
    <2>4. CASE choice[2] = More
        <3>1. <<LenTester((n \div LenStep) + 1), n>> \in Choices
            BY <1>1, <2>2, ValAxiom
        <3>2. ValOptions(n, i).more
            BY <1>2, <1>3, <2>2, <2>4, OptionsAreChoices, SearchAssumption
        <3>3. FreeVarAttempt(choice[1], choice[2]) = FreeVarOptions(n, ValTester(n, i), More)
            BY <1>3, <1>5, <2>2, <2>3, <2>4, <3>1, MoreFindsLength DEF FreeVarAttempt
        <3>4. \A m, j : choice = <<ValTester(m, j), More>> => m = n /\ j = i
            BY <1>3, <2>2, TesterFacts
        <3> QED BY <1>3, <3>2, <3>3, <3>4, FreeVarMoreGood
    <2>5. CASE choice[2] # More
        <3>1. FreeVarAttempt(choice[1], choice[2]) = Outcome(lenTesters, valTesters, valRangeMap, {})
            BY <1>3, <1>5, <2>3, <2>5 DEF FreeVarAttempt, Nothing
        <3>2. \A n2, i2 : choice # <<ValTester(n2, i2), More>>
            BY <2>5
        <3> QED BY <1>3, <3>1, <3>2, NoneMade
    <2> QED BY <2>4, <2>5
<1> QED BY <1>2, <1>4, <1>5, OptionsAreChoices

\* The final check, when the choices leave nothing open: either it calls
\* genFreeVarOptions at the length that is chosen, or it asserts a length
\* tester that is open.
LEMMA FinalCases ==
    ASSUME MapsInv, ScopesInv, Reasons = {}
    PROVE  /\ Good(LenValOptions(None, None))
           /\ \/ \E k \in 1..lenTesters + 1 :
                     /\ \A j \in 1..k - 1 : <<LenTester(j), More>> \in Choices
                     /\ k <= lenTesters => EqcValue(LenTester(k)) = None
                     /\ LenValOptions(None, None).axioms = {LenOptions(k)}
              \/ \E n \in LengthsOf(problem) :
                     /\ <<LenTester((n \div LenStep) + 1), n>> \in Choices
                     /\ LenValOptions(None, None) = FreeVarOptions(n, None, None)
<1>1. lenTesters \in Nat
    BY DEF MapsInv, MapsOK
<1>2. \A j \in Nat : KnownLen(None, None, j) = EqcValue(LenTester(j))
    BY TesterFacts, SearchAssumption DEF KnownLen
<1>3. Good(LenValOptions(None, None))
    <2>1. \A k \in 1..lenTesters : KnownLen(None, None, k) \in LengthsOf(problem) \cup {More, None}
        BY <1>1, <1>2, EqcLen
    <2> QED BY <2>1, LenValGood
<1>0. PICK k \in 1..lenTesters + 1 : Decides(None, None, k)
    BY <1>1, LenValCases
<1>4. /\ \A j \in 1..k - 1 : KnownLen(None, None, j) = More
      /\ k <= lenTesters => KnownLen(None, None, k) # More
      /\ LenValOptions(None, None) =
             IF k <= lenTesters /\ KnownLen(None, None, k) # None
             THEN FreeVarOptions(KnownLen(None, None, k), None, None)
             ELSE Outcome(IF k > lenTesters THEN k ELSE lenTesters,
                          valTesters, valRangeMap, {LenOptions(k)})
    BY <1>0 DEF Decides
<1>5. \A j \in 1..k - 1 : <<LenTester(j), More>> \in Choices
    <2> TAKE j \in 1..k - 1
    <2>1. j \in Nat
        BY <1>1
    <2>2. EqcValue(LenTester(j)) = More
        BY <1>2, <1>4, <2>1
    <2>3. More # None
        BY SearchAssumption
    <2> QED BY <2>2, <2>3, EqcFacts
<1>6. CASE k <= lenTesters /\ KnownLen(None, None, k) # None
    <2> DEFINE n == KnownLen(None, None, k)
    <2>1. n = EqcValue(LenTester(k)) /\ n # None /\ n # More
        BY <1>1, <1>2, <1>4, <1>6
    <2>2. <<LenTester(k), n>> \in Choices
        BY <2>1, EqcFacts
    <2> HIDE DEF n
    <2>3. n \in LengthsOf(problem) /\ (n \div LenStep) + 1 = k
        BY <2>1, <2>2, ChosenLen
    <2>4. LenValOptions(None, None) = FreeVarOptions(n, None, None)
        BY <1>4, <1>6 DEF n
    <2> QED BY <1>3, <2>2, <2>3, <2>4
<1>7. CASE ~(k <= lenTesters /\ KnownLen(None, None, k) # None)
    <2>1. LenValOptions(None, None).axioms = {LenOptions(k)}
        BY <1>4, <1>7, OutcomeFields
    <2>2. k <= lenTesters => EqcValue(LenTester(k)) = None
        BY <1>1, <1>2, <1>7
    <2> QED BY <1>3, <1>5, <2>1, <2>2
<1> QED BY <1>6, <1>7

-----------------------------------------------------------------------------
(* The steps.                                                              *)

MapsGrow ==
    /\ problem' = problem
    /\ Grown(problem, lenTesters, valTesters, valRangeMap, lenTesters', valTesters', valRangeMap')

LEMMA MapsStay ==
    ASSUME MapsInv, UNCHANGED <<maps, problem>>
    PROVE  MapsGrow
<1>1. /\ lenTesters' = lenTesters /\ valTesters' = valTesters /\ valRangeMap' = valRangeMap
      /\ problem' = problem
    BY DEF maps
<1>2. /\ problem \in Problems /\ lenTesters \in Nat
      /\ valTesters \in [LengthsOf(problem) -> Nat]
    BY DEF MapsInv, MapsOK
<1> QED BY <1>1, <1>2 DEF MapsGrow, Grown

LEMMA ChosenKept ==
    ASSUME NEW a, NEW b, NEW s \in Nat \ {0}, Chosen(a, s),
           \A u \in 1..s : b[u].choice = a[u].choice /\ a[u].axioms \subseteq b[u].axioms
    PROVE  Chosen(b, s)
<1>1. PICK r \in 1..s - 1 : \E ax \in a[r].axioms :
          /\ a[s].choice \in Options(ax)
          /\ \A q \in ax.premise : \E u \in 1..s - 1 : a[u].choice = q
    BY DEF Chosen
<1>2. PICK ax \in a[r].axioms :
          /\ a[s].choice \in Options(ax)
          /\ \A q \in ax.premise : \E u \in 1..s - 1 : a[u].choice = q
    BY <1>1
<1>3. \A u \in 1..s - 1 : u \in 1..s /\ b[u].choice = a[u].choice /\ a[u].axioms \subseteq b[u].axioms
    OBVIOUS
<1>4. b[s].choice = a[s].choice
    OBVIOUS
<1>5. ax \in b[r].axioms
    BY <1>2, <1>3
<1>6. \A q \in ax.premise : \E u \in 1..s - 1 : b[u].choice = q
    BY <1>2, <1>3
<1>7. \A u \in 1..s - 1 : b[u].choice # None => b[u].choice[1] # b[s].choice[1]
    BY <1>3, <1>4 DEF Chosen
<1> QED BY <1>2, <1>4, <1>5, <1>6, <1>7 DEF Chosen

\* What a call does keeps the invariant, given the scopes it is made in.
LEMMA CallKeeps ==
    ASSUME MapsInv, ScopesInv, NEW o, Good(o), NEW stack, Stack(stack), Done(o, stack),
           UNCHANGED <<problem, refuted>>,
           \A s \in 1..Len(stack) : \A ax \in stack[s].axioms :
               AxiomOK(problem, lenTesters, valTesters, valRangeMap, ax),
           \A s \in 1..Len(stack) : stack[s].choice # None => Chosen(stack, s),
           \A s \in 1..Len(stack) : \A n \in LengthsOf(problem) : \A i \in Nat :
               stack[s].choice = <<ValTester(n, i), More>> => i + 1 < o.valTesters[n]
    PROVE  /\ MapsInv' /\ ScopesInv' /\ verdict' = verdict
           /\ MapsGrow
<1>1. /\ lenTesters' = o.lenTesters /\ valTesters' = o.valTesters /\ valRangeMap' = o.ranges
      /\ scopes' = [stack EXCEPT ![Len(stack)].axioms = @ \cup o.axioms]
      /\ verdict' = verdict /\ problem' = problem /\ refuted' = refuted
    BY DEF Done, Good
<1>2. /\ MapsOK(problem, lenTesters', valTesters', valRangeMap')
      /\ Grown(problem, lenTesters, valTesters, valRangeMap, lenTesters', valTesters', valRangeMap')
      /\ \A ax \in o.axioms : AxiomOK(problem, lenTesters', valTesters', valRangeMap', ax)
    BY <1>1 DEF Good
<1>3. problem \in Problems /\ MapsOK(problem, lenTesters, valTesters, valRangeMap)
    BY DEF MapsInv
<1>4. MapsInv'
    BY <1>1, <1>2, <1>3 DEF MapsInv
<1>5. /\ Stack(scopes') /\ Len(scopes') = Len(stack) /\ Len(stack) \in Nat
      /\ \A s \in 1..Len(stack) :
             /\ scopes'[s].choice = stack[s].choice
             /\ scopes'[s].axioms = IF s = Len(stack) THEN stack[s].axioms \cup o.axioms ELSE stack[s].axioms
    BY <1>1, StackAssert, StackFacts
<1>6. ASSUME NEW s \in 1..Len(stack), NEW ax \in scopes'[s].axioms
      PROVE  AxiomOK(problem, lenTesters', valTesters', valRangeMap', ax)
    <2>1. ax \in stack[s].axioms \/ ax \in o.axioms
        BY <1>5
    <2>2. CASE ax \in o.axioms
        BY <1>2, <2>2
    <2>3. CASE ax \in stack[s].axioms
        <3>1. AxiomOK(problem, lenTesters, valTesters, valRangeMap, ax)
            BY <2>3
        <3>2. lenTesters' \in Nat /\ valTesters' \in [LengthsOf(problem) -> Nat]
            BY <1>2 DEF MapsOK
        <3> QED BY <1>2, <1>3, <3>1, <3>2, AxiomKept
    <2> QED BY <2>1, <2>2, <2>3
<1>7. ASSUME NEW s \in 1..Len(stack), scopes'[s].choice # None PROVE Chosen(scopes', s)
    <2>1. Chosen(stack, s)
        BY <1>5, <1>7
    <2>2. \A u \in 1..s : scopes'[u].choice = stack[u].choice /\ stack[u].axioms \subseteq scopes'[u].axioms
        <3>1. \A u \in 1..s : u \in 1..Len(stack)
            BY <1>5
        <3> QED BY <1>5, <3>1
    <2>3. s \in Nat \ {0}
        BY <1>5
    <2> QED BY <2>1, <2>2, <2>3, ChosenKept
<1>8. ASSUME NEW s \in 1..Len(stack), NEW n \in LengthsOf(problem), NEW i \in Nat,
             scopes'[s].choice = <<ValTester(n, i), More>>
      PROVE  i + 1 < valTesters'[n]
    BY <1>1, <1>5, <1>8
<1>9. refuted' \subseteq Choice
    BY <1>1 DEF ScopesInv
<1>10. ScopesInv'
    BY <1>1, <1>5, <1>6, <1>7, <1>8, <1>9 DEF ScopesInv
<1>11. MapsGrow
    BY <1>1, <1>2 DEF MapsGrow
<1> QED BY <1>1, <1>4, <1>10, <1>11

\* A scope that is opened by a choice, or by something else.
LEMMA PushedScope ==
    ASSUME ScopesInv, NEW choice \in Choice \cup {None},
           choice # None => \E ax \in Open : choice \in Options(ax) /\ choice[1] = ax.tester
    PROVE  LET stack == Append(scopes, [choice |-> choice, axioms |-> {}])
           IN /\ Stack(stack) /\ Len(stack) = Len(scopes) + 1
              /\ \A s \in 1..Len(scopes) : stack[s] = scopes[s]
              /\ stack[Len(scopes) + 1] = [choice |-> choice, axioms |-> {}]
              /\ \A s \in 1..Len(stack) : \A ax \in stack[s].axioms :
                     AxiomOK(problem, lenTesters, valTesters, valRangeMap, ax)
              /\ \A s \in 1..Len(stack) : stack[s].choice # None => Chosen(stack, s)
<1> DEFINE stack == Append(scopes, [choice |-> choice, axioms |-> {}])
           l == Len(scopes)
<1>1. /\ Stack(stack) /\ Len(stack) = l + 1 /\ \A s \in 1..l : stack[s] = scopes[s]
      /\ stack[l + 1] = [choice |-> choice, axioms |-> {}] /\ l \in Nat \ {0}
    BY StackAppend, StackFacts DEF ScopesInv
<1> HIDE DEF stack
<1>2. \A s \in 1..Len(stack) : s \in 1..l \/ s = l + 1
    BY <1>1
<1>3. stack[l + 1].choice = choice /\ stack[l + 1].axioms = {}
    BY <1>1
<1>4. \A s \in 1..Len(stack) : \A ax \in stack[s].axioms :
          AxiomOK(problem, lenTesters, valTesters, valRangeMap, ax)
    BY <1>1, <1>2, <1>3 DEF ScopesInv
<1>5. ASSUME NEW s \in 1..l, stack[s].choice # None PROVE Chosen(stack, s)
    <2>1. Chosen(scopes, s) /\ s \in Nat \ {0}
        BY <1>1, <1>5 DEF ScopesInv
    <2>2. \A u \in 1..s : stack[u] = scopes[u]
        BY <1>1
    <2> QED BY <2>1, <2>2, ChosenKept
<1>6. ASSUME choice # None PROVE Chosen(stack, l + 1)
    <2>1. PICK ax \in Open : choice \in Options(ax) /\ choice[1] = ax.tester
        BY <1>6
    <2>2. ax \in Axioms /\ ax.premise \subseteq Choices /\ EqcValue(ax.tester) = None
        BY <2>1 DEF Open
    <2>3. PICK r \in 1..l : ax \in scopes[r].axioms
        BY <2>2, InAxioms
    <2>4. \A q \in ax.premise : \E u \in 1..l : stack[u].choice = q
        <3> TAKE q \in ax.premise
        <3>1. PICK u \in 1..l : scopes[u].choice = q
            BY <2>2, InChoices
        <3> QED BY <1>1, <3>1
    <2>5. ASSUME NEW u \in 1..l, stack[u].choice # None
          PROVE  stack[u].choice[1] # choice[1]
        <3>1. stack[u].choice \in Choices
            BY <1>1, <2>5, InChoices
        <3>2. EqcValue(stack[u].choice[1]) = stack[u].choice[2] /\ stack[u].choice[2] # None
            BY <3>1, EqcFacts, ChoicePairs
        <3> QED BY <2>1, <2>2, <3>2
    <2>6. l + 1 - 1 = l
        BY <1>1
    <2>7. ax \in stack[r].axioms
        BY <1>1, <2>3
    <2> QED BY <1>3, <2>1, <2>3, <2>4, <2>5, <2>6, <2>7 DEF Chosen
<1>7. \A s \in 1..Len(stack) : stack[s].choice # None => Chosen(stack, s)
    BY <1>2, <1>3, <1>5, <1>6
<1> QED BY <1>1, <1>4, <1>7 DEF stack

LEMMA DecideSafe ==
    ASSUME IInv, Decide
    PROVE  IInv' /\ MapsGrow
<1>1. /\ MapsInv /\ ScopesInv /\ Reasons = {} /\ verdict = "none"
      /\ UNCHANGED <<problem, refuted, restarts>> /\ restarts \in 0..MaxRestarts
    BY DEF IInv, Decide
<1>2. PICK ax \in Open : \E choice \in Options(ax) \ refuted :
           Done(FreeVarAttempt(choice[1], choice[2]),
                Append(scopes, [choice |-> choice, axioms |-> {}]))
    BY DEF Decide
<1>3. PICK choice \in Options(ax) \ refuted :
           Done(FreeVarAttempt(choice[1], choice[2]),
                Append(scopes, [choice |-> choice, axioms |-> {}]))
    BY <1>2
<1> DEFINE o == FreeVarAttempt(choice[1], choice[2])
           stack == Append(scopes, [choice |-> choice, axioms |-> {}])
           l == Len(scopes)
<1>4. /\ Good(o) /\ choice \in Choice
      /\ \A n \in LengthsOf(problem) : \A i \in Nat :
             choice = <<ValTester(n, i), More>> => i + 1 < o.valTesters[n]
    BY <1>1, AttemptGood
<1>5. choice[1] = ax.tester
    <2>1. AxiomOK(problem, lenTesters, valTesters, valRangeMap, ax)
        BY <1>1, InAxioms DEF ScopesInv, Open
    <2> QED BY <1>1, <2>1, OptionsAreChoices
<1>6. /\ Stack(stack) /\ Len(stack) = l + 1 /\ l \in Nat
      /\ \A s \in 1..l : stack[s] = scopes[s]
      /\ stack[l + 1] = [choice |-> choice, axioms |-> {}]
      /\ \A s \in 1..Len(stack) : \A a \in stack[s].axioms :
             AxiomOK(problem, lenTesters, valTesters, valRangeMap, a)
      /\ \A s \in 1..Len(stack) : stack[s].choice # None => Chosen(stack, s)
    <2>1. l \in Nat
        BY <1>1, StackFacts DEF ScopesInv
    <2> QED BY <1>1, <1>3, <1>4, <1>5, <2>1, PushedScope
<1>7. Done(o, stack)
    BY <1>3
<1> HIDE DEF stack, o
<1>8. ASSUME NEW s \in 1..Len(stack), NEW n \in LengthsOf(problem), NEW i \in Nat,
             stack[s].choice = <<ValTester(n, i), More>>
      PROVE  i + 1 < o.valTesters[n]
    <2>1. CASE s \in 1..l
        <3>1. i + 1 < valTesters[n]
            BY <1>1, <1>6, <1>8, <2>1 DEF ScopesInv
        <3>2. /\ valTesters[n] <= o.valTesters[n] /\ valTesters[n] \in Nat /\ o.valTesters[n] \in Nat
            BY <1>1, <1>4 DEF Good, Grown, MapsInv, MapsOK
        <3> QED BY <3>1, <3>2
    <2>2. CASE s = l + 1
        <3>1. stack[s].choice = choice
            BY <1>6, <2>2
        <3>2. choice = <<ValTester(n, i), More>>
            BY <1>8, <3>1
        <3> QED BY <1>4, <3>2
    <2> QED BY <1>6, <2>1, <2>2
<1>9. /\ MapsInv' /\ ScopesInv' /\ verdict' = verdict
      /\ MapsGrow
    BY <1>1, <1>4, <1>6, <1>7, <1>8, CallKeeps
<1>10. SatHasValue'
    BY <1>1, <1>9 DEF SatHasValue
<1> QED BY <1>1, <1>9, <1>10 DEF IInv

\* Scopes that are left.
LEMMA CutKeeps ==
    ASSUME MapsInv, ScopesInv, UNCHANGED <<maps, problem>>, refuted' \subseteq Choice,
           NEW n \in 1..Len(scopes), scopes' = SubSeq(scopes, 1, n)
    PROVE  MapsInv' /\ ScopesInv'
<1>1. /\ lenTesters' = lenTesters /\ valTesters' = valTesters /\ valRangeMap' = valRangeMap
      /\ problem' = problem
    BY DEF maps
<1>2. /\ Stack(scopes') /\ Len(scopes') = n /\ Len(scopes) \in Nat /\ n \in Nat
      /\ \A s \in 1..n : scopes'[s] = scopes[s]
    BY StackCut, StackFacts DEF ScopesInv
<1>3. MapsInv'
    BY <1>1 DEF MapsInv
<1>4. \A s \in 1..n : s \in 1..Len(scopes)
    BY <1>2
<1>5. ASSUME NEW s \in 1..n, scopes'[s].choice # None PROVE Chosen(scopes', s)
    <2>1. Chosen(scopes, s) /\ s \in Nat \ {0}
        BY <1>2, <1>4, <1>5 DEF ScopesInv
    <2>2. \A u \in 1..s : scopes'[u] = scopes[u]
        BY <1>2
    <2> QED BY <2>1, <2>2, ChosenKept
<1>6. \A s \in 1..n : \A ax \in scopes'[s].axioms :
          AxiomOK(problem, lenTesters, valTesters, valRangeMap, ax)
    BY <1>2, <1>4 DEF ScopesInv
<1>7. \A s \in 1..n : \A m \in LengthsOf(problem) : \A i \in Nat :
           scopes'[s].choice = <<ValTester(m, i), More>> => i + 1 < valTesters[m]
    BY <1>2, <1>4 DEF ScopesInv
<1>8. ScopesInv'
    BY <1>1, <1>2, <1>5, <1>6, <1>7 DEF ScopesInv
<1> QED BY <1>3, <1>8

LEMMA DecideElsewhereSafe ==
    ASSUME IInv, DecideElsewhere
    PROVE  IInv' /\ MapsGrow
<1>1. /\ MapsInv /\ ScopesInv /\ verdict = "none" /\ restarts \in 0..MaxRestarts
      /\ scopes' = Append(scopes, [choice |-> None, axioms |-> {}])
      /\ lenTesters' = lenTesters /\ valTesters' = valTesters /\ valRangeMap' = valRangeMap
      /\ problem' = problem /\ refuted' = refuted /\ restarts' = restarts /\ verdict' = verdict
    BY DEF IInv, DecideElsewhere, maps
<1>2. /\ Stack(scopes') /\ Len(scopes') = Len(scopes) + 1 /\ Len(scopes) \in Nat
      /\ \A s \in 1..Len(scopes) : scopes'[s] = scopes[s]
      /\ scopes'[Len(scopes) + 1] = [choice |-> None, axioms |-> {}]
      /\ \A s \in 1..Len(scopes') : \A ax \in scopes'[s].axioms :
             AxiomOK(problem, lenTesters, valTesters, valRangeMap, ax)
      /\ \A s \in 1..Len(scopes') : scopes'[s].choice # None => Chosen(scopes', s)
    <2>1. Len(scopes) \in Nat
        BY <1>1, StackFacts DEF ScopesInv
    <2> QED BY <1>1, <2>1, PushedScope
<1>3. ASSUME NEW s \in 1..Len(scopes'), NEW n \in LengthsOf(problem), NEW i \in Nat,
             scopes'[s].choice = <<ValTester(n, i), More>>
      PROVE  i + 1 < valTesters[n]
    <2>1. CASE s \in 1..Len(scopes)
        BY <1>1, <1>2, <1>3, <2>1 DEF ScopesInv
    <2>2. CASE s = Len(scopes) + 1
        <3>1. <<ValTester(n, i), More>> = None
            <4>1. scopes'[s].choice = None
                BY <1>2, <2>2
            <4> QED BY <1>3, <4>1
        <3>2. n \in Nat
            BY <1>1, ProblemFacts DEF MapsInv
        <3>3. <<ValTester(n, i), More>> \in Choice
            BY <3>2, TesterFacts DEF Choice
        <3> QED BY <3>1, <3>3, SearchAssumption
    <2> QED BY <1>2, <2>1, <2>2
<1>4. MapsInv'
    BY <1>1 DEF MapsInv
<1>5. ScopesInv'
    BY <1>1, <1>2, <1>3 DEF ScopesInv
<1>6. SatHasValue'
    BY <1>1 DEF SatHasValue
<1> QED BY <1>1, <1>4, <1>5, <1>6, MapsStay DEF IInv, maps

LEMMA BacktrackSafe ==
    ASSUME IInv, Backtrack
    PROVE  IInv' /\ MapsGrow
<1>1. /\ MapsInv /\ ScopesInv /\ verdict = "none" /\ restarts \in 0..MaxRestarts
      /\ UNCHANGED <<maps, problem>> /\ restarts' = restarts /\ verdict' = verdict
    BY DEF IInv, Backtrack
<1>2. PICK reason \in Reasons : \E s \in 2..Len(scopes) :
           /\ scopes[s].choice \in reason
           /\ scopes' = SubSeq(scopes, 1, s - 1)
           /\ refuted' = refuted \cup {scopes[s].choice}
    BY DEF Backtrack
<1>3. PICK s \in 2..Len(scopes) :
           /\ scopes[s].choice \in reason
           /\ scopes' = SubSeq(scopes, 1, s - 1)
           /\ refuted' = refuted \cup {scopes[s].choice}
    BY <1>2
<1>4. Len(scopes) \in Nat /\ s - 1 \in 1..Len(scopes)
    <2>1. Len(scopes) \in Nat
        BY <1>1, StackFacts DEF ScopesInv
    <2> QED BY <2>1
<1>5. reason \subseteq Choice
    <2>1. CASE \E c \in Choices : reason = {c}
        BY <1>1, <2>1, EqcFacts
    <2>2. CASE \E ax \in Open : reason = ax.premise
        <3>1. PICK ax \in Open : reason = ax.premise
            BY <2>2
        <3>2. AxiomOK(problem, lenTesters, valTesters, valRangeMap, ax)
            BY <1>1, InAxioms DEF ScopesInv, Open
        <3> QED BY <1>1, <3>1, <3>2, OptionsAreChoices
    <2> QED BY <1>2, <2>1, <2>2 DEF Reasons
<1>6. refuted' \subseteq Choice
    BY <1>1, <1>3, <1>5 DEF ScopesInv
<1>7. MapsInv' /\ ScopesInv'
    BY <1>1, <1>3, <1>4, <1>6, CutKeeps
<1>8. SatHasValue'
    BY <1>1 DEF SatHasValue
<1> QED BY <1>1, <1>7, <1>8, MapsStay DEF IInv, maps

LEMMA RestartSafe ==
    ASSUME IInv, Restart
    PROVE  IInv' /\ MapsGrow
<1>1. /\ MapsInv /\ ScopesInv /\ verdict = "none" /\ restarts \in 0..MaxRestarts
      /\ UNCHANGED <<maps, problem>> /\ restarts' = restarts + 1 /\ restarts < MaxRestarts
      /\ verdict' = verdict /\ refuted' = refuted /\ scopes' = SubSeq(scopes, 1, 1)
    BY DEF IInv, Restart
<1>2. 1 \in 1..Len(scopes) /\ refuted' \subseteq Choice
    BY <1>1, StackFacts DEF ScopesInv
<1>3. MapsInv' /\ ScopesInv'
    BY <1>1, <1>2, CutKeeps
<1>4. restarts' \in 0..MaxRestarts
    BY <1>1, SearchAssumption
<1>5. SatHasValue'
    BY <1>1 DEF SatHasValue
<1> QED BY <1>1, <1>3, <1>4, <1>5, MapsStay DEF IInv, maps

LEMMA GiveUpSafe ==
    ASSUME IInv, GiveUp
    PROVE  IInv' /\ MapsGrow
<1>1. /\ MapsInv /\ ScopesInv /\ restarts \in 0..MaxRestarts /\ verdict' = "unsat"
      /\ UNCHANGED <<lenTesters, valTesters, valRangeMap, problem, scopes, refuted, restarts>>
    BY DEF IInv, GiveUp, maps
<1>2. MapsInv' /\ ScopesInv'
    BY <1>1 DEF MapsInv, ScopesInv
<1>3. SatHasValue'
    BY <1>1 DEF SatHasValue
<1> QED BY <1>1, <1>2, <1>3, MapsStay DEF IInv, maps

\* A value that a tester has given x is accepted: it would be impossible
\* otherwise.
LEMMA ValueAccepted ==
    ASSUME MapsInv, ScopesInv, Reasons = {}, HasValue
    PROVE  \E ax \in ValAxioms : /\ EqcValue(ax.tester) \in DOMAIN ax.offers
                                 /\ ax.offers[EqcValue(ax.tester)] \in problem.accepted
<1>1. PICK ax \in Axioms : ax.tester[1] = "val" /\ EqcValue(ax.tester) \in DOMAIN ax.offers
    BY DEF HasValue
<1> DEFINE t == ax.tester
           v == EqcValue(t)
           c == <<t, v>>
<1>2. AxiomOK(problem, lenTesters, valTesters, valRangeMap, ax)
    BY InAxioms DEF ScopesInv
<1>3. v \in Nat
    BY <1>1, <1>2, OptionsAreChoices
<1>4. v # None /\ v # More
    BY <1>3, SearchAssumption
<1>5. c \in Choices
    BY <1>4, EqcFacts
<1>6. ~Impossible(c)
    BY <1>5, NothingImpossible
<1>7. c[1] = t /\ c[2] = v /\ t[1] = "val" /\ "val" # "len"
    BY <1>1
<1> HIDE DEF t, v, c
<1>8. ~(v # More /\ \E a \in Axioms : a.tester = t /\ v \in DOMAIN a.offers
                                      /\ a.offers[v] \notin problem.accepted)
    BY <1>6, <1>7 DEF Impossible
<1>9. v \in DOMAIN ax.offers /\ ax.tester = t /\ EqcValue(t) = v
    BY <1>1 DEF t, v
<1>10. ax.offers[v] \in problem.accepted
    BY <1>4, <1>8, <1>9
<1>11. ax \in ValAxioms
    BY <1>1 DEF ValAxioms
<1> QED BY <1>9, <1>10, <1>11

\* The final check adds an axiom while x has no value: else a tester would be
\* open, or the last one would be "more" although there is none after it.
LEMMA FinalCheckAdds ==
    ASSUME MapsInv, ScopesInv, Reasons = {}, Open = {}, ~HasValue,
           LenValOptions(None, None).axioms \subseteq Axioms
    PROVE  FALSE
<1>1. /\ problem \in Problems /\ lenTesters \in Nat /\ valTesters \in [LengthsOf(problem) -> Nat]
      /\ LengthsOf(problem) \subseteq Nat
    BY ProblemFacts DEF MapsInv, MapsOK
<1>2. ASSUME NEW k \in 1..lenTesters + 1,
             \A j \in 1..k - 1 : <<LenTester(j), More>> \in Choices,
             k <= lenTesters => EqcValue(LenTester(k)) = None,
             LenOptions(k) \in Axioms
      PROVE  FALSE
    <2>1. LenOptions(k).tester = LenTester(k)
        BY DEF LenOptions
    <2>2. k \in 1..lenTesters /\ LenOptions(k).premise = {<<LenTester(j), More>> : j \in 1..k - 1}
        BY <1>2, <2>1, LenAxiom
    <2>3. LenOptions(k).premise \subseteq Choices /\ EqcValue(LenTester(k)) = None
        BY <1>1, <1>2, <2>2
    <2>4. LenOptions(k) \in Open
        BY <1>2, <2>1, <2>3 DEF Open
    <2> QED BY <2>4
<1>3. ASSUME NEW n \in LengthsOf(problem),
             <<LenTester((n \div LenStep) + 1), n>> \in Choices,
             FreeVarOptions(n, None, None).axioms \subseteq Axioms
      PROVE  FALSE
    <2> DEFINE again == {j \in 0..valTesters[n] - 1 : EqcValue(ValTester(n, j)) = None}
    <2>1. /\ valTesters[n] = 0 => ValOptions(n, 0) \in Axioms
          /\ valTesters[n] # 0 => \A j \in again : ValOptions(n, j) \in Axioms
        <3>1. /\ valTesters[n] = 0 => FreeVarOptions(n, None, None).axioms = {ValOptions(n, 0)}
              /\ valTesters[n] # 0 =>
                     FreeVarOptions(n, None, None).axioms = {ValOptions(n, j) : j \in again}
            BY FreeVarGood
        <3> HIDE DEF again
        <3> QED BY <1>3, <3>1
    <2>2. \A j : ValOptions(n, j).tester = ValTester(n, j)
        BY DEF ValOptions
    <2>3. valTesters[n] \in Nat /\ n \in Nat
        BY <1>1
    <2>4. valTesters[n] # 0
        <3>1. ASSUME valTesters[n] = 0 PROVE FALSE
            <4>1. 0 \in 0..valTesters[n] - 1
                BY <2>1, <2>2, <3>1, ValAxiom
            <4> QED BY <3>1, <4>1
        <3> QED BY <3>1
    <2>5. ASSUME NEW j \in 0..valTesters[n] - 1, EqcValue(ValTester(n, j)) # None
          PROVE  <<ValTester(n, j), More>> \in Choices
        <3> DEFINE t == ValTester(n, j)
                   v == EqcValue(t)
        <3>1. <<t, v>> \in Choices
            BY <2>5, EqcFacts
        <3>2. PICK ax \in Axioms : <<t, v>> \in Options(ax)
            BY <3>1, ChoiceRests
        <3>3. AxiomOK(problem, lenTesters, valTesters, valRangeMap, ax)
            BY InAxioms DEF ScopesInv
        <3>4. <<t, v>>[1] = ax.tester /\ (<<t, v>>[2] \in DOMAIN ax.offers \/ <<t, v>>[2] = More)
            BY <3>2, <3>3, OptionsAreChoices
        <3>5. ax.tester = t /\ t[1] = "val" /\ (v \in DOMAIN ax.offers \/ v = More)
            BY <3>4, TesterFacts
        <3>6. v \notin DOMAIN ax.offers
            BY <3>5 DEF HasValue
        <3> QED BY <3>1, <3>5, <3>6
    <2>6. CASE again = {}
        <3>1. valTesters[n] - 1 \in 0..valTesters[n] - 1 /\ valTesters[n] - 1 \in Nat
            BY <2>3, <2>4
        <3>2. <<ValTester(n, valTesters[n] - 1), More>> \in Choices
            BY <2>5, <2>6, <3>1
        <3>3. PICK s \in 1..Len(scopes) : scopes[s].choice = <<ValTester(n, valTesters[n] - 1), More>>
            BY <3>2, InChoices
        <3>4. valTesters[n] - 1 + 1 < valTesters[n]
            BY <3>1, <3>3 DEF ScopesInv
        <3> QED BY <2>3, <3>4
    <2>7. CASE again # {}
        <3>1. again \in SUBSET Nat
            BY <2>3
        <3>2. PICK j \in again : \A l \in again : j <= l
            <4> HIDE DEF again
            <4> QED BY <2>7, <3>1, LeastOf
        <3>3. ValOptions(n, j) \in Axioms
            BY <2>1, <2>4
        <3>4. ValOptions(n, j).premise = {<<LenTester((n \div LenStep) + 1), n>>}
                                         \cup {<<ValTester(n, l), More>> : l \in 0..j - 1}
            BY <2>2, <3>3, ValAxiom
        <3>5. \A l \in 0..j - 1 : <<ValTester(n, l), More>> \in Choices
            <4> TAKE l \in 0..j - 1
            <4>1. l \in 0..valTesters[n] - 1 /\ ~(j <= l)
                BY <2>3, <3>1
            <4>2. EqcValue(ValTester(n, l)) # None
                BY <3>2, <4>1
            <4> QED BY <2>5, <4>1, <4>2
        <3>6. ValOptions(n, j).premise \subseteq Choices
            BY <1>3, <3>4, <3>5
        <3>7. ValOptions(n, j) \in Open
            BY <2>2, <3>3, <3>6 DEF Open
        <3> QED BY <3>7
    <2> QED BY <2>6, <2>7
<1>4. CASE \E k \in 1..lenTesters + 1 :
                     /\ \A j \in 1..k - 1 : <<LenTester(j), More>> \in Choices
                     /\ k <= lenTesters => EqcValue(LenTester(k)) = None
                     /\ LenValOptions(None, None).axioms = {LenOptions(k)}
    BY <1>2, <1>4
<1>5. CASE \E n \in LengthsOf(problem) :
                     /\ <<LenTester((n \div LenStep) + 1), n>> \in Choices
                     /\ LenValOptions(None, None) = FreeVarOptions(n, None, None)
    BY <1>3, <1>5
<1> QED BY <1>4, <1>5, FinalCases

LEMMA FinalCheckSafe ==
    ASSUME IInv, FinalCheck
    PROVE  IInv' /\ MapsGrow
<1>1. /\ MapsInv /\ ScopesInv /\ verdict = "none" /\ Open = {} /\ Reasons = {}
      /\ restarts \in 0..MaxRestarts
      /\ problem' = problem /\ refuted' = refuted /\ restarts' = restarts
    BY DEF IInv, FinalCheck
<1>2. CASE HasValue
    <2>1. /\ verdict' = "sat" /\ lenTesters' = lenTesters /\ valTesters' = valTesters
          /\ valRangeMap' = valRangeMap /\ scopes' = scopes
        BY <1>2 DEF FinalCheck, maps
    <2>2. MapsInv' /\ ScopesInv'
        BY <1>1, <2>1 DEF MapsInv, ScopesInv
    <2>3. SatHasValue'
        <3>1. \E ax \in ValAxioms : /\ EqcValue(ax.tester) \in DOMAIN ax.offers
                                    /\ ax.offers[EqcValue(ax.tester)] \in problem.accepted
            BY <1>1, <1>2, ValueAccepted
        <3>2. Choices' = Choices /\ Axioms' = Axioms
            BY <2>1 DEF Choices, Axioms
        <3>3. ValAxioms' = ValAxioms
            BY <3>2 DEF ValAxioms
        <3>4. \A t : EqcValue(t)' = EqcValue(t)
            BY <3>2 DEF EqcValue
        <3> QED BY <1>1, <3>1, <3>3, <3>4 DEF SatHasValue
    <2> QED BY <1>1, <2>1, <2>2, <2>3, MapsStay DEF IInv, maps
<1>3. CASE ~HasValue
    <2> DEFINE o == LenValOptions(None, None)
    <2>1. ~(o.axioms \subseteq Axioms)
        BY <1>1, <1>3, FinalCheckAdds
    <2>2. Done(o, scopes)
        BY <1>3, <2>1 DEF FinalCheck
    <2>3. Good(o)
        BY <1>1, FinalCases
    <2> HIDE DEF o
    <2>4. ASSUME NEW s \in 1..Len(scopes), NEW n \in LengthsOf(problem), NEW i \in Nat,
                 scopes[s].choice = <<ValTester(n, i), More>>
          PROVE  i + 1 < o.valTesters[n]
        <3>1. i + 1 < valTesters[n]
            BY <1>1, <2>4 DEF ScopesInv
        <3>2. valTesters[n] <= o.valTesters[n] /\ valTesters[n] \in Nat /\ o.valTesters[n] \in Nat
            BY <1>1, <2>3 DEF Good, Grown, MapsInv, MapsOK
        <3> QED BY <3>1, <3>2
    <2>5. /\ Stack(scopes)
          /\ \A s \in 1..Len(scopes) : \A ax \in scopes[s].axioms :
                 AxiomOK(problem, lenTesters, valTesters, valRangeMap, ax)
          /\ \A s \in 1..Len(scopes) : scopes[s].choice # None => Chosen(scopes, s)
        BY <1>1 DEF ScopesInv
    <2>6. /\ MapsInv' /\ ScopesInv' /\ verdict' = verdict
          /\ MapsGrow
        BY <1>1, <2>2, <2>3, <2>4, <2>5, CallKeeps
    <2>7. SatHasValue'
        BY <1>1, <2>6 DEF SatHasValue
    <2> QED BY <1>1, <2>6, <2>7 DEF IInv
<1> QED BY <1>2, <1>3

-----------------------------------------------------------------------------
(* The order in which the encodings of a length follow each other: the last *)
(* digit in which two differ tells which is first.                         *)

Digits(p) == 0..p.charSetSize - 1
Codes(p, n) == [1..n + 1 -> Digits(p)]
Before(n, a, b) == \E k \in 1..n + 1 : a[k] < b[k] /\ \A j \in k + 1..n + 1 : a[j] = b[j]
UpTo(n, a, b) == a = b \/ Before(n, a, b)

LEMMA GreatestOf ==
    ASSUME NEW n \in Nat, NEW S \in SUBSET (0..n), S # {}
    PROVE  \E i \in S : \A j \in S : j <= i
<1> DEFINE T == {n - i : i \in S}
<1>1. T \subseteq Nat /\ T # {}
    <2>1. PICK i \in S : TRUE
        OBVIOUS
    <2>2. n - i \in T
        BY <2>1
    <2>3. \A j \in S : n - j \in Nat
        BY SMT
    <2> QED BY <2>2, <2>3
<1>2. PICK k \in T : \A l \in T : k <= l
    <2> HIDE DEF T
    <2> QED BY <1>1, LeastOf
<1>3. PICK i \in S : k = n - i
    OBVIOUS
<1>4. ASSUME NEW j \in S PROVE j <= i
    <2>1. n - i <= n - j
        BY <1>2, <1>3
    <2> QED BY <2>1
<1> QED BY <1>4

LEMMA CodeFacts ==
    ASSUME NEW p \in Problems, NEW n \in Nat, NEW a \in Codes(p, n)
    PROVE  /\ p.charSetSize \in Nat \ {0, 1}
           /\ \A k \in 1..n + 1 : a[k] \in Nat /\ a[k] < p.charSetSize
           /\ DOMAIN a = 1..n + 1 /\ Len(a) = n + 1 /\ n + 1 \in 1..n + 1
           /\ (Covered(a) <=> a[n + 1] > 0)
<1>1. p.charSetSize \in Nat \ {0, 1}
    BY SearchAssumption
<1>2. \A k \in 1..n + 1 : a[k] \in Nat /\ a[k] < p.charSetSize
    BY <1>1 DEF Codes, Digits
<1>3. DOMAIN a = 1..n + 1 /\ n + 1 \in Nat
    BY DEF Codes
<1>4. a \in Seq(Nat)
    <2>1. a \in [1..n + 1 -> Nat]
        BY <1>1 DEF Codes, Digits
    <2> QED BY <1>3, <2>1, SeqDef
<1>5. Len(a) = n + 1
    <2>1. Len(a) \in Nat /\ DOMAIN a = 1..Len(a)
        BY <1>4, LenProperties
    <2>2. \A x, y \in Nat : 1..x = 1..y => x = y
        <3> SUFFICES ASSUME NEW x \in Nat, NEW y \in Nat, 1..x = 1..y, x < y PROVE FALSE
            OBVIOUS
        <3>1. y \in 1..y /\ y \notin 1..x
            OBVIOUS
        <3> QED BY <3>1
    <2> QED BY <1>3, <2>1, <2>2
<1> QED BY <1>1, <1>2, <1>3, <1>5 DEF Covered

LEMMA BeforeIrreflexive ==
    ASSUME NEW p \in Problems, NEW n \in Nat, NEW a \in Codes(p, n)
    PROVE  ~Before(n, a, a)
    BY CodeFacts DEF Before

LEMMA BeforeTransitive ==
    ASSUME NEW p \in Problems, NEW n \in Nat,
           NEW a \in Codes(p, n), NEW b \in Codes(p, n), NEW c \in Codes(p, n),
           Before(n, a, b), Before(n, b, c)
    PROVE  Before(n, a, c)
<1>1. PICK k \in 1..n + 1 : a[k] < b[k] /\ \A j \in k + 1..n + 1 : a[j] = b[j]
    BY DEF Before
<1>2. PICK l \in 1..n + 1 : b[l] < c[l] /\ \A j \in l + 1..n + 1 : b[j] = c[j]
    BY DEF Before
<1>3. \A j \in 1..n + 1 : a[j] \in Nat /\ b[j] \in Nat /\ c[j] \in Nat
    BY CodeFacts
<1>4. CASE k = l
    BY <1>1, <1>2, <1>3, <1>4 DEF Before
<1>5. CASE k < l
    <2>1. l \in k + 1..n + 1 /\ \A j \in l + 1..n + 1 : j \in k + 1..n + 1
        BY <1>5
    <2>2. a[l] < c[l] /\ \A j \in l + 1..n + 1 : a[j] = c[j]
        BY <1>1, <1>2, <2>1
    <2> QED BY <2>2 DEF Before
<1>6. CASE l < k
    <2>1. k \in l + 1..n + 1 /\ \A j \in k + 1..n + 1 : j \in l + 1..n + 1
        BY <1>6
    <2>2. a[k] < c[k] /\ \A j \in k + 1..n + 1 : a[j] = c[j]
        BY <1>1, <1>2, <2>1
    <2> QED BY <2>2 DEF Before
<1> QED BY <1>4, <1>5, <1>6

LEMMA BeforeTotal ==
    ASSUME NEW p \in Problems, NEW n \in Nat, NEW a \in Codes(p, n), NEW b \in Codes(p, n)
    PROVE  a = b \/ Before(n, a, b) \/ Before(n, b, a)
<1> DEFINE S == {k \in 1..n + 1 : a[k] # b[k]}
<1>1. CASE S = {}
    <2>1. \A k \in 1..n + 1 : a[k] = b[k]
        BY <1>1
    <2> QED BY <2>1 DEF Codes
<1>2. CASE S # {}
    <2>1. S \in SUBSET (0..n + 1) /\ n + 1 \in Nat
        OBVIOUS
    <2>2. PICK k \in S : \A j \in S : j <= k
        <3> HIDE DEF S
        <3> QED BY <1>2, <2>1, GreatestOf
    <2>3. k \in 1..n + 1 /\ a[k] # b[k] /\ a[k] \in Nat /\ b[k] \in Nat
        BY CodeFacts
    <2>4. \A j \in k + 1..n + 1 : a[j] = b[j]
        <3> TAKE j \in k + 1..n + 1
        <3>1. j \in 1..n + 1 /\ ~(j <= k)
            BY <2>3
        <3>2. j \notin S
            BY <2>2, <3>1
        <3> QED BY <3>1, <3>2
    <2>5. CASE a[k] < b[k]
        BY <2>3, <2>4, <2>5 DEF Before
    <2>6. CASE b[k] < a[k]
        BY <2>3, <2>4, <2>6 DEF Before
    <2> QED BY <2>3, <2>5, <2>6
<1> QED BY <1>1, <1>2

\* getNextValEncode: digits up to the first that is not the largest become 0,
\* and that one is counted up.
LEMMA NextFacts ==
    ASSUME NEW p \in Problems, NEW n \in Nat, NEW a \in Codes(p, n), ~Covered(a)
    PROVE  /\ NextOf(p, a) \in Codes(p, n)
           /\ \E k \in 1..n + 1 :
                  /\ \A j \in 1..k - 1 : a[j] = p.charSetSize - 1 /\ NextOf(p, a)[j] = 0
                  /\ a[k] + 1 < p.charSetSize /\ NextOf(p, a)[k] = a[k] + 1
                  /\ \A j \in k + 1..n + 1 : NextOf(p, a)[j] = a[j]
<1> DEFINE c == p.charSetSize
           next == NextOf(p, a)
           S == {k \in Nat : k \in 1..n + 1 /\ a[k] # c - 1}
<1>1. /\ c \in Nat \ {0, 1} /\ \A k \in 1..n + 1 : a[k] \in Nat /\ a[k] < c
      /\ DOMAIN a = 1..n + 1 /\ n + 1 \in 1..n + 1 /\ a[n + 1] = 0
    BY CodeFacts
<1>2. PICK k \in S : \A l \in S : k <= l
    <2>1. n + 1 \in S
        BY <1>1
    <2> QED BY <2>1, LeastOf
<1>3. k \in 1..n + 1 /\ a[k] # c - 1
    OBVIOUS
<1>4. \A j \in 1..k - 1 : a[j] = c - 1
    <2> TAKE j \in 1..k - 1
    <2>1. j \in 1..n + 1 /\ ~(k <= j) /\ j \in Nat
        BY <1>3
    <2>2. j \notin S
        BY <1>2, <2>1
    <2> QED BY <2>1, <2>2
<1> HIDE DEF S
<1>5. \A i \in 1..n + 1 : next[i] = (a[i] + (IF \A j \in 1..i - 1 : a[j] = c - 1 THEN 1 ELSE 0)) % c
    BY <1>1 DEF NextOf
<1>6. DOMAIN next = 1..n + 1
    BY <1>1 DEF NextOf
<1> HIDE DEF next
<1>7. \A x \in Nat : x < c => x % c = x
    BY <1>1, Z3
<1>8. c % c = 0
    BY <1>1, Z3
<1>9. ASSUME NEW i \in 1..k - 1 PROVE next[i] = 0
    <2>1. i \in 1..n + 1 /\ \A j \in 1..i - 1 : j \in 1..k - 1
        BY <1>3
    <2>2. next[i] = (a[i] + 1) % c
        BY <1>4, <1>5, <2>1
    <2>3. a[i] + 1 = c
        BY <1>1, <1>4
    <2> QED BY <1>8, <2>2, <2>3
<1>10. a[k] + 1 < c /\ next[k] = a[k] + 1
    <2>1. a[k] + 1 < c /\ a[k] + 1 \in Nat
        BY <1>1, <1>3
    <2>2. next[k] = (a[k] + 1) % c
        BY <1>3, <1>4, <1>5
    <2> QED BY <1>7, <2>1, <2>2
<1>11. ASSUME NEW i \in k + 1..n + 1 PROVE next[i] = a[i]
    <2>1. i \in 1..n + 1 /\ k \in 1..i - 1
        BY <1>3
    <2>2. ~\A j \in 1..i - 1 : a[j] = c - 1
        BY <1>3, <2>1
    <2>3. a[i] \in Nat /\ a[i] < c /\ a[i] + 0 = a[i]
        BY <1>1, <2>1
    <2>4. next[i] = a[i] % c
        BY <1>5, <2>1, <2>2, <2>3
    <2> QED BY <1>7, <2>3, <2>4
<1>12. \A i \in 1..n + 1 : next[i] \in Digits(p)
    <2> TAKE i \in 1..n + 1
    <2>1. i \in 1..k - 1 \/ i = k \/ i \in k + 1..n + 1
        BY <1>3
    <2>2. CASE i \in 1..k - 1
        BY <1>1, <1>9, <2>2 DEF Digits
    <2>3. CASE i = k
        BY <1>1, <1>3, <1>10, <2>3 DEF Digits
    <2>4. CASE i \in k + 1..n + 1
        BY <1>1, <1>11, <2>4 DEF Digits
    <2> QED BY <2>1, <2>2, <2>3, <2>4
<1>13. next \in Codes(p, n)
    <2>1. next = [i \in 1..n + 1 |-> next[i]]
        BY <1>1 DEF next, NextOf
    <2> QED BY <1>12, <2>1 DEF Codes
<1> QED BY <1>3, <1>4, <1>9, <1>10, <1>11, <1>13 DEF next

\* The next encoding follows immediately.
LEMMA NextFollows ==
    ASSUME NEW p \in Problems, NEW n \in Nat, NEW a \in Codes(p, n), ~Covered(a)
    PROVE  /\ Before(n, a, NextOf(p, a))
           /\ \A b \in Codes(p, n) : Before(n, b, NextOf(p, a)) <=> UpTo(n, b, a)
<1> DEFINE c == p.charSetSize
           next == NextOf(p, a)
<1>1. next \in Codes(p, n)
    BY NextFacts
<1>2. PICK k \in 1..n + 1 :
                  /\ \A j \in 1..k - 1 : a[j] = p.charSetSize - 1 /\ next[j] = 0
                  /\ a[k] + 1 < p.charSetSize /\ next[k] = a[k] + 1
                  /\ \A j \in k + 1..n + 1 : next[j] = a[j]
    BY NextFacts
<1> HIDE DEF next
<1>3. c \in Nat /\ \A j \in 1..n + 1 : a[j] \in Nat /\ a[j] < c /\ next[j] \in Nat
    BY <1>1, CodeFacts
<1>4. Before(n, a, next)
    BY <1>2, <1>3 DEF Before
<1>5. ASSUME NEW b \in Codes(p, n), Before(n, a, b) PROVE UpTo(n, next, b)
    <2>1. PICK m \in 1..n + 1 : a[m] < b[m] /\ \A j \in m + 1..n + 1 : a[j] = b[j]
        BY <1>5 DEF Before
    <2>2. \A j \in 1..n + 1 : b[j] \in Nat /\ b[j] < c
        BY CodeFacts
    <2>3. ~(m < k)
        <3>1. ASSUME m < k PROVE FALSE
            <4>1. m \in 1..k - 1
                BY <3>1
            <4>2. a[m] = c - 1 /\ a[m] < b[m] /\ b[m] \in Nat /\ b[m] < c
                BY <1>2, <2>1, <2>2, <4>1
            <4> QED BY <1>3, <4>2
        <3> QED BY <3>1
    <2>4. CASE k < m
        <3>1. m \in k + 1..n + 1 /\ \A j \in m + 1..n + 1 : j \in k + 1..n + 1
            BY <2>4
        <3>2. next[m] < b[m] /\ \A j \in m + 1..n + 1 : next[j] = b[j]
            BY <1>2, <2>1, <3>1
        <3> QED BY <3>2 DEF Before, UpTo
    <2>5. CASE m = k /\ next[k] < b[k]
        BY <1>2, <2>1, <2>5 DEF Before, UpTo
    <2>6. CASE m = k /\ next[k] = b[k]
        <3>1. \A j \in k..n + 1 : next[j] = b[j]
            <4> TAKE j \in k..n + 1
            <4>1. j = k \/ j \in k + 1..n + 1
                OBVIOUS
            <4> QED BY <1>2, <2>1, <2>6, <4>1
        <3>2. CASE next = b
            BY <3>2 DEF UpTo
        <3>3. CASE Before(n, next, b)
            BY <3>3 DEF UpTo
        <3>4. CASE Before(n, b, next)
            <4>1. PICK i \in 1..n + 1 : b[i] < next[i]
                BY <3>4 DEF Before
            <4>2. i \in 1..k - 1 \/ i \in k..n + 1
                OBVIOUS
            <4>3. b[i] \in Nat /\ next[i] \in Nat
                BY <1>3, <2>2
            <4> QED BY <1>2, <3>1, <4>1, <4>2, <4>3
        <3> QED BY <1>1, <3>2, <3>3, <3>4, BeforeTotal
    <2>7. m = k => next[k] < b[k] \/ next[k] = b[k]
        BY <1>2, <1>3, <2>1, <2>2
    <2> QED BY <2>3, <2>4, <2>5, <2>6, <2>7
<1>6. ASSUME NEW b \in Codes(p, n), Before(n, b, next) PROVE UpTo(n, b, a)
    <2>1. CASE Before(n, a, b)
        <3>1. next = b \/ Before(n, next, b)
            BY <1>5, <2>1 DEF UpTo
        <3>2. Before(n, b, b)
            BY <1>1, <1>6, <3>1, BeforeTransitive
        <3> QED BY <3>2, BeforeIrreflexive
    <2>2. CASE b = a \/ Before(n, b, a)
        BY <2>2 DEF UpTo
    <2> QED BY <2>1, <2>2, BeforeTotal
<1>7. ASSUME NEW b \in Codes(p, n), UpTo(n, b, a) PROVE Before(n, b, next)
    <2>1. CASE b = a
        BY <1>4, <2>1
    <2>2. CASE Before(n, b, a)
        BY <1>1, <1>4, <2>2, BeforeTransitive
    <2> QED BY <1>7, <2>1, <2>2 DEF UpTo
<1> QED BY <1>4, <1>6, <1>7 DEF next
\* The encodings of a tester are all those from its first one up to the one
\* after its last, in their order.
Between(n, a, e, b) == UpTo(n, a, e) /\ Before(n, e, b)
RunOK(p, n, first, k) ==
    LET run == RunOf(p, first)
    IN /\ run[k] \in Codes(p, n) /\ UpTo(n, first, run[k])
       /\ \A e \in Codes(p, n) : Between(n, first, e, run[k]) <=> \E j \in 0..k - 1 : e = run[j]

LEMMA UpToTransitive ==
    ASSUME NEW p \in Problems, NEW n \in Nat,
           NEW a \in Codes(p, n), NEW b \in Codes(p, n), NEW c \in Codes(p, n)
    PROVE  /\ UpTo(n, a, b) /\ UpTo(n, b, c) => UpTo(n, a, c)
           /\ UpTo(n, a, b) /\ Before(n, b, c) => Before(n, a, c)
           /\ Before(n, a, b) /\ UpTo(n, b, c) => Before(n, a, c)
    BY BeforeTransitive DEF UpTo

LEMMA RunIsOK ==
    ASSUME NEW p \in Problems, NEW n \in Nat, NEW first \in Codes(p, n)
    PROVE  \A k \in 0..OfferedOf(p, first) : RunOK(p, n, first, k)
<1> DEFINE of == OfferedOf(p, first)
           run == RunOf(p, first)
           S == {k \in Nat : k <= of /\ ~RunOK(p, n, first, k)}
<1>1. /\ of \in 0..p.valStep /\ p.valStep \in Nat /\ \A j \in 0..of - 1 : ~Covered(run[j])
      /\ run[0] = first /\ \A k \in 1..p.valStep : run[k] = NextOf(p, run[k - 1])
    <2>1. p.valStep \in Nat \ {0}
        BY ProblemFacts
    <2> QED BY <2>1, OfferedFacts, RunUnfolds DEF Stops
<1> HIDE DEF of, run
<1>2. SUFFICES ASSUME S # {} PROVE FALSE
    <2>1. \A k \in 0..of : k \in Nat /\ k <= of
        BY <1>1
    <2> QED BY <1>2, <2>1 DEF of
<1>3. PICK k \in S : \A l \in S : k <= l
    <2>1. S \in SUBSET Nat
        OBVIOUS
    <2> HIDE DEF S
    <2> QED BY <1>2, <2>1, LeastOf
<1>4. k \in Nat /\ k <= of /\ ~RunOK(p, n, first, k)
    OBVIOUS
<1>5. CASE k = 0
    <2>1. \A e \in Codes(p, n) : ~Between(n, first, e, first)
        <3> TAKE e \in Codes(p, n)
        <3>1. ASSUME Between(n, first, e, first) PROVE FALSE
            <4>1. Before(n, first, first)
                BY <3>1, UpToTransitive DEF Between
            <4> QED BY <4>1, BeforeIrreflexive
        <3> QED BY <3>1
    <2>2. UpTo(n, first, first)
        BY DEF UpTo
    <2>3. RunOK(p, n, first, 0)
        BY <1>1, <2>1, <2>2 DEF RunOK, run
    <2> QED BY <1>4, <1>5, <2>3
<1>6. CASE k # 0
    <2>1. k - 1 \in Nat /\ k - 1 \in 0..of - 1 /\ k \in 1..p.valStep /\ k - 1 <= of /\ ~(k <= k - 1)
        BY <1>1, <1>4, <1>6
    <2>2. RunOK(p, n, first, k - 1)
        BY <1>3, <2>1
    <2>3. ~Covered(run[k - 1]) /\ run[k] = NextOf(p, run[k - 1])
        BY <1>1, <2>1
    <2> DEFINE a == run[k - 1]
               b == run[k]
    <2>4. /\ a \in Codes(p, n) /\ UpTo(n, first, a)
          /\ \A e \in Codes(p, n) :
                 Between(n, first, e, a) <=> \E j \in 0..(k - 1) - 1 : e = run[j]
        BY <2>2 DEF RunOK, run
    <2> HIDE DEF a, b
    <2>5. /\ b \in Codes(p, n) /\ Before(n, a, b)
          /\ \A e \in Codes(p, n) : Before(n, e, b) <=> UpTo(n, e, a)
        <3>1. ~Covered(a) /\ b = NextOf(p, a)
            BY <2>3 DEF a, b
        <3> QED BY <2>4, <3>1, NextFacts, NextFollows
    <2>6. UpTo(n, first, b)
        BY <2>4, <2>5, UpToTransitive DEF UpTo
    <2>7. ASSUME NEW e \in Codes(p, n)
          PROVE  Between(n, first, e, b) <=> \E j \in 0..k - 1 : e = run[j]
        <3>1. Between(n, first, e, b) <=> Between(n, first, e, a) \/ e = a
            BY <2>4, <2>5 DEF Between, UpTo
        <3>2. \A j : j \in 0..k - 1 <=> j \in 0..(k - 1) - 1 \/ j = k - 1
            BY <2>1
        <3> QED BY <2>4, <3>1, <3>2 DEF a
    <2>8. RunOK(p, n, first, k)
        BY <2>5, <2>6, <2>7 DEF RunOK, b, run
    <2> QED BY <1>4, <2>8
<1> QED BY <1>5, <1>6

LEMMA RunDistinct ==
    ASSUME NEW p \in Problems, NEW n \in Nat, NEW first \in Codes(p, n),
           NEW k \in 0..OfferedOf(p, first), NEW j \in 0..k - 1
    PROVE  RunOf(p, first)[j] # RunOf(p, first)[k]
<1> DEFINE run == RunOf(p, first)
<1>1. OfferedOf(p, first) \in Nat /\ j \in 0..OfferedOf(p, first)
    <2>1. OfferedOf(p, first) \in Nat
        BY ProblemFacts, OfferedFacts
    <2> QED BY <2>1
<1>2. RunOK(p, n, first, k) /\ RunOK(p, n, first, j)
    BY <1>1, RunIsOK
<1>3. run[k] \in Codes(p, n) /\ run[j] \in Codes(p, n) /\ Before(n, run[j], run[k])
    BY <1>2 DEF RunOK, Between
<1> QED BY <1>3, BeforeIrreflexive

-----------------------------------------------------------------------------
(* Encodings and strings.                                                  *)

Strings(p, n) == [1..n -> Digits(p)]

LEMMA StringOfCode ==
    ASSUME NEW p \in Problems, NEW n \in Nat, NEW e \in Codes(p, n)
    PROVE  /\ ValString(e) = [q \in 1..n |-> e[n + 1 - q]]
           /\ ValString(e) \in Strings(p, n)
<1>1. Len(e) - 1 = n /\ DOMAIN e = 1..n + 1
    BY CodeFacts
<1>2. ValString(e) = [q \in 1..n |-> e[n + 1 - q]]
    BY <1>1 DEF ValString
<1>3. \A q \in 1..n : n + 1 - q \in 1..n + 1
    OBVIOUS
<1>4. \A q \in 1..n : e[n + 1 - q] \in Digits(p)
    BY <1>3 DEF Codes
<1> QED BY <1>2, <1>4 DEF Strings

\* Every string has an encoding, and only one.
LEMMA CodesAreStrings ==
    ASSUME NEW p \in Problems, NEW n \in Nat
    PROVE  /\ \A e, f \in Codes(p, n) :
                  ~Covered(e) /\ ~Covered(f) /\ ValString(e) = ValString(f) => e = f
           /\ \A s \in Strings(p, n) : \E e \in Codes(p, n) : ~Covered(e) /\ ValString(e) = s
<1>1. ASSUME NEW e \in Codes(p, n), NEW f \in Codes(p, n), ~Covered(e), ~Covered(f),
             ValString(e) = ValString(f)
      PROVE  e = f
    <2>1. e[n + 1] = 0 /\ f[n + 1] = 0
        BY <1>1, CodeFacts
    <2>2. ASSUME NEW k \in 1..n PROVE e[k] = f[k]
        <3>1. n + 1 - k \in 1..n /\ n + 1 - (n + 1 - k) = k
            OBVIOUS
        <3>2. ValString(e)[n + 1 - k] = e[k] /\ ValString(f)[n + 1 - k] = f[k]
            BY <3>1, StringOfCode
        <3> QED BY <1>1, <3>2
    <2>3. \A k \in 1..n + 1 : e[k] = f[k]
        <3> TAKE k \in 1..n + 1
        <3>1. k \in 1..n \/ k = n + 1
            OBVIOUS
        <3> QED BY <2>1, <2>2, <3>1
    <2> QED BY <2>3 DEF Codes
<1>2. ASSUME NEW s \in Strings(p, n)
      PROVE  \E e \in Codes(p, n) : ~Covered(e) /\ ValString(e) = s
    <2> DEFINE e == [k \in 1..n + 1 |-> IF k = n + 1 THEN 0 ELSE s[n + 1 - k]]
    <2>1. 0 \in Digits(p)
        BY SearchAssumption DEF Digits
    <2>2. \A k \in 1..n + 1 : k # n + 1 => n + 1 - k \in 1..n
        OBVIOUS
    <2>3. e \in Codes(p, n)
        BY <2>1, <2>2 DEF Codes, Strings
    <2>4. e[n + 1] = 0
        OBVIOUS
    <2>5. \A q \in 1..n : e[n + 1 - q] = s[q]
        <3> TAKE q \in 1..n
        <3>1. n + 1 - q \in 1..n + 1 /\ n + 1 - q # n + 1 /\ n + 1 - (n + 1 - q) = q
            OBVIOUS
        <3> QED BY <3>1
    <2> HIDE DEF e
    <2>6. ~Covered(e)
        BY <2>3, <2>4, CodeFacts
    <2>7. ValString(e) = s
        <3>1. ValString(e) = [q \in 1..n |-> e[n + 1 - q]]
            BY <2>3, StringOfCode
        <3>2. s = [q \in 1..n |-> s[q]]
            BY DEF Strings
        <3> QED BY <2>5, <3>1, <3>2
    <2> QED BY <2>3, <2>6, <2>7
<1> QED BY <1>1, <1>2

-----------------------------------------------------------------------------
(* The testers of a length.                                                *)

FirstNow(n, i) == FirstOf(problem, valRangeMap, n, i)

\* A tester goes on where the one before stopped.
LEMMA GoesOn ==
    ASSUME MapsInv, NEW n \in LengthsOf(problem), NEW i \in 0..valTesters[n] - 1
    PROVE  LET of == OfferedOf(problem, FirstNow(n, i))
           IN /\ of \in Nat \ {0}
              /\ FirstNow(n, i + 1) = RunOf(problem, FirstNow(n, i))[of]
              /\ \A j \in 0..of - 1 : ~Covered(RunOf(problem, FirstNow(n, i))[j])
<1> DEFINE first == FirstNow(n, i)
           of == OfferedOf(problem, first)
<1>1. /\ problem \in Problems /\ i \in Nat /\ problem.valStep \in Nat \ {0}
      /\ of > 0 /\ valRangeMap[ValTester(n, i)] = LastOf(problem, first)
    BY ProblemFacts DEF MapsInv, MapsOK, FirstNow
<1>2. FirstNow(n, i + 1) = NextOf(problem, LastOf(problem, first))
    <2>1. i + 1 # 0 /\ i + 1 - 1 = i
        BY <1>1
    <2>2. FirstNow(n, i + 1) = NextOf(problem, valRangeMap[ValTester(n, i)])
        BY <2>1 DEF FirstNow, FirstOf
    <2> QED BY <1>1, <2>2
<1> HIDE DEF first
<1>3. of \in 0..problem.valStep /\ Stops(problem, first, of) /\ RunOf(problem, first)[of] = NextOf(problem, LastOf(problem, first))
    BY <1>1, OfferedFacts
<1> QED BY <1>1, <1>2, <1>3 DEF Stops, first

LEMMA FirstIsCode ==
    ASSUME MapsInv, NEW n \in LengthsOf(problem)
    PROVE  \A i \in 0..valTesters[n] : FirstNow(n, i) \in Codes(problem, n)
<1> DEFINE S == {i \in Nat : i <= valTesters[n] /\ FirstNow(n, i) \notin Codes(problem, n)}
<1>1. problem \in Problems /\ valTesters[n] \in Nat /\ n \in Nat
    BY ProblemFacts DEF MapsInv, MapsOK
<1>2. SUFFICES ASSUME S # {} PROVE FALSE
    BY <1>1
<1>3. PICK i \in S : \A l \in S : i <= l
    BY <1>2, LeastOf
<1>4. i \in Nat /\ i <= valTesters[n] /\ FirstNow(n, i) \notin Codes(problem, n)
    OBVIOUS
<1>5. CASE i = 0
    <2>1. FirstNow(n, 0) = Zeros(n)
        BY DEF FirstNow, FirstOf
    <2>2. 0 \in Digits(problem)
        BY <1>1, SearchAssumption DEF Digits
    <2>3. Zeros(n) \in Codes(problem, n)
        BY <2>2 DEF Zeros, Codes
    <2> QED BY <1>4, <1>5, <2>1, <2>3
<1>6. CASE i # 0
    <2> DEFINE of == OfferedOf(problem, FirstNow(n, i - 1))
    <2>1. i - 1 \in 0..valTesters[n] - 1 /\ i - 1 \in Nat /\ ~(i <= i - 1) /\ i - 1 + 1 = i
        BY <1>1, <1>4, <1>6
    <2>2. i - 1 \notin S
        BY <1>3, <2>1
    <2>3. FirstNow(n, i - 1) \in Codes(problem, n)
        BY <1>1, <1>4, <2>1, <2>2
    <2>4. of \in Nat \ {0} /\ FirstNow(n, i) = RunOf(problem, FirstNow(n, i - 1))[of]
        BY <2>1, GoesOn
    <2>5. of \in 0..of
        BY <2>4
    <2>6. RunOK(problem, n, FirstNow(n, i - 1), of)
        BY <1>1, <2>3, <2>5, RunIsOK
    <2> QED BY <1>4, <2>4, <2>6 DEF RunOK
<1> QED BY <1>5, <1>6

LEMMA FirstsGrow ==
    ASSUME MapsInv, NEW n \in LengthsOf(problem), NEW i \in 0..valTesters[n]
    PROVE  \A j \in i..valTesters[n] : UpTo(n, FirstNow(n, i), FirstNow(n, j))
<1> DEFINE S == {j \in Nat : i <= j /\ j <= valTesters[n] /\ ~UpTo(n, FirstNow(n, i), FirstNow(n, j))}
<1>1. problem \in Problems /\ valTesters[n] \in Nat /\ n \in Nat /\ i \in Nat
    BY ProblemFacts DEF MapsInv, MapsOK
<1>2. SUFFICES ASSUME S # {} PROVE FALSE
    BY <1>1
<1>3. PICK j \in S : \A l \in S : j <= l
    BY <1>2, LeastOf
<1>4. j \in Nat /\ i <= j /\ j <= valTesters[n] /\ ~UpTo(n, FirstNow(n, i), FirstNow(n, j))
    OBVIOUS
<1>5. j # i
    BY <1>4 DEF UpTo
<1> DEFINE of == OfferedOf(problem, FirstNow(n, j - 1))
<1>6. j - 1 \in 0..valTesters[n] - 1 /\ j - 1 \in Nat /\ ~(j <= j - 1) /\ j - 1 + 1 = j /\ i <= j - 1
      /\ j - 1 \in 0..valTesters[n] /\ j \in 0..valTesters[n] /\ j - 1 <= valTesters[n]
    BY <1>1, <1>4, <1>5
<1>7. j - 1 \notin S
    BY <1>3, <1>6
<1>8. UpTo(n, FirstNow(n, i), FirstNow(n, j - 1))
    BY <1>6, <1>7
<1> HIDE DEF S
<1>9. /\ FirstNow(n, i) \in Codes(problem, n) /\ FirstNow(n, j) \in Codes(problem, n)
      /\ FirstNow(n, j - 1) \in Codes(problem, n)
    BY <1>6, FirstIsCode
<1>10. of \in Nat \ {0} /\ FirstNow(n, j) = RunOf(problem, FirstNow(n, j - 1))[of]
    BY <1>6, GoesOn
<1>11. of \in 0..of
    BY <1>10
<1>12. RunOK(problem, n, FirstNow(n, j - 1), of)
    BY <1>1, <1>9, <1>11, RunIsOK
<1>13. UpTo(n, FirstNow(n, j - 1), FirstNow(n, j))
    BY <1>10, <1>12 DEF RunOK
<1> QED BY <1>1, <1>4, <1>8, <1>9, <1>13, UpToTransitive

\* A tester offers the strings of the encodings from its first one up to that
\* of the next tester, each once.
Interval(n, i) == {e \in Codes(problem, n) : Between(n, FirstNow(n, i), e, FirstNow(n, i + 1))}

LEMMA TesterOffers ==
    ASSUME MapsInv, NEW n \in LengthsOf(problem), NEW i \in 0..valTesters[n] - 1
    PROVE  LET ax == ValOptions(n, i)
           IN /\ StringsIn(ax) = {ValString(e) : e \in Interval(n, i)}
              /\ \A e \in Interval(n, i) : ~Covered(e)
              /\ \A o, o2 \in DOMAIN ax.offers : ax.offers[o] = ax.offers[o2] => o = o2
              /\ IsFiniteSet(DOMAIN ax.offers)
              /\ ax.more <=> ~Covered(FirstNow(n, i + 1))
<1> DEFINE ax == ValOptions(n, i)
           first == FirstNow(n, i)
           of == OfferedOf(problem, first)
           run == RunOf(problem, first)
           v == problem.valStep
<1>1. /\ problem \in Problems /\ n \in Nat /\ i \in Nat /\ v \in Nat /\ i * v \in Nat
      /\ i \in 0..valTesters[n]
    <2>1. problem \in Problems /\ n \in Nat /\ i \in Nat /\ v \in Nat /\ i \in 0..valTesters[n]
        BY ProblemFacts DEF MapsInv, MapsOK
    <2> QED BY <2>1, TimesNat
<1>2. first \in Codes(problem, n)
    BY <1>1, FirstIsCode
<1>3. of \in Nat \ {0} /\ FirstNow(n, i + 1) = run[of] /\ \A j \in 0..of - 1 : ~Covered(run[j])
    BY GoesOn
<1>4. ax = OptionsOf(problem, valRangeMap, n, i)
    BY OptionsAre
<1>5. ax.more <=> ~Covered(run[of])
    <2>1. ax.more = ~Covered(run[of])
        BY <1>4 DEF OptionsOf, FirstNow
    <2> HIDE DEF ax
    <2>2. ASSUME ax.more PROVE ~Covered(run[of])
        BY <2>1, <2>2
    <2>3. ASSUME ~Covered(run[of]) PROVE ax.more
        BY <2>1, <2>3
    <2> QED BY <2>2, <2>3
<1>6. /\ DOMAIN ax.offers = {i * v + k : k \in 0..of - 1}
      /\ \A o \in DOMAIN ax.offers : ax.offers[o] = ValString(run[o - i * v])
    BY <1>4 DEF OptionsOf, FirstNow
<1> HIDE DEF ax, first, of, run, v
<1>7. ASSUME NEW k \in 0..of - 1
      PROVE  i * v + k \in DOMAIN ax.offers /\ ax.offers[i * v + k] = ValString(run[k])
    <2> DEFINE o == i * v + k
    <2>1. o \in DOMAIN ax.offers
        BY <1>6
    <2>2. o - i * v = k
        BY <1>1
    <2> HIDE DEF o
    <2>3. ax.offers[o] = ValString(run[o - i * v])
        BY <1>6, <2>1
    <2>4. ax.offers[o] = ValString(run[k])
        BY <2>2, <2>3
    <2> QED BY <2>1, <2>4 DEF o
<1>8. \A o \in DOMAIN ax.offers : \E k \in 0..of - 1 : o = i * v + k
    BY <1>6
<1>9. \A k \in 0..of : RunOK(problem, n, first, k)
    BY <1>1, <1>2, RunIsOK DEF of
<1>10. \A k \in 0..of - 1 : run[k] \in Codes(problem, n) /\ ~Covered(run[k])
    <2> TAKE k \in 0..of - 1
    <2>1. k \in 0..of
        BY <1>3
    <2> QED BY <1>3, <1>9, <2>1 DEF RunOK, run
<1>11. \A e \in Codes(problem, n) :
           e \in Interval(n, i) <=> \E k \in 0..of - 1 : e = run[k]
    <2>1. of \in 0..of
        BY <1>3
    <2>2. \A e \in Codes(problem, n) : Between(n, first, e, run[of]) <=> \E k \in 0..of - 1 : e = run[k]
        BY <1>9, <2>1 DEF RunOK, run
    <2> QED BY <1>3, <2>2 DEF Interval, first
<1>12. StringsIn(ax) = {ValString(e) : e \in Interval(n, i)}
    <2>1. ASSUME NEW o \in DOMAIN ax.offers
          PROVE  ax.offers[o] \in {ValString(e) : e \in Interval(n, i)}
        <3>1. PICK k \in 0..of - 1 : o = i * v + k
            BY <1>8
        <3>2. run[k] \in Interval(n, i) /\ ax.offers[o] = ValString(run[k])
            BY <1>7, <1>10, <1>11, <3>1
        <3> QED BY <3>2
    <2>2. ASSUME NEW e \in Interval(n, i) PROVE ValString(e) \in StringsIn(ax)
        <3>1. PICK k \in 0..of - 1 : e = run[k]
            BY <1>11 DEF Interval
        <3> QED BY <1>7, <3>1 DEF StringsIn
    <2> QED BY <2>1, <2>2 DEF StringsIn
<1>13. \A e \in Interval(n, i) : ~Covered(e)
    BY <1>10, <1>11 DEF Interval
<1>14. ASSUME NEW o \in DOMAIN ax.offers, NEW o2 \in DOMAIN ax.offers, ax.offers[o] = ax.offers[o2]
       PROVE  o = o2
    <2>1. PICK k \in 0..of - 1 : o = i * v + k
        BY <1>8
    <2>2. PICK k2 \in 0..of - 1 : o2 = i * v + k2
        BY <1>8
    <2>3. run[k] = run[k2]
        BY <1>1, <1>7, <1>10, <1>14, <2>1, <2>2, CodesAreStrings
    <2>4. k \in 0..of /\ k2 \in 0..of
        BY <1>3
    <2>5. ~(k < k2)
        <3>1. ASSUME k < k2 PROVE FALSE
            <4>1. k \in 0..k2 - 1
                BY <1>3, <3>1
            <4> QED BY <1>1, <1>2, <2>3, <2>4, <4>1, RunDistinct DEF run, of
        <3> QED BY <3>1
    <2>6. ~(k2 < k)
        <3>1. ASSUME k2 < k PROVE FALSE
            <4>1. k2 \in 0..k - 1
                BY <1>3, <3>1
            <4> QED BY <1>1, <1>2, <2>3, <2>4, <4>1, RunDistinct DEF run, of
        <3> QED BY <3>1
    <2>7. k = k2
        BY <1>3, <2>5, <2>6
    <2> QED BY <2>1, <2>2, <2>7
<1>15. IsFiniteSet(DOMAIN ax.offers)
    <2>1. \A k \in 0..of - 1 : i * v + k \in i * v..i * v + of
        BY <1>1, <1>3
    <2>2. DOMAIN ax.offers \in SUBSET (i * v..i * v + of)
        BY <1>6, <2>1
    <2>3. i * v \in Int /\ i * v + of \in Int
        BY <1>1, <1>3
    <2> QED BY <2>2, <2>3, FS_Interval, FS_Subset
<1> QED BY <1>3, <1>5, <1>12, <1>13, <1>14, <1>15 DEF ax, first, of, run

-----------------------------------------------------------------------------
(* Each string once.                                                       *)

\* When a tester has no "more", the testers up to it have all encodings.
LEMMA IntervalsCover ==
    ASSUME MapsInv, NEW n \in LengthsOf(problem), NEW i \in 0..valTesters[n] - 1,
           Covered(FirstNow(n, i + 1)), NEW e \in Codes(problem, n), ~Covered(e)
    PROVE  \E j \in 0..i : e \in Interval(n, j)
<1> DEFINE S == {j \in 0..i : UpTo(n, FirstNow(n, j), e)}
<1>1. problem \in Problems /\ valTesters[n] \in Nat /\ n \in Nat /\ i \in Nat
    BY ProblemFacts DEF MapsInv, MapsOK
<1>2. \A j \in 0..i + 1 : FirstNow(n, j) \in Codes(problem, n)
    BY <1>1, FirstIsCode
<1>3. e[n + 1] = 0 /\ \A k \in 1..n + 1 : e[k] \in Nat
    BY <1>1, CodeFacts
<1>4. 0 \in S
    <2>1. FirstNow(n, 0) = Zeros(n)
        BY DEF FirstNow, FirstOf
    <2>2. ~Before(n, e, Zeros(n))
        BY <1>3 DEF Before, Zeros
    <2>3. Zeros(n) \in Codes(problem, n)
        BY <1>1, <1>2, <2>1
    <2>4. UpTo(n, Zeros(n), e)
        BY <1>1, <2>2, <2>3, BeforeTotal DEF UpTo
    <2> QED BY <1>1, <2>1, <2>4
<1>5. PICK j \in S : \A l \in S : l <= j
    <2>1. S \in SUBSET (0..i) /\ S # {}
        BY <1>4
    <2> HIDE DEF S
    <2> QED BY <1>1, <2>1, GreatestOf
<1>6. j \in 0..i /\ UpTo(n, FirstNow(n, j), e)
    OBVIOUS
<1>7. Before(n, e, FirstNow(n, j + 1))
    <2>1. CASE j = i
        <3>1. FirstNow(n, i + 1) \in Codes(problem, n) /\ n + 1 \in 1..n + 1
            BY <1>1, <1>2
        <3>2. FirstNow(n, i + 1)[n + 1] > 0
            BY <1>1, <3>1, CodeFacts
        <3>3. \A k \in n + 1 + 1..n + 1 : FALSE
            BY <1>1
        <3> QED BY <1>3, <2>1, <3>1, <3>2, <3>3 DEF Before
    <2>2. CASE j # i
        <3>1. j + 1 \in 0..i /\ ~(j + 1 <= j)
            BY <1>1, <1>6, <2>2
        <3>2. ~UpTo(n, FirstNow(n, j + 1), e)
            BY <1>5, <3>1
        <3>3. FirstNow(n, j + 1) \in Codes(problem, n)
            BY <1>1, <1>2, <3>1
        <3> QED BY <1>1, <3>2, <3>3, BeforeTotal DEF UpTo
    <2> QED BY <2>1, <2>2
<1> QED BY <1>6, <1>7 DEF Interval, Between

LEMMA IntervalsDiffer ==
    ASSUME MapsInv, NEW n \in LengthsOf(problem), NEW i \in 0..valTesters[n] - 1,
           NEW j \in 0..i - 1, NEW e \in Interval(n, j), NEW f \in Interval(n, i)
    PROVE  ValString(e) # ValString(f)
<1>1. /\ problem \in Problems /\ valTesters[n] \in Nat /\ n \in Nat /\ i \in Nat
      /\ j \in 0..valTesters[n] - 1 /\ j + 1 \in 0..valTesters[n] /\ i \in j + 1..valTesters[n]
      /\ i \in 0..valTesters[n]
    <2>1. problem \in Problems /\ valTesters[n] \in Nat /\ n \in Nat
        BY ProblemFacts DEF MapsInv, MapsOK
    <2> QED BY <2>1
<1>2. /\ e \in Codes(problem, n) /\ f \in Codes(problem, n)
      /\ Before(n, e, FirstNow(n, j + 1)) /\ UpTo(n, FirstNow(n, i), f)
    BY DEF Interval, Between
<1>3. UpTo(n, FirstNow(n, j + 1), FirstNow(n, i))
    BY <1>1, FirstsGrow
<1>4. FirstNow(n, j + 1) \in Codes(problem, n) /\ FirstNow(n, i) \in Codes(problem, n)
    BY <1>1, FirstIsCode
<1>5. Before(n, e, FirstNow(n, i))
    BY <1>1, <1>2, <1>3, <1>4, UpToTransitive
<1>6. Before(n, e, f)
    BY <1>1, <1>2, <1>4, <1>5, UpToTransitive
<1>7. e # f
    BY <1>1, <1>2, <1>6, BeforeIrreflexive
<1>8. ~Covered(e) /\ ~Covered(f)
    BY <1>1, TesterOffers
<1> QED BY <1>1, <1>2, <1>7, <1>8, CodesAreStrings

LEMMA ValAxiomsAre ==
    ASSUME MapsInv, ScopesInv, NEW ax \in ValAxioms
    PROVE  LET n == ax.tester[2]
               i == ax.tester[3]
           IN /\ n \in LengthsOf(problem) /\ i \in 0..valTesters[n] - 1
              /\ ax = ValOptions(n, i) /\ ax.tester = ValTester(n, i) /\ ax \in Axioms
<1>1. ax \in Axioms /\ ax.tester[1] = "val"
    BY DEF ValAxioms
<1>2. AxiomOK(problem, lenTesters, valTesters, valRangeMap, ax)
    BY <1>1, InAxioms DEF ScopesInv
<1>3. PICK n \in LengthsOf(problem) : \E i \in 0..valTesters[n] - 1 :
          ax = ValOptions(n, i) /\ ax.tester = ValTester(n, i)
    BY <1>1, <1>2, OptionsAreChoices
<1>4. PICK i \in 0..valTesters[n] - 1 : ax = ValOptions(n, i) /\ ax.tester = ValTester(n, i)
    BY <1>3
<1>5. ax.tester[2] = n /\ ax.tester[3] = i
    BY <1>4, TesterFacts
<1> QED BY <1>1, <1>4, <1>5

\* A chosen premise brings the axioms of the testers before into force.
LEMMA AxiomsBefore ==
    ASSUME MapsInv, ScopesInv, NEW n, NEW i, ValOptions(n, i) \in Axioms,
           ValOptions(n, i).premise \subseteq Choices, NEW j \in 0..i - 1
    PROVE  ValOptions(n, j) \in Axioms
<1>1. ValOptions(n, i).tester = ValTester(n, i)
    BY DEF ValOptions
<1>2. <<ValTester(n, j), More>> \in Choices
    BY <1>1, ValAxiom
<1>3. PICK a \in Axioms : <<ValTester(n, j), More>> \in Options(a)
    BY <1>2, ChoiceRests
<1>4. AxiomOK(problem, lenTesters, valTesters, valRangeMap, a)
    BY InAxioms DEF ScopesInv
<1>5. <<ValTester(n, j), More>>[1] = a.tester
    BY <1>3, <1>4, OptionsAreChoices
<1>6. a = ValOptions(n, j)
    BY <1>5, ValAxiom
<1> QED BY <1>6

LEMMA EachOnce ==
    ASSUME MapsInv, ScopesInv
    PROVE  EachStringOnce
<1> SUFFICES ASSUME NEW ax \in ValAxioms
             PROVE  LET n == ax.tester[2]
                        before == {a \in ValAxioms : a.tester[2] = n /\ a.tester[3] < ax.tester[3]}
                    IN /\ Cardinality(StringsIn(ax)) = Cardinality(DOMAIN ax.offers)
                       /\ StringsIn(ax) \subseteq StringsOf(n)
                       /\ \A a \in before : StringsIn(a) \cap StringsIn(ax) = {}
                       /\ ax.premise \subseteq Choices /\ ~ax.more =>
                              UNION {StringsIn(a) : a \in before \cup {ax}} = StringsOf(n)
    BY DEF EachStringOnce
<1> DEFINE n == ax.tester[2]
           i == ax.tester[3]
           before == {a \in ValAxioms : a.tester[2] = n /\ a.tester[3] < i}
<1>1. /\ n \in LengthsOf(problem) /\ i \in 0..valTesters[n] - 1
      /\ ax = ValOptions(n, i) /\ ax.tester = ValTester(n, i) /\ ax \in Axioms
    BY ValAxiomsAre
<1>2. /\ problem \in Problems /\ n \in Nat /\ i \in Nat /\ valTesters[n] \in Nat
    BY <1>1, ProblemFacts DEF MapsInv, MapsOK
<1>3. StringsOf(n) = Strings(problem, n)
    BY DEF StringsOf, Strings, Digits
<1>4. \A a \in before : \E j \in 0..i - 1 :
          j \in 0..valTesters[n] - 1 /\ a = ValOptions(n, j)
    <2> TAKE a \in before
    <2>1. a.tester[2] = n /\ a.tester[3] < i /\ a \in ValAxioms
        OBVIOUS
    <2> HIDE DEF n, i
    <2>2. a.tester[3] \in 0..valTesters[n] - 1 /\ a = ValOptions(n, a.tester[3])
        BY <2>1, ValAxiomsAre
    <2>3. a.tester[3] \in 0..i - 1
        BY <1>2, <2>1, <2>2
    <2> QED BY <2>2, <2>3
<1> HIDE DEF n, i, before
<1>5. \A j \in 0..valTesters[n] - 1 : StringsIn(ValOptions(n, j)) \subseteq StringsOf(n)
    <2> TAKE j \in 0..valTesters[n] - 1
    <2>1. StringsIn(ValOptions(n, j)) = {ValString(e) : e \in Interval(n, j)}
        BY <1>1, TesterOffers
    <2>2. \A e \in Interval(n, j) : ValString(e) \in Strings(problem, n)
        BY <1>2, StringOfCode DEF Interval
    <2> QED BY <1>3, <2>1, <2>2
<1>6. Cardinality(StringsIn(ax)) = Cardinality(DOMAIN ax.offers)
    <2> DEFINE D == DOMAIN ax.offers
    <2>1. IsFiniteSet(D) /\ \A o, o2 \in D : ax.offers[o] = ax.offers[o2] => o = o2
        BY <1>1, TesterOffers
    <2>2. ax.offers = [o \in D |-> ax.offers[o]]
        BY <1>1 DEF ValOptions
    <2> HIDE DEF D
    <2>3. StringsIn(ax) = {ax.offers[o] : o \in D}
        BY DEF StringsIn, D
    <2>4. ax.offers \in [D -> StringsIn(ax)]
        BY <2>2, <2>3
    <2>5. ax.offers \in Injection(D, StringsIn(ax))
        BY <2>1, <2>4 DEF Injection, IsInjective
    <2>6. ax.offers \in Surjection(D, StringsIn(ax))
        BY <2>3, <2>4 DEF Surjection
    <2> QED BY <2>1, <2>5, <2>6, FS_Surjection DEF D
<1>7. \A a \in before : StringsIn(a) \cap StringsIn(ax) = {}
    <2> SUFFICES ASSUME NEW a \in before, NEW s \in StringsIn(a), s \in StringsIn(ax) PROVE FALSE
        OBVIOUS
    <2>1. PICK j \in 0..i - 1 : j \in 0..valTesters[n] - 1 /\ a = ValOptions(n, j)
        BY <1>4
    <2>2. PICK e \in Interval(n, j) : s = ValString(e)
        BY <1>1, <2>1, TesterOffers
    <2>3. PICK f \in Interval(n, i) : s = ValString(f)
        BY <1>1, TesterOffers
    <2> QED BY <1>1, <2>2, <2>3, IntervalsDiffer
<1>8. ASSUME ax.premise \subseteq Choices, ~ax.more
      PROVE  UNION {StringsIn(a) : a \in before \cup {ax}} = StringsOf(n)
    <2>1. ASSUME NEW s \in StringsOf(n) PROVE \E a \in before \cup {ax} : s \in StringsIn(a)
        <3>1. PICK e \in Codes(problem, n) : ~Covered(e) /\ ValString(e) = s
            BY <1>2, <1>3, CodesAreStrings
        <3>2. Covered(FirstNow(n, i + 1))
            BY <1>1, <1>8, TesterOffers
        <3>3. PICK j \in 0..i : e \in Interval(n, j)
            BY <1>1, <3>1, <3>2, IntervalsCover
        <3>4. j \in 0..valTesters[n] - 1 /\ (j = i \/ j \in 0..i - 1)
            BY <1>1, <1>2
        <3>5. s \in StringsIn(ValOptions(n, j))
            BY <1>1, <3>1, <3>3, <3>4, TesterOffers
        <3>6. CASE j = i
            BY <1>1, <3>5, <3>6
        <3>7. CASE j \in 0..i - 1
            <4>1. ValOptions(n, j) \in Axioms
                BY <1>1, <1>8, <3>7, AxiomsBefore
            <4>2. ValOptions(n, j).tester = ValTester(n, j)
                BY DEF ValOptions
            <4>3. ValOptions(n, j) \in before
                <5>1. ValOptions(n, j).tester[1] = "val" /\ ValOptions(n, j).tester[2] = n
                      /\ ValOptions(n, j).tester[3] = j /\ j < i
                    BY <1>2, <3>7, <4>2, TesterFacts
                <5> QED BY <4>1, <5>1 DEF before, ValAxioms
            <4> QED BY <3>5, <4>3
        <3> QED BY <3>4, <3>6, <3>7
    <2>2. \A a \in before \cup {ax} : StringsIn(a) \subseteq StringsOf(n)
        <3>1. \A a \in before : StringsIn(a) \subseteq StringsOf(n)
            BY <1>4, <1>5
        <3> QED BY <1>1, <1>5, <3>1
    <2> QED BY <2>1, <2>2
<1> QED BY <1>1, <1>2, <1>5, <1>6, <1>7, <1>8 DEF n, i, before

-----------------------------------------------------------------------------
(* What the core has refuted stays so: each choice it has learned to be    *)
(* impossible means something that no string the formula accepts has, for  *)
(* every tester has the same offers ever after.                            *)

\* String w is as choice c says.
Means(p, ranges, c, w) ==
    LET t == c[1]
        o == c[2]
    IN IF t[1] = "len" THEN (IF o = More THEN t[2] * LenStep <= Len(w) ELSE Len(w) = o)
       ELSE /\ Len(w) = t[2]
            /\ IF o = More THEN \A j \in 0..t[3] : w \notin StringsIn(OptionsOf(p, ranges, t[2], j))
               ELSE w = OptionsOf(p, ranges, t[2], t[3]).offers[o]
Made(p, vals, t) == t[1] = "val" => t[2] \in LengthsOf(p) /\ t[3] \in 0..vals[t[2]] - 1
Excluded(p, vals, ranges, c) ==
    Made(p, vals, c[1]) /\ \A w \in p.accepted : ~Means(p, ranges, c, w)
RefutedInv == \A c \in refuted : Excluded(problem, valTesters, valRangeMap, c)

LEMMA ExcludedKept ==
    ASSUME MapsInv, MapsInv', MapsGrow, NEW c \in Choice,
           Excluded(problem, valTesters, valRangeMap, c)
    PROVE  Excluded(problem, valTesters, valRangeMap, c)'
<1>1. /\ problem \in Problems /\ MapsOK(problem, lenTesters, valTesters, valRangeMap)
      /\ problem' = problem /\ LengthsOf(problem) \subseteq Nat
      /\ \A t \in DOMAIN valRangeMap : valRangeMap'[t] = valRangeMap[t]
    BY ProblemFacts DEF MapsInv, MapsGrow, Grown
<1>2. \A n \in LengthsOf(problem) : valTesters[n] \in Nat /\ valTesters'[n] \in Nat /\ valTesters[n] <= valTesters'[n]
    BY <1>1 DEF MapsInv, MapsOK, MapsGrow, Grown
<1>3. CASE c[1][1] = "len"
    <2>1. c[1][1] # "val"
        BY <1>3
    <2>2. \A w : Means(problem, valRangeMap', c, w) = Means(problem, valRangeMap, c, w)
        BY <1>3 DEF Means
    <2> QED BY <1>1, <2>1, <2>2 DEF Excluded, Made
<1>4. CASE c[1][1] # "len"
    <2>1. c[1][1] = "val"
        <3>1. c[1] \in Testers
            BY ChoicePairs
        <3> QED BY <1>4, <3>1 DEF Testers
    <2> DEFINE n == c[1][2]
               i == c[1][3]
    <2>2. n \in LengthsOf(problem) /\ i \in 0..valTesters[n] - 1
        BY <2>1 DEF Excluded, Made
    <2> HIDE DEF n, i
    <2>3. i \in 0..valTesters'[n] - 1 /\ \A j \in 0..i : j \in 0..valTesters[n]
        BY <1>2, <2>2
    <2>4. \A j \in 0..i : OptionsOf(problem, valRangeMap', n, j) = OptionsOf(problem, valRangeMap, n, j)
        BY <1>1, <2>2, <2>3, OptionsKept
    <2>5. i \in 0..i
        BY <1>2, <2>2
    <2>6. \A w : Means(problem, valRangeMap', c, w) = Means(problem, valRangeMap, c, w)
        BY <2>4, <2>5 DEF Means, n, i
    <2>7. Made(problem, valTesters', c[1])
        BY <2>2, <2>3 DEF Made, n, i
    <2> QED BY <1>1, <2>6, <2>7 DEF Excluded
<1> QED BY <1>3, <1>4

LEMMA ChosenMade ==
    ASSUME MapsInv, ScopesInv, NEW c \in Choices
    PROVE  Made(problem, valTesters, c[1])
<1>1. PICK ax \in Axioms : c \in Options(ax)
    BY ChoiceRests
<1>2. AxiomOK(problem, lenTesters, valTesters, valRangeMap, ax)
    BY InAxioms DEF ScopesInv
<1>3. c[1] = ax.tester
    BY <1>1, <1>2, OptionsAreChoices
<1>4. ASSUME c[1][1] = "val" PROVE c[1][2] \in LengthsOf(problem) /\ c[1][3] \in 0..valTesters[c[1][2]] - 1
    <2>1. PICK n \in LengthsOf(problem) : \E i \in 0..valTesters[n] - 1 : ax.tester = ValTester(n, i)
        BY <1>2, <1>3, <1>4, OptionsAreChoices
    <2>2. PICK i \in 0..valTesters[n] - 1 : ax.tester = ValTester(n, i)
        BY <2>1
    <2>3. c[1][2] = n /\ c[1][3] = i
        BY <1>3, <2>2, TesterFacts
    <2> QED BY <2>3
<1> QED BY <1>4 DEF Made

LEMMA AcceptedFacts ==
    ASSUME NEW p \in Problems, NEW w \in p.accepted
    PROVE  Len(w) \in Nat /\ Len(w) <= p.maxLen /\ w \in Strings(p, Len(w)) /\ Len(w) \in LengthsOf(p)
<1>1. p.maxLen \in Nat /\ LenStep \in Nat \ {0} /\ Len(w) \in 0..p.maxLen
      /\ w \in [1..Len(w) -> 0..p.charSetSize - 1]
    BY SearchAssumption
<1> QED BY <1>1 DEF Strings, Digits, LengthsOf

\* A choice that contradicts the formula.
LEMMA ImpossibleExcluded ==
    ASSUME MapsInv, ScopesInv, NEW c \in Choices, Impossible(c)
    PROVE  Excluded(problem, valTesters, valRangeMap, c)
<1>1. problem \in Problems /\ c \in Choice
    BY EqcFacts DEF MapsInv
<1>2. SUFFICES ASSUME NEW w \in problem.accepted, Means(problem, valRangeMap, c, w)
               PROVE  FALSE
    BY ChosenMade DEF Excluded
<1>3. /\ Len(w) \in Nat /\ Len(w) <= problem.maxLen /\ problem.maxLen \in Nat
      /\ LenStep \in Nat \ {0}
    BY <1>1, AcceptedFacts, ProblemFacts
<1>4. CASE c[1][1] = "len"
    <2>1. c[2] = More => c[1][2] * LenStep > problem.maxLen /\ c[1][2] * LenStep <= Len(w)
        BY <1>2, <1>4 DEF Impossible, Means
    <2>2. c[2] # More => c[2] > problem.maxLen /\ Len(w) = c[2]
        BY <1>2, <1>4 DEF Impossible, Means
    <2>3. c[1][2] \in Nat
        <3>1. c[1] \in Testers
            BY <1>1, ChoicePairs
        <3> QED BY <3>1 DEF Testers
    <2>4. c[1][2] * LenStep \in Nat
        BY <1>3, <2>3, TimesNat
    <2> QED BY <1>3, <2>1, <2>2, <2>4
<1>5. CASE c[1][1] # "len"
    <2>1. PICK ax \in Axioms : ax.tester = c[1] /\ ax.offers[c[2]] \notin problem.accepted
        BY <1>5 DEF Impossible
    <2>2. c[2] # More
        BY <1>5 DEF Impossible
    <2>3. c[1][1] = "val"
        <3>1. c[1] \in Testers
            BY <1>1, ChoicePairs
        <3> QED BY <1>5, <3>1 DEF Testers
    <2>4. PICK n \in LengthsOf(problem) : \E i \in 0..valTesters[n] - 1 :
              ax = ValOptions(n, i) /\ ax.tester = ValTester(n, i)
        BY <2>1, <2>3, InAxioms, OptionsAreChoices DEF ScopesInv
    <2>5. PICK i \in 0..valTesters[n] - 1 : ax = ValOptions(n, i) /\ ax.tester = ValTester(n, i)
        BY <2>4
    <2>6. c[1][2] = n /\ c[1][3] = i
        BY <2>1, <2>5, TesterFacts
    <2>7. w = ax.offers[c[2]]
        BY <1>2, <1>5, <2>2, <2>5, <2>6, OptionsAre DEF Means
    <2> QED BY <2>1, <2>7
<1> QED BY <1>4, <1>5

\* An axiom of which every option is refuted: no accepted string is as its
\* premise says.
LEMMA OptionsRefuted ==
    ASSUME MapsInv, RefutedInv, NEW ax, AxiomOK(problem, lenTesters, valTesters, valRangeMap, ax),
           Options(ax) \subseteq refuted, NEW w \in problem.accepted
    PROVE  /\ \A k \in 1..lenTesters : ax = LenOptions(k) => ~((k - 1) * LenStep <= Len(w))
           /\ \A n \in LengthsOf(problem) : \A i \in 0..valTesters[n] - 1 :
                  ax = ValOptions(n, i) =>
                      ~(Len(w) = n /\ \A j \in 0..i - 1 : w \notin StringsIn(ValOptions(n, j)))
<1>1. /\ problem \in Problems /\ lenTesters \in Nat /\ valTesters \in [LengthsOf(problem) -> Nat]
      /\ LenStep \in Nat \ {0} /\ LengthsOf(problem) \subseteq Nat /\ More \notin Nat
    BY ProblemFacts, SearchAssumption DEF MapsInv, MapsOK
<1>2. Len(w) \in Nat /\ w \in Strings(problem, Len(w))
    BY <1>1, AcceptedFacts
<1>3. \A c \in Options(ax) : ~Means(problem, valRangeMap, c, w)
    BY DEF RefutedInv, Excluded
<1>4. ASSUME NEW k \in 1..lenTesters, ax = LenOptions(k), (k - 1) * LenStep <= Len(w)
      PROVE  FALSE
    <2>1. /\ ax.tester = LenTester(k) /\ ax.more
          /\ DOMAIN ax.offers = (k - 1) * LenStep..k * LenStep - 1
        BY <1>4 DEF LenOptions
    <2>2. k \in Nat /\ k - 1 \in Nat
        BY <1>1
    <2>3. (k - 1) * LenStep \in Nat /\ k * LenStep \in Nat
        BY <1>1, <2>2, TimesNat
    <2>4. CASE Len(w) < k * LenStep
        <3>1. Len(w) \in DOMAIN ax.offers
            BY <1>2, <1>4, <2>1, <2>3, <2>4
        <3> DEFINE c == <<ax.tester, Len(w)>>
        <3>2. c \in Options(ax)
            BY <3>1 DEF Options
        <3>3. c[1] = LenTester(k) /\ c[2] = Len(w) /\ Len(w) # More
            BY <1>1, <1>2, <2>1
        <3>4. Means(problem, valRangeMap, c, w)
            <4> HIDE DEF c
            <4> QED BY <3>3, TesterFacts DEF Means
        <3> QED BY <1>3, <3>2, <3>4
    <2>5. CASE k * LenStep <= Len(w)
        <3> DEFINE c == <<ax.tester, More>>
        <3>1. c \in Options(ax)
            BY <2>1 DEF Options
        <3>2. c[1] = LenTester(k) /\ c[2] = More
            BY <2>1
        <3>3. Means(problem, valRangeMap, c, w)
            <4> HIDE DEF c
            <4> QED BY <2>5, <3>2, TesterFacts DEF Means
        <3> QED BY <1>3, <3>1, <3>3
    <2> QED BY <1>2, <2>3, <2>4, <2>5
<1>5. ASSUME NEW n \in LengthsOf(problem), NEW i \in 0..valTesters[n] - 1, ax = ValOptions(n, i),
             Len(w) = n, \A j \in 0..i - 1 : w \notin StringsIn(ValOptions(n, j))
      PROVE  FALSE
    <2>1. ax.tester = ValTester(n, i) /\ ax.tester[1] # "len" /\ ax.tester[2] = n /\ ax.tester[3] = i
        <3>1. ax.tester = ValTester(n, i)
            BY <1>5 DEF ValOptions
        <3>2. "val" # "len"
            OBVIOUS
        <3> QED BY <3>1, <3>2, TesterFacts
    <2>2. i \in Nat /\ valTesters[n] \in Nat /\ \A j \in 0..i : j \in 0..valTesters[n] - 1 /\ (j = i \/ j \in 0..i - 1)
        BY <1>1
    <2>3. w \notin StringsIn(ax)
        <3> SUFFICES ASSUME NEW o \in DOMAIN ax.offers, w = ax.offers[o] PROVE FALSE
            BY DEF StringsIn
        <3> DEFINE c == <<ax.tester, o>>
        <3>1. c \in Options(ax)
            BY DEF Options
        <3>2. c[1] = ax.tester /\ c[2] = o
            OBVIOUS
        <3>3. o # More
            BY <1>1, OptionsAreChoices
        <3>4. ax = OptionsOf(problem, valRangeMap, n, i)
            BY <1>5, OptionsAre
        <3> HIDE DEF c
        <3>5. Means(problem, valRangeMap, c, w)
            BY <1>5, <2>1, <3>2, <3>3, <3>4 DEF Means
        <3> QED BY <1>3, <3>1, <3>5
    <2>4. \A j \in 0..i : w \notin StringsIn(ValOptions(n, j))
        BY <1>5, <2>2, <2>3
    <2>5. CASE ax.more
        <3> DEFINE c == <<ax.tester, More>>
        <3>1. c \in Options(ax)
            BY <2>5 DEF Options
        <3>2. c[1] = ax.tester /\ c[2] = More
            OBVIOUS
        <3> HIDE DEF c
        <3>3. \A j \in 0..i : w \notin StringsIn(OptionsOf(problem, valRangeMap, n, j))
            BY <2>4, OptionsAre
        <3>4. Means(problem, valRangeMap, c, w)
            BY <1>5, <2>1, <3>2, <3>3 DEF Means
        <3> QED BY <1>3, <3>1, <3>4
    <2>6. CASE ~ax.more
        <3>1. Covered(FirstNow(n, i + 1))
            BY <1>5, <2>6, TesterOffers
        <3>2. PICK e \in Codes(problem, n) : ~Covered(e) /\ ValString(e) = w
            BY <1>1, <1>2, <1>5, CodesAreStrings
        <3>3. PICK j \in 0..i : e \in Interval(n, j)
            BY <3>1, <3>2, IntervalsCover
        <3>4. w \in StringsIn(ValOptions(n, j))
            BY <2>2, <3>2, <3>3, TesterOffers
        <3> QED BY <2>4, <3>4
    <2> QED BY <2>5, <2>6
<1> QED BY <1>4, <1>5

\* What a choice rests on was chosen before it.
LEMMA RestsBefore ==
    ASSUME ScopesInv, NEW s \in 1..Len(scopes), NEW u \in 1..Len(scopes),
           scopes[s].choice # None, scopes[u].choice # None,
           \A ax \in Axioms : scopes[u].choice \in Options(ax) => scopes[s].choice \in ax.premise
    PROVE  s < u
<1>1. Chosen(scopes, u) /\ Chosen(scopes, s) /\ Len(scopes) \in Nat
    BY StackFacts DEF ScopesInv
<1>2. PICK r \in 1..u - 1 : \E ax \in scopes[r].axioms :
          /\ scopes[u].choice \in Options(ax)
          /\ \A q \in ax.premise : \E v \in 1..u - 1 : scopes[v].choice = q
    BY <1>1 DEF Chosen
<1>3. PICK ax \in scopes[r].axioms :
          /\ scopes[u].choice \in Options(ax)
          /\ \A q \in ax.premise : \E v \in 1..u - 1 : scopes[v].choice = q
    BY <1>2
<1>4. ax \in Axioms
    <2>1. r \in 1..Len(scopes)
        BY <1>1
    <2> QED BY <2>1, InAxioms
<1>5. PICK v \in 1..u - 1 : scopes[v].choice = scopes[s].choice
    BY <1>3, <1>4
<1>6. v \in 1..Len(scopes) /\ Chosen(scopes, v) /\ v < u
    BY <1>1, <1>5 DEF ScopesInv
<1>7. ~(v < s)
    <2>1. v < s => v \in 1..s - 1
        BY <1>1, <1>6
    <2> QED BY <1>1, <1>5, <2>1 DEF Chosen
<1> QED BY <1>1, <1>6, <1>7

\* The choice of an axiom's premise that was made last has every option of the
\* axiom refuted: it implies the rest of the premise.
LEMMA PremiseExcluded ==
    ASSUME MapsInv, ScopesInv, RefutedInv, NEW ax \in Open, Options(ax) \subseteq refuted,
           NEW s \in 1..Len(scopes), scopes[s].choice \in ax.premise,
           \A r \in s + 1..Len(scopes) : scopes[r].choice \notin ax.premise
    PROVE  Excluded(problem, valTesters, valRangeMap, scopes[s].choice)
<1> DEFINE c == scopes[s].choice
<1>1. /\ problem \in Problems /\ lenTesters \in Nat /\ valTesters \in [LengthsOf(problem) -> Nat]
      /\ LengthsOf(problem) \subseteq Nat /\ Len(scopes) \in Nat
    BY ProblemFacts, StackFacts DEF MapsInv, MapsOK, ScopesInv
<1>2. /\ ax \in Axioms /\ ax.premise \subseteq Choices
      /\ AxiomOK(problem, lenTesters, valTesters, valRangeMap, ax)
    BY InAxioms DEF Open, ScopesInv
<1>3. c \in Choices /\ c # None
    BY <1>2, InChoices
\* A choice of the premise that rests on c is c.
<1>4. ASSUME NEW d \in ax.premise,
             \A a \in Axioms : d \in Options(a) => c \in a.premise
      PROVE  FALSE
    <2>1. PICK u \in 1..Len(scopes) : scopes[u].choice = d /\ d # None
        BY <1>2, InChoices
    <2>2. s < u
        BY <1>3, <1>4, <2>1, RestsBefore
    <2>3. u \in s + 1..Len(scopes)
        BY <1>1, <2>2
    <2> QED BY <2>1, <2>3
<1> HIDE DEF c
<1>5. SUFFICES ASSUME NEW w \in problem.accepted, Means(problem, valRangeMap, c, w)
               PROVE  FALSE
    BY <1>3, ChosenMade DEF Excluded, c
<1>6. Len(w) \in Nat
    BY <1>1, AcceptedFacts
<1>7. \A a \in Axioms : \A d \in Options(a) : d[1] = a.tester
    <2>1. \A a \in Axioms : AxiomOK(problem, lenTesters, valTesters, valRangeMap, a)
        BY InAxioms DEF ScopesInv
    <2> QED BY <2>1, OptionsAreChoices
<1>8. ASSUME NEW k \in 1..lenTesters, ax = LenOptions(k) PROVE FALSE
    <2>1. ax.premise = {<<LenTester(j), More>> : j \in 1..k - 1}
        BY <1>8 DEF LenOptions
    <2>2. PICK j \in 1..k - 1 : c = <<LenTester(j), More>>
        BY <2>1 DEF c
    <2>3. j = k - 1
        <3> SUFFICES ASSUME j < k - 1 PROVE FALSE
            BY <1>1
        <3> DEFINE d == <<LenTester(j + 1), More>>
        <3>1. j + 1 \in 1..k - 1 /\ j \in 1..j + 1 - 1
            BY <1>1
        <3>2. d \in ax.premise /\ d[1] = LenTester(j + 1)
            BY <2>1, <3>1
        <3> HIDE DEF d
        <3>3. ASSUME NEW a \in Axioms, d \in Options(a) PROVE c \in a.premise
            <4>1. a.premise = {<<LenTester(l), More>> : l \in 1..j + 1 - 1}
                BY <1>7, <3>2, <3>3, LenAxiom
            <4> QED BY <2>2, <3>1, <4>1
        <3> QED BY <1>4, <3>2, <3>3
    <2>4. c[1] = LenTester(k - 1) /\ c[2] = More
        BY <2>2, <2>3
    <2>5. (k - 1) * LenStep <= Len(w)
        BY <1>5, <2>4, TesterFacts DEF Means
    <2> QED BY <1>2, <1>8, <2>5, OptionsRefuted
<1>9. ASSUME NEW n \in LengthsOf(problem), NEW i \in 0..valTesters[n] - 1, ax = ValOptions(n, i)
      PROVE  FALSE
    <2> DEFINE len == <<LenTester((n \div LenStep) + 1), n>>
    <2>1. ax.premise = {len} \cup {<<ValTester(n, j), More>> : j \in 0..i - 1}
        BY <1>9 DEF ValOptions
    <2>2. i \in Nat /\ n \in Nat /\ n # More
        BY <1>1, SearchAssumption
    \* A value tester's choice rests on the length and the testers before it.
    <2>3. ASSUME NEW j \in 0..i - 1, NEW a \in Axioms, <<ValTester(n, j), More>> \in Options(a)
          PROVE  a.premise = {len} \cup {<<ValTester(n, l), More>> : l \in 0..j - 1}
        <3>1. a.tester = ValTester(n, j)
            <4>1. <<ValTester(n, j), More>>[1] = a.tester
                BY <1>7, <2>3
            <4> QED BY <4>1
        <3> QED BY <3>1, ValAxiom
    <2> HIDE DEF len
    <2>4. Len(w) = n /\ \A j \in 0..i - 1 : w \notin StringsIn(ValOptions(n, j))
        <3>1. CASE i = 0
            <4>1. c = len
                BY <2>1, <3>1 DEF c
            <4>2. c[1] = LenTester((n \div LenStep) + 1) /\ c[2] = n
                BY <4>1 DEF len
            <4> QED BY <1>5, <2>2, <3>1, <4>2, TesterFacts DEF Means
        <3>2. CASE i # 0
            <4> DEFINE d == <<ValTester(n, i - 1), More>>
            <4>1. i - 1 \in 0..i - 1
                BY <2>2, <3>2
            <4>2. d \in ax.premise
                BY <2>1, <4>1
            <4>3. c = d
                <5> SUFFICES ASSUME c # d PROVE FALSE
                    OBVIOUS
                <5>1. c = len \/ \E j \in 0..i - 1 - 1 : c = <<ValTester(n, j), More>>
                    <6>1. c \in ax.premise
                        BY DEF c
                    <6>2. \A j \in 0..i - 1 : j = i - 1 \/ j \in 0..i - 1 - 1
                        BY <2>2
                    <6> QED BY <2>1, <6>1, <6>2
                <5>2. \A a \in Axioms : d \in Options(a) => c \in a.premise
                    BY <2>3, <4>1, <5>1
                <5> HIDE DEF d
                <5> QED BY <1>4, <4>2, <5>2
            <4>4. c[1] = ValTester(n, i - 1) /\ c[2] = More
                BY <4>3
            <4>5. c[1][1] # "len" /\ c[1][2] = n /\ c[1][3] = i - 1
                <5>1. "val" # "len"
                    OBVIOUS
                <5> QED BY <4>4, <5>1, TesterFacts
            <4>6. /\ Len(w) = n
                  /\ \A j \in 0..i - 1 : w \notin StringsIn(OptionsOf(problem, valRangeMap, n, j))
                BY <1>5, <4>4, <4>5 DEF Means
            <4> QED BY <4>6, OptionsAre
        <3> QED BY <3>1, <3>2
    <2> QED BY <1>2, <1>9, <2>4, OptionsRefuted
<1>10. CASE ax.tester[1] = "len"
    BY <1>2, <1>8, <1>10, OptionsAreChoices
<1>11. CASE ax.tester[1] = "val"
    <2>1. PICK n \in LengthsOf(problem) : \E i \in 0..valTesters[n] - 1 : ax = ValOptions(n, i)
        BY <1>2, <1>11, OptionsAreChoices
    <2> QED BY <1>9, <2>1
<1> QED BY <1>2, <1>10, <1>11, OptionsAreChoices

\* A conflict that rests on nothing excludes every string.
LEMMA NothingAccepted ==
    ASSUME MapsInv, ScopesInv, RefutedInv, {} \in Reasons
    PROVE  problem.accepted = {}
<1>1. PICK ax \in Open : ax.premise = {} /\ Options(ax) \subseteq refuted
    BY DEF Reasons
<1>2. AxiomOK(problem, lenTesters, valTesters, valRangeMap, ax)
    BY <1>1, InAxioms DEF ScopesInv, Open
<1>3. SUFFICES ASSUME NEW w \in problem.accepted PROVE FALSE
    OBVIOUS
<1>4. lenTesters \in Nat /\ LenStep \in Nat /\ Len(w) \in Nat
    BY ProblemFacts, AcceptedFacts DEF MapsInv, MapsOK
<1>5. CASE ax.tester[1] = "len"
    <2>1. PICK k \in 1..lenTesters : ax = LenOptions(k)
        BY <1>2, <1>5, OptionsAreChoices
    <2>2. ax.premise = {<<LenTester(j), More>> : j \in 1..k - 1}
        BY <2>1 DEF LenOptions
    <2>3. k = 1
        <3>1. 1 \notin 1..k - 1
            BY <1>1, <2>2
        <3> QED BY <1>4, <3>1
    <2>4. (k - 1) * LenStep <= Len(w)
        BY <1>4, <2>3
    <2> QED BY <1>1, <1>2, <2>1, <2>4, OptionsRefuted
<1>6. CASE ax.tester[1] = "val"
    <2>1. PICK n \in LengthsOf(problem) : \E i \in 0..valTesters[n] - 1 : ax = ValOptions(n, i)
        BY <1>2, <1>6, OptionsAreChoices
    <2>2. PICK i \in 0..valTesters[n] - 1 : ax = ValOptions(n, i)
        BY <2>1
    <2>3. <<LenTester((n \div LenStep) + 1), n>> \in ax.premise
        BY <2>2 DEF ValOptions
    <2> QED BY <1>1, <2>3
<1> QED BY <1>2, <1>5, <1>6, OptionsAreChoices

-----------------------------------------------------------------------------
(* The theorems.                                                           *)

LEMMA InitInv == Init => IInv
<1> SUFFICES ASSUME Init PROVE IInv
    OBVIOUS
<1>1. /\ problem \in Problems /\ lenTesters = 0 /\ valTesters = [n \in Lengths |-> 0]
      /\ valRangeMap = [t \in {} |-> <<>>]
      /\ scopes = <<[choice |-> None, axioms |-> {}]>>
      /\ refuted = {} /\ restarts = 0 /\ verdict = "none"
    BY DEF Init
<1>2. Lengths = LengthsOf(problem)
    BY DEF Lengths, LengthsOf
<1>3. \A n \in LengthsOf(problem) : valTesters[n] = 0 /\ 0..valTesters[n] - 1 = {}
    BY <1>1, <1>2
<1>4. DOMAIN valRangeMap = MadeTesters(problem, valTesters)
    BY <1>1, <1>3 DEF MadeTesters
<1>5. MapsInv
    BY <1>1, <1>2, <1>3, <1>4 DEF MapsInv, MapsOK
<1>6. scopes \in Seq(Scope({})) /\ Len(scopes) = 1 /\ scopes[1].choice = None /\ scopes[1].axioms = {}
    BY <1>1 DEF Scope
<1>7. \A s \in 1..Len(scopes) : scopes[s].choice = None /\ scopes[s].axioms = {}
    BY <1>6
<1>8. \A n, i : n \in Nat /\ i \in Nat => <<ValTester(n, i), More>> # None
    <2>1. \A n, i : n \in Nat /\ i \in Nat => <<ValTester(n, i), More>> \in Choice
        BY TesterFacts DEF Choice
    <2> QED BY <2>1, SearchAssumption
<1>9. LengthsOf(problem) \subseteq Nat
    BY <1>1, ProblemFacts
<1>10. Stack(scopes)
    BY <1>6 DEF Stack
<1>11. ScopesInv
    BY <1>1, <1>7, <1>8, <1>9, <1>10 DEF ScopesInv
<1> QED BY <1>1, <1>5, <1>11, SearchAssumption DEF IInv, SatHasValue

LEMMA StepInv ==
    ASSUME IInv, [Next]_vars
    PROVE  IInv' /\ MapsGrow
<1>1. CASE Decide
    BY <1>1, DecideSafe
<1>2. CASE DecideElsewhere
    BY <1>2, DecideElsewhereSafe
<1>3. CASE Backtrack
    BY <1>3, BacktrackSafe
<1>4. CASE GiveUp
    BY <1>4, GiveUpSafe
<1>5. CASE Restart
    BY <1>5, RestartSafe
<1>6. CASE FinalCheck
    BY <1>6, FinalCheckSafe
<1>7. CASE UNCHANGED vars
    <2>1. /\ lenTesters' = lenTesters /\ valTesters' = valTesters /\ valRangeMap' = valRangeMap
          /\ scopes' = scopes /\ problem' = problem /\ refuted' = refuted
          /\ restarts' = restarts /\ verdict' = verdict
        BY <1>7 DEF vars
    <2>2. MapsInv' /\ ScopesInv'
        BY <2>1 DEF IInv, MapsInv, ScopesInv
    <2>3. SatHasValue'
        <3>1. Choices' = Choices /\ Axioms' = Axioms
            BY <2>1 DEF Choices, Axioms
        <3>2. ValAxioms' = ValAxioms
            BY <3>1 DEF ValAxioms
        <3>3. \A t : EqcValue(t)' = EqcValue(t)
            BY <3>1 DEF EqcValue
        <3> QED BY <2>1, <3>2, <3>3 DEF IInv, SatHasValue
    <2> QED BY <2>1, <2>2, <2>3, MapsStay DEF IInv, maps
<1> QED BY <1>1, <1>2, <1>3, <1>4, <1>5, <1>6, <1>7 DEF Next

LEMMA BacktrackLearns ==
    ASSUME IInv, RefutedInv, Backtrack
    PROVE  \A c \in refuted' : c \in refuted \/ Excluded(problem, valTesters, valRangeMap, c)
<1>1. MapsInv /\ ScopesInv
    BY DEF IInv
<1>2. PICK reason \in Reasons : \E s \in 2..Len(scopes) :
           /\ scopes[s].choice \in reason
           /\ \A r \in s + 1..Len(scopes) : scopes[r].choice \notin reason
           /\ refuted' = refuted \cup {scopes[s].choice}
    BY DEF Backtrack
<1>3. PICK s \in 2..Len(scopes) :
           /\ scopes[s].choice \in reason
           /\ \A r \in s + 1..Len(scopes) : scopes[r].choice \notin reason
           /\ refuted' = refuted \cup {scopes[s].choice}
    BY <1>2
<1>4. s \in 1..Len(scopes)
    BY <1>1, StackFacts DEF ScopesInv
<1>5. CASE \E c \in Choices : Impossible(c) /\ reason = {c}
    <2>1. scopes[s].choice \in Choices /\ Impossible(scopes[s].choice)
        BY <1>3, <1>5
    <2> QED BY <1>1, <1>3, <2>1, ImpossibleExcluded
<1>6. CASE \E ax \in Open : Options(ax) \subseteq refuted /\ reason = ax.premise
    <2>1. PICK ax \in Open : Options(ax) \subseteq refuted /\ reason = ax.premise
        BY <1>6
    <2>2. Excluded(problem, valTesters, valRangeMap, scopes[s].choice)
        BY <1>1, <1>3, <1>4, <2>1, PremiseExcluded
    <2> QED BY <1>3, <2>2
<1> QED BY <1>2, <1>5, <1>6 DEF Reasons

LEMMA RefutedStep ==
    ASSUME IInv, RefutedInv, UnsatMeansNone, [Next]_vars
    PROVE  RefutedInv' /\ UnsatMeansNone'
<1>1. IInv' /\ MapsGrow
    BY StepInv
<1>2. MapsInv /\ ScopesInv /\ MapsInv' /\ ScopesInv'
    BY <1>1 DEF IInv
<1>3. ASSUME \A c \in refuted' : c \in refuted \/ Excluded(problem, valTesters, valRangeMap, c)
      PROVE  RefutedInv'
    <2>1. \A c \in refuted' : Excluded(problem, valTesters, valRangeMap, c) /\ c \in Choice
        BY <1>2, <1>3 DEF RefutedInv, ScopesInv
    <2>2. \A c \in refuted' : Excluded(problem, valTesters, valRangeMap, c)'
        BY <1>1, <1>2, <2>1, ExcludedKept
    <2> QED BY <2>2 DEF RefutedInv
<1>4. RefutedInv'
    <2>1. CASE Backtrack
        BY <1>3, <2>1, BacktrackLearns
    <2>2. CASE ~Backtrack
        <3>1. refuted' = refuted
            BY <2>2 DEF Next, Decide, DecideElsewhere, GiveUp, Restart, FinalCheck, vars
        <3> QED BY <1>3, <3>1
    <2> QED BY <2>1, <2>2
<1>5. UnsatMeansNone'
    <2>1. problem' = problem
        BY <1>1 DEF MapsGrow
    <2>2. CASE GiveUp
        <3>1. problem.accepted = {}
            BY <1>2, <2>2, NothingAccepted DEF GiveUp
        <3> QED BY <2>1, <3>1 DEF UnsatMeansNone
    <2>3. CASE ~GiveUp
        <3>1. verdict' = "unsat" => verdict = "unsat"
            BY <2>3 DEF Next, Decide, DecideElsewhere, Backtrack, Restart, FinalCheck, Done, vars, maps
        <3> QED BY <2>1, <3>1 DEF UnsatMeansNone
    <2> QED BY <2>2, <2>3
<1> QED BY <1>4, <1>5

LEMMA Invariant == Spec => []IInv
<1>1. IInv /\ [Next]_vars => IInv'
    BY StepInv
<1> QED BY <1>1, InitInv, PTL DEF Spec

\* For every alphabet, step and formula: the maps have a range per value tester
\* and the scopes' choices are choices of testers.
THEOREM SearchTypes == Spec => []TypeOK
<1>1. IInv => TypeOK
    <2> SUFFICES ASSUME IInv PROVE TypeOK
        OBVIOUS
    <2>1. Lengths = LengthsOf(problem)
        BY DEF Lengths, LengthsOf
    <2>2. DOMAIN valRangeMap =
              UNION {{ValTester(n, i) : i \in 0..valTesters[n] - 1} : n \in Lengths}
        BY <2>1 DEF IInv, MapsInv, MapsOK, MadeTesters
    <2>3. \A s \in 1..Len(scopes) : scopes[s].choice \in Choice \cup {None}
        BY StackFacts DEF IInv, ScopesInv
    <2> QED BY <2>1, <2>2, <2>3 DEF IInv, MapsInv, MapsOK, ScopesInv, TypeOK
<1> QED BY <1>1, Invariant, PTL

\* For every alphabet, step and formula, and every order of decisions,
\* backtracking and restarts: no list of options is empty when its last element
\* is read, and a value tester that is "more" finds its length.
THEOREM SearchNeverCrashes == Spec => []NeverCrashes
<1>1. IInv => NeverCrashes
    BY DEF IInv, NeverCrashes
<1> QED BY <1>1, Invariant, PTL

\* For every alphabet, step and formula: sat is answered with a value for x that
\* the formula accepts.
LEMMA SatIsWitnessed == Spec => []SatHasValue
<1>1. IInv => SatHasValue
    BY DEF IInv
<1> QED BY <1>1, Invariant, PTL

\* For every alphabet, step and formula: a tester goes on where the one before
\* it stopped, so each string of a length is offered once, and when a tester
\* offers no "more" none is left.
THEOREM StringsOfferedOnce == Spec => []EachStringOnce
<1>1. IInv => EachStringOnce
    BY EachOnce DEF IInv
<1> QED BY <1>1, Invariant, PTL

\* For every alphabet, step and formula: unsat is answered only if the formula
\* accepts no string, whatever the core backtracked over, restarted and learned.
LEMMA UnsatIsRight == Spec => []UnsatMeansNone
<1>1. Init => RefutedInv /\ UnsatMeansNone
    BY DEF Init, RefutedInv, UnsatMeansNone
<1>2. IInv /\ RefutedInv /\ UnsatMeansNone /\ [Next]_vars => RefutedInv' /\ UnsatMeansNone'
    BY RefutedStep
<1> QED BY <1>1, <1>2, Invariant, PTL DEF Spec

\* For every alphabet, step and formula: the solver's verdict is right,
\* whichever it is.
THEOREM VerdictsAreRight == Spec => []VerdictIsRight
<1>1. SatHasValue /\ UnsatMeansNone => VerdictIsRight
    BY DEF VerdictIsRight
<1> QED BY <1>1, SatIsWitnessed, UnsatIsRight, PTL

\* For every alphabet, step and formula: the range of a value tester never
\* changes, however often its axiom is lost and asserted again.
THEOREM OffersAreKept == Spec => OffersNeverChange
<1>1. IInv /\ [Next]_vars => [\A t \in DOMAIN valRangeMap : valRangeMap'[t] = valRangeMap[t]]_vars
    BY StepInv DEF MapsGrow, Grown
<1> QED BY <1>1, Invariant, PTL DEF Spec, OffersNeverChange

=============================================================================
