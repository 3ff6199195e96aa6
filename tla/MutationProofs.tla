---------------------------- MODULE MutationProofs ----------------------------
(***************************************************************************)
(* What holds of mutants whatever the policies, and whatever the order in  *)
(* which methods are called and Mutators created: the document is restored *)
(* after every method, fault locations name what differs, every file holds *)
(* the mutant it was saved for, most mutants are undone by one method, and *)
(* the targets of TargetFalse match no request of single values.  The      *)
(* inductive invariant, IInv, has a part on the Mutator at work            *)
(* (SourceInv), one on the mutants returned (MutantsInv) and one on the    *)
(* folder (FilesInv); OriginInv, on it, says what a mutant was made of.    *)
(* Before it come lemmas on sequences, on documents, and for each          *)
(* create...Mutants method one on what it makes, and one on undoing it.    *)
(***************************************************************************)
EXTENDS Mutation, Integers, SequenceTheorems, FiniteSetTheorems, WellFoundedInduction, TLAPS

-----------------------------------------------------------------------------
(* Sequences.                                                              *)

LEMMA LeastOf ==
    ASSUME NEW S \in SUBSET Nat, S # {}
    PROVE  Min(S) \in S /\ \A l \in S : Min(S) <= l
<1>1. PICK k \in S : \A l \in S : ~(<<l, k>> \in OpToRel(<, Nat))
    <2>1. \E k \in S : \A l \in S : ~(<<l, k>> \in OpToRel(<, Nat))
        BY NatLessThanWellFounded, WFMin, Zenon
    <2> QED BY <2>1
<1>2. \A l \in S : ~(l < k)
    BY <1>1 DEF OpToRel
<1>3. \A l \in S : k <= l
    BY <1>2
<1> QED BY <1>3 DEF Min

LEMMA GreatestOf ==
    ASSUME NEW n \in Nat, NEW S \in SUBSET (0..n), S # {}
    PROVE  Max(S) \in S /\ \A l \in S : l <= Max(S)
<1> DEFINE T == {n - k : k \in S}
<1>0. \A k \in S : k \in Int /\ 0 <= k /\ k <= n
    OBVIOUS
<1>1. T \in SUBSET Nat /\ T # {}
    <2>1. \A k \in S : n - k \in Nat
        BY <1>0
    <2> QED BY <2>1
<1>2. PICK m \in T : \A t \in T : m <= t
    BY <1>1, LeastOf
<1>3. PICK k \in S : m = n - k
    BY <1>2
<1>4. \A l \in S : l <= k
    <2> TAKE l \in S
    <2>1. n - l \in T
        OBVIOUS
    <2> HIDE DEF T
    <2>2. n - k <= n - l
        BY <1>2, <1>3, <2>1
    <2>3. k \in Int /\ l \in Int
        BY <1>0
    <2> QED BY <2>2, <2>3
<1> QED BY <1>4 DEF Max

LEMMA SeqFacts ==
    ASSUME NEW S, NEW s \in Seq(S)
    PROVE  /\ Len(s) \in Nat /\ DOMAIN s = 1..Len(s) /\ s \in [1..Len(s) -> S]
           /\ \A k \in DOMAIN s : s[k] \in S
    BY LenProperties, ElementOfSeq

LEMMA InsertFacts ==
    ASSUME NEW S, NEW s \in Seq(S), NEW k \in 1..Len(s) + 1, NEW e \in S
    PROVE  /\ InsertAt(s, k, e) \in Seq(S) /\ Len(InsertAt(s, k, e)) = Len(s) + 1
           /\ \A i \in 1..Len(s) + 1 :
                  InsertAt(s, k, e)[i] = IF i < k THEN s[i] ELSE IF i = k THEN e ELSE s[i - 1]
<1> DEFINE l == SubSeq(s, 1, k - 1)
           r == SubSeq(s, k, Len(s))
<1>0. Len(s) \in Nat
    BY SeqFacts
<1>1. /\ l \in Seq(S) /\ Len(l) = k - 1 /\ \A i \in 1..k - 1 : l[i] = s[i]
      /\ r \in Seq(S) /\ Len(r) = Len(s) + 1 - k /\ \A i \in 1..Len(s) + 1 - k : r[i] = s[k + i - 1]
    BY <1>0, SubSeqProperties
<1>2. <<e>> \in Seq(S) /\ Len(<<e>>) = 1 /\ <<e>>[1] = e
    OBVIOUS
<1> HIDE DEF l, r
<1> DEFINE m == l \o <<e>>
<1>3. /\ m \in Seq(S) /\ Len(m) = k
      /\ \A i \in 1..k : m[i] = IF i < k THEN s[i] ELSE e
    BY <1>0, <1>1, <1>2, ConcatProperties
<1> HIDE DEF m
<1>4. /\ m \o r \in Seq(S) /\ Len(m \o r) = Len(s) + 1
      /\ \A i \in 1..Len(s) + 1 : (m \o r)[i] = IF i <= k THEN m[i] ELSE r[i - k]
    <2>1. /\ m \o r \in Seq(S) /\ Len(m \o r) = Len(m) + Len(r)
          /\ \A i \in 1..Len(m) + Len(r) : (m \o r)[i] = IF i <= Len(m) THEN m[i] ELSE r[i - Len(m)]
        BY <1>1, <1>3, ConcatProperties
    <2>2. Len(m) = k /\ Len(m) + Len(r) = Len(s) + 1
        BY <1>0, <1>1, <1>3
    <2> QED BY <2>1, <2>2
<1>5. ASSUME NEW i \in 1..Len(s) + 1
      PROVE  (m \o r)[i] = IF i < k THEN s[i] ELSE IF i = k THEN e ELSE s[i - 1]
    <2>1. CASE i <= k
        BY <1>0, <1>3, <1>4, <2>1
    <2>2. CASE i > k
        <3>1. /\ i - k \in 1..Len(s) + 1 - k /\ k + (i - k) - 1 = i - 1
              /\ ~(i <= k) /\ ~(i < k) /\ i # k
            BY <1>0, <2>2
        <3>2. r[i - k] = s[i - 1]
            BY <1>1, <3>1
        <3> QED BY <1>4, <3>1, <3>2
    <2>3. i <= k \/ i > k
        BY <1>0
    <2> QED BY <2>1, <2>2, <2>3
<1>6. InsertAt(s, k, e) = m \o r
    BY DEF InsertAt, m, l, r
<1> QED BY <1>4, <1>5, <1>6

LEMMA RemoveFacts ==
    ASSUME NEW S, NEW s \in Seq(S), NEW k \in 1..Len(s)
    PROVE  /\ RemoveAt(s, k) \in Seq(S) /\ Len(RemoveAt(s, k)) = Len(s) - 1
           /\ \A i \in 1..Len(s) - 1 : RemoveAt(s, k)[i] = IF i < k THEN s[i] ELSE s[i + 1]
<1> DEFINE l == SubSeq(s, 1, k - 1)
           r == SubSeq(s, k + 1, Len(s))
<1>0. Len(s) \in Nat
    BY SeqFacts
<1>1. /\ l \in Seq(S) /\ Len(l) = k - 1 /\ \A i \in 1..k - 1 : l[i] = s[i]
      /\ r \in Seq(S) /\ Len(r) = Len(s) - k /\ \A i \in 1..Len(s) - k : r[i] = s[k + i]
    BY <1>0, SubSeqProperties
<1> HIDE DEF l, r
<1>2. /\ l \o r \in Seq(S) /\ Len(l \o r) = Len(s) - 1
      /\ \A i \in 1..Len(s) - 1 : (l \o r)[i] = IF i <= k - 1 THEN l[i] ELSE r[i - (k - 1)]
    <2>1. /\ l \o r \in Seq(S) /\ Len(l \o r) = Len(l) + Len(r)
          /\ \A i \in 1..Len(l) + Len(r) : (l \o r)[i] = IF i <= Len(l) THEN l[i] ELSE r[i - Len(l)]
        BY <1>1, ConcatProperties
    <2>2. Len(l) = k - 1 /\ Len(l) + Len(r) = Len(s) - 1
        BY <1>0, <1>1
    <2> QED BY <2>1, <2>2
<1>3. ASSUME NEW i \in 1..Len(s) - 1 PROVE (l \o r)[i] = IF i < k THEN s[i] ELSE s[i + 1]
    <2>1. CASE i < k
        <3>1. i <= k - 1 /\ i \in 1..k - 1
            BY <1>0, <2>1
        <3> QED BY <1>1, <1>2, <2>1, <3>1
    <2>2. CASE i >= k
        <3>1. /\ i - (k - 1) \in 1..Len(s) - k /\ k + (i - (k - 1)) = i + 1
              /\ ~(i <= k - 1) /\ ~(i < k)
            BY <1>0, <2>2
        <3>2. r[i - (k - 1)] = s[i + 1]
            BY <1>1, <3>1
        <3> QED BY <1>2, <3>1, <3>2
    <2>3. i < k \/ i >= k
        BY <1>0
    <2> QED BY <2>1, <2>2, <2>3
<1>4. RemoveAt(s, k) = l \o r
    BY DEF RemoveAt, l, r
<1> QED BY <1>2, <1>3, <1>4

\* Removing and inserting again.
LEMMA Reinserted ==
    ASSUME NEW S, NEW s \in Seq(S), NEW k \in 1..Len(s)
    PROVE  InsertAt(RemoveAt(s, k), k, s[k]) = s
<1> DEFINE r == RemoveAt(s, k)
<1>1. /\ Len(s) \in Nat /\ r \in Seq(S) /\ Len(r) = Len(s) - 1 /\ s[k] \in S
      /\ \A i \in 1..Len(s) - 1 : r[i] = IF i < k THEN s[i] ELSE s[i + 1]
    BY SeqFacts, RemoveFacts
<1> HIDE DEF r
<1>2. /\ InsertAt(r, k, s[k]) \in Seq(S) /\ Len(InsertAt(r, k, s[k])) = Len(s)
      /\ \A i \in 1..Len(s) :
             InsertAt(r, k, s[k])[i] = IF i < k THEN r[i] ELSE IF i = k THEN s[k] ELSE r[i - 1]
    <2>1. k \in 1..Len(r) + 1 /\ Len(r) + 1 = Len(s)
        BY <1>1
    <2>2. /\ InsertAt(r, k, s[k]) \in Seq(S) /\ Len(InsertAt(r, k, s[k])) = Len(r) + 1
          /\ \A i \in 1..Len(r) + 1 :
                 InsertAt(r, k, s[k])[i] = IF i < k THEN r[i] ELSE IF i = k THEN s[k] ELSE r[i - 1]
        <3> DEFINE e == s[k]
        <3>1. e \in S
            BY <1>1
        <3> HIDE DEF e
        <3>2. /\ InsertAt(r, k, e) \in Seq(S) /\ Len(InsertAt(r, k, e)) = Len(r) + 1
              /\ \A i \in 1..Len(r) + 1 :
                     InsertAt(r, k, e)[i] = IF i < k THEN r[i] ELSE IF i = k THEN e ELSE r[i - 1]
            BY <1>1, <2>1, <3>1, InsertFacts
        <3> QED BY <3>2 DEF e
    <2> QED BY <2>1, <2>2
<1>3. ASSUME NEW i \in 1..Len(s) PROVE InsertAt(r, k, s[k])[i] = s[i]
    <2>1. CASE i < k
        <3>1. i \in 1..Len(s) - 1
            BY <1>1, <2>1
        <3> QED BY <1>1, <1>2, <2>1, <3>1
    <2>2. CASE i = k
        BY <1>2, <2>2
    <2>3. CASE i > k
        <3>1. i - 1 \in 1..Len(s) - 1 /\ ~(i - 1 < k) /\ i - 1 + 1 = i /\ i # k /\ ~(i < k)
            BY <1>1, <2>3
        <3> QED BY <1>1, <1>2, <3>1
    <2> QED BY <1>1, <2>1, <2>2, <2>3
<1>4. InsertAt(r, k, s[k]) = s
    BY <1>2, <1>3, SeqEqual
<1> QED BY <1>4 DEF r

LEMMA InsertedRemoved ==
    ASSUME NEW S, NEW s \in Seq(S), NEW k \in 1..Len(s) + 1, NEW e \in S
    PROVE  RemoveAt(InsertAt(s, k, e), k) = s
<1> DEFINE t == InsertAt(s, k, e)
<1>1. /\ Len(s) \in Nat /\ t \in Seq(S) /\ Len(t) = Len(s) + 1
      /\ \A i \in 1..Len(s) + 1 : t[i] = IF i < k THEN s[i] ELSE IF i = k THEN e ELSE s[i - 1]
    BY SeqFacts, InsertFacts
<1> HIDE DEF t
<1>2. /\ RemoveAt(t, k) \in Seq(S) /\ Len(RemoveAt(t, k)) = Len(s)
      /\ \A i \in 1..Len(s) : RemoveAt(t, k)[i] = IF i < k THEN t[i] ELSE t[i + 1]
    <2>1. k \in 1..Len(t) /\ Len(t) - 1 = Len(s)
        BY <1>1
    <2> QED BY <1>1, <2>1, RemoveFacts
<1>3. ASSUME NEW i \in 1..Len(s) PROVE RemoveAt(t, k)[i] = s[i]
    <2>1. CASE i < k
        BY <1>1, <1>2, <2>1
    <2>2. CASE i >= k
        <3>1. i + 1 \in 1..Len(s) + 1 /\ ~(i + 1 < k) /\ i + 1 # k /\ i + 1 - 1 = i
            BY <1>1, <2>2
        <3> QED BY <1>1, <1>2, <2>2, <3>1
    <2> QED BY <1>1, <2>1, <2>2
<1>4. RemoveAt(t, k) = s
    BY <1>2, <1>3, SeqEqual
<1> QED BY <1>4 DEF t

LEMMA OthersFacts ==
    ASSUME NEW S, NEW list \in Seq(S), NEW original
    PROVE  Others(list, original) \in Seq(S)
<1> DEFINE I == {i \in 1..Len(list) : list[i] = original}
<1>1. Others(list, original) =
          IF \E i \in 1..Len(list) : list[i] = original
          THEN RemoveAt(list, IF I # {} THEN Min(I) ELSE 0) ELSE list
    BY DEF Others, RemoveFirst, SelectInSeq
<1>2. Len(list) \in Nat
    BY SeqFacts
<1>3. ASSUME I # {} PROVE Min(I) \in 1..Len(list)
    <2>1. I \in SUBSET Nat
        BY <1>2
    <2>2. Min(I) \in I
        BY <1>3, <2>1, LeastOf
    <2> QED BY <2>2
<1> QED BY <1>1, <1>3, RemoveFacts

LEMMA FlattenFacts ==
    ASSUME NEW S, NEW seqs \in Seq(Seq(S))
    PROVE  FlattenSeq(seqs) \in Seq(S)
<1> DEFINE n == Len(seqs)
           Unfolds(f, k) == f = [i \in 1..k |-> IF i = 1 THEN seqs[i] ELSE f[i - 1] \o seqs[i]]
           Good(k) == \E f : Unfolds(f, k) /\ \A i \in 1..k : f[i] \in Seq(S)
           Bad == {k \in Nat : k <= n /\ ~Good(k)}
<1>1. n \in Nat /\ \A i \in 1..n : seqs[i] \in Seq(S)
    BY SeqFacts
<1>2. CASE n = 0
    <2>1. FlattenSeq(seqs) = seqs
        BY <1>2 DEF FlattenSeq
    <2>2. seqs = <<>>
        BY <1>2, EmptySeq
    <2> QED BY <2>1, <2>2
<1>3. Good(n)
    <2> SUFFICES ASSUME ~Good(n) PROVE FALSE
        OBVIOUS
    <2>1. PICK k \in Bad : \A l \in Bad : k <= l
        <3>0. n <= n
            BY <1>1
        <3>1. n <= n /\ Bad \in SUBSET Nat
            BY <3>0
        <3>2. n \in Bad
            BY <1>1, <3>1
        <3> HIDE DEF Bad
        <3> QED BY <3>1, <3>2, LeastOf
    <2>2. k # 0
        <3>1. Unfolds([i \in 1..0 |-> seqs], 0)
            OBVIOUS
        <3>2. Good(0)
            BY <3>1
        <3> QED BY <2>1, <3>2
    <2>3. Good(k - 1) /\ k - 1 \in Nat /\ k \in 1..n
        <3>1. k \in Nat /\ k <= n
            OBVIOUS
        <3>2. k - 1 \in Nat /\ k - 1 <= n /\ ~(k <= k - 1) /\ k \in 1..n
            BY <1>1, <2>2, <3>1
        <3>3. k - 1 \notin Bad
            BY <2>1, <3>2
        <3> HIDE DEF Good
        <3> QED BY <3>2, <3>3
    <2>4. PICK f : Unfolds(f, k - 1) /\ \A i \in 1..k - 1 : f[i] \in Seq(S)
        BY <2>3
    <2> DEFINE g == [i \in 1..k |-> IF i = 1 THEN seqs[i] ELSE f[i - 1] \o seqs[i]]
    <2>5. \A i \in 1..k - 1 : i \in 1..k /\ g[i] = f[i]
        <3> TAKE i \in 1..k - 1
        <3>1. i \in 1..k
            BY <2>3
        <3>2. f[i] = IF i = 1 THEN seqs[i] ELSE f[i - 1] \o seqs[i]
            BY <2>4
        <3> QED BY <3>1, <3>2
    <2>6. \A i \in 1..k : i # 1 => i - 1 \in 1..k - 1
        BY <2>3
    <2>7. g = [i \in 1..k |-> IF i = 1 THEN seqs[i] ELSE g[i - 1] \o seqs[i]]
        <3> HIDE DEF g
        <3>1. g = [i \in 1..k |-> IF i = 1 THEN seqs[i] ELSE f[i - 1] \o seqs[i]]
            BY DEF g
        <3>2. \A i \in 1..k : (IF i = 1 THEN seqs[i] ELSE f[i - 1] \o seqs[i])
                                = (IF i = 1 THEN seqs[i] ELSE g[i - 1] \o seqs[i])
            BY <2>5, <2>6
        <3> QED BY <3>1, <3>2
    <2>8. \A i \in 1..k : g[i] \in Seq(S)
        <3> TAKE i \in 1..k
        <3>1. seqs[i] \in Seq(S)
            BY <1>1, <2>3
        <3>2. CASE i = 1
            BY <3>1, <3>2
        <3>3. CASE i # 1
            <4>1. f[i - 1] \in Seq(S)
                BY <2>4, <2>6, <3>3
            <4>2. g[i] = f[i - 1] \o seqs[i]
                BY <3>3
            <4> QED BY <3>1, <4>1, <4>2, ConcatProperties
        <3> QED BY <3>2, <3>3
    <2> HIDE DEF g
    <2>9. Good(k)
        BY <2>7, <2>8
    <2> QED BY <2>1, <2>9
<1>4. CASE n # 0
    <2>1. PICK f : Unfolds(f, n) /\ \A i \in 1..n : f[i] \in Seq(S)
        BY <1>3
    <2> DEFINE flatten == CHOOSE f2 : Unfolds(f2, n)
    <2>2. Unfolds(flatten, n)
        BY <2>1
    <2>3. FlattenSeq(seqs) = flatten[n]
        BY <1>4 DEF FlattenSeq
    <2> HIDE DEF flatten
    <2>4. \A i \in 1..n : flatten[i] \in Seq(S)
        <3> DEFINE Off == {i \in Nat : i \in 1..n /\ flatten[i] \notin Seq(S)}
        <3>a. \A i \in 1..n : i \in Nat
            BY <1>1
        <3> SUFFICES ASSUME Off # {} PROVE FALSE
            BY <3>a
        <3>1. PICK i \in Off : \A l \in Off : i <= l
            <4>1. Off \in SUBSET Nat
                OBVIOUS
            <4> HIDE DEF Off
            <4> QED BY <4>1, LeastOf
        <3>2. flatten[i] = IF i = 1 THEN seqs[i] ELSE flatten[i - 1] \o seqs[i]
            BY <2>2, <3>1
        <3>3. i # 1 => i - 1 \in 1..n /\ flatten[i - 1] \in Seq(S)
            BY <1>1, <3>1
        <3>4. seqs[i] \in Seq(S)
            BY <1>1, <3>1
        <3>5. i # 1 => flatten[i - 1] \o seqs[i] \in Seq(S)
            BY <3>3, <3>4, ConcatProperties
        <3> QED BY <3>1, <3>2, <3>4, <3>5
    <2> QED BY <1>1, <1>4, <2>3, <2>4
<1> QED BY <1>2, <1>4

-----------------------------------------------------------------------------
(* Documents.                                                              *)

\* The policies a Mutator may be given, and their rules.
Documents == PoliciesOf(Forms \cup {"conflict"})
RuleRecords == RulesOf(Forms \cup {"conflict"})

Ids(d) == {Site(d.rules[k]) : k \in DOMAIN d.rules}

\* Policy q has the elements of d, but for the one at a site.
SameElsewhere(d, site, q) ==
    /\ DOMAIN q.rules = DOMAIN d.rules
    /\ site # PolicyTarget => q.alg = d.alg /\ q.target = d.target
    /\ \A k \in DOMAIN d.rules : Site(d.rules[k]) # site => q.rules[k] = d.rules[k]

LEMMA DocumentFacts ==
    ASSUME NEW d \in Documents
    PROVE  /\ d.alg \in ToSet(RuleCombiningAlgorithms) /\ d.target \in Targets
           /\ d.rules \in Seq(RuleRecords) /\ Len(d.rules) \in Nat /\ DOMAIN d.rules = 1..Len(d.rules)
           /\ d = [alg |-> d.alg, target |-> d.target, rules |-> d.rules]
           /\ \A k \in DOMAIN d.rules : d.rules[k] \in RuleRecords
           /\ \A k, l \in DOMAIN d.rules : Site(d.rules[k]) = Site(d.rules[l]) => k = l
           /\ PolicyTarget \notin Ids(d)
<1>1. /\ d \in [alg : ToSet(RuleCombiningAlgorithms), target : Targets, rules : Seq(RuleRecords)]
      /\ \A k, l \in DOMAIN d.rules : Site(d.rules[k]) = Site(d.rules[l]) => k = l
    BY DEF Documents, PoliciesOf, RuleRecords
<1>2. /\ Len(d.rules) \in Nat /\ DOMAIN d.rules = 1..Len(d.rules)
      /\ \A k \in DOMAIN d.rules : d.rules[k] \in RuleRecords
    BY <1>1, SeqFacts
<1>3. \A rule \in RuleRecords : Site(rule) # PolicyTarget
    BY PoliciesAssumption DEF RuleRecords, RulesOf, Site
<1>4. PolicyTarget \notin Ids(d)
    BY <1>2, <1>3 DEF Ids
<1> QED BY <1>1, <1>2, <1>4

LEMMA RuleFacts ==
    ASSUME NEW rule \in RuleRecords
    PROVE  /\ rule.id \in RuleIds /\ rule.effect \in Effects
           /\ rule.target \in Targets /\ rule.condition \in Conditions(Forms \cup {"conflict"})
           /\ rule = [id |-> rule.id, effect |-> rule.effect, target |-> rule.target,
                      condition |-> rule.condition]
    BY DEF RuleRecords, RulesOf

\* Other rules make another document.
LEMMA WithRulesFacts ==
    ASSUME NEW d \in Documents, NEW rules \in Seq(RuleRecords),
           \A k, l \in DOMAIN rules : Site(rules[k]) = Site(rules[l]) => k = l
    PROVE  /\ WithRules(d, rules) \in Documents
           /\ WithRules(d, rules).alg = d.alg /\ WithRules(d, rules).target = d.target
           /\ WithRules(d, rules).rules = rules
           /\ WithRules(WithRules(d, rules), d.rules) = d
<1>1. d = [alg |-> d.alg, target |-> d.target, rules |-> d.rules]
    BY DocumentFacts
<1>2. WithRules(d, rules) = [alg |-> d.alg, target |-> d.target, rules |-> rules]
    BY <1>1 DEF WithRules
<1>3. WithRules(d, rules) \in Documents
    BY <1>2, DocumentFacts DEF Documents, PoliciesOf, RuleRecords
<1>4. WithRules(WithRules(d, rules), d.rules) = d
    BY <1>1, <1>2 DEF WithRules
<1> QED BY <1>2, <1>3, <1>4

LEMMA IndexFacts ==
    ASSUME NEW d \in Documents, NEW site \in Ids(d)
    PROVE  /\ IndexOf(d, site) \in DOMAIN d.rules /\ Site(d.rules[IndexOf(d, site)]) = site
           /\ \A k \in DOMAIN d.rules : Site(d.rules[k]) = site => k = IndexOf(d, site)
           /\ RuleAt(d, site) = d.rules[IndexOf(d, site)] /\ RuleAt(d, site) \in RuleRecords
           /\ RuleAt(d, site).id = site
<1>1. \E k \in DOMAIN d.rules : Site(d.rules[k]) = site
    BY DEF Ids
<1>2. IndexOf(d, site) \in DOMAIN d.rules /\ Site(d.rules[IndexOf(d, site)]) = site
    BY <1>1 DEF IndexOf
<1>3. /\ \A k, l \in DOMAIN d.rules : Site(d.rules[k]) = Site(d.rules[l]) => k = l
      /\ \A k \in DOMAIN d.rules : d.rules[k] \in RuleRecords
    BY DocumentFacts
<1> QED BY <1>2, <1>3 DEF RuleAt, Site

\* Another rule with the id of the one it takes the place of.
LEMMA WithRuleFacts ==
    ASSUME NEW d \in Documents, NEW site \in Ids(d), NEW rule \in RuleRecords, rule.id = site
    PROVE  LET q == WithRule(d, site, rule)
           IN  /\ q \in Documents /\ Ids(q) = Ids(d)
               /\ DOMAIN q.rules = DOMAIN d.rules /\ q.alg = d.alg /\ q.target = d.target
               /\ IndexOf(q, site) = IndexOf(d, site) /\ RuleAt(q, site) = rule
               /\ \A k \in DOMAIN d.rules :
                      q.rules[k] = IF k = IndexOf(d, site) THEN rule ELSE d.rules[k]
               /\ SameElsewhere(d, site, q)
               /\ WithRule(q, site, RuleAt(d, site)) = d
<1> DEFINE q == WithRule(d, site, rule)
           i == IndexOf(d, site)
<1>1. /\ i \in DOMAIN d.rules /\ Site(d.rules[i]) = site
      /\ \A k \in DOMAIN d.rules : Site(d.rules[k]) = site => k = i
      /\ RuleAt(d, site) = d.rules[i]
    BY IndexFacts
<1>2. /\ d = [alg |-> d.alg, target |-> d.target, rules |-> d.rules]
      /\ d.rules \in Seq(RuleRecords) /\ Len(d.rules) \in Nat /\ DOMAIN d.rules = 1..Len(d.rules)
      /\ \A k, l \in DOMAIN d.rules : Site(d.rules[k]) = Site(d.rules[l]) => k = l
      /\ d.rules \in [DOMAIN d.rules -> RuleRecords]
    BY DocumentFacts, SeqFacts
<1> DEFINE rules == [d.rules EXCEPT ![i] = rule]
<1>3. /\ rules \in Seq(RuleRecords) /\ DOMAIN rules = DOMAIN d.rules
      /\ \A k \in DOMAIN d.rules : rules[k] = IF k = i THEN rule ELSE d.rules[k]
    <2>1. rules \in [1..Len(d.rules) -> RuleRecords]
        BY <1>1, <1>2
    <2>2. rules \in Seq(RuleRecords)
        BY <1>2, <2>1 DEF Seq
    <2> QED BY <1>1, <1>2, <2>2
<1>4. [rules EXCEPT ![i] = d.rules[i]] = d.rules
    BY <1>1, <1>2
<1>5. q = WithRules(d, rules)
    BY <1>2 DEF WithRule, WithRules
<1> HIDE DEF i, rules
<1>6. Site(rule) = site /\ \A k \in DOMAIN d.rules : Site(rules[k]) = Site(d.rules[k])
    BY <1>1, <1>3 DEF Site
<1>7. /\ q \in Documents /\ q.alg = d.alg /\ q.target = d.target /\ q.rules = rules
      /\ q = [alg |-> q.alg, target |-> q.target, rules |-> q.rules]
    <2>1. \A k, l \in DOMAIN rules : Site(rules[k]) = Site(rules[l]) => k = l
        BY <1>2, <1>3, <1>6
    <2> HIDE DEF q
    <2>2. /\ q \in Documents /\ q.alg = d.alg /\ q.target = d.target /\ q.rules = rules
        BY <1>3, <1>5, <2>1, WithRulesFacts
    <2> QED BY <2>2, DocumentFacts
<1> HIDE DEF q
<1>8. Ids(q) = Ids(d)
    BY <1>3, <1>6, <1>7 DEF Ids
<1>9. IndexOf(q, site) = i /\ RuleAt(q, site) = rule
    <2>1. /\ IndexOf(q, site) \in DOMAIN q.rules /\ Site(q.rules[IndexOf(q, site)]) = site
          /\ RuleAt(q, site) = q.rules[IndexOf(q, site)]
        BY <1>7, <1>8, IndexFacts
    <2> QED BY <1>1, <1>3, <1>6, <1>7, <2>1
<1>10. SameElsewhere(d, site, q)
    BY <1>1, <1>3, <1>7 DEF SameElsewhere
<1>11. WithRule(q, site, RuleAt(d, site)) = d
    <2>1. WithRule(q, site, d.rules[i]) = WithRules(q, [q.rules EXCEPT ![i] = d.rules[i]])
        BY <1>7, <1>9 DEF WithRule, WithRules
    <2>2. WithRules(q, d.rules) = d
        <3>1. \A k, l \in DOMAIN rules : Site(rules[k]) = Site(rules[l]) => k = l
            BY <1>2, <1>3, <1>6
        <3> QED BY <1>3, <1>5, <3>1, WithRulesFacts
    <2> QED BY <1>1, <1>4, <1>7, <2>1, <2>2
<1> QED BY <1>3, <1>7, <1>8, <1>9, <1>10, <1>11 DEF q, i

\* The sites of a document: its target and its rules.
Places(d) == {PolicyTarget} \cup Ids(d)

\* Another target at a site, and the one before again.
LEMMA WithTargetFacts ==
    ASSUME NEW d \in Documents, NEW site \in Places(d), NEW t \in Targets
    PROVE  LET q == WithTarget(d, site, t)
           IN  /\ TargetAt(d, site) \in Targets
               /\ q \in Documents /\ Ids(q) = Ids(d) /\ SameElsewhere(d, site, q)
               /\ DOMAIN q.rules = DOMAIN d.rules
               /\ TargetAt(q, site) = t
               /\ WithTarget(q, site, TargetAt(d, site)) = d
<1> DEFINE q == WithTarget(d, site, t)
<1>1. CASE site = PolicyTarget
    <2>1. d = [alg |-> d.alg, target |-> d.target, rules |-> d.rules]
        BY DocumentFacts
    <2>2. q = [alg |-> d.alg, target |-> t, rules |-> d.rules]
        BY <1>1, <2>1 DEF WithTarget
    <2>3. q \in Documents
        BY <2>2, DocumentFacts DEF Documents, PoliciesOf, RuleRecords
    <2>4. Ids(q) = Ids(d) /\ SameElsewhere(d, site, q)
        BY <1>1, <2>2 DEF Ids, SameElsewhere
    <2>5. WithTarget(q, site, d.target) = [alg |-> d.alg, target |-> d.target, rules |-> d.rules]
        BY <1>1, <2>2 DEF WithTarget
    <2> QED BY <1>1, <2>1, <2>2, <2>3, <2>4, <2>5, DocumentFacts DEF TargetAt
<1>2. CASE site # PolicyTarget
    <2>1. site \in Ids(d)
        BY <1>2 DEF Places
    <2> DEFINE r == RuleAt(d, site)
               changed == [r EXCEPT !.target = t]
    <2>2. r \in RuleRecords /\ r.id = site
        BY <2>1, IndexFacts
    <2>3. /\ r.target \in Targets
          /\ r = [id |-> r.id, effect |-> r.effect, target |-> r.target, condition |-> r.condition]
        BY <2>2, RuleFacts
    <2>4. changed \in RuleRecords /\ changed.id = site /\ changed.target = t /\ [changed EXCEPT !.target = r.target] = r
        <3>1. changed = [id |-> r.id, effect |-> r.effect, target |-> t, condition |-> r.condition]
            BY <2>3
        <3>2. changed \in RuleRecords
            BY <2>2, <3>1, RuleFacts DEF RuleRecords, RulesOf
        <3> QED BY <2>2, <2>3, <3>1, <3>2
    <2> HIDE DEF changed
    <2>5. /\ q = WithRule(d, site, changed)
          /\ TargetAt(d, site) = r.target
        BY <1>2 DEF WithTarget, TargetAt, changed
    <2>6. /\ q \in Documents /\ Ids(q) = Ids(d) /\ SameElsewhere(d, site, q)
          /\ RuleAt(q, site) = changed /\ WithRule(q, site, r) = d
          /\ DOMAIN q.rules = DOMAIN d.rules
        BY <2>1, <2>4, <2>5, WithRuleFacts
    <2>7. TargetAt(q, site) = t
        BY <1>2, <2>4, <2>6 DEF TargetAt
    <2>8. WithTarget(q, site, r.target) = d
        BY <1>2, <2>4, <2>6 DEF WithTarget
    <2> QED BY <2>3, <2>5, <2>6, <2>7, <2>8
<1> QED BY <1>1, <1>2

\* Another condition of a rule, and the one before again.
LEMMA WithConditionFacts ==
    ASSUME NEW d \in Documents, NEW site \in Ids(d),
           NEW c \in Conditions(Forms \cup {"conflict"})
    PROVE  LET q == WithCondition(d, site, c)
           IN  /\ ConditionAt(d, site) \in Conditions(Forms \cup {"conflict"})
               /\ q \in Documents /\ Ids(q) = Ids(d) /\ SameElsewhere(d, site, q)
               /\ ConditionAt(q, site) = c
               /\ WithCondition(q, site, ConditionAt(d, site)) = d
<1> DEFINE q == WithCondition(d, site, c)
           r == RuleAt(d, site)
           changed == [r EXCEPT !.condition = c]
<1>2. r \in RuleRecords /\ r.id = site
    BY IndexFacts
<1>3. /\ r.condition \in Conditions(Forms \cup {"conflict"})
      /\ r = [id |-> r.id, effect |-> r.effect, target |-> r.target, condition |-> r.condition]
    BY <1>2, RuleFacts
<1>4. /\ changed \in RuleRecords /\ changed.id = site /\ changed.condition = c
      /\ [changed EXCEPT !.condition = r.condition] = r
    <2>1. changed = [id |-> r.id, effect |-> r.effect, target |-> r.target, condition |-> c]
        BY <1>3
    <2>2. changed \in RuleRecords
        BY <1>2, <2>1, RuleFacts DEF RuleRecords, RulesOf
    <2> QED BY <1>2, <1>3, <2>1, <2>2
<1> HIDE DEF changed
<1>5. q = WithRule(d, site, changed) /\ ConditionAt(d, site) = r.condition
    BY DEF WithCondition, ConditionAt, changed
<1>6. /\ q \in Documents /\ Ids(q) = Ids(d) /\ SameElsewhere(d, site, q)
      /\ RuleAt(q, site) = changed /\ WithRule(q, site, r) = d
    BY <1>4, <1>5, WithRuleFacts
<1>7. ConditionAt(q, site) = c /\ WithCondition(q, site, r.condition) = d
    BY <1>4, <1>6 DEF ConditionAt, WithCondition
<1> QED BY <1>3, <1>5, <1>6, <1>7

-----------------------------------------------------------------------------
(* The methods.                                                            *)

\* What a method may make of a document at a site.
MadeAt(method, d, site) ==
    {m \in [policy : Documents, counts : Seq(Nat)] :
        /\ Ids(m.policy) \subseteq Ids(d) \cup {NewRuleId(d)}
        /\ method \notin Shifting => SameElsewhere(d, site, m.policy)}

\* The counts tell the mutants of a call apart.
CountsDiffer(made) == \A k, l \in DOMAIN made : made[k].counts = made[l].counts => k = l

\* The method makes documents, gives them different names and restores its own.
Sound(method, d, site, o) ==
    /\ o.made \in Seq(MadeAt(method, d, site))
    /\ method \notin {"ANR", "RPTE"} => CountsDiffer(o.made)
    /\ o.threw \in BOOLEAN
    /\ ~o.threw => o.doc = d

LEMMA OneMade ==
    ASSUME NEW d \in Documents, NEW site, NEW method, NEW q \in Documents, NEW left, left = d,
           Ids(q) \subseteq Ids(d) \cup {NewRuleId(d)}, method \notin Shifting => SameElsewhere(d, site, q)
    PROVE  Sound(method, d, site, Made(Only(q), left))
<1>1. [policy |-> q, counts |-> <<>>] \in MadeAt(method, d, site)
    BY DEF MadeAt
<1>2. Only(q) \in Seq(MadeAt(method, d, site))
    BY <1>1 DEF Only, Numbered
<1>3. CountsDiffer(Only(q))
    BY DEF CountsDiffer, Only, Numbered
<1> QED BY <1>2, <1>3 DEF Sound, Made

LEMMA NothingMade ==
    ASSUME NEW d, NEW site, NEW method
    PROVE  Sound(method, d, site, Nothing(d)) /\ \A left : Sound(method, d, site, Thrown(left))
    BY DEF Sound, CountsDiffer, Nothing, Made, Thrown

LEMMA FlippedTwice ==
    ASSUME NEW d \in Documents, NEW site \in Ids(d)
    PROVE  LET q == FlipRule(d, site)
           IN  q \in Documents /\ Ids(q) = Ids(d) /\ SameElsewhere(d, site, q) /\ FlipRule(q, site) = d
<1> DEFINE r == RuleAt(d, site)
           flipped == [r EXCEPT !.effect = Flip(@)]
           q == FlipRule(d, site)
<1>1. r \in RuleRecords /\ r.id = site
    BY IndexFacts
<1>2. /\ r.effect \in Effects
      /\ r = [id |-> r.id, effect |-> r.effect, target |-> r.target, condition |-> r.condition]
    BY <1>1, RuleFacts
<1>3. Flip(r.effect) \in Effects /\ Flip(Flip(r.effect)) = r.effect
    BY <1>2 DEF Flip, Effects, Permit, Deny
<1>4. flipped \in RuleRecords /\ flipped.id = site /\ [flipped EXCEPT !.effect = Flip(@)] = r
    <2>1. flipped = [id |-> r.id, effect |-> Flip(r.effect), target |-> r.target, condition |-> r.condition]
        BY <1>2
    <2>2. flipped \in RuleRecords
        BY <1>1, <1>3, <2>1, RuleFacts DEF RuleRecords, RulesOf
    <2> QED BY <1>1, <1>2, <1>3, <2>1, <2>2
<1> HIDE DEF flipped
<1>5. q = WithRule(d, site, flipped)
    BY DEF FlipRule, flipped
<1>6. /\ q \in Documents /\ Ids(q) = Ids(d) /\ SameElsewhere(d, site, q)
      /\ RuleAt(q, site) = flipped /\ WithRule(q, site, r) = d
    BY <1>4, <1>5, WithRuleFacts
<1>7. FlipRule(q, site) = d
    BY <1>4, <1>6 DEF FlipRule
<1> QED BY <1>6, <1>7

LEMMA FlippingSound ==
    ASSUME NEW d \in Documents, NEW site \in Ids(d)
    PROVE  Sound("CRE", d, site, RuleEffectFlipping(d, site))
<1> DEFINE q == FlipRule(d, site)
<1>1. q \in Documents /\ Ids(q) = Ids(d) /\ SameElsewhere(d, site, q) /\ FlipRule(q, site) = d
    BY FlippedTwice
<1> HIDE DEF q
<1> QED BY <1>1, OneMade DEF RuleEffectFlipping, q

LEMMA TargetTrueSound ==
    ASSUME NEW d \in Documents, NEW site \in Places(d), NEW method
    PROVE  Sound(method, d, site, TargetTrue(d, site))
<1> DEFINE q == WithTarget(d, site, <<>>)
<1>1. <<>> \in Targets
    BY DEF Targets
<1>2. /\ q \in Documents /\ Ids(q) = Ids(d) /\ SameElsewhere(d, site, q)
      /\ WithTarget(q, site, TargetAt(d, site)) = d
    BY <1>1, WithTargetFacts
<1> HIDE DEF q
<1> QED BY <1>2, OneMade, NothingMade DEF TargetTrue, q

LEMMA TargetFacts ==
    ASSUME NEW t \in Targets, t # <<>>
    PROVE  /\ Len(t) \in Nat /\ DOMAIN t = 1..Len(t) /\ 1 \in DOMAIN t
           /\ \A j \in DOMAIN t :
                 /\ t[j] \in Seq(AllOfs) /\ t[j] # <<>> /\ 1 \in DOMAIN t[j]
                 /\ Len(t[j]) \in Nat /\ DOMAIN t[j] = 1..Len(t[j])
                 /\ \A a \in DOMAIN t[j] :
                       /\ t[j][a] \in Seq(Matches) /\ t[j][a] # <<>> /\ 1 \in DOMAIN t[j][a]
                       /\ Len(t[j][a]) \in Nat /\ DOMAIN t[j][a] = 1..Len(t[j][a])
                       /\ \A m \in DOMAIN t[j][a] : t[j][a][m] \in Matches
<1>1. ASSUME NEW S, NEW s \in Seq(S), s # <<>>
      PROVE  Len(s) \in Nat /\ DOMAIN s = 1..Len(s) /\ 1 \in DOMAIN s /\ \A k \in DOMAIN s : s[k] \in S
    <2>1. Len(s) # 0
        BY <1>1, EmptySeq
    <2> QED BY <1>1, <2>1, SeqFacts
<1>2. /\ Len(t) \in Nat /\ DOMAIN t = 1..Len(t) /\ 1 \in DOMAIN t
      /\ \A j \in DOMAIN t : t[j] \in AnyOfs
    BY <1>1 DEF Targets
<1>3. ASSUME NEW j \in DOMAIN t
      PROVE  /\ t[j] \in Seq(AllOfs) /\ t[j] # <<>> /\ 1 \in DOMAIN t[j]
             /\ Len(t[j]) \in Nat /\ DOMAIN t[j] = 1..Len(t[j])
             /\ \A a \in DOMAIN t[j] : t[j][a] \in AllOfs
    <2>1. t[j] \in Seq(AllOfs) /\ t[j] # <<>>
        BY <1>2 DEF AnyOfs
    <2> QED BY <1>1, <2>1
<1>4. ASSUME NEW allOf \in AllOfs
      PROVE  /\ allOf \in Seq(Matches) /\ allOf # <<>> /\ 1 \in DOMAIN allOf
             /\ Len(allOf) \in Nat /\ DOMAIN allOf = 1..Len(allOf)
             /\ \A m \in DOMAIN allOf : allOf[m] \in Matches
    <2>1. allOf \in Seq(Matches) /\ allOf # <<>>
        BY DEF AllOfs
    <2> QED BY <1>1, <2>1
<1> QED BY <1>2, <1>3, <1>4

\* Another AllOf, and another AnyOf.
LEMMA ExceptFacts ==
    ASSUME NEW S, NEW s \in Seq(S), NEW k \in DOMAIN s, NEW e \in S
    PROVE  [s EXCEPT ![k] = e] \in Seq(S)
<1>1. Len(s) \in Nat /\ DOMAIN s = 1..Len(s) /\ s \in [1..Len(s) -> S]
    BY SeqFacts
<1>2. [s EXCEPT ![k] = e] \in [1..Len(s) -> S]
    BY <1>1
<1> QED BY <1>1, <1>2

LEMMA EqualIsOrdered == "equal" \in ToSet(Ordered)
<1>1. Ordered[1] = "equal" /\ 1 \in DOMAIN Ordered
    BY DEF Ordered
<1> QED BY <1>1 DEF ToSet

LEMMA EqualCompares == \A type : "equal" \in Comparisons(type)
<1>1. ToSet(<<"equal">>) = {"equal"}
    <2>1. <<"equal">>[1] = "equal" /\ DOMAIN <<"equal">> = {1}
        OBVIOUS
    <2> QED BY <2>1 DEF ToSet
<1>2. \A type : Comparisons(type) \in {ToSet(Ordered), ToSet(<<"equal">>)}
    BY DEF Comparisons, Known, ComparisonFunctions
<1> QED BY <1>1, <1>2, EqualIsOrdered

LEMMA ConflictFacts == ASSUME NEW allOf \in AllOfs PROVE Conflict(allOf) \in AllOfs
<1>1. allOf \in Seq(Matches) /\ allOf # <<>> /\ Len(allOf) \in Nat /\ Len(allOf) # 0
    BY SeqFacts, EmptySeq DEF AllOfs
<1> DEFINE m == allOf[1]
           demand(k) == [m EXCEPT !.function = "equal", !.value = UnequalValues(m.type)[k]]
<1>2. m \in Matches
    BY <1>1
<1> HIDE DEF m
<1>3. "equal" \in ToSet(Ordered) /\ "equal" \in Comparisons(m.type)
    BY EqualIsOrdered, EqualCompares
<1>4. UnequalValues(m.type)[1] \in Values /\ UnequalValues(m.type)[2] \in Values
    <2>1. /\ DOMAIN UnequalValues(m.type) = {1, 2}
        BY DEF UnequalValues
    <2>2. m.type \in Types
        BY <1>2 DEF Matches
    <2> QED BY <2>1, <2>2, PoliciesAssumption DEF ToSet
<1>5. demand(1) \in Matches /\ demand(2) \in Matches
    BY <1>2, <1>3, <1>4 DEF Matches
<1>6. Conflict(allOf) = allOf \o <<demand(1), demand(2)>>
    BY DEF Conflict, m
<1> HIDE DEF demand
<1> DEFINE two == <<demand(1), demand(2)>>
<1>7. two \in Seq(Matches) /\ Len(two) = 2
    BY <1>5
<1> HIDE DEF two
<1>8. allOf \o two \in Seq(Matches) /\ Len(allOf \o two) # 0
    BY <1>1, <1>7, ConcatProperties
<1>9. allOf \o two # <<>>
    BY <1>8
<1> QED BY <1>6, <1>8, <1>9 DEF AllOfs, two

\* The target with conflicting demands.
FalseTarget(t) ==
    [j \in DOMAIN t |-> [i \in DOMAIN t[j] |->
        IF <<j, i>> \in Reached(t) THEN Conflict(t[j][i]) ELSE t[j][i]]]

LEMMA FalseTargetFacts ==
    ASSUME NEW t \in Targets, t # <<>>
    PROVE  FalseTarget(t) \in Targets
<1> DEFINE conflicting == FalseTarget(t)
<1>1. ASSUME NEW j \in DOMAIN t PROVE conflicting[j] \in AnyOfs
    <2>1. /\ t[j] \in Seq(AllOfs) /\ t[j] # <<>> /\ 1 \in DOMAIN t[j]
          /\ Len(t[j]) \in Nat /\ DOMAIN t[j] = 1..Len(t[j])
          /\ \A a \in DOMAIN t[j] : t[j][a] \in AllOfs
        BY TargetFacts
    <2>2. \A i \in DOMAIN t[j] : conflicting[j][i] \in AllOfs
        BY <2>1, ConflictFacts DEF FalseTarget
    <2>3. conflicting[j] \in [1..Len(t[j]) -> AllOfs]
        BY <2>1, <2>2 DEF FalseTarget
    <2>4. 1 \in DOMAIN conflicting[j]
        BY <2>1 DEF FalseTarget
    <2> HIDE DEF conflicting
    <2>5. conflicting[j] \in Seq(AllOfs)
        BY <2>1, <2>3
    <2>6. conflicting[j] # <<>>
        BY <2>4
    <2> QED BY <2>5, <2>6 DEF AnyOfs
<1>2. Len(t) \in Nat /\ DOMAIN t = 1..Len(t)
    BY TargetFacts
<1>3. conflicting \in [1..Len(t) -> AnyOfs]
    BY <1>1, <1>2 DEF FalseTarget
<1> HIDE DEF conflicting
<1>4. conflicting \in Targets
    BY <1>2, <1>3 DEF Targets
<1> QED BY <1>4 DEF conflicting

LEMMA TargetFalseSound ==
    ASSUME NEW d \in Documents, NEW site \in Places(d), NEW method
    PROVE  Sound(method, d, site, TargetFalse(d, site))
<1> DEFINE t == TargetAt(d, site)
           reached == Reached(t)
           conflicting == [j \in DOMAIN t |-> [i \in DOMAIN t[j] |->
                              IF <<j, i>> \in reached THEN Conflict(t[j][i]) ELSE t[j][i]]]
           q == WithTarget(d, site, conflicting)
<1>1. t \in Targets
    <2>1. <<>> \in Targets
        BY DEF Targets
    <2> QED BY <2>1, WithTargetFacts
<1>2. CASE t # <<>> /\ ~ \E cell \in reached : ~Known(t[cell[1]][cell[2]][1].type)
    <2> HIDE DEF t, reached
    <2>1. conflicting \in Targets
        BY <1>1, <1>2, FalseTargetFacts DEF FalseTarget, reached
    <2> HIDE DEF conflicting
    <2>2. q \in Documents /\ Ids(q) = Ids(d) /\ SameElsewhere(d, site, q)
        BY <2>1, WithTargetFacts
    <2>3. Sound(method, d, site, Made(Only(q), d))
        <3> HIDE DEF q
        <3> QED BY <2>2, OneMade
    <2>4. TargetFalse(d, site) = Made(Only(q), d)
        BY <1>2 DEF TargetFalse, conflicting, t, reached
    <2> QED BY <2>3, <2>4
<1>3. CASE t = <<>> \/ \E cell \in reached : ~Known(t[cell[1]][cell[2]][1].type)
    <2>1. TargetFalse(d, site) \in {Nothing(d), Thrown(d)}
        BY <1>3, Zenon DEF TargetFalse
    <2> QED BY <2>1, NothingMade
<1> QED BY <1>2, <1>3

LEMMA ConditionFacts ==
    ASSUME NEW c \in Conditions(Forms \cup {"conflict"}), c # <<>>
    PROVE  c = <<c[1]>> /\ c[1] \in Expressions(Forms \cup {"conflict"})
<1> DEFINE C == Expressions(Forms \cup {"conflict"})
<1>1. c \in Seq(C) /\ Len(c) <= 1
    BY DEF Conditions
<1> HIDE DEF C
<1>2. Len(c) \in Nat /\ Len(c) # 0
    BY <1>1, EmptySeq, SeqFacts
<1>3. Len(c) = 1
    <2> DEFINE n == Len(c)
    <2>1. n \in Nat /\ n # 0
        BY <1>2
    <2>2. n <= 1
        BY <1>1
    <2> HIDE DEF n
    <2>3. n = 1
        BY <2>1, <2>2
    <2> QED BY <2>3 DEF n
<1>4. c[1] \in C /\ c = <<c[1]>>
    BY <1>1, <1>3
<1> QED BY <1>4 DEF C

LEMMA ExpressionFacts ==
    ASSUME NEW e \in Expressions(Forms \cup {"conflict"})
    PROVE  /\ e = [nots |-> e.nots, form |-> e.form, function |-> e.function, attribute |-> e.attribute,
                   type |-> e.type]
           /\ e.nots \in Nat /\ e.form \in Forms \cup {"conflict"} /\ e.function \in Comparisons(e.type)
           /\ e.attribute \in Attributes /\ e.type \in Types
           /\ \A n \in Nat :
                 /\ [e EXCEPT !.nots = n] \in Expressions(Forms \cup {"conflict"})
                 /\ [e EXCEPT !.nots = n].nots = n
                 /\ [[e EXCEPT !.nots = n] EXCEPT !.nots = e.nots] = e
           /\ \A f \in Comparisons(e.type) :
                 f \in ToSet(Ordered) => [e EXCEPT !.function = f] \in Expressions(Forms \cup {"conflict"})
    BY DEF Expressions

LEMMA MakeCondition ==
    ASSUME NEW c \in Expressions(Forms \cup {"conflict"})
    PROVE  <<c>> \in Conditions(Forms \cup {"conflict"})
    BY DEF Conditions

LEMMA ConditionMethodsSound ==
    ASSUME NEW d \in Documents, NEW site \in Ids(d), NEW method
    PROVE  /\ Sound(method, d, site, ConditionTrue(d, site))
           /\ Sound(method, d, site, ConditionFalse(d, site))
           /\ Sound(method, d, site, AddNot(d, site))
           /\ Sound(method, d, site, RemoveNot(d, site))
<1> DEFINE c == ConditionAt(d, site)
           C == Expressions(Forms \cup {"conflict"})
<1>1. <<>> \in Conditions(Forms \cup {"conflict"})
    BY DEF Conditions
<1>2. c # <<>> => c[1] \in C
    BY <1>1, WithConditionFacts, ConditionFacts
<1>3. ASSUME NEW other \in Conditions(Forms \cup {"conflict"}), NEW left,
             left = d \/ left = WithCondition(WithCondition(d, site, other), site, c)
      PROVE  Sound(method, d, site, Made(Only(WithCondition(d, site, other)), left))
    <2> DEFINE q == WithCondition(d, site, other)
    <2>1. q \in Documents /\ Ids(q) = Ids(d) /\ SameElsewhere(d, site, q) /\ left = d
        BY <1>3, WithConditionFacts
    <2> HIDE DEF q
    <2> QED BY <2>1, OneMade DEF q
<1>4. Sound(method, d, site, ConditionTrue(d, site))
    BY <1>1, <1>3, NothingMade DEF ConditionTrue
<1> HIDE DEF C
<1>5. Sound(method, d, site, ConditionFalse(d, site))
    <2> DEFINE false == [c[1] EXCEPT !.nots = 0, !.form = "conflict", !.function = "equal"]
    <2>1. CASE c = <<>> \/ ~Known(c[1].type)
        BY <2>1, NothingMade DEF ConditionFalse
    <2>2. CASE c # <<>> /\ Known(c[1].type)
        <3>1. <<false>> \in Conditions(Forms \cup {"conflict"})
            <4>1. /\ c[1] \in C /\ "equal" \in ToSet(Ordered) /\ "conflict" \in Forms \cup {"conflict"}
                  /\ "equal" \in Comparisons(c[1].type)
                BY <1>2, <2>2, EqualIsOrdered, EqualCompares
            <4>3. false \in C
                BY <4>1 DEF C, Expressions
            <4> HIDE DEF false
            <4> QED BY <4>3, MakeCondition DEF C
        <3>2. ConditionFalse(d, site) =
                 Made(Only(WithCondition(d, site, <<false>>)),
                      WithCondition(WithCondition(d, site, <<false>>), site, c))
            BY <2>2 DEF ConditionFalse
        <3> HIDE DEF false
        <3> QED BY <1>3, <3>1, <3>2
    <2> QED BY <2>1, <2>2
<1>6. Sound(method, d, site, AddNot(d, site))
    <2> DEFINE more == [c[1] EXCEPT !.nots = @ + 1]
    <2>1. CASE c = <<>>
        BY <2>1, NothingMade DEF AddNot
    <2>2. CASE c # <<>>
        <3>1. <<more>> \in Conditions(Forms \cup {"conflict"})
            <4>0. c[1] \in C /\ c[1].nots \in Nat
                BY <1>2, <2>2, ExpressionFacts DEF C
            <4>1. c[1] \in C /\ c[1].nots + 1 \in Nat
                BY <4>0
            <4>2. more \in C
                BY <4>1, ExpressionFacts DEF C
            <4> HIDE DEF more
            <4> QED BY <4>2, MakeCondition DEF C
        <3>2. AddNot(d, site) = Made(Only(WithCondition(d, site, <<more>>)), d)
            BY <2>2 DEF AddNot
        <3> HIDE DEF more
        <3> QED BY <1>3, <3>1, <3>2
    <2> QED BY <2>1, <2>2
<1>7. Sound(method, d, site, RemoveNot(d, site))
    <2> DEFINE less == [c[1] EXCEPT !.nots = @ - 1]
    <2>1. CASE c = <<>> \/ c[1].nots = 0
        BY <2>1, NothingMade DEF RemoveNot
    <2>2. CASE c # <<>> /\ c[1].nots # 0
        <3>1. <<less>> \in Conditions(Forms \cup {"conflict"})
            <4>1. c[1].nots - 1 \in Nat
                <5>1. c[1].nots \in Nat
                    BY <1>2, <2>2, ExpressionFacts DEF C
                <5> QED BY <2>2, <5>1
            <4>2. less \in C
                BY <1>2, <2>2, <4>1, ExpressionFacts DEF C
            <4> HIDE DEF less
            <4> QED BY <4>2, MakeCondition DEF C
        <3>2. RemoveNot(d, site) = Made(Only(WithCondition(d, site, <<less>>)), d)
            BY <2>2 DEF RemoveNot
        <3> HIDE DEF less
        <3> QED BY <1>3, <3>1, <3>2
    <2> QED BY <2>1, <2>2
<1> QED BY <1>4, <1>5, <1>6, <1>7

\* The functions a comparison is changed to, each once.
LEMMA ComparisonsFacts ==
    ASSUME NEW type, Known(type)
    PROVE  /\ ComparisonFunctions[type] \in Seq(Comparisons(type)) /\ Comparisons(type) \subseteq ToSet(Ordered)
           /\ ToSet(ComparisonFunctions[type]) = Comparisons(type)
           /\ \A k, l \in DOMAIN ComparisonFunctions[type] :
                 ComparisonFunctions[type][k] = ComparisonFunctions[type][l] => k = l
<1>1. ComparisonFunctions[type] \in {Ordered, <<"equal">>} /\ Comparisons(type) = ToSet(ComparisonFunctions[type])
    BY DEF Known, ComparisonFunctions, Comparisons
<1>2. CASE ComparisonFunctions[type] = Ordered
    <2>1. DOMAIN Ordered = 1..5 /\ Ordered = [k \in 1..5 |-> Ordered[k]]
        BY DEF Ordered
    <2>2. \A k \in 1..5 : Ordered[k] \in ToSet(Ordered)
        BY <2>1 DEF ToSet
    <2>3. Ordered \in Seq(ToSet(Ordered))
        BY <2>1, <2>2
    <2>4. \A k, l \in 1..5 : Ordered[k] = Ordered[l] => k = l
        BY DEF Ordered
    <2> QED BY <1>1, <1>2, <2>1, <2>3, <2>4
<1>3. CASE ComparisonFunctions[type] = <<"equal">>
    <2>1. DOMAIN <<"equal">> = {1} /\ <<"equal">>[1] = "equal"
        OBVIOUS
    <2>2. ToSet(<<"equal">>) = {"equal"}
        BY <2>1 DEF ToSet
    <2>3. <<"equal">> \in Seq({"equal"})
        OBVIOUS
    <2> QED BY <1>1, <1>3, <2>1, <2>2, <2>3, EqualIsOrdered
<1> QED BY <1>1, <1>2, <1>3

LEMMA CountedApart ==
    ASSUME NEW made, NEW start \in Nat,
           \A k \in DOMAIN made : k \in Nat /\ made[k].counts = <<start + k - 1>>
    PROVE  CountsDiffer(made)
<1> SUFFICES ASSUME NEW k \in DOMAIN made, NEW l \in DOMAIN made, made[k].counts = made[l].counts
             PROVE  k = l
    BY DEF CountsDiffer
<1>1. <<start + k - 1>>[1] = <<start + l - 1>>[1]
    OBVIOUS
<1>2. start + k - 1 = start + l - 1 /\ k \in Nat /\ l \in Nat
    BY <1>1
<1> QED BY <1>2

LEMMA CombiningAlgorithmSound ==
    ASSUME NEW d \in Documents, NEW method
    PROVE  Sound(method, d, PolicyTarget, CombiningAlgorithm(d))
<1> DEFINE others == Others(RuleCombiningAlgorithms, d.alg)
           S == ToSet(RuleCombiningAlgorithms)
           M == MadeAt(method, d, PolicyTarget)
           made == [k \in DOMAIN others |-> [policy |-> [d EXCEPT !.alg = others[k]], counts |-> <<k - 1>>]]
<1>1. RuleCombiningAlgorithms \in Seq(S)
    <2>1. Len(RuleCombiningAlgorithms) = 7 /\ DOMAIN RuleCombiningAlgorithms = 1..7
        BY DEF RuleCombiningAlgorithms
    <2>2. \A k \in 1..7 : RuleCombiningAlgorithms[k] \in S
        BY <2>1 DEF ToSet
    <2>3. RuleCombiningAlgorithms = [k \in 1..7 |-> RuleCombiningAlgorithms[k]]
        BY DEF RuleCombiningAlgorithms
    <2> HIDE DEF S
    <2> QED BY <2>2, <2>3
<1> HIDE DEF S
<1>2. others \in Seq(S)
    BY <1>1, OthersFacts
<1> HIDE DEF others
<1>3. Len(others) \in Nat /\ DOMAIN others = 1..Len(others) /\ \A k \in DOMAIN others : others[k] \in S
    BY <1>2, SeqFacts
<1>4. ASSUME NEW k \in DOMAIN others
      PROVE  [policy |-> [d EXCEPT !.alg = others[k]], counts |-> <<k - 1>>] \in M
    <2> DEFINE q == [d EXCEPT !.alg = others[k]]
    <2>1. d = [alg |-> d.alg, target |-> d.target, rules |-> d.rules]
        BY DocumentFacts
    <2>2. q = [alg |-> others[k], target |-> d.target, rules |-> d.rules]
        BY <2>1
    <2>3. q \in Documents
        BY <1>3, <2>2, DocumentFacts DEF Documents, PoliciesOf, RuleRecords, S
    <2>4. Ids(q) = Ids(d) /\ SameElsewhere(d, PolicyTarget, q)
        BY <2>2 DEF Ids, SameElsewhere
    <2>5. <<k - 1>> \in Seq(Nat)
        BY <1>3
    <2> HIDE DEF q
    <2> QED BY <2>3, <2>4, <2>5 DEF MadeAt, q
<1> HIDE DEF M
<1>5. made \in [1..Len(others) -> M]
    BY <1>3, <1>4
<1>6. CountsDiffer(made)
    <2>1. \A k \in DOMAIN made : k \in Nat /\ made[k].counts = <<0 + k - 1>>
        BY <1>3
    <2> HIDE DEF made
    <2> QED BY <2>1, CountedApart
<1> HIDE DEF made
<1>7. made \in Seq(M)
    BY <1>3, <1>5
<1> QED BY <1>6, <1>7 DEF Sound, Made, CombiningAlgorithm, made, others, M

LEMMA FunctionReplaced ==
    ASSUME NEW t \in Targets, t # <<>>, NEW f \in ToSet(Ordered), f \in Comparisons(t[1][1][1].type)
    PROVE  [t EXCEPT ![1][1][1].function = f] \in Targets
<1> DEFINE m == [t[1][1][1] EXCEPT !.function = f]
           allOf == [t[1][1] EXCEPT ![1] = m]
           anyOf == [t[1] EXCEPT ![1] = allOf]
           new == [t EXCEPT ![1] = anyOf]
<1>1. /\ 1 \in DOMAIN t /\ 1 \in DOMAIN t[1] /\ 1 \in DOMAIN t[1][1]
      /\ t[1] \in Seq(AllOfs) /\ t[1] # <<>> /\ t[1][1] \in Seq(Matches) /\ t[1][1] # <<>>
      /\ t[1][1][1] \in Matches
    BY TargetFacts
<1>2. m \in Matches
    BY <1>1 DEF Matches
<1> HIDE DEF m
<1>3. allOf \in AllOfs
    <2>1. allOf \in Seq(Matches)
        BY <1>1, <1>2, ExceptFacts
    <2>2. 1 \in DOMAIN allOf
        BY <1>1
    <2> HIDE DEF allOf
    <2>3. allOf # <<>>
        BY <2>2
    <2> QED BY <2>1, <2>3 DEF AllOfs
<1> HIDE DEF allOf
<1>4. anyOf \in AnyOfs
    <2>1. anyOf \in Seq(AllOfs)
        BY <1>1, <1>3, ExceptFacts
    <2>2. 1 \in DOMAIN anyOf
        BY <1>1
    <2> HIDE DEF anyOf
    <2>3. anyOf # <<>>
        BY <2>2
    <2> QED BY <2>1, <2>3 DEF AnyOfs
<1> HIDE DEF anyOf
<1>5. new \in Targets
    <2>1. t \in Seq(AnyOfs)
        BY DEF Targets
    <2> HIDE DEF new
    <2>2. [t EXCEPT ![1] = anyOf] \in Seq(AnyOfs)
        BY <1>1, <1>4, <2>1, ExceptFacts
    <2> QED BY <2>2 DEF Targets, new
<1>6. [t EXCEPT ![1][1][1].function = f] = new
    BY DEF new, anyOf, allOf, m
<1> QED BY <1>5, <1>6

LEMMA TargetComparisonsSound ==
    ASSUME NEW d \in Documents, NEW site \in Places(d), NEW method
    PROVE  /\ Sound(method, d, site, TargetComparisons(d, site))
           /\ \A k \in DOMAIN TargetComparisons(d, site).made :
                  k \in Nat /\ TargetComparisons(d, site).made[k].counts = <<k - 1>>
<1> DEFINE t == TargetAt(d, site)
           match == t[1][1][1]
           others == Others(ComparisonFunctions[match.type], match.function)
           M == MadeAt(method, d, site)
           made == [k \in DOMAIN others |->
                       [policy |-> WithTarget(d, site, [t EXCEPT ![1][1][1].function = others[k]]),
                        counts |-> <<k - 1>>]]
<1>1. t \in Targets
    <2>1. <<>> \in Targets
        BY DEF Targets
    <2> QED BY <2>1, WithTargetFacts
<1>2. CASE t # <<>> /\ Known(match.type)
    <2>1. others \in Seq(Comparisons(match.type)) /\ Comparisons(match.type) \subseteq ToSet(Ordered)
        BY <1>2, ComparisonsFacts, OthersFacts
    <2> HIDE DEF others, t
    <2>2. /\ Len(others) \in Nat /\ DOMAIN others = 1..Len(others)
          /\ \A k \in DOMAIN others : others[k] \in ToSet(Ordered) /\ others[k] \in Comparisons(match.type)
        BY <2>1, SeqFacts
    <2>3. ASSUME NEW k \in DOMAIN others
          PROVE  [policy |-> WithTarget(d, site, [t EXCEPT ![1][1][1].function = others[k]]),
                  counts |-> <<k - 1>>] \in M
        <3> DEFINE new == [t EXCEPT ![1][1][1].function = others[k]]
                   q == WithTarget(d, site, new)
        <3>1. new \in Targets
            BY <1>1, <1>2, <2>2, FunctionReplaced
        <3> HIDE DEF new
        <3>2. q \in Documents /\ Ids(q) = Ids(d) /\ SameElsewhere(d, site, q)
            BY <3>1, WithTargetFacts
        <3>3. <<k - 1>> \in Seq(Nat)
            BY <2>2
        <3> HIDE DEF q
        <3> QED BY <3>2, <3>3 DEF MadeAt, q, new
    <2> HIDE DEF M
    <2>4. made \in [1..Len(others) -> M]
        BY <2>2, <2>3
    <2>0. \A k \in DOMAIN made :
              k \in Nat /\ made[k].counts = <<k - 1>> /\ made[k].counts = <<0 + k - 1>>
        BY <2>2
    <2> HIDE DEF made
    <2>5. made \in Seq(M)
        BY <2>2, <2>4
    <2>6. TargetComparisons(d, site) = Made(made, d)
        BY <1>2 DEF TargetComparisons, made, others, t
    <2>7. CountsDiffer(made)
        BY <2>0, CountedApart
    <2> QED BY <2>0, <2>5, <2>6, <2>7 DEF Sound, Made, M
<1>3. CASE t = <<>> \/ ~Known(match.type)
    <2>1. TargetComparisons(d, site) \in {Nothing(d), Thrown(d)}
        BY <1>3, Zenon DEF TargetComparisons
    <2>2. TargetComparisons(d, site).made = <<>>
        BY <2>1 DEF Nothing, Thrown, Made
    <2>3. DOMAIN TargetComparisons(d, site).made = {}
        BY <2>2
    <2>4. Sound(method, d, site, TargetComparisons(d, site))
        BY <2>1, NothingMade
    <2> QED BY <2>3, <2>4, Zenon
<1> QED BY <1>2, <1>3

LEMMA ConditionComparisonsSound ==
    ASSUME NEW d \in Documents, NEW site \in Ids(d), NEW method, NEW start \in Nat
    PROVE  /\ Sound(method, d, site, ConditionComparisons(d, site, start))
           /\ \A k \in DOMAIN ConditionComparisons(d, site, start).made :
                  /\ k \in Nat
                  /\ ConditionComparisons(d, site, start).made[k].counts = <<start + k - 1>>
<1> DEFINE c == ConditionAt(d, site)
           others == Others(ComparisonFunctions[c[1].type], c[1].function)
           M == MadeAt(method, d, site)
           made == [k \in DOMAIN others |->
                       [policy |-> WithCondition(d, site, <<[c[1] EXCEPT !.function = others[k]]>>),
                        counts |-> <<start + k - 1>>]]
           C == Expressions(Forms \cup {"conflict"})
<1>1. c # <<>> => c[1] \in C
    <2>1. <<>> \in Conditions(Forms \cup {"conflict"})
        BY DEF Conditions
    <2> QED BY <2>1, WithConditionFacts, ConditionFacts
<1>2. CASE c # <<>> /\ c[1].form = "bags" /\ Known(c[1].type)
    <2>1. others \in Seq(Comparisons(c[1].type)) /\ Comparisons(c[1].type) \subseteq ToSet(Ordered)
        BY <1>2, ComparisonsFacts, OthersFacts
    <2> HIDE DEF others, c
    <2>2. /\ Len(others) \in Nat /\ DOMAIN others = 1..Len(others)
          /\ \A k \in DOMAIN others : others[k] \in ToSet(Ordered) /\ others[k] \in Comparisons(c[1].type)
        BY <2>1, SeqFacts
    <2>3. ASSUME NEW k \in DOMAIN others
          PROVE  [policy |-> WithCondition(d, site, <<[c[1] EXCEPT !.function = others[k]]>>),
                  counts |-> <<start + k - 1>>] \in M
        <3> DEFINE new == [c[1] EXCEPT !.function = others[k]]
                   q == WithCondition(d, site, <<new>>)
        <3>1. new \in C
            BY <1>1, <1>2, <2>2, ExpressionFacts DEF C
        <3> HIDE DEF new
        <3>2. <<new>> \in Conditions(Forms \cup {"conflict"})
            BY <3>1, MakeCondition
        <3>3. q \in Documents /\ Ids(q) = Ids(d) /\ SameElsewhere(d, site, q)
            BY <3>2, WithConditionFacts
        <3>4. <<start + k - 1>> \in Seq(Nat)
            BY <2>2
        <3> HIDE DEF q
        <3> QED BY <3>3, <3>4 DEF MadeAt, q, new
    <2> HIDE DEF M
    <2>4. made \in [1..Len(others) -> M]
        BY <2>2, <2>3
    <2>0. \A k \in DOMAIN made : k \in Nat /\ made[k].counts = <<start + k - 1>>
        BY <2>2
    <2> HIDE DEF made
    <2>5. made \in Seq(M)
        BY <2>2, <2>4
    <2>6. ConditionComparisons(d, site, start) = Made(made, d)
        BY <1>2 DEF ConditionComparisons, made, others, c
    <2>7. CountsDiffer(made)
        BY <2>0, CountedApart
    <2> QED BY <2>0, <2>5, <2>6, <2>7 DEF Sound, Made, M
<1>3. CASE c = <<>> \/ c[1].form # "bags" \/ ~Known(c[1].type)
    <2>1. ConditionComparisons(d, site, start) \in {Nothing(d), Thrown(d)}
        BY <1>3, Zenon DEF ConditionComparisons
    <2>2. ConditionComparisons(d, site, start).made = <<>>
        BY <2>1 DEF Nothing, Thrown, Made
    <2>3. DOMAIN ConditionComparisons(d, site, start).made = {}
        BY <2>2
    <2>4. Sound(method, d, site, ConditionComparisons(d, site, start))
        BY <2>1, NothingMade
    <2> QED BY <2>3, <2>4, Zenon
<1> QED BY <1>2, <1>3

LEMMA RuleComparisonsSound ==
    ASSUME NEW d \in Documents, NEW site \in Ids(d), NEW method
    PROVE  Sound(method, d, site, RuleComparisons(d, site))
<1> DEFINE M == MadeAt(method, d, site)
           ofTarget == TargetComparisons(d, site)
           ofCondition == ConditionComparisons(d, site, StartCount(ofTarget.made))
           made == ofTarget.made \o ofCondition.made
<1>1. /\ ofTarget.made \in Seq(M) /\ ofTarget.threw \in BOOLEAN
      /\ \A k \in DOMAIN ofTarget.made : k \in Nat /\ ofTarget.made[k].counts = <<k - 1>>
    BY TargetComparisonsSound DEF Sound, Places
<1> HIDE DEF ofTarget
<1>a. StartCount(ofTarget.made) = Len(ofTarget.made) /\ Len(ofTarget.made) \in Nat
    BY <1>1, SeqFacts DEF StartCount
<1>2. /\ ofCondition.made \in Seq(M) /\ ofCondition.threw \in BOOLEAN
      /\ \A k \in DOMAIN ofCondition.made :
             k \in Nat /\ ofCondition.made[k].counts = <<Len(ofTarget.made) + k - 1>>
    <2> DEFINE start == StartCount(ofTarget.made)
    <2>1. start \in Nat /\ start = Len(ofTarget.made)
        BY <1>a
    <2> HIDE DEF start
    <2>2. /\ Sound(method, d, site, ConditionComparisons(d, site, start))
          /\ \A k \in DOMAIN ConditionComparisons(d, site, start).made :
                 k \in Nat /\ ConditionComparisons(d, site, start).made[k].counts = <<start + k - 1>>
        BY <2>1, ConditionComparisonsSound
    <2>3. ofCondition = ConditionComparisons(d, site, start)
        BY DEF start
    <2> HIDE DEF ofCondition
    <2> QED BY <2>1, <2>2, <2>3 DEF Sound
<1> HIDE DEF ofCondition, M
<1>3. /\ made \in Seq(M) /\ Len(made) = Len(ofTarget.made) + Len(ofCondition.made)
      /\ \A k \in 1..Len(made) :
             made[k] = IF k <= Len(ofTarget.made) THEN ofTarget.made[k]
                       ELSE ofCondition.made[k - Len(ofTarget.made)]
    <2> DEFINE l == ofTarget.made
               h == ofCondition.made
    <2>1. l \in Seq(M) /\ h \in Seq(M)
        BY <1>1, <1>2
    <2> HIDE DEF l, h
    <2>2. /\ l \o h \in Seq(M) /\ Len(l \o h) = Len(l) + Len(h)
          /\ \A k \in 1..Len(l) + Len(h) : (l \o h)[k] = IF k <= Len(l) THEN l[k] ELSE h[k - Len(l)]
        BY <2>1, ConcatProperties
    <2>3. made = l \o h
        BY DEF made, l, h
    <2> HIDE DEF made
    <2>4. \A k \in 1..Len(made) : made[k] = IF k <= Len(l) THEN l[k] ELSE h[k - Len(l)]
        BY <2>2, <2>3
    <2> QED BY <2>2, <2>3, <2>4 DEF l, h
<1> HIDE DEF made
<1>b. \A k \in DOMAIN made : k \in Nat /\ made[k].counts = <<0 + k - 1>>
    <2> DEFINE n == Len(ofTarget.made)
               m == Len(ofCondition.made)
    <2>1. /\ n \in Nat /\ m \in Nat /\ DOMAIN made = 1..n + m
          /\ DOMAIN ofTarget.made = 1..n /\ DOMAIN ofCondition.made = 1..m
        BY <1>1, <1>2, <1>3, SeqFacts
    <2>2. \A k \in 1..n + m : made[k] = IF k <= n THEN ofTarget.made[k] ELSE ofCondition.made[k - n]
        BY <1>3, <2>1
    <2>3. \A k \in 1..m : ofCondition.made[k].counts = <<n + k - 1>>
        BY <1>2, <2>1
    <2> HIDE DEF n, m
    <2>4. ASSUME NEW k \in 1..n + m PROVE k \in Nat /\ made[k].counts = <<0 + k - 1>>
        <3>0. k \in Nat /\ 0 + k - 1 = k - 1
            BY <2>1
        <3>1. CASE k <= n
            <4>1. k \in 1..n
                BY <2>1, <3>1
            <4> QED BY <1>1, <2>1, <2>2, <3>0, <3>1, <4>1
        <3>2. CASE ~(k <= n)
            <4>1. k - n \in 1..m /\ n + (k - n) - 1 = 0 + k - 1
                BY <2>1, <3>2
            <4>2. ofCondition.made[k - n].counts = <<n + (k - n) - 1>>
                BY <2>3, <4>1
            <4> QED BY <2>2, <3>0, <3>2, <4>1, <4>2
        <3> QED BY <3>1, <3>2
    <2> QED BY <2>1, <2>4
<1>4. Sound(method, d, site, Made(made, d))
    BY <1>3, <1>b, CountedApart DEF Sound, Made, M
<1>5. RuleComparisons(d, site) =
         IF ofTarget.threw \/ ofCondition.threw THEN Thrown(d)
         ELSE Made(made, d)
    BY DEF RuleComparisons, ofTarget, ofCondition, made
<1> QED BY <1>4, <1>5, NothingMade

\* No two rules have one id.
Distinct(rules) ==
    \A k, l \in DOMAIN rules : Site(rules[k]) = Site(rules[l]) => k = l
IdsOf(rules) == {Site(rules[k]) : k \in DOMAIN rules}

LEMMA RemoveDistinct ==
    ASSUME NEW rules \in Seq(RuleRecords), Distinct(rules), NEW k \in 1..Len(rules)
    PROVE  /\ Distinct(RemoveAt(rules, k)) /\ IdsOf(RemoveAt(rules, k)) \subseteq IdsOf(rules)
           /\ Site(rules[k]) \notin IdsOf(RemoveAt(rules, k))
<1> DEFINE r == RemoveAt(rules, k)
           from(i) == IF i < k THEN i ELSE i + 1
<1>1. /\ Len(rules) \in Nat /\ DOMAIN rules = 1..Len(rules)
      /\ r \in Seq(RuleRecords) /\ Len(r) = Len(rules) - 1 /\ DOMAIN r = 1..Len(rules) - 1
      /\ \A i \in 1..Len(rules) - 1 : r[i] = IF i < k THEN rules[i] ELSE rules[i + 1]
    <2>1. r \in Seq(RuleRecords) /\ Len(r) = Len(rules) - 1
        BY RemoveFacts
    <2> QED BY <2>1, RemoveFacts, SeqFacts
<1> HIDE DEF r
<1>2. \A i \in DOMAIN r : r[i] = rules[from(i)]
    BY <1>1
<1>3. \A i \in DOMAIN r : from(i) \in DOMAIN rules /\ from(i) # k
    BY <1>1
<1>4. \A i, j \in DOMAIN r : from(i) = from(j) => i = j
    BY <1>1
<1> HIDE DEF from
<1>5. Distinct(r)
    BY <1>2, <1>3, <1>4 DEF Distinct
<1>6. IdsOf(r) \subseteq IdsOf(rules)
    BY <1>2, <1>3 DEF IdsOf
<1>7. Site(rules[k]) \notin IdsOf(r)
    BY <1>1, <1>2, <1>3 DEF IdsOf, Distinct
<1> QED BY <1>5, <1>6, <1>7 DEF r

LEMMA InsertDistinct ==
    ASSUME NEW rules \in Seq(RuleRecords), Distinct(rules), NEW k \in 1..Len(rules) + 1, NEW e \in RuleRecords,
           Site(e) \notin IdsOf(rules)
    PROVE  /\ Distinct(InsertAt(rules, k, e))
           /\ IdsOf(InsertAt(rules, k, e)) \subseteq IdsOf(rules) \cup {Site(e)}
<1> DEFINE r == InsertAt(rules, k, e)
           from(i) == IF i < k THEN i ELSE i - 1
<1>1. /\ Len(rules) \in Nat /\ DOMAIN rules = 1..Len(rules) /\ DOMAIN r = 1..Len(rules) + 1
      /\ \A i \in 1..Len(rules) + 1 :
             r[i] = IF i < k THEN rules[i] ELSE IF i = k THEN e ELSE rules[i - 1]
    <2>1. /\ r \in Seq(RuleRecords) /\ Len(r) = Len(rules) + 1
          /\ \A i \in 1..Len(rules) + 1 :
                 r[i] = IF i < k THEN rules[i] ELSE IF i = k THEN e ELSE rules[i - 1]
        BY InsertFacts, SMTT(30)
    <2> HIDE DEF r
    <2>2. DOMAIN r = 1..Len(r) /\ Len(rules) \in Nat /\ DOMAIN rules = 1..Len(rules)
        BY <2>1, SeqFacts
    <2> QED BY <2>1, <2>2
<1> HIDE DEF r
<1>2. \A i \in DOMAIN r : r[i] = IF i = k THEN e ELSE rules[from(i)]
    BY <1>1
<1>3. \A i \in DOMAIN r : i # k => from(i) \in DOMAIN rules
    BY <1>1
<1>4. \A i, j \in DOMAIN r : i # k /\ j # k /\ from(i) = from(j) => i = j
    BY <1>1
<1> HIDE DEF from
<1>5. \A i \in DOMAIN r : i # k => Site(r[i]) \in IdsOf(rules)
    BY <1>2, <1>3 DEF IdsOf
<1>6. \A i \in DOMAIN r : i = k => Site(r[i]) = Site(e)
    BY <1>2
<1>7. IdsOf(r) \subseteq IdsOf(rules) \cup {Site(e)}
    BY <1>5, <1>6 DEF IdsOf
<1>8. ASSUME NEW i \in DOMAIN r, NEW j \in DOMAIN r, Site(r[i]) = Site(r[j]) PROVE i = j
    <2>1. CASE i = k \/ j = k
        BY <1>5, <1>6, <1>8, <2>1
    <2>2. CASE i # k /\ j # k
        BY <1>2, <1>3, <1>4, <1>8, <2>2 DEF Distinct
    <2> QED BY <2>1, <2>2
<1>9. Distinct(r)
    BY <1>8 DEF Distinct
<1> QED BY <1>7, <1>9 DEF r

LEMMA RulesOfDocument ==
    ASSUME NEW d \in Documents
    PROVE  /\ d.rules \in Seq(RuleRecords) /\ Distinct(d.rules) /\ IdsOf(d.rules) = Ids(d)
           /\ Len(d.rules) \in Nat /\ DOMAIN d.rules = 1..Len(d.rules)
           /\ WithRules(d, d.rules) = d
    <1>1. /\ d.rules \in Seq(RuleRecords) /\ Distinct(d.rules) /\ IdsOf(d.rules) = Ids(d)
          /\ Len(d.rules) \in Nat /\ DOMAIN d.rules = 1..Len(d.rules)
        BY DocumentFacts DEF Distinct, IdsOf, Ids
    <1>2. d = [alg |-> d.alg, target |-> d.target, rules |-> d.rules]
        BY DocumentFacts
    <1>3. WithRules(d, d.rules) = [alg |-> d.alg, target |-> d.target, rules |-> d.rules]
        BY <1>2 DEF WithRules
    <1> QED BY <1>1, <1>2, <1>3

\* The document of some rules.
LEMMA RulesMade ==
    ASSUME NEW d \in Documents, NEW rules \in Seq(RuleRecords), Distinct(rules)
    PROVE  /\ WithRules(d, rules) \in Documents /\ Ids(WithRules(d, rules)) = IdsOf(rules)
           /\ WithRules(d, rules).rules = rules
    BY WithRulesFacts DEF Distinct, IdsOf, Ids

LEMMA RemoveRuleSound ==
    ASSUME NEW d \in Documents, NEW site \in Ids(d)
    PROVE  Sound("RER", d, site, RemoveRule(d, site))
<1> DEFINE k == IndexOf(d, site)
           removed == RemoveAt(d.rules, k)
           left == WithRules(d, InsertAt(removed, k, RuleAt(d, site)))
           q == WithRules(d, removed)
<1>1. /\ d.rules \in Seq(RuleRecords) /\ Distinct(d.rules) /\ IdsOf(d.rules) = Ids(d)
      /\ k \in 1..Len(d.rules) /\ RuleAt(d, site) = d.rules[k]
    BY RulesOfDocument, IndexFacts
<1>2. left = d
    BY <1>1, Reinserted, RulesOfDocument
<1>3. removed \in Seq(RuleRecords) /\ Distinct(removed) /\ IdsOf(removed) \subseteq Ids(d)
    BY <1>1, RemoveFacts, RemoveDistinct
<1> HIDE DEF removed, left
<1>4. q \in Documents /\ Ids(q) \subseteq Ids(d)
    BY <1>3, RulesMade
<1>5. RemoveRule(d, site) = Made(Only(q), left)
    BY DEF RemoveRule, q, left, removed
<1> HIDE DEF q
<1> QED BY <1>2, <1>4, <1>5, OneMade DEF Shifting

LEMMA NewIdFacts ==
    ASSUME NEW d, ~(NewRuleIds \subseteq Ids(d))
    PROVE  NewRuleId(d) \in NewRuleIds /\ NewRuleId(d) \notin Ids(d) /\ NewRuleId(d) \in RuleIds
<1> DEFINE id == NewRuleId(d)
<1>1. id = CHOOSE new \in NewRuleIds : new \notin Ids(d)
    BY DEF NewRuleId, Ids
<1>2. \E new \in NewRuleIds : new \notin Ids(d)
    OBVIOUS
<1> HIDE DEF id
<1>3. id \in NewRuleIds /\ id \notin Ids(d)
    BY <1>1, <1>2
<1> QED BY <1>3, PoliciesAssumption DEF id

LEMMA NewRuleFacts ==
    ASSUME NEW d \in Documents, NEW site \in Ids(d), ~(NewRuleIds \subseteq Ids(d))
    PROVE  LET clone == [RuleAt(d, site) EXCEPT !.id = NewRuleId(d)]
               flipped == [clone EXCEPT !.effect = Flip(@)]
               bare == [clone EXCEPT !.target = <<>>]
           IN  /\ flipped \in RuleRecords /\ Site(flipped) = NewRuleId(d)
               /\ bare \in RuleRecords /\ Site(bare) = NewRuleId(d)
<1> DEFINE id == NewRuleId(d)
           r == RuleAt(d, site)
           clone == [r EXCEPT !.id = id]
           flipped == [clone EXCEPT !.effect = Flip(@)]
           bare == [clone EXCEPT !.target = <<>>]
<1>1. r \in RuleRecords /\ id \in RuleIds
    BY IndexFacts, NewIdFacts
<1> HIDE DEF id, r
<1>2. clone \in RuleRecords /\ Site(clone) = id
    BY <1>1 DEF RuleRecords, RulesOf, Site
<1> HIDE DEF clone
<1>3. flipped \in RuleRecords /\ Site(flipped) = id
    <2>1. Flip(clone.effect) \in Effects
        BY DEF Flip, Effects, Permit, Deny
    <2> QED BY <1>2, <2>1 DEF RuleRecords, RulesOf, Site
<1>4. bare \in RuleRecords /\ Site(bare) = id
    <2>1. <<>> \in Targets
        BY DEF Targets
    <2> QED BY <1>2, <2>1 DEF RuleRecords, RulesOf, Site
<1> QED BY <1>3, <1>4 DEF clone, r, id

LEMMA AddNewRuleSound ==
    ASSUME NEW d \in Documents, NEW site \in Ids(d), ~(NewRuleIds \subseteq Ids(d))
    PROVE  Sound("ANR", d, site, AddNewRule(d, site))
<1> DEFINE k == IndexOf(d, site)
           id == NewRuleId(d)
           r == RuleAt(d, site)
           clone == [r EXCEPT !.id = id]
           flipped == [clone EXCEPT !.effect = Flip(@)]
           bare == [clone EXCEPT !.target = <<>>]
           before(rule) == WithRules(d, InsertAt(d.rules, k, rule))
           M == MadeAt("ANR", d, site)
<1>1. /\ d.rules \in Seq(RuleRecords) /\ Distinct(d.rules) /\ IdsOf(d.rules) = Ids(d)
      /\ k \in 1..Len(d.rules) + 1 /\ r \in RuleRecords
    BY RulesOfDocument, IndexFacts
<1>2. id \notin Ids(d)
    BY NewIdFacts
<1>3. flipped \in RuleRecords /\ Site(flipped) = id /\ bare \in RuleRecords /\ Site(bare) = id
    BY NewRuleFacts
<1> HIDE DEF id, clone
<1>6. ASSUME NEW rule \in RuleRecords, Site(rule) = id
      PROVE  Only(before(rule)) \in Seq(M)
    <2> DEFINE rules == InsertAt(d.rules, k, rule)
    <2>1. rules \in Seq(RuleRecords) /\ Distinct(rules) /\ IdsOf(rules) \subseteq Ids(d) \cup {id}
        BY <1>1, <1>2, <1>6, InsertFacts, InsertDistinct
    <2> HIDE DEF rules
    <2> DEFINE q == WithRules(d, rules)
    <2>2. q \in Documents /\ Ids(q) \subseteq Ids(d) \cup {NewRuleId(d)}
        BY <2>1, RulesMade DEF id
    <2> HIDE DEF q
    <2>3. [policy |-> q, counts |-> <<>>] \in M
        BY <2>2 DEF MadeAt, Shifting
    <2> HIDE DEF M
    <2> QED BY <2>3 DEF Only, Numbered, q, rules
<1> HIDE DEF M, flipped, bare, k
<1> DEFINE second == IF clone.target = <<>> THEN <<>> ELSE Only(before(bare))
           made == Only(before(flipped)) \o second
<1>7. Only(before(flipped)) \in Seq(M) /\ Only(before(bare)) \in Seq(M)
    BY <1>3, <1>6
<1>8. made \in Seq(M)
    <2> HIDE DEF before
    <2>1. second \in Seq(M)
        BY <1>7
    <2> HIDE DEF second
    <2> QED BY <1>7, <2>1, ConcatProperties
<1>9. AddNewRule(d, site) = Made(made, d)
    BY DEF AddNewRule, made, second, before, flipped, bare, clone, id, k
<1> HIDE DEF made
<1> QED BY <1>8, <1>9 DEF Sound, Made, M

LEMMA FirstRuleSound ==
    ASSUME NEW d \in Documents, NEW method \in {"FDR", "FPR"}, NEW site, NEW effectA, NEW effectB
    PROVE  Sound(method, d, site, FirstRule(d, effectA, effectB))
<1> DEFINE rules == d.rules
           A == {i \in 1..Len(rules) : rules[i].effect = effectA}
           a == IF A # {} THEN Min(A) ELSE 0
           B == {i \in a + 1..Len(rules) : rules[i].effect = effectB}
           b == IF B # {} THEN Min(B) ELSE 0
           removed == RemoveAt(rules, b)
           changed == InsertAt(removed, a, rules[b])
           left == WithRules(d, InsertAt(RemoveAt(changed, a), b, rules[b]))
           q == WithRules(d, changed)
<1>1. /\ rules \in Seq(RuleRecords) /\ Distinct(rules) /\ IdsOf(rules) = Ids(d)
      /\ Len(rules) \in Nat /\ DOMAIN rules = 1..Len(rules)
    BY RulesOfDocument
<1>2. FirstRule(d, effectA, effectB) =
         IF d.alg # "first-applicable" \/ a = 0 \/ b = 0 THEN Nothing(d) ELSE Made(Only(q), left)
    BY DEF FirstRule, SelectInSeq, SelectInSubSeq
<1>3. CASE a # 0 /\ b # 0
    <2>1. a \in 1..Len(rules)
        <3>1. A \in SUBSET Nat /\ A # {}
            BY <1>1, <1>3
        <3>2. Min(A) \in A
            BY <3>1, LeastOf
        <3> HIDE DEF rules
        <3> QED BY <3>1, <3>2
    <2> HIDE DEF a
    <2>2. b \in a + 1..Len(rules)
        <3>1. B \in SUBSET Nat /\ B # {}
            BY <1>1, <1>3, <2>1
        <3>2. Min(B) \in B
            BY <3>1, LeastOf
        <3> HIDE DEF rules
        <3> QED BY <3>1, <3>2
    <2> HIDE DEF b
    <2>3. b \in 1..Len(rules) /\ rules[b] \in RuleRecords
        BY <1>1, <2>1, <2>2
    <2>4. /\ removed \in Seq(RuleRecords) /\ Distinct(removed) /\ IdsOf(removed) \subseteq Ids(d)
          /\ Len(removed) = Len(rules) - 1 /\ Site(rules[b]) \notin IdsOf(removed)
        <3> HIDE DEF rules
        <3>1. removed \in Seq(RuleRecords) /\ Len(removed) = Len(rules) - 1
            BY <1>1, <2>3, RemoveFacts
        <3>2. /\ Distinct(removed) /\ IdsOf(removed) \subseteq IdsOf(rules)
              /\ Site(rules[b]) \notin IdsOf(removed)
            BY <1>1, <2>3, RemoveDistinct
        <3> QED BY <1>1, <3>1, <3>2
    <2>5. InsertAt(removed, b, rules[b]) = rules
        BY <1>1, <2>3, Reinserted
    <2>6. Site(rules[b]) \in Ids(d)
        BY <1>1, <2>3 DEF IdsOf
    <2> HIDE DEF removed, rules
    <2>7. a \in 1..Len(removed) + 1
        BY <1>1, <2>1, <2>2, <2>4
    <2>8. RemoveAt(changed, a) = removed
        BY <2>3, <2>4, <2>7, InsertedRemoved
    <2>9. changed \in Seq(RuleRecords) /\ Distinct(changed) /\ IdsOf(changed) \subseteq Ids(d)
        BY <2>3, <2>4, <2>6, <2>7, InsertFacts, InsertDistinct
    <2>10. left = d
        BY <2>5, <2>8, RulesOfDocument DEF rules
    <2> HIDE DEF changed, left
    <2>11. q \in Documents /\ Ids(q) \subseteq Ids(d)
        BY <2>9, RulesMade
    <2> HIDE DEF q
    <2>12. Sound(method, d, site, Made(Only(q), left))
        BY <2>10, <2>11, OneMade DEF Shifting
    <2> QED BY <1>2, <2>12, NothingMade
<1>4. CASE ~(a # 0 /\ b # 0)
    <2> HIDE DEF a, b, q, left
    <2> QED BY <1>2, <1>4, NothingMade
<1> QED BY <1>3, <1>4

\* The count of AllOf is at least that of the AnyOf at hand.
LEMMA CountFacts ==
    ASSUME NEW t \in Targets
    PROVE  /\ AllOfCount(t) \in [0..Len(t) -> Nat]
           /\ \A j \in 1..Len(t) : AllOfCount(t)[j] = AllOfCount(t)[j - 1] + Len(t[j])
<1> DEFINE n == Len(t)
           Unfolds(f, k) == f = [j \in 0..k |-> IF j = 0 THEN 0 ELSE f[j - 1] + Len(t[j])]
           Good(k) == \E f : Unfolds(f, k) /\ f \in [0..k -> Nat]
           Bad == {k \in Nat : k <= n /\ ~Good(k)}
<1>1. n \in Nat /\ \A j \in 1..n : Len(t[j]) \in Nat
    <2>1. n \in Nat /\ \A j \in 1..n : t[j] \in AnyOfs
        BY SeqFacts DEF Targets
    <2>2. \A s \in AnyOfs : Len(s) \in Nat
        BY SeqFacts DEF AnyOfs
    <2> QED BY <2>1, <2>2
<1> HIDE DEF n
<1>2. Good(n)
    <2> SUFFICES ASSUME ~Good(n) PROVE FALSE
        OBVIOUS
    <2>1. PICK k \in Bad : \A l \in Bad : k <= l
        <3>0. n <= n
            BY <1>1
        <3>1. n \in Bad /\ Bad \in SUBSET Nat
            BY <1>1, <3>0
        <3> HIDE DEF Bad
        <3> QED BY <3>1, LeastOf
    <2>2. k # 0
        <3> DEFINE zero == [j \in 0..0 |-> 0]
        <3>1. Unfolds(zero, 0)
            OBVIOUS
        <3>2. zero \in [0..0 -> Nat]
            OBVIOUS
        <3>3. Good(0)
            BY <3>1, <3>2
        <3> HIDE DEF Good
        <3> QED BY <2>1, <3>3
    <2>3. k \in Nat /\ k <= n /\ ~Good(k)
        OBVIOUS
    <2>4. Good(k - 1) /\ k \in 1..n
        <3>1. k - 1 \in Nat /\ k - 1 <= n /\ ~(k <= k - 1) /\ k \in 1..n
            BY <1>1, <2>2, <2>3
        <3>2. k - 1 \notin Bad
            BY <2>1, <3>1
        <3> HIDE DEF Good
        <3> QED BY <3>1, <3>2
    <2>5. PICK f : Unfolds(f, k - 1) /\ f \in [0..k - 1 -> Nat]
        BY <2>4
    <2> DEFINE g == [j \in 0..k |-> IF j = 0 THEN 0 ELSE f[j - 1] + Len(t[j])]
    <2>6. \A j \in 0..k - 1 : j \in 0..k /\ f[j] = (IF j = 0 THEN 0 ELSE f[j - 1] + Len(t[j])) /\ g[j] = f[j]
        <3> TAKE j \in 0..k - 1
        <3>1. j \in 0..k
            BY <2>4
        <3>2. f[j] = (IF j = 0 THEN 0 ELSE f[j - 1] + Len(t[j]))
            BY <2>5
        <3> QED BY <3>1, <3>2
    <2>7. \A j \in 0..k : j # 0 => j - 1 \in 0..k - 1 /\ j \in 1..n
        BY <1>1, <2>4
    <2>8. g \in [0..k -> Nat]
        <3> SUFFICES ASSUME NEW j \in 0..k PROVE (IF j = 0 THEN 0 ELSE f[j - 1] + Len(t[j])) \in Nat
            OBVIOUS
        <3>1. j # 0 => f[j - 1] \in Nat /\ Len(t[j]) \in Nat
            BY <1>1, <2>5, <2>7
        <3> QED BY <3>1
    <2>9. Unfolds(g, k)
        <3> HIDE DEF g
        <3>1. g = [j \in 0..k |-> IF j = 0 THEN 0 ELSE f[j - 1] + Len(t[j])]
            BY DEF g
        <3>2. \A j \in 0..k : (IF j = 0 THEN 0 ELSE f[j - 1] + Len(t[j]))
                                = (IF j = 0 THEN 0 ELSE g[j - 1] + Len(t[j]))
            BY <2>6, <2>7
        <3> QED BY <3>1, <3>2
    <2> HIDE DEF g
    <2> QED BY <2>3, <2>8, <2>9
<1>3. PICK f : Unfolds(f, n) /\ f \in [0..n -> Nat]
    BY <1>2
<1> DEFINE count == AllOfCount(t)
<1>4. Unfolds(count, n)
    <2>1. count = CHOOSE h : Unfolds(h, n)
        BY DEF AllOfCount, n
    <2> HIDE DEF count
    <2> QED BY <1>3, <2>1
<1> HIDE DEF count
<1>5. DOMAIN count = 0..n /\ \A j \in 0..n : count[j] = IF j = 0 THEN 0 ELSE count[j - 1] + Len(t[j])
    <2> DEFINE e == [j \in 0..n |-> IF j = 0 THEN 0 ELSE count[j - 1] + Len(t[j])]
    <2>1. count = e
        BY <1>4
    <2>2. DOMAIN e = 0..n /\ \A j \in 0..n : e[j] = IF j = 0 THEN 0 ELSE count[j - 1] + Len(t[j])
        OBVIOUS
    <2> HIDE DEF e
    <2> QED BY <2>1, <2>2
<1>6. \A j \in 0..n : count[j] \in Nat
    <2> DEFINE Off == {j \in Nat : j <= n /\ count[j] \notin Nat}
    <2>1. CASE Off = {}
        <3>1. \A j \in 0..n : j \in Nat /\ j <= n
            BY <1>1
        <3> QED BY <2>1, <3>1
    <2>2. CASE Off # {}
        <3>1. PICK j \in Off : \A l \in Off : j <= l
            <4>1. Off \in SUBSET Nat
                OBVIOUS
            <4> HIDE DEF Off
            <4> QED BY <2>2, <4>1, LeastOf
        <3>2. j \in Nat /\ j <= n /\ count[j] \notin Nat
            OBVIOUS
        <3>3. j \in 0..n /\ j # 0
            BY <1>1, <1>5, <3>2
        <3>4. j - 1 \in Nat /\ j - 1 <= n /\ ~(j <= j - 1) /\ j \in 1..n
            BY <1>1, <3>2, <3>3
        <3>5. count[j - 1] \in Nat
            BY <3>1, <3>4
        <3>6. count[j] = count[j - 1] + Len(t[j]) /\ Len(t[j]) \in Nat
            BY <1>1, <1>5, <3>3, <3>4
        <3> QED BY <3>2, <3>5, <3>6
    <2> QED BY <2>1, <2>2
<1>7. \A j \in 1..n : count[j] = count[j - 1] + Len(t[j])
    <2>1. \A j \in 1..n : j \in 0..n /\ j # 0
        BY <1>1
    <2> QED BY <1>5, <2>1
<1>8. count \in [0..n -> Nat]
    <2>1. count = [j \in 0..n |-> IF j = 0 THEN 0 ELSE count[j - 1] + Len(t[j])]
        BY <1>4
    <2>2. \A j \in 0..n : (IF j = 0 THEN 0 ELSE count[j - 1] + Len(t[j])) \in Nat
        BY <1>5, <1>6
    <2> QED BY <2>1, <2>2
<1> QED BY <1>7, <1>8 DEF count, n

LEMMA TurnedFacts ==
    ASSUME NEW S, NEW s \in Seq(S), s # <<>>
    PROVE  /\ TurnedBack(s) = s
           /\ \A i \in 1..Len(s) :
                 /\ Tail(Turned(s, i - 1)) \in Seq(S)
                 /\ Len(s) # 1 => Tail(Turned(s, i - 1)) # <<>>
<1>1. Len(s) \in Nat /\ Len(s) # 0
    BY SeqFacts, EmptySeq
<1>2. TurnedBack(s) = s
    <2> DEFINE l == SubSeq(s, Len(s) + 1, Len(s))
               r == SubSeq(s, 1, Len(s))
    <2>1. l \in Seq(S) /\ Len(l) = 0
        BY <1>1, SubSeqProperties
    <2>2. r \in Seq(S) /\ Len(r) = Len(s) /\ \A i \in 1..Len(s) : r[i] = s[i]
        BY <1>1, SubSeqProperties
    <2> HIDE DEF l, r
    <2>3. l = <<>>
        BY <2>1, EmptySeq
    <2>4. r = s
        BY <2>2, SeqEqual
    <2>5. <<>> \o r = r
        BY <2>2, ConcatEmptySeq
    <2> QED BY <2>3, <2>4, <2>5 DEF TurnedBack, Turned, l, r
<1>3. ASSUME NEW i \in 1..Len(s)
      PROVE  /\ Tail(Turned(s, i - 1)) \in Seq(S)
             /\ Len(s) # 1 => Tail(Turned(s, i - 1)) # <<>>
    <2> DEFINE l == SubSeq(s, i - 1 + 1, Len(s))
               r == SubSeq(s, 1, i - 1)
               w == l \o r
    <2>1. i - 1 + 1 = i /\ i - 1 \in 0..Len(s)
        BY <1>1
    <2>2. l \in Seq(S) /\ Len(l) = Len(s) + 1 - i
        <3>1. SubSeq(s, i, Len(s)) \in Seq(S) /\ Len(SubSeq(s, i, Len(s))) = Len(s) + 1 - i
            BY <1>1, SubSeqProperties
        <3> QED BY <2>1, <3>1
    <2>3. r \in Seq(S) /\ Len(r) = i - 1
        BY <1>1, <2>1, SubSeqProperties
    <2> HIDE DEF l, r
    <2>4. w \in Seq(S) /\ Len(w) = Len(l) + Len(r)
        BY <2>2, <2>3, ConcatProperties
    <2>5. Len(w) = Len(s)
        BY <1>1, <2>2, <2>3, <2>4
    <2> HIDE DEF w
    <2>6. w # <<>>
        BY <1>1, <2>5
    <2>7. Tail(w) \in Seq(S) /\ Len(Tail(w)) = Len(s) - 1
        BY <2>4, <2>5, <2>6, HeadTailProperties
    <2>8. Len(s) # 1 => Tail(w) # <<>>
        <3>1. Len(s) # 1 => Len(Tail(w)) # 0
            <4> DEFINE m == Len(s)
                       k == Len(Tail(w))
            <4>1. m \in Nat /\ k = m - 1
                BY <1>1, <2>7
            <4> HIDE DEF m, k
            <4>2. m # 1 => k # 0
                BY <4>1
            <4> QED BY <4>2 DEF m, k
        <3> HIDE DEF w
        <3> QED BY <3>1
    <2>9. Turned(s, i - 1) = w
        BY DEF Turned, w, l, r
    <2> QED BY <2>7, <2>8, <2>9
<1> QED BY <1>2, <1>3

LEMMA SameTarget ==
    ASSUME NEW d \in Documents, NEW site \in Places(d)
    PROVE  TargetAt(d, site) \in Targets /\ WithTarget(d, site, TargetAt(d, site)) = d
<1> DEFINE t == TargetAt(d, site)
           q == WithTarget(d, site, t)
<1>1. t \in Targets
    <2>1. <<>> \in Targets
        BY DEF Targets
    <2> QED BY <2>1, WithTargetFacts
<1>2. CASE site = PolicyTarget
    <2>1. d = [alg |-> d.alg, target |-> d.target, rules |-> d.rules]
        BY DocumentFacts
    <2>2. [d EXCEPT !.target = d.target] = d
        BY <2>1
    <2> QED BY <1>1, <1>2, <2>2 DEF TargetAt, WithTarget
<1>3. CASE site # PolicyTarget
    <2> DEFINE r == RuleAt(d, site)
    <2>1. site \in Ids(d)
        BY <1>3 DEF Places
    <2>2. r \in RuleRecords /\ r.id = site
        BY <2>1, IndexFacts
    <2>3. r = [id |-> r.id, effect |-> r.effect, target |-> r.target, condition |-> r.condition]
        BY <2>2, RuleFacts
    <2>4. [r EXCEPT !.target = r.target] = r
        BY <2>3
    <2>5. q = WithRule(d, site, r)
        BY <1>3, <2>4 DEF WithTarget, TargetAt
    <2>6. RuleAt(q, site) = r /\ WithRule(q, site, r) = d /\ q \in Documents /\ site \in Ids(q)
        BY <2>1, <2>2, <2>5, WithRuleFacts
    <2>7. WithRule(d, site, r) = d
        <3>1. /\ d = [alg |-> d.alg, target |-> d.target, rules |-> d.rules]
              /\ d.rules \in Seq(RuleRecords) /\ d.rules \in [DOMAIN d.rules -> RuleRecords]
            BY DocumentFacts, SeqFacts
        <3>2. IndexOf(d, site) \in DOMAIN d.rules /\ r = d.rules[IndexOf(d, site)]
            BY <2>1, IndexFacts
        <3> HIDE DEF r
        <3>3. [d.rules EXCEPT ![IndexOf(d, site)] = r] = d.rules
            BY <3>1, <3>2
        <3>4. WithRule(d, site, r) = WithRules(d, [d.rules EXCEPT ![IndexOf(d, site)] = r])
            BY <3>1 DEF WithRule, WithRules
        <3> QED BY <3>3, <3>4, RulesOfDocument
    <2> QED BY <1>1, <2>5, <2>7
<1> QED BY <1>2, <1>3

LEMMA RemoveParallelSound ==
    ASSUME NEW d \in Documents, NEW site \in Places(d)
    PROVE  Sound("RPTE", d, site, RemoveParallel(d, site))
<1> DEFINE t == TargetAt(d, site)
           count == AllOfCount(t)
           bad == [j \in DOMAIN t |-> count[j] > 1 /\ Len(t[j]) = 1]
           Emptied == {i \in 1..Len(bad) : bad[i]}
           emptied == IF Emptied # {} THEN Min(Emptied) ELSE 0
           with(new) == WithTarget(d, site, new)
           lessMatch(j, a, i) == [policy |-> with([t EXCEPT ![j][a] = Tail(Turned(@, i - 1))]),
                                  counts |-> <<1, i, i>>]
           noMatch(j, a) == IF Len(t[j][a]) = 1 THEN <<>>
                            ELSE [i \in DOMAIN t[j][a] |-> lessMatch(j, a, i)]
           lessAllOf(j, i) == [policy |-> with([t EXCEPT ![j] = Tail(Turned(@, i - 1))]), counts |-> <<1, i>>]
           noAllOf(j) == IF count[j] = 1 THEN <<>> ELSE [i \in DOMAIN t[j] |-> lessAllOf(j, i)]
           made == FlattenSeq([j \in DOMAIN t |->
                       FlattenSeq([a \in DOMAIN t[j] |-> noMatch(j, a)]) \o noAllOf(j)])
           back == [j \in DOMAIN t |->
                       IF count[j] = 1 THEN [a \in DOMAIN t[j] |-> TurnedBack(t[j][a])]
                       ELSE TurnedBack([a \in DOMAIN t[j] |-> TurnedBack(t[j][a])])]
           M == MadeAt("RPTE", d, site)
<1>1. RemoveParallel(d, site) =
         IF emptied # 0 THEN Thrown(with([t EXCEPT ![emptied] = <<>>])) ELSE Made(made, with(back))
    BY DEF RemoveParallel, SelectInSeq
<1>2. t \in Targets /\ Len(t) \in Nat /\ DOMAIN t = 1..Len(t) /\ with(t) = d
    BY SameTarget, SeqFacts DEF Targets
<1>3. CASE emptied # 0
    <2> HIDE DEF emptied
    <2> QED BY <1>1, <1>3, NothingMade
<1>4. CASE emptied = 0
    <2>1. \A j \in DOMAIN t : ~(count[j] > 1 /\ Len(t[j]) = 1)
        <3>1. Emptied = {}
            <4>1. Emptied \in SUBSET Nat
                <5>1. DOMAIN bad = 1..Len(t) /\ bad = [j \in 1..Len(t) |-> bad[j]]
                    BY <1>2
                <5> HIDE DEF bad
                <5>2. Len(bad) = Len(t)
                    BY <1>2, <5>1
                <5> QED BY <1>2, <5>2
            <4> SUFFICES ASSUME Emptied # {} PROVE FALSE
                OBVIOUS
            <4>2. Min(Emptied) \in Emptied
                BY <4>1, LeastOf
            <4>3. Min(Emptied) # 0
                <5>1. \A i \in Emptied : i \in 1..Len(bad)
                    OBVIOUS
                <5>2. 0 \notin 1..Len(bad)
                    OBVIOUS
                <5> HIDE DEF Emptied
                <5> QED BY <4>2, <5>1, <5>2
            <4> HIDE DEF Emptied
            <4> QED BY <1>4, <4>3
        <3>2. \A j \in DOMAIN t : ~bad[j]
            <4>1. DOMAIN bad = 1..Len(t) /\ bad = [j \in 1..Len(t) |-> bad[j]]
                BY <1>2
            <4> HIDE DEF bad
            <4>2. Len(bad) = Len(t)
                BY <1>2, <4>1
            <4> QED BY <1>2, <3>1, <4>2
        <3> QED BY <3>2
    <2> HIDE DEF emptied, t, count, bad
    <2>2. ASSUME NEW j \in DOMAIN t
          PROVE  /\ t # <<>> /\ count[j] \in Nat /\ count[j] >= Len(t[j])
                 /\ Len(t[j]) \in Nat /\ Len(t[j]) # 0
                 /\ t[j] \in Seq(AllOfs) /\ t[j] # <<>> /\ DOMAIN t[j] = 1..Len(t[j])
        <3>1. t # <<>>
            BY <1>2
        <3>2. /\ t[j] \in Seq(AllOfs) /\ t[j] # <<>> /\ DOMAIN t[j] = 1..Len(t[j]) /\ 1 \in DOMAIN t[j]
              /\ Len(t[j]) \in Nat
            BY <1>2, <3>1, TargetFacts
        <3>3. Len(t[j]) # 0
            BY <3>2
        <3>4. /\ count \in [0..Len(t) -> Nat]
              /\ \A k \in 1..Len(t) : count[k] = count[k - 1] + Len(t[k])
            BY <1>2, CountFacts DEF count
        <3>5. j \in 1..Len(t) /\ j \in 0..Len(t) /\ j - 1 \in 0..Len(t)
            BY <1>2
        <3>6. count[j] \in Nat /\ count[j - 1] \in Nat /\ count[j] = count[j - 1] + Len(t[j])
            BY <3>4, <3>5
        <3>7. count[j] >= Len(t[j])
            BY <3>2, <3>6
        <3> QED BY <3>1, <3>2, <3>3, <3>6, <3>7
    <2>3. ASSUME NEW j \in DOMAIN t, NEW anyOf \in AnyOfs PROVE [t EXCEPT ![j] = anyOf] \in Targets
        BY <1>2, ExceptFacts DEF Targets
    <2>4. ASSUME NEW new \in Targets, NEW counts \in Seq(Nat)
          PROVE  [policy |-> with(new), counts |-> counts] \in M
        <3> DEFINE q == with(new)
        <3>1. q \in Documents /\ Ids(q) = Ids(d) /\ SameElsewhere(d, site, q)
            BY WithTargetFacts
        <3> HIDE DEF q
        <3> QED BY <3>1 DEF MadeAt, q
    <2> HIDE DEF M, with
    <2>5. ASSUME NEW j \in DOMAIN t, NEW a \in DOMAIN t[j] PROVE noMatch(j, a) \in Seq(M)
        <3> DEFINE allOf == t[j][a]
        <3>1. allOf \in Seq(Matches) /\ allOf # <<>> /\ Len(allOf) \in Nat /\ DOMAIN allOf = 1..Len(allOf)
            BY <1>2, <2>2, TargetFacts
        <3>2. ASSUME Len(allOf) # 1, NEW i \in DOMAIN allOf PROVE lessMatch(j, a, i) \in M
            <4> DEFINE less == Tail(Turned(allOf, i - 1))
                       anyOf == [t[j] EXCEPT ![a] = less]
                       new == [t EXCEPT ![j] = anyOf]
            <4>1. less \in AllOfs
                <5> HIDE DEF allOf
                <5>1. less \in Seq(Matches) /\ less # <<>>
                    BY <3>1, <3>2, TurnedFacts
                <5> QED BY <5>1 DEF AllOfs
            <4> HIDE DEF less
            <4>2. anyOf \in AnyOfs
                <5>1. anyOf \in Seq(AllOfs) /\ DOMAIN anyOf = DOMAIN t[j]
                    BY <2>2, <4>1, ExceptFacts
                <5> HIDE DEF anyOf
                <5>2. anyOf # <<>>
                    BY <5>1
                <5> QED BY <5>1, <5>2 DEF AnyOfs
            <4>3. new = [t EXCEPT ![j][a] = Tail(Turned(@, i - 1))]
                BY DEF less, allOf
            <4> HIDE DEF anyOf
            <4>4. new \in Targets
                BY <2>3, <4>2
            <4>5. <<1, i, i>> \in Seq(Nat)
                <5>1. i \in Nat
                    BY <3>1
                <5> QED BY <5>1
            <4> HIDE DEF new
            <4> QED BY <2>4, <4>3, <4>4, <4>5
        <3> HIDE DEF lessMatch
        <3>3. Len(allOf) # 1 => [i \in DOMAIN allOf |-> lessMatch(j, a, i)] \in Seq(M)
            <4> DEFINE f == [i \in DOMAIN allOf |-> lessMatch(j, a, i)]
            <4> HIDE DEF allOf
            <4>1. Len(allOf) # 1 => f \in [1..Len(allOf) -> M]
                BY <3>1, <3>2
            <4> HIDE DEF f
            <4> QED BY <3>1, <4>1 DEF f
        <3> QED BY <3>3
    <2>6. ASSUME NEW j \in DOMAIN t PROVE noAllOf(j) \in Seq(M)
        <3>1. count[j] # 1 => Len(t[j]) # 1
            BY <2>1, <2>2
        <3>2. ASSUME count[j] # 1, NEW i \in DOMAIN t[j] PROVE lessAllOf(j, i) \in M
            <4> DEFINE less == Tail(Turned(t[j], i - 1))
                       new == [t EXCEPT ![j] = less]
            <4>1. less \in AnyOfs
                <5>1. less \in Seq(AllOfs) /\ less # <<>>
                    BY <2>2, <3>1, <3>2, TurnedFacts
                <5> QED BY <5>1 DEF AnyOfs
            <4>2. new = [t EXCEPT ![j] = Tail(Turned(@, i - 1))]
                OBVIOUS
            <4> HIDE DEF less
            <4>3. new \in Targets
                BY <2>3, <4>1
            <4>4. <<1, i>> \in Seq(Nat)
                <5>1. i \in Nat
                    BY <2>2
                <5> QED BY <5>1
            <4> HIDE DEF new
            <4> QED BY <2>4, <4>2, <4>3, <4>4
        <3> HIDE DEF lessAllOf
        <3> DEFINE f == [i \in DOMAIN t[j] |-> lessAllOf(j, i)]
        <3>3. count[j] # 1 => f \in [1..Len(t[j]) -> M]
            BY <2>2, <3>2
        <3> HIDE DEF f
        <3>4. count[j] # 1 => f \in Seq(M)
            BY <2>2, <3>3
        <3> QED BY <3>4 DEF f
    <2> HIDE DEF noMatch, noAllOf
    <2>7. made \in Seq(M)
        <3> DEFINE ofAnyOf(j) == FlattenSeq([a \in DOMAIN t[j] |-> noMatch(j, a)]) \o noAllOf(j)
                   all == [j \in DOMAIN t |-> ofAnyOf(j)]
        <3>1. ASSUME NEW j \in DOMAIN t PROVE ofAnyOf(j) \in Seq(M)
            <4> DEFINE lists == [a \in DOMAIN t[j] |-> noMatch(j, a)]
            <4>1. lists \in [1..Len(t[j]) -> Seq(M)]
                BY <2>2, <2>5
            <4> HIDE DEF lists
            <4>2. lists \in Seq(Seq(M))
                BY <2>2, <4>1
            <4>3. FlattenSeq(lists) \in Seq(M)
                BY <4>2, FlattenFacts
            <4> QED BY <2>6, <4>3, ConcatProperties DEF lists
        <3> HIDE DEF ofAnyOf
        <3>2. all \in [1..Len(t) -> Seq(M)]
            BY <1>2, <3>1
        <3> HIDE DEF all
        <3>3. all \in Seq(Seq(M))
            BY <1>2, <3>2
        <3>4. FlattenSeq(all) \in Seq(M)
            BY <3>3, FlattenFacts
        <3> QED BY <3>4 DEF all, ofAnyOf
    <2>8. back = t
        <3>1. ASSUME NEW j \in DOMAIN t
              PROVE  /\ [a \in DOMAIN t[j] |-> TurnedBack(t[j][a])] = t[j]
                     /\ TurnedBack(t[j]) = t[j]
            <4>1. \A a \in DOMAIN t[j] : TurnedBack(t[j][a]) = t[j][a]
                <5>1. \A a \in DOMAIN t[j] : t[j][a] \in Seq(Matches) /\ t[j][a] # <<>>
                    BY <1>2, <2>2, TargetFacts
                <5> QED BY <5>1, TurnedFacts
            <4>2. t[j] = [a \in DOMAIN t[j] |-> t[j][a]]
                BY <2>2, SeqFacts
            <4>3. TurnedBack(t[j]) = t[j]
                BY <2>2, TurnedFacts
            <4> QED BY <4>1, <4>2, <4>3
        <3>2. \A j \in DOMAIN t : back[j] = t[j]
            BY <3>1
        <3>3. t = [j \in DOMAIN t |-> t[j]]
            BY <1>2, SeqFacts DEF Targets
        <3> QED BY <3>2, <3>3
    <2> HIDE DEF made, back
    <2>9. Sound("RPTE", d, site, Made(made, with(back)))
        BY <1>2, <2>7, <2>8 DEF Sound, Made, M, with
    <2> QED BY <1>1, <1>4, <2>9
<1> QED BY <1>3, <1>4

\* Whatever the method.
LEMMA OutcomeSound ==
    ASSUME NEW d \in Documents, NEW site \in Places(d), NEW method, Applicable(method, site),
           ~(NewRuleIds \subseteq Ids(d))
    PROVE  Sound(method, d, site, Outcome(method, d, site))
<1>1. CASE site = PolicyTarget
    <2>1. method \in {"PTT", "PTF", "CCF", "CRC", "FDR", "FPR", "RPTE"}
        BY <1>1 DEF Applicable, TargetMethods
    <2>2. CASE method = "PTT"
        <3>1. Outcome(method, d, site) = TargetTrue(d, site)
            BY <1>1, <2>2 DEF Outcome
        <3> QED BY <3>1, TargetTrueSound
    <2>3. CASE method = "PTF"
        <3>1. Outcome(method, d, site) = TargetFalse(d, site)
            BY <1>1, <2>3 DEF Outcome
        <3> QED BY <3>1, TargetFalseSound
    <2>4. CASE method = "CCF"
        <3>1. Outcome(method, d, site) = TargetComparisons(d, site)
            BY <1>1, <2>4 DEF Outcome
        <3> QED BY <3>1, TargetComparisonsSound
    <2>5. CASE method = "CRC"
        <3>1. Outcome(method, d, site) = CombiningAlgorithm(d)
            BY <1>1, <2>5 DEF Outcome
        <3> QED BY <1>1, <3>1, CombiningAlgorithmSound
    <2>6. CASE method = "FDR"
        <3>1. Outcome(method, d, site) = FirstRule(d, Permit, Deny)
            BY <1>1, <2>6 DEF Outcome
        <3> QED BY <2>6, <3>1, FirstRuleSound
    <2>7. CASE method = "FPR"
        <3>1. Outcome(method, d, site) = FirstRule(d, Deny, Permit)
            BY <1>1, <2>7 DEF Outcome
        <3> QED BY <2>7, <3>1, FirstRuleSound
    <2>8. CASE method = "RPTE"
        <3>1. Outcome(method, d, site) = RemoveParallel(d, site)
            BY <1>1, <2>8 DEF Outcome
        <3> QED BY <2>8, <3>1, RemoveParallelSound
    <2> QED BY <2>1, <2>2, <2>3, <2>4, <2>5, <2>6, <2>7, <2>8
<1>2. CASE site # PolicyTarget
    <2>0. site \in Ids(d)
        BY <1>2 DEF Places
    <2>1. method \in {"CRE", "RTT", "RCT", "RTF", "RCF", "CCF", "ANF", "RNF", "RER", "ANR", "RPTE"}
        BY <1>2 DEF Applicable, RuleMethods
    <2>2. CASE method = "CRE"
        <3>1. Outcome(method, d, site) = RuleEffectFlipping(d, site)
            BY <1>2, <2>2 DEF Outcome
        <3> QED BY <2>0, <2>2, <3>1, FlippingSound
    <2>3. CASE method = "RTT"
        <3>1. Outcome(method, d, site) = TargetTrue(d, site)
            BY <1>2, <2>3 DEF Outcome
        <3> QED BY <3>1, TargetTrueSound
    <2>4. CASE method = "RCT"
        <3>1. Outcome(method, d, site) = ConditionTrue(d, site)
            BY <1>2, <2>4 DEF Outcome
        <3> QED BY <2>0, <3>1, ConditionMethodsSound
    <2>5. CASE method = "RTF"
        <3>1. Outcome(method, d, site) = TargetFalse(d, site)
            BY <1>2, <2>5 DEF Outcome
        <3> QED BY <3>1, TargetFalseSound
    <2>6. CASE method = "RCF"
        <3>1. Outcome(method, d, site) = ConditionFalse(d, site)
            BY <1>2, <2>6 DEF Outcome
        <3> QED BY <2>0, <3>1, ConditionMethodsSound
    <2>7. CASE method = "CCF"
        <3>1. Outcome(method, d, site) = RuleComparisons(d, site)
            BY <1>2, <2>7 DEF Outcome
        <3> QED BY <2>0, <3>1, RuleComparisonsSound
    <2>8. CASE method = "ANF"
        <3>1. Outcome(method, d, site) = AddNot(d, site)
            BY <1>2, <2>8 DEF Outcome
        <3> QED BY <2>0, <3>1, ConditionMethodsSound
    <2>9. CASE method = "RNF"
        <3>1. Outcome(method, d, site) = RemoveNot(d, site)
            BY <1>2, <2>9 DEF Outcome
        <3> QED BY <2>0, <3>1, ConditionMethodsSound
    <2>10. CASE method = "RER"
        <3>1. Outcome(method, d, site) = RemoveRule(d, site)
            BY <1>2, <2>10 DEF Outcome
        <3> QED BY <2>0, <2>10, <3>1, RemoveRuleSound
    <2>11. CASE method = "ANR"
        <3>1. Outcome(method, d, site) = AddNewRule(d, site)
            BY <1>2, <2>11 DEF Outcome
        <3> QED BY <2>0, <2>11, <3>1, AddNewRuleSound
    <2>12. CASE method = "RPTE"
        <3>1. Outcome(method, d, site) = RemoveParallel(d, site)
            BY <1>2, <2>12 DEF Outcome
        <3> QED BY <2>12, <3>1, RemoveParallelSound
    <2> QED BY <2>1, <2>2, <2>3, <2>4, <2>5, <2>6, <2>7, <2>8, <2>9, <2>10, <2>11, <2>12
<1> QED BY <1>1, <1>2

-----------------------------------------------------------------------------
(* Undoing.  A document is among the mutants of what a method made of it.  *)

Makes(o, q) == \E k \in DOMAIN o.made : o.made[k].policy = q

LEMMA OnlyMakes ==
    ASSUME NEW q, NEW d
    PROVE  /\ \A p : Makes(Made(Only(q), d), p) <=> p = q
           /\ \A p : ~Makes(Nothing(d), p) /\ ~Makes(Thrown(d), p)
<1>1. DOMAIN Made(Only(q), d).made = {1} /\ Made(Only(q), d).made[1].policy = q
    BY DEF Made, Only, Numbered
<1>2. DOMAIN Nothing(d).made = {} /\ DOMAIN Thrown(d).made = {}
    BY DEF Nothing, Made, Thrown
<1> QED BY <1>1, <1>2 DEF Makes

LEMMA FlippingUndone ==
    ASSUME NEW d \in Documents, NEW site \in Ids(d), NEW q, Makes(RuleEffectFlipping(d, site), q)
    PROVE  site \in Ids(q) /\ Makes(RuleEffectFlipping(q, site), d)
<1>1. q = FlipRule(d, site)
    BY OnlyMakes DEF RuleEffectFlipping
<1>2. q \in Documents /\ Ids(q) = Ids(d) /\ FlipRule(q, site) = d
    BY <1>1, FlippedTwice
<1> QED BY <1>2, OnlyMakes DEF RuleEffectFlipping

LEMMA NotUndone ==
    ASSUME NEW d \in Documents, NEW site \in Ids(d), NEW q
    PROVE  /\ Makes(AddNot(d, site), q) => site \in Ids(q) /\ Makes(RemoveNot(q, site), d)
           /\ Makes(RemoveNot(d, site), q) => site \in Ids(q) /\ Makes(AddNot(q, site), d)
<1> DEFINE c == ConditionAt(d, site)
           E == Expressions(Forms \cup {"conflict"})
<1>1. c # <<>> => c = <<c[1]>> /\ c[1] \in E
    <2>1. <<>> \in Conditions(Forms \cup {"conflict"})
        BY DEF Conditions
    <2> QED BY <2>1, WithConditionFacts, ConditionFacts
<1> HIDE DEF E
<1>2. ASSUME NEW e \in E, c # <<>>, q = WithCondition(d, site, <<e>>)
      PROVE  /\ site \in Ids(q) /\ ConditionAt(q, site) = <<e>> /\ ConditionAt(q, site)[1] = e
             /\ ConditionAt(q, site) # <<>> /\ WithCondition(q, site, <<c[1]>>) = d
    <2>1. <<e>> \in Conditions(Forms \cup {"conflict"})
        BY MakeCondition DEF E
    <2>2. Ids(q) = Ids(d) /\ ConditionAt(q, site) = <<e>> /\ WithCondition(q, site, c) = d
        BY <1>2, <2>1, WithConditionFacts
    <2> QED BY <1>1, <1>2, <2>2
<1>3. ASSUME Makes(AddNot(d, site), q)
      PROVE  site \in Ids(q) /\ Makes(RemoveNot(q, site), d)
    <2> DEFINE more == [c[1] EXCEPT !.nots = @ + 1]
    <2>1. c # <<>> /\ q = WithCondition(d, site, <<more>>)
        BY <1>3, OnlyMakes DEF AddNot
    <2>2. c[1] \in E /\ c[1].nots \in Nat
        BY <1>1, <2>1, ExpressionFacts DEF E
    <2>3. c[1].nots + 1 \in Nat /\ c[1].nots + 1 # 0 /\ c[1].nots + 1 - 1 = c[1].nots
        BY <2>2
    <2> DEFINE n == c[1].nots + 1
    <2> HIDE DEF n
    <2>a. more = [c[1] EXCEPT !.nots = n]
        BY DEF n
    <2> HIDE DEF more
    <2>c. n \in Nat /\ n # 0 /\ n - 1 = c[1].nots
        BY <2>2, <2>3 DEF n
    <2>b. more \in E /\ more.nots = n /\ [more EXCEPT !.nots = c[1].nots] = c[1]
        BY <2>2, <2>a, <2>c, ExpressionFacts DEF E
    <2>4. more \in E /\ more.nots # 0 /\ [more EXCEPT !.nots = @ - 1] = c[1]
        BY <2>b, <2>c
    <2> HIDE DEF more, c
    <2>5. RemoveNot(q, site) = Made(Only(d), q)
        BY <1>2, <2>1, <2>4 DEF RemoveNot
    <2> QED BY <1>2, <2>1, <2>4, <2>5, OnlyMakes
<1>4. ASSUME Makes(RemoveNot(d, site), q)
      PROVE  site \in Ids(q) /\ Makes(AddNot(q, site), d)
    <2> DEFINE less == [c[1] EXCEPT !.nots = @ - 1]
    <2>1. c # <<>> /\ c[1].nots # 0 /\ q = WithCondition(d, site, <<less>>)
        BY <1>4, OnlyMakes DEF RemoveNot
    <2>2. c[1] \in E /\ c[1].nots \in Nat
        BY <1>1, <2>1, ExpressionFacts DEF E
    <2>3. c[1].nots - 1 \in Nat /\ c[1].nots - 1 + 1 = c[1].nots
        BY <2>1, <2>2
    <2> DEFINE n == c[1].nots - 1
    <2> HIDE DEF n
    <2>a. less = [c[1] EXCEPT !.nots = n] /\ n \in Nat /\ n + 1 = c[1].nots
        BY <2>3 DEF n
    <2> HIDE DEF less
    <2>b. less \in E /\ less.nots = n /\ [less EXCEPT !.nots = c[1].nots] = c[1]
        BY <2>2, <2>a, ExpressionFacts DEF E
    <2>4. less \in E /\ [less EXCEPT !.nots = @ + 1] = c[1]
        BY <2>a, <2>b
    <2> HIDE DEF less, c
    <2>5. AddNot(q, site) = Made(Only(d), q)
        BY <1>2, <2>1, <2>4 DEF AddNot
    <2> QED BY <1>2, <2>1, <2>4, <2>5, OnlyMakes
<1> QED BY <1>3, <1>4

LEMMA OneAndOne ==
    ASSUME NEW p, NEW r
    PROVE  \A k \in DOMAIN (Only(p) \o Only(r)) :
               (Only(p) \o Only(r))[k].policy = p \/ (Only(p) \o Only(r))[k].policy = r
<1> DEFINE a == [policy |-> p, counts |-> <<>>]
           b == [policy |-> r, counts |-> <<>>]
           l == Only(p)
           h == Only(r)
           S == {a, b}
<1>1. l \in Seq(S) /\ h \in Seq(S)
    BY DEF Only, Numbered
<1>2. \A e \in S : e.policy = p \/ e.policy = r
    OBVIOUS
<1> HIDE DEF l, h, S
<1>3. l \o h \in Seq(S)
    BY <1>1, ConcatProperties
<1> DEFINE s == l \o h
<1> HIDE DEF s
<1>4. \A k \in DOMAIN s : s[k] \in S
    BY <1>3, SeqFacts DEF s
<1> QED BY <1>2, <1>4 DEF s, l, h

LEMMA AddingUndone ==
    ASSUME NEW d \in Documents, NEW site \in Ids(d), ~(NewRuleIds \subseteq Ids(d)),
           NEW q, Makes(AddNewRule(d, site), q)
    PROVE  NewRuleId(d) \in Ids(q) /\ Makes(RemoveRule(q, NewRuleId(d)), d)
<1> DEFINE k == IndexOf(d, site)
           id == NewRuleId(d)
           clone == [RuleAt(d, site) EXCEPT !.id = id]
           flipped == [clone EXCEPT !.effect = Flip(@)]
           bare == [clone EXCEPT !.target = <<>>]
           before(rule) == WithRules(d, InsertAt(d.rules, k, rule))
<1>1. /\ d.rules \in Seq(RuleRecords) /\ Distinct(d.rules) /\ IdsOf(d.rules) = Ids(d)
      /\ k \in 1..Len(d.rules) + 1 /\ WithRules(d, d.rules) = d
    BY RulesOfDocument, IndexFacts
<1>2. id \notin Ids(d)
    BY NewIdFacts
<1>3. flipped \in RuleRecords /\ Site(flipped) = id /\ bare \in RuleRecords /\ Site(bare) = id
    BY NewRuleFacts
<1> HIDE DEF id, flipped, bare, k
<1>4. ASSUME NEW rule \in RuleRecords, Site(rule) = id, q = before(rule)
      PROVE  id \in Ids(q) /\ Makes(RemoveRule(q, id), d)
    <2> DEFINE rules == InsertAt(d.rules, k, rule)
    <2>1. rules \in Seq(RuleRecords) /\ Distinct(rules) /\ RemoveAt(rules, k) = d.rules
        BY <1>1, <1>2, <1>4, InsertFacts, InsertDistinct, InsertedRemoved
    <2>2. k \in DOMAIN rules /\ rules[k] = rule
        <3>1. Len(rules) = Len(d.rules) + 1 /\ rules[k] = rule
            BY <1>1, InsertFacts
        <3> HIDE DEF rules
        <3> QED BY <1>1, <2>1, <3>1, SeqFacts
    <2> HIDE DEF rules
    <2>3. q \in Documents /\ q.rules = rules /\ WithRules(q, d.rules) = d
        <3>1. \A i, j \in DOMAIN rules : Site(rules[i]) = Site(rules[j]) => i = j
            BY <2>1 DEF Distinct
        <3>2. q = WithRules(d, rules)
            BY <1>4 DEF rules
        <3> QED BY <2>1, <3>1, <3>2, WithRulesFacts
    <2>4. id \in Ids(q)
        BY <1>4, <2>2, <2>3 DEF Ids
    <2>5. IndexOf(q, id) = k
        BY <1>4, <2>2, <2>3, <2>4, IndexFacts
    <2>6. Makes(RemoveRule(q, id), d)
        BY <2>1, <2>3, <2>5, OnlyMakes DEF RemoveRule
    <2> QED BY <2>4, <2>6
<1> HIDE DEF clone
<1> DEFINE second == IF clone.target = <<>> THEN <<>> ELSE Only(before(bare))
<1>5. AddNewRule(d, site) = Made(Only(before(flipped)) \o second, d)
    BY DEF AddNewRule, before, flipped, bare, clone, id, k
<1>6. q = before(flipped) \/ q = before(bare)
    <2> HIDE DEF before
    <2>2. Only(before(flipped)) \o <<>> = Only(before(flipped))
        BY DEF Only, Numbered
    <2>3. CASE clone.target = <<>>
        BY <1>5, <2>2, <2>3, OnlyMakes
    <2>4. CASE clone.target # <<>>
        <3>1. AddNewRule(d, site).made = Only(before(flipped)) \o Only(before(bare))
            BY <1>5, <2>4 DEF Made
        <3> DEFINE p == before(flipped)
                   r == before(bare)
                   both == Only(p) \o Only(r)
        <3>2. \A i \in DOMAIN both : both[i].policy = p \/ both[i].policy = r
            BY OneAndOne
        <3>3. AddNewRule(d, site).made = both
            BY <3>1
        <3> HIDE DEF p, r, both
        <3>4. q = p \/ q = r
            BY <3>2, <3>3 DEF Makes
        <3> QED BY <3>4 DEF p, r
    <2> QED BY <2>3, <2>4
<1> QED BY <1>3, <1>4, <1>6 DEF id

\* What holds of an entry of one of two sequences holds of one of both.
LEMMA InConcat ==
    ASSUME NEW S, NEW l \in Seq(S), NEW h \in Seq(S), NEW k \in DOMAIN (l \o h)
    PROVE  (\E i \in DOMAIN l : l[i] = (l \o h)[k]) \/ (\E i \in DOMAIN h : h[i] = (l \o h)[k])
<1> DEFINE n == Len(l)
           m == Len(h)
           s == l \o h
<1>1. n \in Nat /\ m \in Nat /\ DOMAIN l = 1..n /\ DOMAIN h = 1..m
    BY SeqFacts
<1>2. s \in Seq(S) /\ Len(s) = n + m /\ \A i \in 1..n + m : s[i] = IF i <= n THEN l[i] ELSE h[i - n]
    BY ConcatProperties
<1> HIDE DEF s
<1>3. DOMAIN s = 1..n + m /\ k \in DOMAIN s
    BY <1>2, SeqFacts DEF s
<1> HIDE DEF n, m
<1>4. CASE k <= n
    BY <1>1, <1>2, <1>3, <1>4 DEF s
<1>5. CASE ~(k <= n)
    <2>1. k - n \in 1..m /\ s[k] = h[k - n]
        BY <1>1, <1>2, <1>3, <1>5
    <2> QED BY <1>1, <2>1 DEF s
<1> QED BY <1>4, <1>5

LEMMA ConcatHolds ==
    ASSUME NEW S, NEW l \in Seq(S), NEW h \in Seq(S)
    PROVE  /\ \A i \in DOMAIN l : \E k \in DOMAIN (l \o h) : (l \o h)[k] = l[i]
           /\ \A i \in DOMAIN h : \E k \in DOMAIN (l \o h) : (l \o h)[k] = h[i]
<1> DEFINE n == Len(l)
           m == Len(h)
           s == l \o h
<1>1. n \in Nat /\ m \in Nat /\ DOMAIN l = 1..n /\ DOMAIN h = 1..m
    BY SeqFacts
<1>2. s \in Seq(S) /\ Len(s) = n + m /\ \A i \in 1..n + m : s[i] = IF i <= n THEN l[i] ELSE h[i - n]
    BY ConcatProperties
<1> HIDE DEF s
<1>3. DOMAIN s = 1..n + m
    BY <1>2, SeqFacts
<1> HIDE DEF n, m
<1>4. ASSUME NEW i \in DOMAIN l PROVE \E k \in DOMAIN s : s[k] = l[i]
    <2>1. i \in 1..n + m /\ i <= n
        BY <1>1
    <2> QED BY <1>2, <1>3, <2>1
<1>5. ASSUME NEW i \in DOMAIN h PROVE \E k \in DOMAIN s : s[k] = h[i]
    <2> DEFINE k == n + i
    <2>1. k \in 1..n + m /\ ~(k <= n) /\ k - n = i
        BY <1>1
    <2> HIDE DEF k
    <2>2. s[k] = h[i]
        BY <1>2, <2>1
    <2> QED BY <1>3, <2>1, <2>2
<1> QED BY <1>4, <1>5 DEF s

\* Of a list without repetitions, all but one.
LEMMA OtherOfOther ==
    ASSUME NEW S, NEW list \in Seq(S), \A k, l \in DOMAIN list : list[k] = list[l] => k = l,
           NEW f \in ToSet(list), NEW k \in DOMAIN Others(list, f)
    PROVE  /\ Others(list, f)[k] \in ToSet(list)
           /\ \E j \in DOMAIN Others(list, Others(list, f)[k]) : Others(list, Others(list, f)[k])[j] = f
<1> DEFINE n == Len(list)
<1>1. n \in Nat /\ DOMAIN list = 1..n /\ \A i \in 1..n : list[i] \in S
    BY SeqFacts
<1>2. ASSUME NEW g \in ToSet(list)
      PROVE  ToSet(Others(list, g)) = ToSet(list) \ {g}
    <2>1. PICK p \in 1..n : list[p] = g
        BY <1>1 DEF ToSet
    <2>2. \A i \in 1..n : list[i] = g => i = p
        BY <1>1, <2>1
    <2> DEFINE I == {i \in 1..n : list[i] = g}
               r == RemoveAt(list, p)
    <2>3. I = {p} /\ I \in SUBSET Nat
        BY <1>1, <2>1, <2>2
    <2>4. Min(I) = p
        <3> HIDE DEF I
        <3> QED BY <2>3, LeastOf
    <2>5. Others(list, g) = r
        BY <2>1, <2>3, <2>4 DEF Others, RemoveFirst, SelectInSeq
    <2>6. /\ r \in Seq(S) /\ Len(r) = n - 1
          /\ \A i \in 1..n - 1 : r[i] = IF i < p THEN list[i] ELSE list[i + 1]
        BY <2>1, RemoveFacts
    <2> HIDE DEF r, n
    <2>7. DOMAIN r = 1..n - 1
        BY <2>6, SeqFacts
    <2>8. ASSUME NEW i \in DOMAIN r PROVE r[i] \in ToSet(list) /\ r[i] # g
        <3>1. CASE i < p
            <4>1. i \in 1..n /\ i # p /\ r[i] = list[i]
                BY <1>1, <2>6, <2>7, <3>1
            <4> QED BY <1>1, <2>2, <4>1 DEF ToSet
        <3>2. CASE ~(i < p)
            <4>1. i + 1 \in 1..n /\ i + 1 # p /\ r[i] = list[i + 1]
                BY <1>1, <2>6, <2>7, <3>2
            <4> QED BY <1>1, <2>2, <4>1 DEF ToSet
        <3> QED BY <3>1, <3>2
    <2>9. ASSUME NEW e \in ToSet(list), e # g PROVE e \in ToSet(r)
        <3>1. PICK i \in 1..n : list[i] = e
            BY <1>1 DEF ToSet
        <3>2. i # p
            BY <2>1, <2>9, <3>1
        <3>3. CASE i < p
            <4>1. i \in 1..n - 1 /\ r[i] = e
                BY <1>1, <2>6, <3>1, <3>3
            <4> QED BY <2>7, <4>1 DEF ToSet
        <3>4. CASE i > p
            <4>1. i - 1 \in 1..n - 1 /\ ~(i - 1 < p) /\ i - 1 + 1 = i
                BY <1>1, <3>4
            <4>2. r[i - 1] = e
                BY <2>6, <3>1, <4>1
            <4> QED BY <2>7, <4>1, <4>2 DEF ToSet
        <3> QED BY <1>1, <3>2, <3>3, <3>4
    <2>10. ToSet(r) = ToSet(list) \ {g}
        BY <2>8, <2>9 DEF ToSet
    <2> QED BY <2>5, <2>10
<1> DEFINE g == Others(list, f)[k]
<1>3. g \in ToSet(Others(list, f))
    BY DEF ToSet
<1>4. g \in ToSet(list) /\ g # f
    BY <1>2, <1>3
<1> HIDE DEF g
<1>5. f \in ToSet(Others(list, g))
    BY <1>2, <1>4
<1>6. \E j \in DOMAIN Others(list, g) : Others(list, g)[j] = f
    BY <1>5 DEF ToSet
<1> QED BY <1>4, <1>6 DEF g

LEMMA AlgorithmUndone ==
    ASSUME NEW d \in Documents, NEW q, Makes(CombiningAlgorithm(d), q)
    PROVE  Makes(CombiningAlgorithm(q), d)
<1> DEFINE algs == RuleCombiningAlgorithms
           S == ToSet(algs)
           others == Others(algs, d.alg)
<1>1. algs \in Seq(S) /\ \A k, l \in DOMAIN algs : algs[k] = algs[l] => k = l
    <2>1. DOMAIN algs = 1..7 /\ algs = [k \in 1..7 |-> algs[k]]
        BY DEF RuleCombiningAlgorithms
    <2>2. \A k, l \in 1..7 : algs[k] = algs[l] => k = l
        BY DEF RuleCombiningAlgorithms
    <2>3. \A k \in 1..7 : algs[k] \in S
        BY <2>1 DEF ToSet
    <2> HIDE DEF S
    <2> QED BY <2>1, <2>2, <2>3
<1>2. PICK k \in DOMAIN others : q = [d EXCEPT !.alg = others[k]]
    BY DEF Makes, CombiningAlgorithm, Made
<1>3. d.alg \in S /\ d = [alg |-> d.alg, target |-> d.target, rules |-> d.rules]
    BY DocumentFacts
<1> DEFINE g == others[k]
<1>4. \E j \in DOMAIN Others(algs, g) : Others(algs, g)[j] = d.alg
    BY <1>1, <1>2, <1>3, OtherOfOther
<1> HIDE DEF g
<1>5. q = [alg |-> g, target |-> d.target, rules |-> d.rules]
    BY <1>2, <1>3 DEF g
<1>6. PICK j \in DOMAIN Others(algs, g) : Others(algs, g)[j] = d.alg
    BY <1>4
<1>7. q.alg = g /\ [q EXCEPT !.alg = d.alg] = d
    BY <1>3, <1>5
<1> QED BY <1>6, <1>7 DEF Makes, CombiningAlgorithm, Made

\* An entry of a sequence put back.
LEMMA ExceptTwice ==
    ASSUME NEW S, NEW s \in Seq(S), NEW k \in DOMAIN s, NEW e
    PROVE  /\ [s EXCEPT ![k] = e][k] = e /\ DOMAIN [s EXCEPT ![k] = e] = DOMAIN s
           /\ [[s EXCEPT ![k] = e] EXCEPT ![k] = s[k]] = s
<1>1. s = [i \in DOMAIN s |-> s[i]]
    BY SeqFacts
<1> QED BY <1>1

LEMMA FunctionRestored ==
    ASSUME NEW t \in Targets, t # <<>>, NEW f
    PROVE  LET new == [t EXCEPT ![1][1][1].function = f]
           IN  /\ new # <<>> /\ new[1][1][1].function = f /\ new[1][1][1].type = t[1][1][1].type
               /\ [new EXCEPT ![1][1][1].function = t[1][1][1].function] = t
<1> DEFINE old == t[1][1][1]
           m == [old EXCEPT !.function = f]
           allOf == [t[1][1] EXCEPT ![1] = m]
           anyOf == [t[1] EXCEPT ![1] = allOf]
           new == [t EXCEPT ![1] = anyOf]
<1>1. /\ 1 \in DOMAIN t /\ 1 \in DOMAIN t[1] /\ 1 \in DOMAIN t[1][1]
      /\ t[1] \in Seq(AllOfs) /\ t[1][1] \in Seq(Matches) /\ old \in Matches
    BY TargetFacts
<1>2. m.function = f /\ m.type = old.type /\ [m EXCEPT !.function = old.function] = old
    BY <1>1 DEF Matches
<1> HIDE DEF m, old
<1>3. allOf[1] = m /\ [allOf EXCEPT ![1] = old] = t[1][1]
    BY <1>1, ExceptTwice DEF old
<1> HIDE DEF allOf
<1>4. anyOf[1] = allOf /\ [anyOf EXCEPT ![1] = t[1][1]] = t[1]
    BY <1>1, ExceptTwice
<1> HIDE DEF anyOf
<1>5. t \in Seq(AnyOfs)
    BY DEF Targets
<1>6. new[1] = anyOf /\ DOMAIN new = DOMAIN t /\ [new EXCEPT ![1] = t[1]] = t
    BY <1>1, <1>5, ExceptTwice
<1> HIDE DEF new
<1>7. new # <<>>
    BY <1>1, <1>6
<1>8. [new EXCEPT ![1][1][1].function = old.function] = t
    <2>1. [new EXCEPT ![1][1][1].function = old.function] =
             [new EXCEPT ![1] = [new[1] EXCEPT ![1] = [new[1][1] EXCEPT ![1] =
                 [new[1][1][1] EXCEPT !.function = old.function]]]]
        OBVIOUS
    <2> QED BY <1>2, <1>3, <1>4, <1>6, <2>1
<1>9. [t EXCEPT ![1][1][1].function = f] = new
    BY DEF new, anyOf, allOf, m, old
<1> QED BY <1>2, <1>3, <1>4, <1>6, <1>7, <1>8, <1>9 DEF old

\* The target and the condition of a rule are changed apart from each other.
LEMMA ChangedApart ==
    ASSUME NEW d \in Documents, NEW site \in Ids(d)
    PROVE  /\ \A t \in Targets : ConditionAt(WithTarget(d, site, t), site) = ConditionAt(d, site)
           /\ \A c \in Conditions(Forms \cup {"conflict"}) :
                 TargetAt(WithCondition(d, site, c), site) = TargetAt(d, site)
<1>1. site # PolicyTarget
    BY DocumentFacts
<1> DEFINE r == RuleAt(d, site)
<1>2. /\ r \in RuleRecords /\ r.id = site
      /\ r = [id |-> r.id, effect |-> r.effect, target |-> r.target, condition |-> r.condition]
    BY IndexFacts, RuleFacts
<1>3. ASSUME NEW t \in Targets
      PROVE  ConditionAt(WithTarget(d, site, t), site) = ConditionAt(d, site)
    <2> DEFINE new == [r EXCEPT !.target = t]
    <2>1. new \in RuleRecords /\ new.id = site /\ new.condition = r.condition
        BY <1>2 DEF RuleRecords, RulesOf
    <2>2. WithTarget(d, site, t) = WithRule(d, site, new)
        BY <1>1 DEF WithTarget
    <2> HIDE DEF new
    <2>3. RuleAt(WithRule(d, site, new), site) = new
        BY <2>1, WithRuleFacts
    <2> QED BY <2>1, <2>2, <2>3 DEF ConditionAt
<1>4. ASSUME NEW c \in Conditions(Forms \cup {"conflict"})
      PROVE  TargetAt(WithCondition(d, site, c), site) = TargetAt(d, site)
    <2> DEFINE new == [r EXCEPT !.condition = c]
    <2>1. new \in RuleRecords /\ new.id = site /\ new.target = r.target
        BY <1>2 DEF RuleRecords, RulesOf
    <2>2. WithCondition(d, site, c) = WithRule(d, site, new)
        BY DEF WithCondition
    <2> HIDE DEF new
    <2>3. RuleAt(WithRule(d, site, new), site) = new
        BY <2>1, WithRuleFacts
    <2> QED BY <1>1, <2>1, <2>2, <2>3 DEF TargetAt
<1> QED BY <1>3, <1>4

LEMMA TargetComparisonsUndone ==
    ASSUME NEW d \in Documents, NEW site \in Places(d), NEW q, Makes(TargetComparisons(d, site), q)
    PROVE  /\ q \in Documents /\ Ids(q) = Ids(d) /\ \E t \in Targets : q = WithTarget(d, site, t)
           /\ ~TargetComparisons(q, site).threw /\ Makes(TargetComparisons(q, site), d)
<1> DEFINE t == TargetAt(d, site)
           match == t[1][1][1]
           list == ComparisonFunctions[match.type]
           others == Others(list, match.function)
<1>1. t \in Targets
    <2>1. <<>> \in Targets
        BY DEF Targets
    <2> QED BY <2>1, WithTargetFacts
<1>2. t # <<>> /\ Known(match.type)
    BY OnlyMakes DEF TargetComparisons
<1>3. PICK k \in DOMAIN others : q = WithTarget(d, site, [t EXCEPT ![1][1][1].function = others[k]])
    BY <1>2 DEF Makes, TargetComparisons, Made
<1>4. match.function \in Comparisons(match.type)
    BY <1>1, <1>2, TargetFacts DEF Matches
<1> DEFINE g == others[k]
           new == [t EXCEPT ![1][1][1].function = g]
<1>5. /\ list \in Seq(Comparisons(match.type)) /\ match.function \in ToSet(list)
      /\ Comparisons(match.type) \subseteq ToSet(Ordered) /\ ToSet(list) = Comparisons(match.type)
      /\ \A i, j \in DOMAIN list : list[i] = list[j] => i = j
    BY <1>2, <1>4, ComparisonsFacts
<1> DEFINE f == match.function
<1> HIDE DEF list
<1>6. g \in ToSet(list) /\ \E j \in DOMAIN Others(list, g) : Others(list, g)[j] = match.function
    <2>1. k \in DOMAIN Others(list, f) /\ g = Others(list, f)[k] /\ f \in ToSet(list)
        BY <1>5
    <2> HIDE DEF f, g
    <2>2. g \in ToSet(list) /\ \E j \in DOMAIN Others(list, g) : Others(list, g)[j] = f
        BY <1>5, <2>1, OtherOfOther
    <2> QED BY <2>2 DEF f
<1> HIDE DEF g
<1>7. new \in Targets
    BY <1>1, <1>2, <1>5, <1>6, FunctionReplaced
<1>8. /\ new # <<>> /\ new[1][1][1].function = g /\ new[1][1][1].type = match.type
      /\ [new EXCEPT ![1][1][1].function = match.function] = t
    BY <1>1, <1>2, FunctionRestored
<1>9. q = WithTarget(d, site, new)
    BY <1>3 DEF g
<1> HIDE DEF new, t
<1>10. q \in Documents /\ Ids(q) = Ids(d) /\ TargetAt(q, site) = new /\ WithTarget(q, site, t) = d
    BY <1>7, <1>9, WithTargetFacts DEF t
<1> DEFINE back == Others(list, g)
           made == [j \in DOMAIN back |->
                      [policy |-> WithTarget(q, site, [new EXCEPT ![1][1][1].function = back[j]]),
                       counts |-> <<j - 1>>]]
<1>11. TargetComparisons(q, site) = Made(made, q)
    BY <1>2, <1>8, <1>10 DEF TargetComparisons, list
<1>12. PICK j \in DOMAIN back : back[j] = match.function
    BY <1>6
<1>13. j \in DOMAIN made /\ made[j].policy = d
    BY <1>8, <1>10, <1>12
<1> HIDE DEF made
<1> QED BY <1>7, <1>9, <1>10, <1>11, <1>13 DEF Makes, Made

LEMMA ConditionComparisonsUndone ==
    ASSUME NEW d \in Documents, NEW site \in Ids(d), NEW start, NEW start2, NEW q,
           Makes(ConditionComparisons(d, site, start), q)
    PROVE  /\ q \in Documents /\ Ids(q) = Ids(d)
           /\ \E c \in Conditions(Forms \cup {"conflict"}) : q = WithCondition(d, site, c)
           /\ ~ConditionComparisons(q, site, start2).threw /\ Makes(ConditionComparisons(q, site, start2), d)
<1> DEFINE c == ConditionAt(d, site)
           e == c[1]
           list == ComparisonFunctions[e.type]
           others == Others(list, e.function)
           E == Expressions(Forms \cup {"conflict"})
<1>1. c # <<>> => c = <<e>> /\ e \in E
    <2>1. <<>> \in Conditions(Forms \cup {"conflict"})
        BY DEF Conditions
    <2> QED BY <2>1, WithConditionFacts, ConditionFacts
<1>2. c # <<>> /\ e.form = "bags" /\ Known(e.type)
    BY OnlyMakes DEF ConditionComparisons
<1>3. PICK k \in DOMAIN others : q = WithCondition(d, site, <<[e EXCEPT !.function = others[k]]>>)
    BY <1>2 DEF Makes, ConditionComparisons, Made
<1>4. e \in E /\ e.function \in Comparisons(e.type)
    BY <1>1, <1>2, ExpressionFacts
<1> DEFINE g == others[k]
           new == [e EXCEPT !.function = g]
<1>5. /\ list \in Seq(Comparisons(e.type)) /\ e.function \in ToSet(list)
      /\ Comparisons(e.type) \subseteq ToSet(Ordered) /\ ToSet(list) = Comparisons(e.type)
      /\ \A i, j \in DOMAIN list : list[i] = list[j] => i = j
    BY <1>2, <1>4, ComparisonsFacts
<1>6. g \in ToSet(list) /\ \E j \in DOMAIN Others(list, g) : Others(list, g)[j] = e.function
    BY <1>5, OtherOfOther
<1> HIDE DEF g, list, e
<1>7. new \in E
    <2>1. g \in Comparisons(e.type) /\ g \in ToSet(Ordered)
        BY <1>5, <1>6
    <2> QED BY <1>4, <2>1, ExpressionFacts
<1>8. /\ new.function = g /\ new.type = e.type /\ new.form = "bags"
      /\ [new EXCEPT !.function = e.function] = e
    <2>1. e = [nots |-> e.nots, form |-> e.form, function |-> e.function, attribute |-> e.attribute,
               type |-> e.type]
        BY <1>4, ExpressionFacts
    <2> QED BY <1>2, <2>1
<1>9. q = WithCondition(d, site, <<new>>)
    BY <1>3 DEF g
<1> HIDE DEF new, c, E
<1>10. <<new>> \in Conditions(Forms \cup {"conflict"})
    BY <1>7, MakeCondition DEF E
<1>11. /\ q \in Documents /\ Ids(q) = Ids(d) /\ ConditionAt(q, site) = <<new>>
       /\ WithCondition(q, site, <<e>>) = d
    BY <1>1, <1>2, <1>9, <1>10, WithConditionFacts DEF c
<1> DEFINE back == Others(list, g)
           made == [j \in DOMAIN back |->
                      [policy |-> WithCondition(q, site, <<[new EXCEPT !.function = back[j]]>>),
                       counts |-> <<start2 + j - 1>>]]
<1>12. ConditionComparisons(q, site, start2) = Made(made, q)
    <2>1. ConditionAt(q, site) # <<>> /\ ConditionAt(q, site)[1] = new
        BY <1>11
    <2> QED BY <1>2, <1>8, <2>1 DEF ConditionComparisons, list
<1>13. PICK j \in DOMAIN back : back[j] = e.function
    BY <1>6
<1>14. j \in DOMAIN made /\ made[j].policy = d
    BY <1>8, <1>11, <1>13
<1> HIDE DEF made
<1> QED BY <1>9, <1>10, <1>11, <1>12, <1>14 DEF Makes, Made

\* Whether a comparison is of a type that is not known is asked of the element
\* alone.
LEMMA ThrowsAlike ==
    ASSUME NEW d, NEW q, NEW site
    PROVE  /\ TargetAt(q, site) = TargetAt(d, site) =>
                 TargetComparisons(q, site).threw = TargetComparisons(d, site).threw
           /\ ConditionAt(q, site) = ConditionAt(d, site) =>
                 \A k, l : ConditionComparisons(q, site, k).threw = ConditionComparisons(d, site, l).threw
    BY Zenon DEF TargetComparisons, ConditionComparisons, Nothing, Made, Thrown

LEMMA RuleComparisonsUndone ==
    ASSUME NEW d \in Documents, NEW site \in Ids(d), NEW q, Makes(RuleComparisons(d, site), q)
    PROVE  site \in Ids(q) /\ Makes(RuleComparisons(q, site), d)
<1> DEFINE T(p) == TargetComparisons(p, site)
           C(p) == ConditionComparisons(p, site, StartCount(T(p).made))
<1>0. \A list, p : Made(list, p).made = list
    BY DEF Made
<1>1. ASSUME NEW p \in Documents, site \in Ids(p)
      PROVE  \E S : T(p).made \in Seq(S) /\ C(p).made \in Seq(S)
    <2> DEFINE S == MadeAt("CCF", p, site)
    <2>1. T(p).made \in Seq(S)
        BY <1>1, TargetComparisonsSound DEF Sound, Places
    <2>2. StartCount(T(p).made) \in Nat
        BY <2>1, SeqFacts DEF StartCount
    <2>3. C(p).made \in Seq(S)
        <3> DEFINE start == StartCount(T(p).made)
        <3> HIDE DEF start
        <3>1. Sound("CCF", p, site, ConditionComparisons(p, site, start))
            BY <1>1, <2>2, ConditionComparisonsSound DEF start
        <3> QED BY <3>1 DEF Sound, start
    <2> QED BY <2>1, <2>3
<1>2. site \in Places(d)
    BY DEF Places
<1>3. /\ ~T(d).threw /\ ~C(d).threw
      /\ RuleComparisons(d, site) = Made(T(d).made \o C(d).made, d)
    BY OnlyMakes DEF RuleComparisons
<1>4. Makes(T(d), q) \/ Makes(C(d), q)
    <2>1. PICK S : T(d).made \in Seq(S) /\ C(d).made \in Seq(S)
        BY <1>1
    <2> DEFINE l == T(d).made
               h == C(d).made
               both == l \o h
    <2>2. RuleComparisons(d, site).made = both
        BY <1>0, <1>3, Zenon
    <2>a. l \in Seq(S) /\ h \in Seq(S)
        BY <2>1
    <2> HIDE DEF l, h, both, T, C
    <2>3. PICK k \in DOMAIN both : both[k].policy = q
        BY <2>2 DEF Makes
    <2>b. (\E i \in DOMAIN l : l[i] = both[k]) \/ (\E i \in DOMAIN h : h[i] = both[k])
        BY <2>a, InConcat DEF both
    <2>4. (\E i \in DOMAIN l : l[i].policy = q) \/ (\E i \in DOMAIN h : h[i].policy = q)
        BY <2>3, <2>b
    <2> QED BY <2>4 DEF Makes, l, h
<1>5. ASSUME q \in Documents, site \in Ids(q), ~T(q).threw, ~C(q).threw, Makes(T(q), d) \/ Makes(C(q), d)
      PROVE  Makes(RuleComparisons(q, site), d)
    <2>1. RuleComparisons(q, site) = Made(T(q).made \o C(q).made, q)
        BY <1>5 DEF RuleComparisons
    <2>2. PICK S : T(q).made \in Seq(S) /\ C(q).made \in Seq(S)
        BY <1>1, <1>5
    <2> DEFINE l == T(q).made
               h == C(q).made
               both == l \o h
    <2>a. RuleComparisons(q, site).made = both
        BY <1>0, <2>1, Zenon
    <2>3. (\E i \in DOMAIN l : l[i].policy = d) \/ (\E i \in DOMAIN h : h[i].policy = d)
        BY <1>5 DEF Makes
    <2>b. l \in Seq(S) /\ h \in Seq(S)
        BY <2>2
    <2> HIDE DEF l, h, T, C
    <2>c. /\ \A i \in DOMAIN l : \E k \in DOMAIN (l \o h) : (l \o h)[k] = l[i]
          /\ \A i \in DOMAIN h : \E k \in DOMAIN (l \o h) : (l \o h)[k] = h[i]
        BY <2>b, ConcatHolds, SMTT(30)
    <2> HIDE DEF both
    <2>4. \E k \in DOMAIN both : both[k].policy = d
        BY <2>3, <2>c DEF both
    <2> QED BY <2>a, <2>4 DEF Makes
<1>6. CASE Makes(T(d), q)
    <2>1. /\ q \in Documents /\ Ids(q) = Ids(d) /\ \E t \in Targets : q = WithTarget(d, site, t)
          /\ ~T(q).threw /\ Makes(T(q), d)
        BY <1>2, <1>6, TargetComparisonsUndone
    <2>2. ConditionAt(q, site) = ConditionAt(d, site)
        BY <2>1, ChangedApart
    <2>3. ~C(q).threw
        BY <1>3, <2>2, ThrowsAlike
    <2> QED BY <1>5, <2>1, <2>3
<1>7. CASE Makes(C(d), q)
    <2> DEFINE n == StartCount(T(d).made)
               k == StartCount(T(q).made)
    <2>0. C(d) = ConditionComparisons(d, site, n) /\ C(q) = ConditionComparisons(q, site, k)
        OBVIOUS
    <2> HIDE DEF n, k
    <2>a. Makes(ConditionComparisons(d, site, n), q)
        BY <1>7 DEF n
    <2>b. /\ q \in Documents /\ Ids(q) = Ids(d)
          /\ \E c \in Conditions(Forms \cup {"conflict"}) : q = WithCondition(d, site, c)
          /\ ~ConditionComparisons(q, site, k).threw /\ Makes(ConditionComparisons(q, site, k), d)
        BY <2>a, ConditionComparisonsUndone
    <2>1. /\ q \in Documents /\ Ids(q) = Ids(d)
          /\ \E c \in Conditions(Forms \cup {"conflict"}) : q = WithCondition(d, site, c)
          /\ ~C(q).threw /\ Makes(C(q), d)
        BY <2>b DEF k
    <2>2. TargetAt(q, site) = TargetAt(d, site)
        BY <2>1, ChangedApart
    <2>3. ~T(q).threw
        BY <1>3, <2>2, ThrowsAlike
    <2> QED BY <1>5, <2>1, <2>3
<1>8. q \in Documents /\ Ids(q) = Ids(d)
    <2>1. CASE Makes(T(d), q)
        BY <1>2, <2>1, TargetComparisonsUndone
    <2>2. CASE Makes(C(d), q)
        BY <2>2, ConditionComparisonsUndone
    <2> QED BY <1>4, <2>1, <2>2
<1> QED BY <1>4, <1>6, <1>7, <1>8

\* A flipped effect, another comparison or algorithm, a negation more or less
\* and a rule more are undone by one method at one element.
LEMMA MutantUndone ==
    ASSUME NEW d \in Documents, ~(NewRuleIds \subseteq Ids(d)), NEW site \in Places(d),
           NEW method \in {"CRE", "CCF", "CRC", "ANF", "RNF", "ANR"}, Applicable(method, site),
           NEW q, Makes(Outcome(method, d, site), q)
    PROVE  \E s \in Places(q) :
               Applicable(UndoneBy(method), s) /\ Makes(Outcome(UndoneBy(method), q, s), d)
<1>1. CASE site = PolicyTarget
    <2>1. PolicyTarget \in Places(q)
        BY DEF Places
    <2>2. method \in {"CCF", "CRC"}
        BY <1>1 DEF Applicable, TargetMethods
    <2>3. UndoneBy(method) = method
        BY <2>2 DEF UndoneBy
    <2>4. CASE method = "CCF"
        <3>1. \A p : Outcome(method, p, site) = TargetComparisons(p, site)
            BY <1>1, <2>4 DEF Outcome
        <3>2. Makes(TargetComparisons(d, site), q)
            BY <3>1
        <3>3. Makes(TargetComparisons(q, site), d)
            BY <3>2, TargetComparisonsUndone
        <3> QED BY <1>1, <2>1, <2>3, <3>1, <3>3
    <2>5. CASE method = "CRC"
        <3>1. \A p : Outcome(method, p, site) = CombiningAlgorithm(p)
            BY <1>1, <2>5 DEF Outcome
        <3>2. Makes(CombiningAlgorithm(d), q)
            BY <3>1
        <3>3. Makes(CombiningAlgorithm(q), d)
            BY <3>2, AlgorithmUndone
        <3> QED BY <1>1, <2>1, <2>3, <3>1, <3>3
    <2> QED BY <2>2, <2>4, <2>5
<1>2. CASE site # PolicyTarget
    <2>1. site \in Ids(d)
        BY <1>2 DEF Places
    <2>2. method \in {"CRE", "CCF", "ANF", "RNF", "ANR"}
        BY <1>2 DEF Applicable, RuleMethods
    <2>3. \A s : s # PolicyTarget => Applicable(UndoneBy(method), s)
        BY <2>2 DEF Applicable, RuleMethods, UndoneBy
    <2>4. CASE method = "CRE"
        <3>1. \A p : Outcome("CRE", p, site) = RuleEffectFlipping(p, site)
            BY DEF Outcome
        <3>2. Makes(RuleEffectFlipping(d, site), q)
            BY <2>4, <3>1
        <3>3. site \in Ids(q) /\ Makes(RuleEffectFlipping(q, site), d)
            BY <2>1, <3>2, FlippingUndone
        <3>4. UndoneBy(method) = "CRE"
            BY <2>4 DEF UndoneBy
        <3> QED BY <1>2, <2>3, <3>1, <3>3, <3>4 DEF Places
    <2>5. CASE method = "CCF"
        <3>1. \A p : Outcome("CCF", p, site) = RuleComparisons(p, site)
            BY <1>2 DEF Outcome
        <3>2. Makes(RuleComparisons(d, site), q)
            BY <2>5, <3>1
        <3>3. site \in Ids(q) /\ Makes(RuleComparisons(q, site), d)
            BY <2>1, <3>2, RuleComparisonsUndone
        <3>4. UndoneBy(method) = "CCF"
            BY <2>5 DEF UndoneBy
        <3> QED BY <1>2, <2>3, <3>1, <3>3, <3>4 DEF Places
    <2>6. CASE method = "ANF"
        <3>1. \A p : Outcome("ANF", p, site) = AddNot(p, site) /\ Outcome("RNF", p, site) = RemoveNot(p, site)
            BY DEF Outcome
        <3>2. Makes(AddNot(d, site), q)
            BY <2>6, <3>1
        <3>3. site \in Ids(q) /\ Makes(RemoveNot(q, site), d)
            BY <2>1, <3>2, NotUndone
        <3>4. UndoneBy(method) = "RNF"
            BY <2>6 DEF UndoneBy
        <3> QED BY <1>2, <2>3, <3>1, <3>3, <3>4 DEF Places
    <2>7. CASE method = "RNF"
        <3>1. \A p : Outcome("ANF", p, site) = AddNot(p, site) /\ Outcome("RNF", p, site) = RemoveNot(p, site)
            BY DEF Outcome
        <3>2. Makes(RemoveNot(d, site), q)
            BY <2>7, <3>1
        <3>3. site \in Ids(q) /\ Makes(AddNot(q, site), d)
            BY <2>1, <3>2, NotUndone
        <3>4. UndoneBy(method) = "ANF"
            BY <2>7 DEF UndoneBy
        <3> QED BY <1>2, <2>3, <3>1, <3>3, <3>4 DEF Places
    <2>8. CASE method = "ANR"
        <3>1. \A p, s : Outcome("ANR", p, s) = AddNewRule(p, s) /\ Outcome("RER", p, s) = RemoveRule(p, s)
            BY DEF Outcome
        <3>2. Makes(AddNewRule(d, site), q)
            BY <2>8, <3>1
        <3>3. NewRuleId(d) \in Ids(q) /\ Makes(RemoveRule(q, NewRuleId(d)), d)
            BY <2>1, <3>2, AddingUndone
        <3>4. UndoneBy(method) = "RER"
            BY <2>8 DEF UndoneBy
        <3>5. NewRuleId(d) # PolicyTarget
            BY NewIdFacts, PoliciesAssumption
        <3> QED BY <2>3, <3>1, <3>3, <3>4, <3>5 DEF Places
    <2> QED BY <2>2, <2>4, <2>5, <2>6, <2>7, <2>8
<1> QED BY <1>1, <1>2

-----------------------------------------------------------------------------
(* The targets of TargetFalse.                                             *)

LEMMA TargetFalseMakes ==
    ASSUME NEW d \in Documents, NEW site \in Places(d), NEW q, Makes(TargetFalse(d, site), q)
    PROVE  /\ TargetAt(d, site) \in Targets /\ TargetAt(d, site) # <<>> /\ q \in Documents
           /\ TargetAt(q, site) = FalseTarget(TargetAt(d, site))
           /\ \A l \in DOMAIN d.rules : Site(d.rules[l]) = site => l \in DOMAIN q.rules /\ Site(q.rules[l]) = site
<1> DEFINE t == TargetAt(d, site)
<1>1. t \in Targets
    <2>1. <<>> \in Targets
        BY DEF Targets
    <2> QED BY <2>1, WithTargetFacts
<1>2. t # <<>> /\ q = WithTarget(d, site, FalseTarget(t))
    BY OnlyMakes DEF TargetFalse, FalseTarget
<1> HIDE DEF t
<1>3. FalseTarget(t) \in Targets
    BY <1>1, <1>2, FalseTargetFacts
<1>4. /\ q \in Documents /\ Ids(q) = Ids(d) /\ SameElsewhere(d, site, q)
      /\ DOMAIN q.rules = DOMAIN d.rules /\ TargetAt(q, site) = FalseTarget(t)
    BY <1>2, <1>3, WithTargetFacts
<1>5. ASSUME NEW l \in DOMAIN d.rules, Site(d.rules[l]) = site
      PROVE  l \in DOMAIN q.rules /\ Site(q.rules[l]) = site
    <2>1. site \in Ids(q)
        BY <1>4, <1>5 DEF Ids
    <2>2. PICK k \in DOMAIN q.rules : Site(q.rules[k]) = site
        BY <2>1 DEF Ids
    <2>3. Site(d.rules[k]) = site
        BY <1>4, <2>2 DEF SameElsewhere
    <2>4. k = l
        BY <1>4, <1>5, <2>2, <2>3, DocumentFacts
    <2> QED BY <2>2, <2>4
<1> QED BY <1>1, <1>2, <1>4, <1>5 DEF t

LEMMA ConflictDemands ==
    ASSUME NEW allOf \in AllOfs
    PROVE  \E i, j \in DOMAIN Conflict(allOf) :
               LET m == Conflict(allOf)[i]
                   n == Conflict(allOf)[j]
               IN  /\ m.function = "equal" /\ n.function = "equal" /\ m.attribute = n.attribute
                   /\ m.attribute \in Attributes /\ m.value # n.value
<1> DEFINE e == allOf[1]
           demand(k) == [e EXCEPT !.function = "equal", !.value = UnequalValues(e.type)[k]]
           two == <<demand(1), demand(2)>>
           n == Len(allOf)
<1>1. allOf \in Seq(Matches) /\ allOf # <<>> /\ n \in Nat /\ n # 0
    BY SeqFacts, EmptySeq DEF AllOfs
<1>2. e \in Matches
    BY <1>1
<1>3. UnequalValues(e.type)[1] # UnequalValues(e.type)[2]
    BY DEF UnequalValues
<1>4. Conflict(allOf) = allOf \o two
    BY DEF Conflict
<1> HIDE DEF e
<1>5. /\ demand(1).function = "equal" /\ demand(2).function = "equal"
      /\ demand(1).attribute = e.attribute /\ demand(2).attribute = e.attribute /\ e.attribute \in Attributes
      /\ demand(1).value # demand(2).value
    BY <1>2, <1>3 DEF Matches
<1> DEFINE S == Matches \cup {demand(1), demand(2)}
<1> HIDE DEF demand
<1>6. two \in Seq(S) /\ Len(two) = 2 /\ two[1] = demand(1) /\ two[2] = demand(2)
    OBVIOUS
<1>7. allOf \in Seq(S)
    BY <1>1
<1> HIDE DEF two, S
<1> DEFINE c == allOf \o two
<1>8. c \in Seq(S) /\ Len(c) = n + 2 /\ \A i \in 1..n + 2 : c[i] = IF i <= n THEN allOf[i] ELSE two[i - n]
    <2>1. /\ c \in Seq(S) /\ Len(c) = n + Len(two)
          /\ \A i \in 1..n + Len(two) : c[i] = IF i <= n THEN allOf[i] ELSE two[i - n]
        BY <1>6, <1>7, ConcatProperties
    <2> QED BY <1>6, <2>1
<1> HIDE DEF c
<1>9. DOMAIN c = 1..n + 2
    BY <1>8, SeqFacts
<1> HIDE DEF n
<1>10. n + 1 \in DOMAIN c /\ n + 2 \in DOMAIN c /\ c[n + 1] = demand(1) /\ c[n + 2] = demand(2)
    <2> DEFINE a == n + 1
               b == n + 2
    <2>1. a \in 1..n + 2 /\ ~(a <= n) /\ a - n = 1
        BY <1>1
    <2>2. b \in 1..n + 2 /\ ~(b <= n) /\ b - n = 2
        BY <1>1
    <2> HIDE DEF a, b
    <2>3. a \in DOMAIN c /\ c[a] = two[1]
        BY <1>8, <1>9, <2>1
    <2>4. b \in DOMAIN c /\ c[b] = two[2]
        BY <1>8, <1>9, <2>2
    <2> QED BY <1>6, <2>3, <2>4 DEF a, b
<1>11. Conflict(allOf) = c
    BY <1>4 DEF c
<1> QED BY <1>5, <1>10, <1>11

\* No value is equal to both of two others.
LEMMA DemandsConflict ==
    ASSUME NEW bag, IsFiniteSet(bag), Cardinality(bag) <= 1, NEW m, NEW n,
           m.function = "equal", n.function = "equal", m.value # n.value
    PROVE  \/ MatchBag({Holds(m, value) : value \in bag}) = "NoMatch"
           \/ MatchBag({Holds(n, value) : value \in bag}) = "NoMatch"
<1>1. Cardinality(bag) = 0 \/ Cardinality(bag) = 1
    BY FS_CardinalityType
<1>2. bag = {} \/ \E v : bag = {v}
    BY <1>1, FS_EmptySet, FS_Singleton
<1>3. CASE bag = {}
    BY <1>3 DEF MatchBag, AnyMatches
<1>4. CASE \E v : bag = {v}
    <2>1. PICK v : bag = {v}
        BY <1>4
    <2>2. \/ {Holds(m, value) : value \in bag} = {"NoMatch"}
          \/ {Holds(n, value) : value \in bag} = {"NoMatch"}
        BY <2>1 DEF Holds
    <2>3. MatchBag({"NoMatch"}) = "NoMatch"
        BY DEF MatchBag, AnyMatches
    <2> QED BY <2>2, <2>3
<1> QED BY <1>2, <1>3, <1>4

LEMMA FalseTargetNeverMatches ==
    ASSUME NEW t \in Targets, t # <<>>, NEW request \in Requests,
           \A attribute \in DOMAIN request : Cardinality(request[attribute]) <= 1
    PROVE  TargetResult(FalseTarget(t), request) # "Match"
<1> DEFINE f == FalseTarget(t)
           Bag(match) == {Holds(match, value) : value \in request[match.attribute]}
           Bags(allOf) == {Bag(allOf[m]) : m \in DOMAIN allOf}
           AllOfSet(anyOf) == {Bags(anyOf[a]) : a \in DOMAIN anyOf}
<1>1. /\ 1 \in DOMAIN t /\ \A a \in DOMAIN t[1] : t[1][a] \in AllOfs
      /\ DOMAIN f = DOMAIN t /\ DOMAIN f[1] = DOMAIN t[1]
      /\ \A a \in DOMAIN f[1] : f[1][a] = Conflict(t[1][a])
    <2>1. 1 \in DOMAIN t /\ t[1] \in Seq(AllOfs)
        BY TargetFacts
    <2>2. \A a \in DOMAIN t[1] : t[1][a] \in AllOfs
        BY <2>1, SeqFacts
    <2>3. \A a \in DOMAIN t[1] : <<1, a>> \in Reached(t)
        BY <2>1 DEF Reached
    <2>4. /\ DOMAIN f = DOMAIN t /\ DOMAIN f[1] = DOMAIN t[1]
          /\ \A a \in DOMAIN t[1] : f[1][a] = Conflict(t[1][a])
        BY <2>1, <2>3 DEF FalseTarget
    <2> QED BY <2>1, <2>2, <2>4
<1> HIDE DEF f
<1>2. ASSUME NEW a \in DOMAIN f[1] PROVE AllOfMatch(Bags(f[1][a])) = "NoMatch"
    <2> DEFINE c == f[1][a]
    <2>1. PICK i, j \in DOMAIN c :
              /\ c[i].function = "equal" /\ c[j].function = "equal" /\ c[i].attribute = c[j].attribute
              /\ c[i].attribute \in Attributes /\ c[i].value # c[j].value
        BY <1>1, ConflictDemands
    <2> HIDE DEF c
    <2>2. c[i].attribute \in DOMAIN request /\ IsFiniteSet(request[c[i].attribute])
        BY <2>1, PoliciesAssumption
    <2>3. MatchBag(Bag(c[i])) = "NoMatch" \/ MatchBag(Bag(c[j])) = "NoMatch"
        BY <2>1, <2>2, DemandsConflict
    <2>4. Bag(c[i]) \in Bags(c) /\ Bag(c[j]) \in Bags(c)
        BY <2>1
    <2> HIDE DEF Bag, Bags
    <2>5. "NoMatch" \in {MatchBag(bag) : bag \in Bags(c)}
        BY <2>3, <2>4
    <2>6. AllOfMatch(Bags(c)) = "NoMatch"
        BY <2>5 DEF AllOfMatch, AllMatch
    <2> QED BY <2>6 DEF c
<1> HIDE DEF Bag, Bags
<1>3. AnyOfMatch(AllOfSet(f[1])) \in {"NoMatch", "Error"}
    <2>1. \A allOf \in AllOfSet(f[1]) : AllOfMatch(allOf) = "NoMatch"
        BY <1>2
    <2> HIDE DEF AllOfSet
    <2>2. "Match" \notin {AllOfMatch(allOf) : allOf \in AllOfSet(f[1])}
        BY <2>1
    <2> QED BY <2>2 DEF AnyOfMatch, AnyMatches
<1> DEFINE target == {AllOfSet(f[j]) : j \in DOMAIN f}
<1>4. AllOfSet(f[1]) \in target
    BY <1>1
<1>5. TargetResult(f, request) = TargetMatch(target)
    BY DEF TargetResult, AllOfSet, Bags, Bag
<1> HIDE DEF AllOfSet, target
<1>6. {"NoMatch", "Error"} \cap {AnyOfMatch(anyOf) : anyOf \in target} # {}
    BY <1>3, <1>4
<1>7. TargetMatch(target) # "Match"
    BY <1>6 DEF TargetMatch, AllMatch
<1> QED BY <1>5, <1>7 DEF f

-----------------------------------------------------------------------------
(* The invariant.                                                          *)

Steps == (RuleMethods \cup TargetMethods) \X Nat \X Seq(Nat)
Records ==
    {m \in [policy : Documents, name : Seq(Steps), faults : Seq(Nat)] :
        /\ Len(m.faults) = Len(m.name)
        /\ \A k \in DOMAIN m.name : m.faults[k] = m.name[k][2]}
LastStep(m) == m.name[Len(m.name)]

\* FaultsAreLocal, of one mutant.
Local(m) ==
    (\A k \in DOMAIN m.name : m.name[k][1] \notin Shifting) =>
        /\ Len(m.policy.rules) = Len(base.rules)
        /\ \A location \in 0..Len(base.rules) :
              location \notin ToSet(m.faults) =>
                  ElementAt(m.policy, location) = ElementAt(base, location)

\* There is an id for one more rule.
HasRoom(d) == ~(NewRuleIds \subseteq Ids(d))

SourceInv ==
    /\ base \in Policies /\ aborted \in BOOLEAN /\ IsFiniteSet(done)
    /\ source \in Records /\ Local(source) /\ HasRoom(source.policy)
    /\ Len(source.name) \in {0, 1}
    /\ Len(source.name) = 0 => source.policy = base
    /\ ~aborted => doc = source.policy

\* A mutant of the Mutator at work comes of a call that is done.
MutantsInv ==
    \A m \in mutants :
        /\ m \in Records /\ Local(m) /\ Len(m.name) \in 1..MaxCalls
        /\ Len(m.name) = 1 => HasRoom(m.policy)
        /\ Len(m.name) <= Len(source.name) + 1
        /\ Len(m.name) = Len(source.name) + 1 =>
              \E site \in Places(source.policy) :
                  <<LastStep(m)[1], site>> \in done /\ LastStep(m)[2] = FaultLocation(site)

FilesInv ==
    /\ DOMAIN files = {m.name : m \in mutants}
    /\ \A n \in DOMAIN files : \E m \in mutants : m.name = n /\ m.policy = files[n]
    /\ SavedAsCreated

IInv == SourceInv /\ MutantsInv /\ FilesInv

\* A mutant was made of a policy, for a mutant of first order the one under
\* mutation, at the element that its last fault location stands for.
Origin(m) ==
    \E d \in Documents : \E site \in Places(d) :
        /\ Applicable(LastStep(m)[1], site)
        /\ Makes(Outcome(LastStep(m)[1], d, site), m.policy)
        /\ Len(m.name) = 1 => d = base
        /\ LastStep(m)[2] = 0 <=> site = PolicyTarget
        /\ LastStep(m)[2] # 0 =>
              LastStep(m)[2] \in DOMAIN d.rules /\ Site(d.rules[LastStep(m)[2]]) = site

OriginInv == \A m \in mutants : Origin(m)

LEMMA BaseIsDocument ==
    ASSUME NEW d \in Policies
    PROVE  d \in Documents /\ Ids(d) \cap NewRuleIds = {}
<1>1. Conditions(Forms) \subseteq Conditions(Forms \cup {"conflict"})
    <2> DEFINE C == Expressions(Forms)
               D == Expressions(Forms \cup {"conflict"})
    <2>1. C \subseteq D
        BY DEF Expressions
    <2> HIDE DEF C, D
    <2>2. Seq(C) \subseteq Seq(D)
        BY <2>1
    <2> QED BY <2>2 DEF Conditions, C, D
<1>2. RulesOf(Forms) \subseteq RuleRecords
    BY <1>1 DEF RulesOf, RuleRecords
<1> DEFINE R == RulesOf(Forms)
<1>3. d \in PoliciesOf(Forms)
    BY PoliciesAssumption
<1>4. Seq(R) \subseteq Seq(RuleRecords)
    <2> HIDE DEF R
    <2>1. R \subseteq RuleRecords
        BY <1>2 DEF R
    <2> QED BY <2>1
<1>5. d \in Documents
    BY <1>3, <1>4 DEF PoliciesOf, Documents, RuleRecords
<1>6. Ids(d) \cap NewRuleIds = {}
    BY PoliciesAssumption DEF Ids
<1> QED BY <1>5, <1>6

LEMMA SitesFacts ==
    ASSUME NEW d \in Documents
    PROVE  /\ ToSet(Sites(d)) = Places(d)
           /\ Len(Sites(d)) = Len(d.rules) + 1 /\ DOMAIN Sites(d) = 1..Len(d.rules) + 1
           /\ \A i \in 1..Len(d.rules) + 1 :
                  Sites(d)[i] = IF i = 1 THEN PolicyTarget ELSE Site(d.rules[i - 1])
<1> DEFINE ids == [k \in DOMAIN d.rules |-> Site(d.rules[k])]
           one == <<PolicyTarget>>
           n == Len(d.rules)
           S == Places(d)
<1>1. n \in Nat /\ DOMAIN d.rules = 1..n
    BY DocumentFacts
<1>2. ids \in Seq(S) /\ Len(ids) = n /\ \A k \in 1..n : ids[k] = Site(d.rules[k])
    <2>1. ids \in [1..n -> S]
        BY <1>1 DEF Places, Ids
    <2>2. \A k \in 1..n : ids[k] = Site(d.rules[k])
        BY <1>1
    <2> HIDE DEF ids, n, S
    <2>3. ids \in Seq(S) /\ Len(ids) = n
        BY <1>1, <2>1
    <2> QED BY <2>2, <2>3
<1>3. one \in Seq(S) /\ Len(one) = 1 /\ one[1] = PolicyTarget
    <2>1. PolicyTarget \in S
        BY DEF Places
    <2> HIDE DEF S
    <2> QED BY <2>1
<1>4. Sites(d) = one \o ids
    BY DEF Sites
<1> HIDE DEF ids, one, n, S
<1>5. /\ Sites(d) \in Seq(S) /\ Len(Sites(d)) = n + 1 /\ DOMAIN Sites(d) = 1..n + 1
      /\ \A i \in 1..n + 1 : Sites(d)[i] = IF i <= 1 THEN one[i] ELSE ids[i - 1]
    <2>1. /\ one \o ids \in Seq(S) /\ Len(one \o ids) = Len(one) + Len(ids)
          /\ \A i \in 1..Len(one) + Len(ids) :
                (one \o ids)[i] = IF i <= Len(one) THEN one[i] ELSE ids[i - Len(one)]
        BY <1>2, <1>3, ConcatProperties
    <2>2. Len(one) + Len(ids) = n + 1 /\ Len(one) = 1
        BY <1>1, <1>2, <1>3
    <2>3. /\ Sites(d) \in Seq(S) /\ Len(Sites(d)) = n + 1
          /\ \A i \in 1..n + 1 : Sites(d)[i] = IF i <= 1 THEN one[i] ELSE ids[i - 1]
        BY <1>4, <2>1, <2>2
    <2> QED BY <2>3, SeqFacts
<1>6. \A i \in 1..n + 1 : Sites(d)[i] = IF i = 1 THEN PolicyTarget ELSE Site(d.rules[i - 1])
    <2> TAKE i \in 1..n + 1
    <2>1. CASE i = 1
        BY <1>3, <1>5, <2>1
    <2>2. CASE i # 1
        <3>1. ~(i <= 1) /\ i - 1 \in 1..n
            BY <1>1, <2>2
        <3> QED BY <1>2, <1>5, <2>2, <3>1
    <2> QED BY <2>1, <2>2
<1>7. ToSet(Sites(d)) = Places(d)
    <2>1. ToSet(Sites(d)) = {Sites(d)[i] : i \in 1..n + 1}
        BY <1>5 DEF ToSet
    <2>2. 1 \in 1..n + 1
        BY <1>1
    <2>3. \A k \in 1..n : k + 1 \in 1..n + 1 /\ k + 1 # 1 /\ k + 1 - 1 = k
        BY <1>1
    <2>4. \A i \in 1..n + 1 : i # 1 => i - 1 \in 1..n
        BY <1>1
    <2>5. Ids(d) = {Site(d.rules[k]) : k \in 1..n}
        BY <1>1 DEF Ids
    <2>6. Places(d) \subseteq ToSet(Sites(d))
        <3>1. PolicyTarget \in ToSet(Sites(d))
            BY <1>6, <2>1, <2>2
        <3>2. ASSUME NEW k \in 1..n PROVE Site(d.rules[k]) \in ToSet(Sites(d))
            <4>1. Sites(d)[k + 1] = Site(d.rules[k])
                BY <1>6, <2>3
            <4> QED BY <2>1, <2>3, <4>1
        <3> QED BY <2>5, <3>1, <3>2 DEF Places
    <2>7. ToSet(Sites(d)) \subseteq Places(d)
        BY <1>6, <2>1, <2>4, <2>5 DEF Places
    <2> QED BY <2>6, <2>7
<1> QED BY <1>5, <1>6, <1>7 DEF n

\* A fault location and the element it stands for.
LEMMA LocationFacts ==
    ASSUME source.policy \in Documents, NEW site \in Places(source.policy)
    PROVE  /\ FaultLocation(site) \in 0..Len(source.policy.rules)
           /\ FaultLocation(site) = 0 <=> site = PolicyTarget
           /\ FaultLocation(site) # 0 => Site(source.policy.rules[FaultLocation(site)]) = site
<1> DEFINE d == source.policy
           n == Len(d.rules)
           I == {i \in 1..Len(Sites(d)) : Sites(d)[i] = site}
<1>1. /\ ToSet(Sites(d)) = Places(d) /\ Len(Sites(d)) = n + 1 /\ DOMAIN Sites(d) = 1..n + 1
      /\ \A i \in 1..n + 1 : Sites(d)[i] = IF i = 1 THEN PolicyTarget ELSE Site(d.rules[i - 1])
    BY SitesFacts
<1>2. n \in Nat /\ PolicyTarget \notin Ids(d) /\ DOMAIN d.rules = 1..n
    BY DocumentFacts
<1>3. FaultLocation(site) = (IF I # {} THEN Min(I) ELSE 0) - 1
    BY DEF FaultLocation, SelectInSeq
<1>4. I = {i \in 1..n + 1 : Sites(d)[i] = site}
    BY <1>1
<1>5. I # {} /\ I \in SUBSET Nat
    <2>1. \E i \in 1..n + 1 : Sites(d)[i] = site
        BY <1>1 DEF ToSet
    <2> HIDE DEF n
    <2> QED BY <1>2, <1>4, <2>1
<1>6. Min(I) \in I
    BY <1>5, LeastOf
<1> HIDE DEF d, n, I
<1>7. Min(I) \in 1..n + 1 /\ Sites(d)[Min(I)] = site
    BY <1>4, <1>6
<1>8. FaultLocation(site) = Min(I) - 1
    BY <1>3, <1>5
<1> DEFINE m == Min(I)
<1> HIDE DEF m
<1>9. m \in 1..n + 1 /\ Sites(d)[m] = site /\ FaultLocation(site) = m - 1
    BY <1>7, <1>8 DEF m
<1>10. CASE m = 1
    <2>1. site = PolicyTarget /\ FaultLocation(site) = 0
        BY <1>1, <1>9, <1>10
    <2>2. 0 \in 0..n
        BY <1>2
    <2> QED BY <2>1, <2>2 DEF d, n
<1>11. CASE m # 1
    <2>1. m - 1 \in 1..n /\ m - 1 # 0 /\ m - 1 \in 0..n
        BY <1>2, <1>9, <1>11
    <2>2. site = Site(d.rules[m - 1])
        BY <1>1, <1>9, <1>11
    <2>3. site \in Ids(d)
        BY <1>2, <2>1, <2>2 DEF Ids
    <2> QED BY <1>2, <1>9, <2>1, <2>2, <2>3 DEF d, n
<1> QED BY <1>10, <1>11

-----------------------------------------------------------------------------
(* The steps.                                                              *)

LEMMA AppendFacts ==
    ASSUME NEW S, NEW s \in Seq(S), NEW e \in S
    PROVE  /\ Append(s, e) \in Seq(S) /\ Len(Append(s, e)) = Len(s) + 1
           /\ DOMAIN Append(s, e) = 1..Len(s) + 1 /\ Append(s, e)[Len(s) + 1] = e
           /\ \A k \in 1..Len(s) : Append(s, e)[k] = s[k]
<1>1. Len(s) \in Nat
    BY SeqFacts
<1>2. /\ Append(s, e) \in Seq(S) /\ Len(Append(s, e)) = Len(s) + 1
      /\ Append(s, e)[Len(s) + 1] = e
      /\ \A k \in 1..Len(s) : Append(s, e)[k] = s[k]
    BY AppendProperties
<1> QED BY <1>2, SeqFacts

LEMMA LocalElements ==
    ASSUME NEW d \in Documents, NEW q \in Documents, NEW site \in Places(d), SameElsewhere(d, site, q),
           NEW l \in 0..Len(d.rules), l = 0 <=> site = PolicyTarget, l # 0 => Site(d.rules[l]) = site
    PROVE  /\ Len(q.rules) = Len(d.rules)
           /\ \A location \in 0..Len(d.rules) :
                 location # l => ElementAt(q, location) = ElementAt(d, location)
<1>1. /\ Len(d.rules) \in Nat /\ DOMAIN d.rules = 1..Len(d.rules)
      /\ Len(q.rules) \in Nat /\ DOMAIN q.rules = 1..Len(q.rules) /\ DOMAIN q.rules = DOMAIN d.rules
      /\ q.rules \in Seq(RuleRecords) /\ d.rules \in Seq(RuleRecords)
      /\ PolicyTarget \notin Ids(d)
      /\ \A k, j \in DOMAIN d.rules : Site(d.rules[k]) = Site(d.rules[j]) => k = j
    BY DocumentFacts DEF SameElsewhere
<1>2. Len(q.rules) = Len(d.rules)
    <2> DEFINE m == Len(q.rules)
               n == Len(d.rules)
    <2>1. m \in Nat /\ n \in Nat /\ 1..m = 1..n
        BY <1>1
    <2> HIDE DEF m, n
    <2>2. m = n
        BY <2>1
    <2> QED BY <2>2 DEF m, n
<1>3. ASSUME NEW location \in 0..Len(d.rules), location # l
      PROVE  ElementAt(q, location) = ElementAt(d, location)
    <2>1. CASE location = 0
        <3>1. site # PolicyTarget
            BY <1>3, <2>1
        <3> QED BY <2>1, <3>1 DEF SameElsewhere, ElementAt
    <2>2. CASE location # 0
        <3>1. location \in DOMAIN d.rules
            BY <1>1, <2>2
        <3>2. Site(d.rules[location]) # site
            <4>1. CASE site = PolicyTarget
                BY <1>1, <3>1, <4>1 DEF Ids
            <4>2. CASE site # PolicyTarget
                <5>1. l \in DOMAIN d.rules /\ Site(d.rules[l]) = site
                    BY <1>1, <4>2
                <5> QED BY <1>1, <1>3, <3>1, <5>1
            <4> QED BY <4>1, <4>2
        <3> QED BY <2>2, <3>1, <3>2 DEF SameElsewhere, ElementAt
    <2> QED BY <2>1, <2>2
<1> QED BY <1>2, <1>3

\* What a call makes of the source.
LEMMA MutantFacts ==
    ASSUME IInv, Len(source.name) + Cardinality(done) < MaxCalls,
           NEW site \in Places(source.policy), NEW method \in RuleMethods \cup TargetMethods,
           NEW x \in MadeAt(method, source.policy, site)
    PROVE  LET m == MutantOf(x, method, site)
           IN  /\ m \in Records /\ Local(m) /\ Len(m.name) \in 1..MaxCalls
               /\ Len(m.name) = Len(source.name) + 1
               /\ Len(m.name) = 1 => HasRoom(m.policy)
               /\ LastStep(m) = <<method, FaultLocation(site), x.counts>>
               /\ m.policy = x.policy
<1> DEFINE m == MutantOf(x, method, site)
           d == source.policy
           l == FaultLocation(site)
           step == <<method, l, x.counts>>
<1>1. /\ source \in Records /\ d \in Documents /\ source.name \in Seq(Steps) /\ source.faults \in Seq(Nat)
      /\ Len(source.faults) = Len(source.name)
      /\ \A k \in DOMAIN source.name : source.faults[k] = source.name[k][2]
      /\ Local(source) /\ HasRoom(d) /\ (Len(source.name) = 0 => d = base)
      /\ base \in Policies /\ IsFiniteSet(done) /\ Len(source.name) \in {0, 1}
    BY DEF IInv, SourceInv, Records
<1>2. /\ x.policy \in Documents /\ x.counts \in Seq(Nat)
      /\ Ids(x.policy) \subseteq Ids(d) \cup {NewRuleId(d)}
      /\ method \notin Shifting => SameElsewhere(d, site, x.policy)
    BY DEF MadeAt
<1>3. /\ l \in 0..Len(d.rules)
      /\ l = 0 <=> site = PolicyTarget
      /\ l # 0 => Site(d.rules[l]) = site
    BY <1>1, LocationFacts
<1> HIDE DEF l
<1>4. Len(d.rules) \in Nat /\ l \in Nat
    <2>1. Len(d.rules) \in Nat
        BY <1>1, DocumentFacts
    <2> QED BY <1>3, <2>1
<1>5. step \in Steps
    BY <1>2, <1>4 DEF Steps
<1> DEFINE name == Append(source.name, step)
           faults == Append(source.faults, l)
<1>6. m = [name |-> name, faults |-> faults, policy |-> x.policy]
    BY DEF MutantOf, l
<1> DEFINE n == Len(source.name)
<1> HIDE DEF step
<1>7. /\ n \in Nat /\ name \in Seq(Steps) /\ Len(name) = n + 1 /\ DOMAIN name = 1..n + 1
      /\ name[n + 1] = step /\ \A k \in 1..n : name[k] = source.name[k]
    BY <1>1, <1>5, AppendFacts, SeqFacts
<1>8. /\ faults \in Seq(Nat) /\ Len(faults) = n + 1 /\ DOMAIN faults = 1..n + 1
      /\ faults[n + 1] = l /\ \A k \in 1..n : faults[k] = source.faults[k]
    BY <1>1, <1>4, AppendFacts
<1>9. DOMAIN source.name = 1..n /\ DOMAIN source.faults = 1..n
    BY <1>1, SeqFacts
<1> HIDE DEF m, name, faults, n
<1>10. /\ m.name = name /\ m.faults = faults /\ m.policy = x.policy
    BY <1>6
<1>11. \A k \in 1..n + 1 : k \in 1..n \/ k = n + 1
    BY <1>7
<1>12. \A k \in DOMAIN name : faults[k] = name[k][2]
    <2>1. step[2] = l
        BY DEF step
    <2> QED BY <1>1, <1>7, <1>8, <1>9, <1>11, <2>1
<1>13. m \in Records
    <2>1. m \in [policy : Documents, name : Seq(Steps), faults : Seq(Nat)]
        BY <1>2, <1>6, <1>7, <1>8
    <2> QED BY <1>7, <1>8, <1>10, <1>12, <2>1 DEF Records
<1>14. Local(m)
    <2> SUFFICES ASSUME \A k \in DOMAIN name : name[k][1] \notin Shifting
                 PROVE  /\ Len(x.policy.rules) = Len(base.rules)
                        /\ \A location \in 0..Len(base.rules) :
                              location \notin ToSet(faults) =>
                                  ElementAt(x.policy, location) = ElementAt(base, location)
        BY <1>10 DEF Local
    <2>1. method \notin Shifting
        <3>1. n + 1 \in DOMAIN name
            BY <1>7
        <3>2. step[1] = method
            BY DEF step
        <3> QED BY <1>7, <3>1, <3>2
    <2>2. \A k \in 1..n : k \in 1..n + 1
        BY <1>7
    <2>3. /\ Len(d.rules) = Len(base.rules)
          /\ \A location \in 0..Len(base.rules) :
                location \notin ToSet(source.faults) =>
                    ElementAt(d, location) = ElementAt(base, location)
        <3>1. \A k \in DOMAIN source.name : source.name[k][1] \notin Shifting
            BY <1>7, <1>9, <2>2
        <3> QED BY <1>1, <3>1 DEF Local
    <2>4. /\ Len(x.policy.rules) = Len(d.rules)
          /\ \A location \in 0..Len(d.rules) :
                location # l => ElementAt(x.policy, location) = ElementAt(d, location)
        BY <1>1, <1>2, <1>3, <2>1, LocalElements
    <2>5. l \in ToSet(faults) /\ ToSet(source.faults) \subseteq ToSet(faults)
        <3>1. n + 1 \in 1..n + 1
            BY <1>7
        <3> QED BY <1>8, <1>9, <2>2, <3>1 DEF ToSet
    <2> QED BY <2>3, <2>4, <2>5
<1>15. n + 1 \in 1..MaxCalls
    <2>1. Cardinality(done) \in Nat
        BY <1>1, FS_CardinalityType
    <2> QED BY <1>7, <2>1, PoliciesAssumption DEF n
<1>16. n = 0 => HasRoom(x.policy)
    <2> SUFFICES ASSUME n = 0 PROVE HasRoom(x.policy)
        OBVIOUS
    <2>1. Ids(d) \cap NewRuleIds = {}
        BY <1>1, BaseIsDocument DEF n
    <2>2. "new1" # "new2" /\ NewRuleIds = {"new1", "new2"}
        BY DEF NewRuleIds
    <2>3. NewRuleIds \cap Ids(x.policy) \subseteq {NewRuleId(d)}
        BY <1>2, <2>1
    <2> QED BY <2>2, <2>3 DEF HasRoom
<1>17. LastStep(m) = step
    BY <1>7, <1>10 DEF LastStep
<1>18. Len(m.name) = n + 1 /\ (Len(m.name) = 1 => HasRoom(m.policy)) /\ Len(m.name) \in 1..MaxCalls
    BY <1>7, <1>10, <1>15, <1>16
<1>19. LastStep(m) = <<method, l, x.counts>>
    BY <1>17 DEF step
<1> HIDE DEF step
<1> QED BY <1>10, <1>13, <1>14, <1>18, <1>19 DEF m, n, l

LEMMA InitIInv == Init => IInv
<1> SUFFICES ASSUME Init PROVE IInv
    OBVIOUS
<1>1. /\ base \in Policies /\ source.policy = base /\ source.name = <<>> /\ source.faults = <<>>
      /\ source = [policy |-> base, name |-> <<>>, faults |-> <<>>]
      /\ doc = base /\ done = {} /\ mutants = {} /\ files = <<>> /\ aborted = FALSE
    BY DEF Init
<1>2. base \in Documents /\ Ids(base) \cap NewRuleIds = {}
    BY <1>1, BaseIsDocument
<1>3. source \in Records
    BY <1>1, <1>2 DEF Records
<1>4. Local(source)
    BY <1>1 DEF Local
<1>5. HasRoom(source.policy)
    BY <1>1, <1>2 DEF HasRoom, NewRuleIds
<1>6. SourceInv
    BY <1>1, <1>3, <1>4, <1>5, FS_EmptySet DEF SourceInv
<1>7. MutantsInv
    BY <1>1 DEF MutantsInv
<1>8. FilesInv
    BY <1>1 DEF FilesInv, SavedAsCreated
<1> QED BY <1>6, <1>7, <1>8 DEF IInv

LEMMA GenerateKeepsIInv ==
    ASSUME IInv, NEW site \in ToSet(Sites(source.policy)),
           NEW method \in RuleMethods \cup TargetMethods, Generate(method, site)
    PROVE  IInv'
<1> DEFINE d == source.policy
           outcome == Outcome(method, doc, site)
           list == outcome.made
           made == [k \in DOMAIN list |-> MutantOf(list[k], method, site)]
           M == MadeAt(method, d, site)
           n == Len(source.name)
           l == FaultLocation(site)
<1>1. /\ ~aborted /\ n + Cardinality(done) < MaxCalls /\ <<method, site>> \notin done
      /\ Applicable(method, site)
      /\ doc' = outcome.doc /\ aborted' = outcome.threw /\ mutants' = mutants \cup ToSet(made)
      /\ files' = Save(made) /\ done' = done \cup {<<method, site>>}
      /\ base' = base /\ source' = source
    BY DEF Generate
<1>2. /\ base \in Policies /\ IsFiniteSet(done) /\ source \in Records /\ Local(source) /\ HasRoom(d)
      /\ n \in {0, 1} /\ doc = d /\ d \in Documents
      /\ n = 0 => d = base
    BY <1>1 DEF IInv, SourceInv, Records
<1>3. site \in Places(d)
    BY <1>2, SitesFacts
<1>4. Sound(method, d, site, outcome)
    BY <1>1, <1>2, <1>3, OutcomeSound DEF HasRoom
<1> HIDE DEF outcome, M
<1>5. /\ list \in Seq(M) /\ outcome.threw \in BOOLEAN /\ (~outcome.threw => outcome.doc = d)
      /\ (method \notin {"ANR", "RPTE"} => CountsDiffer(list))
    BY <1>4 DEF Sound, M
<1> HIDE DEF list
<1>6. Len(list) \in Nat /\ DOMAIN list = 1..Len(list) /\ \A k \in DOMAIN list : list[k] \in M
    BY <1>5, SeqFacts
<1> HIDE DEF n, d
<1>7. ASSUME NEW k \in DOMAIN list
      PROVE  LET m == MutantOf(list[k], method, site)
             IN  /\ m \in Records /\ Local(m) /\ Len(m.name) \in 1..MaxCalls
                 /\ Len(m.name) = n + 1
                 /\ Len(m.name) = 1 => HasRoom(m.policy)
                 /\ LastStep(m) = <<method, l, list[k].counts>>
    <2>1. list[k] \in MadeAt(method, source.policy, site)
        BY <1>6 DEF M, d
    <2> QED BY <1>1, <1>3, <2>1, MutantFacts DEF n, d
<1>8. DOMAIN made = DOMAIN list /\ \A k \in DOMAIN list : made[k] = MutantOf(list[k], method, site)
    OBVIOUS
<1>9. Len(made) = Len(list) /\ ToSet(made) = {made[k] : k \in DOMAIN list}
    <2>1. made = [k \in 1..Len(list) |-> made[k]]
        BY <1>6
    <2> HIDE DEF made
    <2>2. Len(made) = Len(list)
        BY <1>6, <2>1
    <2> QED BY <1>8, <2>2 DEF ToSet
<1> HIDE DEF made, l
<1>10. ASSUME NEW k \in DOMAIN list
       PROVE  /\ made[k] \in Records /\ Local(made[k]) /\ Len(made[k].name) \in 1..MaxCalls
              /\ Len(made[k].name) = n + 1
              /\ Len(made[k].name) = 1 => HasRoom(made[k].policy)
              /\ LastStep(made[k]) = <<method, l, list[k].counts>>
    BY <1>7, <1>8
<1>11. SourceInv'
    <2>1. aborted' \in BOOLEAN /\ (~aborted' => doc' = d)
        BY <1>1, <1>5
    <2>2. IsFiniteSet(done')
        BY <1>1, <1>2, FS_AddElement
    <2>3. Local(source)'
        BY <1>1, <1>2 DEF Local, ElementAt
    <2>4. HasRoom(source.policy)'
        BY <1>1, <1>2 DEF HasRoom, Ids, d
    <2> QED BY <1>1, <1>2, <2>1, <2>2, <2>3, <2>4 DEF SourceInv, d, n
<1>12. ASSUME NEW s PROVE FaultLocation(s)' = FaultLocation(s)
    BY <1>1 DEF FaultLocation, Sites, SelectInSeq
<1>13. MutantsInv'
    <2> SUFFICES ASSUME NEW m \in mutants'
                 PROVE  /\ m \in Records /\ Local(m)' /\ Len(m.name) \in 1..MaxCalls
                        /\ Len(m.name) = 1 => HasRoom(m.policy)
                        /\ Len(m.name) <= Len(source'.name) + 1
                        /\ Len(m.name) = Len(source'.name) + 1 =>
                              \E s \in Places(source'.policy) :
                                  <<LastStep(m)[1], s>> \in done' /\ LastStep(m)[2] = FaultLocation(s)'
        BY DEF MutantsInv
    <2>0. source' = source /\ \A s : FaultLocation(s)' = FaultLocation(s)
        BY <1>1, <1>12
    <2>1. CASE m \in mutants
        <3>1. /\ m \in Records /\ Local(m) /\ Len(m.name) \in 1..MaxCalls
              /\ Len(m.name) = 1 => HasRoom(m.policy)
              /\ Len(m.name) <= Len(source.name) + 1
              /\ Len(m.name) = Len(source.name) + 1 =>
                    \E s \in Places(source.policy) :
                        <<LastStep(m)[1], s>> \in done /\ LastStep(m)[2] = FaultLocation(s)
            BY <2>1 DEF IInv, MutantsInv
        <3>2. Local(m)'
            BY <1>1, <3>1 DEF Local, ElementAt
        <3> QED BY <1>1, <2>0, <3>1, <3>2
    <2>2. CASE m \in ToSet(made)
        <3>1. PICK k \in DOMAIN list : m = made[k]
            BY <1>9, <2>2
        <3>2. /\ m \in Records /\ Local(m) /\ Len(m.name) \in 1..MaxCalls
              /\ Len(m.name) = n + 1
              /\ Len(m.name) = 1 => HasRoom(m.policy)
              /\ LastStep(m) = <<method, l, list[k].counts>>
            BY <1>10, <3>1
        <3>3. Local(m)'
            BY <1>1, <3>2 DEF Local, ElementAt
        <3>4. Len(m.name) <= n + 1
            BY <1>2, <3>2
        <3>5. LastStep(m)[1] = method /\ LastStep(m)[2] = FaultLocation(site)
            BY <3>2 DEF l
        <3>6. <<method, site>> \in done' /\ site \in Places(source.policy)
            BY <1>1, <1>3 DEF d
        <3> QED BY <2>0, <3>2, <3>3, <3>4, <3>5, <3>6 DEF n
    <2> QED BY <1>1, <2>1, <2>2
<1> DEFINE I(name) == {i \in 1..Len(made) : made[i].name = name}
           last(name) == IF I(name) # {} THEN Max(I(name)) ELSE 0
<1>14. /\ DOMAIN files' = DOMAIN files \cup {made[k].name : k \in DOMAIN list}
       /\ \A name \in DOMAIN files' :
             files'[name] = IF last(name) = 0 THEN files[name] ELSE made[last(name)].policy
    BY <1>1, <1>8 DEF Save, SelectLastInSeq
<1>15. ASSUME NEW name
       PROVE  /\ I(name) # {} => last(name) \in I(name) /\ last(name) # 0 /\ last(name) \in DOMAIN list
              /\ I(name) = {} => last(name) = 0
    <2>1. I(name) \in SUBSET (0..Len(made)) /\ Len(made) \in Nat /\ 0 \notin I(name)
        BY <1>6, <1>9
    <2>2. I(name) # {} => Max(I(name)) \in I(name)
        BY <2>1, GreatestOf
    <2>3. I(name) \subseteq DOMAIN list
        BY <1>6, <1>9
    <2> HIDE DEF I
    <2> QED BY <2>1, <2>2, <2>3
<1>16. \A k \in DOMAIN list : k \in I(made[k].name)
    BY <1>6, <1>9
<1>17. \A name : \A i \in I(name) : i \in DOMAIN list /\ made[i].name = name
    BY <1>6, <1>9
<1> HIDE DEF I, last
<1>18. DOMAIN files' = {m.name : m \in mutants'}
    <2>1. DOMAIN files = {m.name : m \in mutants}
        BY DEF IInv, FilesInv
    <2> QED BY <1>1, <1>9, <1>14, <2>1
<1>19. ASSUME NEW name \in DOMAIN files'
       PROVE  \E m \in mutants' : m.name = name /\ m.policy = files'[name]
    <2>1. CASE I(name) # {}
        <3>1. /\ last(name) \in DOMAIN list /\ made[last(name)].name = name
              /\ files'[name] = made[last(name)].policy
            BY <1>14, <1>15, <1>17, <2>1
        <3>2. made[last(name)] \in mutants'
            BY <1>1, <1>9, <3>1
        <3> QED BY <3>1, <3>2
    <2>2. CASE I(name) = {}
        <3>1. name \notin {made[k].name : k \in DOMAIN list}
            BY <1>16, <2>2
        <3>2. name \in DOMAIN files /\ files'[name] = files[name]
            BY <1>14, <1>15, <2>2, <3>1
        <3> QED BY <1>1, <3>2 DEF IInv, FilesInv
    <2> QED BY <2>1, <2>2
<1>20. ASSUME NEW m \in mutants', \A k \in DOMAIN m.name : m.name[k][1] \notin {"ANR", "RPTE"}
       PROVE  files'[m.name] = m.policy
    <2>0. m.name \in DOMAIN files'
        BY <1>18
    <2>1. CASE m \in ToSet(made)
        <3>1. PICK k \in DOMAIN list : m = made[k]
            BY <1>9, <2>1
        <3>2. method \notin {"ANR", "RPTE"}
            <4>1. m \in Records /\ Len(m.name) = n + 1 /\ n \in Nat /\ m.name[Len(m.name)][1] = method
                BY <1>2, <1>10, <3>1 DEF LastStep
            <4>2. m.name \in Seq(Steps)
                BY <4>1 DEF Records
            <4>3. Len(m.name) \in DOMAIN m.name
                <5>1. DOMAIN m.name = 1..Len(m.name)
                    BY <4>2, SeqFacts
                <5> QED BY <4>1, <5>1
            <4> QED BY <1>20, <4>1, <4>3
        <3>3. ASSUME NEW i \in I(m.name) PROVE i = k
            <4>1. i \in DOMAIN list /\ made[i].name = made[k].name
                BY <1>17, <3>1
            <4>2. LastStep(made[i]) = LastStep(made[k])
                BY <4>1 DEF LastStep
            <4>3. LastStep(made[i])[3] = list[i].counts /\ LastStep(made[k])[3] = list[k].counts
                BY <1>10, <4>1
            <4>4. list[i].counts = list[k].counts
                BY <4>2, <4>3
            <4> QED BY <1>5, <3>2, <4>1, <4>4 DEF CountsDiffer
        <3>4. last(m.name) = k /\ last(m.name) # 0
            BY <1>15, <1>16, <3>1, <3>3
        <3> QED BY <1>14, <2>0, <3>1, <3>4
    <2>2. CASE m \in mutants /\ m \notin ToSet(made)
        <3>1. files[m.name] = m.policy
            BY <1>20, <2>2 DEF IInv, FilesInv, SavedAsCreated
        <3>2. I(m.name) = {}
            <4> SUFFICES ASSUME NEW i \in I(m.name) PROVE FALSE
                OBVIOUS
            <4>1. i \in DOMAIN list /\ made[i].name = m.name
                BY <1>17
            <4>2. Len(m.name) = n + 1 /\ LastStep(m) = <<method, l, list[i].counts>>
                BY <1>10, <4>1 DEF LastStep
            <4>3. PICK s \in Places(source.policy) :
                          <<LastStep(m)[1], s>> \in done /\ LastStep(m)[2] = FaultLocation(s)
                BY <2>2, <4>2 DEF IInv, MutantsInv, n
            <4>4. <<method, s>> \in done /\ FaultLocation(s) = FaultLocation(site)
                BY <4>2, <4>3 DEF l
            <4>5. s = site
                <5>1. source.policy \in Documents /\ site \in Places(source.policy)
                    BY <1>2, <1>3 DEF d
                <5> QED BY <4>3, <4>4, <5>1, LocationFacts
            <4> QED BY <1>1, <4>4, <4>5
        <3> QED BY <1>14, <1>15, <2>0, <3>1, <3>2
    <2> QED BY <1>1, <2>1, <2>2
<1>21. FilesInv'
    BY <1>18, <1>19, <1>20 DEF FilesInv, SavedAsCreated
<1> QED BY <1>11, <1>13, <1>21 DEF IInv

\* Two records of one name have the same fault locations.
LEMMA SameFaults ==
    ASSUME NEW m \in Records, NEW o \in Records, m.name = o.name
    PROVE  m.faults = o.faults /\ [m EXCEPT !.policy = o.policy] = o
<1>1. /\ m \in [policy : Documents, name : Seq(Steps), faults : Seq(Nat)]
      /\ o \in [policy : Documents, name : Seq(Steps), faults : Seq(Nat)]
      /\ Len(m.faults) = Len(o.faults) /\ Len(m.name) = Len(m.faults)
      /\ \A k \in DOMAIN m.name : m.faults[k] = o.faults[k]
    BY DEF Records
<1>2. m.faults \in Seq(Nat) /\ o.faults \in Seq(Nat) /\ m.name \in Seq(Steps)
    BY <1>1
<1>3. \A k \in 1..Len(m.faults) : m.faults[k] = o.faults[k]
    BY <1>1, <1>2, SeqFacts
<1>4. m.faults = o.faults
    BY <1>1, <1>2, <1>3, SeqEqual
<1>5. o = [policy |-> o.policy, name |-> o.name, faults |-> o.faults]
    BY <1>1
<1>6. [m EXCEPT !.policy = o.policy] = [policy |-> o.policy, name |-> m.name, faults |-> m.faults]
    BY <1>1
<1> QED BY <1>4, <1>5, <1>6

LEMMA NextMutatorKeepsIInv ==
    ASSUME IInv, NEW m \in mutants, NextMutator(m)
    PROVE  IInv'
<1>1. /\ ~aborted /\ source.name = <<>> /\ source' = [m EXCEPT !.policy = files[m.name]]
      /\ doc' = files[m.name] /\ done' = {} /\ base' = base /\ mutants' = mutants
      /\ files' = files /\ aborted' = aborted
    BY DEF NextMutator
<1>2. m.name \in DOMAIN files
    BY DEF IInv, FilesInv
<1>3. PICK o \in mutants : o.name = m.name /\ o.policy = files[m.name]
    BY <1>2 DEF IInv, FilesInv
<1>4. Len(source.name) = 0
    BY <1>1
<1>5. \A x \in mutants : x \in Records /\ Local(x) /\ Len(x.name) \in 1..MaxCalls /\ Len(x.name) <= 1
    BY <1>4 DEF IInv, MutantsInv
<1>6. \A x \in mutants : Len(x.name) = 1 /\ HasRoom(x.policy)
    <2> TAKE x \in mutants
    <2> DEFINE k == Len(x.name)
    <2>1. k \in 1..MaxCalls /\ k <= 1 /\ MaxCalls \in Nat
        BY <1>5, PoliciesAssumption
    <2> HIDE DEF k
    <2>2. k = 1
        BY <2>1
    <2> QED BY <2>2 DEF k, IInv, MutantsInv
<1>7. source' = o
    BY <1>1, <1>3, <1>5, SameFaults
<1>8. ASSUME NEW x \in mutants PROVE Local(x)'
    BY <1>1, <1>5 DEF Local, ElementAt
<1>9. SourceInv'
    <2>1. base \in Policies /\ aborted \in BOOLEAN
        BY DEF IInv, SourceInv
    <2>2. o \in Records /\ Local(o)' /\ HasRoom(o.policy) /\ Len(o.name) = 1
        BY <1>5, <1>6, <1>8
    <2>3. Local(source)'
        BY <1>1, <1>5, <1>7 DEF Local, ElementAt
    <2>4. HasRoom(source.policy)'
        BY <1>7, <2>2 DEF HasRoom, Ids
    <2> QED BY <1>1, <1>3, <1>7, <2>1, <2>2, <2>3, <2>4, FS_EmptySet DEF SourceInv
<1>10. MutantsInv'
    <2> SUFFICES ASSUME NEW x \in mutants
                 PROVE  /\ x \in Records /\ Local(x)' /\ Len(x.name) \in 1..MaxCalls
                        /\ Len(x.name) = 1 => HasRoom(x.policy)
                        /\ Len(x.name) <= Len(source'.name) + 1 /\ Len(x.name) # Len(source'.name) + 1
        BY <1>1 DEF MutantsInv
    <2>1. Len(source'.name) = 1
        BY <1>6, <1>7
    <2> QED BY <1>5, <1>6, <1>8, <2>1
<1>11. FilesInv'
    BY <1>1 DEF IInv, FilesInv, SavedAsCreated
<1> QED BY <1>9, <1>10, <1>11 DEF IInv

LEMMA IInvHolds == Spec => []IInv
<1>1. ASSUME IInv, [Next]_vars PROVE IInv'
    <2>1. CASE \E site \in ToSet(Sites(source.policy)), method \in RuleMethods \cup TargetMethods :
                  Generate(method, site)
        BY <1>1, <2>1, GenerateKeepsIInv
    <2>2. CASE \E mutant \in mutants : NextMutator(mutant)
        BY <1>1, <2>2, NextMutatorKeepsIInv
    <2>3. CASE UNCHANGED vars
        <3>1. /\ base' = base /\ source' = source /\ doc' = doc /\ done' = done
              /\ mutants' = mutants /\ files' = files /\ aborted' = aborted
            BY <2>3 DEF vars
        <3>2. ASSUME NEW s PROVE FaultLocation(s)' = FaultLocation(s)
            BY <3>1 DEF FaultLocation, Sites, SelectInSeq
        <3>3. ASSUME NEW m PROVE Local(m)' = Local(m)
            BY <3>1 DEF Local, ElementAt
        <3>4. SourceInv'
            BY <1>1, <3>1, <3>3 DEF IInv, SourceInv, HasRoom, Ids
        <3>5. MutantsInv'
            BY <1>1, <3>1, <3>2, <3>3 DEF IInv, MutantsInv, HasRoom, Ids, LastStep, Places
        <3>6. FilesInv'
            BY <1>1, <3>1 DEF IInv, FilesInv, SavedAsCreated
        <3> QED BY <3>4, <3>5, <3>6 DEF IInv
    <2> QED BY <1>1, <2>1, <2>2, <2>3 DEF Next
<1> QED BY <1>1, InitIInv, PTL DEF Spec

LEMMA GenerateKeepsOrigins ==
    ASSUME IInv, OriginInv, NEW site \in ToSet(Sites(source.policy)),
           NEW method \in RuleMethods \cup TargetMethods, Generate(method, site)
    PROVE  OriginInv'
<1> DEFINE d == source.policy
           list == Outcome(method, doc, site).made
           made == [k \in DOMAIN list |-> MutantOf(list[k], method, site)]
           l == FaultLocation(site)
<1>1. /\ ~aborted /\ Len(source.name) + Cardinality(done) < MaxCalls /\ Applicable(method, site)
      /\ mutants' = mutants \cup ToSet(made) /\ base' = base
    BY DEF Generate
<1>2. /\ source \in Records /\ doc = d /\ d \in Documents /\ HasRoom(d) /\ Len(source.name) \in Nat
      /\ Len(source.name) = 0 => d = base
    BY <1>1 DEF IInv, SourceInv, Records
<1>3. site \in Places(d)
    BY <1>2, SitesFacts
<1>4. Sound(method, d, site, Outcome(method, d, site))
    BY <1>1, <1>2, <1>3, OutcomeSound DEF HasRoom
<1>5. l \in 0..Len(d.rules) /\ (l = 0 <=> site = PolicyTarget) /\ (l # 0 => Site(d.rules[l]) = site)
    BY <1>2, <1>3, LocationFacts
<1>6. l # 0 => l \in DOMAIN d.rules
    <2>1. Len(d.rules) \in Nat /\ DOMAIN d.rules = 1..Len(d.rules)
        BY <1>2, DocumentFacts
    <2> HIDE DEF l, d
    <2> QED BY <1>5, <2>1
<1>7. ASSUME NEW m, Origin(m) PROVE Origin(m)'
    BY <1>1, <1>7 DEF Origin
<1>8. ASSUME NEW m \in ToSet(made) PROVE Origin(m)
    <2>1. PICK k \in DOMAIN list : m = MutantOf(list[k], method, site)
        <3>1. DOMAIN made = DOMAIN list /\ \A k \in DOMAIN list : made[k] = MutantOf(list[k], method, site)
            OBVIOUS
        <3> HIDE DEF made, list
        <3> QED BY <3>1 DEF ToSet
    <2> DEFINE x == list[k]
    <2>2. x \in MadeAt(method, d, site)
        <3>1. list \in Seq(MadeAt(method, d, site))
            BY <1>2, <1>4 DEF Sound
        <3> HIDE DEF list
        <3> QED BY <2>1, <3>1, SeqFacts
    <2>3. Makes(Outcome(method, d, site), x.policy)
        BY <1>2, <2>1 DEF Makes
    <2> HIDE DEF x
    <2>4. m = MutantOf(x, method, site)
        BY <2>1 DEF x
    <2>5. /\ Len(m.name) = Len(source.name) + 1 /\ m.policy = x.policy
          /\ LastStep(m) = <<method, l, x.counts>>
        BY <1>1, <1>3, <2>2, <2>4, MutantFacts
    <2>6. LastStep(m)[1] = method /\ LastStep(m)[2] = l
        BY <2>5
    <2>7. Len(m.name) = 1 => d = base
        <3> DEFINE a == Len(m.name)
                   b == Len(source.name)
        <3>1. b \in Nat /\ a = b + 1
            BY <1>2, <2>5
        <3> HIDE DEF a, b
        <3>2. a = 1 => b = 0
            BY <3>1
        <3> QED BY <1>2, <3>2 DEF a, b
    <2> HIDE DEF l
    <2> QED BY <1>1, <1>2, <1>3, <1>5, <1>6, <2>3, <2>5, <2>6, <2>7 DEF Origin
<1> HIDE DEF made
<1> QED BY <1>1, <1>7, <1>8 DEF OriginInv

LEMMA OriginsHold == Spec => []OriginInv
<1>1. Init => OriginInv
    BY DEF Init, OriginInv
<1>2. ASSUME IInv, OriginInv, [Next]_vars PROVE OriginInv'
    <2>1. CASE \E site \in ToSet(Sites(source.policy)), method \in RuleMethods \cup TargetMethods :
                  Generate(method, site)
        BY <1>2, <2>1, GenerateKeepsOrigins
    <2>2. CASE (\E mutant \in mutants : NextMutator(mutant)) \/ UNCHANGED vars
        <3>1. base' = base /\ mutants' = mutants
            BY <2>2 DEF NextMutator, vars
        <3> QED BY <1>2, <3>1 DEF OriginInv, Origin
    <2> QED BY <1>2, <2>1, <2>2 DEF Next
<1> QED BY <1>1, <1>2, IInvHolds, PTL DEF Spec

-----------------------------------------------------------------------------
(* Theorems.                                                               *)

\* The type invariant: every mutant, made by whatever methods of whatever
\* policy, is a policy that loads, with as many fault locations as methods in
\* its name, and each has a file.
THEOREM MutationTypes == Spec => []TypeOK
<1>1. IInv => TypeOK
    <2> SUFFICES ASSUME IInv PROVE TypeOK
        OBVIOUS
    <2>1. base \in Policies /\ aborted \in BOOLEAN /\ source.policy \in Documents
        BY DEF IInv, SourceInv, Records
    <2>2. aborted \/ doc \in Documents
        BY <2>1 DEF IInv, SourceInv
    <2>3. ASSUME NEW m \in mutants
          PROVE  m.policy \in Documents /\ Len(m.name) = Len(m.faults) /\ Len(m.name) \in 1..MaxCalls
        BY DEF IInv, MutantsInv, Records
    <2>4. {m.name : m \in mutants} = DOMAIN files
        BY DEF IInv, FilesInv
    <2> QED BY <2>1, <2>2, <2>3, <2>4 DEF TypeOK, Documents
<1> QED BY <1>1, IInvHolds, PTL

\* Until an exception, each of the create...Mutants methods undoes what it did
\* to the document all of them share: all mutants of a Mutator are mutants of
\* the policy it was created for.
THEOREM DocumentRestored == Spec => []DocIsRestored
<1>1. IInv => DocIsRestored
    BY DEF IInv, SourceInv, DocIsRestored
<1> QED BY <1>1, IInvHolds, PTL

\* Over both orders of mutation, a mutant differs from the policy under
\* mutation only at the fault locations xpathMapping has given it, unless one
\* of its methods moved elements.
THEOREM FaultLocations == Spec => []FaultsAreLocal
<1>1. IInv => FaultsAreLocal
    BY DEF IInv, MutantsInv, Local, FaultsAreLocal
<1> QED BY <1>1, IInvHolds, PTL

\* ANR and RPTE apart, no file is overwritten by another mutant, of the same call,
\* another call or another Mutator: a mutant that is dropped from memory is
\* the one read back.
THEOREM FilesHoldMutants == Spec => []SavedAsCreated
<1>1. IInv => SavedAsCreated
    BY DEF IInv, FilesInv
<1> QED BY <1>1, IInvHolds, PTL

\* A mutant of first order made by flipping an effect, changing a comparison
\* or the algorithm, adding or removing a negation or adding a rule is turned
\* into the policy under mutation again by one method of the Mutator at one of
\* its elements, whatever the policy: the Repairer's search need go no deeper.
THEOREM OneStepBack == Spec => []OneStepRepairable
<1>1. ASSUME IInv, OriginInv PROVE OneStepRepairable
    <2> SUFFICES ASSUME NEW m \in mutants, Len(m.name) = 1,
                        Method(m) \in {"CRE", "CCF", "CRC", "ANF", "RNF", "ANR"}
                 PROVE  \E site \in ToSet(Sites(m.policy)) :
                            /\ Applicable(UndoneBy(Method(m)), site)
                            /\ base \in {made.policy : made \in
                                    ToSet(Outcome(UndoneBy(Method(m)), m.policy, site).made)}
        BY DEF OneStepRepairable
    <2> DEFINE method == Method(m)
    <2>1. base \in Documents /\ ~(NewRuleIds \subseteq Ids(base))
        <3>1. base \in Policies
            BY <1>1 DEF IInv, SourceInv
        <3> QED BY <3>1, BaseIsDocument DEF NewRuleIds
    <2>2. m.policy \in Documents
        BY <1>1 DEF IInv, MutantsInv, Records
    <2>3. PICK site \in Places(base) :
              Applicable(method, site) /\ Makes(Outcome(method, base, site), m.policy)
        BY <1>1 DEF OriginInv, Origin, LastStep, Method
    <2> HIDE DEF method
    <2>4. method \in {"CRE", "CCF", "CRC", "ANF", "RNF", "ANR"}
        BY DEF method
    <2>5. PICK s \in Places(m.policy) :
              Applicable(UndoneBy(method), s) /\ Makes(Outcome(UndoneBy(method), m.policy, s), base)
        BY <2>1, <2>3, <2>4, MutantUndone
    <2>6. s \in ToSet(Sites(m.policy))
        BY <2>2, SitesFacts
    <2>7. base \in {made.policy : made \in ToSet(Outcome(UndoneBy(method), m.policy, s).made)}
        BY <2>5 DEF Makes, ToSet
    <2> QED BY <2>5, <2>6, <2>7 DEF method
<1> QED BY <1>1, IInvHolds, OriginsHold, PTL

\* The target of every mutant of TargetFalse, of first or second order, is not
\* matched by a request with at most one value for each attribute, although
\* the XPath of createPolicyTargetFalseMutants reaches some AllOf only.
THEOREM FalseTargets == Spec => []TargetFalseOnSingleValues
<1>1. ASSUME IInv, OriginInv PROVE TargetFalseOnSingleValues
    <2> SUFFICES ASSUME NEW m \in mutants, Method(m) \in {"RTF", "PTF"}, NEW request \in Requests,
                        \A attribute \in DOMAIN request : Cardinality(request[attribute]) <= 1
                 PROVE  TargetResult(TargetAt(m.policy, FaultSite(m)), request) # "Match"
        BY DEF TargetFalseOnSingleValues, MadeFalse
    <2> DEFINE l == LastStep(m)[2]
    <2>1. Method(m) = LastStep(m)[1]
        BY DEF Method, LastStep
    <2>0. PICK d \in Documents :
              \E site \in Places(d) :
                  /\ Makes(Outcome(Method(m), d, site), m.policy)
                  /\ l = 0 <=> site = PolicyTarget
                  /\ l # 0 => l \in DOMAIN d.rules /\ Site(d.rules[l]) = site
        BY <1>1, <2>1 DEF OriginInv, Origin
    <2>2. PICK site \in Places(d) :
              /\ Makes(Outcome(Method(m), d, site), m.policy)
              /\ l = 0 <=> site = PolicyTarget
              /\ l # 0 => l \in DOMAIN d.rules /\ Site(d.rules[l]) = site
        BY <2>0
    <2>3. Outcome(Method(m), d, site) = TargetFalse(d, site)
        BY DEF Outcome
    <2>4. /\ TargetAt(d, site) \in Targets /\ TargetAt(d, site) # <<>>
          /\ TargetAt(m.policy, site) = FalseTarget(TargetAt(d, site))
          /\ \A k \in DOMAIN d.rules : Site(d.rules[k]) = site => Site(m.policy.rules[k]) = site
        BY <2>2, <2>3, TargetFalseMakes
    <2>5. m.faults[Len(m.faults)] = l
        <3>1. m \in Records /\ Len(m.name) \in 1..MaxCalls
            BY <1>1 DEF IInv, MutantsInv
        <3>2. /\ m.name \in Seq(Steps) /\ Len(m.faults) = Len(m.name)
              /\ \A k \in DOMAIN m.name : m.faults[k] = m.name[k][2]
            BY <3>1 DEF Records
        <3>3. Len(m.name) \in DOMAIN m.name
            <4>1. DOMAIN m.name = 1..Len(m.name)
                BY <3>2, SeqFacts
            <4> QED BY <3>1, <4>1
        <3> QED BY <3>2, <3>3 DEF LastStep
    <2>6. FaultSite(m) = site
        BY <2>2, <2>4, <2>5 DEF FaultSite
    <2> QED BY <2>4, <2>6, FalseTargetNeverMatches
<1> QED BY <1>1, IInvHolds, OriginsHold, PTL

=============================================================================
