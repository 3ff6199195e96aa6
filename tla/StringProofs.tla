---------------------------- MODULE StringProofs ----------------------------
(***************************************************************************)
(* Containment and the functions of the string plug-in, whatever the terms *)
(* and the strings.                                                        *)
(*                                                                         *)
(* Containment: an axiom follows from its own premises and from what       *)
(* includes what, and not from the classes the plug-in saw when it added   *)
(* it; and the axioms are enough: what is known of a key's strings decides *)
(* its Boolean, whichever merge told it.                                   *)
(*                                                                         *)
(* StringFunctions: the axiom of a function and its computation define the *)
(* same one.  The equations of an axiom say where s is cut (PartsAre,      *)
(* AroundIs), and what a part contains tells the first and the last place  *)
(* of a substring from the others (NotInUpto, NotInFrom).                  *)
(***************************************************************************)
EXTENDS Containment, StringFunctions, SequenceTheorems, WellFoundedInduction, TLAPS

Good(ax) == ax \in AxiomType /\ Valid(ax)
Equations == SUBSET (Terms \X Terms)
Holds(model, eqs) == \A eq \in eqs : model[eq[1]] = model[eq[2]]
In(s, p) == <<s, p>> \in Includes

-----------------------------------------------------------------------------
(* Facts about the operators.                                              *)

LEMMA FirstTermIn == ASSUME NEW S \in SUBSET Terms, S # {} PROVE FirstTerm(S) \in S
    BY RankAssumption DEF FirstTerm

LEMMA FirstKeyIn == ASSUME NEW S \in SUBSET Keys, S # {} PROVE FirstKey(S) \in S
    BY RankAssumption DEF FirstKey

\* A class's constant is the value of its terms.
LEMMA EqcValueIsValue ==
    ASSUME NEW cl \in Classes, NEW t \in Terms
    PROVE  /\ EqcValue(cl, t) \in Terms
           /\ HasValue(cl[t]) => /\ EqcValue(cl, t) \in Consts
                                 /\ ValueOf(cl[t]) = ConstOf[EqcValue(cl, t)]
                                 /\ ValueOf(cl[t]) \in Strings
<1>1. cl[t] \subseteq Terms
    BY DEF Classes
<1>2. CASE HasValue(cl[t])
    <2>1. ValueNode(cl[t]) \in cl[t] /\ ValueNode(cl[t]) \in Consts
        BY <1>2 DEF HasValue, ValueNode
    <2>2. EqcValue(cl, t) = ValueNode(cl[t]) /\ ValueOf(cl[t]) = ConstOf[ValueNode(cl[t])]
        BY <1>2 DEF EqcValue, ValueOf
    <2> QED BY <1>1, <2>1, <2>2, TermsAssumption DEF Consts
<1>3. CASE ~HasValue(cl[t])
    BY <1>3 DEF EqcValue
<1> QED BY <1>2, <1>3

LEMMA LitType == ASSUME NEW t \in Terms, NEW u \in Terms PROVE Lit(t, u) \in Equations
    BY DEF Lit, Equations

LEMMA LitHolds ==
    ASSUME NEW model, NEW t, NEW u, Holds(model, Lit(t, u))
    PROVE  model[t] = model[u]
    BY DEF Lit, Holds

LEMMA HoldsSubset ==
    ASSUME NEW model, NEW eqs, NEW part \in SUBSET eqs, Holds(model, eqs)
    PROVE  Holds(model, part)
    BY DEF Holds

LEMMA BothHold ==
    ASSUME NEW model, NEW t, NEW u, NEW v, NEW w, Holds(model, Lit(t, u) \cup Lit(v, w))
    PROVE  model[t] = model[u] /\ model[v] = model[w]
<1>1. Holds(model, Lit(t, u)) /\ Holds(model, Lit(v, w))
    BY DEF Holds
<1> QED BY <1>1, LitHolds

LEMMA ModelFacts ==
    ASSUME NEW model \in Models
    PROVE  /\ \A t \in Terms : model[t] \in Strings
           /\ \A c \in Consts : model[c] = ConstOf[c]
           /\ \A c \in Concats : \A p \in Pieces[c] : In(model[c], p)
    BY ModelsAssumption DEF Respects, In

LEMMA TruthOfKey ==
    ASSUME NEW model, NEW k \in Keys
    PROVE  Truth(model, k) <=> In(model[k[1]], model[k[2]])
    BY DEF Truth, In

LEMMA GoodIntro ==
    ASSUME NEW eqs \in Equations, NEW holds \in SUBSET AllKeys, NEW key \in AllKeys,
           NEW value \in BOOLEAN,
           \A model \in Models :
               Holds(model, eqs) /\ (\A k \in holds : Truth(model, k))
               => Truth(model, key) = value
    PROVE  Good(Axiom(eqs, holds, key, value))
    BY DEF Good, AxiomType, Valid, Axiom, Holds, Equations

LEMMA KeyTerms == ASSUME NEW k \in Keys PROVE k[1] \in Terms /\ k[2] \in Terms /\ k \in AllKeys
    BY TermsAssumption DEF AllKeys

-----------------------------------------------------------------------------
(* Each check adds good axioms.                                            *)

LEMMA ImpliedGood ==
    ASSUME NEW eqs \in Equations, NEW holds \in SUBSET Keys, NEW j \in Keys, NEW k \in Keys,
           \A model \in Models :
               Holds(model, eqs) /\ (\A o \in holds : Truth(model, o)) /\ Truth(model, j)
               => Truth(model, k)
    PROVE  Good(Implied(eqs, holds, j, k))
<1>1. holds \cup {j} \in SUBSET AllKeys /\ k \in AllKeys
    BY KeyTerms DEF AllKeys
<1>2. \A model \in Models :
          Holds(model, eqs) /\ (\A o \in holds \cup {j} : Truth(model, o))
          => Truth(model, k) = TRUE
    BY DEF Truth
<1> QED BY <1>1, <1>2, GoodIntro DEF Implied

LEMMA EquatedGood ==
    ASSUME NEW eqs \in Equations, NEW j \in Keys, NEW k \in Keys,
           \A model \in Models : Holds(model, eqs) => (Truth(model, j) <=> Truth(model, k))
    PROVE  \A ax \in Equated(eqs, j, k) : Good(ax)
<1>1. Good(Implied(eqs, {}, j, k))
    BY ImpliedGood
<1>2. Good(Implied(eqs, {}, k, j))
    BY ImpliedGood
<1> QED BY <1>1, <1>2 DEF Equated

\* For keys of which one implies the other when m includes n.
LEMMA SubRelationGood ==
    ASSUME NEW cl \in Classes, NEW eq \in Equations, NEW j \in Keys, NEW k \in Keys,
           NEW m \in Terms, NEW n \in Terms,
           \A model \in Models : Holds(model, eq) =>
               /\ In(model[m], model[n]) => (Truth(model, j) => Truth(model, k))
               /\ In(model[n], model[m]) => (Truth(model, k) => Truth(model, j))
    PROVE  \A ax \in SubRelation(cl, eq, j, k, m, n) : Good(ax)
<1> DEFINE vm == EqcValue(cl, m)
           vn == EqcValue(cl, n)
           eqs == eq \cup Lit(m, vm) \cup Lit(n, vn)
<1>0. cl[m] \subseteq Terms /\ cl[n] \subseteq Terms
    BY DEF Classes
<1>1. CASE HasValue(cl[m]) /\ HasValue(cl[n])
    <2>1. /\ vm \in Consts /\ ValueOf(cl[m]) = ConstOf[vm] /\ vm \in Terms
          /\ vn \in Consts /\ ValueOf(cl[n]) = ConstOf[vn] /\ vn \in Terms
          /\ ValueOf(cl[m]) \in Strings
        BY <1>1, EqcValueIsValue
    <2>2. eqs \in Equations
        BY <2>1, LitType DEF Equations
    <2>3. ASSUME NEW model \in Models, Holds(model, eqs)
          PROVE  /\ Holds(model, eq)
                 /\ model[m] = ValueOf(cl[m]) /\ model[n] = ValueOf(cl[n])
        <3>1. Holds(model, eq) /\ Holds(model, Lit(m, vm)) /\ Holds(model, Lit(n, vn))
            BY <2>3, HoldsSubset
        <3>2. model[m] = model[vm] /\ model[n] = model[vn]
            BY <3>1, LitHolds
        <3> QED BY <2>1, <3>1, <3>2, ModelFacts
    <2> HIDE DEF eqs
    <2>4. CASE ValueOf(cl[m]) = ValueOf(cl[n])
        <3>1. ASSUME NEW model \in Models, Holds(model, eqs)
              PROVE  Truth(model, j) <=> Truth(model, k)
            <4>1. In(model[m], model[n]) /\ In(model[n], model[m])
                BY <2>1, <2>3, <2>4, <3>1, IncludesAssumption DEF In
            <4> QED BY <2>3, <3>1, <4>1
        <3>2. SubRelation(cl, eq, j, k, m, n) = Equated(eqs, j, k)
            BY <1>1, <2>4 DEF SubRelation, eqs
        <3> QED BY <2>2, <3>1, <3>2, EquatedGood
    <2>5. CASE /\ ValueOf(cl[m]) # ValueOf(cl[n])
               /\ <<ValueOf(cl[m]), ValueOf(cl[n])>> \in Includes
        <3>1. ASSUME NEW model \in Models, Holds(model, eqs), Truth(model, j)
              PROVE  Truth(model, k)
            BY <2>3, <2>5, <3>1 DEF In
        <3>2. SubRelation(cl, eq, j, k, m, n) = {Implied(eqs, {}, j, k)}
            BY <1>1, <2>5 DEF SubRelation, eqs
        <3> QED BY <2>2, <3>1, <3>2, ImpliedGood
    <2>6. CASE /\ ValueOf(cl[m]) # ValueOf(cl[n])
               /\ <<ValueOf(cl[m]), ValueOf(cl[n])>> \notin Includes
        <3>1. CASE <<ValueOf(cl[n]), ValueOf(cl[m])>> \in Includes
            <4>1. ASSUME NEW model \in Models, Holds(model, eqs), Truth(model, k)
                  PROVE  Truth(model, j)
                BY <2>3, <3>1, <4>1 DEF In
            <4>2. SubRelation(cl, eq, j, k, m, n) = {Implied(eqs, {}, k, j)}
                BY <1>1, <2>6, <3>1 DEF SubRelation, eqs
            <4> QED BY <2>2, <4>1, <4>2, ImpliedGood
        <3>2. CASE <<ValueOf(cl[n]), ValueOf(cl[m])>> \notin Includes
            BY <1>1, <2>6, <3>2 DEF SubRelation
        <3> QED BY <3>1, <3>2
    <2> QED BY <2>4, <2>5, <2>6
<1>2. CASE ~(HasValue(cl[m]) /\ HasValue(cl[n])) /\ n \in cl[m]
    <2>1. eq \cup Lit(m, n) \in Equations
        BY LitType DEF Equations
    <2>2. ASSUME NEW model \in Models, Holds(model, eq \cup Lit(m, n))
          PROVE  Truth(model, j) <=> Truth(model, k)
        <3>1. Holds(model, eq) /\ Holds(model, Lit(m, n))
            BY <2>2, HoldsSubset
        <3>2. model[m] = model[n] /\ model[m] \in Strings
            BY <3>1, LitHolds, ModelFacts
        <3> QED BY <3>1, <3>2, IncludesAssumption DEF In
    <2>3. SubRelation(cl, eq, j, k, m, n) = Equated(eq \cup Lit(m, n), j, k)
        BY <1>2 DEF SubRelation
    <2> QED BY <2>1, <2>2, <2>3, EquatedGood
<1>3. CASE ~(HasValue(cl[m]) /\ HasValue(cl[n])) /\ n \notin cl[m]
    <2> DEFINE E1(o) == eq \cup Lit(m, o[1]) \cup Lit(n, o[2])
               E2(o) == eq \cup Lit(m, o[2]) \cup Lit(n, o[1])
    <2>1. ASSUME NEW o \in Keys \cap (cl[m] \X cl[n])
          PROVE  Good(Implied(E1(o), {o}, j, k))
        <3>1. E1(o) \in Equations
            BY <1>0, LitType DEF Equations
        <3>2. ASSUME NEW model \in Models, Holds(model, E1(o)), Truth(model, o), Truth(model, j)
              PROVE  Truth(model, k)
            <4>1. Holds(model, eq) /\ Holds(model, Lit(m, o[1])) /\ Holds(model, Lit(n, o[2]))
                BY <3>2, HoldsSubset
            <4>2. In(model[m], model[n])
                BY <3>2, <4>1, LitHolds, TruthOfKey
            <4> QED BY <3>2, <4>1, <4>2
        <3> HIDE DEF E1
        <3> QED BY <3>1, <3>2, ImpliedGood
    <2>2. ASSUME NEW o \in Keys \cap (cl[n] \X cl[m])
          PROVE  Good(Implied(E2(o), {o}, k, j))
        <3>1. E2(o) \in Equations
            BY <1>0, LitType DEF Equations
        <3>2. ASSUME NEW model \in Models, Holds(model, E2(o)), Truth(model, o), Truth(model, k)
              PROVE  Truth(model, j)
            <4>1. Holds(model, eq) /\ Holds(model, Lit(m, o[2])) /\ Holds(model, Lit(n, o[1]))
                BY <3>2, HoldsSubset
            <4>2. In(model[n], model[m])
                BY <3>2, <4>1, LitHolds, TruthOfKey
            <4> QED BY <3>2, <4>1, <4>2
        <3> HIDE DEF E2
        <3> QED BY <3>1, <3>2, ImpliedGood
    <2>3. SubRelation(cl, eq, j, k, m, n)
              = {Implied(E1(o), {o}, j, k) : o \in Keys \cap (cl[m] \X cl[n])}
                \cup {Implied(E2(o), {o}, k, j) : o \in Keys \cap (cl[n] \X cl[m])}
        BY <1>3 DEF SubRelation
    <2> HIDE DEF E1, E2
    <2> QED BY <2>1, <2>2, <2>3
<1> QED BY <1>1, <1>2, <1>3

\* The larger string includes more: the keys change places.
LEMMA StrRelationGood ==
    ASSUME NEW cl \in Classes, NEW eq \in Equations, NEW j \in Keys, NEW k \in Keys,
           NEW m \in Terms, NEW n \in Terms,
           \A model \in Models : Holds(model, eq) =>
               /\ In(model[m], model[n]) => (Truth(model, k) => Truth(model, j))
               /\ In(model[n], model[m]) => (Truth(model, j) => Truth(model, k))
    PROVE  \A ax \in StrRelation(cl, eq, j, k, m, n) : Good(ax)
    BY SubRelationGood DEF StrRelation

LEMMA InTransitive ==
    ASSUME NEW s \in Strings, NEW p \in Strings, NEW q \in Strings, In(s, p), In(p, q)
    PROVE  In(s, q)
    BY IncludesAssumption DEF In

\* checkContainByEqNodes: whatever terms it is called with.
LEMMA ContainByEqNodesGood ==
    ASSUME NEW cl \in Classes, NEW n1 \in Terms, NEW n2 \in Terms
    PROVE  \A ax \in ContainByEqNodes(cl, n1, n2) : Good(ax)
<1> DEFINE keys1 == IF n1 = n2 /\ KeysOf(n1) # {} THEN {FirstKey(KeysOf(n1))} ELSE KeysOf(n1)
           eq == Lit(n1, n2)
           related(j, k) ==
               IF j = k THEN {}
               ELSE IF j[1] = n1 /\ k[1] = n2 THEN SubRelation(cl, eq, j, k, j[2], k[2])
               ELSE IF j[2] = n1 /\ k[2] = n2 THEN StrRelation(cl, eq, j, k, j[1], k[1])
               ELSE {}
<1>1. keys1 \subseteq KeysOf(n1) /\ KeysOf(n1) \subseteq Keys /\ KeysOf(n2) \subseteq Keys
    BY FirstKeyIn DEF KeysOf
<1>2. eq \in Equations
    BY LitType
<1>3. ASSUME NEW model \in Models, Holds(model, eq)
      PROVE  model[n1] = model[n2]
    BY <1>3, LitHolds
<1>4. ASSUME NEW k \in keys1, k = <<n1, n2>>
      PROVE  Good(Axiom(eq, {}, k, TRUE))
    <2>1. k \in Keys /\ k \in AllKeys
        BY <1>1, KeyTerms
    <2>2. ASSUME NEW model \in Models, Holds(model, eq)
          PROVE  Truth(model, k) = TRUE
        <3>1. model[n1] = model[n2] /\ model[n1] \in Strings
            BY <2>2, <1>3, ModelFacts
        <3>2. <<model[n1], model[n2]>> \in Includes
            BY <3>1, IncludesAssumption
        <3>3. k[1] = n1 /\ k[2] = n2
            BY <1>4
        <3> QED BY <2>1, <3>2, <3>3 DEF Truth
    <2> HIDE DEF eq
    <2> QED BY <1>2, <2>1, <2>2, GoodIntro
<1>5. ASSUME NEW j \in keys1, NEW k \in KeysOf(n2)
      PROVE  \A ax \in related(j, k) : Good(ax)
    <2>1. /\ j \in Keys /\ k \in Keys
          /\ j[1] \in Terms /\ j[2] \in Terms /\ k[1] \in Terms /\ k[2] \in Terms
        BY <1>1, KeyTerms
    <2>2. CASE j # k /\ j[1] = n1 /\ k[1] = n2
        <3>1. ASSUME NEW model \in Models, Holds(model, eq)
              PROVE  /\ In(model[j[2]], model[k[2]]) => (Truth(model, j) => Truth(model, k))
                     /\ In(model[k[2]], model[j[2]]) => (Truth(model, k) => Truth(model, j))
            <4>1. model[j[1]] = model[k[1]]
                BY <1>3, <2>2, <3>1
            <4>2. /\ model[j[1]] \in Strings /\ model[j[2]] \in Strings
                  /\ model[k[2]] \in Strings
                BY <2>1, ModelFacts
            <4>3. /\ Truth(model, j) <=> In(model[j[1]], model[j[2]])
                  /\ Truth(model, k) <=> In(model[k[1]], model[k[2]])
                BY <2>1, TruthOfKey
            <4> QED BY <4>1, <4>2, <4>3, InTransitive
        <3>2. related(j, k) = SubRelation(cl, eq, j, k, j[2], k[2])
            BY <2>2
        <3> HIDE DEF eq, related
        <3> QED BY <1>2, <2>1, <3>1, <3>2, SubRelationGood
    <2>3. CASE j # k /\ ~(j[1] = n1 /\ k[1] = n2) /\ j[2] = n1 /\ k[2] = n2
        <3>1. ASSUME NEW model \in Models, Holds(model, eq)
              PROVE  /\ In(model[j[1]], model[k[1]]) => (Truth(model, k) => Truth(model, j))
                     /\ In(model[k[1]], model[j[1]]) => (Truth(model, j) => Truth(model, k))
            <4>1. model[j[2]] = model[k[2]]
                BY <1>3, <2>3, <3>1
            <4>2. /\ model[j[1]] \in Strings /\ model[j[2]] \in Strings
                  /\ model[k[1]] \in Strings
                BY <2>1, ModelFacts
            <4>3. /\ Truth(model, j) <=> In(model[j[1]], model[j[2]])
                  /\ Truth(model, k) <=> In(model[k[1]], model[k[2]])
                BY <2>1, TruthOfKey
            <4> QED BY <4>1, <4>2, <4>3, InTransitive
        <3>2. related(j, k) = StrRelation(cl, eq, j, k, j[1], k[1])
            BY <2>3
        <3> HIDE DEF eq, related
        <3> QED BY <1>2, <2>1, <3>1, <3>2, StrRelationGood
    <2>4. CASE /\ j = k \/ ~(j[1] = n1 /\ k[1] = n2)
               /\ j = k \/ ~(j[2] = n1 /\ k[2] = n2)
        BY <2>4
    <2> QED BY <2>2, <2>3, <2>4
<1>6. ContainByEqNodes(cl, n1, n2)
          = IF KeysOf(n1) = {} \/ KeysOf(n2) = {} THEN {}
            ELSE {Axiom(eq, {}, k, TRUE) : k \in {j \in keys1 : j = <<n1, n2>>}}
                 \cup UNION {UNION {related(j, k) : k \in KeysOf(n2)} : j \in keys1}
    BY DEF ContainByEqNodes
<1> HIDE DEF eq, related, keys1
<1>7. \A ax \in {Axiom(eq, {}, k, TRUE) : k \in {j \in keys1 : j = <<n1, n2>>}} : Good(ax)
    BY <1>4
<1>8. \A ax \in UNION {UNION {related(j, k) : k \in KeysOf(n2)} : j \in keys1} : Good(ax)
    BY <1>5
<1> QED BY <1>6, <1>7, <1>8

\* What equals a concat with a piece that s does not include, s does not
\* include either.
LEMMA RefutingInRefutes ==
    ASSUME NEW s \in Strings, NEW class \in SUBSET Terms, NEW c \in RefutingIn(s, class),
           NEW model \in Models
    PROVE  c \in class /\ ~In(s, model[c])
<1>1. c \in class /\ c \in Concats /\ c \in Terms
    BY DEF RefutingIn
<1>2. PICK p \in Pieces[c] : <<s, p>> \notin Includes
    BY DEF RefutingIn, Refuting
<1>3. p \in Strings /\ model[c] \in Strings /\ In(model[c], p)
    BY <1>1, TermsAssumption, ModelFacts
<1> QED BY <1>1, <1>2, <1>3, InTransitive DEF In

\* A key of which both terms are told to equal constants, and its value is
\* that of the constants.
LEMMA ValuedGood ==
    ASSUME NEW k \in Keys, NEW c \in Consts, NEW d \in Consts,
           NEW eqs \in Equations,
           \A model \in Models : Holds(model, eqs) =>
               model[k[1]] = model[c] /\ model[k[2]] = model[d]
    PROVE  Good(Axiom(eqs, {}, k, <<ConstOf[c], ConstOf[d]>> \in Includes))
<1> DEFINE value == <<ConstOf[c], ConstOf[d]>> \in Includes
<1>1. ASSUME NEW model \in Models, Holds(model, eqs)
      PROVE  Truth(model, k) = value
    <2>1. model[k[1]] = ConstOf[c] /\ model[k[2]] = ConstOf[d]
        BY <1>1, ModelFacts
    <2> QED BY <2>1 DEF Truth
<1>2. value \in BOOLEAN
    OBVIOUS
<1> HIDE DEF value
<1>3. Good(Axiom(eqs, {}, k, value))
    BY <1>1, <1>2, KeyTerms, GoodIntro
<1> QED BY <1>3 DEF value

\* A key whose second term is told to equal a refuting concat of what its
\* first term is told to equal.
LEMMA RefutedGood ==
    ASSUME NEW k \in Keys, NEW c \in Consts, NEW class \in SUBSET Terms,
           RefutingIn(ConstOf[c], class) # {}, NEW eqs \in Equations,
           \A model \in Models : Holds(model, eqs) =>
               /\ model[k[1]] = model[c]
               /\ model[k[2]] = model[FirstTerm(RefutingIn(ConstOf[c], class))]
    PROVE  Good(Axiom(eqs, {}, k, FALSE))
<1> DEFINE r == FirstTerm(RefutingIn(ConstOf[c], class))
<1>1. r \in RefutingIn(ConstOf[c], class) /\ ConstOf[c] \in Strings
    <2>1. RefutingIn(ConstOf[c], class) \in SUBSET Terms
        BY DEF RefutingIn
    <2> QED BY <2>1, FirstTermIn, TermsAssumption
<1>2. ASSUME NEW model \in Models, Holds(model, eqs)
      PROVE  Truth(model, k) = FALSE
    <2>1. model[k[1]] = ConstOf[c] /\ model[k[2]] = model[r]
        BY <1>2, ModelFacts
    <2>2. ~In(ConstOf[c], model[r])
        BY <1>1, RefutingInRefutes
    <2> QED BY <2>1, <2>2 DEF Truth, In
<1> QED BY <1>2, KeyTerms, GoodIntro

\* checkContainByEqcVal
LEMMA ContainByEqcValGood ==
    ASSUME NEW cl \in Classes, NEW v \in Terms, NEW c \in Consts
    PROVE  \A ax \in ContainByEqcVal(cl, v, c) : Good(ax)
<1> DEFINE refuting(k) == RefutingIn(ConstOf[c], cl[k[2]])
           bothEqs(k) == Lit(v, c) \cup Lit(k[2], EqcValue(cl, k[2]))
           refEqs(k) == Lit(v, c) \cup Lit(k[2], FirstTerm(refuting(k)))
           subEqs(k) == Lit(v, c) \cup Lit(k[1], EqcValue(cl, k[1]))
           str(k) ==
               IF HasValue(cl[k[2]])
               THEN {Axiom(bothEqs(k), {}, k, <<ConstOf[c], ValueOf(cl[k[2]])>> \in Includes)}
               ELSE IF refuting(k) = {} THEN {} ELSE {Axiom(refEqs(k), {}, k, FALSE)}
           substr(k) ==
               IF HasValue(cl[k[1]])
               THEN {Axiom(subEqs(k), {}, k, <<ValueOf(cl[k[1]]), ConstOf[c]>> \in Includes)}
               ELSE {}
<1>1. ASSUME NEW k \in KeysOf(v), k[1] = v
      PROVE  \A ax \in str(k) : Good(ax)
    <2>1. /\ k \in Keys /\ k[2] \in Terms /\ c \in Terms /\ cl[k[2]] \subseteq Terms
          /\ EqcValue(cl, k[2]) \in Terms
        BY KeyTerms, EqcValueIsValue, TermsAssumption DEF KeysOf, Classes
    <2>2. CASE HasValue(cl[k[2]])
        <3>1. /\ EqcValue(cl, k[2]) \in Consts
              /\ ValueOf(cl[k[2]]) = ConstOf[EqcValue(cl, k[2])]
            BY <2>1, <2>2, EqcValueIsValue
        <3>2. bothEqs(k) \in Equations
            BY <2>1, LitType DEF Equations
        <3>3. ASSUME NEW model \in Models, Holds(model, bothEqs(k))
              PROVE  model[k[1]] = model[c] /\ model[k[2]] = model[EqcValue(cl, k[2])]
            BY <1>1, <3>3, BothHold
        <3> HIDE DEF bothEqs
        <3>4. Good(Axiom(bothEqs(k), {}, k, <<ConstOf[c], ValueOf(cl[k[2]])>> \in Includes))
            BY <2>1, <3>1, <3>2, <3>3, ValuedGood
        <3> QED BY <2>2, <3>4
    <2>3. CASE ~HasValue(cl[k[2]]) /\ refuting(k) # {}
        <3>1. FirstTerm(refuting(k)) \in Terms
            BY <2>1, <2>3, FirstTermIn DEF RefutingIn
        <3>2. refEqs(k) \in Equations
            BY <2>1, <3>1, LitType DEF Equations
        <3>3. ASSUME NEW model \in Models, Holds(model, refEqs(k))
              PROVE  model[k[1]] = model[c] /\ model[k[2]] = model[FirstTerm(refuting(k))]
            BY <1>1, <3>3, BothHold
        <3> HIDE DEF refEqs
        <3>4. Good(Axiom(refEqs(k), {}, k, FALSE))
            BY <2>1, <2>3, <3>2, <3>3, RefutedGood
        <3> QED BY <2>3, <3>4
    <2>4. CASE ~HasValue(cl[k[2]]) /\ refuting(k) = {}
        BY <2>4
    <2> QED BY <2>2, <2>3, <2>4
<1>2. ASSUME NEW k \in KeysOf(v), k[1] # v
      PROVE  \A ax \in substr(k) : Good(ax)
    <2>1. /\ k \in Keys /\ k[2] = v /\ k[1] \in Terms /\ c \in Terms
          /\ EqcValue(cl, k[1]) \in Terms
        BY <1>2, KeyTerms, EqcValueIsValue, TermsAssumption DEF KeysOf
    <2>2. CASE HasValue(cl[k[1]])
        <3>1. /\ EqcValue(cl, k[1]) \in Consts
              /\ ValueOf(cl[k[1]]) = ConstOf[EqcValue(cl, k[1])]
            BY <2>1, <2>2, EqcValueIsValue
        <3>2. subEqs(k) \in Equations
            BY <2>1, LitType DEF Equations
        <3>3. ASSUME NEW model \in Models, Holds(model, subEqs(k))
              PROVE  model[k[1]] = model[EqcValue(cl, k[1])] /\ model[k[2]] = model[c]
            BY <2>1, <3>3, BothHold
        <3> HIDE DEF subEqs
        <3>4. Good(Axiom(subEqs(k), {}, k, <<ValueOf(cl[k[1]]), ConstOf[c]>> \in Includes))
            BY <2>1, <3>1, <3>2, <3>3, ValuedGood
        <3> QED BY <2>2, <3>4
    <2> QED BY <2>2
<1>3. ContainByEqcVal(cl, v, c)
          = UNION {IF k[1] = v THEN str(k) ELSE substr(k) : k \in KeysOf(v)}
    BY DEF ContainByEqcVal
<1> HIDE DEF str, substr
<1> QED BY <1>1, <1>2, <1>3

\* checkContainBySubStr: the premises that gather in litems only weaken it.
LEMMA ContainBySubStrGood ==
    ASSUME NEW cl \in Classes, NEW v \in Terms, NEW will \in SUBSET Terms
    PROVE  \A ax \in ContainBySubStr(cl, v, will) : Good(ax)
<1> DEFINE valued == {k \in Keys : k[2] = v /\ HasValue(cl[k[1]])}
           refuting(k) == RefutingIn(ValueOf(cl[k[1]]), will)
           pushed(k) ==
               Lit(k[1], EqcValue(cl, k[1]))
               \cup IF refuting(k) = {} THEN {} ELSE Lit(v, FirstTerm(refuting(k)))
           litems(k) == UNION {pushed(j) : j \in {i \in valued : KeyRank[i] <= KeyRank[k]}}
<1>1. ASSUME NEW k \in valued
      PROVE  /\ k \in Keys /\ k[1] \in Terms /\ k[2] = v
             /\ EqcValue(cl, k[1]) \in Consts /\ EqcValue(cl, k[1]) \in Terms
             /\ ValueOf(cl[k[1]]) = ConstOf[EqcValue(cl, k[1])]
             /\ refuting(k) # {} => FirstTerm(refuting(k)) \in Terms
    <2>1. k \in Keys /\ k[1] \in Terms /\ k[2] = v /\ HasValue(cl[k[1]])
        BY KeyTerms
    <2>2. refuting(k) # {} => FirstTerm(refuting(k)) \in Terms
        BY FirstTermIn DEF RefutingIn
    <2> QED BY <2>1, <2>2, EqcValueIsValue
<1>2. ASSUME NEW k \in valued
      PROVE  pushed(k) \in Equations
    BY <1>1, LitType DEF Equations
<1>3. ASSUME NEW k \in valued
      PROVE  litems(k) \in Equations /\ pushed(k) \subseteq litems(k)
    <2>1. KeyRank[k] <= KeyRank[k]
        BY <1>1, RankAssumption
    <2> HIDE DEF pushed
    <2> QED BY <1>2, <2>1 DEF Equations
<1>4. ASSUME NEW k \in valued, refuting(k) # {}
      PROVE  Good(Axiom(litems(k), {}, k, FALSE))
    <2>1. ASSUME NEW model \in Models, Holds(model, litems(k))
          PROVE  /\ model[k[1]] = model[EqcValue(cl, k[1])]
                 /\ model[k[2]] = model[FirstTerm(refuting(k))]
        <3> HIDE DEF refuting, pushed, litems, valued
        <3>1. Holds(model, pushed(k))
            BY <1>3, <2>1, HoldsSubset
        <3>2. pushed(k) = Lit(k[1], EqcValue(cl, k[1])) \cup Lit(v, FirstTerm(refuting(k)))
            BY <1>4 DEF pushed
        <3>3. /\ Holds(model, Lit(k[1], EqcValue(cl, k[1])))
              /\ Holds(model, Lit(v, FirstTerm(refuting(k))))
            BY <3>1, <3>2, HoldsSubset
        <3> QED BY <1>1, <3>3, LitHolds
    <2>2. litems(k) \in Equations
        BY <1>3
    <2> HIDE DEF litems
    <2>3. refuting(k) = RefutingIn(ConstOf[EqcValue(cl, k[1])], will)
        BY <1>1
    <2> QED BY <1>1, <1>4, <2>1, <2>2, <2>3, RefutedGood
<1>5. ContainBySubStr(cl, v, will)
          = {Axiom(litems(k), {}, k, FALSE) : k \in {j \in valued : refuting(j) # {}}}
    BY DEF ContainBySubStr
<1> HIDE DEF litems, valued, refuting
<1> QED BY <1>4, <1>5

\* The constant of the class that two classes become.
LEMMA ConstOfMerge ==
    ASSUME NEW cl \in Classes, NEW n1 \in Terms, NEW n2 \in Terms,
           HasValue(cl[n1] \cup cl[n2])
    PROVE  (IF HasValue(cl[n1]) THEN ValueNode(cl[n1]) ELSE ValueNode(cl[n2])) \in Consts
    BY DEF HasValue, ValueNode

\* checkRegexIn
LEMMA RegexInGood ==
    ASSUME NEW cl \in Classes, NEW n1 \in Terms, NEW n2 \in Terms
    PROVE  \A ax \in RegexIn(cl, n1, n2) : Good(ax)
<1> DEFINE will == cl[n1] \cup cl[n2]
           const == IF HasValue(cl[n1]) THEN ValueNode(cl[n1]) ELSE ValueNode(cl[n2])
           value(k) == <<ConstOf[const], k[2]>> \in Matches
<1>1. CASE ~HasValue(will)
    <2>1. RegexIn(cl, n1, n2) = {}
        BY <1>1 DEF RegexIn
    <2> QED BY <2>1
<1>2. CASE HasValue(will)
    <2>1. const \in Consts /\ const \in Terms
        BY <1>2, ConstOfMerge, TermsAssumption
    <2> HIDE DEF const
    <2>2. ASSUME NEW k \in RegexKeys
          PROVE  Good(Axiom(Lit(k[1], const), {}, k, value(k)))
        <3>1. k[1] \in Terms /\ k \in AllKeys /\ k \notin Keys
            BY TermsAssumption DEF AllKeys
        <3>2. Lit(k[1], const) \in Equations
            BY <2>1, <3>1, LitType
        <3>3. ASSUME NEW model \in Models, Holds(model, Lit(k[1], const))
              PROVE  Truth(model, k) = value(k)
            <4>1. model[k[1]] = ConstOf[const]
                BY <2>1, <3>3, LitHolds, ModelFacts
            <4> QED BY <3>1, <4>1 DEF Truth
        <3>4. value(k) \in BOOLEAN
            OBVIOUS
        <3> HIDE DEF value
        <3> QED BY <3>1, <3>2, <3>3, <3>4, GoodIntro
    <2>3. RegexIn(cl, n1, n2)
              = {Axiom(Lit(k[1], const), {}, k, value(k)) :
                     k \in {j \in RegexKeys : j[1] \in will}}
        BY <1>2 DEF RegexIn, const
    <2> HIDE DEF value
    <2> QED BY <2>2, <2>3
<1> QED BY <1>1, <1>2

\* checkContainInNewEq
LEMMA ContainInNewEqGood ==
    ASSUME NEW cl \in Classes, NEW n1 \in Terms, NEW n2 \in Terms
    PROVE  \A ax \in ContainInNewEq(cl, n1, n2) : Good(ax)
<1> DEFINE will == cl[n1] \cup cl[n2]
           const == IF HasValue(cl[n1]) THEN ValueNode(cl[n1]) ELSE ValueNode(cl[n2])
           byVal == UNION {ContainByEqcVal(cl, v, const) : v \in will \ {const}}
           bySubStr == UNION {ContainBySubStr(cl, v, will) : v \in will}
           later(u) == {t \in will : TermRank[u] <= TermRank[t]}
           byNodes == UNION {UNION {ContainByEqNodes(cl, u, v) : v \in later(u)} : u \in will}
<1>1. will \subseteq Terms
    BY DEF Classes
<1>2. ASSUME HasValue(will) PROVE const \in Consts
    BY <1>2, ConstOfMerge
<1>3. ContainInNewEq(cl, n1, n2) = (IF HasValue(will) THEN byVal ELSE bySubStr) \cup byNodes
    BY DEF ContainInNewEq
<1> HIDE DEF const, will
<1>4. HasValue(will) => \A ax \in byVal : Good(ax)
    BY <1>1, <1>2, ContainByEqcValGood
<1>5. \A ax \in bySubStr : Good(ax)
    BY <1>1, ContainBySubStrGood
<1>6. \A ax \in byNodes : Good(ax)
    BY <1>1, ContainByEqNodesGood
<1> HIDE DEF byVal, bySubStr, byNodes
<1> QED BY <1>3, <1>4, <1>5, <1>6

-----------------------------------------------------------------------------
(* The invariant.                                                          *)

Partition(class) ==
    \A t, u \in Terms : t \in class[t] /\ (u \in class[t] => class[u] = class[t])

\* A scope is well typed and its axioms are good.  That their terms are
\* terms, and their keys keys, is what makes them valid in every model.
FrameOK(f) == f \in FrameType /\ Partition(f.class) /\ \A ax \in f.axioms : Good(ax)

IInv ==
    /\ frames \in Seq(FrameType)
    /\ Len(frames) \in 1..MaxLevel + 1
    /\ \A i \in 1..Len(frames) : FrameOK(frames[i])

LEMMA MergedPartition ==
    ASSUME NEW cl \in Classes, Partition(cl), NEW n1 \in Terms, NEW n2 \in Terms
    PROVE  Merged(cl, n1, n2) \in Classes /\ Partition(Merged(cl, n1, n2))
<1> DEFINE will == cl[n1] \cup cl[n2]
           merged == Merged(cl, n1, n2)
<1>1. will \subseteq Terms
    BY DEF Classes
<1>2. /\ merged \in Classes
      /\ \A t \in Terms : merged[t] = IF t \in will THEN will ELSE cl[t]
    BY <1>1 DEF Merged, Classes
<1>3. ASSUME NEW t \in Terms, NEW u \in Terms, t \notin will, u \in cl[t]
      PROVE  u \notin will
    <2>1. cl[u] = cl[t] /\ t \in cl[t]
        BY <1>3 DEF Partition
    <2>2. u \in cl[n1] => cl[u] = cl[n1]
        BY DEF Partition
    <2>3. u \in cl[n2] => cl[u] = cl[n2]
        BY DEF Partition
    <2> QED BY <1>3, <2>1, <2>2, <2>3
<1> HIDE DEF merged, will
<1>4. ASSUME NEW t \in Terms, NEW u \in Terms
      PROVE  t \in merged[t] /\ (u \in merged[t] => merged[u] = merged[t])
    <2>1. t \in cl[t] /\ (u \in cl[t] => cl[u] = cl[t])
        BY DEF Partition
    <2> QED BY <1>2, <1>3, <2>1
<1> QED BY <1>2, <1>4 DEF Partition, merged

LEMMA FrameFields ==
    ASSUME NEW f \in FrameType
    PROVE  /\ f.class \in Classes /\ f.axioms \subseteq AxiomType
           /\ f.skipped \subseteq Terms /\ f.conflict \in BOOLEAN
    BY DEF FrameType

\* cb_new_eq keeps a scope as it should be.
LEMMA NewEqOK ==
    ASSUME NEW f, FrameOK(f), NEW n1 \in Terms, NEW n2 \in Terms
    PROVE  FrameOK(NewEq(f, n1, n2))
<1> DEFINE will == f.class[n1] \cup f.class[n2]
           class == Merged(f.class, n1, n2)
           added == ContainInNewEq(f.class, n1, n2) \cup RegexIn(f.class, n1, n2)
<1>1. /\ f \in FrameType /\ f.class \in Classes /\ f.axioms \subseteq AxiomType
      /\ f.skipped \subseteq Terms /\ f.conflict \in BOOLEAN
      /\ Partition(f.class) /\ \A ax \in f.axioms : Good(ax)
    BY FrameFields DEF FrameOK
<1>2. class \in Classes /\ Partition(class)
    BY <1>1, MergedPartition
<1>3. will \subseteq Terms
    BY <1>1 DEF Classes
<1>4. \A ax \in added : Good(ax)
    BY <1>1, ContainInNewEqGood, RegexInGood
<1>5. added \subseteq AxiomType
    BY <1>4 DEF Good
<1> HIDE DEF will, class, added
<1>6. CASE Skipped(f.class, n1, n2)
    <2>1. NewEq(f, n1, n2) = [f EXCEPT !.class = class, !.skipped = @ \cup will]
        BY <1>6 DEF NewEq, class, will
    <2> QED BY <1>1, <1>2, <1>3, <2>1 DEF FrameOK, FrameType
<1>7. CASE ~Skipped(f.class, n1, n2) /\ Refuted(f.class, n1, n2)
    <2>1. NewEq(f, n1, n2) = [f EXCEPT !.class = class, !.conflict = TRUE]
        BY <1>7 DEF NewEq, class
    <2> QED BY <1>1, <1>2, <2>1 DEF FrameOK, FrameType
<1>8. CASE ~Skipped(f.class, n1, n2) /\ ~Refuted(f.class, n1, n2)
    <2>1. NewEq(f, n1, n2) = [class |-> class, axioms |-> f.axioms \cup added,
                              skipped |-> f.skipped \ will, conflict |-> f.conflict]
        BY <1>8 DEF NewEq, class, will, added
    <2> QED BY <1>1, <1>2, <1>3, <1>4, <1>5, <2>1 DEF FrameOK, FrameType
<1> QED BY <1>6, <1>7, <1>8

LEMMA InitIInv == Init => IInv
<1> SUFFICES ASSUME Init PROVE IInv
    OBVIOUS
<1> DEFINE single == [t \in Terms |-> {t}]
<1>1. frames = <<[class |-> single, axioms |-> {}, skipped |-> {}, conflict |-> FALSE]>>
    BY DEF Init, Apart
<1>2. single \in Classes /\ Partition(single)
    BY DEF Classes, Partition
<1> HIDE DEF single
<1>3. frames[1] \in FrameType /\ FrameOK(frames[1])
    BY <1>1, <1>2 DEF FrameOK, FrameType
<1>4. Len(frames) = 1 /\ frames \in Seq(FrameType)
    BY <1>1, <1>3
<1>5. 1 \in 1..MaxLevel + 1 /\ 1..Len(frames) = {1}
    BY <1>4, TermsAssumption
<1> QED BY <1>3, <1>4, <1>5 DEF IInv

LEMMA EquateIInv ==
    ASSUME IInv, NEW n1 \in Terms, NEW n2 \in Terms, Equate(n1, n2)
    PROVE  IInv'
<1> DEFINE n == Len(frames)
           f == frames[n]
           g == IF BothValued(f.class, n1, n2) THEN [f EXCEPT !.conflict = TRUE]
                ELSE NewEq(f, n1, n2)
<1>1. frames \in Seq(FrameType) /\ n \in Nat /\ n \in 1..n /\ n \in 1..MaxLevel + 1
    BY TermsAssumption DEF IInv
<1>2. FrameOK(f)
    BY <1>1 DEF IInv
<1>3. FrameOK(g)
    <2>1. FrameOK([f EXCEPT !.conflict = TRUE])
        BY <1>2 DEF FrameOK, FrameType
    <2>2. FrameOK(NewEq(f, n1, n2))
        BY <1>2, NewEqOK
    <2> QED BY <2>1, <2>2
<1>4. frames' = [frames EXCEPT ![n] = g]
    BY DEF Equate, Top
<1>5. g \in FrameType
    BY <1>3 DEF FrameOK
<1> HIDE DEF g, n
<1>6. /\ frames' \in Seq(FrameType) /\ Len(frames') = n
      /\ \A i \in 1..n : frames'[i] = IF i = n THEN g ELSE frames[i]
    BY <1>1, <1>4, <1>5 DEF n
<1> QED BY <1>1, <1>3, <1>6 DEF IInv, n

LEMMA PushIInv == ASSUME IInv, Push PROVE IInv'
<1> DEFINE n == Len(frames)
<1>1. frames \in Seq(FrameType) /\ n \in Nat /\ n \in 1..n /\ n <= MaxLevel
    BY TermsAssumption DEF IInv, Push
<1>2. frames' = Append(frames, frames[n]) /\ frames[n] \in FrameType
    BY <1>1 DEF Push, Top
<1>3. /\ frames' \in Seq(FrameType) /\ Len(frames') = n + 1
      /\ \A i \in 1..n + 1 : frames'[i] = IF i = n + 1 THEN frames[n] ELSE frames[i]
    BY <1>1, <1>2
<1> QED BY <1>1, <1>3, TermsAssumption DEF IInv

LEMMA PopIInv == ASSUME IInv, Pop PROVE IInv'
<1> DEFINE n == Len(frames)
<1>1. frames \in Seq(FrameType) /\ n \in Nat /\ n > 1 /\ n <= MaxLevel + 1
    BY TermsAssumption DEF IInv, Pop
<1>2. frames' = SubSeq(frames, 1, n - 1)
    BY DEF Pop
<1>3. /\ frames' \in Seq(FrameType) /\ Len(frames') = n - 1
      /\ \A i \in 1..n - 1 : frames'[i] = frames[i]
    BY <1>1, <1>2
<1> QED BY <1>1, <1>3, TermsAssumption DEF IInv

LEMMA NextIInv == IInv /\ [Next]_frames => IInv'
<1> SUFFICES ASSUME IInv, [Next]_frames PROVE IInv'
    OBVIOUS
<1>1. CASE AssertFact
    <2>1. PICK fact \in Facts : Equate(fact[1], fact[2])
        BY <1>1 DEF AssertFact
    <2>2. fact[1] \in Terms /\ fact[2] \in Terms
        BY TermsAssumption
    <2> QED BY <2>1, <2>2, EquateIInv
<1>2. CASE Congruence
    <2>1. PICK c \in Concats, d \in Concats : Equate(c, d)
        BY <1>2 DEF Congruence
    <2> QED BY <2>1, EquateIInv, TermsAssumption
<1>3. CASE Push
    BY <1>3, PushIInv
<1>4. CASE Pop
    BY <1>4, PopIInv
<1>5. CASE UNCHANGED frames
    BY <1>5 DEF IInv
<1> QED BY <1>1, <1>2, <1>3, <1>4, <1>5 DEF Next

\* Scopes are well formed and the classes of every scope are a partition of
\* the terms, for any terms, keys and order of the pointers.
THEOREM ContainmentTypes == Spec => []TypeOK
<1>1. IInv => TypeOK
    BY DEF IInv, FrameOK, Partition, TypeOK
<1> QED BY <1>1, InitIInv, NextIInv, PTL DEF Spec

\* No axiom that checkContainInNewEq or checkRegexIn adds rules out a
\* solution, for any terms, strings, keys, patterns and orders.
THEOREM ContainmentIsSound == Spec => []AxiomsAreValid
<1>1. IInv => AxiomsAreValid
    BY DEF IInv, FrameOK, Good, AxiomsAreValid, Top
<1> QED BY <1>1, InitIInv, NextIInv, PTL DEF Spec

-----------------------------------------------------------------------------
(* What is known is decided.  Each key whose value is known has an axiom   *)
(* that says so by itself: it needs no other key, and the equations it     *)
(* rests on are in the classes, where they stay.  Constants count as told, *)
(* skipped or not: what a constant had to say was known when its class was *)
(* merged with the other terms.                                            *)

Told(f, t) == t \in Consts \/ t \notin f.skipped
Direct(f, k, value) ==
    \E ax \in InForce(f) : ax.holds = {} /\ ax.key = k /\ ax.value = value
OneValue(cl) == \A t \in Terms : \A c, d \in cl[t] \cap Consts : c = d

KeyKnown(f, k) ==
    /\ Told(f, k[1]) /\ Told(f, k[2]) /\ ~Ground(k)
    /\ HasValue(f.class[k[1]]) /\ HasValue(f.class[k[2]]) /\ k[2] \notin f.class[k[1]]
RegexKnown(f, k) == k[1] \notin Consts /\ k[1] \notin f.skipped /\ HasValue(f.class[k[1]])
PieceKnown(f, k) ==
    /\ Told(f, k[1]) /\ Told(f, k[2])
    /\ k[1] \in Consts => f.class[k[2]] # {k[2]}
    /\ HasValue(f.class[k[1]]) /\ ~HasValue(f.class[k[2]])
    /\ RefutingIn(ValueOf(f.class[k[1]]), f.class[k[2]]) # {}

Complete(f) ==
    /\ OneValue(f.class)
    /\ \A k \in Keys : /\ KeyKnown(f, k) => Direct(f, k, Actual(f, k))
                       /\ PieceKnown(f, k) => Direct(f, k, FALSE)
    /\ \A k \in RegexKeys : RegexKnown(f, k) => Direct(f, k, Actual(f, k))

\* An axiom without other keys leaves the Boolean no choice.
LEMMA DirectDecides ==
    ASSUME NEW f, NEW k \in AllKeys, NEW value, Direct(f, k, value)
    PROVE  Decided(f, k, value)
    BY DEF Direct, Decided, Satisfied

\* Axioms and equations stay while the scope does.
LEMMA DirectStays ==
    ASSUME NEW f, NEW g, f.axioms \subseteq AxiomType, f.axioms \subseteq g.axioms,
           \A t \in Terms : f.class[t] \subseteq g.class[t],
           NEW k, NEW value, Direct(f, k, value)
    PROVE  Direct(g, k, value)
<1>1. PICK ax \in InForce(f) : ax.holds = {} /\ ax.key = k /\ ax.value = value
    BY DEF Direct
<1>2. ax \in g.axioms /\ ax.eqs \subseteq Terms \X Terms
    BY <1>1 DEF InForce, AxiomType
<1>3. \A eq \in ax.eqs : eq[1] \in Terms /\ eq[2] \in f.class[eq[1]]
    BY <1>1, <1>2 DEF InForce
<1>4. ax \in InForce(g)
    BY <1>2, <1>3 DEF InForce
<1> QED BY <1>1, <1>4 DEF Direct

LEMMA DirectIntro ==
    ASSUME NEW g, NEW eqs, NEW k, NEW value, Axiom(eqs, {}, k, value) \in g.axioms,
           \A eq \in eqs : eq[2] \in g.class[eq[1]]
    PROVE  Direct(g, k, value)
<1> DEFINE ax == Axiom(eqs, {}, k, value)
<1>1. ax.eqs = eqs /\ ax.holds = {} /\ ax.key = k /\ ax.value = value
    BY DEF Axiom
<1>2. ax \in InForce(g)
    BY <1>1 DEF InForce
<1> QED BY <1>1, <1>2 DEF Direct

LEMMA LitsInForce ==
    ASSUME NEW cl, NEW t, NEW u \in cl[t], NEW v, NEW w \in cl[v]
    PROVE  \A eq \in Lit(t, u) \cup Lit(v, w) : eq[2] \in cl[eq[1]]
    BY DEF Lit

LEMMA ValueOfOne ==
    ASSUME NEW S, NEW c \in S \cap Consts, \A d, e \in S \cap Consts : d = e
    PROVE  HasValue(S) /\ ValueNode(S) = c /\ ValueOf(S) = ConstOf[c]
<1>1. HasValue(S)
    BY DEF HasValue
<1>2. ValueNode(S) \in S /\ ValueNode(S) \in Consts
    BY DEF ValueNode
<1> QED BY <1>1, <1>2 DEF ValueOf

LEMMA EqcValueIn ==
    ASSUME NEW cl, NEW t, HasValue(cl[t])
    PROVE  EqcValue(cl, t) \in cl[t]
    BY DEF EqcValue, HasValue, ValueNode

\* The axioms of checkContainByEqcVal that the merge calls for.
LEMMA StrTold ==
    ASSUME NEW cl, NEW c, NEW k \in Keys, HasValue(cl[k[2]])
    PROVE  Axiom(Lit(k[1], c) \cup Lit(k[2], EqcValue(cl, k[2])), {}, k,
                 <<ConstOf[c], ValueOf(cl[k[2]])>> \in Includes)
           \in ContainByEqcVal(cl, k[1], c)
<1>1. k \in KeysOf(k[1])
    BY DEF KeysOf
<1> QED BY <1>1 DEF ContainByEqcVal

LEMMA StrPieceTold ==
    ASSUME NEW cl, NEW c, NEW k \in Keys, ~HasValue(cl[k[2]]),
           RefutingIn(ConstOf[c], cl[k[2]]) # {}
    PROVE  Axiom(Lit(k[1], c) \cup Lit(k[2], FirstTerm(RefutingIn(ConstOf[c], cl[k[2]]))),
                 {}, k, FALSE)
           \in ContainByEqcVal(cl, k[1], c)
<1>1. k \in KeysOf(k[1])
    BY DEF KeysOf
<1> QED BY <1>1 DEF ContainByEqcVal

LEMMA SubstrTold ==
    ASSUME NEW cl, NEW c, NEW k \in Keys, HasValue(cl[k[1]]), k[1] # k[2]
    PROVE  Axiom(Lit(k[2], c) \cup Lit(k[1], EqcValue(cl, k[1])), {}, k,
                 <<ValueOf(cl[k[1]]), ConstOf[c]>> \in Includes)
           \in ContainByEqcVal(cl, k[2], c)
<1>1. k \in KeysOf(k[2])
    BY DEF KeysOf
<1> QED BY <1>1 DEF ContainByEqcVal

\* checkContainBySubStr when the string that is to include v has a value:
\* the premises that gather in litems are equations of the classes, before
\* the merge or after it.
LEMMA PieceTold ==
    ASSUME NEW cl \in Classes, NEW k \in Keys, NEW will \in SUBSET Terms, HasValue(cl[k[1]]),
           RefutingIn(ValueOf(cl[k[1]]), will) # {},
           NEW merged, \A t \in Terms : cl[t] \subseteq merged[t], will \subseteq merged[k[2]]
    PROVE  \E eqs : /\ Axiom(eqs, {}, k, FALSE) \in ContainBySubStr(cl, k[2], will)
                    /\ \A eq \in eqs : eq[2] \in merged[eq[1]]
<1> DEFINE v == k[2]
           valued == {j \in Keys : j[2] = v /\ HasValue(cl[j[1]])}
           refuting(j) == RefutingIn(ValueOf(cl[j[1]]), will)
           pushed(j) ==
               Lit(j[1], EqcValue(cl, j[1]))
               \cup IF refuting(j) = {} THEN {} ELSE Lit(v, FirstTerm(refuting(j)))
           litems(j) == UNION {pushed(i) : i \in {i \in valued : KeyRank[i] <= KeyRank[j]}}
<1>1. k \in valued /\ refuting(k) # {}
    OBVIOUS
<1>2. ASSUME NEW j \in valued
      PROVE  \A eq \in pushed(j) : eq[2] \in merged[eq[1]]
    <2>1. j[1] \in Terms /\ j[2] = v /\ HasValue(cl[j[1]])
        BY KeyTerms
    <2>2. EqcValue(cl, j[1]) \in merged[j[1]]
        BY <2>1, EqcValueIn
    <2>3. refuting(j) # {} => FirstTerm(refuting(j)) \in merged[v]
        <3>1. refuting(j) \subseteq will
            BY DEF RefutingIn
        <3> HIDE DEF refuting
        <3>2. refuting(j) # {} => FirstTerm(refuting(j)) \in refuting(j)
            BY <3>1, FirstTermIn
        <3> QED BY <3>1, <3>2
    <2> HIDE DEF refuting
    <2>4. \A eq \in Lit(j[1], EqcValue(cl, j[1])) : eq[2] \in merged[eq[1]]
        BY <2>2 DEF Lit
    <2>5. refuting(j) # {} =>
              \A eq \in Lit(v, FirstTerm(refuting(j))) : eq[2] \in merged[eq[1]]
        BY <2>3 DEF Lit
    <2> QED BY <2>4, <2>5
<1>3. ContainBySubStr(cl, v, will)
          = {Axiom(litems(j), {}, j, FALSE) : j \in {j \in valued : refuting(j) # {}}}
    BY DEF ContainBySubStr
<1> HIDE DEF pushed, valued, refuting
<1>4. \A eq \in litems(k) : eq[2] \in merged[eq[1]]
    BY <1>2
<1> HIDE DEF litems
<1>5. Axiom(litems(k), {}, k, FALSE) \in ContainBySubStr(cl, v, will)
    BY <1>1, <1>3
<1> QED BY <1>4, <1>5

\* Two classes of which one at most has a constant, and what they become.
CanMerge(cl, n1, n2) ==
    /\ cl \in Classes /\ Partition(cl) /\ OneValue(cl)
    /\ n1 \in Terms /\ n2 \in Terms /\ ~BothValued(cl, n1, n2)
MergedConst(cl, n1, n2) == IF HasValue(cl[n1]) THEN ValueNode(cl[n1]) ELSE ValueNode(cl[n2])

LEMMA MergeFacts ==
    ASSUME NEW cl, NEW n1, NEW n2, CanMerge(cl, n1, n2),
           NEW will, will = cl[n1] \cup cl[n2], NEW merged, merged = Merged(cl, n1, n2)
    PROVE  /\ will \in SUBSET Terms /\ OneValue(merged)
           /\ \A t \in Terms : /\ t \in cl[t] /\ cl[t] \subseteq merged[t]
                               /\ merged[t] = IF t \in will THEN will ELSE cl[t]
           /\ HasValue(will) => /\ MergedConst(cl, n1, n2) \in will \cap Consts
                                /\ \A c \in will \cap Consts : c = MergedConst(cl, n1, n2)
<1>1. will \in SUBSET Terms /\ \A t \in Terms : t \in cl[t]
    BY DEF CanMerge, Classes, Partition
<1>2. \A t \in Terms : merged[t] = IF t \in will THEN will ELSE cl[t]
    BY DEF Merged
<1>3. \A t \in Terms : t \in will => cl[t] \subseteq will
    BY DEF CanMerge, Partition
<1>4. \/ will \cap Consts = cl[n1] \cap Consts /\ ~HasValue(cl[n2])
      \/ will \cap Consts = cl[n2] \cap Consts /\ ~HasValue(cl[n1])
    BY DEF CanMerge, BothValued, HasValue
<1>5. \A c, d \in will \cap Consts : c = d
    BY <1>4 DEF CanMerge, OneValue
<1>6. HasValue(will) => MergedConst(cl, n1, n2) \in will \cap Consts
    BY <1>4 DEF MergedConst, HasValue, ValueNode
<1>7. OneValue(merged)
    BY <1>2, <1>5 DEF OneValue, CanMerge
<1> QED BY <1>1, <1>2, <1>3, <1>5, <1>6, <1>7

\* A merge with its check, or without.
MergeStep(f, g, n1, n2) ==
    LET will == f.class[n1] \cup f.class[n2]
    IN /\ FrameOK(f) /\ Complete(f) /\ CanMerge(f.class, n1, n2)
       /\ g.class = Merged(f.class, n1, n2)
       /\ \/ /\ g.axioms = f.axioms \cup ContainInNewEq(f.class, n1, n2)
                                    \cup RegexIn(f.class, n1, n2)
             /\ g.skipped = f.skipped \ will
          \/ g.axioms = f.axioms /\ g.skipped = f.skipped \cup will

LEMMA StepKeeps ==
    ASSUME NEW f, NEW g, NEW n1, NEW n2, MergeStep(f, g, n1, n2)
    PROVE  /\ \A k, value : Direct(f, k, value) => Direct(g, k, value)
           /\ \A t \in Terms : HasValue(f.class[t]) =>
                  HasValue(g.class[t]) /\ ValueOf(g.class[t]) = ValueOf(f.class[t])
<1> DEFINE cl == f.class
           will == cl[n1] \cup cl[n2]
<1>1. CanMerge(cl, n1, n2) /\ g.class = Merged(cl, n1, n2) /\ f.axioms \subseteq g.axioms
    BY DEF MergeStep
<1>2. f.axioms \subseteq AxiomType
    BY FrameFields DEF MergeStep, FrameOK
<1>3. /\ OneValue(g.class)
      /\ \A t \in Terms : /\ t \in cl[t] /\ cl[t] \subseteq g.class[t]
                          /\ g.class[t] = IF t \in will THEN will ELSE cl[t]
    BY <1>1, MergeFacts
<1>4. ASSUME NEW t \in Terms, HasValue(cl[t])
      PROVE  HasValue(g.class[t]) /\ ValueOf(g.class[t]) = ValueOf(cl[t])
    <2>1. EqcValue(cl, t) \in cl[t] /\ EqcValue(cl, t) \in Consts
          /\ ValueOf(cl[t]) = ConstOf[EqcValue(cl, t)]
        BY <1>1, <1>4, EqcValueIsValue, EqcValueIn DEF CanMerge
    <2>2. EqcValue(cl, t) \in g.class[t] \cap Consts
        BY <1>3, <2>1
    <2>3. \A c, d \in g.class[t] \cap Consts : c = d
        BY <1>3 DEF OneValue
    <2> QED BY <2>1, <2>2, <2>3, ValueOfOne
<1>5. ASSUME NEW k, NEW value, Direct(f, k, value)
      PROVE  Direct(g, k, value)
    BY <1>1, <1>2, <1>3, <1>5, DirectStays
<1> QED BY <1>4, <1>5

\* An axiom of one of the two checks of a merge.
LEMMA ToldByVal ==
    ASSUME NEW cl, NEW n1, NEW n2, HasValue(cl[n1] \cup cl[n2]),
           NEW v \in (cl[n1] \cup cl[n2]) \ {MergedConst(cl, n1, n2)},
           NEW ax \in ContainByEqcVal(cl, v, MergedConst(cl, n1, n2))
    PROVE  ax \in ContainInNewEq(cl, n1, n2)
<1> DEFINE const == MergedConst(cl, n1, n2)
           will == cl[n1] \cup cl[n2]
           byVal == UNION {ContainByEqcVal(cl, u, const) : u \in will \ {const}}
           byNodes == UNION {UNION {ContainByEqNodes(cl, u, w) :
                                 w \in {t \in will : TermRank[u] <= TermRank[t]}} : u \in will}
<1>1. ContainInNewEq(cl, n1, n2) = byVal \cup byNodes
    BY DEF ContainInNewEq, MergedConst
<1> HIDE DEF byNodes
<1> QED BY <1>1

LEMMA ToldBySubStr ==
    ASSUME NEW cl, NEW n1, NEW n2, ~HasValue(cl[n1] \cup cl[n2]),
           NEW v \in cl[n1] \cup cl[n2],
           NEW ax \in ContainBySubStr(cl, v, cl[n1] \cup cl[n2])
    PROVE  ax \in ContainInNewEq(cl, n1, n2)
<1> DEFINE will == cl[n1] \cup cl[n2]
           bySubStr == UNION {ContainBySubStr(cl, u, will) : u \in will}
           byNodes == UNION {UNION {ContainByEqNodes(cl, u, w) :
                                 w \in {t \in will : TermRank[u] <= TermRank[t]}} : u \in will}
<1>1. ContainInNewEq(cl, n1, n2) = bySubStr \cup byNodes
    BY DEF ContainInNewEq
<1> HIDE DEF byNodes
<1> QED BY <1>1

\* After the merge a known Contains has its axiom.
LEMMA KeyStep ==
    ASSUME NEW f, NEW g, NEW n1, NEW n2, MergeStep(f, g, n1, n2), NEW k \in Keys,
           KeyKnown(g, k)
    PROVE  Direct(g, k, Actual(g, k))
<1> DEFINE cl == f.class
           will == cl[n1] \cup cl[n2]
           const == MergedConst(cl, n1, n2)
<1>1. CanMerge(cl, n1, n2) /\ g.class = Merged(cl, n1, n2) /\ cl \in Classes
    BY DEF MergeStep, CanMerge
<1>2. /\ will \in SUBSET Terms /\ OneValue(g.class)
      /\ \A t \in Terms : /\ t \in cl[t] /\ cl[t] \subseteq g.class[t]
                          /\ g.class[t] = IF t \in will THEN will ELSE cl[t]
      /\ HasValue(will) => const \in will \cap Consts /\ \A c \in will \cap Consts : c = const
    BY <1>1, MergeFacts
<1>3. /\ \A value : Direct(f, k, value) => Direct(g, k, value)
      /\ \A t \in Terms : HasValue(cl[t]) =>
             HasValue(g.class[t]) /\ ValueOf(g.class[t]) = ValueOf(cl[t])
    BY StepKeeps
<1>4. k[1] \in Terms /\ k[2] \in Terms /\ k \in Keys
    BY KeyTerms
<1>5. Actual(g, k) = (<<ValueOf(g.class[k[1]]), ValueOf(g.class[k[2]])>> \in Includes)
    BY <1>4 DEF Actual
<1>6. \/ g.axioms = f.axioms \cup ContainInNewEq(cl, n1, n2) \cup RegexIn(cl, n1, n2)
         /\ g.skipped = f.skipped \ will
      \/ g.axioms = f.axioms /\ g.skipped = f.skipped \cup will
    BY DEF MergeStep
<1>7. k[1] \in will => k[2] \notin will
    BY <1>2, <1>4 DEF KeyKnown
<1>8. HasValue(will) => ValueOf(will) = ConstOf[const]
    BY <1>2, ValueOfOne
<1> HIDE DEF will, const, cl
<1>9. CASE k[1] \in will /\ k[1] \notin Consts
    <2>1. /\ g.class[k[1]] = will /\ g.class[k[2]] = cl[k[2]]
          /\ HasValue(will) /\ HasValue(cl[k[2]])
        BY <1>2, <1>4, <1>7, <1>9 DEF KeyKnown
    <2>2. ContainInNewEq(cl, n1, n2) \subseteq g.axioms
        BY <1>6, <1>9 DEF KeyKnown, Told
    <2> DEFINE eqs == Lit(k[1], const) \cup Lit(k[2], EqcValue(cl, k[2]))
    <2>3. Axiom(eqs, {}, k, <<ConstOf[const], ValueOf(cl[k[2]])>> \in Includes)
              \in ContainInNewEq(cl, n1, n2)
        <3>1. k[1] \in will \ {const}
            BY <1>2, <1>9, <2>1
        <3>2. Axiom(eqs, {}, k, <<ConstOf[const], ValueOf(cl[k[2]])>> \in Includes)
                  \in ContainByEqcVal(cl, k[1], const)
            BY <2>1, StrTold
        <3> HIDE DEF eqs
        <3> QED BY <2>1, <3>1, <3>2, ToldByVal DEF will, const
    <2>4. \A eq \in eqs : eq[2] \in g.class[eq[1]]
        <3>1. const \in g.class[k[1]]
            BY <1>2, <2>1
        <3>2. EqcValue(cl, k[2]) \in g.class[k[2]]
            BY <2>1, EqcValueIn
        <3> QED BY <3>1, <3>2, LitsInForce
    <2>5. Actual(g, k) = (<<ConstOf[const], ValueOf(cl[k[2]])>> \in Includes)
        BY <1>5, <1>8, <2>1
    <2> HIDE DEF eqs
    <2> QED BY <2>2, <2>3, <2>4, <2>5, DirectIntro
<1>10. CASE k[2] \in will /\ k[2] \notin Consts
    <2>1. /\ g.class[k[2]] = will /\ g.class[k[1]] = cl[k[1]] /\ k[1] # k[2]
          /\ HasValue(will) /\ HasValue(cl[k[1]])
        BY <1>2, <1>4, <1>7, <1>10 DEF KeyKnown
    <2>2. ContainInNewEq(cl, n1, n2) \subseteq g.axioms
        BY <1>6, <1>10 DEF KeyKnown, Told
    <2> DEFINE eqs == Lit(k[2], const) \cup Lit(k[1], EqcValue(cl, k[1]))
    <2>3. Axiom(eqs, {}, k, <<ValueOf(cl[k[1]]), ConstOf[const]>> \in Includes)
              \in ContainInNewEq(cl, n1, n2)
        <3>1. k[2] \in will \ {const}
            BY <1>2, <1>10, <2>1
        <3>2. Axiom(eqs, {}, k, <<ValueOf(cl[k[1]]), ConstOf[const]>> \in Includes)
                  \in ContainByEqcVal(cl, k[2], const)
            BY <2>1, SubstrTold
        <3> HIDE DEF eqs
        <3> QED BY <2>1, <3>1, <3>2, ToldByVal DEF will, const
    <2>4. \A eq \in eqs : eq[2] \in g.class[eq[1]]
        <3>1. const \in g.class[k[2]]
            BY <1>2, <2>1
        <3>2. EqcValue(cl, k[1]) \in g.class[k[1]]
            BY <2>1, EqcValueIn
        <3> QED BY <3>1, <3>2, LitsInForce
    <2>5. Actual(g, k) = (<<ValueOf(cl[k[1]]), ConstOf[const]>> \in Includes)
        BY <1>5, <1>8, <2>1
    <2> HIDE DEF eqs
    <2> QED BY <2>2, <2>3, <2>4, <2>5, DirectIntro
<1>11. CASE (k[1] \in will => k[1] \in Consts) /\ (k[2] \in will => k[2] \in Consts)
    <2>1. HasValue(cl[k[1]]) /\ HasValue(cl[k[2]])
        BY <1>2, <1>4, <1>11 DEF KeyKnown, HasValue
    <2>2. KeyKnown(f, k)
        BY <1>2, <1>4, <1>6, <1>11, <2>1 DEF KeyKnown, Told, cl
    <2>3. Direct(f, k, Actual(f, k))
        BY <2>2 DEF MergeStep, Complete
    <2>4. Actual(f, k) = Actual(g, k)
        BY <1>3, <1>4, <1>5, <2>1 DEF Actual, cl
    <2> QED BY <1>3, <2>3, <2>4
<1> QED BY <1>9, <1>10, <1>11

\* After the merge a concat that cannot be inside has its axiom.
LEMMA PieceStep ==
    ASSUME NEW f, NEW g, NEW n1, NEW n2, MergeStep(f, g, n1, n2), NEW k \in Keys,
           PieceKnown(g, k)
    PROVE  Direct(g, k, FALSE)
<1> DEFINE cl == f.class
           will == cl[n1] \cup cl[n2]
           const == MergedConst(cl, n1, n2)
<1>1. CanMerge(cl, n1, n2) /\ g.class = Merged(cl, n1, n2) /\ cl \in Classes
    BY DEF MergeStep, CanMerge
<1>2. /\ will \in SUBSET Terms /\ OneValue(g.class)
      /\ \A t \in Terms : /\ t \in cl[t] /\ cl[t] \subseteq g.class[t]
                          /\ g.class[t] = IF t \in will THEN will ELSE cl[t]
      /\ HasValue(will) => const \in will \cap Consts /\ \A c \in will \cap Consts : c = const
    BY <1>1, MergeFacts
<1>3. /\ \A value : Direct(f, k, value) => Direct(g, k, value)
      /\ \A t \in Terms : HasValue(cl[t]) =>
             HasValue(g.class[t]) /\ ValueOf(g.class[t]) = ValueOf(cl[t])
    BY StepKeeps
<1>4. k[1] \in Terms /\ k[2] \in Terms /\ k \in Keys
    BY KeyTerms
<1>5. \/ g.axioms = f.axioms \cup ContainInNewEq(cl, n1, n2) \cup RegexIn(cl, n1, n2)
         /\ g.skipped = f.skipped \ will
      \/ g.axioms = f.axioms /\ g.skipped = f.skipped \cup will
    BY DEF MergeStep
<1>6. HasValue(will) => ValueOf(will) = ConstOf[const]
    BY <1>2, ValueOfOne
<1>7. k[2] \notin Consts
    BY <1>2, <1>4 DEF PieceKnown, HasValue
<1> HIDE DEF will, const, cl
<1>8. CASE k[2] \in will
    <2>1. g.class[k[2]] = will /\ ~HasValue(will)
        BY <1>2, <1>4, <1>8 DEF PieceKnown
    <2>2. k[1] \notin will /\ g.class[k[1]] = cl[k[1]] /\ HasValue(cl[k[1]])
        BY <1>2, <1>4, <2>1 DEF PieceKnown
    <2>3. ContainInNewEq(cl, n1, n2) \subseteq g.axioms
        BY <1>5, <1>7, <1>8 DEF PieceKnown, Told
    <2>4. RefutingIn(ValueOf(cl[k[1]]), will) # {}
        BY <2>1, <2>2 DEF PieceKnown
    <2> DEFINE merged == g.class
    <2>5. /\ will \in SUBSET Terms /\ \A t \in Terms : cl[t] \subseteq merged[t]
          /\ will \subseteq merged[k[2]]
        BY <1>2, <2>1
    <2> HIDE DEF merged
    <2>6. PICK eqs : /\ Axiom(eqs, {}, k, FALSE) \in ContainBySubStr(cl, k[2], will)
                     /\ \A eq \in eqs : eq[2] \in merged[eq[1]]
        BY <1>1, <2>2, <2>4, <2>5, PieceTold
    <2>7. Axiom(eqs, {}, k, FALSE) \in ContainInNewEq(cl, n1, n2)
        BY <1>8, <2>1, <2>6, ToldBySubStr DEF will
    <2> QED BY <2>3, <2>6, <2>7, DirectIntro DEF merged
<1>9. CASE k[2] \notin will /\ k[1] \in will /\ k[1] \notin Consts
    <2>1. /\ g.class[k[1]] = will /\ g.class[k[2]] = cl[k[2]]
          /\ HasValue(will) /\ ~HasValue(cl[k[2]])
        BY <1>2, <1>4, <1>9 DEF PieceKnown
    <2>2. ContainInNewEq(cl, n1, n2) \subseteq g.axioms
        BY <1>5, <1>9 DEF PieceKnown, Told
    <2> DEFINE refuting == RefutingIn(ConstOf[const], cl[k[2]])
               eqs == Lit(k[1], const) \cup Lit(k[2], FirstTerm(refuting))
    <2>3. refuting # {}
        BY <1>6, <2>1 DEF PieceKnown
    <2>4. Axiom(eqs, {}, k, FALSE) \in ContainInNewEq(cl, n1, n2)
        <3>1. k[1] \in will \ {const}
            BY <1>2, <1>9, <2>1
        <3>2. Axiom(eqs, {}, k, FALSE) \in ContainByEqcVal(cl, k[1], const)
            BY <2>1, <2>3, StrPieceTold
        <3> HIDE DEF eqs
        <3> QED BY <2>1, <3>1, <3>2, ToldByVal DEF will, const
    <2>5. \A eq \in eqs : eq[2] \in g.class[eq[1]]
        <3>1. const \in g.class[k[1]]
            BY <1>2, <2>1
        <3>2. refuting \subseteq cl[k[2]] /\ cl[k[2]] \subseteq Terms
            BY <1>1, <1>4 DEF RefutingIn, Classes
        <3> HIDE DEF refuting
        <3>3. FirstTerm(refuting) \in refuting
            BY <2>3, <3>2, FirstTermIn
        <3>4. FirstTerm(refuting) \in g.class[k[2]]
            BY <2>1, <3>2, <3>3
        <3> QED BY <3>1, <3>4, LitsInForce
    <2> HIDE DEF eqs
    <2> QED BY <2>2, <2>4, <2>5, DirectIntro
<1>10. CASE k[2] \notin will /\ (k[1] \in will => k[1] \in Consts)
    <2>1. HasValue(cl[k[1]]) /\ cl[k[2]] = g.class[k[2]]
        BY <1>2, <1>4, <1>10 DEF PieceKnown, HasValue
    <2>2. ValueOf(g.class[k[1]]) = ValueOf(cl[k[1]])
        BY <1>3, <1>4, <2>1
    <2>3. Told(f, k[1]) /\ Told(f, k[2])
        BY <1>5, <1>10 DEF PieceKnown, Told
    <2>4. PieceKnown(f, k)
        BY <2>1, <2>2, <2>3 DEF PieceKnown, cl
    <2>5. Direct(f, k, FALSE)
        BY <2>4 DEF MergeStep, Complete
    <2> QED BY <1>3, <2>5
<1> QED BY <1>8, <1>9, <1>10

\* After the merge the RegexIn of a string with a value has its axiom.
LEMMA RegexStep ==
    ASSUME NEW f, NEW g, NEW n1, NEW n2, MergeStep(f, g, n1, n2), NEW k \in RegexKeys,
           RegexKnown(g, k)
    PROVE  Direct(g, k, Actual(g, k))
<1> DEFINE cl == f.class
           will == cl[n1] \cup cl[n2]
           const == MergedConst(cl, n1, n2)
<1>1. CanMerge(cl, n1, n2) /\ g.class = Merged(cl, n1, n2)
    BY DEF MergeStep
<1>2. /\ will \in SUBSET Terms /\ OneValue(g.class)
      /\ \A t \in Terms : /\ t \in cl[t] /\ cl[t] \subseteq g.class[t]
                          /\ g.class[t] = IF t \in will THEN will ELSE cl[t]
      /\ HasValue(will) => const \in will \cap Consts /\ \A c \in will \cap Consts : c = const
    BY <1>1, MergeFacts
<1>3. /\ \A value : Direct(f, k, value) => Direct(g, k, value)
      /\ \A t \in Terms : HasValue(cl[t]) =>
             HasValue(g.class[t]) /\ ValueOf(g.class[t]) = ValueOf(cl[t])
    BY StepKeeps
<1>4. k[1] \in Terms /\ k \notin Keys
    BY TermsAssumption
<1>5. /\ Actual(g, k) = (<<ValueOf(g.class[k[1]]), k[2]>> \in Matches)
      /\ Actual(f, k) = (<<ValueOf(cl[k[1]]), k[2]>> \in Matches)
    BY <1>4 DEF Actual
<1>6. \/ g.axioms = f.axioms \cup ContainInNewEq(cl, n1, n2) \cup RegexIn(cl, n1, n2)
         /\ g.skipped = f.skipped \ will
      \/ g.axioms = f.axioms /\ g.skipped = f.skipped \cup will
    BY DEF MergeStep
<1>7. HasValue(will) => ValueOf(will) = ConstOf[const]
    BY <1>2, ValueOfOne
<1>8. HasValue(will) =>
          RegexIn(cl, n1, n2)
              = {Axiom(Lit(j[1], const), {}, j, <<ConstOf[const], j[2]>> \in Matches) :
                     j \in {j \in RegexKeys : j[1] \in will}}
    BY DEF RegexIn, MergedConst
<1> HIDE DEF will, const, cl
<1>9. CASE k[1] \in will
    <2>1. g.class[k[1]] = will /\ HasValue(will)
        BY <1>2, <1>4, <1>9 DEF RegexKnown
    <2>2. RegexIn(cl, n1, n2) \subseteq g.axioms
        BY <1>6, <1>9 DEF RegexKnown
    <2>3. Axiom(Lit(k[1], const), {}, k, <<ConstOf[const], k[2]>> \in Matches) \in g.axioms
        BY <1>8, <1>9, <2>1, <2>2
    <2>4. \A eq \in Lit(k[1], const) : eq[2] \in g.class[eq[1]]
        BY <1>2, <2>1 DEF Lit
    <2>5. Actual(g, k) = (<<ConstOf[const], k[2]>> \in Matches)
        BY <1>5, <1>7, <2>1
    <2> QED BY <2>3, <2>4, <2>5, DirectIntro
<1>10. CASE k[1] \notin will
    <2>1. cl[k[1]] = g.class[k[1]] /\ k[1] \notin f.skipped
        BY <1>2, <1>4, <1>6, <1>10 DEF RegexKnown
    <2>2. RegexKnown(f, k)
        BY <2>1 DEF RegexKnown, cl
    <2>3. Direct(f, k, Actual(f, k))
        BY <2>2 DEF MergeStep, Complete
    <2> QED BY <1>3, <1>5, <2>1, <2>3
<1> QED BY <1>9, <1>10

LEMMA StepComplete ==
    ASSUME NEW f, NEW g, NEW n1, NEW n2, MergeStep(f, g, n1, n2)
    PROVE  Complete(g)
<1>1. CanMerge(f.class, n1, n2) /\ g.class = Merged(f.class, n1, n2)
    BY DEF MergeStep
<1> DEFINE merged == Merged(f.class, n1, n2)
           will == f.class[n1] \cup f.class[n2]
<1>2. merged = Merged(f.class, n1, n2) /\ will = f.class[n1] \cup f.class[n2]
    OBVIOUS
<1> HIDE DEF merged, will
<1>3. OneValue(merged)
    BY <1>1, <1>2, MergeFacts
<1> QED BY <1>1, <1>2, <1>3, KeyStep, PieceStep, RegexStep DEF Complete

\* Where the core has met no conflict, what is known is decided.
Informed(f) == f.conflict \/ Complete(f)
DInv == IInv /\ \A i \in 1..Len(frames) : Informed(frames[i])

LEMMA NewEqInformed ==
    ASSUME NEW f, FrameOK(f), Informed(f), ~f.conflict, NEW n1 \in Terms, NEW n2 \in Terms,
           ~BothValued(f.class, n1, n2)
    PROVE  Informed(NewEq(f, n1, n2))
<1> DEFINE g == NewEq(f, n1, n2)
           will == f.class[n1] \cup f.class[n2]
           class == Merged(f.class, n1, n2)
           axioms == f.axioms \cup ContainInNewEq(f.class, n1, n2) \cup RegexIn(f.class, n1, n2)
<1>1. Complete(f) /\ f \in FrameType /\ f.class \in Classes /\ Partition(f.class)
    BY FrameFields DEF Informed, FrameOK
<1>2. CanMerge(f.class, n1, n2)
    BY <1>1 DEF CanMerge, Complete
<1>3. CASE Skipped(f.class, n1, n2)
    <2>1. g = [f EXCEPT !.class = class, !.skipped = @ \cup will]
        BY <1>3 DEF NewEq
    <2> HIDE DEF g, class, will
    <2>2. g.class = class /\ g.axioms = f.axioms /\ g.skipped = f.skipped \cup will
        BY <1>1, <2>1 DEF FrameType
    <2>3. MergeStep(f, g, n1, n2)
        BY <1>1, <1>2, <2>2 DEF MergeStep, class, will
    <2> QED BY <2>3, StepComplete DEF Informed, g
<1>4. CASE ~Skipped(f.class, n1, n2) /\ Refuted(f.class, n1, n2)
    <2>1. g = [f EXCEPT !.class = class, !.conflict = TRUE]
        BY <1>4 DEF NewEq
    <2> HIDE DEF g, class
    <2>2. g.conflict = TRUE
        BY <1>1, <2>1 DEF FrameType
    <2> QED BY <2>2 DEF Informed, g
<1>5. CASE ~Skipped(f.class, n1, n2) /\ ~Refuted(f.class, n1, n2)
    <2>1. g = [class |-> class, axioms |-> axioms, skipped |-> f.skipped \ will,
               conflict |-> f.conflict]
        BY <1>5 DEF NewEq
    <2> HIDE DEF g, class, axioms, will
    <2>2. g.class = class /\ g.axioms = axioms /\ g.skipped = f.skipped \ will
        BY <2>1
    <2>3. MergeStep(f, g, n1, n2)
        BY <1>1, <1>2, <2>2 DEF MergeStep, class, axioms, will
    <2> QED BY <2>3, StepComplete DEF Informed, g
<1> QED BY <1>3, <1>4, <1>5

LEMMA InitDInv == Init => DInv
<1> SUFFICES ASSUME Init PROVE DInv
    OBVIOUS
<1> DEFINE single == [t \in Terms |-> {t}]
           f == [class |-> single, axioms |-> {}, skipped |-> {}, conflict |-> FALSE]
<1>1. frames = <<f>>
    BY DEF Init, Apart
<1>2. f.class = single /\ \A t \in Terms : single[t] = {t}
    OBVIOUS
<1> HIDE DEF single, f
<1>3. OneValue(f.class)
    BY <1>2 DEF OneValue
<1>4. ASSUME NEW k \in Keys
      PROVE  ~KeyKnown(f, k) /\ ~PieceKnown(f, k)
    <2>1. f.class[k[1]] = {k[1]} /\ f.class[k[2]] = {k[2]}
        BY <1>2, KeyTerms
    <2> QED BY <2>1 DEF KeyKnown, PieceKnown, HasValue, Ground
<1>5. ASSUME NEW k \in RegexKeys
      PROVE  ~RegexKnown(f, k)
    <2>1. f.class[k[1]] = {k[1]}
        BY <1>2, TermsAssumption
    <2> QED BY <2>1 DEF RegexKnown, HasValue
<1>6. Complete(f)
    BY <1>3, <1>4, <1>5 DEF Complete
<1>7. Len(frames) = 1 /\ frames[1] = f /\ 1..1 = {1}
    BY <1>1
<1> QED BY <1>6, <1>7, InitIInv DEF DInv, Informed

LEMMA EquateDInv ==
    ASSUME DInv, NEW n1 \in Terms, NEW n2 \in Terms, Equate(n1, n2)
    PROVE  DInv'
<1> DEFINE n == Len(frames)
           f == frames[n]
           g == IF BothValued(f.class, n1, n2) THEN [f EXCEPT !.conflict = TRUE]
                ELSE NewEq(f, n1, n2)
<1>1. frames \in Seq(FrameType) /\ n \in Nat /\ n \in 1..n
    BY TermsAssumption DEF DInv, IInv
<1>2. FrameOK(f) /\ Informed(f) /\ f \in FrameType /\ ~f.conflict
    BY <1>1 DEF DInv, IInv, Equate, Top
<1>3. Informed(g)
    <2>1. CASE BothValued(f.class, n1, n2)
        <3>1. g = [f EXCEPT !.conflict = TRUE]
            BY <2>1
        <3> HIDE DEF g
        <3>2. g.conflict = TRUE
            BY <1>2, <3>1 DEF FrameType
        <3> QED BY <3>2 DEF Informed
    <2>2. CASE ~BothValued(f.class, n1, n2)
        BY <1>2, <2>2, NewEqInformed
    <2> QED BY <2>1, <2>2
<1>4. frames' = [frames EXCEPT ![n] = g]
    BY DEF Equate, Top
<1>5. IInv'
    BY EquateIInv DEF DInv
<1> HIDE DEF g, n
<1>6. Len(frames') = n /\ \A i \in 1..n : frames'[i] = IF i = n THEN g ELSE frames[i]
    BY <1>1, <1>4 DEF n
<1> QED BY <1>3, <1>5, <1>6 DEF DInv, n

LEMMA NextDInv == DInv /\ [Next]_frames => DInv'
<1> SUFFICES ASSUME DInv, [Next]_frames PROVE DInv'
    OBVIOUS
<1> DEFINE n == Len(frames)
<1>0. IInv' /\ frames \in Seq(FrameType) /\ n \in Nat /\ n \in 1..n
    BY NextIInv, TermsAssumption DEF DInv, IInv
<1>1. CASE AssertFact
    <2>1. PICK fact \in Facts : Equate(fact[1], fact[2])
        BY <1>1 DEF AssertFact
    <2>2. fact[1] \in Terms /\ fact[2] \in Terms
        BY TermsAssumption
    <2> QED BY <2>1, <2>2, EquateDInv
<1>2. CASE Congruence
    <2>1. PICK c \in Concats, d \in Concats : Equate(c, d)
        BY <1>2 DEF Congruence
    <2> QED BY <2>1, EquateDInv, TermsAssumption
<1>3. CASE Push
    <2>1. frames' = Append(frames, frames[n])
        BY <1>3 DEF Push, Top
    <2>2. /\ Len(frames') = n + 1
          /\ \A i \in 1..n + 1 : frames'[i] = IF i = n + 1 THEN frames[n] ELSE frames[i]
        BY <1>0, <2>1
    <2> QED BY <1>0, <2>2 DEF DInv
<1>4. CASE Pop
    <2>1. n > 1 /\ frames' = SubSeq(frames, 1, n - 1)
        BY <1>4 DEF Pop
    <2>2. Len(frames') = n - 1 /\ \A i \in 1..n - 1 : frames'[i] = frames[i]
        BY <1>0, <2>1
    <2> QED BY <1>0, <2>2 DEF DInv
<1>5. CASE UNCHANGED frames
    BY <1>0, <1>5 DEF DInv
<1> QED BY <1>1, <1>2, <1>3, <1>4, <1>5 DEF Next

LEMMA TopInformed ==
    ASSUME DInv, ~Top.conflict
    PROVE  Complete(Top) /\ \A k \in AllKeys : k \in Keys \/ k \in RegexKeys
<1>1. Len(frames) \in 1..Len(frames)
    BY TermsAssumption DEF DInv, IInv
<1> QED BY <1>1 DEF DInv, Informed, Top, AllKeys

\* Once its strings have values a Contains, or a RegexIn, is decided as the
\* strings have it, whatever the terms, the keys, the order of the merges and
\* the scopes that were left: checkContainByEqcVal and checkRegexIn miss no
\* merge that tells a value.
THEOREM WhatIsKnownIsDecided == Spec => []KnownIsDecided
<1>1. DInv => KnownIsDecided
    <2> SUFFICES ASSUME DInv, NEW k \in AllKeys,
                        ~Top.conflict, Known(Top, k), Checked(Top, k), ~Ground(k),
                        k \in Keys => k[2] \notin Top.class[k[1]]
                 PROVE  Decided(Top, k, Actual(Top, k))
        BY DEF KnownIsDecided
    <2>1. Complete(Top) /\ (k \in Keys \/ k \in RegexKeys \ Keys)
        BY TopInformed
    <2>2. CASE k \in Keys
        BY <2>1, <2>2, DirectDecides DEF Complete, KeyKnown, Told, Known, Checked
    <2>3. CASE k \in RegexKeys \ Keys
        BY <2>1, <2>3, DirectDecides DEF Complete, RegexKnown, Known, Checked, Ground
    <2> QED BY <2>1, <2>2, <2>3
<1> QED BY <1>1, InitDInv, NextDInv, PTL DEF Spec

\* A string with a value is known not to include a term that equals a concat
\* with a constant that is not in that value, whichever of the two was known
\* last: checkContainByEqcVal and checkContainBySubStr together miss no case.
THEOREM WrongPiecesRefute == Spec => []PiecesRefute
<1>1. DInv => PiecesRefute
    <2> SUFFICES ASSUME DInv, NEW k \in Keys, ~Top.conflict, Checked(Top, k),
                        k[1] \in Consts => Top.class[k[2]] # {k[2]},
                        HasValue(Top.class[k[1]]), ~HasValue(Top.class[k[2]]),
                        RefutingIn(ValueOf(Top.class[k[1]]), Top.class[k[2]]) # {}
                 PROVE  Decided(Top, k, FALSE)
        BY DEF PiecesRefute
    <2>1. PieceKnown(Top, k)
        BY DEF PieceKnown, Told, Checked
    <2>2. Direct(Top, k, FALSE)
        BY <2>1, TopInformed DEF Complete
    <2> QED BY <2>2, KeyTerms, DirectDecides
<1> QED BY <1>1, InitDInv, NextDInv, PTL DEF Spec

-----------------------------------------------------------------------------
(* Functions on strings (StringFunctions).  Strings, and where they are cut. *)

Upto(s, i) == SubSeq(s, 1, i)
From(s, i) == SubSeq(s, i + 1, Len(s))

LEMMA CutFacts ==
    ASSUME NEW s \in Text, NEW m \in Int, NEW n \in Int, 0 <= m, m <= n, n <= Len(s)
    PROVE  /\ SubSeq(s, m + 1, n) \in Text /\ Len(SubSeq(s, m + 1, n)) = n - m
           /\ \A k \in 1..n - m : SubSeq(s, m + 1, n)[k] = s[m + k]
<1>1. \A i \in m + 1..n : s[i] \in Chars
    BY DEF Text
<1>2. /\ SubSeq(s, m + 1, n) \in Seq(Chars)
      /\ Len(SubSeq(s, m + 1, n)) = IF m + 1 <= n THEN n - (m + 1) + 1 ELSE 0
      /\ \A k \in 1..n - (m + 1) + 1 : SubSeq(s, m + 1, n)[k] = s[(m + 1) + k - 1]
    BY <1>1, SubSeqProperties, m + 1 \in Int
<1>3. n - (m + 1) + 1 = n - m /\ (~(m + 1 <= n) => n - m = 0) /\ \A k \in Int : (m + 1) + k - 1 = m + k
    OBVIOUS
<1> QED BY <1>2, <1>3 DEF Text

LEMMA Lengths == ASSUME NEW s \in Text PROVE Len(s) \in Nat /\ (s = <<>> <=> Len(s) = 0)
    BY DEF Text

LEMMA UptoFacts ==
    ASSUME NEW s \in Text, NEW i \in 0..Len(s)
    PROVE  /\ Upto(s, i) \in Text /\ Len(Upto(s, i)) = i
           /\ \A k \in 1..i : Upto(s, i)[k] = s[k]
<1>1. Len(s) \in Nat /\ 0 \in Int /\ i \in Int /\ 0 <= i /\ i <= Len(s) /\ 0 + 1 = 1 /\ i - 0 = i
    BY Lengths
<1>2. ASSUME NEW m \in Int, m = 0
      PROVE  /\ SubSeq(s, m + 1, i) \in Text /\ Len(SubSeq(s, m + 1, i)) = i - m
             /\ \A k \in 1..i - m : SubSeq(s, m + 1, i)[k] = s[m + k]
    <2>1. 0 <= m /\ m <= i
        BY <1>1, <1>2
    <2> QED BY <1>1, <2>1, CutFacts
<1>3. \A k \in 1..i : 0 + k = k
    BY <1>1
<1> QED BY <1>1, <1>2, <1>3 DEF Upto

LEMMA FromFacts ==
    ASSUME NEW s \in Text, NEW i \in 0..Len(s)
    PROVE  /\ From(s, i) \in Text /\ Len(From(s, i)) = Len(s) - i
           /\ \A k \in 1..Len(s) - i : From(s, i)[k] = s[i + k]
<1>1. Len(s) \in Nat /\ i \in Int /\ 0 <= i /\ i <= Len(s)
    BY Lengths
<1> QED BY <1>1, CutFacts DEF From

LEMMA JoinFacts ==
    ASSUME NEW s \in Text, NEW t \in Text
    PROVE  /\ s \o t \in Text /\ Len(s \o t) = Len(s) + Len(t)
           /\ \A k \in 1..Len(s) + Len(t) : (s \o t)[k] = IF k <= Len(s) THEN s[k] ELSE t[k - Len(s)]
    BY ConcatProperties DEF Text

LEMMA SameText ==
    ASSUME NEW s \in Text, NEW t \in Text, Len(s) = Len(t), \A k \in 1..Len(s) : s[k] = t[k]
    PROVE  s = t
    BY SeqEqual DEF Text

\* p is in s at i if and only if its characters are there.
LEMMA PlaceIs ==
    ASSUME NEW s \in Text, NEW p \in Text, NEW i
    PROVE  i \in Places(s, p)
           <=> i \in Nat /\ i + Len(p) <= Len(s) /\ \A k \in 1..Len(p) : s[i + k] = p[k]
<1>1. Len(s) \in Nat /\ Len(p) \in Nat
    BY Lengths
<1>2. i \in 0..Len(s) - Len(p) <=> i \in Nat /\ i + Len(p) <= Len(s)
    BY <1>1
<1>3. ASSUME i \in Nat, i + Len(p) <= Len(s)
      PROVE  SubSeq(s, i + 1, i + Len(p)) = p <=> \A k \in 1..Len(p) : s[i + k] = p[k]
    <2> DEFINE n == i + Len(p)
               cut == SubSeq(s, i + 1, n)
    <2>1. n \in Int /\ i \in Int /\ 0 <= i /\ i <= n /\ n <= Len(s) /\ n - i = Len(p)
        BY <1>1, <1>3
    <2> HIDE DEF n
    <2>2. cut \in Text /\ Len(cut) = Len(p) /\ \A k \in 1..Len(p) : cut[k] = s[i + k]
        BY <2>1, CutFacts
    <2> HIDE DEF cut
    <2>3. cut = p <=> \A k \in 1..Len(p) : s[i + k] = p[k]
        BY <2>2, SameText
    <2> QED BY <2>3 DEF cut, n
<1> QED BY <1>2, <1>3 DEF Places

LEMMA PlaceFacts ==
    ASSUME NEW s \in Text, NEW p \in Text, NEW i \in Places(s, p)
    PROVE  i \in Nat /\ i \in 0..Len(s) /\ i + Len(p) \in 0..Len(s) /\ i <= i + Len(p)
<1>1. i \in Nat /\ i + Len(p) <= Len(s) /\ Len(s) \in Nat /\ Len(p) \in Nat
    BY PlaceIs, Lengths
<1> QED BY <1>1

LEMMA PlacesUpto ==
    ASSUME NEW s \in Text, NEW p \in Text, NEW n \in 0..Len(s), NEW i
    PROVE  i \in Places(Upto(s, n), p) <=> i \in Places(s, p) /\ i + Len(p) <= n
<1>1. Upto(s, n) \in Text /\ Len(Upto(s, n)) = n /\ \A k \in 1..n : Upto(s, n)[k] = s[k]
    BY UptoFacts
<1>2. i \in Places(Upto(s, n), p)
      <=> i \in Nat /\ i + Len(p) <= n /\ \A k \in 1..Len(p) : Upto(s, n)[i + k] = p[k]
    BY <1>1, PlaceIs
<1>3. Len(p) \in Nat /\ Len(s) \in Nat /\ n <= Len(s) /\ n \in Nat
    BY Lengths
<1>4. ASSUME i \in Nat, i + Len(p) <= n, NEW k \in 1..Len(p) PROVE Upto(s, n)[i + k] = s[i + k]
    <2>1. i + k \in 1..n
        BY <1>3, <1>4
    <2> QED BY <1>1, <2>1
<1>5. i \in Nat /\ i + Len(p) <= n => i + Len(p) <= Len(s)
    BY <1>3
<1> QED BY <1>2, <1>4, <1>5, PlaceIs

LEMMA PlacesFrom ==
    ASSUME NEW s \in Text, NEW p \in Text, NEW n \in 0..Len(s), NEW i \in Int
    PROVE  i \in Places(From(s, n), p) <=> i >= 0 /\ n + i \in Places(s, p)
<1>1. /\ From(s, n) \in Text /\ Len(From(s, n)) = Len(s) - n
      /\ \A k \in 1..Len(s) - n : From(s, n)[k] = s[n + k]
    BY FromFacts
<1>2. i \in Places(From(s, n), p)
      <=> i \in Nat /\ i + Len(p) <= Len(s) - n /\ \A k \in 1..Len(p) : From(s, n)[i + k] = p[k]
    BY <1>1, PlaceIs
<1>3. Len(p) \in Nat /\ Len(s) \in Nat /\ n <= Len(s) /\ n \in Nat
    BY Lengths
<1>4. ASSUME i \in Nat, i + Len(p) <= Len(s) - n, NEW k \in 1..Len(p)
      PROVE  From(s, n)[i + k] = s[n + i + k]
    <2>1. i + k \in 1..Len(s) - n /\ n + (i + k) = n + i + k
        BY <1>3, <1>4
    <2> QED BY <1>1, <2>1
<1>5. i >= 0 => (i \in Nat /\ n + i \in Nat /\ (i + Len(p) <= Len(s) - n <=> n + i + Len(p) <= Len(s)))
    BY <1>3
<1>6. n + i \in Places(s, p)
      <=> n + i \in Nat /\ n + i + Len(p) <= Len(s) /\ \A k \in 1..Len(p) : s[n + i + k] = p[k]
    BY PlaceIs
<1>7. i \in Nat => i >= 0
    OBVIOUS
<1> QED BY <1>2, <1>4, <1>5, <1>6, <1>7

\* Both parts of a string, and what is around a place.
LEMMA PrefixesAndSuffixes ==
    ASSUME NEW s \in Text
    PROVE  /\ Prefixes(s) = {Upto(s, i) : i \in 0..Len(s)}
           /\ Suffixes(s) = {From(s, i) : i \in 0..Len(s)}
<1>1. Len(s) \in Nat
    BY Lengths
<1>2. Prefixes(s) = {Upto(s, i) : i \in 0..Len(s)}
    BY DEF Prefixes, Upto
<1>3. From(s, Len(s)) = <<>> /\ Len(s) \in 0..Len(s)
    <2>1. Len(s) + 1 \in Int /\ Len(s) < Len(s) + 1 /\ Len(s) \in Int
        BY <1>1
    <2> QED BY <1>1, <2>1, SubSeqEmpty DEF From
<1>4. ASSUME NEW y \in Suffixes(s) PROVE \E i \in 0..Len(s) : y = From(s, i)
    <2>1. CASE y = <<>>
        BY <2>1, <1>3
    <2>2. CASE y # <<>>
        <3>1. PICK l \in 1..Len(s) : y = SubSeq(s, l, Len(s))
            BY <2>2 DEF Suffixes
        <3>2. l - 1 \in 0..Len(s) /\ (l - 1) + 1 = l
            BY <1>1
        <3> QED BY <3>1, <3>2 DEF From
    <2> QED BY <2>1, <2>2
<1>5. ASSUME NEW i \in 0..Len(s) PROVE From(s, i) \in Suffixes(s)
    <2>1. CASE i = Len(s)
        BY <1>3, <2>1 DEF Suffixes
    <2>2. CASE i # Len(s)
        <3>1. i + 1 \in 1..Len(s)
            BY <1>1, <2>2
        <3> QED BY <3>1 DEF From, Suffixes
    <2> QED BY <2>1, <2>2
<1> QED BY <1>2, <1>4, <1>5

LEMMA Glued ==
    ASSUME NEW s \in Text, NEW i \in 0..Len(s)
    PROVE  Upto(s, i) \o From(s, i) = s
<1>1. Len(s) \in Nat /\ i \in Nat /\ i <= Len(s)
    BY Lengths
<1>2. 1 \in 1..Len(s) + 1 /\ i \in 1 - 1..Len(s) /\ Len(s) \in i..Len(s)
    BY <1>1
<1>3. SubSeq(s, 1, i) \o SubSeq(s, i + 1, Len(s)) = SubSeq(s, 1, Len(s))
    BY <1>2, ConcatAdjacentSubSeq DEF Text
<1> QED BY <1>3, SubSeqFull DEF Upto, From, Text

LEMMA PartsAre ==
    ASSUME NEW s \in Text
    PROVE  Parts(s) = {<<Upto(s, i), From(s, i)>> : i \in 0..Len(s)}
<1>1. ASSUME NEW i \in 0..Len(s) PROVE <<Upto(s, i), From(s, i)>> \in Parts(s)
    <2> DEFINE x == Upto(s, i)
               y == From(s, i)
    <2>1. x \in Prefixes(s) /\ y \in Suffixes(s) /\ x \o y = s
        BY PrefixesAndSuffixes, Glued
    <2> HIDE DEF x, y
    <2>2. <<x, y>> \in Parts(s)
        BY <2>1 DEF Parts
    <2> QED BY <2>2 DEF x, y
<1>2. ASSUME NEW q \in Parts(s) PROVE \E i \in 0..Len(s) : q = <<Upto(s, i), From(s, i)>>
    <2>1. PICK x \in Prefixes(s), y \in Suffixes(s) : q = <<x, y>> /\ x \o y = s
        BY DEF Parts
    <2>2. PICK i \in 0..Len(s), j \in 0..Len(s) : x = Upto(s, i) /\ y = From(s, j)
        BY <2>1, PrefixesAndSuffixes
    <2>3. x \in Text /\ y \in Text /\ Len(x) = i /\ Len(y) = Len(s) - j
        BY <2>2, UptoFacts, FromFacts
    <2>4. Len(x \o y) = Len(x) + Len(y)
        BY <2>3, JoinFacts
    <2>5. i = j
        BY <2>1, <2>3, <2>4, Lengths
    <2> QED BY <2>1, <2>2, <2>5
<1> QED BY <1>1, <1>2

LEMMA AroundIs ==
    ASSUME NEW s \in Text, NEW p \in Text
    PROVE  Around(s, p) = {<<Upto(s, i), From(s, i + Len(p))>> : i \in Places(s, p)}
<1>1. Len(s) \in Nat /\ Len(p) \in Nat
    BY Lengths
<1>2. ASSUME NEW i \in Places(s, p) PROVE <<Upto(s, i), From(s, i + Len(p))>> \in Around(s, p)
    <2> DEFINE n == i + Len(p)
    <2>1. i \in Nat /\ i \in 0..Len(s) /\ n \in 0..Len(s) /\ i <= n
        BY PlaceFacts
    <2>2. SubSeq(s, i + 1, n) = p
        BY DEF Places
    <2>3. 1 \in 1..Len(s) + 1 /\ i \in 1 - 1..Len(s) /\ n \in i..Len(s)
        BY <1>1, <2>1
    <2> HIDE DEF n
    <2>4. SubSeq(s, 1, i) \o SubSeq(s, i + 1, n) = SubSeq(s, 1, n)
        BY <2>3, ConcatAdjacentSubSeq DEF Text
    <2>5. (Upto(s, i) \o p) \o From(s, n) = s
        BY <2>1, <2>2, <2>4, Glued DEF Upto
    <2> QED BY <2>1, <2>5, PrefixesAndSuffixes DEF Around, n
<1>3. ASSUME NEW q \in Around(s, p) PROVE \E i \in Places(s, p) : q = <<Upto(s, i), From(s, i + Len(p))>>
    <2>1. PICK x \in Prefixes(s), y \in Suffixes(s) : q = <<x, y>> /\ (x \o p) \o y = s
        BY DEF Around
    <2>2. PICK i \in 0..Len(s), j \in 0..Len(s) : x = Upto(s, i) /\ y = From(s, j)
        BY <2>1, PrefixesAndSuffixes
    <2>3. x \in Text /\ y \in Text /\ Len(x) = i /\ Len(y) = Len(s) - j
        BY <2>2, UptoFacts, FromFacts
    <2>4. x \o p \in Text /\ Len(x \o p) = i + Len(p)
          /\ \A k \in 1..Len(x) + Len(p) : (x \o p)[k] = IF k <= Len(x) THEN x[k] ELSE p[k - Len(x)]
        BY <2>3, JoinFacts
    <2> DEFINE xp == x \o p
    <2>5. xp \in Text /\ Len(xp) = i + Len(p) /\ xp \o y = s
        BY <2>1, <2>4
    <2> HIDE DEF xp
    <2>6. /\ Len(xp \o y) = Len(xp) + Len(y)
          /\ \A k \in 1..Len(xp) + Len(y) : (xp \o y)[k] = IF k <= Len(xp) THEN xp[k] ELSE y[k - Len(xp)]
        BY <2>3, <2>5, JoinFacts
    <2>7. Len(s) = (i + Len(p)) + (Len(s) - j)
          /\ \A k \in 1..(i + Len(p)) + (Len(s) - j) : k <= i + Len(p) => s[k] = xp[k]
        BY <2>3, <2>5, <2>6
    <2>8. j = i + Len(p) /\ i \in Nat /\ i + Len(p) <= Len(s)
        BY <1>1, <2>7
    <2>9. ASSUME NEW k \in 1..Len(p) PROVE s[i + k] = p[k]
        <3>1. i + k \in 1..(i + Len(p)) + (Len(s) - j) /\ i + k <= i + Len(p) /\ ~(i + k <= i)
              /\ i + k \in 1..i + Len(p) /\ (i + k) - i = k
            BY <1>1, <2>8
        <3>2. s[i + k] = xp[i + k]
            BY <2>7, <3>1
        <3>3. xp[i + k] = p[(i + k) - i]
            BY <2>3, <2>4, <3>1 DEF xp
        <3> QED BY <3>1, <3>2, <3>3
    <2>10. i \in Places(s, p)
        BY <2>8, <2>9, PlaceIs
    <2> QED BY <2>1, <2>2, <2>8, <2>10
<1> QED BY <1>2, <1>3

-----------------------------------------------------------------------------
(* The first place and the last one.                                       *)

LEMMA FirstOf ==
    ASSUME NEW S \in SUBSET Nat, S # {}
    PROVE  \E i \in S : \A j \in S : i <= j
<1>1. \E i \in S : \A j \in S : ~(<<j, i>> \in OpToRel(<, Nat))
    BY NatLessThanWellFounded, WFMin, Zenon
<1>2. PICK i \in S : \A j \in S : ~(<<j, i>> \in OpToRel(<, Nat))
    BY <1>1
<1>3. ASSUME NEW j \in S PROVE i <= j
    <2>1. i \in Nat /\ j \in Nat /\ ~(j < i)
        BY <1>2 DEF OpToRel
    <2> QED BY <2>1
<1> QED BY <1>3

LEMMA LastOf ==
    ASSUME NEW n \in Nat, NEW S \in SUBSET (0..n), S # {}
    PROVE  \E i \in S : \A j \in S : i >= j
<1> DEFINE T == {n - i : i \in S}
<1>1. T \in SUBSET Nat /\ T # {}
    <2>1. \A i \in S : n - i \in Nat
        OBVIOUS
    <2>2. PICK i \in S : TRUE
        OBVIOUS
    <2> QED BY <2>1, <2>2
<1> HIDE DEF T
<1>2. PICK k \in T : \A l \in T : k <= l
    BY <1>1, FirstOf
<1>3. PICK i \in S : k = n - i
    BY DEF T
<1>4. ASSUME NEW j \in S PROVE i >= j
    <2>1. n - i <= n - j
        BY <1>2, <1>3 DEF T
    <2>2. i \in Nat /\ j \in Nat
        OBVIOUS
    <2> QED BY <2>1, <2>2
<1> QED BY <1>4

LEMMA FindFacts ==
    ASSUME NEW s \in Text, NEW p \in Text
    PROVE  /\ Found(s, p) <=> Places(s, p) # {}
           /\ Found(s, p) => Find(s, p) \in Places(s, p) /\ \A j \in Places(s, p) : Find(s, p) <= j
           /\ ~Found(s, p) => Find(s, p) = -1
<1>1. Places(s, p) \in SUBSET Nat /\ -1 \notin Places(s, p)
    BY PlaceFacts
<1>2. CASE Places(s, p) = {}
    BY <1>2 DEF Found, Find
<1>3. CASE Places(s, p) # {}
    <2>1. \E i \in Places(s, p) : \A j \in Places(s, p) : i <= j
        BY <1>1, <1>3, FirstOf
    <2>2. Find(s, p) \in Places(s, p) /\ \A j \in Places(s, p) : Find(s, p) <= j
        BY <1>3, <2>1 DEF Find
    <2> QED BY <1>1, <1>3, <2>2 DEF Found
<1> QED BY <1>2, <1>3

LEMMA RFindFacts ==
    ASSUME NEW s \in Text, NEW p \in Text
    PROVE  IF Places(s, p) = {} THEN RFind(s, p) = -1
           ELSE RFind(s, p) \in Places(s, p) /\ \A j \in Places(s, p) : RFind(s, p) >= j
<1>1. Places(s, p) \in SUBSET (0..Len(s)) /\ Len(s) \in Nat
    BY PlaceFacts, Lengths
<1>2. CASE Places(s, p) # {}
    <2>1. \E i \in Places(s, p) : \A j \in Places(s, p) : i >= j
        BY <1>1, <1>2, LastOf
    <2> QED BY <1>2, <2>1 DEF RFind
<1> QED BY <1>2 DEF RFind

LEMMA FirstIs ==
    ASSUME NEW s \in Text, NEW p \in Text, NEW n \in Int, NEW i,
           \/ i = -1 /\ \A j \in Places(s, p) : j < n
           \/ i \in Places(s, p) /\ i >= n /\ \A j \in Places(s, p) : j >= n => i <= j
    PROVE  First(s, p, n) = i
<1> DEFINE Is(k) == IF k = -1 THEN \A j \in Places(s, p) : j < n
                    ELSE k >= n /\ \A j \in Places(s, p) : j >= n => k <= j
<1>1. Places(s, p) \in SUBSET Nat
    BY PlaceFacts
<1>2. i \in Places(s, p) \cup {-1} /\ Is(i)
    BY <1>1
<1>3. ASSUME NEW k \in Places(s, p) \cup {-1}, Is(k) PROVE k = i
    BY <1>1, <1>2, <1>3
<1> QED BY <1>2, <1>3 DEF First

LEMMA LatestIs ==
    ASSUME NEW s \in Text, NEW p \in Text
    PROVE  Latest(s, p) = RFind(s, p)
<1> DEFINE Is(k) == \A j \in Places(s, p) : k >= j
<1>1. Places(s, p) \in SUBSET Nat
    BY PlaceFacts
<1>2. RFind(s, p) \in Places(s, p) \cup {-1} /\ Is(RFind(s, p))
    BY RFindFacts
<1>3. ASSUME NEW k \in Places(s, p) \cup {-1}, Is(k) PROVE k = RFind(s, p)
    <2>1. CASE Places(s, p) = {}
        BY <1>2, <2>1
    <2>2. CASE Places(s, p) # {}
        <3>1. RFind(s, p) \in Places(s, p)
            BY <2>2, RFindFacts
        <3> QED BY <1>1, <1>2, <1>3, <3>1
    <2> QED BY <2>1, <2>2
<1> QED BY <1>2, <1>3 DEF Latest

\* What a first or a last part does not contain.
LEMMA NotInUpto ==
    ASSUME NEW s \in Text, NEW p \in Text, NEW n \in 0..Len(s)
    PROVE  Found(Upto(s, n), p) <=> \E j \in Places(s, p) : j + Len(p) <= n
<1>1. Upto(s, n) \in Text
    BY UptoFacts
<1> QED BY <1>1, FindFacts, PlacesUpto

LEMMA NotInFrom ==
    ASSUME NEW s \in Text, NEW p \in Text, NEW n \in 0..Len(s)
    PROVE  Found(From(s, n), p) <=> \E j \in Places(s, p) : j >= n
<1>1. From(s, n) \in Text /\ n \in Nat
    BY FromFacts, Lengths
<1>2. ASSUME NEW i \in Places(From(s, n), p) PROVE \E j \in Places(s, p) : j >= n
    <2>1. i \in Nat
        BY <1>1, PlaceFacts
    <2>2. n + i \in Places(s, p) /\ n + i >= n
        BY <1>1, <2>1, PlacesFrom
    <2> QED BY <2>2
<1>3. ASSUME NEW j \in Places(s, p), j >= n PROVE Places(From(s, n), p) # {}
    <2>1. j - n \in Int /\ j - n >= 0 /\ n + (j - n) = j
        BY <1>1, <1>3, PlaceFacts
    <2> QED BY <2>1, PlacesFrom
<1> QED BY <1>1, <1>2, <1>3, FindFacts

LEMMA FirstInIs ==
    ASSUME NEW s \in Text, NEW p \in Text, p # <<>>, Found(s, p)
    PROVE  FirstIn(s, p) = {<<Upto(s, Find(s, p)), From(s, Find(s, p) + Len(p))>>}
<1> DEFINE f == Find(s, p)
           around(i) == <<Upto(s, i), From(s, i + Len(p))>>
<1>1. f \in Places(s, p) /\ \A j \in Places(s, p) : f <= j
    BY FindFacts
<1>2. Len(s) \in Nat /\ Len(p) \in Nat /\ Len(p) > 0
    BY Lengths
<1>3. ASSUME NEW i \in Places(s, p)
      PROVE  (\E q \in Parts(s) : Len(q[1]) = Len(around(i)[1]) + Len(p) - 1 /\ ~Found(q[1], p)) <=> i = f
    <2> DEFINE n == i + Len(p) - 1
    <2>1. i \in Nat /\ i \in 0..Len(s) /\ n \in 0..Len(s) /\ n \in Int
        BY <1>2, PlaceFacts
    <2>2. Len(around(i)[1]) + Len(p) - 1 = n
        BY <2>1, UptoFacts
    <2>3. (\E q \in Parts(s) : Len(q[1]) = n /\ ~Found(q[1], p)) <=> ~Found(Upto(s, n), p)
        <3>1. ASSUME NEW q \in Parts(s), Len(q[1]) = n PROVE q[1] = Upto(s, n)
            <4>1. PICK k \in 0..Len(s) : q = <<Upto(s, k), From(s, k)>>
                BY PartsAre
            <4> QED BY <3>1, <4>1, UptoFacts
        <3>2. <<Upto(s, n), From(s, n)>> \in Parts(s) /\ Len(Upto(s, n)) = n
            BY <2>1, PartsAre, UptoFacts
        <3> HIDE DEF n
        <3> QED BY <3>1, <3>2
    <2>4. ~Found(Upto(s, n), p) <=> \A j \in Places(s, p) : ~(j + Len(p) <= n)
        BY <2>1, NotInUpto
    <2>5. (\A j \in Places(s, p) : ~(j + Len(p) <= n)) <=> \A j \in Places(s, p) : i <= j
        <3>1. ASSUME NEW j \in Places(s, p) PROVE ~(j + Len(p) <= n) <=> i <= j
            BY <1>2, <2>1, PlaceFacts
        <3> QED BY <3>1
    <2>6. (\A j \in Places(s, p) : i <= j) <=> i = f
        <3>1. f \in Nat /\ f \in Places(s, p)
            BY <1>1, PlaceFacts
        <3> HIDE DEF f
        <3>2. (\A j \in Places(s, p) : i <= j) => i = f
            BY <1>1, <2>1, <3>1
        <3> QED BY <1>1, <3>2
    <2> QED BY <2>2, <2>3, <2>4, <2>5, <2>6
<1> HIDE DEF f, around
<1>4. Around(s, p) = {around(i) : i \in Places(s, p)}
    BY AroundIs DEF around
<1>5. FirstIn(s, p) = {around(f)}
    BY <1>1, <1>3, <1>4, Zenon DEF FirstIn
<1> QED BY <1>5 DEF around, f

LEMMA LastInIs ==
    ASSUME NEW s \in Text, NEW p \in Text, p # <<>>, Found(s, p), NEW constant \in BOOLEAN
    PROVE  LastIn(s, p, constant) = {<<Upto(s, RFind(s, p)), From(s, RFind(s, p) + Len(p))>>}
<1> DEFINE f == RFind(s, p)
           around(i) == <<Upto(s, i), From(s, i + Len(p))>>
<1>1. f \in Places(s, p) /\ \A j \in Places(s, p) : f >= j
    BY FindFacts, RFindFacts
<1>2. Len(s) \in Nat /\ Len(p) \in Nat /\ Len(p) > 0
    BY Lengths
<1>3. ASSUME NEW i \in Places(s, p)
      PROVE  /\ ~Found(around(i)[2], p)
             /\ \/ constant /\ Len(p) = 1
                \/ \E q \in Parts(s) : Len(q[1]) = Len(around(i)[1]) + 1 /\ ~Found(q[2], p)
             <=> i = f
    <2> DEFINE n == i + 1
    <2>1. i \in Nat /\ i \in 0..Len(s) /\ n \in 0..Len(s) /\ n \in Int /\ i + Len(p) \in 0..Len(s)
        BY <1>2, PlaceFacts
    <2>2. Len(around(i)[1]) + 1 = n
        BY <2>1, UptoFacts
    <2>3. (\E q \in Parts(s) : Len(q[1]) = n /\ ~Found(q[2], p)) <=> ~Found(From(s, n), p)
        <3>1. ASSUME NEW q \in Parts(s), Len(q[1]) = n PROVE q[2] = From(s, n)
            <4>1. PICK k \in 0..Len(s) : q = <<Upto(s, k), From(s, k)>>
                BY PartsAre
            <4>2. k = n
                BY <3>1, <4>1, UptoFacts
            <4> QED BY <4>1, <4>2
        <3>2. <<Upto(s, n), From(s, n)>> \in Parts(s) /\ Len(Upto(s, n)) = n
            BY <2>1, PartsAre, UptoFacts
        <3> HIDE DEF n
        <3> QED BY <3>1, <3>2
    <2>4. /\ ~Found(From(s, n), p) <=> \A j \in Places(s, p) : ~(j >= n)
          /\ ~Found(From(s, i + Len(p)), p) <=> \A j \in Places(s, p) : ~(j >= i + Len(p))
        BY <2>1, NotInFrom
    <2>5. ASSUME NEW j \in Places(s, p)
          PROVE  /\ ~(j >= n) <=> i >= j
                 /\ ~(j >= n) => ~(j >= i + Len(p))
                 /\ Len(p) = 1 /\ ~(j >= i + Len(p)) => ~(j >= n)
        <3>1. j \in Nat
            BY PlaceFacts
        <3>2. ~(j >= n) <=> i >= j
            BY <2>1, <3>1
        <3>3. ~(j >= n) => ~(j >= i + Len(p))
            BY <1>2, <2>1, <3>1
        <3>4. Len(p) = 1 => i + Len(p) = n
            BY <2>1
        <3> QED BY <3>2, <3>3, <3>4
    <2>6. (\A j \in Places(s, p) : i >= j) <=> i = f
        <3>1. f \in Nat /\ f \in Places(s, p)
            BY <1>1, PlaceFacts
        <3> HIDE DEF f
        <3>2. (\A j \in Places(s, p) : i >= j) => i = f
            BY <1>1, <2>1, <3>1
        <3> QED BY <1>1, <3>2
    <2> QED BY <2>2, <2>3, <2>4, <2>5, <2>6
<1> HIDE DEF f, around
<1>4. Around(s, p) = {around(i) : i \in Places(s, p)}
    BY AroundIs DEF around
<1>5. LastIn(s, p, constant) = {around(f)}
    BY <1>1, <1>3, <1>4, Zenon DEF LastIn
<1> QED BY <1>5 DEF around, f

-----------------------------------------------------------------------------
(* What is computed, and what the axioms define, is what is meant.         *)

LEMMA PartsAt ==
    ASSUME NEW s \in Text, NEW n \in 0..Len(s)
    PROVE  /\ {q \in Parts(s) : Len(q[1]) = n} = {<<Upto(s, n), From(s, n)>>}
           /\ {q \in Parts(s) : Len(q[2]) = Len(s) - n} = {<<Upto(s, n), From(s, n)>>}
<1> DEFINE part(i) == <<Upto(s, i), From(s, i)>>
<1>1. ASSUME NEW i \in 0..Len(s)
      PROVE  /\ Len(part(i)[1]) = n <=> i = n
             /\ Len(part(i)[2]) = Len(s) - n <=> i = n
    <2>1. Len(part(i)[1]) = i /\ Len(part(i)[2]) = Len(s) - i
        BY UptoFacts, FromFacts
    <2>2. Len(s) \in Nat
        BY Lengths
    <2> HIDE DEF part
    <2> QED BY <2>1, <2>2
<1> HIDE DEF part
<1>2. Parts(s) = {part(i) : i \in 0..Len(s)}
    BY PartsAre DEF part
<1>3. /\ {q \in Parts(s) : Len(q[1]) = n} = {part(n)}
      /\ {q \in Parts(s) : Len(q[2]) = Len(s) - n} = {part(n)}
    BY <1>1, <1>2, Zenon
<1> QED BY <1>3 DEF part

LEMMA ContainsIs ==
    ASSUME NEW s \in Text, NEW p \in Text
    PROVE  ContainsAxiom(s, p) = {Found(s, p)}
<1>1. ASSUME Found(s, p) PROVE Around(s, p) # {}
    <2>1. PICK i \in Places(s, p) : TRUE
        BY <1>1, FindFacts
    <2>2. Around(s, p) = {<<Upto(s, j), From(s, j + Len(p))>> : j \in Places(s, p)}
        BY AroundIs
    <2>3. <<Upto(s, i), From(s, i + Len(p))>> \in Around(s, p)
        BY <2>2
    <2> QED BY <2>3
<1>2. Found(s, p) \in BOOLEAN
    BY DEF Found
<1> QED BY <1>1, <1>2, Zenon DEF ContainsAxiom

LEMMA FoundMeans ==
    ASSUME NEW s \in Text, NEW p \in Text
    PROVE  Found(s, p) <=> \E n \in 0..Len(s) : IsPrefix(p, SubSeq(s, n + 1, Len(s)))
<1>1. Len(s) \in Nat /\ Len(p) \in Nat
    BY Lengths
<1>2. ASSUME NEW n \in 0..Len(s) PROVE IsPrefix(p, From(s, n)) <=> n \in Places(s, p)
    <2>1. /\ From(s, n) \in Text /\ Len(From(s, n)) = Len(s) - n
          /\ \A k \in 1..Len(s) - n : From(s, n)[k] = s[n + k]
        BY FromFacts
    <2>2. SubSeq(p, 1, Len(p)) = p
        BY SubSeqFull DEF Text
    <2>3. Len(p) <= Len(From(s, n)) <=> n + Len(p) <= Len(s)
        BY <1>1, <2>1
    <2>4. ASSUME n + Len(p) <= Len(s)
          PROVE  p = Upto(From(s, n), Len(p)) <=> \A k \in 1..Len(p) : s[n + k] = p[k]
        <3>1. Len(p) \in 0..Len(From(s, n))
            BY <1>1, <2>1, <2>4
        <3>2. /\ Upto(From(s, n), Len(p)) \in Text /\ Len(Upto(From(s, n), Len(p))) = Len(p)
              /\ \A k \in 1..Len(p) : Upto(From(s, n), Len(p))[k] = From(s, n)[k]
            BY <2>1, <3>1, UptoFacts
        <3>3. \A k \in 1..Len(p) : k \in 1..Len(s) - n
            BY <1>1, <2>4
        <3>4. \A k \in 1..Len(p) : Upto(From(s, n), Len(p))[k] = s[n + k]
            BY <2>1, <3>2, <3>3
        <3> QED BY <3>2, <3>4, SameText
    <2>5. IsPrefix(p, From(s, n)) <=> n + Len(p) <= Len(s) /\ p = Upto(From(s, n), Len(p))
        BY <2>2, <2>3 DEF IsPrefix, Upto
    <2>6. n \in Nat
        BY <1>1
    <2> QED BY <2>4, <2>5, <2>6, PlaceIs
<1>3. \A n \in Places(s, p) : n \in 0..Len(s)
    BY PlaceFacts
<1> QED BY <1>2, <1>3, FindFacts DEF From

LEMMA StartsWithIs ==
    ASSUME NEW s \in Text, NEW p \in Text
    PROVE  /\ StartsWithAxiom(s, p) = {Len(s) >= Len(p) /\ SubSeq(s, 1, Len(p)) = p}
           /\ IsPrefix(p, s) <=> Len(s) >= Len(p) /\ SubSeq(s, 1, Len(p)) = p
<1>1. Len(s) \in Nat /\ Len(p) \in Nat
    BY Lengths
<1>2. ASSUME Len(s) >= Len(p) PROVE StartsWithAxiom(s, p) = {SubSeq(s, 1, Len(p)) = p}
    <2>1. {q \in Parts(s) : Len(q[1]) = Len(p)} = {<<Upto(s, Len(p)), From(s, Len(p))>>}
        BY <1>1, <1>2, PartsAt
    <2>2. {parts[1] = p : parts \in {<<Upto(s, Len(p)), From(s, Len(p))>>}}
          = {<<Upto(s, Len(p)), From(s, Len(p))>>[1] = p}
        BY Zenon
    <2>3. StartsWithAxiom(s, p) = {Upto(s, Len(p)) = p}
        BY <1>2, <2>1, <2>2 DEF StartsWithAxiom
    <2> QED BY <2>3 DEF Upto
<1>3. ASSUME ~(Len(s) >= Len(p)) PROVE StartsWithAxiom(s, p) = {FALSE}
    BY <1>3 DEF StartsWithAxiom
<1>4. StartsWithAxiom(s, p) = {Len(s) >= Len(p) /\ SubSeq(s, 1, Len(p)) = p}
    BY <1>2, <1>3, Zenon
<1>5. SubSeq(p, 1, Len(p)) = p /\ (Len(p) <= Len(s) <=> Len(s) >= Len(p))
    BY <1>1, SubSeqFull DEF Text
<1> QED BY <1>4, <1>5 DEF IsPrefix

LEMMA EndsWithIs ==
    ASSUME NEW s \in Text, NEW p \in Text
    PROVE  EndsWithAxiom(s, p) = {Len(s) >= Len(p) /\ SubSeq(s, Len(s) - Len(p) + 1, Len(s)) = p}
<1>1. Len(s) \in Nat /\ Len(p) \in Nat
    BY Lengths
<1>2. ASSUME Len(s) >= Len(p) PROVE EndsWithAxiom(s, p) = {SubSeq(s, Len(s) - Len(p) + 1, Len(s)) = p}
    <2> DEFINE n == Len(s) - Len(p)
    <2>1. n \in 0..Len(s) /\ Len(s) - n = Len(p)
        BY <1>1, <1>2
    <2> HIDE DEF n
    <2>2. {q \in Parts(s) : Len(q[2]) = Len(p)} = {<<Upto(s, n), From(s, n)>>}
        BY <2>1, PartsAt
    <2>3. {parts[2] = p : parts \in {<<Upto(s, n), From(s, n)>>}} = {<<Upto(s, n), From(s, n)>>[2] = p}
        BY Zenon
    <2>4. EndsWithAxiom(s, p) = {From(s, n) = p}
        BY <1>2, <2>2, <2>3 DEF EndsWithAxiom
    <2> QED BY <2>4 DEF From, n
<1>3. ASSUME ~(Len(s) >= Len(p)) PROVE EndsWithAxiom(s, p) = {FALSE}
    BY <1>3 DEF EndsWithAxiom
<1> QED BY <1>2, <1>3, Zenon

LEMMA ReverseFacts ==
    ASSUME NEW s \in Text
    PROVE  /\ Reverse(s) \in Text /\ Len(Reverse(s)) = Len(s)
           /\ \A k \in 1..Len(s) : Reverse(s)[k] = s[(Len(s) - k) + 1]
<1>1. Len(s) \in Nat /\ \A k \in 1..Len(s) : s[(Len(s) - k) + 1] \in Chars
    BY DEF Text
<1> QED BY <1>1 DEF Reverse, Text

LEMMA SuffixMeans ==
    ASSUME NEW s \in Text, NEW p \in Text
    PROVE  IsSuffix(p, s) <=> Len(s) >= Len(p) /\ SubSeq(s, Len(s) - Len(p) + 1, Len(s)) = p
<1>1. Len(s) \in Nat /\ Len(p) \in Nat
    BY Lengths
<1>2. /\ Reverse(s) \in Text /\ Len(Reverse(s)) = Len(s)
      /\ Reverse(p) \in Text /\ Len(Reverse(p)) = Len(p)
    BY ReverseFacts
<1>3. IsSuffix(p, s) <=> Len(s) >= Len(p) /\ SubSeq(Reverse(s), 1, Len(p)) = Reverse(p)
    BY <1>2, StartsWithIs DEF IsSuffix
<1>4. ASSUME Len(s) >= Len(p)
      PROVE  Upto(Reverse(s), Len(p)) = Reverse(p) <=> From(s, Len(s) - Len(p)) = p
    <2> DEFINE n == Len(s) - Len(p)
    <2>1. n \in 0..Len(s) /\ Len(s) - n = Len(p) /\ n + Len(p) = Len(s)
        BY <1>1, <1>4
    <2> HIDE DEF n
    <2>2. /\ From(s, n) \in Text /\ Len(From(s, n)) = Len(p)
          /\ \A k \in 1..Len(p) : From(s, n)[k] = s[n + k]
        BY <2>1, FromFacts
    <2>3. /\ Upto(Reverse(s), Len(p)) \in Text /\ Len(Upto(Reverse(s), Len(p))) = Len(p)
          /\ \A k \in 1..Len(p) : Upto(Reverse(s), Len(p))[k] = Reverse(s)[k]
        BY <1>1, <1>2, <1>4, UptoFacts
    <2>4. ASSUME NEW k \in 1..Len(p)
          PROVE  /\ (Len(p) - k) + 1 \in 1..Len(p) /\ (Len(p) - ((Len(p) - k) + 1)) + 1 = k
                 /\ Reverse(p)[k] = p[(Len(p) - k) + 1]
                 /\ Upto(Reverse(s), Len(p))[k] = s[n + ((Len(p) - k) + 1)]
        <3>1. (Len(p) - k) + 1 \in 1..Len(p) /\ (Len(p) - ((Len(p) - k) + 1)) + 1 = k
            BY <1>1
        <3>2. k \in 1..Len(s) /\ (Len(s) - k) + 1 = n + ((Len(p) - k) + 1)
            BY <1>1, <2>1
        <3> QED BY <2>3, <3>1, <3>2, ReverseFacts
    <2>5. ASSUME From(s, n) = p PROVE Upto(Reverse(s), Len(p)) = Reverse(p)
        <3>1. \A k \in 1..Len(p) : Upto(Reverse(s), Len(p))[k] = Reverse(p)[k]
            BY <2>2, <2>4, <2>5
        <3> QED BY <1>2, <2>3, <3>1, SameText
    <2>6. ASSUME Upto(Reverse(s), Len(p)) = Reverse(p) PROVE From(s, n) = p
        <3>1. ASSUME NEW m \in 1..Len(p) PROVE From(s, n)[m] = p[m]
            <4> DEFINE k == (Len(p) - m) + 1
            <4>1. k \in 1..Len(p) /\ (Len(p) - k) + 1 = m
                BY <2>4
            <4> HIDE DEF k
            <4> QED BY <2>2, <2>4, <2>6, <4>1
        <3> QED BY <2>2, <3>1, SameText
    <2> QED BY <2>5, <2>6 DEF n
<1> QED BY <1>3, <1>4 DEF Upto, From

LEMMA IndexofIs ==
    ASSUME NEW s \in Text, NEW p \in Text, p # <<>>
    PROVE  IndexofAxiom(s, p) = {Find(s, p)} /\ First(s, p, 0) = Find(s, p)
<1>1. CASE Found(s, p)
    <2>1. Find(s, p) \in Places(s, p) /\ \A j \in Places(s, p) : Find(s, p) <= j
        BY <1>1, FindFacts
    <2>2. Find(s, p) \in 0..Len(s) /\ Find(s, p) >= 0
        BY <2>1, PlaceFacts
    <2>3. Len(Upto(s, Find(s, p))) = Find(s, p)
        BY <2>2, UptoFacts
    <2>4. First(s, p, 0) = Find(s, p)
        BY <2>1, <2>2, FirstIs
    <2>5. FirstIn(s, p) = {<<Upto(s, Find(s, p)), From(s, Find(s, p) + Len(p))>>}
        BY <1>1, FirstInIs
    <2>6. IndexofAxiom(s, p) = {Len(Upto(s, Find(s, p)))}
        BY <1>1, <2>5 DEF IndexofAxiom
    <2> QED BY <2>3, <2>4, <2>6
<1>2. CASE ~Found(s, p)
    <2>1. Find(s, p) = -1 /\ Places(s, p) = {}
        BY <1>2, FindFacts
    <2>2. First(s, p, 0) = Find(s, p)
        BY <2>1, FirstIs
    <2> QED BY <1>2, <2>1, <2>2 DEF IndexofAxiom
<1> QED BY <1>1, <1>2

LEMMA LastIndexofIs ==
    ASSUME NEW s \in Text, NEW p \in Text, p # <<>>, NEW constant \in BOOLEAN
    PROVE  LastIndexofAxiom(s, p, constant) = {RFind(s, p)}
<1>1. CASE Found(s, p)
    <2>1. RFind(s, p) \in Places(s, p)
        BY <1>1, FindFacts, RFindFacts
    <2>2. Len(Upto(s, RFind(s, p))) = RFind(s, p)
        BY <2>1, PlaceFacts, UptoFacts
    <2>3. LastIn(s, p, constant) = {<<Upto(s, RFind(s, p)), From(s, RFind(s, p) + Len(p))>>}
        BY <1>1, LastInIs
    <2>4. LastIndexofAxiom(s, p, constant) = {Len(Upto(s, RFind(s, p)))}
        BY <1>1, <2>3 DEF LastIndexofAxiom
    <2> QED BY <2>2, <2>4
<1>2. CASE ~Found(s, p)
    BY <1>2, FindFacts, RFindFacts DEF LastIndexofAxiom
<1> QED BY <1>1, <1>2

\* What is computed of constants searches the rest of s.
LEMMA FirstFrom ==
    ASSUME NEW s \in Text, NEW p \in Text, p # <<>>, NEW n \in Int
    PROVE  First(s, p, n) =
               IF n >= Len(s) THEN -1
               ELSE IF n < 0 THEN Find(s, p)
               ELSE IF Find(From(s, n), p) = -1 THEN -1
               ELSE Find(From(s, n), p) + n
<1>1. Len(s) \in Nat
    BY Lengths
<1>2. CASE n < 0
    <2>1. ~(n >= Len(s))
        BY <1>1, <1>2
    <2>2. CASE Found(s, p)
        <3>1. Find(s, p) \in Places(s, p) /\ \A j \in Places(s, p) : Find(s, p) <= j
            BY <2>2, FindFacts
        <3>2. Find(s, p) >= n
            BY <1>2, <3>1, PlaceFacts
        <3>3. First(s, p, n) = Find(s, p)
            BY <3>1, <3>2, FirstIs
        <3> QED BY <1>2, <2>1, <3>3
    <2>3. CASE ~Found(s, p)
        <3>1. Find(s, p) = -1 /\ Places(s, p) = {}
            BY <2>3, FindFacts
        <3>2. First(s, p, n) = Find(s, p)
            BY <3>1, FirstIs
        <3> QED BY <1>2, <2>1, <3>2
    <2> QED BY <2>2, <2>3
<1>3. CASE n >= Len(s)
    <2>1. ASSUME NEW j \in Places(s, p) PROVE j < n
        <3>1. j \in Nat /\ j + Len(p) <= Len(s) /\ Len(p) \in Nat /\ Len(p) > 0
            BY PlaceIs, Lengths
        <3> QED BY <1>1, <1>3, <3>1
    <2>2. First(s, p, n) = -1
        BY <2>1, FirstIs
    <2> QED BY <1>3, <2>2
<1>4. CASE ~(n < 0) /\ ~(n >= Len(s))
    <2> DEFINE t == From(s, n)
               k == Find(t, p)
    <2>1. n \in Nat /\ n \in 0..Len(s) /\ n >= 0
        BY <1>1, <1>4
    <2>2. t \in Text
        BY <2>1, FromFacts
    <2>3. CASE Found(t, p)
        <3>1. k \in Places(t, p) /\ \A j \in Places(t, p) : k <= j
            BY <2>2, <2>3, FindFacts
        <3>2. k \in Nat /\ k # -1
            BY <2>2, <3>1, PlaceFacts
        <3>3. n + k \in Places(s, p) /\ n + k >= n
            BY <2>1, <3>1, <3>2, PlacesFrom
        <3>4. ASSUME NEW j \in Places(s, p), j >= n PROVE n + k <= j
            <4>1. j \in Nat
                BY PlaceFacts
            <4>2. j - n \in Int /\ j - n >= 0 /\ n + (j - n) = j
                BY <2>1, <3>4, <4>1
            <4>3. j - n \in Places(t, p)
                BY <2>1, <4>2, PlacesFrom
            <4>4. k <= j - n
                BY <3>1, <4>3
            <4> HIDE DEF k
            <4> QED BY <2>1, <3>2, <4>1, <4>4
        <3>5. First(s, p, n) = n + k /\ n + k = k + n
            <4>1. First(s, p, n) = n + k
                BY <3>3, <3>4, FirstIs
            <4> HIDE DEF k
            <4> QED BY <2>1, <3>2, <4>1
        <3> QED BY <1>4, <3>2, <3>5
    <2>4. CASE ~Found(t, p)
        <3>1. k = -1
            BY <2>2, <2>4, FindFacts
        <3>2. ASSUME NEW j \in Places(s, p) PROVE j < n
            <4>1. ~(j >= n) /\ j \in Nat
                BY <2>1, <2>4, NotInFrom, PlaceFacts
            <4> QED BY <2>1, <4>1
        <3>3. First(s, p, n) = -1
            BY <3>2, FirstIs
        <3> QED BY <1>4, <3>1, <3>3
    <2> QED BY <2>3, <2>4
<1> QED BY <1>2, <1>3, <1>4

LEMMA Indexof2Is ==
    ASSUME NEW s \in Text, NEW p \in Text, p # <<>>, NEW n \in Int, NEW constant \in BOOLEAN
    PROVE  Indexof2Axiom(s, p, n, constant) = {First(s, p, n)}
<1>1. Len(s) \in Nat
    BY Lengths
<1>2. CASE n < 0
    <2>1. Indexof2Axiom(s, p, n, constant) = {Find(s, p)} /\ ~(n >= Len(s))
        BY <1>1, <1>2, IndexofIs DEF Indexof2Axiom
    <2> QED BY <1>2, <2>1, FirstFrom
<1>3. CASE n >= Len(s)
    <2>1. Indexof2Axiom(s, p, n, constant) = {-1}
        BY <1>1, <1>3 DEF Indexof2Axiom
    <2> QED BY <1>3, <2>1, FirstFrom
<1>4. CASE ~(n < 0) /\ ~(n >= Len(s))
    <2> DEFINE t == From(s, n)
               k == Find(t, p)
    <2>1. n \in 0..Len(s) /\ n \in Int
        BY <1>1, <1>4
    <2>2. t \in Text /\ IndexofAxiom(t, p) = {k}
        BY <2>1, FromFacts, IndexofIs
    <2>3. {parts \in Parts(s) : Len(parts[1]) = n} = {<<Upto(s, n), t>>}
        BY <2>1, PartsAt
    <2>4. {IF i = -1 THEN -1 ELSE n + i : i \in {k}} = {IF k = -1 THEN -1 ELSE n + k}
        BY Zenon
    <2>5. First(s, p, n) = IF k = -1 THEN -1 ELSE k + n
        BY <1>4, FirstFrom
    <2>6. k \in Int
        BY <2>2, FindFacts, PlaceFacts
    <2> HIDE DEF t, k
    <2>7. n + k = k + n
        BY <2>1, <2>6
    <2>8. Indexof2Axiom(s, p, n, constant) =
              UNION {{IF i = -1 THEN -1 ELSE n + i : i \in IndexofAxiom(q[2], p)} : q \in {<<Upto(s, n), t>>}}
        BY <1>4, <2>3 DEF Indexof2Axiom
    <2>9. Indexof2Axiom(s, p, n, constant) = {IF i = -1 THEN -1 ELSE n + i : i \in IndexofAxiom(t, p)}
        BY <2>8
    <2> QED BY <2>2, <2>4, <2>5, <2>7, <2>9
<1> QED BY <1>2, <1>3, <1>4

\* A p of s that has n characters before it.
LEMMA AroundAt ==
    ASSUME NEW s \in Text, NEW p \in Text, NEW n
    PROVE  (\E xs \in Around(s, p) : Len(xs[1]) = n) <=> n \in Places(s, p)
<1> DEFINE around(i) == <<Upto(s, i), From(s, i + Len(p))>>
<1>1. ASSUME NEW i \in Places(s, p) PROVE Len(around(i)[1]) = i
    BY PlaceFacts, UptoFacts
<1>2. Around(s, p) = {around(i) : i \in Places(s, p)}
    BY AroundIs
<1> HIDE DEF around
<1> QED BY <1>1, <1>2

LEMMA CharAtIs ==
    ASSUME NEW s \in Text, NEW n \in Int
    PROVE  /\ CharAtAxiom(s, n) = {IF n \in 0..Len(s) - 1 THEN <<s[n + 1]>> ELSE <<>>}
           /\ n \in 0..Len(s) - 1 <=> n + 1 \in DOMAIN s
<1>1. Len(s) \in Nat /\ DOMAIN s = 1..Len(s)
    BY DEF Text
<1>2. /\ n \in 0..Len(s) - 1 <=> n >= 0 /\ n < Len(s)
      /\ n \in 0..Len(s) - 1 <=> n + 1 \in DOMAIN s
    BY <1>1
<1>3. ASSUME n >= 0, n < Len(s) PROVE CharAtAxiom(s, n) = {<<s[n + 1]>>}
    <2>1. n \in Nat /\ n \in 0..Len(s) /\ n + 1 <= Len(s) /\ n + 1 \in 1..Len(s)
        BY <1>1, <1>3
    <2>2. s[n + 1] \in Chars
        BY <2>1 DEF Text
    <2>3. ASSUME NEW a \in Chars
          PROVE  (\E xs \in Around(s, <<a>>) : Len(xs[1]) = n) <=> a = s[n + 1]
        <3> DEFINE c == <<a>>
        <3>1. c \in Text /\ Len(c) = 1 /\ c[1] = a
            BY DEF Text
        <3> HIDE DEF c
        <3>2. (\A k \in 1..Len(c) : s[n + k] = c[k]) <=> s[n + 1] = c[1]
            BY <3>1
        <3>3. n + Len(c) <= Len(s)
            BY <2>1, <3>1
        <3>4. n \in Places(s, c) <=> s[n + 1] = c[1]
            BY <2>1, <3>1, <3>2, <3>3, PlaceIs
        <3>5. (\E xs \in Around(s, c) : Len(xs[1]) = n) <=> a = s[n + 1]
            BY <3>1, <3>4, AroundAt
        <3> QED BY <3>5 DEF c
    <2>4. CharAtAxiom(s, n) = {c \in {<<a>> : a \in Chars} : \E xs \in Around(s, c) : Len(xs[1]) = n}
        BY <1>3 DEF CharAtAxiom
    <2> QED BY <2>2, <2>3, <2>4, Zenon
<1>4. ASSUME ~(n >= 0 /\ n < Len(s)) PROVE CharAtAxiom(s, n) = {<<>>}
    BY <1>4 DEF CharAtAxiom
<1> QED BY <1>2, <1>3, <1>4

LEMMA SubstringIs ==
    ASSUME NEW s \in Text, NEW n \in Int, NEW m \in Int, n >= 0, m >= 0, n + m <= Len(s)
    PROVE  SubstringAxiom(s, n, m) = {SubSeq(s, n + 1, n + m)}
<1> DEFINE r == SubSeq(s, n + 1, n + m)
           substrings == UNION {Prefixes(q) : q \in Suffixes(s)}
<1>1. Len(s) \in Nat /\ n \in Nat /\ m \in Nat /\ n \in 0..Len(s) /\ n + m \in Int
      /\ n <= n + m /\ (n + m) - n = m /\ m \in 0..Len(s) - n
    BY Lengths
<1>2. r \in Text /\ Len(r) = m /\ \A k \in 1..m : r[k] = s[n + k]
    <2> DEFINE l == n + m
    <2>1. l \in Int /\ 0 <= n /\ n <= l /\ l <= Len(s) /\ l - n = m
        BY <1>1
    <2> HIDE DEF l
    <2>2. /\ SubSeq(s, n + 1, l) \in Text /\ Len(SubSeq(s, n + 1, l)) = l - n
          /\ \A k \in 1..l - n : SubSeq(s, n + 1, l)[k] = s[n + k]
        BY <2>1, CutFacts
    <2> QED BY <2>1, <2>2 DEF l
<1> HIDE DEF r
<1>3. n \in Places(s, r)
    BY <1>1, <1>2, PlaceIs
<1>4. ASSUME NEW q \in substrings, Len(q) = m, NEW xs \in Around(s, q), Len(xs[1]) = n PROVE q = r
    <2>1. q \in Text
        <3>1. PICK t \in Suffixes(s) : q \in Prefixes(t)
            OBVIOUS
        <3>2. t \in Text
            BY PrefixesAndSuffixes, FromFacts
        <3> QED BY <3>1, <3>2, PrefixesAndSuffixes, UptoFacts
    <2>2. n \in Places(s, q)
        BY <1>4, <2>1, AroundAt
    <2>3. \A k \in 1..Len(q) : s[n + k] = q[k]
        BY <2>1, <2>2, PlaceIs
    <2> QED BY <1>2, <1>4, <2>1, <2>3, SameText
<1>5. r \in substrings
    <2> DEFINE t == From(s, n)
    <2>1. /\ t \in Text /\ Len(t) = Len(s) - n /\ t \in Suffixes(s)
          /\ \A k \in 1..Len(s) - n : t[k] = s[n + k]
        BY <1>1, FromFacts, PrefixesAndSuffixes
    <2> HIDE DEF t
    <2>2. /\ Upto(t, m) \in Text /\ Len(Upto(t, m)) = m /\ Upto(t, m) \in Prefixes(t)
          /\ \A k \in 1..m : Upto(t, m)[k] = t[k]
        BY <1>1, <2>1, UptoFacts, PrefixesAndSuffixes
    <2>3. \A k \in 1..m : k \in 1..Len(s) - n
        BY <1>1
    <2>4. Upto(t, m) = r
        BY <1>2, <2>1, <2>2, <2>3, SameText
    <2> QED BY <2>1, <2>2, <2>4
<1>6. \E xs \in Around(s, r) : Len(xs[1]) = n
    BY <1>2, <1>3, AroundAt
<1> HIDE DEF substrings
<1>7. SubstringAxiom(s, n, m) = {q \in substrings : Len(q) = m /\ \E xs \in Around(s, q) : Len(xs[1]) = n}
    BY DEF SubstringAxiom, substrings
<1>8. SubstringAxiom(s, n, m) = {r}
    BY <1>2, <1>4, <1>5, <1>6, <1>7
<1> QED BY <1>8 DEF r

LEMMA InSubSeqs ==
    ASSUME NEW s \in Text, NEW p \in Text, p # <<>>
    PROVE  p \in SubSeqs(s) <=> Found(s, p)
<1>1. Len(s) \in Nat /\ Len(p) \in Nat /\ Len(p) > 0
    BY Lengths
<1>2. ASSUME NEW i \in Places(s, p) PROVE p \in SubSeqs(s)
    <2>1. i \in 0..Len(s) /\ i + Len(p) \in 0..Len(s) /\ SubSeq(s, i + 1, i + Len(p)) = p
        BY PlaceFacts DEF Places
    <2> QED BY <2>1 DEF SubSeqs
<1>3. ASSUME p \in SubSeqs(s) PROVE Places(s, p) # {}
    <2>1. PICK i \in 0..Len(s), j \in 0..Len(s) : p = SubSeq(s, i + 1, j)
        BY <1>3 DEF SubSeqs
    <2>2. i <= j
        <3>1. SUFFICES ASSUME j < i + 1 PROVE FALSE
            BY <1>1
        <3>2. i + 1 \in Int /\ j \in Int
            BY <1>1
        <3>3. SubSeq(s, i + 1, j) = <<>>
            BY <3>1, <3>2, SubSeqEmpty
        <3> QED BY <2>1, <3>3
    <2>3. i \in Int /\ j \in Int /\ 0 <= i /\ j <= Len(s)
        BY <1>1
    <2>4. Len(p) = j - i
        BY <2>1, <2>2, <2>3, CutFacts
    <2>5. i + Len(p) = j /\ i \in 0..Len(s) - Len(p)
        BY <1>1, <2>2, <2>3, <2>4
    <2> QED BY <2>1, <2>5 DEF Places
<1> QED BY <1>2, <1>3, FindFacts

LEMMA ReplaceIs ==
    ASSUME NEW s \in Text, NEW p \in Text, p # <<>>, NEW r \in Text
    PROVE  /\ ReplaceAxiom(s, p, r) = {ReplaceFirstSubSeq(r, p, s)}
           /\ ReplaceFirstSubSeq(r, p, s) =
                  IF Find(s, p) = -1 THEN s
                  ELSE SubSeq(s, 1, Find(s, p)) \o r \o SubSeq(s, Find(s, p) + Len(p) + 1, Len(s))
<1>1. CASE ~Found(s, p)
    <2>1. ReplaceFirstSubSeq(r, p, s) = s
        BY <1>1, InSubSeqs DEF ReplaceFirstSubSeq
    <2> QED BY <1>1, <2>1, FindFacts DEF ReplaceAxiom
<1>2. CASE Found(s, p)
    <2> DEFINE f == Find(s, p)
               l == f + Len(p)
               Is(i) == /\ p \in SubSeqs(SubSeq(s, 1, i))
                        /\ \A j \in 0..i - 1 : p \notin SubSeqs(SubSeq(s, 1, j))
    <2>1. /\ f \in Places(s, p) /\ f \in Nat /\ f # -1 /\ l \in 0..Len(s)
          /\ \A j \in Places(s, p) : f <= j
        BY <1>2, FindFacts, PlaceFacts
    <2>2. Len(s) \in Nat /\ Len(p) \in Nat
        BY Lengths
    <2>3. ASSUME NEW i \in 0..Len(s) PROVE p \in SubSeqs(SubSeq(s, 1, i)) <=> l <= i
        <3>1. p \in SubSeqs(SubSeq(s, 1, i)) <=> Found(Upto(s, i), p)
            BY UptoFacts, InSubSeqs DEF Upto
        <3>2. Found(Upto(s, i), p) <=> \E j \in Places(s, p) : j + Len(p) <= i
            BY NotInUpto
        <3>3. ASSUME NEW j \in Places(s, p), j + Len(p) <= i PROVE l <= i
            <4>1. f <= j /\ j \in Nat /\ f \in Nat /\ i \in Nat
                BY <2>1, <2>2, PlaceFacts
            <4> HIDE DEF f
            <4> QED BY <2>2, <3>3, <4>1
        <3> QED BY <2>1, <3>1, <3>2, <3>3
    <2>4. l \in Nat /\ l <= Len(s)
        BY <2>1, <2>2
    <2>5. (l - (Len(p) - 1)) - 1 = f /\ (l - (Len(p) - 1)) + Len(p) = l + 1
        <3> HIDE DEF f
        <3> QED BY <2>1, <2>2
    <2> HIDE DEF l
    <2>6. ASSUME NEW i \in 0..Len(s) PROVE Is(i) <=> i = l
        <3>1. \A j \in 0..i - 1 : j \in 0..Len(s)
            BY <2>2
        <3>2. Is(i) <=> l <= i /\ \A j \in 0..i - 1 : ~(l <= j)
            BY <2>3, <3>1
        <3>3. l <= i /\ (\A j \in 0..i - 1 : ~(l <= j)) <=> i = l
            BY <2>2, <2>4
        <3> QED BY <3>2, <3>3
    <2>7. IndexFirstSubSeq(p, s) = l - (Len(p) - 1)
        BY <2>1, <2>6 DEF IndexFirstSubSeq
    <2>8. p \in SubSeqs(s)
        BY <1>2, InSubSeqs
    <2>9. ReplaceFirstSubSeq(r, p, s) = SubSeq(s, 1, f) \o r \o SubSeq(s, l + 1, Len(s))
        BY <2>5, <2>7, <2>8 DEF ReplaceFirstSubSeq, ReplaceSubSeqAt
    <2>10. FirstIn(s, p) = {<<Upto(s, f), From(s, l)>>}
        BY <1>2, FirstInIs DEF l
    <2>11. ReplaceAxiom(s, p, r) = {Upto(s, f) \o r \o From(s, l)}
        BY <1>2, <2>10 DEF ReplaceAxiom
    <2> QED BY <2>1, <2>9, <2>11 DEF l, Upto, From
<1> QED BY <1>1, <1>2

-----------------------------------------------------------------------------
(* Every call that is reduced has the value that it stands for.            *)

CallOK ==
    /\ call.function \in DOMAIN Signature /\ call.args \in Signature[call.function]
    /\ call.constants \in SUBSET DOMAIN call.args
FInv == CallOK /\ reduced \in BOOLEAN /\ IsFunction

LEMMA ArgsOf ==
    ASSUME CallOK
    PROVE  /\ call.function \in {"Contains", "StartsWith", "EndsWith", "Indexof", "LastIndexof"} =>
                  Arg(1) \in Text /\ Arg(2) \in Text
           /\ call.function = "Indexof2" => Arg(1) \in Text /\ Arg(2) \in Text /\ Arg(3) \in Int
           /\ call.function = "CharAt" => Arg(1) \in Text /\ Arg(2) \in Int
           /\ call.function = "Replace" => Arg(1) \in Text /\ Arg(2) \in Text /\ Arg(3) \in Text
           /\ call.function = "Substring" => Arg(1) \in Text /\ Arg(2) \in Int /\ Arg(3) \in Int
    BY DEF CallOK, Signature, Arg

LEMMA SameCall ==
    ASSUME call' = call
    PROVE  /\ Defined' <=> Defined
           /\ Meaning' = Meaning
           /\ CallOK' <=> CallOK
           /\ (call.function \in DOMAIN Signature)' <=> call.function \in DOMAIN Signature
<1>1. Defined' <=> Defined
    BY DEF Defined, Arg
<1>2. Meaning' = Meaning
    BY DEF Meaning, Arg
<1>3. CallOK' <=> CallOK
    BY DEF CallOK, Signature
<1> QED BY <1>1, <1>2, <1>3 DEF Signature

\* What is computed of constants is what is meant, and so is what the axiom
\* leaves open otherwise.
LEMMA AnswersAre ==
    ASSUME NEW computed, NEW axiom, Answers(computed, axiom), computed = Meaning, axiom = {Meaning}
    PROVE  answers' = {Meaning}
    BY DEF Answers

LEMMA ContainsStep == ASSUME CallOK, ReduceContains PROVE answers' = {Meaning}
<1>1. call.function = "Contains" /\ Arg(1) \in Text /\ Arg(2) \in Text
    BY ArgsOf DEF ReduceContains, Reduces
<1>2. Meaning = Found(Arg(1), Arg(2))
    <2>1. Meaning = \E n \in 0..Len(Arg(1)) : IsPrefix(Arg(2), SubSeq(Arg(1), n + 1, Len(Arg(1))))
        BY <1>1 DEF Meaning
    <2>2. Found(Arg(1), Arg(2))
          <=> \E n \in 0..Len(Arg(1)) : IsPrefix(Arg(2), SubSeq(Arg(1), n + 1, Len(Arg(1))))
        BY <1>1, FoundMeans
    <2>3. Found(Arg(1), Arg(2)) \in BOOLEAN
        BY DEF Found
    <2> QED BY <2>1, <2>2, <2>3, Zenon
<1> QED BY <1>1, <1>2, ContainsIs, AnswersAre DEF ReduceContains

LEMMA StartsWithStep == ASSUME CallOK, ReduceStartsWith PROVE answers' = {Meaning}
<1>1. call.function = "StartsWith" /\ Arg(1) \in Text /\ Arg(2) \in Text
    BY ArgsOf DEF ReduceStartsWith, Reduces
<1> DEFINE starts == Len(Arg(1)) >= Len(Arg(2)) /\ SubSeq(Arg(1), 1, Len(Arg(2))) = Arg(2)
<1>2. Meaning = starts
    <2>1. Meaning = IsPrefix(Arg(2), Arg(1))
        BY <1>1 DEF Meaning
    <2>2. IsPrefix(Arg(2), Arg(1)) <=> starts
        BY <1>1, StartsWithIs
    <2>3. IsPrefix(Arg(2), Arg(1)) \in BOOLEAN
        BY DEF IsPrefix
    <2> QED BY <2>1, <2>2, <2>3, Zenon
<1>3. StartsWithAxiom(Arg(1), Arg(2)) = {starts}
    BY <1>1, StartsWithIs
<1>4. Answers(starts, StartsWithAxiom(Arg(1), Arg(2)))
    BY DEF ReduceStartsWith
<1> HIDE DEF starts
<1> QED BY <1>2, <1>3, <1>4, AnswersAre

LEMMA EndsWithStep == ASSUME CallOK, ReduceEndsWith PROVE answers' = {Meaning}
<1>1. call.function = "EndsWith" /\ Arg(1) \in Text /\ Arg(2) \in Text
    BY ArgsOf DEF ReduceEndsWith, Reduces
<1> DEFINE ends ==
        /\ Len(Arg(1)) >= Len(Arg(2))
        /\ SubSeq(Arg(1), Len(Arg(1)) - Len(Arg(2)) + 1, Len(Arg(1))) = Arg(2)
<1>2. Meaning = ends
    <2>1. Meaning = IsSuffix(Arg(2), Arg(1))
        BY <1>1 DEF Meaning
    <2>2. IsSuffix(Arg(2), Arg(1)) <=> ends
        BY <1>1, SuffixMeans
    <2>3. IsSuffix(Arg(2), Arg(1)) \in BOOLEAN
        BY DEF IsSuffix, IsPrefix
    <2> QED BY <2>1, <2>2, <2>3, Zenon
<1>3. EndsWithAxiom(Arg(1), Arg(2)) = {ends}
    BY <1>1, EndsWithIs
<1>4. Answers(ends, EndsWithAxiom(Arg(1), Arg(2)))
    BY DEF ReduceEndsWith
<1> HIDE DEF ends
<1> QED BY <1>2, <1>3, <1>4, AnswersAre

LEMMA IndexofStep == ASSUME CallOK, ReduceIndexof, Defined PROVE answers' = {Meaning}
<1>1. call.function = "Indexof" /\ Arg(1) \in Text /\ Arg(2) \in Text /\ Arg(2) # <<>>
    BY ArgsOf DEF ReduceIndexof, Reduces, Defined
<1>2. Meaning = First(Arg(1), Arg(2), 0)
    BY <1>1 DEF Meaning
<1> QED BY <1>1, <1>2, IndexofIs, AnswersAre DEF ReduceIndexof

LEMMA Indexof2Step == ASSUME CallOK, ReduceIndexof2, Defined PROVE answers' = {Meaning}
<1>1. call.function = "Indexof2" /\ Arg(1) \in Text /\ Arg(2) \in Text /\ Arg(3) \in Int /\ Arg(2) # <<>>
    BY ArgsOf DEF ReduceIndexof2, Reduces, Defined
<1>2. Meaning = First(Arg(1), Arg(2), Arg(3))
    BY <1>1 DEF Meaning
<1>3. (Constant(1) /\ Constant(2)) \in BOOLEAN
    BY DEF Constant
<1> DEFINE suffix == SubSeq(Arg(1), Arg(3) + 1, Len(Arg(1)))
           computed ==
               IF Arg(3) >= Len(Arg(1)) THEN -1
               ELSE IF Arg(3) < 0 THEN Find(Arg(1), Arg(2))
               ELSE IF Find(suffix, Arg(2)) = -1 THEN -1
               ELSE Find(suffix, Arg(2)) + Arg(3)
           axiom == Indexof2Axiom(Arg(1), Arg(2), Arg(3), Constant(1) /\ Constant(2))
<1>4. Answers(computed, axiom)
    BY DEF ReduceIndexof2
<1>5. computed = Meaning
    BY <1>1, <1>2, FirstFrom DEF From
<1>6. axiom = {Meaning}
    BY <1>1, <1>2, <1>3, Indexof2Is
<1> HIDE DEF computed, axiom
<1> QED BY <1>4, <1>5, <1>6, AnswersAre

LEMMA LastIndexofStep == ASSUME CallOK, ReduceLastIndexof, Defined PROVE answers' = {Meaning}
<1>1. call.function = "LastIndexof" /\ Arg(1) \in Text /\ Arg(2) \in Text /\ Arg(2) # <<>>
    BY ArgsOf DEF ReduceLastIndexof, Reduces, Defined
<1>2. Meaning = Latest(Arg(1), Arg(2))
    BY <1>1 DEF Meaning
<1>3. Constant(2) \in BOOLEAN
    BY DEF Constant
<1> QED BY <1>1, <1>2, <1>3, LatestIs, LastIndexofIs, AnswersAre DEF ReduceLastIndexof

LEMMA CharAtStep == ASSUME CallOK, ReduceCharAt PROVE answers' = {Meaning}
<1>1. call.function = "CharAt" /\ Arg(1) \in Text /\ Arg(2) \in Int
    BY ArgsOf DEF ReduceCharAt, Reduces
<1>2. Meaning = IF Arg(2) + 1 \in DOMAIN Arg(1) THEN <<Arg(1)[Arg(2) + 1]>> ELSE <<>>
    BY <1>1 DEF Meaning
<1> QED BY <1>1, <1>2, CharAtIs, AnswersAre DEF ReduceCharAt

LEMMA ReplaceStep == ASSUME CallOK, ReduceReplace, Defined PROVE answers' = {Meaning}
<1>1. call.function = "Replace" /\ Arg(1) \in Text /\ Arg(2) \in Text /\ Arg(3) \in Text /\ Arg(2) # <<>>
    BY ArgsOf DEF ReduceReplace, Reduces, Defined
<1>2. Meaning = ReplaceFirstSubSeq(Arg(3), Arg(2), Arg(1))
    BY <1>1 DEF Meaning
<1> QED BY <1>1, <1>2, ReplaceIs, AnswersAre DEF ReduceReplace

LEMMA SubStrStep == ASSUME CallOK, ReduceSubStr, Defined PROVE answers' = {Meaning}
<1>1. /\ call.function = "Substring" /\ Arg(1) \in Text /\ Arg(2) \in Int /\ Arg(3) \in Int
      /\ Arg(2) >= 0 /\ Arg(3) >= 0 /\ Arg(2) + Arg(3) <= Len(Arg(1))
    BY ArgsOf DEF ReduceSubStr, Reduces, Defined
<1>2. Meaning = SubSeq(Arg(1), Arg(2) + 1, Arg(2) + Arg(3))
    BY <1>1 DEF Meaning
<1> QED BY <1>1, <1>2, SubstringIs DEF ReduceSubStr

LEMMA FunctionStep == FInv /\ [FunctionNext]_functionVars => FInv'
<1> SUFFICES ASSUME FInv, [FunctionNext]_functionVars PROVE FInv'
    OBVIOUS
<1>1. CASE FunctionNext
    <2>1. call' = call /\ reduced' = TRUE
        BY <1>1 DEF FunctionNext, Reduces, ReduceContains, ReduceStartsWith, ReduceEndsWith, ReduceIndexof,
            ReduceIndexof2, ReduceLastIndexof, ReduceCharAt, ReduceReplace, ReduceSubStr
    <2>2. ASSUME Defined PROVE answers' = {Meaning}
        BY <1>1, <2>2, ContainsStep, StartsWithStep, EndsWithStep, IndexofStep, Indexof2Step, LastIndexofStep,
            CharAtStep, ReplaceStep, SubStrStep DEF FunctionNext, FInv
    <2>3. IsFunction'
        BY <2>1, <2>2, SameCall DEF IsFunction
    <2> QED BY <2>1, <2>3, SameCall DEF FInv
<1>2. CASE UNCHANGED functionVars
    <2>1. call' = call /\ reduced' = reduced /\ answers' = answers
        BY <1>2 DEF functionVars
    <2>2. IsFunction'
        BY <2>1, SameCall DEF IsFunction, FInv
    <2> QED BY <2>1, <2>2, SameCall DEF FInv
<1> QED BY <1>1, <1>2

\* Each of the nine functions has one value, the one it stands for, whatever
\* its arguments are, whichever of them are constants and whatever the fresh
\* variables of its axiom are: the axioms of strAstReduce.cpp and what
\* cb_reduce_app computes define the same functions.
THEOREM FunctionsAreOne == FunctionSpec => []IsFunction
<1>1. FunctionInit => FInv
    <2> SUFFICES ASSUME FunctionInit PROVE FInv
        OBVIOUS
    <2>1. PICK function \in DOMAIN ArgLists : \E args \in ArgLists[function] :
              \E constants \in SUBSET DOMAIN args :
                  call = [function |-> function, args |-> args, constants |-> constants]
        BY DEF FunctionInit
    <2>2. PICK args \in ArgLists[function] : \E constants \in SUBSET DOMAIN args :
              call = [function |-> function, args |-> args, constants |-> constants]
        BY <2>1
    <2>3. function \in DOMAIN Signature /\ args \in Signature[function]
        BY ArgumentsAssumption
    <2>4. CallOK
        BY <2>2, <2>3 DEF CallOK
    <2> QED BY <2>4 DEF FunctionInit, FInv, IsFunction
<1>2. FInv => IsFunction
    BY DEF FInv
<1> QED BY <1>1, <1>2, FunctionStep, PTL DEF FunctionSpec

=============================================================================
