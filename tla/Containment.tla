---------------------------- MODULE Containment -----------------------------
(***************************************************************************)
(* Containment in the string plug-in (strTheory.cpp).  Contains(s, p) is   *)
(* reduced to a Boolean variable that is only tied to an equation with two *)
(* free variables, so a false Contains says nothing by itself: whether the *)
(* variable follows the strings rests on axioms which the plug-in adds     *)
(* when the core merges two classes of equal terms.  cb_new_eq checks the  *)
(* classes before they are merged, and skips the check when two concats    *)
(* merge by congruence.  The same callback decides RegexIn.                *)
(*                                                                         *)
(* Terms, strings and what includes what are parameters.  An axiom says:   *)
(* if the terms in eqs are equal and the keys in holds are true, then key  *)
(* has the value.                                                          *)
(***************************************************************************)
EXTENDS Naturals, Sequences

CONSTANTS
    Terms,          \* string terms of the context
    Strings,        \* string values
    ConstOf,        \* the value of each constant term
    Args,           \* the two arguments of each concat
    Pieces,         \* the values of the constants inside each concat
    Includes,       \* <<s, p>>: p is a substring of s (string::find)
    Keys,           \* containPairBoolMap: the registered <<str, substr>>
    Patterns,       \* regular expressions
    Matches,        \* <<s, r>>: regex_match accepts s under r
    RegexKeys,      \* regexInBoolMap: the registered <<term, pattern>>
    TermRank,       \* the pointers of terms: the order of set<Z3_ast>
    KeyRank,        \* the order of set<pair<Z3_ast, Z3_ast>>
    Clashes,        \* pairs that newEqCheck refutes before it checks containment
    Facts,          \* equations the core may assert
    Models,         \* interpretations of the terms
    MaxLevel        \* bound on the scopes pushed

Consts == DOMAIN ConstOf
Concats == DOMAIN Args
AllKeys == Keys \cup RegexKeys

ASSUME TermsAssumption ==
    /\ ConstOf \in [Consts -> Strings] /\ Consts \subseteq Terms
    /\ Args \in [Concats -> Terms \X Terms] /\ Concats \subseteq Terms
    /\ Pieces \in [Concats -> SUBSET Strings]
    /\ Keys \subseteq Terms \X Terms /\ RegexKeys \subseteq Terms \X Patterns
    /\ Keys \cap RegexKeys = {}
    /\ Facts \subseteq Terms \X Terms /\ Clashes \subseteq Terms \X Terms
    /\ MaxLevel \in Nat

\* Pointers are told apart, and every set of terms, or keys, has a first one.
ASSUME RankAssumption ==
    /\ TermRank \in [Terms -> Nat] /\ KeyRank \in [Keys -> Nat]
    /\ \A t, u \in Terms : TermRank[t] = TermRank[u] => t = u
    /\ \A j, k \in Keys : KeyRank[j] = KeyRank[k] => j = k
    /\ \A S \in (SUBSET Terms) \ {{}} : \E t \in S : \A u \in S : TermRank[t] <= TermRank[u]
    /\ \A S \in (SUBSET Keys) \ {{}} : \E k \in S : \A j \in S : KeyRank[k] <= KeyRank[j]

\* A string includes itself, and what its substrings include.
ASSUME IncludesAssumption ==
    /\ Includes \subseteq Strings \X Strings /\ Matches \subseteq Strings \X Patterns
    /\ \A s \in Strings : <<s, s>> \in Includes
    /\ \A s, p, q \in Strings :
           <<s, p>> \in Includes /\ <<p, q>> \in Includes => <<s, q>> \in Includes

\* A model gives terms values: constants their own, concats values that
\* include their pieces.
Respects(model) ==
    /\ \A c \in Consts : model[c] = ConstOf[c]
    /\ \A c \in Concats : \A p \in Pieces[c] : <<model[c], p>> \in Includes
ASSUME ModelsAssumption == \A model \in Models : model \in [Terms -> Strings] /\ Respects(model)

VARIABLE frames     \* the scopes: classes, axioms, skipped terms and conflict of each

Top == frames[Len(frames)]
Classes == [Terms -> SUBSET Terms]

-----------------------------------------------------------------------------
(* Classes of terms, as the union-find of the plug-in has them.            *)

HasValue(class) == class \cap Consts # {}
ValueNode(class) == CHOOSE c \in class : c \in Consts
ValueOf(class) == ConstOf[ValueNode(class)]

\* get_eqc_value: the constant of t's class, or t itself.
EqcValue(cl, t) == IF HasValue(cl[t]) THEN ValueNode(cl[t]) ELSE t

KeysOf(t) == {k \in Keys : k[1] = t \/ k[2] = t}
FirstTerm(S) == CHOOSE t \in S : \A u \in S : TermRank[t] <= TermRank[u]
FirstKey(S) == CHOOSE k \in S : \A j \in S : KeyRank[k] <= KeyRank[j]

\* A constant inside concat c is no substring of s.
Refuting(s, c) == \E p \in Pieces[c] : <<s, p>> \notin Includes
RefutingIn(s, class) == {c \in class \cap Concats : Refuting(s, c)}

-----------------------------------------------------------------------------
(* Axioms.                                                                 *)

Lit(t, u) == IF t = u THEN {} ELSE {<<t, u>>}
Axiom(eqs, holds, key, value) ==
    [eqs |-> eqs, holds |-> holds, key |-> key, value |-> value]
Implied(eqs, holds, from, to) == Axiom(eqs, holds \cup {from}, to, TRUE)
Equated(eqs, j, k) == {Implied(eqs, {}, j, k), Implied(eqs, {}, k, j)}
AxiomType ==
    [eqs : SUBSET (Terms \X Terms), holds : SUBSET AllKeys, key : AllKeys, value : BOOLEAN]

\* Mutant of ContainByEqcVal: nothing is decided when the substring is the
\* last to get a value.
ContainByEqcValOfStr(cl, v, c) ==
    {Axiom(Lit(v, c) \cup Lit(k[2], EqcValue(cl, k[2])), {}, k,
           <<ConstOf[c], ValueOf(cl[k[2]])>> \in Includes) :
        k \in {j \in KeysOf(v) : j[1] = v /\ HasValue(cl[j[2]])}}

\* checkContainByEqcVal: v equals the constant c, which may not be in its
\* class yet.
ContainByEqcVal(cl, v, c) ==
    LET str(k) ==
            LET y == k[2]
                refuting == RefutingIn(ConstOf[c], cl[y])
            IN IF HasValue(cl[y])
               THEN {Axiom(Lit(v, c) \cup Lit(y, EqcValue(cl, y)), {}, k,
                           <<ConstOf[c], ValueOf(cl[y])>> \in Includes)}
               ELSE IF refuting = {} THEN {}
               ELSE {Axiom(Lit(v, c) \cup Lit(y, FirstTerm(refuting)), {}, k, FALSE)}
        substr(k) ==
            IF HasValue(cl[k[1]])
            THEN {Axiom(Lit(v, c) \cup Lit(k[1], EqcValue(cl, k[1])), {}, k,
                        <<ValueOf(cl[k[1]]), ConstOf[c]>> \in Includes)}
            ELSE {}
    IN UNION {IF k[1] = v THEN str(k) ELSE substr(k) : k \in KeysOf(v)}

\* Mutant of ContainBySubStr: only v itself is looked at, not its class-to-be.
ContainByItself(cl, v, will) ==
    {Axiom(Lit(k[1], EqcValue(cl, k[1])), {}, k, FALSE) :
        k \in {j \in Keys : /\ j[2] = v /\ HasValue(cl[j[1]])
                            /\ RefutingIn(ValueOf(cl[j[1]]), {v}) # {}}}

\* checkContainBySubStr: the string that is to contain v has a value, and v
\* will equal a concat with a piece that is not in it.  litems is not cleared
\* between keys: a key's axiom has the premises of the keys before it.
ContainBySubStr(cl, v, will) ==
    LET valued == {k \in Keys : k[2] = v /\ HasValue(cl[k[1]])}
        refuting(k) == RefutingIn(ValueOf(cl[k[1]]), will)
        pushed(k) ==
            Lit(k[1], EqcValue(cl, k[1]))
            \cup IF refuting(k) = {} THEN {} ELSE Lit(v, FirstTerm(refuting(k)))
        litems(k) == UNION {pushed(j) : j \in {i \in valued : KeyRank[i] <= KeyRank[k]}}
    IN {Axiom(litems(k), {}, k, FALSE) : k \in {j \in valued : refuting(j) # {}}}

\* The two keys have the same first term and contain m and n.
SubRelation(cl, eq, j, k, m, n) ==
    LET cm == ValueOf(cl[m])
        cn == ValueOf(cl[n])
        eqs == eq \cup Lit(m, EqcValue(cl, m)) \cup Lit(n, EqcValue(cl, n))
    IN IF HasValue(cl[m]) /\ HasValue(cl[n])
       THEN IF cm = cn THEN Equated(eqs, j, k)
            ELSE IF <<cm, cn>> \in Includes THEN {Implied(eqs, {}, j, k)}
            ELSE IF <<cn, cm>> \in Includes THEN {Implied(eqs, {}, k, j)}
            ELSE {}
       ELSE IF n \in cl[m] THEN Equated(eq \cup Lit(m, n), j, k)
       ELSE {Implied(eq \cup Lit(m, o[1]) \cup Lit(n, o[2]), {o}, j, k) :
                 o \in Keys \cap (cl[m] \X cl[n])}
            \cup {Implied(eq \cup Lit(m, o[2]) \cup Lit(n, o[1]), {o}, k, j) :
                 o \in Keys \cap (cl[n] \X cl[m])}

\* Mutant of StrRelation: as for substrings, the larger string implies.
StrRelationUnswapped(cl, eq, j, k, m, n) == SubRelation(cl, eq, j, k, m, n)

\* The two keys have the same second term and are contained in m and n.
StrRelation(cl, eq, j, k, m, n) == SubRelation(cl, eq, k, j, m, n)

\* checkContainByEqNodes.  For n1 = n2 the loop over n1's keys ends after the
\* first.
ContainByEqNodes(cl, n1, n2) ==
    LET keys1 == IF n1 = n2 /\ KeysOf(n1) # {} THEN {FirstKey(KeysOf(n1))} ELSE KeysOf(n1)
        eq == Lit(n1, n2)
        related(j, k) ==
            IF j = k THEN {}
            ELSE IF j[1] = n1 /\ k[1] = n2 THEN SubRelation(cl, eq, j, k, j[2], k[2])
            ELSE IF j[2] = n1 /\ k[2] = n2 THEN StrRelation(cl, eq, j, k, j[1], k[1])
            ELSE {}
    IN IF KeysOf(n1) = {} \/ KeysOf(n2) = {} THEN {}
       ELSE {Axiom(eq, {}, k, TRUE) : k \in {j \in keys1 : j = <<n1, n2>>}}
            \cup UNION {UNION {related(j, k) : k \in KeysOf(n2)} : j \in keys1}

\* checkContainInNewEq: cl[n1] and cl[n2] are about to be merged.
ContainInNewEq(cl, n1, n2) ==
    LET will == cl[n1] \cup cl[n2]
        const == IF HasValue(cl[n1]) THEN ValueNode(cl[n1]) ELSE ValueNode(cl[n2])
    IN (IF HasValue(will)
        THEN UNION {ContainByEqcVal(cl, v, const) : v \in will \ {const}}
        ELSE UNION {ContainBySubStr(cl, v, will) : v \in will})
       \cup UNION {UNION {ContainByEqNodes(cl, u, v) :
                               v \in {t \in will : TermRank[u] <= TermRank[t]}} : u \in will}

\* checkRegexIn: a class that has a constant decides the RegexIn of its terms.
RegexIn(cl, n1, n2) ==
    LET will == cl[n1] \cup cl[n2]
        const == IF HasValue(cl[n1]) THEN ValueNode(cl[n1]) ELSE ValueNode(cl[n2])
    IN IF ~HasValue(will) THEN {}
       ELSE {Axiom(Lit(k[1], const), {}, k, <<ConstOf[const], k[2]>> \in Matches) :
                 k \in {j \in RegexKeys : j[1] \in will}}

-----------------------------------------------------------------------------
(* The callback and the core that calls it.                                *)

\* The early returns of cb_new_eq: two concats with one argument in common
\* and the other one equal already.
Skipped(cl, n1, n2) ==
    /\ {n1, n2} \subseteq Concats
    /\ \/ Args[n1][1] = Args[n2][1] /\ Args[n2][2] \in cl[Args[n1][2]]
       \/ Args[n1][2] = Args[n2][2] /\ Args[n2][1] \in cl[Args[n1][1]]

Refuted(cl, n1, n2) == \E u \in cl[n1], v \in cl[n2] : <<u, v>> \in Clashes

\* Mutant of Merged: the terms of n2's class are not told.
MergedLeft(cl, n1, n2) ==
    [t \in Terms |-> IF t \in cl[n1] THEN cl[n1] \cup cl[n2] ELSE cl[t]]

Merged(cl, n1, n2) ==
    [t \in Terms |-> IF t \in cl[n1] \cup cl[n2] THEN cl[n1] \cup cl[n2] ELSE cl[t]]

\* What a frame is after cb_new_eq(n1, n2) and the merge that follows it.
\* skipped is no part of the code: it remembers which terms went unchecked.
NewEq(f, n1, n2) ==
    LET will == f.class[n1] \cup f.class[n2]
        class == Merged(f.class, n1, n2)
    IN IF Skipped(f.class, n1, n2)
       THEN [f EXCEPT !.class = class, !.skipped = @ \cup will]
       ELSE IF Refuted(f.class, n1, n2)
       THEN [f EXCEPT !.class = class, !.conflict = TRUE]
       ELSE [class |-> class,
             axioms |-> f.axioms \cup ContainInNewEq(f.class, n1, n2)
                                 \cup RegexIn(f.class, n1, n2),
             skipped |-> f.skipped \ will,
             conflict |-> f.conflict]

\* Two constants are told apart by the core itself.
BothValued(cl, n1, n2) == HasValue(cl[n1]) /\ HasValue(cl[n2])

Equate(n1, n2) ==
    /\ ~Top.conflict
    /\ n2 \notin Top.class[n1]
    /\ frames' = [frames EXCEPT ![Len(frames)] =
                      IF BothValued(Top.class, n1, n2) THEN [@ EXCEPT !.conflict = TRUE]
                      ELSE NewEq(@, n1, n2)]

\* The core asserts an equation.
AssertFact == \E fact \in Facts : Equate(fact[1], fact[2])

\* The core merges two concats whose arguments are equal.
Congruence ==
    \E c, d \in Concats :
        /\ \A i \in 1..2 : Args[d][i] \in Top.class[Args[c][i]]
        /\ Equate(c, d)

\* The core opens a scope; axioms, like classes, are those of the scope.
Push ==
    /\ ~Top.conflict
    /\ Len(frames) <= MaxLevel
    /\ frames' = Append(frames, Top)

Pop ==
    /\ Len(frames) > 1
    /\ frames' = SubSeq(frames, 1, Len(frames) - 1)

Apart == [class |-> [t \in Terms |-> {t}], axioms |-> {}, skipped |-> {}, conflict |-> FALSE]
Init == frames = <<Apart>>
Next == AssertFact \/ Congruence \/ Push \/ Pop
Spec == Init /\ [][Next]_frames

-----------------------------------------------------------------------------
(* Properties.                                                             *)

FrameType ==
    [class : Classes, axioms : SUBSET AxiomType, skipped : SUBSET Terms, conflict : BOOLEAN]

\* There is always a scope, and terms that are equal share their class.
TypeOK ==
    /\ frames \in Seq(FrameType)
    /\ Len(frames) \in 1..MaxLevel + 1
    /\ \A i \in 1..Len(frames) : \A t, u \in Terms :
           LET class == frames[i].class
           IN t \in class[t] /\ (u \in class[t] => class[u] = class[t])

Truth(model, k) ==
    IF k \in Keys THEN <<model[k[1]], model[k[2]]>> \in Includes
    ELSE <<model[k[1]], k[2]>> \in Matches
Valid(axiom) ==
    \A model \in Models :
        /\ \A eq \in axiom.eqs : model[eq[1]] = model[eq[2]]
        /\ \A k \in axiom.holds : Truth(model, k)
        => Truth(model, axiom.key) = axiom.value

\* No axiom rules out a solution: whatever values the strings have, the
\* Booleans that say what is really contained, and matched, satisfy all of
\* them.  (checkContainByEqcVal, checkContainBySubStr, checkContainByEqNodes
\* and checkRegexIn take their premises from classes that are not merged
\* yet, and premises gather in litems.)
AxiomsAreValid == \A ax \in Top.axioms : Valid(ax)

\* The axioms whose premises hold leave the Boolean of k no choice.
InForce(f) == {ax \in f.axioms : \A eq \in ax.eqs : eq[2] \in f.class[eq[1]]}
Satisfied(ax, truth) == (\A k \in ax.holds : truth[k]) => truth[ax.key] = ax.value
Decided(f, k, value) ==
    \A truth \in [AllKeys -> BOOLEAN] :
        (\A ax \in InForce(f) : Satisfied(ax, truth)) => truth[k] = value

Known(f, k) == HasValue(f.class[k[1]]) /\ (k \in Keys => HasValue(f.class[k[2]]))
Actual(f, k) ==
    IF k \in Keys THEN <<ValueOf(f.class[k[1]]), ValueOf(f.class[k[2]])>> \in Includes
    ELSE <<ValueOf(f.class[k[1]]), k[2]>> \in Matches
Checked(f, k) == k[1] \notin f.skipped /\ (k \in Keys => k[2] \notin f.skipped)

\* What a key says was settled when it was registered: its strings are
\* constants.  reduce_contains computes such a Contains itself, but
\* reduce_replace and reduce_regexIn register it.
Ground(k) == k[1] \in Consts /\ (k \in Keys => k[2] \in Consts)

\* Once both strings of a Contains have values, or the string of a RegexIn
\* has, its Boolean is decided, in whatever order the merges came, and again
\* after backtracking; unless the classes were merged without a check
\* (cb_new_eq's early returns), the two strings are of one class, or no
\* merge was needed to know.
KnownIsDecided ==
    \A k \in AllKeys :
        /\ ~Top.conflict /\ Known(Top, k) /\ Checked(Top, k) /\ ~Ground(k)
        /\ k \in Keys => k[2] \notin Top.class[k[1]]
        => Decided(Top, k, Actual(Top, k))

\* A string with a value cannot include a term that equals a concat with a
\* constant that is not in that value: the Boolean is false as soon as both
\* facts are known, whichever came last; unless both were known from the
\* start, the string being a constant and the term that concat.
PiecesRefute ==
    \A k \in Keys :
        /\ ~Top.conflict /\ Checked(Top, k)
        /\ k[1] \in Consts => Top.class[k[2]] # {k[2]}
        /\ HasValue(Top.class[k[1]]) /\ ~HasValue(Top.class[k[2]])
        /\ RefutingIn(ValueOf(Top.class[k[1]]), Top.class[k[2]]) # {}
        => Decided(Top, k, FALSE)

=============================================================================
