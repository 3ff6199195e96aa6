------------------------------ MODULE Splitting ------------------------------
(***************************************************************************)
(* How the string plug-in splits an equation x . y = m . n of two          *)
(* concatenations, or x . y = s of one and a constant (strArgmt.cpp): the  *)
(* axiom it asserts lists the ways the boundaries of the parts can lie,    *)
(* with a flag that tells which one it is and fresh non-empty variables    *)
(* for the overlaps.                                                       *)
(*                                                                         *)
(* A behaviour is one call, for some values of the parts: the axiom admits *)
(* these values or refuses them.  What the call reads is input: which      *)
(* parts are constants, which lengths are known, whose cuts have a         *)
(* variable in common (module Cuts), and whether the solver already knows  *)
(* what is equal or cannot be.                                             *)
(***************************************************************************)
EXTENDS Integers, Sequences, Loops

CONSTANTS
    Chars,          \* the alphabet
    Values,         \* the values of the parts: <<x, y, m, n>> or <<x, y, s>>
    Overlaps        \* the strings an overlap may be

VARIABLES
    call,           \* the call
    outcome         \* what its axiom says of the values: see Says

callVars == <<avoidLoopCut, call, loopDetected, outcome>>

\* std::string::substr, up to a place and from it on.
First(w, i) == SubSeq(w, 1, i)
After(w, i) == SubSeq(w, i + 1, Len(w))

\* A fresh variable may be any string: at least what one part has more than
\* another, and one that is not empty.
ASSUME StringsAssumption ==
    /\ \A values \in Values :
           /\ values \in Seq(Seq(Chars)) /\ Len(values) \in {3, 4}
           /\ \A i \in DOMAIN values : \A j \in 0..Len(values[i]) : After(values[i], j) \in Overlaps
    /\ Overlaps \subseteq Seq(Chars)
    /\ \E t \in Overlaps : t # <<>>

-----------------------------------------------------------------------------
(* The call.  In the order of its type, the parts are x, y, m and n; the    *)
(* types 2, 3 and 6 take the two concatenations in either order.            *)

OfConcats == Len(call.values) = 4

isConcatEqType_1 == OfConcats /\ call.constants = {}
isConcatEqType_2 == OfConcats /\ call.constants \in {{4}, {2}}
isConcatEqType_3 == OfConcats /\ call.constants \in {{3}, {1}}
isConcatEqType_4 == OfConcats /\ call.constants = {1, 3}
isConcatEqType_5 == OfConcats /\ call.constants = {2, 4}
isConcatEqType_6 == OfConcats /\ call.constants \in {{1, 4}, {2, 3}}

Part(i) == IF OfConcats /\ call.constants \in {{2}, {1}, {2, 3}} THEN <<3, 4, 1, 2>>[i] ELSE i
x == call.values[Part(1)]
y == call.values[Part(2)]
m == call.values[Part(3)]
n == call.values[Part(4)]

\* Whether getLenValue is not -1.  resolved are the constants that
\* simplifyConcat has put in the place of variables equal to them, whose
\* lengths were not known.
LenKnown(i) == Part(i) \in call.known \cup call.constants
LenKnownBefore(i) == LenKnown(i) /\ Part(i) \notin call.resolved

\* canTwoNodesEq, canConcatEqStr: FALSE is said only of what cannot be.
CanEq(equal) == call.knows => equal
\* inSameEqc, of x and m, of y and n, or of what two constants leave ("rest"):
\* TRUE is said only of what is equal, and of each on its own.
InSameEqc(pair, equal) == pair \in call.same /\ equal

\* hasSelfCut, by itself and if loops are to be avoided.
Cut(u, v) == <<u, v>> \in call.selfCuts
AvoidedCut(u, v) == avoidLoopCut /\ Cut(u, v)

-----------------------------------------------------------------------------
(* Axioms.  Options are known by the value that the flag has for them.  An  *)
(* option maps the values of its overlap to what its equations then amount  *)
(* to.                                                                      *)

Just(equations) == [t \in Overlaps |-> equations]
When(condition, option) == IF condition THEN <<option>> ELSE <<>>

All(equations) == \A i \in DOMAIN equations : equations[i]
None(equations) == \A i \in DOMAIN equations : ~equations[i]

\* The flag has the number of an option iff each of its equations holds.
Open(options, overlaps) ==
    \E flag \in DOMAIN options : \A k \in DOMAIN options : \E t \in overlaps :
        IF k = flag THEN All(options[k][t]) ELSE None(options[k][t])

\* No overlap is empty, by an axiom that backtracking takes back and that is
\* not asserted again.
Says(options) ==
    CASE Open(options, Overlaps \ {<<>>}) -> "admitted"
      [] ~Open(options, Overlaps) -> "refused"
      [] OTHER -> "admitted, empty"

\* What is asserted, if anything is, and whether a loop has been avoided.
Split(options, loop) ==
    /\ outcome' = IF DOMAIN options = {} THEN "nothing" ELSE Says(options)
    /\ loopDetected' = (loopDetected \/ loop)
Implies(equations) == Split(<<Just(equations)>>, FALSE)
Negate == outcome' = "refused" /\ UNCHANGED loopDetected
Skip == outcome' = "nothing" /\ UNCHANGED loopDetected
OutOfRange == outcome' = "exception" /\ UNCHANGED loopDetected

-----------------------------------------------------------------------------
(* The lengths of x and m, or else of y and n, tell which boundary is first *)
(* and what the length of the overlap is.                                   *)

SplitType ==
    IF LenKnown(1) /\ LenKnown(3)
    THEN IF Len(x) < Len(m) THEN 0 ELSE IF Len(x) = Len(m) THEN 1 ELSE 2
    ELSE IF LenKnown(2) /\ LenKnown(4)
    THEN IF Len(y) > Len(n) THEN 0 ELSE IF Len(y) = Len(n) THEN 1 ELSE 2
    ELSE -1
Delta == IF LenKnown(1) /\ LenKnown(3) THEN Len(m) - Len(x) ELSE Len(y) - Len(n)

\* Mutant of XCutsN: the length of the overlap with the other's sign.
XCutsNByDelta == [t \in Overlaps |-> <<x = m \o t, n = t \o y, Len(t) = Delta>>]

MCutsY == [t \in Overlaps |-> <<m = x \o t, y = t \o n, Len(t) = Delta>>]
XCutsN == [t \in Overlaps |-> <<x = m \o t, n = t \o y, Len(t) = -Delta>>]

\* x . y = m . n.  If lengths tell where to split, the cuts are looked at
\* whatever avoidLoopCut is.
ProcessConcatEqType_1 ==
    LET first == [t \in Overlaps |-> <<m = x \o t, y = t \o n, Len(m) = Len(x) + Len(t),
                                       Len(m) > Len(x), Len(y) > Len(n)>>]
        second == [t \in Overlaps |-> <<x = m \o t, n = t \o y, Len(x) = Len(m) + Len(t),
                                        Len(x) > Len(m), Len(n) > Len(y)>>]
        third == Just(<<x = m, y = n, Len(x) = Len(m), Len(y) = Len(n)>>)
        CanBe(k) == \/ k = 1 /\ ~AvoidedCut("m", "y")
                    \/ k = 2 /\ ~AvoidedCut("x", "n")
                    \/ k = 3 /\ CanEq(x = m) /\ CanEq(y = n)
    IN /\ isConcatEqType_1
       /\ \/ SplitType = 0 /\ Split(When(~Cut("m", "y"), MCutsY), Cut("m", "y"))
          \/ SplitType = 1 /\ Implies(<<x = m, y = n>>)
          \/ SplitType = 2 /\ Split(When(~Cut("x", "n"), XCutsN), Cut("x", "n"))
          \/ /\ SplitType = -1
             /\ Split([k \in {l \in 1..3 : CanBe(l)} |-> <<first, second, third>>[k]],
                      AvoidedCut("m", "y") \/ AvoidedCut("x", "n"))

\* x . y = m . n, n constant: x may end in any place of n.
ProcessConcatEqType_2 ==
    LET canCut == CanEq(\E t \in Overlaps : y = t \o n)
        cut == canCut /\ AvoidedCut("m", "y")
        first == [t \in Overlaps |-> <<m = x \o t, y = t \o n, Len(m) = Len(x) + Len(t)>>]
        at(i) == Just(<<x = m \o First(n, i), y = After(n, i), Len(y) = Len(n) - i>>)
        CanBe(i) == IF i = -1 THEN canCut /\ ~cut
                    ELSE CanEq(x = m \o First(n, i)) /\ CanEq(y = After(n, i))
    IN /\ isConcatEqType_2
       /\ \/ SplitType = 0 /\ Split(When(canCut /\ ~cut, MCutsY), cut)
          \/ SplitType = 1 /\ Implies(<<x = m, y = n>>)
          \/ SplitType = 2 /\ -Delta > Len(n) /\ OutOfRange
          \/ /\ SplitType = 2 /\ -Delta <= Len(n)
             /\ LET prefix == First(n, -Delta)
                    crop == After(n, -Delta)
                IN IF CanEq(x = m \o prefix) /\ CanEq(y = crop)
                   THEN Implies(<<x = m \o prefix, y = crop>>) ELSE Negate
          \/ /\ SplitType = -1
             /\ Split([i \in {j \in -1..Len(n) : CanBe(j)} |-> IF i = -1 THEN first ELSE at(i)], cut)

\* x . y = m . n, m constant: x may end in any place of m.
ProcessConcatEqType_3 ==
    LET canCut == CanEq(\E t \in Overlaps : x = m \o t)
        cut == canCut /\ AvoidedCut("x", "n")
        last == [t \in Overlaps |-> <<x = m \o t, n = t \o y, Len(x) = Len(m) + Len(t)>>]
        at(i) == Just(<<x = First(m, i), y = After(m, i) \o n, Len(x) = i>>)
        CanBe(i) == IF i = -1 THEN canCut /\ ~cut
                    ELSE CanEq(x = First(m, i)) /\ CanEq(y = After(m, i) \o n)
        prefixLen == Len(m) - Delta
    IN /\ isConcatEqType_3
       /\ \/ SplitType = 0 /\ prefixLen < 0 /\ OutOfRange
          \/ /\ SplitType = 0 /\ prefixLen >= 0
             /\ LET prefix == First(m, prefixLen)
                    suffix == After(m, prefixLen)
                IN IF CanEq(x = prefix) /\ CanEq(y = suffix \o n)
                   THEN Implies(<<x = prefix, y = suffix \o n>>) ELSE Negate
          \/ SplitType = 1 /\ Implies(<<x = m, y = n>>)
          \/ SplitType = 2 /\ Split(When(canCut /\ ~cut, XCutsN), cut)
          \/ /\ SplitType = -1
             /\ Split([i \in {j \in -1..Len(m) : CanBe(j)} |-> IF i = -1 THEN last ELSE at(i)], cut)

\* x . y = m . n, x and m constant: one is a prefix of the other.
ProcessConcatEqType_4 ==
    LET common == IF Len(x) > Len(m) THEN Len(m) ELSE Len(x)
        rest == IF Len(x) > Len(m) THEN n = After(x, Len(m)) \o y ELSE y = After(m, Len(x)) \o n
    IN /\ isConcatEqType_4
       /\ IF First(x, common) # First(m, common) THEN Negate
          ELSE IF InSameEqc("rest", rest) THEN Skip
          ELSE Implies(<<rest>>)

\* x . y = m . n, y and n constant: one is a suffix of the other.
ProcessConcatEqType_5 ==
    LET common == IF Len(y) > Len(n) THEN Len(n) ELSE Len(y)
        rest == IF Len(y) > Len(n) THEN m = x \o First(y, Len(y) - Len(n))
                ELSE x = m \o First(n, Len(n) - Len(y))
    IN /\ isConcatEqType_5
       /\ IF After(y, Len(y) - common) # After(n, Len(n) - common) THEN Negate
          ELSE IF InSameEqc("rest", rest) THEN Skip
          ELSE Implies(<<rest>>)

\* x . y = m . n, x and n constant: they overlap, or m has more than x.
ProcessConcatEqType_6 ==
    LET cut == AvoidedCut("m", "y")
        more == [t \in Overlaps |-> <<m = x \o t, y = t \o n, Len(m) = Len(x) + Len(t)>>]
        at(i) == LET prefix == First(x, Len(x) - i)
                     suffix == After(n, i)
                 IN Just(<<m = prefix, Len(m) = Len(prefix), y = suffix, Len(y) = Len(suffix)>>)
        CanBe(i) == IF i = -1 THEN ~cut
                    ELSE i <= Len(n) /\ After(x, Len(x) - i) = First(n, i)
    IN /\ isConcatEqType_6
       /\ Split([i \in {j \in -1..Len(x) : CanBe(j)} |-> IF i = -1 THEN more ELSE at(i)], cut)

-----------------------------------------------------------------------------
(* simplifyConcatEq, before it splits: parts that are equal, or as long.    *)

SameLenBefore(i, j, u, v) == LenKnownBefore(i) /\ LenKnownBefore(j) /\ Len(u) = Len(v)
SamePart == InSameEqc("x, m", x = m) \/ InSameEqc("y, n", y = n)
SameLen == SameLenBefore(1, 3, x, m) \/ SameLenBefore(2, 4, y, n)

EqualParts ==
    /\ OfConcats /\ SamePart
    /\ IF InSameEqc("x, m", x = m) /\ InSameEqc("y, n", y = n) THEN Skip
       ELSE IF InSameEqc("x, m", x = m) THEN Implies(<<y = n, Len(y) = Len(n)>>)
       ELSE Implies(<<x = m, Len(x) = Len(m)>>)

EqualLengths == OfConcats /\ ~SamePart /\ SameLen /\ Implies(<<x = m, y = n>>)

Unequal == OfConcats /\ ~SamePart /\ ~SameLen /\ ~CanEq(x \o y = m \o n) /\ Negate

ProcessConcatEq ==
    /\ OfConcats /\ ~SamePart /\ ~SameLen
    /\ \/ ProcessConcatEqType_1 \/ ProcessConcatEqType_2 \/ ProcessConcatEqType_3
       \/ ProcessConcatEqType_4 \/ ProcessConcatEqType_5 \/ ProcessConcatEqType_6

-----------------------------------------------------------------------------
(* solve_concat_eq_str: x . y = s, with each part a constant or not.        *)

s == call.values[3]

Boundaries ==
    LET CanBe(i) == CanEq(x = First(s, i)) /\ CanEq(y = After(s, i))
    IN [i \in {j \in 0..Len(s) : CanBe(j)} |-> Just(<<x = First(s, i), y = After(s, i)>>)]

\* Where the boundary lies, by the length of x or else of y.
SolveByLength ==
    LET known == IF LenKnown(1) THEN x ELSE y
        boundary == IF LenKnown(1) THEN Len(x) ELSE Len(s) - Len(y)
        prefix == First(s, boundary)
        suffix == After(s, boundary)
        other == IF LenKnown(1) THEN Len(y) = Len(suffix) ELSE Len(x) = Len(prefix)
    IN IF Len(known) > Len(s) THEN Implies(<<Len(known) <= Len(s)>>)
       ELSE IF ~CanEq(x = prefix) \/ ~CanEq(y = suffix) THEN Negate
       ELSE Implies(IF LenKnown(1) /\ LenKnown(2) THEN <<x = prefix, y = suffix>>
                    ELSE <<x = prefix, y = suffix, other>>)

SolveConcatEqStr ==
    /\ ~OfConcats
    /\ \/ s = <<>> /\ Implies(<<x = s, y = s>>)
       \/ /\ s # <<>> /\ call.constants = {1, 2}
          /\ IF x \o y = s THEN Skip ELSE Negate
       \/ /\ s # <<>> /\ call.constants = {2}
          /\ LET rest == Len(s) - Len(y)
             IN IF rest < 0 \/ (rest >= 0 /\ After(s, rest) # y) THEN Negate
                ELSE Implies(<<x = First(s, rest)>>)
       \/ /\ s # <<>> /\ call.constants = {1}
          /\ IF Len(s) < Len(x) \/ First(s, Len(x)) # x THEN Negate
             ELSE Implies(<<y = After(s, Len(x))>>)
       \/ s # <<>> /\ call.constants = {} /\ (LenKnown(1) \/ LenKnown(2)) /\ SolveByLength
       \/ /\ s # <<>> /\ call.constants = {} /\ ~LenKnown(1) /\ ~LenKnown(2)
          /\ IF DOMAIN Boundaries = {} THEN Negate ELSE Split(Boundaries, FALSE)

-----------------------------------------------------------------------------
(* The calls there are.                                                    *)

\* A concatenation of two constants is a constant, not a concatenation.
ConstantParts(values) ==
    IF Len(values) = 3 THEN SUBSET {1, 2}
    ELSE {c \in SUBSET (1..4) : ~({1, 2} \subseteq c) /\ ~({3, 4} \subseteq c)}

\* The pairs of parts, neither of them a constant, that are asked for cuts in
\* common.
Cuttable(values, constants) ==
    IF Len(values) = 3 \/ constants \in {{1, 3}, {2, 4}} THEN {}
    ELSE IF constants = {} THEN {<<"m", "y">>, <<"x", "n">>}
    ELSE IF constants \in {{3}, {1}} THEN {<<"x", "n">>}
    ELSE {<<"m", "y">>}

\* The pairs that may be in a class, of those inSameEqc is asked about.
Mergeable(values, constants) ==
    IF Len(values) = 3 THEN {}
    ELSE {pair \in {"x, m", "y, n", "rest"} :
              CASE pair = "x, m" -> values[1] = values[3]
                [] pair = "y, n" -> values[2] = values[4]
                [] OTHER -> constants \in {{1, 3}, {2, 4}}}

CallInit ==
    /\ \E values \in Values : \E constants \in ConstantParts(values) :
       \E known \in SUBSET ((IF Len(values) = 3 THEN {1, 2} ELSE 1..4) \ constants),
          resolved \in SUBSET constants, selfCuts \in SUBSET Cuttable(values, constants),
          knows \in BOOLEAN, same \in SUBSET Mergeable(values, constants) :
          call = [values |-> values, constants |-> constants, known |-> known,
                  resolved |-> resolved, selfCuts |-> selfCuts, knows |-> knows,
                  same |-> same]
    /\ avoidLoopCut \in (IF call.selfCuts = {} THEN {TRUE} ELSE BOOLEAN)
    /\ loopDetected = FALSE
    /\ outcome = "none"

Returned == outcome # "none" /\ UNCHANGED <<loopDetected, outcome>>

CallNext ==
    /\ \/ /\ outcome = "none"
          /\ EqualParts \/ EqualLengths \/ Unequal \/ ProcessConcatEq \/ SolveConcatEqStr
       \/ Returned
    /\ UNCHANGED <<avoidLoopCut, call>>
CallSpec == CallInit /\ [][CallNext]_callVars

-----------------------------------------------------------------------------
(* Properties.                                                             *)

Holds == IF OfConcats THEN x \o y = m \o n ELSE x \o y = s

\* The axiom says no less than the equation, and no more: it admits every
\* solution, unless an option is left out as a loop (and then check answers
\* UNKNOWN instead of UNSAT); it refuses, if there is one, what is no
\* solution; and an equation that has a solution raises no exception.
SplitIsExact ==
    outcome # "none" =>
        IF Holds THEN loopDetected \/ outcome \in {"admitted", "nothing"}
        ELSE outcome \in {"refused", "nothing", "exception"}

=============================================================================
