------------------------------- MODULE Search -------------------------------
(***************************************************************************)
(* The search for the value of a free variable (strTheory.cpp).  When the  *)
(* core has decided everything and a string variable x still has no value, *)
(* the plug-in offers values through fresh variables: length testers,      *)
(* each of which offers LenStep lengths or "more", and, for a length,      *)
(* value testers, each of which offers valStep strings or "more".  The     *)
(* disjunction of a tester is an axiom of the current scope and is lost    *)
(* when the core backtracks; the maps that say which testers there are     *)
(* stay.  The core decides testers one by one, is told in cb_new_eq, and   *)
(* refutes offers that the rest of the formula excludes.                   *)
(***************************************************************************)
EXTENDS Naturals, Sequences, FiniteSets

CONSTANTS
    Problems,       \* what charSet, step and formula may be
    LenStep,        \* distance of genLenTestOptions
    More,           \* the string "more"
    None,           \* no value
    MaxElsewhere,   \* bound on decisions about anything but x
    MaxRestarts     \* bound on restarts of the core

\* Length testers have a number, value testers a length and a number; a choice
\* gives a tester one of its offers or "more".
Testers == ({"len"} \X Nat) \cup ({"val"} \X Nat \X Nat)
Choice == Testers \X (Nat \cup {More})

\* setAlphabet has 255 characters, or 3.  With a single one no digit would ever
\* carry into the last, and getNextValEncode would not see a length used up.
ASSUME SearchAssumption ==
    /\ LenStep \in Nat \ {0} /\ MaxElsewhere \in Nat /\ MaxRestarts \in Nat
    /\ More \notin Nat /\ None \notin Nat \cup {More} \cup Testers \cup Choice
    /\ \A p \in Problems : /\ p.charSetSize \in Nat \ {0, 1} /\ p.valStep \in Nat \ {0}
                           /\ p.maxLen \in Nat
                           /\ \A s \in p.accepted : /\ Len(s) \in 0..p.maxLen
                                                     /\ s \in [1..Len(s) -> 0..p.charSetSize - 1]

VARIABLES
    problem,        \* charSetSize, valStep, and the formula: the strings it accepts
    lenTesters,     \* fvarLenTesterMap[x]: how many there are
    valTesters,     \* fvarValueTesterMap[x]: how many there are of each length
    valRangeMap,    \* the last encoding each value tester offers
    scopes,         \* the core's scopes: the choice that opened each, and its axioms
    refuted,        \* choices the core has learned to be impossible
    restarts,       \* restarts so far
    verdict         \* what the solver answers

vars == <<problem, lenTesters, valTesters, valRangeMap, scopes, refuted, restarts, verdict>>
maps == <<lenTesters, valTesters, valRangeMap>>

\* Lengths that are ever offered.
Lengths == 0..problem.maxLen + 2 * LenStep
LenTester(k) == <<"len", k>>
ValTester(n, i) == <<"val", n, i>>

-----------------------------------------------------------------------------
(* Encodings: the digits of a string, last character first, and a digit    *)
(* that tells that the strings of the length are used up.                  *)

\* getNextValEncode
NextValEncode(base) ==
    [i \in DOMAIN base |->
        LET carry == IF \A j \in 1..i - 1 : base[j] = problem.charSetSize - 1 THEN 1 ELSE 0
        IN (base[i] + carry) % problem.charSetSize]
Covered(encoding) == encoding[Len(encoding)] > 0

\* genValString
ValString(encoding) ==
    LET n == Len(encoding) - 1 IN [p \in 1..n |-> encoding[n + 1 - p]]

\* Mutant of FirstEncoding: a tester starts with the last offer of the one
\* before it.
FirstEncodingAgain(n, i) ==
    IF i = 0 THEN [d \in 1..n + 1 |-> 0] ELSE valRangeMap[ValTester(n, i - 1)]

\* Mutant of FirstEncoding: it goes on after the tester made last.
FirstEncodingAfterLast(n, i) ==
    IF valTesters[n] = 0 THEN [d \in 1..n + 1 |-> 0]
    ELSE NextValEncode(valRangeMap[ValTester(n, valTesters[n] - 1)])

FirstEncoding(n, i) ==
    IF i = 0 THEN [d \in 1..n + 1 |-> 0] ELSE NextValEncode(valRangeMap[ValTester(n, i - 1)])

\* The encodings from the first one on, and how many of them a tester offers.
Encodings(n, i) ==
    LET run[k \in 0..problem.valStep] ==
            IF k = 0 THEN FirstEncoding(n, i) ELSE NextValEncode(run[k - 1])
    IN run
Offered(n, i) ==
    LET run == Encodings(n, i)
    IN CHOOSE k \in 0..problem.valStep :
           /\ \A j \in 0..k - 1 : ~Covered(run[j])
           /\ Covered(run[k]) \/ k = problem.valStep

-----------------------------------------------------------------------------
(* Axioms: if the choices of the premise are made, the tester has one of   *)
(* the offers, or is "more".                                               *)

\* genLenTestOptions for tester k; an offer is the length it stands for.
LenOptions(k) ==
    [tester |-> LenTester(k),
     premise |-> {<<LenTester(j), More>> : j \in 1..k - 1},
     offers |-> [l \in (k - 1) * LenStep..k * LenStep - 1 |-> l],
     more |-> TRUE]

\* Mutants of ValOptions: "more" is always offered, or never.
ValOptionsForever(n, i) ==
    [tester |-> ValTester(n, i),
     premise |-> {<<LenTester((n \div LenStep) + 1), n>>}
                 \cup {<<ValTester(n, j), More>> : j \in 0..i - 1},
     offers |-> [o \in {i * problem.valStep + k : k \in 0..Offered(n, i) - 1} |->
                    ValString(Encodings(n, i)[o - i * problem.valStep])],
     more |-> TRUE]
ValOptionsOneTester(n, i) ==
    [tester |-> ValTester(n, i),
     premise |-> {<<LenTester((n \div LenStep) + 1), n>>}
                 \cup {<<ValTester(n, j), More>> : j \in 0..i - 1},
     offers |-> [o \in {i * problem.valStep + k : k \in 0..Offered(n, i) - 1} |->
                    ValString(Encodings(n, i)[o - i * problem.valStep])],
     more |-> FALSE]

\* genValOptions for tester i of length n; an offer is the string it stands
\* for.  There is "more" if the encoding after the last offer is one.
ValOptions(n, i) ==
    [tester |-> ValTester(n, i),
     premise |-> {<<LenTester((n \div LenStep) + 1), n>>}
                 \cup {<<ValTester(n, j), More>> : j \in 0..i - 1},
     offers |-> [o \in {i * problem.valStep + k : k \in 0..Offered(n, i) - 1} |->
                    ValString(Encodings(n, i)[o - i * problem.valStep])],
     more |-> ~Covered(Encodings(n, i)[Offered(n, i)])]

\* What a call adds to the maps, and the axioms it asserts.
Outcome(lens, vals, ranges, axioms) ==
    [lenTesters |-> lens, valTesters |-> vals, ranges |-> ranges, axioms |-> axioms,
     crashed |-> FALSE]
Nothing == Outcome(lenTesters, valTesters, valRangeMap, {})
Crash == [Nothing EXCEPT !.crashed = TRUE]

\* Mutant of WithValTesters: a tester that exists is counted again.
WithValTestersCounted(n, testers) ==
    LET last(i) == Encodings(n, i)[Offered(n, i) - 1]
        made == {ValTester(n, i) : i \in testers}
    IN Outcome(lenTesters, [valTesters EXCEPT ![n] = @ + Cardinality(testers)],
               [t \in DOMAIN valRangeMap \cup made |->
                   IF t \in made THEN last(t[3]) ELSE valRangeMap[t]],
               {ValOptions(n, i) : i \in testers})

\* The options of some value testers of length n are asserted, for the first
\* time or again.  Without any offer options[-1] is read.
WithValTesters(n, testers) ==
    LET last(i) == Encodings(n, i)[Offered(n, i) - 1]
        made == {ValTester(n, i) : i \in testers}
    IN IF \E i \in testers : Offered(n, i) = 0 THEN Crash
       ELSE Outcome(lenTesters,
                    [valTesters EXCEPT ![n] = @ + Cardinality({i \in testers : i >= @})],
                    [t \in DOMAIN valRangeMap \cup made |->
                        IF t \in made THEN last(t[3]) ELSE valRangeMap[t]],
                    {ValOptions(n, i) : i \in testers})

-----------------------------------------------------------------------------
(* The handlers.  value[t] is what get_eqc_value tells of tester t.        *)

Choices == {scopes[s].choice : s \in 1..Len(scopes)} \ {None}
EqcValue(t) ==
    IF \E c \in Choices : c[1] = t THEN (CHOOSE c \in Choices : c[1] = t)[2] ELSE None

\* Mutant of FreeVarOptions: value testers of an earlier search are not
\* asserted again.
FreeVarOptionsOnce(n, tester, value) ==
    IF valTesters[n] = 0 THEN WithValTesters(n, {0})
    ELSE IF value = More THEN WithValTesters(n, {tester[3] + 1})
    ELSE Nothing

\* genFreeVarOptions: the length is n; tester and value are those cb_new_eq
\* tells, or None.
FreeVarOptions(n, tester, value) ==
    LET met == IF tester # None THEN tester[3] ELSE valTesters[n]
        again == {j \in 0..met - 1 : EqcValue(ValTester(n, j)) = None}
    IN IF valTesters[n] = 0 THEN WithValTesters(n, {0})
       ELSE WithValTesters(n, again \cup IF value = More THEN {met + 1} ELSE {})

\* genLenValOptionsForFreeVar: the first length tester that is not "more"
\* decides.  It has no value yet, or the one cb_new_eq tells, or its class's.
LenValOptions(tester, value) ==
    LET known(k) == IF LenTester(k) = tester THEN value ELSE EqcValue(LenTester(k))
        first == CHOOSE k \in 1..lenTesters + 1 :
                     /\ \A j \in 1..k - 1 : known(j) = More
                     /\ k <= lenTesters => known(k) # More
    IN IF first <= lenTesters /\ known(first) # None
       THEN FreeVarOptions(known(first), None, None)
       ELSE Outcome(IF first > lenTesters THEN first ELSE lenTesters,
                    valTesters, valRangeMap, {LenOptions(first)})

\* moreValueTests: the length is that of the first length tester that has one,
\* whichever length the value tester is of.  Without any, the axiom is about a
\* null term; with another, the loop runs past the testers of that length.
MoreValueTests(tester) ==
    LET settled == {k \in 1..lenTesters : EqcValue(LenTester(k)) \notin {None, More}}
        first == CHOOSE k \in settled : \A j \in settled : k <= j
    IN IF settled = {} THEN Crash
       ELSE IF EqcValue(LenTester(first)) # tester[2] THEN Crash
       ELSE FreeVarOptions(tester[2], tester, More)

\* freeVarAttempt: the tester is about to get the value.
FreeVarAttempt(tester, value) ==
    IF tester[1] = "len" THEN LenValOptions(tester, value)
    ELSE IF value = More THEN MoreValueTests(tester)
    ELSE Nothing

-----------------------------------------------------------------------------
(* The core.                                                               *)

Axioms == UNION {scopes[s].axioms : s \in 1..Len(scopes)}
Open == {ax \in Axioms : ax.premise \subseteq Choices /\ EqcValue(ax.tester) = None}
Options(ax) == {<<ax.tester, o>> : o \in DOMAIN ax.offers \cup IF ax.more THEN {More} ELSE {}}

\* What the rest of the formula excludes: lengths beyond its bound, and
\* strings it does not accept.
Impossible(choice) ==
    LET t == choice[1]
        o == choice[2]
    IN IF t[1] = "len" THEN (IF o = More THEN t[2] * LenStep ELSE o) > problem.maxLen
       ELSE o # More /\ \E ax \in Axioms : ax.tester = t /\ o \in DOMAIN ax.offers
                                           /\ ax.offers[o] \notin problem.accepted

\* What cannot all stay chosen: a choice that contradicts the formula, or those
\* on which an axiom rests of which every option is refuted.
Reasons ==
    {{c} : c \in {d \in Choices : Impossible(d)}}
    \cup {ax.premise : ax \in {a \in Open : Options(a) \subseteq refuted}}

\* The maps after a call, which crashes or asserts its axioms in scope s.
Done(outcome, stack) ==
    /\ lenTesters' = outcome.lenTesters
    /\ valTesters' = outcome.valTesters
    /\ valRangeMap' = outcome.ranges
    /\ scopes' = [stack EXCEPT ![Len(stack)].axioms = @ \cup outcome.axioms]
    /\ verdict' = IF outcome.crashed THEN "crashed" ELSE verdict

\* The core decides a tester and tells the plug-in.
Decide ==
    /\ verdict = "none" /\ Reasons = {}
    /\ \E ax \in Open : \E choice \in Options(ax) \ refuted :
           Done(FreeVarAttempt(choice[1], choice[2]),
                Append(scopes, [choice |-> choice, axioms |-> {}]))
    /\ UNCHANGED <<problem, refuted, restarts>>

\* It decides something else.
DecideElsewhere ==
    /\ verdict = "none" /\ Reasons = {}
    /\ Cardinality({s \in 2..Len(scopes) : scopes[s].choice = None}) < MaxElsewhere
    /\ scopes' = Append(scopes, [choice |-> None, axioms |-> {}])
    /\ UNCHANGED <<maps, problem, refuted, restarts, verdict>>

\* It goes back to before the last choice of a reason and learns that this
\* choice is impossible.
Backtrack ==
    /\ verdict = "none"
    /\ \E reason \in Reasons, s \in 2..Len(scopes) :
           /\ scopes[s].choice \in reason
           /\ \A r \in s + 1..Len(scopes) : scopes[r].choice \notin reason
           /\ scopes' = SubSeq(scopes, 1, s - 1)
           /\ refuted' = refuted \cup {scopes[s].choice}
    /\ UNCHANGED <<maps, problem, restarts, verdict>>

\* Nothing needs to be chosen for the conflict.
GiveUp ==
    /\ verdict = "none" /\ {} \in Reasons
    /\ verdict' = "unsat"
    /\ UNCHANGED <<maps, problem, scopes, refuted, restarts>>

\* It restarts, and keeps what it learned.
Restart ==
    /\ verdict = "none" /\ Len(scopes) > 1 /\ restarts < MaxRestarts
    /\ scopes' = SubSeq(scopes, 1, 1)
    /\ restarts' = restarts + 1
    /\ UNCHANGED <<maps, problem, refuted, verdict>>

\* A value tester has given x its value.
HasValue == \E ax \in Axioms : ax.tester[1] = "val" /\ EqcValue(ax.tester) \in DOMAIN ax.offers

\* Mutant of FinalCheck: a variable that has testers is left to the core.
FinalCheckOnce ==
    /\ verdict = "none" /\ Open = {} /\ Reasons = {}
    /\ IF HasValue THEN verdict' = "sat" /\ UNCHANGED <<maps, scopes>>
       ELSE IF lenTesters > 0 THEN UNCHANGED <<maps, scopes, verdict>>
       ELSE Done(LenValOptions(None, None), scopes)
    /\ UNCHANGED <<problem, refuted, restarts>>

\* cb_final_check with x as the only free variable: nothing is left to decide.
\* If x has a value, or nothing is added, the answer stands.
FinalCheck ==
    /\ verdict = "none" /\ Open = {} /\ Reasons = {}
    /\ IF HasValue
       THEN verdict' = "sat" /\ UNCHANGED <<maps, scopes>>
       ELSE LET outcome == LenValOptions(None, None)
            IN IF outcome.axioms \subseteq Axioms
               THEN verdict' = "sat" /\ UNCHANGED <<maps, scopes>>
               ELSE Done(outcome, scopes)
    /\ UNCHANGED <<problem, refuted, restarts>>

Init ==
    /\ problem \in Problems
    /\ lenTesters = 0 /\ valTesters = [n \in Lengths |-> 0]
    /\ valRangeMap = [t \in {} |-> <<>>]
    /\ scopes = <<[choice |-> None, axioms |-> {}]>>
    /\ refuted = {} /\ restarts = 0 /\ verdict = "none"

Next == Decide \/ DecideElsewhere \/ Backtrack \/ GiveUp \/ Restart \/ FinalCheck
Spec == Init /\ [][Next]_vars /\ WF_vars(Next)

-----------------------------------------------------------------------------
(* Properties.                                                             *)

StringsOf(n) == [1..n -> 0..problem.charSetSize - 1]

\* The testers there are have a range each, and the scopes' choices are
\* choices of testers.
TypeOK ==
    /\ problem \in Problems
    /\ lenTesters \in Nat /\ restarts \in 0..MaxRestarts
    /\ valTesters \in [Lengths -> Nat]
    /\ DOMAIN valRangeMap =
           UNION {{ValTester(n, i) : i \in 0..valTesters[n] - 1} : n \in Lengths}
    /\ refuted \subseteq Choice
    /\ \A s \in 1..Len(scopes) : scopes[s].choice \in Choice \cup {None}
    /\ verdict \in {"none", "sat", "unsat", "crashed"}

\* The strings that an axiom in force offers x.
ValAxioms == {ax \in Axioms : ax.tester[1] = "val"}
StringsIn(ax) == {ax.offers[o] : o \in DOMAIN ax.offers}

\* Each string of a length is offered once, over all of its testers, and when
\* a tester offers no "more" none is left.  (getNextValEncode goes on where the
\* tester before stopped, however often the testers were lost and asserted
\* again.)
EachStringOnce ==
    \A ax \in ValAxioms :
        LET n == ax.tester[2]
            before == {a \in ValAxioms : a.tester[2] = n /\ a.tester[3] < ax.tester[3]}
        IN /\ Cardinality(StringsIn(ax)) = Cardinality(DOMAIN ax.offers)
           /\ StringsIn(ax) \subseteq StringsOf(n)
           /\ \A a \in before : StringsIn(a) \cap StringsIn(ax) = {}
           /\ ax.premise \subseteq Choices /\ ~ax.more =>
                  UNION {StringsIn(a) : a \in before \cup {ax}} = StringsOf(n)

\* The plug-in never indexes an empty list of options, and never asks for the
\* length of a value tester when it has none or another one.
NeverCrashes == verdict # "crashed"

\* The solver answers sat with a value for x that the formula accepts: no final
\* check leaves x without one although it adds nothing (cb_final_check
\* always returns TRUE).
SatHasValue ==
    verdict = "sat" =>
        \E ax \in ValAxioms : /\ EqcValue(ax.tester) \in DOMAIN ax.offers
                              /\ ax.offers[EqcValue(ax.tester)] \in problem.accepted

\* It answers unsat only if the formula accepts nothing: no string is lost with
\* the axioms that backtracking takes away.
UnsatMeansNone == verdict = "unsat" => problem.accepted = {}

\* The verdict is right, whichever it is.
VerdictIsRight == SatHasValue /\ UnsatMeansNone

\* A value tester means the same strings for good: lemmas the core learned
\* about its values outlive its axiom (valRangeMap).
OffersNeverChange ==
    [][\A t \in DOMAIN valRangeMap : valRangeMap'[t] = valRangeMap[t]]_vars

\* The search ends: lengths and strings are finite in number, and what was
\* refuted is not offered again.
Answers == <>(verdict # "none")

=============================================================================
