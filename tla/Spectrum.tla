------------------------------ MODULE Spectrum ------------------------------
(***************************************************************************)
(* Suspicion scores of policy elements.  A spectrum is the coverage matrix *)
(* of a test suite (one row of cells per test, one cell per element) with  *)
(* the list of the tests' verdicts (TRUE: passed).  The scores are         *)
(* doubles in the code and exact fractions here; the roots of euclid,      *)
(* ochiai and ochiai2 are left out, which keeps their order.               *)
(***************************************************************************)
EXTENDS Integers, Sequences, FiniteSets

\* TargetCoverage and RuleCoverage, by what they record.
TargetCells == {"MATCH", "NO_MATCH", "INDETERMINATE"}
RuleCells   == {"EFFECT", "NA", "RULE_INDETERMINATE"}
Cells       == TargetCells \cup RuleCells

Rows(spectrum) == DOMAIN spectrum.cells

\* The matrix is as wide as the longest row.
Width(spectrum) ==
    CHOOSE n \in {0} \cup {Len(spectrum.cells[t]) : t \in Rows(spectrum)} :
        \A t \in Rows(spectrum) : Len(spectrum.cells[t]) <= n
Elements(spectrum) == 1..Width(spectrum)

\* Matrix entry 1: the target matched, or the rule had its effect.
Touched(spectrum, t, j) ==
    j <= Len(spectrum.cells[t]) /\ spectrum.cells[t][j] \in {"MATCH", "EFFECT"}

\* apq: how many tests touch the element or not, and pass or not.
Apq(spectrum, touched, passed, j) ==
    Cardinality({t \in Rows(spectrum) :
                    Touched(spectrum, t, j) = touched /\ spectrum.results[t] = passed})

Counts(spectrum, j) ==
    [a11 |-> Apq(spectrum, TRUE, FALSE, j), a01 |-> Apq(spectrum, FALSE, FALSE, j),
     a10 |-> Apq(spectrum, TRUE, TRUE, j),  a00 |-> Apq(spectrum, FALSE, TRUE, j)]

-----------------------------------------------------------------------------
(* Fractions, with a positive denominator.  Every method answers 0 instead *)
(* of dividing by 0.                                                       *)
Over(n, d) == IF d = 0 THEN [num |-> 0, den |-> 1] ELSE [num |-> n, den |-> d]

Higher(x, y) == x.num * y.den > y.num * x.den
Same(x, y)   == x.num * y.den = y.num * x.den

Tests(a) == a.a11 + a.a10 + a.a01 + a.a00
Agree(a) == a.a11 + a.a00
Differ(a) == a.a10 + a.a01

Cbi(a) == Over(a.a11 * Tests(a) - (a.a11 + a.a01) * (a.a11 + a.a10), (a.a11 + a.a10) * Tests(a))
Hamann(a) == Over(Agree(a) - Differ(a), Tests(a))
SimpleMatching(a) == Over(Agree(a), Tests(a))
Sokal(a) == Over(2 * Agree(a), 2 * Agree(a) + Differ(a))
RogersTanimoto(a) == Over(Agree(a), Agree(a) + 2 * Differ(a))
Euclid(a) == Over(Agree(a), 1)
Anderberg(a) == Over(a.a11, a.a11 + 2 * Differ(a))
SorensenDice(a) == Over(a.a11, 2 * a.a11 + Differ(a))
Goodman(a) == Over(2 * a.a11 - Differ(a), 2 * a.a11 + Differ(a))
Jaccard(a) == Over(a.a11, a.a11 + Differ(a))
Naish2(a) == Over(a.a11 * (a.a10 + a.a00 + 1) - a.a10, a.a10 + a.a00 + 1)
Tarantula(a) ==
    LET x == Over(a.a11, a.a11 + a.a01)
        y == Over(a.a10, a.a10 + a.a00)
    IN  Over(x.num * y.den, x.num * y.den + y.num * x.den)
Ochiai(a) == Over(a.a11 * a.a11, (a.a11 + a.a01) * (a.a11 + a.a10))

\* Mutant of Ochiai2: the product of the wrong pair of counts.
Ochiai2WrongProduct(a) ==
    Over(a.a10 * a.a10 * a.a01 * a.a01,
         (a.a11 + a.a10) * (a.a00 + a.a01) * (a.a11 + a.a01) * (a.a10 + a.a00))

Ochiai2(a) ==
    Over(a.a11 * a.a11 * a.a00 * a.a00,
         (a.a11 + a.a10) * (a.a00 + a.a01) * (a.a11 + a.a01) * (a.a10 + a.a00))

Methods == {"cbi", "hamann", "simpleMatching", "sokal", "rogersTanimoto", "euclid",
            "anderberg", "sorensenDice", "goodman", "jaccard", "naish2", "tarantula",
            "ochiai", "ochiai2"}

\* applyFaultLocalizeMethod finds the method by its name.
Score(method, a) ==
    CASE method = "cbi" -> Cbi(a)
      [] method = "hamann" -> Hamann(a)
      [] method = "simpleMatching" -> SimpleMatching(a)
      [] method = "sokal" -> Sokal(a)
      [] method = "rogersTanimoto" -> RogersTanimoto(a)
      [] method = "euclid" -> Euclid(a)
      [] method = "anderberg" -> Anderberg(a)
      [] method = "sorensenDice" -> SorensenDice(a)
      [] method = "goodman" -> Goodman(a)
      [] method = "jaccard" -> Jaccard(a)
      [] method = "naish2" -> Naish2(a)
      [] method = "tarantula" -> Tarantula(a)
      [] method = "ochiai" -> Ochiai(a)
      [] OTHER -> Ochiai2(a)

=============================================================================
