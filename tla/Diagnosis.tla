------------------------------ MODULE Diagnosis -----------------------------
(***************************************************************************)
(* One diagnosis: SpectrumBasedFaultLocalizer scores every element of a    *)
(* policy by one method, SpectrumBasedDiagnosisResults sorts the elements  *)
(* by score and gives each the rank it has in the worst case.              *)
(*                                                                         *)
(* Elements and positions are numbered from 1.  The code's comparison of   *)
(* doubles is exact when it sorts and has a tolerance when it ranks.       *)
(* Elements with the same counts have the same double.  Fractions that are *)
(* equal but computed from different counts may differ by rounding, so     *)
(* the sort may put them in either order; the tolerance takes them as the  *)
(* same.  Distinct fractions of the suites at hand lie farther apart.      *)
(***************************************************************************)
EXTENDS Spectrum

CONSTANT Spectra    \* the matrices and verdicts to diagnose

ASSUME SpectraAssumption ==
    \A s \in Spectra :
        s \in [cells : Seq(Seq(Cells)), results : Seq(BOOLEAN)] /\ Width(s) \in Nat

VARIABLES
    spectrum,   \* the coverage matrix and the results; never change
    method,     \* the name of the scoring method; never changes
    pc,         \* "score", "sort", "rank", "done", or "failed" by an exception
    scores,     \* coefficients: the score of each element
    order,      \* coefficientList: the elements by decreasing score
    rank,       \* the rank field of the element at each position, 0 when unset
    index       \* the position rankSuspicion has come down to

vars == <<spectrum, method, pc, scores, order, rank, index>>

Size == Width(spectrum)

Init ==
    /\ spectrum \in Spectra
    /\ method \in Methods
    /\ pc = "score"
    /\ scores = <<>>
    /\ order = <<>>
    /\ rank = <<>>
    /\ index = 0

\* Without a row matrix[0] is out of bounds; a row without a verdict makes
\* apq read beyond verdicts.
Scorable ==
    /\ Rows(spectrum) # {}
    /\ Size > 0 => Rows(spectrum) \subseteq DOMAIN spectrum.results

ScoreElements ==
    /\ pc = "score"
    /\ \/ /\ Scorable
          /\ pc' = "sort"
          /\ scores' = [j \in 1..Size |-> Score(method, Counts(spectrum, j))]
       \/ /\ ~Scorable
          /\ pc' = "failed"
          /\ UNCHANGED scores
    /\ UNCHANGED <<spectrum, method, order, rank, index>>

\* compareTo: the higher score comes first; Collections.sort is stable.
Precedes(e, f) ==
    \/ Higher(scores[e], scores[f])
    \/ Same(scores[e], scores[f]) /\ (e < f \/ Counts(spectrum, e) # Counts(spectrum, f))

Sort ==
    /\ pc = "sort"
    /\ pc' = "rank"
    /\ order' \in {o \in [1..Size -> 1..Size] :
                      \A p, q \in 1..Size : p < q => o[p] # o[q] /\ Precedes(o[p], o[q])}
    /\ rank' = [p \in 1..Size |-> 0]
    /\ index' = Size
    /\ UNCHANGED <<spectrum, method, scores>>

\* Mutant of RankLast: the rank is taken for a position numbered from 0.
RankLastOffByOne ==
    /\ pc = "rank" /\ index = Size
    /\ \/ Size = 0 /\ pc' = "failed" /\ UNCHANGED <<rank, index>>
       \/ /\ Size > 0
          /\ rank' = [rank EXCEPT ![Size] = Size + 1]
          /\ index' = Size - 1
          /\ pc' = IF Size = 1 THEN "done" ELSE "rank"
    /\ UNCHANGED <<spectrum, method, scores, order>>

\* rankSuspicion reads get(size - 1) of a list that may be empty.
RankLast ==
    /\ pc = "rank" /\ index = Size
    /\ \/ Size = 0 /\ pc' = "failed" /\ UNCHANGED <<rank, index>>
       \/ /\ Size > 0
          /\ rank' = [rank EXCEPT ![Size] = Size]
          /\ index' = Size - 1
          /\ pc' = IF Size = 1 THEN "done" ELSE "rank"
    /\ UNCHANGED <<spectrum, method, scores, order>>

\* Mutant of Tied: doubles compared without a tolerance.
TiedExactly(p) == Counts(spectrum, order[p]) = Counts(spectrum, order[p + 1])

\* approximateEqual on neighbours.
Tied(p) == Same(scores[order[p]], scores[order[p + 1]])

\* Mutant of RankNext: a tie keeps the best position.
RankBestCase ==
    /\ pc = "rank" /\ index \in 1..(Size - 1)
    /\ rank' = [rank EXCEPT ![index] = index]
    /\ index' = index - 1
    /\ pc' = IF index = 1 THEN "done" ELSE "rank"
    /\ UNCHANGED <<spectrum, method, scores, order>>

\* One round of the loop from the last but one position to the first.
RankNext ==
    /\ pc = "rank" /\ index \in 1..(Size - 1)
    /\ rank' = [rank EXCEPT ![index] = IF Tied(index) THEN rank[index + 1] ELSE index]
    /\ index' = index - 1
    /\ pc' = IF index = 1 THEN "done" ELSE "rank"
    /\ UNCHANGED <<spectrum, method, scores, order>>

Next == ScoreElements \/ Sort \/ RankLast \/ RankNext

Spec == Init /\ [][Next]_vars /\ WF_vars(Next)

-----------------------------------------------------------------------------
(* Properties.                                                             *)

Fractions == [num : Int, den : Nat \ {0}]

\* The state of a diagnosis has its types: scores for all elements from the
\* sort on, ranks only for the positions the loop has passed.
TypeOK ==
    /\ spectrum \in Spectra /\ method \in Methods
    /\ pc \in {"score", "sort", "rank", "done", "failed"}
    /\ index \in 0..Size
    /\ pc \in {"sort", "rank", "done"} => DOMAIN scores = 1..Size
    /\ pc \in {"rank", "done"} =>
          /\ order \in [1..Size -> 1..Size]
          /\ rank \in [1..Size -> 0..Size]

\* rankSuspicion: the rank of a position is the last position of the run of
\* ties it lies in, at every round of the loop; a rank once given is final.
RankEndsItsTie ==
    pc \in {"rank", "done"} => \A p \in (index + 1)..Size :
        /\ rank[p] \in p..Size
        /\ \A q \in p..(rank[p] - 1) : Tied(q)
        /\ rank[p] < Size => ~Tied(rank[p])

\* getNumberOfElementsToInspect: the rank of the faulty element.
ElementsToInspect(bug) == rank[CHOOSE p \in 1..Size : order[p] = bug]

\* "we want to know worst case performance": an element's rank counts the
\* elements that an inspection by decreasing score may look at up to it,
\* however rounding has ordered equal scores.
RankIsWorstCase ==
    pc = "done" => \A e \in 1..Size :
        ElementsToInspect(e) =
            Cardinality({f \in 1..Size : ~Higher(scores[e], scores[f])})

\* The element at least as many failed tests and at most as many passed tests
\* touch is never ranked behind the other, whichever method computes it and
\* whatever its denominators are.
DominantIsNotOutranked ==
    pc = "done" => \A e, f \in 1..Size :
        LET a == Counts(spectrum, e)
            b == Counts(spectrum, f)
        IN  a.a11 >= b.a11 /\ a.a10 <= b.a10 => ElementsToInspect(e) <= ElementsToInspect(f)

=============================================================================
