--------------------------- MODULE RepairProblem ----------------------------
(***************************************************************************)
(* The input of a repair: the faulty policy, what the test suite says of   *)
(* it and of every mutant within reach, where the diagnosis of each of     *)
(* them looks first, and which mutants Mutator makes at each position.     *)
(***************************************************************************)
EXTENDS Naturals, Sequences, FiniteSets

CONSTANTS
    Policies,   \* the faulty policy and the mutants
    Tests,      \* the tests of the suite
    Problems    \* the repairs to make: records that satisfy IsProblem

\* failed: the tests a policy fails.  crashes: the policies that end runTests
\* with an exception.  order: the positions getIndexRankedBySuspicion lists
\* for the matrix of a policy; at least its Target is one, since the tests of
\* a policy without a Target crash.  mutants: what generateAllMutants, or
\* generateSelectedMutants, returns for a position; broken: the positions of
\* a policy where it throws.
Positions(problem, p) == {problem.order[p][k] : k \in DOMAIN problem.order[p]}

IsProblem(problem) ==
    /\ problem.root \in Policies /\ problem.failed \in [Policies -> SUBSET Tests]
    /\ problem.crashes \subseteq Policies
    /\ problem.order \in [Policies -> Seq(Nat)]
    /\ DOMAIN problem.mutants = Policies
    /\ \A p \in Policies :
          /\ problem.order[p] # <<>>
          /\ Positions(problem, p) \subseteq DOMAIN problem.mutants[p]
          /\ \A k \in DOMAIN problem.mutants[p] : problem.mutants[p][k] \subseteq Policies
    /\ problem.broken \in [Policies -> SUBSET Nat]
    /\ problem.depth \in Nat
    /\ problem.method \in {"scored", "random"}

ASSUME ProblemsAssumption == \A problem \in Problems : IsProblem(problem)

=============================================================================
