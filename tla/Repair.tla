------------------------------- MODULE Repair -------------------------------
(***************************************************************************)
(* Repairer.repair and repairWithSelectedMutantMethods: a best-first       *)
(* search of the mutants of a faulty policy, mutants of mutants included,  *)
(* for one that passes the test suite.                                     *)
(*                                                                         *)
(* A MutantNode is the list of policies from the root of the tree to it,   *)
(* with its totalRank.  The queue is the set of its nodes (two nodes with  *)
(* the same policies and rank cannot be told apart later).  The search     *)
(* diagnoses a policy from the static coverage matrix of                   *)
(* PolicyCoverageFactory, which describes the last policy any node tested. *)
(***************************************************************************)
EXTENDS RepairProblem

VARIABLES
    problem,  \* the repair under way; never changes
    pc,       \* "poll", "test", "check", "rank", "expand", "found", "none", "exception"
    queue,    \* the nodes waiting
    node,     \* the node polled last
    tested,   \* nodes whose testResult is cached
    static,   \* the policy the static matrix and results describe
    suspects, \* suspicionRank: the positions of the node, most suspicious first
    rank      \* the position in suspects the loop is at

vars == <<problem, pc, queue, node, tested, static, suspects, rank>>

Root(p) == [chain |-> <<p.root>>, total |-> 0]
PolicyOf(n) == n.chain[Len(n.chain)]
Layer(n) == Len(n.chain) - 1
ParentPolicy(n) == n.chain[Len(n.chain) - 1]

Failed(p) == problem.failed[p]

\* A child's rank is the position of its fault in the parent's suspicionRank.
Child(n, mutant, r) == [chain |-> Append(n.chain, mutant), total |-> n.total + r]

Init ==
    /\ problem \in Problems
    /\ pc = "poll"
    /\ queue = {Root(problem)}
    /\ node = Root(problem)
    /\ tested = {}
    /\ static = problem.root
    /\ suspects = <<>>
    /\ rank = 1

\* Mutant of Poll: a queue in no order.
PollAny ==
    /\ pc = "poll" /\ queue # {}
    /\ node' \in queue
    /\ queue' = queue \ {node'}
    /\ pc' = "test"
    /\ UNCHANGED <<problem, tested, static, suspects, rank>>

\* queue.poll(): compareTo orders by totalRank, ties in any order.
Poll ==
    /\ pc = "poll" /\ queue # {}
    /\ node' \in {n \in queue : \A other \in queue : n.total <= other.total}
    /\ queue' = queue \ {node'}
    /\ pc' = "test"
    /\ UNCHANGED <<problem, tested, static, suspects, rank>>

Exhausted ==
    /\ pc = "poll" /\ queue = {}
    /\ pc' = "none"
    /\ UNCHANGED <<problem, queue, node, tested, static, suspects, rank>>

\* getTestResult: runs the suite, which fills the static matrix, unless the
\* node has its result; then the conjunction of the verdicts.
TestNode ==
    /\ pc = "test"
    /\ \/ /\ node \notin tested /\ PolicyOf(node) \in problem.crashes
          /\ pc' = "exception"
          /\ UNCHANGED <<tested, static>>
       \/ /\ node \in tested \/ PolicyOf(node) \notin problem.crashes
          /\ tested' = tested \cup {node}
          /\ static' = IF node \in tested THEN static ELSE PolicyOf(node)
          /\ pc' = IF Failed(PolicyOf(node)) = {} THEN "found" ELSE "check"
    /\ UNCHANGED <<problem, queue, node, suspects, rank>>

Promising(n) ==
    Layer(n) = 0 \/ Failed(PolicyOf(n)) \subseteq Failed(ParentPolicy(n))

\* Mutants of CheckNode: a mutant that fails other tests goes on; the parent's
\* tests are run again.
CheckDepthOnly ==
    /\ pc = "check"
    /\ pc' = IF Layer(node) + 1 <= problem.depth THEN "rank" ELSE "poll"
    /\ UNCHANGED <<problem, queue, node, tested, static, suspects, rank>>
CheckRunningParent ==
    /\ pc = "check"
    /\ pc' = IF Promising(node) /\ Layer(node) + 1 <= problem.depth THEN "rank" ELSE "poll"
    /\ static' = IF Layer(node) = 0 THEN static ELSE ParentPolicy(node)
    /\ UNCHANGED <<problem, queue, node, tested, suspects, rank>>

\* isPromising, then the bound on the layer.  The parent's result is cached:
\* its tests are not run again.
CheckNode ==
    /\ pc = "check"
    /\ pc' = IF Promising(node) /\ Layer(node) + 1 <= problem.depth THEN "rank" ELSE "poll"
    /\ UNCHANGED <<problem, queue, node, tested, static, suspects, rank>>

\* The positions of a policy in any order.
Shuffles(p) ==
    {s \in [DOMAIN problem.order[p] -> Positions(problem, p)] :
        Positions(problem, p) = {s[k] : k \in DOMAIN s}}

\* Mutant of RankSuspects: the ranks are counted from 0.
RankFromZero ==
    /\ pc = "rank"
    /\ suspects' = problem.order[static]
    /\ rank' = 0
    /\ pc' = "expand"
    /\ UNCHANGED <<problem, queue, node, tested, static>>

\* getSuspicionRank: from the static matrix, whichever policy that is of, or
\* a shuffle of the node's own positions.
RankSuspects ==
    /\ pc = "rank"
    /\ \/ problem.method = "scored" /\ suspects' = problem.order[static]
       \/ /\ problem.method = "random"
          /\ suspects' \in Shuffles(PolicyOf(node))
    /\ rank' = 1
    /\ pc' = "expand"
    /\ UNCHANGED <<problem, queue, node, tested, static>>

\* Mutant of ExpandPosition: the last suspect is left out.
ExpandAllButLast ==
    /\ pc = "expand" /\ rank <= Len(suspects)
    /\ suspects[rank] \notin problem.broken[PolicyOf(node)]
    /\ queue' = IF rank = Len(suspects) THEN queue
                ELSE queue \cup {Child(node, m, rank) :
                                    m \in problem.mutants[PolicyOf(node)][suspects[rank]]}
    /\ rank' = rank + 1
    /\ UNCHANGED <<problem, pc, node, tested, static, suspects>>

\* One round of the loop over suspicionRank: every mutant at that position
\* joins the queue.
ExpandPosition ==
    /\ pc = "expand" /\ rank <= Len(suspects)
    /\ suspects[rank] \notin problem.broken[PolicyOf(node)]
    /\ queue' = queue \cup {Child(node, m, rank) :
                               m \in problem.mutants[PolicyOf(node)][suspects[rank]]}
    /\ rank' = rank + 1
    /\ UNCHANGED <<problem, pc, node, tested, static, suspects>>

\* generateAllMutants throws: so does repair.
ExpandThrows ==
    /\ pc = "expand" /\ rank <= Len(suspects)
    /\ suspects[rank] \in problem.broken[PolicyOf(node)]
    /\ pc' = "exception"
    /\ UNCHANGED <<problem, queue, node, tested, static, suspects, rank>>

ExpandEnds ==
    /\ pc = "expand" /\ rank > Len(suspects)
    /\ pc' = "poll"
    /\ UNCHANGED <<problem, queue, node, tested, static, suspects, rank>>

Next ==
    \/ Poll \/ Exhausted \/ TestNode \/ CheckNode \/ RankSuspects
    \/ ExpandPosition \/ ExpandThrows \/ ExpandEnds

\* repair runs on its caller's thread to its end.
Spec == Init /\ [][Next]_vars /\ WF_vars(Next)

-----------------------------------------------------------------------------
(* Properties.                                                             *)

Nodes == [chain : Seq(Policies), total : Nat]

\* The state of a search has its types; every node has a policy.
TypeOK ==
    /\ pc \in {"poll", "test", "check", "rank", "expand", "found", "none", "exception"}
    /\ queue \subseteq Nodes /\ node \in Nodes /\ tested \subseteq Nodes
    /\ \A n \in queue \cup {node} : Len(n.chain) > 0
    /\ static \in Policies
    /\ suspects \in Seq(Nat) /\ rank \in Nat \ {0}

\* The search is best first: nothing that waits is cheaper than what was
\* polled, although cheaper nodes may have joined the queue since.
BestFirst == \A n \in queue : n.total >= node.total

\* MutantNode: "make sure to run tests before calling this method".  When
\* the suspects are read off the static matrix, it is the node's own, though
\* other nodes' tests have run since the node was made and its parent's
\* results are asked for in between.
DiagnosesItself ==
    pc \in {"check", "rank"} => static = PolicyOf(node) /\ node \in tested

\* "the failed tests of a mutant is the subset of the failed tests of its
\* parent": along every path of the tree down to a node's parent, a repair
\* step never breaks a test that passed, and no policy on it is a repair.
StepsNeverBreakTests ==
    \A n \in queue \cup {node} : \A k \in 2..(Len(n.chain) - 1) :
        /\ Failed(n.chain[k]) \subseteq Failed(n.chain[k - 1])
        /\ Failed(n.chain[k]) # {}

\* No node lies deeper than maxSearchLayer.
WithinDepth == \A n \in queue \cup {node} : Layer(n) <= problem.depth

Outcome ==
    [kind  |-> IF pc \in {"found", "none", "exception"} THEN pc ELSE "searching",
     chain |-> IF pc = "found" THEN node.chain ELSE <<>>]

\* The search finds a cheapest repair within its depth, gives up only when
\* there is none, and ends.
Cheapest == INSTANCE RepairSpec WITH outcome <- Outcome
FindsCheapestRepair == Cheapest!Spec

=============================================================================
