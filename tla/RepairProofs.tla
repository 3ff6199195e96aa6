---------------------------- MODULE RepairProofs ----------------------------
(***************************************************************************)
(* The search of Repair is best first, diagnoses every policy from its own *)
(* coverage, stays within its depth and never goes on from a mutant that   *)
(* breaks a test: for every problem, however large.  What a wrong static   *)
(* matrix would do shows in the argument: the suspects are positions of    *)
(* the node, and so its mutants are policies, only because the node is     *)
(* diagnosed from itself.  Then that it answers what RepairSpec promises:  *)
(* of every path of mutants the search has a node that is no dearer.       *)
(***************************************************************************)
EXTENDS Repair, WellFoundedInduction, TLAPS

\* What is known of the polled node at each place of the loop.
NodeInv ==
    /\ pc \in {"check", "rank", "expand"} => Failed(PolicyOf(node)) # {}
    /\ pc \in {"rank", "expand"} => Promising(node) /\ Layer(node) + 1 <= problem.depth
    /\ pc = "expand" =>
          \A k \in DOMAIN suspects : suspects[k] \in Positions(problem, PolicyOf(node))

\* No node is tested twice: what was tested was not dearer than the polled
\* node, and what joins the queue is.
FreshInv ==
    /\ \A n \in tested : n.total <= node.total
    /\ queue \cap tested = {}
    /\ pc = "test" => node \notin tested \cup queue

IInv ==
    /\ problem \in Problems
    /\ TypeOK
    /\ BestFirst
    /\ DiagnosesItself
    /\ StepsNeverBreakTests
    /\ WithinDepth
    /\ NodeInv
    /\ FreshInv

\* The last policy of a node is a policy.
LEMMA PolicyOfNode ==
    ASSUME NEW n \in Nodes, Len(n.chain) > 0
    PROVE  PolicyOf(n) \in Policies /\ Layer(n) \in Nat
<1>1. n.chain \in Seq(Policies) /\ Len(n.chain) \in Nat
    BY DEF Nodes
<1>2. Len(n.chain) \in 1..Len(n.chain)
    BY <1>1
<1> QED BY <1>1, <1>2 DEF PolicyOf, Layer

LEMMA InitIInv == Init => IInv
<1> SUFFICES ASSUME Init PROVE IInv
    OBVIOUS
<1> DEFINE root == Root(problem)
<1>1. problem \in Problems /\ problem.root \in Policies /\ problem.depth \in Nat
    BY ProblemsAssumption DEF Init, IsProblem
<1>2. <<problem.root>> \in Seq(Policies) /\ Len(<<problem.root>>) = 1
    BY <1>1
<1>3. root \in Nodes /\ root.chain = <<problem.root>> /\ root.total = 0 /\ Layer(root) = 0
    BY <1>1, <1>2 DEF Root, Nodes, Layer
<1>4. queue = {root} /\ node = root /\ pc = "poll" /\ tested = {} /\ suspects = <<>> /\ rank = 1
    BY DEF Init
<1>5. TypeOK
    <2>1. static \in Policies /\ suspects \in Seq(Nat) /\ rank \in Nat \ {0}
        BY <1>1 DEF Init
    <2>2. \A n \in queue \cup {node} : Len(n.chain) > 0
        <3>1. Len(root.chain) > 0
            BY <1>2, <1>3
        <3> HIDE DEF root
        <3> QED BY <1>4, <3>1
    <2> QED BY <1>3, <1>4, <2>1, <2>2 DEF TypeOK
<1>6. BestFirst /\ WithinDepth
    BY <1>1, <1>3, <1>4 DEF BestFirst, WithinDepth
<1>7. StepsNeverBreakTests
    BY <1>2, <1>3, <1>4 DEF StepsNeverBreakTests
<1>8. DiagnosesItself /\ NodeInv /\ FreshInv
    BY <1>4 DEF DiagnosesItself, NodeInv, FreshInv
<1> QED BY <1>1, <1>5, <1>6, <1>7, <1>8 DEF IInv

\* Polling takes a cheapest node.
LEMMA PollKeepsIInv == ASSUME IInv, Poll PROVE IInv'
<1>1. /\ problem' = problem /\ queue' \subseteq queue /\ node' \in queue /\ pc' = "test"
      /\ \A n \in queue : node'.total <= n.total
      /\ UNCHANGED <<tested, static, suspects, rank>>
    BY DEF Poll
<1>2. queue \subseteq Nodes
    BY DEF IInv, TypeOK
<1>3. TypeOK'
    BY <1>1, <1>2 DEF IInv, TypeOK
<1>4. BestFirst'
    BY <1>1, <1>2 DEF BestFirst, Nodes
<1>5. StepsNeverBreakTests' /\ WithinDepth'
    BY <1>1 DEF IInv, StepsNeverBreakTests, WithinDepth, Failed, Layer
<1>6. DiagnosesItself' /\ NodeInv'
    BY <1>1 DEF DiagnosesItself, NodeInv
<1>7. FreshInv'
    <2>1. tested \subseteq Nodes /\ node \in Nodes /\ node' \in Nodes
        BY <1>1, <1>2 DEF IInv, TypeOK
    <2>2. \A n \in tested : n.total <= node.total
        BY DEF IInv, FreshInv
    <2>3. node.total <= node'.total
        BY <1>1 DEF IInv, BestFirst
    <2>4. \A n \in tested : n.total <= node'.total
        BY <2>1, <2>2, <2>3 DEF Nodes
    <2>5. node' \notin tested \cup queue' /\ queue' \cap tested = {}
        BY <1>1 DEF IInv, FreshInv, Poll
    <2> QED BY <1>1, <2>4, <2>5 DEF FreshInv
<1> QED BY <1>1, <1>3, <1>4, <1>5, <1>6, <1>7 DEF IInv

LEMMA ExhaustedKeepsIInv == ASSUME IInv, Exhausted PROVE IInv'
    BY DEF IInv, TypeOK, BestFirst, DiagnosesItself, StepsNeverBreakTests, WithinDepth, NodeInv,
           FreshInv, Exhausted, Failed, Layer

\* Testing a node leaves its own coverage in the static matrix.
LEMMA TestKeepsIInv == ASSUME IInv, TestNode PROVE IInv'
<1>1. /\ UNCHANGED <<problem, queue, node, suspects, rank>>
      /\ pc = "test" /\ node \notin tested \cup queue
    BY DEF TestNode, IInv, FreshInv
<1>2. BestFirst' /\ StepsNeverBreakTests' /\ WithinDepth'
    BY <1>1 DEF IInv, BestFirst, StepsNeverBreakTests, WithinDepth, Failed, Layer
<1>3. PolicyOf(node) \in Policies /\ node \in Nodes
    BY PolicyOfNode DEF IInv, TypeOK
<1>4. CASE pc' = "exception" /\ UNCHANGED <<tested, static>>
    BY <1>1, <1>2, <1>4 DEF IInv, TypeOK, DiagnosesItself, NodeInv, FreshInv
<1>5. CASE /\ tested' = tested \cup {node} /\ static' = PolicyOf(node)
           /\ pc' = IF Failed(PolicyOf(node)) = {} THEN "found" ELSE "check"
    <2>1. TypeOK'
        BY <1>1, <1>3, <1>5 DEF IInv, TypeOK
    <2>2. DiagnosesItself' /\ NodeInv'
        BY <1>1, <1>5 DEF DiagnosesItself, NodeInv, PolicyOf, Failed
    <2>3. \A n \in tested' : n.total <= node.total
        BY <1>3, <1>5 DEF IInv, FreshInv, Nodes
    <2>4. FreshInv'
        BY <1>1, <1>5, <2>3 DEF IInv, FreshInv
    <2> QED BY <1>1, <1>2, <2>1, <2>2, <2>4 DEF IInv
<1> QED BY <1>1, <1>4, <1>5 DEF TestNode

LEMMA CheckKeepsIInv == ASSUME IInv, CheckNode PROVE IInv'
<1>1. /\ pc = "check" /\ UNCHANGED <<problem, queue, node, tested, static, suspects, rank>>
      /\ pc' \in {"rank", "poll"}
      /\ pc' = "rank" => Promising(node) /\ Layer(node) + 1 <= problem.depth
    BY DEF CheckNode
<1>2. TypeOK' /\ BestFirst' /\ StepsNeverBreakTests' /\ WithinDepth' /\ FreshInv'
    BY <1>1 DEF IInv, TypeOK, BestFirst, StepsNeverBreakTests, WithinDepth, FreshInv, Failed, Layer
<1>3. DiagnosesItself'
    BY <1>1 DEF IInv, DiagnosesItself, PolicyOf
<1>4. NodeInv'
    BY <1>1 DEF IInv, NodeInv, PolicyOf, Failed, Promising, ParentPolicy, Layer
<1> QED BY <1>1, <1>2, <1>3, <1>4 DEF IInv

\* The suspects are positions of the node itself.
LEMMA RankKeepsIInv == ASSUME IInv, RankSuspects PROVE IInv'
<1>1. /\ pc = "rank" /\ pc' = "expand" /\ rank' = 1
      /\ UNCHANGED <<problem, queue, node, tested, static>>
    BY DEF RankSuspects
<1> DEFINE p == PolicyOf(node)
<1>2. p \in Policies /\ static = p
    BY <1>1, PolicyOfNode DEF IInv, TypeOK, DiagnosesItself
<1>3. problem.order[p] \in Seq(Nat)
    BY <1>2, ProblemsAssumption DEF IInv, IsProblem
<1>4. /\ suspects' \in Seq(Nat)
      /\ \A k \in DOMAIN suspects' : suspects'[k] \in Positions(problem, p)
    <2>1. Positions(problem, p) \subseteq Nat
        BY <1>3 DEF Positions
    <2>2. CASE suspects' = problem.order[static]
        BY <1>2, <1>3, <2>2 DEF Positions
    <2>3. CASE suspects' \in [DOMAIN problem.order[p] -> Positions(problem, p)]
        <3>1. DOMAIN problem.order[p] = 1..Len(problem.order[p]) /\ Len(problem.order[p]) \in Nat
            BY <1>3
        <3>2. suspects' \in [1..Len(problem.order[p]) -> Nat]
            BY <2>1, <2>3, <3>1
        <3>3. suspects' \in Seq(Nat)
            BY <3>1, <3>2
        <3> QED BY <2>3, <3>3
    <2> QED BY <2>2, <2>3 DEF RankSuspects, Shuffles
<1>5. TypeOK'
    BY <1>1, <1>4 DEF IInv, TypeOK
<1>6. BestFirst' /\ StepsNeverBreakTests' /\ WithinDepth' /\ FreshInv' /\ DiagnosesItself'
    BY <1>1 DEF IInv, BestFirst, StepsNeverBreakTests, WithinDepth, FreshInv, DiagnosesItself,
                Failed, Layer
<1>7. NodeInv'
    BY <1>1, <1>4 DEF IInv, NodeInv, PolicyOf, Failed, Promising, ParentPolicy, Layer
<1> QED BY <1>1, <1>5, <1>6, <1>7 DEF IInv

\* A child continues its parent's path.
LEMMA ChildOfNode ==
    ASSUME NEW n \in Nodes, Len(n.chain) > 0, NEW m \in Policies, NEW r \in Nat
    PROVE  LET c == Child(n, m, r)
           IN  /\ c \in Nodes /\ c.total = n.total + r /\ Len(c.chain) = Len(n.chain) + 1
               /\ \A k \in 1..Len(n.chain) : c.chain[k] = n.chain[k]
<1>1. n.chain \in Seq(Policies) /\ n.total \in Nat
    BY DEF Nodes
<1>2. /\ Append(n.chain, m) \in Seq(Policies) /\ Len(Append(n.chain, m)) = Len(n.chain) + 1
      /\ \A k \in 1..Len(n.chain) : Append(n.chain, m)[k] = n.chain[k]
    BY <1>1
<1> QED BY <1>1, <1>2 DEF Child, Nodes

\* What joins the queue is dearer than the node it comes from, one layer
\* deeper, and behind a promising node that fails some test.
LEMMA ExpandKeepsIInv == ASSUME IInv, ExpandPosition PROVE IInv'
<1> DEFINE p == PolicyOf(node)
           made == problem.mutants[p][suspects[rank]]
<1>1. /\ pc = "expand" /\ rank \in 1..Len(suspects) /\ rank' = rank + 1
      /\ UNCHANGED <<problem, pc, node, tested, static, suspects>>
      /\ queue' = queue \cup {Child(node, m, rank) : m \in made}
    BY DEF ExpandPosition, IInv, TypeOK
<1>2. node \in Nodes /\ Len(node.chain) > 0 /\ p \in Policies /\ rank \in Nat \ {0}
    BY PolicyOfNode DEF IInv, TypeOK
<1>3. made \subseteq Policies
    <2>1. suspects[rank] \in Positions(problem, p)
        BY <1>1 DEF IInv, NodeInv, TypeOK
    <2> QED BY <1>2, <2>1, ProblemsAssumption DEF IInv, IsProblem
<1>4. ASSUME NEW n \in queue'
      PROVE  n \in queue \/ \E m \in Policies : n = Child(node, m, rank)
    BY <1>1, <1>3
<1>5. TypeOK'
    <2>1. \A n \in queue' : n \in Nodes /\ Len(n.chain) > 0
        BY <1>2, <1>4, ChildOfNode DEF IInv, TypeOK
    <2> QED BY <1>1, <1>2, <2>1 DEF IInv, TypeOK
<1>6. BestFirst' /\ FreshInv'
    <2>1. \A m \in Policies : Child(node, m, rank).total > node.total
        BY <1>2, ChildOfNode DEF Nodes
    <2>2. BestFirst'
        <3>1. \A m \in Policies : Child(node, m, rank).total >= node.total
            BY <1>2, ChildOfNode DEF Nodes
        <3>2. \A n \in queue' : n.total >= node.total
            BY <1>4, <3>1 DEF IInv, BestFirst
        <3> QED BY <1>1, <3>2 DEF BestFirst
    <2>3. queue' \cap tested = {}
        <3>1. \A n \in tested : n.total \in Nat /\ n.total <= node.total
            BY DEF IInv, TypeOK, FreshInv, Nodes
        <3>2. \A m \in Policies : Child(node, m, rank).total \in Nat /\ node.total \in Nat
            BY <1>2, ChildOfNode DEF Nodes
        <3>3. \A m \in Policies : Child(node, m, rank) \notin tested
            BY <2>1, <3>1, <3>2
        <3> QED BY <1>4, <3>3 DEF IInv, FreshInv
    <2>4. FreshInv'
        BY <1>1, <2>3 DEF IInv, FreshInv
    <2> QED BY <2>2, <2>4
<1>7. DiagnosesItself' /\ NodeInv'
    BY <1>1 DEF IInv, DiagnosesItself, NodeInv, PolicyOf, Failed, Promising, ParentPolicy, Layer
<1>8. WithinDepth'
    <2>1. Layer(node) + 1 <= problem.depth /\ problem.depth \in Nat
        BY <1>1, ProblemsAssumption DEF IInv, NodeInv, IsProblem
    <2>2. \A m \in Policies : Layer(Child(node, m, rank)) = Layer(node) + 1
        <3>1. Len(node.chain) \in Nat
            BY <1>2 DEF Nodes
        <3> QED BY <1>2, <3>1, ChildOfNode DEF Layer
    <2>3. \A n \in queue' \cup {node} : Layer(n) <= problem.depth
        BY <1>4, <2>1, <2>2 DEF IInv, WithinDepth
    <2> QED BY <1>1, <2>3 DEF WithinDepth, Layer
<1>9. StepsNeverBreakTests'
    <2>1. /\ Len(node.chain) \in Nat
          /\ \A k \in 2..(Len(node.chain) - 1) :
                /\ Failed(node.chain[k]) \subseteq Failed(node.chain[k - 1])
                /\ Failed(node.chain[k]) # {}
        <3>1. Len(node.chain) \in Nat
            BY <1>2 DEF Nodes
        <3> QED BY <3>1 DEF IInv, StepsNeverBreakTests
    <2>2. /\ Failed(PolicyOf(node)) # {}
          /\ Len(node.chain) > 1 => Failed(PolicyOf(node)) \subseteq Failed(ParentPolicy(node))
        BY SMTT(30), <1>1, <2>1 DEF IInv, NodeInv, Promising, Layer
    <2>3. \A k \in 2..Len(node.chain) :
                /\ Failed(node.chain[k]) \subseteq Failed(node.chain[k - 1])
                /\ Failed(node.chain[k]) # {}
        <3>1. ASSUME NEW k \in 2..Len(node.chain)
              PROVE  k \in 2..(Len(node.chain) - 1) \/ (k = Len(node.chain) /\ Len(node.chain) > 1)
            BY <2>1
        <3> QED BY <2>1, <2>2, <3>1 DEF PolicyOf, ParentPolicy
    <2>4. ASSUME NEW m \in Policies, NEW k \in 2..(Len(Child(node, m, rank).chain) - 1)
          PROVE  LET c == Child(node, m, rank).chain
                 IN  Failed(c[k]) \subseteq Failed(c[k - 1]) /\ Failed(c[k]) # {}
        <3>1. k \in 2..Len(node.chain) /\ k - 1 \in 1..Len(node.chain) /\ k \in 1..Len(node.chain)
            BY <1>2, <2>1, ChildOfNode
        <3>2. /\ Child(node, m, rank).chain[k] = node.chain[k]
              /\ Child(node, m, rank).chain[k - 1] = node.chain[k - 1]
            BY SMTT(30), <1>2, <3>1, ChildOfNode
        <3> QED BY <2>3, <3>1, <3>2
    <2>5. \A n \in queue' \cup {node} : \A k \in 2..(Len(n.chain) - 1) :
                Failed(n.chain[k]) \subseteq Failed(n.chain[k - 1]) /\ Failed(n.chain[k]) # {}
        BY <1>4, <2>4 DEF IInv, StepsNeverBreakTests
    <2> QED BY <1>1, <2>5 DEF StepsNeverBreakTests, Failed
<1> QED BY <1>1, <1>5, <1>6, <1>7, <1>8, <1>9 DEF IInv

LEMMA ThrowsKeepsIInv == ASSUME IInv, ExpandThrows PROVE IInv'
    BY DEF IInv, TypeOK, BestFirst, DiagnosesItself, StepsNeverBreakTests, WithinDepth, NodeInv,
           FreshInv, ExpandThrows, Failed, Layer

LEMMA EndsKeepsIInv == ASSUME IInv, ExpandEnds PROVE IInv'
    BY DEF IInv, TypeOK, BestFirst, DiagnosesItself, StepsNeverBreakTests, WithinDepth, NodeInv,
           FreshInv, ExpandEnds, Failed, Layer

LEMMA StutterKeepsIInv == ASSUME IInv, UNCHANGED vars PROVE IInv'
    BY DEF IInv, TypeOK, BestFirst, DiagnosesItself, StepsNeverBreakTests, WithinDepth, NodeInv,
           FreshInv, vars, Failed, Layer, PolicyOf, ParentPolicy, Promising

LEMMA NextKeepsIInv == IInv /\ [Next]_vars => IInv'
    BY PollKeepsIInv, ExhaustedKeepsIInv, TestKeepsIInv, CheckKeepsIInv, RankKeepsIInv,
       ExpandKeepsIInv, ThrowsKeepsIInv, EndsKeepsIInv, StutterKeepsIInv DEF Next

\* The inductive invariant of a search.
THEOREM Invariant == Spec => []IInv
    BY InitIInv, NextKeepsIInv, PTL DEF Spec

\* Every state of a search has its types: what is polled is always a policy.
THEOREM TypeCorrect == Spec => []TypeOK
<1>1. IInv => TypeOK
    BY DEF IInv
<1> QED BY <1>1, Invariant, PTL

\* The queue of Repairer.repair is polled in the order of totalRank over the
\* whole search, not only among the nodes that wait at one time.
THEOREM SearchIsBestFirst == Spec => []BestFirst
<1>1. IInv => BestFirst
    BY DEF IInv
<1> QED BY <1>1, Invariant, PTL

\* getSuspicionRank never reads the static coverage of another policy.
THEOREM OwnDiagnosis == Spec => []DiagnosesItself
<1>1. IInv => DiagnosesItself
    BY DEF IInv
<1> QED BY <1>1, Invariant, PTL

\* The search only goes on from mutants whose failed tests are a subset of
\* their parent's, along every path of its tree.
THEOREM PathsImprove == Spec => []StepsNeverBreakTests
<1>1. IInv => StepsNeverBreakTests
    BY DEF IInv
<1> QED BY <1>1, Invariant, PTL

\* maxSearchLayer bounds the tree.
THEOREM DepthIsBounded == Spec => []WithinDepth
<1>1. IInv => WithinDepth
    BY DEF IInv
<1> QED BY <1>1, Invariant, PTL


-----------------------------------------------------------------------------
(* The paths of the promise.                                               *)

LEMMA LeastOf ==
    ASSUME NEW S \in SUBSET Nat, S # {}
    PROVE  \E k \in S : \A l \in S : k <= l
<1>1. PICK k \in S : \A l \in S : ~(<<l, k>> \in OpToRel(<, Nat))
    <2>1. \E k \in S : \A l \in S : ~(<<l, k>> \in OpToRel(<, Nat))
        BY NatLessThanWellFounded, WFMin, Zenon
    <2> QED BY <2>1
<1>2. \A l \in S : ~(l < k)
    BY <1>1 DEF OpToRel
<1> QED BY <1>2

\* f has the paths of k steps, for each k up to n.
Levels(p, n, f) ==
    f = [k \in 0..n |-> IF k = 0 THEN {Cheapest!RootPath(p)} ELSE Cheapest!Longer(p, f[k - 1])]

\* The definition of the paths defines some.
LEMMA LevelsExist == ASSUME NEW p PROVE \A n \in Nat : \E f : Levels(p, n, f)
<1> DEFINE S == {n \in Nat : ~\E f : Levels(p, n, f)}
           first == {Cheapest!RootPath(p)}
           NextOf(paths) == Cheapest!Longer(p, paths)
<1>0. \A n, f : Levels(p, n, f)
                   <=> f = [k \in 0..n |-> IF k = 0 THEN first ELSE NextOf(f[k - 1])]
    BY DEF Levels
<1> HIDE DEF first, NextOf
<1>1. SUFFICES ASSUME S # {} PROVE FALSE
    OBVIOUS
<1>2. PICK n \in S : \A l \in S : n <= l
    BY <1>1, LeastOf
<1>3. n # 0
    <2> DEFINE f == [k \in 0..0 |-> first]
    <2>1. \A k \in 0..0 : k = 0
        OBVIOUS
    <2>2. f = [k \in 0..0 |-> IF k = 0 THEN first ELSE NextOf(f[k - 1])]
        BY <2>1
    <2> HIDE DEF f
    <2> QED BY <1>0, <2>2
<1>4. n - 1 \in Nat /\ n - 1 \notin S
    BY <1>2, <1>3
<1>5. PICK f : Levels(p, n - 1, f)
    BY <1>4
<1> DEFINE g == [k \in 0..n |-> IF k = 0 THEN first ELSE NextOf(f[k - 1])]
<1>6. \A k \in 0..n - 1 : g[k] = f[k]
    <2>1. \A k \in 0..n - 1 : k \in 0..n
        BY <1>4
    <2>2. f = [k \in 0..n - 1 |-> IF k = 0 THEN first ELSE NextOf(f[k - 1])]
        BY <1>0, <1>5
    <2>3. \A k \in 0..n - 1 : f[k] = IF k = 0 THEN first ELSE NextOf(f[k - 1])
        BY <2>2
    <2> QED BY <2>1, <2>3
<1>7. \A k \in 0..n : k # 0 => k - 1 \in 0..n - 1
    BY <1>4
<1>8. g = [k \in 0..n |-> IF k = 0 THEN first ELSE NextOf(g[k - 1])]
    <2> HIDE DEF g
    <2>1. g = [k \in 0..n |-> IF k = 0 THEN first ELSE NextOf(f[k - 1])]
        BY DEF g
    <2>2. \A k \in 0..n : (IF k = 0 THEN first ELSE NextOf(f[k - 1]))
                              = (IF k = 0 THEN first ELSE NextOf(g[k - 1]))
        BY <1>6, <1>7
    <2> QED BY <2>1, <2>2
<1> HIDE DEF g
<1> QED BY <1>0, <1>2, <1>8

LEMMA PathsAreLevels ==
    ASSUME NEW p, p.depth \in Nat
    PROVE  \E f : Levels(p, p.depth, f)
                  /\ Cheapest!PathsOf(p) = UNION {f[n] : n \in 0..p.depth}
<1> DEFINE Paths == CHOOSE f : f = [k \in 0..p.depth |->
                        IF k = 0 THEN {Cheapest!RootPath(p)} ELSE Cheapest!Longer(p, f[k - 1])]
<1>1. \E f : Levels(p, p.depth, f)
    BY LevelsExist
<1>2. Levels(p, p.depth, Paths)
    BY <1>1 DEF Levels
<1>3. Cheapest!PathsOf(p) = UNION {Paths[n] : n \in 0..p.depth}
    BY DEF Cheapest!PathsOf
<1> QED BY <1>2, <1>3


PathType == [chain : Seq(Policies), cost : Nat]

\* A mutant is made at some place of the diagnosis, and first at its cost.
LEMMA StepCostIsLeast ==
    ASSUME NEW p, IsProblem(p), NEW policy \in Policies,
           NEW m \in Cheapest!MutantsOf(p, policy)
    PROVE  LET cost == Cheapest!StepCost(p, policy, m)
           IN  /\ m \in Policies /\ cost \in 1..Len(p.order[policy])
               /\ m \in p.mutants[policy][p.order[policy][cost]]
<1> DEFINE places == {k \in DOMAIN p.order[policy] :
                          m \in p.mutants[policy][p.order[policy][k]]}
<1>1. /\ p.order[policy] \in Seq(Nat) /\ Positions(p, policy) \subseteq DOMAIN p.mutants[policy]
      /\ \A k \in DOMAIN p.mutants[policy] : p.mutants[policy][k] \subseteq Policies
    BY DEF IsProblem
<1>2. DOMAIN p.order[policy] = 1..Len(p.order[policy])
    BY <1>1
<1>3. PICK at \in Positions(p, policy) : m \in p.mutants[policy][at]
    BY DEF Cheapest!MutantsOf, Cheapest!Positions, Positions
<1>4. places # {} /\ m \in Policies
    BY <1>1, <1>3 DEF Positions
<1>5. places \in SUBSET Nat
    BY <1>2
<1>6. Cheapest!StepCost(p, policy, m) = CHOOSE k \in places : \A l \in places : k <= l
    BY DEF Cheapest!StepCost
<1> HIDE DEF places
<1>7. \E k \in places : \A l \in places : k <= l
    BY <1>4, <1>5, LeastOf
<1>8. Cheapest!StepCost(p, policy, m) \in places
    BY <1>6, <1>7
<1> QED BY <1>2, <1>4, <1>8 DEF places

LEMMA StepCostBelow ==
    ASSUME NEW p, IsProblem(p), NEW policy \in Policies, NEW m,
           NEW k \in DOMAIN p.order[policy], m \in p.mutants[policy][p.order[policy][k]]
    PROVE  Cheapest!StepCost(p, policy, m) <= k
<1> DEFINE places == {l \in DOMAIN p.order[policy] :
                          m \in p.mutants[policy][p.order[policy][l]]}
<1>1. p.order[policy] \in Seq(Nat)
    BY DEF IsProblem
<1>2. places \in SUBSET Nat
    BY <1>1
<1>3. Cheapest!StepCost(p, policy, m) = CHOOSE l \in places : \A j \in places : l <= j
    BY DEF Cheapest!StepCost
<1>4. k \in places
    OBVIOUS
<1> HIDE DEF places
<1>5. \E l \in places : \A j \in places : l <= j
    BY <1>2, <1>4, LeastOf
<1> QED BY <1>3, <1>4, <1>5

LEMMA GoOnIsPath ==
    ASSUME NEW p, IsProblem(p), NEW q \in PathType, Len(q.chain) > 0,
           NEW m \in Cheapest!MutantsOf(p, Cheapest!Ends(q.chain))
    PROVE  LET next == Cheapest!GoOn(p, q, m)
           IN  /\ next \in PathType /\ Len(next.chain) = Len(q.chain) + 1
               /\ next.chain = Append(q.chain, m)
               /\ next.cost = q.cost + Cheapest!StepCost(p, Cheapest!Ends(q.chain), m)
<1> DEFINE cost == Cheapest!StepCost(p, Cheapest!Ends(q.chain), m)
<1>1. q.chain \in Seq(Policies) /\ q.cost \in Nat /\ Len(q.chain) \in Nat
    BY DEF PathType
<1>2. Cheapest!Ends(q.chain) \in Policies
    <2>1. Len(q.chain) \in 1..Len(q.chain)
        BY <1>1
    <2> QED BY <1>1, <2>1 DEF Cheapest!Ends
<1>3. p.order[Cheapest!Ends(q.chain)] \in Seq(Nat)
    BY <1>2 DEF IsProblem
<1>4. m \in Policies /\ cost \in Nat
    <2>1. m \in Policies /\ cost \in 1..Len(p.order[Cheapest!Ends(q.chain)])
        BY <1>2, StepCostIsLeast
    <2> QED BY <1>3, <2>1
<1> HIDE DEF cost
<1>5. Cheapest!GoOn(p, q, m) = [chain |-> Append(q.chain, m), cost |-> q.cost + cost]
    BY DEF Cheapest!GoOn, cost
<1>6. Append(q.chain, m) \in Seq(Policies) /\ Len(Append(q.chain, m)) = Len(q.chain) + 1
    BY <1>1, <1>4
<1>7. q.cost + cost \in Nat
    BY <1>1, <1>4
<1> QED BY <1>5, <1>6, <1>7 DEF PathType, cost

\* What holds of the root, and of a path when it holds of the path it goes on
\* from, holds of every path.
LEMMA PathInduction ==
    ASSUME NEW p, IsProblem(p), NEW S, Cheapest!RootPath(p) \in S,
           \A q \in S \cap Cheapest!PathsOf(p) : Cheapest!Continues(p, q.chain) =>
               \A m \in Cheapest!MutantsOf(p, Cheapest!Ends(q.chain)) :
                   Cheapest!GoOn(p, q, m) \in S
    PROVE  Cheapest!PathsOf(p) \subseteq S
<1>1. p.depth \in Nat
    BY DEF IsProblem
<1>2. PICK f : Levels(p, p.depth, f)
               /\ Cheapest!PathsOf(p) = UNION {f[n] : n \in 0..p.depth}
    BY <1>1, PathsAreLevels
<1>3. \A n \in 0..p.depth :
          f[n] = IF n = 0 THEN {Cheapest!RootPath(p)} ELSE Cheapest!Longer(p, f[n - 1])
    BY <1>2 DEF Levels
<1> DEFINE Bad == {n \in 0..p.depth : ~(f[n] \subseteq S)}
<1>4. SUFFICES ASSUME Bad # {} PROVE FALSE
    BY <1>2
<1>5. Bad \in SUBSET Nat
    BY <1>1
<1>6. PICK n \in Bad : \A l \in Bad : n <= l
    BY <1>4, <1>5, LeastOf
<1>7. n # 0
    BY <1>3, <1>6
<1>8. n - 1 \in 0..p.depth /\ n - 1 \notin Bad
    BY <1>1, <1>6, <1>7
<1>9. f[n - 1] \subseteq S \cap Cheapest!PathsOf(p)
    BY <1>2, <1>8
<1>10. f[n] = Cheapest!Longer(p, f[n - 1])
    BY <1>3, <1>6, <1>7
<1>11. f[n] \subseteq S
    BY <1>9, <1>10 DEF Cheapest!Longer
<1> QED BY <1>6, <1>11

\* The paths and how they go on.
LEMMA PathsGoOn ==
    ASSUME NEW p, IsProblem(p)
    PROVE  /\ Cheapest!RootPath(p) \in Cheapest!PathsOf(p)
           /\ \A q \in Cheapest!PathsOf(p) :
                  /\ q \in PathType /\ Len(q.chain) > 0
                  /\ Cheapest!Continues(p, q.chain) =>
                         \A m \in Cheapest!MutantsOf(p, Cheapest!Ends(q.chain)) :
                             Cheapest!GoOn(p, q, m) \in Cheapest!PathsOf(p)
<1>1. p.depth \in Nat /\ p.root \in Policies
    BY DEF IsProblem
<1>2. PICK f : Levels(p, p.depth, f)
               /\ Cheapest!PathsOf(p) = UNION {f[n] : n \in 0..p.depth}
    BY <1>1, PathsAreLevels
<1>3. \A n \in 0..p.depth :
          f[n] = IF n = 0 THEN {Cheapest!RootPath(p)} ELSE Cheapest!Longer(p, f[n - 1])
    BY <1>2 DEF Levels
<1>4. Cheapest!RootPath(p) \in Cheapest!PathsOf(p)
    BY <1>1, <1>2, <1>3
<1>5. /\ Cheapest!RootPath(p) \in PathType /\ Len(Cheapest!RootPath(p).chain) = 1
    <2>1. Cheapest!RootPath(p) = [chain |-> <<p.root>>, cost |-> 0]
        BY DEF Cheapest!RootPath
    <2>2. <<p.root>> \in Seq(Policies) /\ Len(<<p.root>>) = 1
        BY <1>1
    <2> QED BY <2>1, <2>2 DEF PathType
<1> DEFINE OfLength(n) == {q \in PathType : Len(q.chain) = n + 1}
           Bad == {n \in 0..p.depth : ~(f[n] \subseteq OfLength(n))}
<1>6. Bad = {}
    <2> SUFFICES ASSUME Bad # {} PROVE FALSE
        OBVIOUS
    <2>1. Bad \in SUBSET Nat
        BY <1>1
    <2>2. PICK n \in Bad : \A l \in Bad : n <= l
        BY <2>1, LeastOf
    <2>3. n # 0
        <3>1. Cheapest!RootPath(p) \in OfLength(0) /\ 0 \in 0..p.depth
            BY <1>1, <1>5
        <3> HIDE DEF OfLength
        <3>2. f[0] \subseteq OfLength(0)
            BY <1>3, <3>1
        <3> QED BY <2>2, <3>2
    <2>4. n - 1 \in 0..p.depth /\ n - 1 \notin Bad
        BY <1>1, <2>2, <2>3
    <2>5. \A q \in f[n - 1] : q \in PathType /\ Len(q.chain) = n
        BY <2>2, <2>4
    <2>6. f[n] = Cheapest!Longer(p, f[n - 1])
        BY <1>3, <2>2, <2>3
    <2>7. ASSUME NEW r \in f[n] PROVE r \in PathType /\ Len(r.chain) = n + 1
        <3>1. PICK q \in f[n - 1] : \E m \in Cheapest!MutantsOf(p, Cheapest!Ends(q.chain)) :
                                       r = Cheapest!GoOn(p, q, m)
            BY <2>6 DEF Cheapest!Longer
        <3>2. PICK m \in Cheapest!MutantsOf(p, Cheapest!Ends(q.chain)) :
                  r = Cheapest!GoOn(p, q, m)
            BY <3>1
        <3>3. q \in PathType /\ Len(q.chain) = n /\ Len(q.chain) > 0
            BY <2>2, <2>3, <2>5
        <3> QED BY <3>2, <3>3, GoOnIsPath
    <2> QED BY <2>2, <2>7
<1>7. \A n \in 0..p.depth : \A q \in f[n] : q \in PathType /\ Len(q.chain) = n + 1
    BY <1>6
<1> HIDE DEF Bad, OfLength
<1>8. ASSUME NEW q \in Cheapest!PathsOf(p), Cheapest!Continues(p, q.chain),
             NEW m \in Cheapest!MutantsOf(p, Cheapest!Ends(q.chain))
      PROVE  Cheapest!GoOn(p, q, m) \in Cheapest!PathsOf(p)
    <2>1. PICK n \in 0..p.depth : q \in f[n]
        BY <1>2
    <2>2. n + 1 <= p.depth
        BY <1>7, <1>8, <2>1 DEF Cheapest!Continues
    <2>3. n + 1 \in 0..p.depth /\ f[n + 1] = Cheapest!Longer(p, f[n])
        BY <1>1, <1>3, <2>2
    <2>4. Cheapest!GoOn(p, q, m) \in f[n + 1]
        BY <1>8, <2>1, <2>3 DEF Cheapest!Longer
    <2> QED BY <1>2, <2>3, <2>4
<1>9. \A q \in Cheapest!PathsOf(p) : q \in PathType /\ Len(q.chain) > 0
    BY <1>2, <1>7
<1> QED BY <1>4, <1>8, <1>9

-----------------------------------------------------------------------------
(* The frontier of the search.  A node that was tested is no repair, and   *)
(* each mutant of it that is gone on to has a node, no dearer than the     *)
(* mutant's cheapest place in the diagnosis, unless the loop that makes    *)
(* the nodes has yet to come to such a place.                              *)

Active == pc \in {"poll", "test", "check", "rank", "expand"}
Random == problem.method = "random"
Seen == queue \cup tested \cup IF pc = "test" THEN {node} ELSE {}
Cost(w, m) == Cheapest!StepCost(problem, PolicyOf(w), m)
Continued(w) == Cheapest!Continues(problem, w.chain)

HasNode(w, m) == \E r \in Nat : Child(w, m, r) \in Seen /\ (Random \/ r <= Cost(w, m))
MutantAhead(m) ==
    \E k \in rank..Len(suspects) :
        /\ m \in problem.mutants[PolicyOf(node)][suspects[k]]
        /\ Random \/ k <= Cost(node, m)
BrokenAhead(position) == \E k \in rank..Len(suspects) : suspects[k] = position

\* A node whose loop has not begun, or is at work.
Before(w) == w = node /\ pc \in {"check", "rank"}
During(w) == w = node /\ pc = "expand"

Explored(w) ==
    /\ PolicyOf(w) \notin problem.crashes /\ Failed(PolicyOf(w)) # {}
    /\ Continued(w) =>
           /\ \A m \in Cheapest!MutantsOf(problem, PolicyOf(w)) :
                  HasNode(w, m) \/ Before(w) \/ (During(w) /\ MutantAhead(m))
           /\ \A k \in Positions(problem, PolicyOf(w)) \cap problem.broken[PolicyOf(w)] :
                  Before(w) \/ (During(w) /\ BrokenAhead(k))

OnPath(n) ==
    \E q \in Cheapest!PathsOf(problem) : q.chain = n.chain /\ (Random \/ q.cost <= n.total)

OwnSuspects ==
    pc = "expand" =>
        /\ node \in tested
        /\ ~Random => suspects = problem.order[PolicyOf(node)]

FrontierInv ==
    /\ OwnSuspects
    /\ \A n \in queue \cup {node} : OnPath(n)
    /\ Active => Root(problem) \in Seen /\ \A w \in tested : Explored(w)

\* A node stays explored while the loop does what it has ahead.
LEMMA ExploredStays ==
    ASSUME NEW w, Explored(w), problem' = problem, Seen \subseteq Seen',
           Continued(w) => \A m \in Cheapest!MutantsOf(problem, PolicyOf(w)) :
               Before(w) \/ (During(w) /\ MutantAhead(m)) =>
                   HasNode(w, m)' \/ Before(w)' \/ (During(w) /\ MutantAhead(m))',
           Continued(w) =>
               \A k \in Positions(problem, PolicyOf(w)) \cap problem.broken[PolicyOf(w)] :
                   Before(w) \/ (During(w) /\ BrokenAhead(k)) =>
                       Before(w)' \/ (During(w) /\ BrokenAhead(k))'
    PROVE  Explored(w)'
<1>1. \A m : HasNode(w, m) => HasNode(w, m)'
    BY DEF HasNode, Random, Cost, Child, PolicyOf
<1>2. /\ PolicyOf(w) \notin problem'.crashes /\ Failed(PolicyOf(w))' # {}
      /\ Continued(w)' <=> Continued(w)
    BY DEF Explored, Failed, Continued, PolicyOf
<1>3. Continued(w) => \A m \in Cheapest!MutantsOf(problem, PolicyOf(w)) :
          HasNode(w, m)' \/ Before(w)' \/ (During(w) /\ MutantAhead(m))'
    BY <1>1 DEF Explored
<1>4. Continued(w) => \A k \in Positions(problem, PolicyOf(w)) \cap problem.broken[PolicyOf(w)] :
          Before(w)' \/ (During(w) /\ BrokenAhead(k))'
    BY DEF Explored
<1> QED BY <1>2, <1>3, <1>4 DEF Explored, PolicyOf

LEMMA OnPathStays == ASSUME NEW n, OnPath(n), problem' = problem PROVE OnPath(n)'
    BY DEF OnPath, Random

\* Polled is what was waiting.
LEMMA PollKeepsFrontier == ASSUME IInv, FrontierInv, Poll PROVE FrontierInv'
<1>1. /\ problem' = problem /\ tested' = tested /\ node' \in queue /\ queue' = queue \ {node'}
      /\ pc = "poll" /\ pc' = "test"
    BY DEF Poll
<1>2. Seen' = Seen
    BY <1>1 DEF Seen
<1>3. OwnSuspects' /\ \A n \in (queue \cup {node})' : OnPath(n)'
    BY <1>1, OnPathStays DEF FrontierInv, OwnSuspects
<1>4. Root(problem)' \in Seen'
    BY <1>1, <1>2 DEF FrontierInv, Active, Root
<1>5. ASSUME NEW w \in tested PROVE Explored(w)'
    <2>1. Explored(w)
        BY <1>1 DEF FrontierInv, Active
    <2>2. ~Before(w) /\ ~During(w)
        BY <1>1 DEF Before, During
    <2> QED BY <1>1, <1>2, <2>1, <2>2, ExploredStays
<1> QED BY <1>1, <1>3, <1>4, <1>5 DEF FrontierInv

\* A search that ends has no frontier to keep.
LEMMA EndKeepsFrontier ==
    ASSUME FrontierInv, UNCHANGED <<problem, queue, node>>,
           pc' \notin {"poll", "test", "check", "rank", "expand"}
    PROVE  FrontierInv'
    BY OnPathStays DEF FrontierInv, OwnSuspects, Active

LEMMA TestKeepsFrontier == ASSUME IInv, FrontierInv, TestNode PROVE FrontierInv'
<1>1. /\ UNCHANGED <<problem, queue, node, suspects, rank>>
      /\ pc = "test" /\ node \notin tested \cup queue
    BY DEF TestNode, IInv, FreshInv
<1>2. CASE pc' # "check"
    BY <1>1, <1>2, EndKeepsFrontier DEF TestNode
<1>3. CASE pc' = "check"
    <2>1. /\ tested' = tested \cup {node} /\ PolicyOf(node) \notin problem.crashes
          /\ Failed(PolicyOf(node)) # {}
        BY <1>1, <1>3 DEF TestNode
    <2>2. Seen' = Seen
        BY <1>1, <1>3, <2>1 DEF Seen
    <2>3. OwnSuspects' /\ \A n \in (queue \cup {node})' : OnPath(n)'
        BY <1>1, <1>3, OnPathStays DEF FrontierInv, OwnSuspects
    <2>4. Root(problem)' \in Seen'
        BY <1>1, <2>2 DEF FrontierInv, Active, Root
    <2>5. ASSUME NEW w \in tested PROVE Explored(w)'
        <3>1. Explored(w)
            BY <1>1 DEF FrontierInv, Active
        <3>2. ~Before(w) /\ ~During(w)
            BY <1>1 DEF Before, During
        <3> QED BY <1>1, <2>2, <3>1, <3>2, ExploredStays
    <2>6. ASSUME NEW w, w = node PROVE Explored(w)'
        BY <1>1, <1>3, <2>1, <2>6 DEF Explored, Before, Failed, PolicyOf
    <2> QED BY <2>1, <2>3, <2>4, <2>5, <2>6 DEF FrontierInv
<1> QED BY <1>2, <1>3

\* What isPromising and the depth say is whether a path is gone on from.
LEMMA ContinuedWhenPromising ==
    ASSUME IInv, node \in tested, Active, FrontierInv
    PROVE  Continued(node) <=> (Promising(node) /\ Layer(node) + 1 <= problem.depth)
<1>1. Explored(node)
    BY DEF FrontierInv
<1>2. Len(node.chain) \in Nat /\ Len(node.chain) > 0
    BY DEF IInv, TypeOK, Nodes
<1>3. (Layer(node) = 0 <=> Len(node.chain) = 1) /\ Layer(node) + 1 = Len(node.chain)
    BY <1>2 DEF Layer
<1>4. Cheapest!Ends(node.chain) = PolicyOf(node)
    BY DEF Cheapest!Ends, PolicyOf
<1>5. Continued(node)
          <=> /\ Len(node.chain) > 1 => Failed(PolicyOf(node)) \subseteq Failed(ParentPolicy(node))
              /\ Len(node.chain) <= problem.depth
    BY <1>1, <1>4 DEF Continued, Cheapest!Continues, Explored, ParentPolicy, Failed
<1> DEFINE better == Failed(PolicyOf(node)) \subseteq Failed(ParentPolicy(node))
<1>6. Promising(node) <=> (Layer(node) = 0 \/ better)
    BY DEF Promising
<1> HIDE DEF better
<1>7. Continued(node) <=> ((Len(node.chain) > 1 => better) /\ Len(node.chain) <= problem.depth)
    BY <1>5 DEF better
<1>8. \A k \in Nat : k > 0 => (k > 1 <=> k # 1)
    OBVIOUS
<1>9. Len(node.chain) > 1 <=> Layer(node) # 0
    BY <1>2, <1>3, <1>8
<1> QED BY <1>3, <1>6, <1>7, <1>9

LEMMA CheckKeepsFrontier == ASSUME IInv, FrontierInv, CheckNode PROVE FrontierInv'
<1>1. /\ pc = "check" /\ UNCHANGED <<problem, queue, node, tested, static, suspects, rank>>
      /\ pc' = IF Promising(node) /\ Layer(node) + 1 <= problem.depth THEN "rank" ELSE "poll"
    BY DEF CheckNode
<1>2. node \in tested
    BY <1>1 DEF IInv, DiagnosesItself
<1>3. Seen' = Seen
    BY <1>1 DEF Seen
<1>4. OwnSuspects' /\ \A n \in (queue \cup {node})' : OnPath(n)'
    BY <1>1, OnPathStays DEF FrontierInv, OwnSuspects
<1>5. Root(problem)' \in Seen'
    BY <1>1, <1>3 DEF FrontierInv, Active, Root
<1>6. ASSUME NEW w \in tested PROVE Explored(w)'
    <2>1. Explored(w) /\ ~During(w)
        BY <1>1 DEF FrontierInv, Active, During
    <2>2. Before(w) /\ Continued(w) => Before(w)'
        BY <1>1, <1>2, ContinuedWhenPromising DEF Active, Before
    <2> QED BY <1>1, <1>3, <2>1, <2>2, ExploredStays
<1> QED BY <1>1, <1>4, <1>5, <1>6 DEF FrontierInv

\* The loop has every mutant, and every broken position, ahead when it begins.
LEMMA RankKeepsFrontier == ASSUME IInv, FrontierInv, RankSuspects PROVE FrontierInv'
<1>1. /\ pc = "rank" /\ pc' = "expand" /\ rank' = 1
      /\ UNCHANGED <<problem, queue, node, tested, static>>
    BY DEF RankSuspects
<1> DEFINE p == PolicyOf(node)
<1>2. p \in Policies /\ static = p /\ node \in tested /\ IsProblem(problem)
    BY <1>1, PolicyOfNode, ProblemsAssumption DEF IInv, TypeOK, DiagnosesItself
<1>3. problem.order[p] \in Seq(Nat) /\ Len(problem.order[p]) \in Nat
      /\ DOMAIN problem.order[p] = 1..Len(problem.order[p])
    <2>1. problem.order[p] \in Seq(Nat)
        BY <1>2 DEF IsProblem
    <2> QED BY <2>1
<1>4. /\ ~Random => suspects' = problem.order[p]
      /\ Random => suspects' \in Shuffles(p)
    BY <1>2 DEF RankSuspects, Random
<1>5. \A k \in Positions(problem, p) : \E j \in 1..Len(suspects') : suspects'[j] = k
    <2>1. CASE Random
        <3>1. suspects' \in [1..Len(problem.order[p]) -> Positions(problem, p)]
              /\ Positions(problem, p) = {suspects'[k] : k \in DOMAIN suspects'}
            BY <1>3, <1>4, <2>1 DEF Shuffles
        <3>2. DOMAIN suspects' = 1..Len(problem.order[p]) /\ suspects' \in Seq(Nat)
            BY <3>1, RankKeepsIInv DEF IInv, TypeOK
        <3>3. DOMAIN suspects' = 1..Len(suspects')
            BY <3>2
        <3> QED BY <3>1, <3>3
    <2>2. CASE ~Random
        BY <1>3, <1>4, <2>2 DEF Positions
    <2> QED BY <2>1, <2>2
<1>6. Seen' = Seen /\ Root(problem)' \in Seen'
    BY <1>1 DEF Seen, FrontierInv, Active, Root
<1>7. OwnSuspects' /\ \A n \in (queue \cup {node})' : OnPath(n)'
    BY <1>1, <1>2, <1>4, OnPathStays DEF FrontierInv, OwnSuspects, Random
<1>8. ASSUME NEW m \in Cheapest!MutantsOf(problem, p) PROVE MutantAhead(m)'
    <2>1. CASE Random
        <3>1. PICK k \in Positions(problem, p) : m \in problem.mutants[p][k]
            BY DEF Cheapest!MutantsOf, Cheapest!Positions, Positions
        <3>2. PICK j \in 1..Len(suspects') : suspects'[j] = k
            BY <1>5, <3>1
        <3> QED BY <1>1, <2>1, <3>1, <3>2 DEF MutantAhead, Random
    <2>2. CASE ~Random
        <3> DEFINE cost == Cheapest!StepCost(problem, p, m)
        <3>1. cost \in 1..Len(problem.order[p])
              /\ m \in problem.mutants[p][problem.order[p][cost]]
            BY <1>2, StepCostIsLeast
        <3> HIDE DEF cost
        <3>2. suspects' = problem.order[p]
            BY <1>4, <2>2
        <3>3. Cost(node, m)' = cost
            BY <1>1 DEF Cost, PolicyOf, cost
        <3>4. cost \in 1..Len(suspects') /\ cost <= Cost(node, m)'
            BY <1>3, <3>1, <3>2, <3>3
        <3>5. m \in problem'.mutants[PolicyOf(node)'][suspects'[cost]]
            BY <1>1, <3>1, <3>2 DEF PolicyOf
        <3> QED BY <1>1, <3>4, <3>5 DEF MutantAhead
    <2> QED BY <2>1, <2>2
<1>9. \A k \in Positions(problem, p) : BrokenAhead(k)'
    BY <1>1, <1>5 DEF BrokenAhead
<1>10. ASSUME NEW w \in tested PROVE Explored(w)'
    <2>1. Explored(w) /\ ~During(w)
        BY <1>1 DEF FrontierInv, Active, During
    <2>2. Before(w) => w = node /\ During(w)'
        BY <1>1 DEF Before, During
    <2> QED BY <1>1, <1>6, <1>8, <1>9, <2>1, <2>2, ExploredStays
<1> QED BY <1>1, <1>6, <1>7, <1>10 DEF FrontierInv

\* What is made joins the queue at the place the loop is at.
LEMMA ExpandKeepsFrontier == ASSUME IInv, FrontierInv, ExpandPosition PROVE FrontierInv'
<1> DEFINE p == PolicyOf(node)
           made == problem.mutants[p][suspects[rank]]
<1>1. /\ pc = "expand" /\ rank \in 1..Len(suspects) /\ rank \in Nat \ {0} /\ rank' = rank + 1
      /\ UNCHANGED <<problem, pc, node, tested, static, suspects>>
      /\ suspects[rank] \notin problem.broken[p]
      /\ queue' = queue \cup {Child(node, m, rank) : m \in made}
      /\ Len(suspects) \in Nat
    BY DEF ExpandPosition, IInv, TypeOK
<1>2. /\ node \in Nodes /\ Len(node.chain) > 0 /\ p \in Policies /\ IsProblem(problem)
      /\ node \in tested /\ Active
    BY <1>1, PolicyOfNode, ProblemsAssumption DEF IInv, TypeOK, FrontierInv, OwnSuspects, Active
<1>3. suspects[rank] \in Positions(problem, p)
    BY <1>1 DEF IInv, NodeInv, TypeOK
<1>4. Seen \subseteq Seen' /\ \A m \in made : Child(node, m, rank) \in Seen'
    BY <1>1 DEF Seen
<1>5. OwnSuspects'
    BY <1>1 DEF FrontierInv, OwnSuspects, Random, PolicyOf
<1>6. Root(problem)' \in Seen'
    BY <1>1, <1>2, <1>4 DEF FrontierInv, Root
<1>7. ASSUME NEW w \in tested PROVE Explored(w)'
    <2>1. Explored(w) /\ ~Before(w)
        BY <1>1, <1>2 DEF FrontierInv, Before
    <2>2. During(w) => w = node /\ During(w)'
        BY <1>1 DEF During
    <2>3. ASSUME NEW m, During(w), MutantAhead(m), ~MutantAhead(m)'
          PROVE  HasNode(w, m)'
        <3>1. PICK k \in rank..Len(suspects) : /\ m \in problem.mutants[p][suspects[k]]
                                               /\ Random \/ k <= Cost(node, m)
            BY <2>3 DEF MutantAhead
        <3>2. k = rank
            <4>1. (k \in rank + 1..Len(suspects)) => MutantAhead(m)'
                BY <1>1, <3>1 DEF MutantAhead, Random, Cost, PolicyOf
            <4> QED BY <1>1, <2>3, <3>1, <4>1
        <3>3. Child(w, m, rank) \in Seen'
            BY <1>4, <2>2, <2>3, <3>1, <3>2
        <3>4. Random' \/ rank <= Cost(w, m)'
            BY <1>1, <2>2, <2>3, <3>1, <3>2 DEF Random, Cost, PolicyOf
        <3> QED BY <1>1, <3>3, <3>4 DEF HasNode, Child
    <2>4. ASSUME NEW k, During(w), BrokenAhead(k), k \in problem.broken[p]
          PROVE  BrokenAhead(k)'
        <3>1. PICK j \in rank..Len(suspects) : suspects[j] = k
            BY <2>4 DEF BrokenAhead
        <3>2. j # rank
            BY <1>1, <2>4, <3>1
        <3>3. j \in rank + 1..Len(suspects)
            BY <1>1, <3>1, <3>2
        <3> QED BY <1>1, <3>1, <3>3 DEF BrokenAhead
    <2> QED BY <1>1, <1>4, <2>1, <2>2, <2>3, <2>4, ExploredStays
<1>8. ASSUME NEW n \in (queue \cup {node})' PROVE OnPath(n)'
    <2>1. CASE n \in queue \cup {node}
        BY <1>1, <2>1, OnPathStays DEF FrontierInv
    <2>2. CASE n \notin queue \cup {node}
        <3>1. PICK m \in made : n = Child(node, m, rank)
            BY <1>1, <2>2
        <3>2. PICK q \in Cheapest!PathsOf(problem) :
                  q.chain = node.chain /\ (Random \/ q.cost <= node.total)
            BY DEF FrontierInv, OnPath
        <3>3. Cheapest!Ends(q.chain) = p
            BY <3>2 DEF Cheapest!Ends, PolicyOf
        <3>4. m \in Cheapest!MutantsOf(problem, Cheapest!Ends(q.chain))
            BY <1>3, <3>1, <3>3 DEF Cheapest!MutantsOf, Cheapest!Positions, Positions
        <3>5. Cheapest!Continues(problem, q.chain)
            <4>1. Continued(node)
                BY <1>1, <1>2, ContinuedWhenPromising DEF IInv, NodeInv
            <4> QED BY <3>2, <4>1 DEF Continued
        <3> DEFINE next == Cheapest!GoOn(problem, q, m)
        <3>6. next \in Cheapest!PathsOf(problem)
            BY <1>2, <3>4, <3>5, PathsGoOn
        <3>7. q \in PathType /\ Len(q.chain) > 0
            BY <1>2, PathsGoOn
        <3>8. next.chain = Append(q.chain, m)
              /\ next.cost = q.cost + Cheapest!StepCost(problem, p, m)
            BY <1>2, <3>3, <3>4, <3>7, GoOnIsPath
        <3> HIDE DEF next
        <3>9. n.chain = Append(node.chain, m) /\ n.total = node.total + rank
            BY <3>1 DEF Child
        <3>10. Random \/ Cheapest!StepCost(problem, p, m) <= rank
            <4> SUFFICES ASSUME ~Random PROVE Cheapest!StepCost(problem, p, m) <= rank
                OBVIOUS
            <4>1. suspects = problem.order[p]
                BY <1>1 DEF FrontierInv, OwnSuspects
            <4>2. m \in problem.mutants[p][problem.order[p][rank]]
                BY <3>1, <4>1
            <4>3. DOMAIN problem.order[p] = 1..Len(suspects)
                BY <1>2, <4>1 DEF IsProblem
            <4>4. rank \in DOMAIN problem.order[p]
                BY <1>1, <4>3
            <4> QED BY <1>2, <4>2, <4>4, StepCostBelow
        <3>11. Random \/ next.cost <= n.total
            <4>1. q.cost \in Nat /\ node.total \in Nat
                BY <1>2, <3>7 DEF PathType, Nodes
            <4>2. Cheapest!StepCost(problem, p, m) \in Nat
                <5>1. Len(problem.order[p]) \in Nat
                    BY <1>2 DEF IsProblem
                <5> QED BY <1>2, <3>3, <3>4, <5>1, StepCostIsLeast
            <4> QED BY <1>1, <3>2, <3>8, <3>9, <3>10, <4>1, <4>2
        <3>12. OnPath(n)
            BY <3>2, <3>6, <3>8, <3>9, <3>11 DEF OnPath
        <3> QED BY <1>1, <3>12, OnPathStays
    <2> QED BY <2>1, <2>2
<1> QED BY <1>1, <1>5, <1>6, <1>7, <1>8 DEF FrontierInv

LEMMA EndsKeepsFrontier == ASSUME IInv, FrontierInv, ExpandEnds PROVE FrontierInv'
<1>1. /\ pc = "expand" /\ rank > Len(suspects) /\ pc' = "poll"
      /\ UNCHANGED <<problem, queue, node, tested, static, suspects, rank>>
    BY DEF ExpandEnds
<1>2. Len(suspects) \in Nat /\ rank \in Nat
    BY DEF IInv, TypeOK
<1>3. Seen' = Seen /\ Root(problem)' \in Seen'
    BY <1>1 DEF Seen, FrontierInv, Active, Root
<1>4. OwnSuspects' /\ \A n \in (queue \cup {node})' : OnPath(n)'
    BY <1>1, OnPathStays DEF FrontierInv, OwnSuspects
<1>5. ASSUME NEW w \in tested PROVE Explored(w)'
    <2>1. Explored(w) /\ ~Before(w)
        BY <1>1 DEF FrontierInv, Active, Before
    <2>2. rank..Len(suspects) = {}
        BY <1>1, <1>2
    <2>3. \A m : ~MutantAhead(m) /\ ~BrokenAhead(m)
        BY <2>2 DEF MutantAhead, BrokenAhead
    <2> QED BY <1>1, <1>3, <2>1, <2>3, ExploredStays
<1> QED BY <1>1, <1>3, <1>4, <1>5 DEF FrontierInv

LEMMA StutterKeepsFrontier == ASSUME FrontierInv, UNCHANGED vars PROVE FrontierInv'
<1>1. UNCHANGED <<problem, pc, queue, node, tested, static, suspects, rank>>
    BY DEF vars
<1>2. /\ OwnSuspects' /\ \A n \in (queue \cup {node})' : OnPath(n)'
      /\ Seen' = Seen /\ (Active' <=> Active) /\ Root(problem)' = Root(problem)
    BY <1>1, OnPathStays DEF FrontierInv, OwnSuspects, Random, PolicyOf, Seen, Active, Root
<1>3. ASSUME NEW w, Explored(w) PROVE Explored(w)'
    BY <1>1, <1>2, <1>3, ExploredStays
       DEF Before, During, MutantAhead, BrokenAhead, Random, Cost, PolicyOf
<1> QED BY <1>1, <1>2, <1>3 DEF FrontierInv

LEMMA InitFrontier == ASSUME Init PROVE FrontierInv
<1> DEFINE root == Root(problem)
<1>1. IsProblem(problem) /\ queue = {root} /\ node = root /\ pc = "poll" /\ tested = {}
    BY ProblemsAssumption DEF Init
<1>2. OnPath(root)
    <2>1. /\ Cheapest!RootPath(problem) \in Cheapest!PathsOf(problem)
          /\ Cheapest!RootPath(problem).chain = root.chain
          /\ Cheapest!RootPath(problem).cost = 0 /\ root.total = 0
        BY <1>1, PathsGoOn DEF Cheapest!RootPath, Root
    <2> QED BY <2>1 DEF OnPath
<1>3. root \in Seen
    BY <1>1 DEF Seen
<1> QED BY <1>1, <1>2, <1>3 DEF FrontierInv, OwnSuspects

\* The frontier of a search is kept to its end.
LEMMA NextKeepsFrontier == IInv /\ FrontierInv /\ [Next]_vars => FrontierInv'
<1> SUFFICES ASSUME IInv, FrontierInv, [Next]_vars PROVE FrontierInv'
    OBVIOUS
<1>1. CASE Exhausted \/ ExpandThrows
    BY <1>1, EndKeepsFrontier DEF Exhausted, ExpandThrows
<1> QED BY <1>1, PollKeepsFrontier, TestKeepsFrontier, CheckKeepsFrontier, RankKeepsFrontier,
           ExpandKeepsFrontier, EndsKeepsFrontier, StutterKeepsFrontier DEF Next

-----------------------------------------------------------------------------
(* The answer.  Every path has been explored up to a node that waits, or   *)
(* is at work, and that is no dearer than the path.                        *)

Front == queue \cup IF pc = "poll" THEN {} ELSE {node}
Covers(w, q) == w.chain = q.chain /\ (Random \/ w.total <= q.cost)

LEMMA PathsAreCovered ==
    ASSUME IInv, FrontierInv, Active
    PROVE  \A q \in Cheapest!PathsOf(problem) :
               \/ \E w \in tested : Covers(w, q)
               \/ \E w \in Front : Random \/ w.total <= q.cost
<1> DEFINE All == Cheapest!PathsOf(problem)
           S == {q \in All : \/ \E w \in tested : Covers(w, q)
                             \/ \E w \in Front : Random \/ w.total <= q.cost}
<1>1. IsProblem(problem) /\ tested \subseteq Nodes /\ queue \cup {node} \subseteq Nodes
    BY ProblemsAssumption DEF IInv, TypeOK
<1>2. \A w \in Seen : w \in tested \/ w \in Front
    BY DEF Seen, Front
<1>3. Cheapest!RootPath(problem) \in S
    <2>1. /\ Root(problem).chain = Cheapest!RootPath(problem).chain
          /\ Root(problem).total = 0 /\ Cheapest!RootPath(problem).cost = 0
        BY DEF Root, Cheapest!RootPath
    <2>2. Root(problem) \in tested \/ Root(problem) \in Front
        BY <1>2 DEF FrontierInv
    <2>3. Cheapest!RootPath(problem) \in All
        BY <1>1, PathsGoOn
    <2> QED BY <2>1, <2>2, <2>3 DEF Covers
<1>4. ASSUME NEW q \in S, Cheapest!Continues(problem, q.chain),
             NEW m \in Cheapest!MutantsOf(problem, Cheapest!Ends(q.chain))
      PROVE  Cheapest!GoOn(problem, q, m) \in S
    <2> DEFINE next == Cheapest!GoOn(problem, q, m)
               cost == Cheapest!StepCost(problem, Cheapest!Ends(q.chain), m)
    <2>1. next \in All /\ q \in PathType /\ Len(q.chain) > 0
        BY <1>1, <1>4, PathsGoOn
    <2>2. next.chain = Append(q.chain, m) /\ next.cost = q.cost + cost /\ next \in PathType
        BY <1>1, <1>4, <2>1, GoOnIsPath
    <2>3. cost \in Nat /\ q.cost \in Nat /\ next.cost \in Nat
        <3>1. q.chain \in Seq(Policies) /\ Len(q.chain) \in 1..Len(q.chain)
            BY <2>1 DEF PathType
        <3>2. Cheapest!Ends(q.chain) \in Policies
            BY <3>1 DEF Cheapest!Ends
        <3>3. Len(problem.order[Cheapest!Ends(q.chain)]) \in Nat
            BY <1>1, <3>2 DEF IsProblem
        <3> QED BY <1>1, <1>4, <2>1, <2>2, <3>2, <3>3, StepCostIsLeast DEF PathType
    <2> HIDE DEF next, cost
    <2>4. CASE \E w \in Front : Random \/ w.total <= q.cost
        <3>1. PICK w \in Front : Random \/ w.total <= q.cost
            BY <2>4
        <3>2. w.total \in Nat
            BY <1>1 DEF Front, Nodes
        <3>3. Random \/ w.total <= next.cost
            BY <2>2, <2>3, <3>1, <3>2
        <3> QED BY <2>1, <3>3 DEF next
    <2>5. CASE \E w \in tested : Covers(w, q)
        <3>1. PICK w \in tested : w.chain = q.chain /\ (Random \/ w.total <= q.cost)
            BY <2>5 DEF Covers
        <3>2. /\ PolicyOf(w) = Cheapest!Ends(q.chain) /\ Cost(w, m) = cost /\ Continued(w)
              /\ w.total \in Nat
            BY <1>1, <1>4, <3>1 DEF PolicyOf, Cheapest!Ends, Cost, Continued, Nodes, cost
        <3>3. HasNode(w, m) \/ Before(w) \/ During(w)
            BY <1>4, <3>1, <3>2 DEF FrontierInv, Explored
        <3>4. CASE Before(w) \/ During(w)
            <4>1. w \in Front
                BY <3>4 DEF Front, Before, During
            <4>2. Random \/ w.total <= next.cost
                BY <2>2, <2>3, <3>1, <3>2
            <4> QED BY <2>1, <4>1, <4>2 DEF next
        <3>5. CASE HasNode(w, m)
            <4>1. PICK r \in Nat : Child(w, m, r) \in Seen /\ (Random \/ r <= cost)
                BY <3>2, <3>5 DEF HasNode
            <4> DEFINE child == Child(w, m, r)
            <4>2. child.chain = next.chain /\ child.total = w.total + r
                BY <2>2, <3>1 DEF Child
            <4>3. Random \/ child.total <= next.cost
                BY <2>2, <2>3, <3>1, <3>2, <4>1, <4>2
            <4>4. child \in tested \/ child \in Front
                BY <1>2, <4>1
            <4> HIDE DEF child
            <4> QED BY <2>1, <4>2, <4>3, <4>4 DEF Covers, next
        <3> QED BY <3>3, <3>4, <3>5
    <2> QED BY <1>4, <2>4, <2>5
<1>5. All \subseteq S
    <2> HIDE DEF S
    <2> QED BY <1>1, <1>3, <1>4, PathInduction
<1> QED BY <1>5

\* No repair, and between two nodes no trouble, is behind the frontier.
LEMMA GoalsAreAhead ==
    ASSUME IInv, FrontierInv, Active, NEW q \in Cheapest!PathsOf(problem),
           \/ q \in Cheapest!Repairs(problem)
           \/ q \in Cheapest!Troubles(problem) /\ pc \in {"poll", "test"}
    PROVE  \E w \in Front : Random \/ w.total <= q.cost
<1> SUFFICES ASSUME NEW w \in tested, Covers(w, q) PROVE FALSE
    BY PathsAreCovered
<1>1. Explored(w) /\ Cheapest!Ends(q.chain) = PolicyOf(w) /\ w.chain = q.chain
    BY DEF FrontierInv, Covers, Cheapest!Ends, PolicyOf
<1>2. CASE q \in Cheapest!Repairs(problem)
    BY <1>1, <1>2 DEF Cheapest!Repairs, Explored, Failed
<1>3. CASE q \in Cheapest!Troubles(problem) /\ pc \in {"poll", "test"}
    <2>1. ~Before(w) /\ ~During(w)
        BY <1>3 DEF Before, During
    <2>2. Continued(w) => Positions(problem, PolicyOf(w)) \cap problem.broken[PolicyOf(w)] = {}
        BY <1>1, <2>1 DEF Explored
    <2> QED BY <1>1, <1>3, <2>2
            DEF Cheapest!Troubles, Explored, Continued, Cheapest!Positions, Positions
<1> QED BY <1>2, <1>3

\* What was polled is no dearer than any of them.
LEMMA NodeIsCheapest ==
    ASSUME IInv, FrontierInv, Active, pc # "poll", NEW q \in Cheapest!PathsOf(problem),
           \/ q \in Cheapest!Repairs(problem)
           \/ q \in Cheapest!Troubles(problem) /\ pc = "test",
           NEW path \in Cheapest!PathsOf(problem), Random \/ path.cost <= node.total
    PROVE  Random \/ path.cost <= q.cost
<1>1. PICK w \in Front : Random \/ w.total <= q.cost
    BY GoalsAreAhead
<1>2. w.total >= node.total /\ w.total \in Nat /\ node.total \in Nat
    BY DEF Front, IInv, BestFirst, TypeOK, Nodes
<1>3. path.cost \in Nat /\ q.cost \in Nat
    BY PathsGoOn, ProblemsAssumption DEF IInv, PathType
<1> QED BY <1>1, <1>2, <1>3

\* The node that passes the tests is a cheapest repair.
LEMMA FoundIsPromised ==
    ASSUME IInv, FrontierInv, TestNode, pc' = "found"
    PROVE  [kind |-> "found", chain |-> node.chain] \in Cheapest!Promise(problem)
<1>1. /\ pc = "test" /\ node \notin tested /\ PolicyOf(node) \notin problem.crashes
      /\ Failed(PolicyOf(node)) = {} /\ Active
    BY DEF TestNode, IInv, FreshInv, Active
<1>2. PICK path \in Cheapest!PathsOf(problem) :
          path.chain = node.chain /\ (Random \/ path.cost <= node.total)
    BY DEF FrontierInv, OnPath
<1>3. path \in Cheapest!Repairs(problem)
    BY <1>1, <1>2 DEF Cheapest!Repairs, Cheapest!Ends, PolicyOf, Failed
<1>4. \A q \in Cheapest!Repairs(problem) \cup Cheapest!Troubles(problem) :
          q \in Cheapest!PathsOf(problem)
    BY DEF Cheapest!Repairs, Cheapest!Troubles
<1>5. \A q \in Cheapest!Repairs(problem) \cup Cheapest!Troubles(problem) :
          Random \/ path.cost <= q.cost
    BY <1>1, <1>2, <1>4, NodeIsCheapest
<1>6. Cheapest!NotCostlier(problem, path,
                           Cheapest!Repairs(problem) \cup Cheapest!Troubles(problem))
    BY <1>5 DEF Cheapest!NotCostlier, Random
<1> QED BY <1>2, <1>3, <1>6 DEF Cheapest!Promise

\* Trouble on the way is met only when no repair is cheaper.
LEMMA ExceptionIsPromised ==
    ASSUME IInv, FrontierInv, Active, pc # "poll", NEW path \in Cheapest!Troubles(problem),
           Random \/ path.cost <= node.total
    PROVE  [kind |-> "exception", chain |-> <<>>] \in Cheapest!Promise(problem)
<1>1. path \in Cheapest!PathsOf(problem)
    BY DEF Cheapest!Troubles
<1>2. \A q \in Cheapest!Repairs(problem) : q \in Cheapest!PathsOf(problem)
    BY DEF Cheapest!Repairs
<1>3. \A q \in Cheapest!Repairs(problem) : Random \/ path.cost <= q.cost
    BY <1>1, <1>2, NodeIsCheapest
<1>4. Cheapest!NotCostlier(problem, path, Cheapest!Repairs(problem))
    BY <1>3 DEF Cheapest!NotCostlier, Random
<1> QED BY <1>4 DEF Cheapest!Promise

LEMMA CrashIsTrouble ==
    ASSUME IInv, FrontierInv, TestNode, pc' = "exception"
    PROVE  \E path \in Cheapest!Troubles(problem) : Random \/ path.cost <= node.total
<1>1. PolicyOf(node) \in problem.crashes
    BY DEF TestNode
<1>2. PICK path \in Cheapest!PathsOf(problem) :
          path.chain = node.chain /\ (Random \/ path.cost <= node.total)
    BY DEF FrontierInv, OnPath
<1> QED BY <1>1, <1>2 DEF Cheapest!Troubles, Cheapest!Ends, PolicyOf

LEMMA ThrowIsTrouble ==
    ASSUME IInv, FrontierInv, ExpandThrows
    PROVE  \E path \in Cheapest!Troubles(problem) : Random \/ path.cost <= node.total
<1>1. /\ pc = "expand" /\ rank \in 1..Len(suspects)
      /\ suspects[rank] \in problem.broken[PolicyOf(node)] /\ Active
    BY DEF ExpandThrows, IInv, TypeOK, Active
<1>2. PICK path \in Cheapest!PathsOf(problem) :
          path.chain = node.chain /\ (Random \/ path.cost <= node.total)
    BY DEF FrontierInv, OnPath
<1>3. suspects[rank] \in Positions(problem, PolicyOf(node))
    BY <1>1 DEF IInv, NodeInv, TypeOK
<1>4. Continued(node)
    BY <1>1, ContinuedWhenPromising DEF IInv, NodeInv, FrontierInv, OwnSuspects
<1>5. Cheapest!Ends(path.chain) = PolicyOf(node) /\ Cheapest!Continues(problem, path.chain)
    BY <1>2, <1>4 DEF Cheapest!Ends, PolicyOf, Continued
<1> QED BY <1>1, <1>2, <1>3, <1>5 DEF Cheapest!Troubles, Cheapest!Positions, Positions

LEMMA NoneIsPromised ==
    ASSUME IInv, FrontierInv, Exhausted
    PROVE  [kind |-> "none", chain |-> <<>>] \in Cheapest!Promise(problem)
<1>1. Active /\ pc = "poll" /\ Front = {}
    BY DEF Exhausted, Active, Front
<1>2. Cheapest!Repairs(problem) \cup Cheapest!Troubles(problem) = {}
    BY <1>1, GoalsAreAhead DEF Cheapest!Repairs, Cheapest!Troubles
<1> QED BY <1>2 DEF Cheapest!Promise

\* A step of the search answers what was promised, or does not answer.
LEMMA StepAnswers ==
    ASSUME IInv, FrontierInv, [Next]_vars
    PROVE  [Cheapest!Answer]_<<problem, Outcome>>
<1> DEFINE Ended == {"found", "none", "exception"}
<1>0. Cheapest!NoOutcome = [kind |-> "searching", chain |-> <<>>]
    BY DEF Cheapest!NoOutcome
<1>1. problem' = problem
    BY DEF Next, vars, Poll, Exhausted, TestNode, CheckNode, RankSuspects, ExpandPosition,
           ExpandThrows, ExpandEnds
<1>2. CASE pc \notin Ended /\ pc' \notin Ended
    BY <1>1, <1>2 DEF Outcome
<1>3. CASE pc \in Ended
    <2>1. UNCHANGED vars
        BY <1>3 DEF Next, Poll, Exhausted, TestNode, CheckNode, RankSuspects, ExpandPosition,
                    ExpandThrows, ExpandEnds
    <2> QED BY <2>1 DEF vars, Outcome
<1>4. CASE pc \notin Ended /\ pc' \in Ended
    <2>1. Outcome = Cheapest!NoOutcome
        BY <1>0, <1>4 DEF Outcome
    <2>2. Exhausted \/ TestNode \/ ExpandThrows
        BY <1>4 DEF Next, vars, Poll, CheckNode, RankSuspects, ExpandPosition, ExpandEnds
    <2>3. Outcome' \in Cheapest!Promise(problem)
        <3>1. CASE Exhausted
            <4>1. Outcome' = [kind |-> "none", chain |-> <<>>]
                BY <3>1 DEF Exhausted, Outcome
            <4> QED BY <3>1, <4>1, NoneIsPromised
        <3>2. CASE TestNode /\ pc' = "found"
            <4>1. Outcome' = [kind |-> "found", chain |-> node.chain]
                BY <3>2 DEF TestNode, Outcome
            <4> QED BY <3>2, <4>1, FoundIsPromised
        <3>3. CASE TestNode /\ pc' = "exception"
            <4>1. Outcome' = [kind |-> "exception", chain |-> <<>>] /\ Active /\ pc # "poll"
                BY <3>3 DEF TestNode, Outcome, Active
            <4> QED BY <3>3, <4>1, CrashIsTrouble, ExceptionIsPromised
        <3>4. CASE ExpandThrows
            <4>1. Outcome' = [kind |-> "exception", chain |-> <<>>] /\ Active /\ pc # "poll"
                BY <3>4 DEF ExpandThrows, Outcome, Active
            <4> QED BY <3>4, <4>1, ThrowIsTrouble, ExceptionIsPromised
        <3>5. TestNode => pc' \in {"found", "exception"}
            BY <1>4 DEF TestNode
        <3> QED BY <2>2, <3>1, <3>2, <3>3, <3>4, <3>5
    <2> QED BY <1>1, <2>1, <2>3 DEF Cheapest!Answer
<1> QED BY <1>2, <1>3, <1>4

\* Whatever the policies, the tests, the diagnoses and the mutants, repair
\* answers with a cheapest repair within its depth, with an exception only
\* when none is cheaper than the trouble, and with none only when there is
\* neither: the safety half of FindsCheapestRepair.
THEOREM AnswersAreCheapest == Spec => Cheapest!Init /\ [][Cheapest!Answer]_<<problem, Outcome>>
<1>1. Init => Cheapest!Init
    BY DEF Init, Cheapest!Init, Outcome, Cheapest!NoOutcome
<1>2. Init => IInv /\ FrontierInv
    BY InitIInv, InitFrontier
<1>3. IInv /\ FrontierInv /\ [Next]_vars => (IInv /\ FrontierInv)'
    BY NextKeepsIInv, NextKeepsFrontier
<1>4. IInv /\ FrontierInv /\ [Next]_vars => [Cheapest!Answer]_<<problem, Outcome>>
    BY StepAnswers
<1> QED BY <1>1, <1>2, <1>3, <1>4, PTL DEF Spec

=============================================================================
