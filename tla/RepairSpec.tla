----------------------------- MODULE RepairSpec -----------------------------
(***************************************************************************)
(* What a repair promises, without a queue.  The paths of the search are   *)
(* all the lists of policies that start at the faulty one, go from a       *)
(* policy to a mutant of it, and go on only from a policy that fails some  *)
(* test and none that the policy before it passes.  Each step costs the    *)
(* place its position has in the diagnosis; the promise is a path of least *)
(* cost to a policy that passes every test.                                *)
(***************************************************************************)
EXTENDS RepairProblem

VARIABLES problem, outcome

Ends(path) == path[Len(path)]

\* A path that is gone on from.
Continues(p, path) ==
    /\ Ends(path) \notin p.crashes
    /\ p.failed[Ends(path)] # {}
    /\ Len(path) > 1 => p.failed[Ends(path)] \subseteq p.failed[path[Len(path) - 1]]
    /\ Len(path) <= p.depth

\* The cheapest place in the diagnosis where the mutant is made.
StepCost(p, policy, mutant) ==
    LET places == {k \in DOMAIN p.order[policy] : mutant \in p.mutants[policy][p.order[policy][k]]}
    IN  CHOOSE k \in places : \A l \in places : k <= l

RootPath(p) == [chain |-> <<p.root>>, cost |-> 0]

MutantsOf(p, policy) == UNION {p.mutants[policy][k] : k \in Positions(p, policy)}

GoOn(p, path, m) ==
    [chain |-> Append(path.chain, m), cost |-> path.cost + StepCost(p, Ends(path.chain), m)]

\* The paths one step longer than those that are gone on from.
Longer(p, paths) ==
    UNION {{GoOn(p, path, m) : m \in MutantsOf(p, Ends(path.chain))} :
               path \in {q \in paths : Continues(p, q.chain)}}

\* The paths of n steps with their costs, for every n.
PathsOf(p) ==
    LET Paths[n \in 0..p.depth] == IF n = 0 THEN {RootPath(p)} ELSE Longer(p, Paths[n - 1])
    IN  UNION {Paths[n] : n \in 0..p.depth}

Repairs(p) ==
    {path \in PathsOf(p) : Ends(path.chain) \notin p.crashes /\ p.failed[Ends(path.chain)] = {}}

\* Paths at whose end an exception awaits the search.
Troubles(p) ==
    {path \in PathsOf(p) :
        \/ Ends(path.chain) \in p.crashes
        \/ /\ Continues(p, path.chain)
           /\ Positions(p, Ends(path.chain)) \cap p.broken[Ends(path.chain)] # {}}

\* A random diagnosis gives no costs to compare.
NotCostlier(p, path, others) ==
    p.method = "random" \/ \A other \in others : path.cost <= other.cost

NoOutcome == [kind |-> "searching", chain |-> <<>>]

Promise(p) ==
    {[kind |-> "found", chain |-> path.chain] :
        path \in {q \in Repairs(p) : NotCostlier(p, q, Repairs(p) \cup Troubles(p))}}
    \cup {[kind |-> "exception", chain |-> <<>>] :
             path \in {q \in Troubles(p) : NotCostlier(p, q, Repairs(p))}}
    \cup (IF Repairs(p) \cup Troubles(p) = {} THEN {[kind |-> "none", chain |-> <<>>]} ELSE {})

Init == problem \in Problems /\ outcome = NoOutcome

Answer ==
    /\ outcome = NoOutcome
    /\ outcome' \in Promise(problem)
    /\ UNCHANGED problem

\* One answer, and in the end an answer.
Spec == Init /\ [][Answer]_<<problem, outcome>> /\ <>(outcome # NoOutcome)

=============================================================================
