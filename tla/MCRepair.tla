------------------------------ MODULE MCRepair ------------------------------
(* Repairs for TLC: a faulty policy with two positions and four mutants, of   *)
(* which some are mutants of each other and one is reached over several       *)
(* paths; every way the mutants can fail the two tests, several diagnoses,    *)
(* searches that end above, at and below the layer of a repair, a mutant that *)
(* crashes and a position where the mutator throws.                           *)
EXTENDS Repair

Mutants == {"m1", "m2", "m3", "m4"}

At(first, second) == <<first, second>>
MutantsUnderTest ==
    [p \in Policies |->
        CASE p = "faulty" -> At({"m1", "m2"}, {"m3"})
          [] p = "m1" -> At({"m3"}, {"m4"})
          [] p = "m2" -> At({"m4"}, {})
          [] p = "m3" -> At({"faulty"}, {"m2", "m4"})
          [] OTHER -> At({}, {"m3"})]

\* Every mutant passes a test of the two: a failed test of one may pass in
\* another.
FailedUnderTest ==
    {[p \in Policies |-> IF p = "faulty" THEN Tests ELSE f[p]] :
        f \in [Mutants -> {{}, {"t1"}, {"t2"}}]}

Order(backwards) == [p \in Policies |-> IF p \in backwards THEN <<2, 1>> ELSE <<1, 2>>]

\* No trouble, a mutant that crashes, a position where the mutator throws.
Troubled(p) ==
    {[p EXCEPT !.crashes = {"m3"}], [p EXCEPT !.broken["m1"] = {2}]}

Problem(failed, backwards, depth, method) ==
    [root |-> "faulty", failed |-> failed, crashes |-> {}, order |-> Order(backwards),
     mutants |-> MutantsUnderTest, broken |-> [p \in Policies |-> {}],
     depth |-> depth, method |-> method]

Scored(depth) ==
    {Problem(f, b, depth, "scored") : f \in FailedUnderTest, b \in {{}, {"faulty", "m3"}}}
Random == {Problem(f, {}, 2, "random") : f \in FailedUnderTest}

MCProblems ==
    Scored(2) \cup Scored(3) \cup Random
    \cup UNION {Troubled(p) : p \in Scored(2) \cup Random}
    \cup {Problem(f, {}, 0, "scored") : f \in FailedUnderTest}

=============================================================================
