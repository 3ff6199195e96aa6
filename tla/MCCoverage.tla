----------------------------- MODULE MCCoverage -----------------------------
(* Suites for TLC.  A policy of one rule meets every state of its target and *)
(* condition; policies of two rules meet an effect, a rule that does not     *)
(* apply and an error in each place; one policy has no target and one has    *)
(* two rules of the same id.  In suites of two tests each kind of test comes *)
(* before and after one that fills its row and one that does not parse.      *)
EXTENDS Coverage

RuleDecl(i, v, e) == [id |-> i, version |-> v, effect |-> e]
Policy(a, t, r) == [alg |-> a, targeted |-> t, rules |-> r]
Outcome(t, c) == [target |-> t, condition |-> c]
Test(p, t, o, d) == [parses |-> p, target |-> t, outcomes |-> o, oracle |-> d]

OneRule == Policy("DenyUnlessPermitRule", TRUE, <<RuleDecl("r1", "3.0", Permit)>>)
TwoRules(a) == Policy(a, TRUE, <<RuleDecl("r1", "3.0", Deny), RuleDecl("r2", "2.0", Permit)>>)
NoTarget == Policy("DenyUnlessPermitRule", FALSE, <<RuleDecl("r1", "3.0", Permit)>>)
SameIds == Policy("DenyUnlessPermitRule", TRUE,
                  <<RuleDecl("r1", "3.0", Deny), RuleDecl("r1", "3.0", Permit)>>)

Applies == Outcome("Match", "none")

\* The kinds of tests of a policy of n rules, with those outcomes.
Kinds(n, outcomes) ==
    {Test(TRUE, "Match", o, Deny) : o \in [1..n -> outcomes]}
    \cup {Test(TRUE, t, [k \in 1..n |-> Applies], NotApplicable) : t \in {"NoMatch", "Error"}}
    \cup {Test(FALSE, "Match", [k \in 1..n |-> Applies], Permit)}

Company(n) ==
    {Test(p, "Match", [k \in 1..n |-> Applies], Permit) : p \in BOOLEAN}

Suites(n, outcomes) ==
    UNION {{<<t, u>>, <<u, t>>} : t \in Kinds(n, outcomes), u \in Company(n)}

Three == {Applies, Outcome("none", "False"), Outcome("Error", "none")}

MCJobs ==
    [policy : {OneRule}, tests : {<<t>> : t \in Kinds(1, [target : TargetResults, condition : ConditionResults])}]
    \cup [policy : {TwoRules("FirstApplicableRule")}, tests : Suites(2, Three)]
    \cup [policy : {TwoRules("DenyOverridesRule2"), TwoRules("PermitOverridesRule3")},
          tests : {<<t>> : t \in Kinds(2, Three)}]
    \cup [policy : {NoTarget}, tests : {<<t>> : t \in Company(1)}]
    \cup [policy : {SameIds}, tests : {<<t>> : t \in Company(2)}]

=============================================================================
