---------------------------- MODULE MCCombining -----------------------------
(* Instances of Combining for TLC.  The rule instance has one rule for each *)
(* way of reaching each decision; the policy instance one child policy for  *)
(* each result of its target and each decision it can return.  Lists of up  *)
(* to MaxKids children contain every pair of kinds with a third child       *)
(* before, between or after them.                                           *)
EXTENDS Combining, SequencesExt

CONSTANTS MaxKids, AlgsUnderTest

Rule(v, e, t, c) == [version |-> v, effect |-> e, target |-> t, condition |-> c]

RulesUnderTest ==
    {Rule("3.0", e, "none", "none") : e \in Effects}
    \cup {Rule("3.0", e, "Error", "True") : e \in Effects}
    \cup {Rule("2.0", e, "Match", "Error") : e \in Effects}
    \cup {Rule("3.0", Permit, "Match", "False"), Rule("3.0", Deny, "NoMatch", "True")}

PoliciesUnderTest ==
    {[target |-> "Match", inner |-> d] : d \in Decisions}
    \cup {[target |-> t, inner |-> Deny] : t \in {"NoMatch", "Error", "none"}}

Kinds(a) == IF a \in RuleAlgs THEN RulesUnderTest ELSE PoliciesUnderTest

Call(a, k, t, f) == [alg |-> a, kids |-> k, target |-> t, fulfilOn |-> f]

MCCalls ==
    UNION {{Call(a, k, "Match", {Permit}) : k \in BoundedSeq(Kinds(a), MaxKids)} :
              a \in AlgsUnderTest}
    \cup UNION {{Call(a, k, t, Effects) : k \in BoundedSeq(Kinds(a), 1), t \in TargetResults} :
              a \in AlgsUnderTest}

=============================================================================
