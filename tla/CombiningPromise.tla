------------------------- MODULE CombiningPromise --------------------------
(***************************************************************************)
(* What AbstractPolicy.evaluate may answer, with no loop: the answer       *)
(* depends on the SET of the children (only first-applicable may look at   *)
(* their order).                                                           *)
(*                                                                         *)
(* An error in a child leaves open what the child would have said.  A      *)
(* world resolves every error one way; the overrides algorithms are judged *)
(* by the answers they would give in all worlds.                           *)
(***************************************************************************)
EXTENDS Evaluation

Crash == "NullPointerException"

Kids(c) == {c.kids[k] : k \in DOMAIN c.kids}

\* What a child policy contributes; "MatchError" when its target has an error.
PolicyValue(policy) ==
    IF policy.target = "NoMatch" THEN NotApplicable
    ELSE IF policy.target = "Error" THEN "MatchError" ELSE policy.inner

\* Without match(), an error of the target is a policy that does not apply.
UnmatchedValue(policy) ==
    IF policy.target \in {"NoMatch", "Error"} THEN NotApplicable ELSE policy.inner

\* What a child could have answered without its errors.
Worlds(decision) ==
    IF decision = "IndeterminateP" THEN {Permit, NotApplicable}
    ELSE IF decision = "IndeterminateD" THEN {Deny, NotApplicable}
    ELSE IF decision = "IndeterminateDP" THEN {Permit, Deny, NotApplicable}
    ELSE {decision}
RuleWorlds(rule) ==
    IF RuleEvaluate(rule) \in Indeterminates THEN {rule.effect, NotApplicable}
    ELSE {RuleEvaluate(rule)}

Loser(winner) == IF winner = Permit THEN Deny ELSE Permit

\* The answer of an overrides algorithm over children without errors.
Overrides(winner, answers) ==
    IF winner \in answers THEN winner
    ELSE IF answers \subseteq {NotApplicable} THEN NotApplicable
    ELSE Loser(winner)

\* The answers over all worlds; worlds is a set of sets of decisions, one for
\* each kind of child.
Outcomes(winner, worlds) ==
    {Overrides(winner, {w[ws] : ws \in worlds}) :
        w \in {f \in [worlds -> Effects \cup {NotApplicable}] : \A ws \in worlds : f[ws] \in ws}}

Certain(outcomes) == \E o \in outcomes : outcomes = {o}

\* The decision that stands for a set of outcomes.
Extended(outcomes) ==
    IF Certain(outcomes) THEN CHOOSE o \in outcomes : TRUE
    ELSE IF Permit \notin outcomes THEN "IndeterminateD"
    ELSE IF Deny \notin outcomes THEN "IndeterminateP"
    ELSE "IndeterminateDP"

-----------------------------------------------------------------------------
\* The xacml3 overrides algorithms.  An error without an extension is not seen
\* by them.  permit-overrides forgets children that might have denied when
\* nothing else applies; over policies, deny-overrides reports
\* IndeterminateDP only when a Permit and an IndeterminateP stand beside the
\* IndeterminateD, and answers Deny to an error in a target.
Promise3(c) ==
    LET winner == IF c.alg \in {"DenyOverridesRule3", "DenyOverridesPolicy3"} THEN Deny ELSE Permit
        values == IF c.alg \in {"DenyOverridesRule3", "PermitOverridesRule3"}
                  THEN {RuleEvaluate(rule) : rule \in Kids(c)}
                  ELSE {PolicyValue(policy) : policy \in Kids(c)}
        outcomes == Outcomes(winner, {Worlds(v) : v \in values \ {"Indeterminate", "MatchError"}})
    IN  IF winner = Permit /\ Extended(outcomes) = "IndeterminateD" THEN NotApplicable
        ELSE IF c.alg # "DenyOverridesPolicy3" THEN Extended(outcomes)
        ELSE IF "MatchError" \in values THEN Deny
        ELSE IF /\ Extended(outcomes) = "IndeterminateDP"
                /\ "IndeterminateDP" \notin values
                /\ {Permit, "IndeterminateP"} \ values # {}
        THEN "IndeterminateD" ELSE Extended(outcomes)

\* The xacml2 overrides algorithms over rules: a definite answer is the
\* answer in every world, otherwise one of the errors met.
PromiseRule2(c) ==
    LET winner == IF c.alg = "DenyOverridesRule2" THEN Deny ELSE Permit
        outcomes == Outcomes(winner, {RuleWorlds(rule) : rule \in Kids(c)})
    IN  IF Certain(outcomes) THEN outcomes
        ELSE {RuleEvaluate(rule) : rule \in Kids(c)} \cap Indeterminates

\* The xacml2 overrides algorithms over policies: an error is a Deny for one
\* and comes after every definite answer for the other.
PromisePolicy2(c) ==
    LET values == {PolicyValue(policy) : policy \in Kids(c)}
        errors == values \cap (Indeterminates \cup {"MatchError"})
    IN  IF c.alg = "DenyOverridesPolicy2"
        THEN Overrides(Deny, IF errors # {} THEN {Deny} ELSE values)
        ELSE IF errors # {} /\ values \cap Effects = {} THEN "Indeterminate"
        ELSE Overrides(Permit, values \ errors)

\* The answer of the first child that applies.
PromiseFirst(c) ==
    LET Reply(k) == IF c.alg = "FirstApplicableRule" THEN RuleEvaluate(c.kids[k])
                    ELSE IF c.kids[k].target = "Error" THEN "Indeterminate"
                    ELSE IF c.kids[k].target = "none" THEN Crash
                    ELSE PolicyValue(c.kids[k])
        applying == {k \in DOMAIN c.kids : Reply(k) # NotApplicable}
    IN  IF applying = {} THEN NotApplicable
        ELSE Reply(CHOOSE k \in applying : \A j \in applying : k <= j)

\* Exactly one child whose target matches.
PromiseOnlyOne(c) ==
    LET matching == {k \in DOMAIN c.kids : c.kids[k].target = "Match"}
    IN  IF (\E j, k \in matching : j # k) \/ \E k \in DOMAIN c.kids : c.kids[k].target = "Error"
        THEN "Indeterminate"
        ELSE IF matching = {} THEN NotApplicable
        ELSE c.kids[CHOOSE k \in matching : TRUE].inner

PromiseUnless(c) ==
    LET values == IF c.alg \in {"DenyUnlessPermitRule", "PermitUnlessDenyRule"}
                  THEN {RuleEvaluate(rule) : rule \in Kids(c)}
                  ELSE {UnmatchedValue(policy) : policy \in Kids(c)}
        winner == IF c.alg \in {"DenyUnlessPermitRule", "DenyUnlessPermitPolicy"} THEN Permit ELSE Deny
    IN  IF winner \in values THEN winner ELSE Loser(winner)

Verdicts(c) ==
    IF c.alg \in {"DenyOverridesRule3", "PermitOverridesRule3",
                  "DenyOverridesPolicy3", "PermitOverridesPolicy3"} THEN {Promise3(c)}
    ELSE IF c.alg \in {"DenyOverridesRule2", "PermitOverridesRule2"} THEN PromiseRule2(c)
    ELSE IF c.alg \in {"DenyOverridesPolicy2", "PermitOverridesPolicy2"} THEN {PromisePolicy2(c)}
    ELSE IF c.alg \in {"FirstApplicableRule", "FirstApplicablePolicy"} THEN {PromiseFirst(c)}
    ELSE IF c.alg = "OnlyOneApplicable" THEN {PromiseOnlyOne(c)}
    ELSE {PromiseUnless(c)}

\* The verdict that ends the loop of an algorithm that matches its children,
\* so that a later child without a target is never reached.
Stopping(c) ==
    IF c.alg \in {"DenyOverridesPolicy2", "DenyOverridesPolicy3"} THEN {Deny}
    ELSE IF c.alg \in {"PermitOverridesPolicy2", "PermitOverridesPolicy3"} THEN {Permit}
    ELSE IF c.alg = "OnlyOneApplicable" THEN {"Indeterminate"}
    ELSE {}

\* A call in which the children without a target say nothing.
Silenced(c) ==
    [c EXCEPT !.kids = [k \in DOMAIN c.kids |->
        IF c.kids[k].target = "none" THEN [c.kids[k] EXCEPT !.target = "NoMatch"] ELSE c.kids[k]]]

\* What may be answered to a call.
Promise(c) ==
    IF c.target \in {"NoMatch", "Error"} THEN {NotApplicable}
    ELSE IF Stopping(c) # {} /\ \E policy \in Kids(c) : policy.target = "none"
         THEN {Crash} \cup (Verdicts(Silenced(c)) \cap Stopping(c))
    ELSE Verdicts(c)

=============================================================================
