---------------------------- MODULE CombiningAlgs ---------------------------
(***************************************************************************)
(* The fifteen combine methods of StandardCombiningAlgFactory, and what    *)
(* tells their loops apart.                                                *)
(*                                                                         *)
(* The suffix 2 or 3 of an algorithm's name is its package (xacml2,        *)
(* xacml3).  The factory hands both generations to every policy whatever   *)
(* its version, so an xacml2 loop meets extended indeterminates and an     *)
(* xacml3 loop plain ones.  The four "ordered" variants of each generation *)
(* inherit the methods they order.                                         *)
(***************************************************************************)
EXTENDS Evaluation

RuleAlgs == {"DenyOverridesRule2", "PermitOverridesRule2", "FirstApplicableRule",
             "DenyOverridesRule3", "PermitOverridesRule3",
             "DenyUnlessPermitRule", "PermitUnlessDenyRule"}

UnlessPolicyAlgs == {"DenyUnlessPermitPolicy", "PermitUnlessDenyPolicy"}

MatchingAlgs == {"DenyOverridesPolicy2", "PermitOverridesPolicy2",
                 "FirstApplicablePolicy", "OnlyOneApplicable",
                 "DenyOverridesPolicy3", "PermitOverridesPolicy3"}

Algs == RuleAlgs \cup UnlessPolicyAlgs \cup MatchingAlgs

-----------------------------------------------------------------------------
(* Each loop is described by                                               *)
(*   returns: the decisions of a child that end the loop with its result;  *)
(*   gathers: the decision whose obligations are collected;                *)
(*   errors:  the indeterminate decisions a flag is kept for;              *)
(*   onMatchError: what an error of a child's target does.                 *)
Loop(returns, gathers, errors, onMatchError) ==
    [returns |-> returns, gathers |-> gathers, errors |-> errors, onMatchError |-> onMatchError]

DenyOverridesRule3Loop == Loop({Deny}, Permit, {"IndeterminateD", "IndeterminateP"}, "none")
PermitOverridesRule3Loop == Loop({Permit}, Deny, {"IndeterminateD", "IndeterminateP"}, "none")
DenyUnlessPermitRuleLoop == Loop({Permit}, Deny, {}, "none")
PermitUnlessDenyRuleLoop == Loop({Deny}, Permit, {}, "none")
DenyOverridesRule2Loop == Loop({Deny}, Permit, Indeterminates, "none")
\* The xacml2 loop has no braces around what it gathers and adds the obligations
\* of a NotApplicable result too, which has none.
PermitOverridesRule2Loop == Loop({Permit}, Deny, Indeterminates, "none")
FirstApplicableRuleLoop == Loop(Decisions \ {NotApplicable}, "none", {}, "none")

DenyOverridesPolicy3Loop == Loop({Deny}, Permit, Indeterminates \ {"Indeterminate"}, "deny")
PermitOverridesPolicy3Loop == Loop({Permit}, Deny, Indeterminates \ {"Indeterminate"}, "skip")
DenyUnlessPermitPolicyLoop == Loop({Permit}, Deny, {}, "none")
PermitUnlessDenyPolicyLoop == Loop({Deny}, Permit, {}, "none")
DenyOverridesPolicy2Loop == Loop({Deny}, Permit, {}, "deny")
PermitOverridesPolicy2Loop == Loop({Permit}, Deny, Indeterminates, "note")
\* It would pass over a result while the context is searching, which it never is.
FirstApplicablePolicyLoop == Loop(Decisions \ {NotApplicable}, "none", {}, "fail")
OnlyOneApplicableLoop == Loop({}, "none", {}, "fail")

LoopOf == [DenyOverridesRule2 |-> DenyOverridesRule2Loop,
           PermitOverridesRule2 |-> PermitOverridesRule2Loop,
           FirstApplicableRule |-> FirstApplicableRuleLoop,
           DenyOverridesRule3 |-> DenyOverridesRule3Loop,
           PermitOverridesRule3 |-> PermitOverridesRule3Loop,
           DenyUnlessPermitRule |-> DenyUnlessPermitRuleLoop,
           PermitUnlessDenyRule |-> PermitUnlessDenyRuleLoop,
           DenyUnlessPermitPolicy |-> DenyUnlessPermitPolicyLoop,
           PermitUnlessDenyPolicy |-> PermitUnlessDenyPolicyLoop,
           DenyOverridesPolicy2 |-> DenyOverridesPolicy2Loop,
           PermitOverridesPolicy2 |-> PermitOverridesPolicy2Loop,
           FirstApplicablePolicy |-> FirstApplicablePolicyLoop,
           OnlyOneApplicable |-> OnlyOneApplicableLoop,
           DenyOverridesPolicy3 |-> DenyOverridesPolicy3Loop,
           PermitOverridesPolicy3 |-> PermitOverridesPolicy3Loop]

=============================================================================
