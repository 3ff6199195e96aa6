----------------------------- MODULE MCMutation -----------------------------
(* Policies for TLC.  The first applies the first applicable of three rules: *)
(* a Permit rule whose target has two AllOf, one of two Match, and whose     *)
(* condition has a Function element; a Deny rule with a negated condition    *)
(* and no target; a Permit rule whose second AnyOf has more AllOf than its   *)
(* first.  The second has a target, a rule with two AnyOf of one AllOf each, *)
(* which RPTE cannot remove, and a rule of a data type that the Mutator does *)
(* not know.                                                                 *)
EXTENDS Mutation

Match(f, a, t, v) == [function |-> f, attribute |-> a, type |-> t, value |-> v]
Condition(n, f, t) ==
    <<[nots |-> n, form |-> f, function |-> "equal", attribute |-> "role", type |-> t]>>
Rule(i, e, t, c) == [id |-> i, effect |-> e, target |-> t, condition |-> c]

Physician == Match("equal", "role", "string", "physician")
Create == Match("equal", "action", "string", "a")
Recent == Match("greater-than", "action", "date", "b")
Active == Match("equal", "action", "boolean", "true")
Mail == Match("equal", "role", "anyURI", "a")

FirstApplicable ==
    [alg |-> "first-applicable", target |-> <<>>,
     rules |-> <<Rule("r1", Permit, <<<< <<Physician, Create>>, <<Recent>> >>>>, Condition(0, "bags", "string")),
                 Rule("r2", Deny, <<>>, Condition(1, "value", "boolean")),
                 Rule("r3", Permit, <<<< <<Active>> >>, << <<Physician>>, <<Create, Recent, Active>> >>>>, <<>>)>>]

DenyOverrides ==
    [alg |-> "deny-overrides", target |-> <<<< <<Physician>> >>>>,
     rules |-> <<Rule("r1", Deny, <<<< <<Physician>> >>, << <<Create, Active>> >>>>, Condition(0, "bags", "integer")),
                 Rule("r2", Permit, <<<< <<Mail>> >>>>, Condition(0, "bags", "anyURI"))>>]

MCPolicies == {FirstApplicable, DenyOverrides}

MCRuleIds == {"r1", "r2", "r3"} \cup NewRuleIds
MCAttributes == {"role", "action"}
MCValues == {"a", "b", "physician", "true", "false"}

MCRequests ==
    {[attribute \in MCAttributes |-> IF attribute = "role" THEN r ELSE t] :
        r \in SUBSET {"a", "b", "physician"}, t \in SUBSET {"a", "b", "true", "false"}}

=============================================================================
