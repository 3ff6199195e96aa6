----------------------------- MODULE Evaluation -----------------------------
(***************************************************************************)
(* What the PDP computes without keeping state: matching a target, and     *)
(* evaluating one rule.  The loops of the source are written as the        *)
(* quantifiers they compute; the order of a loop matters only for the      *)
(* status text of an error, which no property here is about.               *)
(***************************************************************************)
EXTENDS Naturals, Sequences, FiniteSets

Permit == "Permit"
Deny   == "Deny"
NotApplicable == "NotApplicable"

Effects == {Permit, Deny}

\* AbstractResult.DECISION_INDETERMINATE and its three extended forms: the
\* last letters say which effects the erroneous child could have had.
Indeterminates ==
    {"Indeterminate", "IndeterminateD", "IndeterminateP", "IndeterminateDP"}

Decisions == Effects \cup {NotApplicable} \cup Indeterminates

\* The three results of MatchResult ("Error" is INDETERMINATE, kept apart
\* from the decisions of that name).
MatchResults == {"Match", "NoMatch", "Error"}

-----------------------------------------------------------------------------
(* Targets: a target is a conjunction of AnyOf, an AnyOf a disjunction of  *)
(* AllOf, an AllOf a conjunction of Match.                                 *)

\* Target.match and AllOfSelection.match: NO_MATCH ends the loop, an error
\* is remembered.
AllMatch(results) ==
    IF "NoMatch" \in results THEN "NoMatch"
    ELSE IF "Error" \in results THEN "Error" ELSE "Match"

\* AnyOfSelection.match and the bag loop of TargetMatch.match: MATCH ends the
\* loop, an error is remembered.
AnyMatches(results) ==
    IF "Match" \in results THEN "Match"
    ELSE IF "Error" \in results THEN "Error" ELSE "NoMatch"

\* TargetMatch.match: the function's results on the values of the bag;
\* {"Error"} when the designator cannot be resolved.
MatchBag(bag) == AnyMatches(bag)

AllOfMatch(allOf) == AllMatch({MatchBag(bag) : bag \in allOf})
AnyOfMatch(anyOf) == AnyMatches({AllOfMatch(allOf) : allOf \in anyOf})
TargetMatch(target) == AllMatch({AnyOfMatch(anyOf) : anyOf \in target})

-----------------------------------------------------------------------------
(* Rules.  target and condition hold what they evaluate to on the request  *)
(* at hand, or "none" where the rule has no such element.                  *)

TargetResults    == MatchResults \cup {"none"}
ConditionResults == {"True", "False", "Error", "none"}

Rules == [version   : {"2.0", "3.0"},
          effect    : Effects,
          target    : TargetResults,
          condition : ConditionResults]

\* The decision of a rule whose target or condition has an error: extended
\* with the rule's effect from XACML 3.0 on.
RuleError(rule) ==
    IF rule.version # "3.0" THEN "Indeterminate"
    ELSE IF rule.effect = Permit THEN "IndeterminateP" ELSE "IndeterminateD"

\* Rule.evaluate.  A rule without a target inherits its policy's.
RuleEvaluate(rule) ==
    IF rule.target = "NoMatch" THEN NotApplicable
    ELSE IF rule.target = "Error" \/ rule.condition = "Error" THEN RuleError(rule)
    ELSE IF rule.condition = "False" THEN NotApplicable
    ELSE rule.effect

=============================================================================
