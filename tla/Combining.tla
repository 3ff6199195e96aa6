----------------------------- MODULE Combining ------------------------------
(***************************************************************************)
(* One call of AbstractPolicy.evaluate: the target check, the combining    *)
(* algorithm's loop over the rules or the policies below, and the          *)
(* obligations of the policy itself, under each of the algorithms of       *)
(* CombiningAlgs.                                                          *)
(***************************************************************************)
EXTENDS CombiningAlgs, CombiningPromise

CONSTANT Calls    \* the evaluations to make: records of the set CallRecords

\* A child policy: what its target evaluates to ("none" when the policy was
\* built without one) and what its own combining algorithm returns.
Policies == [target : TargetResults, inner : Decisions]

CallRecords ==
    [alg : Algs, kids : Seq(Rules \cup Policies), target : TargetResults,
     fulfilOn : SUBSET Effects]

ASSUME CallsAssumption ==
    \A c \in Calls :
        /\ c \in CallRecords
        /\ c.kids \in Seq(IF c.alg \in RuleAlgs THEN Rules ELSE Policies)

-----------------------------------------------------------------------------
VARIABLES
    call,         \* the evaluation in progress; never changes
    pc,           \* "target", "iterate", "evaluate", "obligations" or "done"
    i,            \* how many children the iterator has handed out
    seen,         \* the decisions noted so far: the atLeastOne... flags
    first,        \* child that set firstIndeterminateResult..., 0 when null
    potential,    \* potentialDeny, potentialPermit of the xacml2 rule loops
    obligations,  \* children whose obligations were gathered
    selected,     \* selectedPolicy of only-one-applicable, 0 when null
    result        \* what evaluate returns

vars == <<call, pc, i, seen, first, potential, obligations, selected, result>>

alg  == call.alg
kids == call.kids

\* A result carries the children whose obligations it returns and the child
\* whose status explains an error (0: none).  own: the policy's obligations.
Fresh(decision, cause) ==
    [decision |-> decision, obligations |-> {}, cause |-> cause, own |-> {}]
Gathered(decision) == [Fresh(decision, 0) EXCEPT !.obligations = obligations]
\* A child's own result, returned as it is.
Passed(decision, kid) ==
    [decision    |-> decision,
     obligations |-> IF decision \in Effects THEN {kid} ELSE {},
     cause       |-> IF decision \in Indeterminates THEN kid ELSE 0,
     own         |-> {}]

NoResult == Fresh("none", 0)

loop == LoopOf[alg]

\* xacml3 keeps the first result of each kind of error, xacml2 the first error.
Slot(decision) ==
    IF alg \in {"DenyOverridesRule2", "PermitOverridesRule2", "PermitOverridesPolicy2"}
    THEN "Indeterminate" ELSE decision

\* Mutant of NoteError: remembers the next child.
NoteErrorOffByOne(decision, kid) ==
    /\ seen'  = seen \cup {decision}
    /\ first' = [first EXCEPT ![Slot(decision)] = kid + 1]

\* An error of kid: flag it, and remember the first one of its slot.
NoteError(decision, kid) ==
    /\ seen'  = seen \cup {decision}
    /\ first' = IF first[Slot(decision)] = 0
                THEN [first EXCEPT ![Slot(decision)] = kid] ELSE first

\* Mutant of Note: gathers whatever the decision, as if braces were missing.
NoteWithoutBraces(decision, kid) ==
    /\ obligations' = obligations \cup {kid}
    /\ IF decision = loop.gathers
       THEN seen' = seen \cup {decision} /\ UNCHANGED first
       ELSE IF decision \in loop.errors THEN NoteError(decision, kid) ELSE UNCHANGED <<seen, first>>

\* What the loop body does with a decision that does not end the loop.
Note(decision, kid) ==
    IF decision = loop.gathers
    THEN /\ seen' = seen \cup {decision}
         /\ obligations' = obligations \cup {kid}
         /\ UNCHANGED first
    ELSE /\ UNCHANGED obligations
         /\ IF decision \in loop.errors
            THEN NoteError(decision, kid) ELSE UNCHANGED <<seen, first>>

-----------------------------------------------------------------------------
Init ==
    /\ call \in Calls
    /\ pc = "target"
    /\ i = 0
    /\ seen = {}
    /\ first = [d \in Indeterminates |-> 0]
    /\ potential = FALSE
    /\ obligations = {}
    /\ selected = 0
    /\ result = NoResult

Return(r) == pc' = "obligations" /\ result' = r

\* An unguarded target.match(context) on a null target: the exception leaves
\* evaluate without a result.
Throw == pc' = "done" /\ result' = Fresh("NullPointerException", 0)

\* AbstractPolicy.evaluate, its target check: no target counts as a match,
\* NO_MATCH and INDETERMINATE both answer NOT_APPLICABLE.
CheckTarget ==
    /\ pc = "target"
    /\ \/ /\ call.target \in {"none", "Match"}
          /\ pc' = "iterate"
          /\ UNCHANGED result
       \/ /\ call.target \in {"NoMatch", "Error"}
          /\ pc' = "done"
          /\ result' = Fresh(NotApplicable, 0)
    /\ UNCHANGED <<call, i, seen, first, potential, obligations, selected>>

\* One round of a rule loop.  The xacml2 loops also remember that a rule with
\* an error has the effect that would have won.
EvaluateRule ==
    /\ pc = "iterate" /\ alg \in RuleAlgs /\ i < Len(kids)
    /\ i' = i + 1
    /\ LET rule == kids[i + 1]
           value == RuleEvaluate(rule)
       IN  IF value \in loop.returns
           THEN Return(Passed(value, i + 1)) /\ UNCHANGED <<seen, first, obligations, potential>>
           ELSE /\ Note(value, i + 1)
                /\ potential' = (potential \/ /\ alg \in {"DenyOverridesRule2", "PermitOverridesRule2"}
                                              /\ value \in Indeterminates
                                              /\ rule.effect \in loop.returns)
                /\ UNCHANGED <<pc, result>>
    /\ UNCHANGED <<call, selected>>

\* AbstractPolicy.evaluate on a child: its own target check comes first.
PolicyEvaluate(policy) ==
    IF policy.target \in {"NoMatch", "Error"} THEN NotApplicable ELSE policy.inner

\* What a policy loop does with a child's decision.  xacml2 deny-overrides
\* turns every error into a new DENY.
Weigh(value, kid) ==
    \/ /\ value \in loop.returns
       /\ Return(Passed(value, kid))
       /\ UNCHANGED <<seen, first, obligations>>
    \/ /\ alg = "DenyOverridesPolicy2" /\ value \in Indeterminates
       /\ Return(Fresh(Deny, 0))
       /\ UNCHANGED <<seen, first, obligations>>
    \/ /\ value \notin loop.returns
       /\ ~(alg = "DenyOverridesPolicy2" /\ value \in Indeterminates)
       /\ Note(value, kid)
       /\ pc' = "iterate"
       /\ UNCHANGED result

\* deny-unless-permit and permit-unless-deny over policies: evaluate, no match.
EvaluateUnmatched ==
    /\ pc = "iterate" /\ alg \in UnlessPolicyAlgs /\ i < Len(kids)
    /\ i' = i + 1
    /\ Weigh(PolicyEvaluate(kids[i + 1]), i + 1)
    /\ UNCHANGED <<call, potential, selected>>

\* Mutant of MatchError: fails without the status of the match.
MatchErrorWithoutStatus(kid) ==
    \/ loop.onMatchError = "deny" /\ Return(Fresh(Deny, 0)) /\ UNCHANGED <<seen, first>>
    \/ loop.onMatchError = "fail" /\ Return(Fresh("Indeterminate", 0)) /\ UNCHANGED <<seen, first>>
    \/ loop.onMatchError = "note" /\ NoteError("Indeterminate", kid) /\ UNCHANGED <<pc, result>>
    \/ loop.onMatchError = "skip" /\ UNCHANGED <<pc, result, seen, first>>

\* The error of a child's target, in each loop that calls match().
MatchError(kid) ==
    \/ loop.onMatchError = "deny" /\ Return(Fresh(Deny, 0)) /\ UNCHANGED <<seen, first>>
    \/ loop.onMatchError = "fail" /\ Return(Fresh("Indeterminate", kid)) /\ UNCHANGED <<seen, first>>
    \/ loop.onMatchError = "note" /\ NoteError("Indeterminate", kid) /\ UNCHANGED <<pc, result>>
    \/ loop.onMatchError = "skip" /\ UNCHANGED <<pc, result, seen, first>>

\* Only-one-applicable keeps the policy that matched for later and fails on a
\* second one; the other loops evaluate it.
Matched(kid) ==
    \/ /\ alg # "OnlyOneApplicable"
       /\ pc' = "evaluate"
       /\ UNCHANGED <<result, selected>>
    \/ /\ alg = "OnlyOneApplicable" /\ selected # 0
       /\ Return(Fresh("Indeterminate", kid))
       /\ UNCHANGED selected
    \/ /\ alg = "OnlyOneApplicable" /\ selected = 0
       /\ selected' = kid
       /\ UNCHANGED <<pc, result>>

\* The first half of a round of a policy loop: match.
MatchPolicy ==
    /\ pc = "iterate" /\ alg \in MatchingAlgs /\ i < Len(kids)
    /\ i' = i + 1
    /\ \/ /\ kids[i + 1].target = "none"
          /\ Throw
          /\ UNCHANGED <<seen, first, selected>>
       \/ /\ kids[i + 1].target = "NoMatch"
          /\ UNCHANGED <<pc, result, seen, first, selected>>
       \/ /\ kids[i + 1].target = "Error"
          /\ MatchError(i + 1)
          /\ UNCHANGED selected
       \/ /\ kids[i + 1].target = "Match"
          /\ Matched(i + 1)
          /\ UNCHANGED <<seen, first>>
    /\ UNCHANGED <<call, potential, obligations>>

\* The second half of a round: evaluate the policy that matched.
EvaluateMatched ==
    /\ pc = "evaluate"
    /\ Weigh(PolicyEvaluate(kids[i]), i)
    /\ UNCHANGED <<call, i, potential, selected>>

-----------------------------------------------------------------------------
(* After the loop.                                                         *)

\* The first error of a slot, returned as it is.
FirstResult(slot) ==
    LET kid == first[slot]
        value == IF alg \in RuleAlgs THEN RuleEvaluate(kids[kid]) ELSE PolicyEvaluate(kids[kid])
    IN  Passed(value, kid)

Has(decision) == decision \in seen

Failed == seen \cap Indeterminates # {}

\* xacml3: an error that could have won, beside anything that could have
\* lost, is IndeterminateDP.
DenyOverridesRule3Tail ==
    IF Has("IndeterminateD") /\ (Has("IndeterminateP") \/ Has(Permit))
    THEN Fresh("IndeterminateDP", first["IndeterminateD"])
    ELSE IF Has("IndeterminateD") THEN FirstResult("IndeterminateD")
    ELSE IF Has(Permit) THEN Gathered(Permit)
    ELSE IF Has("IndeterminateP") THEN FirstResult("IndeterminateP")
    ELSE Fresh(NotApplicable, 0)

PermitOverridesRule3Tail ==
    IF Has("IndeterminateP") /\ (Has("IndeterminateD") \/ Has(Deny))
    THEN Fresh("IndeterminateDP", first["IndeterminateP"])
    ELSE IF Has("IndeterminateP") THEN FirstResult("IndeterminateP")
    ELSE IF Has(Deny) THEN Gathered(Deny)
    ELSE Fresh(NotApplicable, 0)

\* Mutant of DenyOverridesPolicy3Tail: a Permit is returned before the error
\* of a child that might have denied is looked at.
PermitBeforeError ==
    IF Has("IndeterminateDP") THEN FirstResult("IndeterminateDP")
    ELSE IF Has(Permit) THEN Gathered(Permit)
    ELSE IF Has("IndeterminateD") THEN FirstResult("IndeterminateD")
    ELSE IF Has("IndeterminateP") THEN FirstResult("IndeterminateP")
    ELSE Fresh(NotApplicable, 0)

DenyOverridesPolicy3Tail ==
    IF Has("IndeterminateDP") THEN FirstResult("IndeterminateDP")
    ELSE IF Has("IndeterminateD") /\ Has("IndeterminateP") /\ Has(Permit)
    THEN Fresh("IndeterminateDP", first["IndeterminateD"])
    ELSE IF Has("IndeterminateD") THEN FirstResult("IndeterminateD")
    ELSE IF Has(Permit) THEN Gathered(Permit)
    ELSE IF Has("IndeterminateP") THEN FirstResult("IndeterminateP")
    ELSE Fresh(NotApplicable, 0)

PermitOverridesPolicy3Tail ==
    IF Has("IndeterminateDP") THEN FirstResult("IndeterminateDP")
    ELSE IF Has("IndeterminateP") /\ (Has("IndeterminateD") \/ Has(Deny))
    THEN Fresh("IndeterminateDP", first["IndeterminateP"])
    ELSE IF Has("IndeterminateP") THEN FirstResult("IndeterminateP")
    ELSE IF Has(Deny) THEN Gathered(Deny)
    ELSE Fresh(NotApplicable, 0)

\* xacml2 over rules: an error that might have won hides the loser.
DenyOverridesRule2Tail ==
    IF potential THEN FirstResult("Indeterminate")
    ELSE IF Has(Permit) THEN Gathered(Permit)
    ELSE IF Failed THEN FirstResult("Indeterminate")
    ELSE Fresh(NotApplicable, 0)

PermitOverridesRule2Tail ==
    IF potential THEN FirstResult("Indeterminate")
    ELSE IF Has(Deny) THEN Gathered(Deny)
    ELSE IF Failed THEN FirstResult("Indeterminate")
    ELSE Fresh(NotApplicable, 0)

DenyOverridesPolicy2Tail ==
    IF Has(Permit) THEN Gathered(Permit) ELSE Fresh(NotApplicable, 0)

\* xacml2 over policies: the loser comes first, then a plain error.
PermitOverridesPolicy2Tail ==
    IF Has(Deny) THEN Gathered(Deny)
    ELSE IF Failed THEN Fresh("Indeterminate", first["Indeterminate"])
    ELSE Fresh(NotApplicable, 0)

\* Mutant of OnlyOneApplicableTail: hands out the last child instead of the
\* one that matched.
LastInsteadOfSelected ==
    IF selected = 0 THEN Fresh(NotApplicable, 0)
    ELSE Passed(PolicyEvaluate(kids[i]), i)

OnlyOneApplicableTail ==
    IF selected = 0 THEN Fresh(NotApplicable, 0)
    ELSE Passed(PolicyEvaluate(kids[selected]), selected)

Finish ==
    /\ pc = "iterate" /\ i = Len(kids)
    /\ \/ alg = "DenyOverridesRule3" /\ Return(DenyOverridesRule3Tail)
       \/ alg = "PermitOverridesRule3" /\ Return(PermitOverridesRule3Tail)
       \/ alg = "DenyOverridesPolicy3" /\ Return(DenyOverridesPolicy3Tail)
       \/ alg = "PermitOverridesPolicy3" /\ Return(PermitOverridesPolicy3Tail)
       \/ alg = "DenyOverridesRule2" /\ Return(DenyOverridesRule2Tail)
       \/ alg = "PermitOverridesRule2" /\ Return(PermitOverridesRule2Tail)
       \/ alg = "DenyOverridesPolicy2" /\ Return(DenyOverridesPolicy2Tail)
       \/ alg = "PermitOverridesPolicy2" /\ Return(PermitOverridesPolicy2Tail)
       \/ alg \in {"DenyUnlessPermitRule", "DenyUnlessPermitPolicy"} /\ Return(Gathered(Deny))
       \/ alg \in {"PermitUnlessDenyRule", "PermitUnlessDenyPolicy"} /\ Return(Gathered(Permit))
       \/ alg \in {"FirstApplicableRule", "FirstApplicablePolicy"} /\ Return(Fresh(NotApplicable, 0))
       \/ alg = "OnlyOneApplicable" /\ Return(OnlyOneApplicableTail)
    /\ UNCHANGED <<call, i, seen, first, potential, obligations, selected>>

\* AbstractPolicy.evaluate after combine: nothing is added to NOT_APPLICABLE
\* and INDETERMINATE; processObligationAndAdvices adds what is fulfilled on
\* the decision.
AddObligations ==
    /\ pc = "obligations"
    /\ pc' = "done"
    /\ result' = [result EXCEPT !.own = call.fulfilOn \cap {result.decision}]
    /\ UNCHANGED <<call, i, seen, first, potential, obligations, selected>>

Next ==
    \/ CheckTarget \/ EvaluateRule \/ EvaluateUnmatched \/ MatchPolicy
    \/ EvaluateMatched \/ Finish \/ AddObligations

\* evaluate runs on the caller's thread: it keeps taking its next step.
Spec == Init /\ [][Next]_vars /\ WF_vars(Next)

-----------------------------------------------------------------------------
(* Properties.                                                             *)

TypeOK ==
    /\ call \in CallRecords
    /\ pc \in {"target", "iterate", "evaluate", "obligations", "done"}
    /\ i \in 0..Len(kids)
    /\ seen \subseteq Decisions
    /\ first \in [Indeterminates -> 0..i]
    /\ potential \in BOOLEAN
    /\ obligations \subseteq 1..i
    /\ selected \in 0..i
    /\ result \in [decision    : Decisions \cup {"none", "NullPointerException"},
                   obligations : SUBSET (1..i),
                   cause       : 0..i,
                   own         : SUBSET Effects]

\* What child k answers when it is evaluated.
Value(k) == IF alg \in RuleAlgs THEN RuleEvaluate(kids[k]) ELSE PolicyEvaluate(kids[k])

Answered == pc = "done"

\* Every combine method answers what the algorithm promises for the set of
\* its children, whatever order the loop meets them in and wherever it stops.
Promised == INSTANCE CombiningSpec
    WITH request <- call, answer <- IF Answered THEN result.decision ELSE "none"
KeepsPromise == Promised!Spec

\* The overrides algorithms in which an error that might have been the winner
\* is meant to hide the loser.
CautiousAlgs == {"DenyOverridesRule2", "PermitOverridesRule2", "DenyOverridesRule3",
                 "PermitOverridesRule3", "DenyOverridesPolicy3", "PermitOverridesPolicy3"}

Winner == CHOOSE e \in Effects : e # loop.gathers
WinnerError == IF Winner = Deny THEN "IndeterminateD" ELSE "IndeterminateP"

\* A child that may have the winning effect: it answers it, or its error is
\* extended with it, or (xacml2) it is a rule of that effect with an error.
MayWin(k) ==
    \/ Value(k) \in {Winner, WinnerError, "IndeterminateDP"}
    \/ /\ alg \in {"DenyOverridesRule2", "PermitOverridesRule2"}
       /\ Value(k) \in Indeterminates
       /\ kids[k].effect = Winner

\* deny-overrides never permits a request that a child it evaluates denies or
\* might have denied, and dually for permit-overrides: the flags gathered
\* along the loop must not lose a potential winner.
LoserIsSafe ==
    Answered /\ alg \in CautiousAlgs /\ result.decision = loop.gathers
        => \A k \in 1..Len(kids) :
              alg \in RuleAlgs \/ kids[k].target = "Match" => ~MayWin(k)

\* "no obligation may be included in the Result that doesn't match the effect
\* being returned" (PolicyCombiningAlgorithm), and none is lost when the loop
\* ran to its end and the answer was gathered from it.
ObligationsFollowDecision ==
    Answered =>
        /\ \A k \in result.obligations : Value(k) = result.decision
        /\ result.own \subseteq {result.decision}
        /\ result.decision = loop.gathers
               => result.obligations = {k \in 1..Len(kids) : Value(k) = result.decision}

\* An error answered to the caller is explained by the status of a child that
\* has an error itself, or by the second match of only-one-applicable.
ErrorsAreExplained ==
    Answered /\ result.decision \in Indeterminates =>
        /\ result.cause # 0
        /\ \/ Value(result.cause) \in Indeterminates
           \/ alg \in MatchingAlgs /\ kids[result.cause].target = "Error"
           \/ alg = "OnlyOneApplicable" /\ kids[result.cause].target = "Match"

\* PermitOverridesRuleAlg, before its last return: "none of the rules actually
\* applied to us, so we return NOT_APPLICABLE".
NotApplicableMeansNoneApplied ==
    Answered /\ alg = "PermitOverridesRule3" /\ call.target = "Match"
        /\ result.decision = NotApplicable
        => \A k \in 1..Len(kids) : kids[k].version = "3.0" => Value(k) = NotApplicable

=============================================================================
