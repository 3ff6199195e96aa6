-------------------------- MODULE MutationOperators --------------------------
(***************************************************************************)
(* The create...Mutants methods of Mutator.  Each changes the DOM document *)
(* the Mutator holds, loads a policy from it, and undoes the change; here  *)
(* each is an operator from the document to an outcome: the mutants made,  *)
(* the document left behind, and whether the method threw.                 *)
(*                                                                         *)
(* A document is a Policy with rules of different ids.  Text nodes, and    *)
(* the order of unlike elements inside a rule, which Rule.getInstance does *)
(* not look at, are left out.  Every Match and Condition is about one      *)
(* attribute designator.                                                   *)
(***************************************************************************)
EXTENDS Evaluation, SequencesExt

\* comparisonFunctionMap, equalsFunctionMap: the data types the Mutator knows.
Ordered == <<"equal", "greater-than", "greater-than-or-equal", "less-than", "less-than-or-equal">>
ComparisonFunctions ==
    [type \in {"string", "integer", "double", "date", "boolean"} |->
        IF type = "boolean" THEN <<"equal">> ELSE Ordered]
Known(type) == type \in DOMAIN ComparisonFunctions

\* unequalValuesMap: two values of each type that no single value equals both.
UnequalValues(type) == IF type = "boolean" THEN <<"true", "false">> ELSE <<"a", "b">>

\* ruleCombiningAlgorithms
RuleCombiningAlgorithms ==
    <<"deny-overrides", "permit-overrides", "first-applicable", "ordered-deny-overrides",
      "ordered-permit-overrides", "deny-unless-permit", "permit-unless-deny">>

\* A site is the id of a rule, or this one, for the target of the policy.
PolicyTarget == "Target"

Site(rule) == rule.id
IndexOf(doc, site) == CHOOSE k \in DOMAIN doc.rules : Site(doc.rules[k]) = site
RuleAt(doc, site) == doc.rules[IndexOf(doc, site)]
WithRule(doc, site, rule) == [doc EXCEPT !.rules[IndexOf(doc, site)] = rule]

TargetAt(doc, site) == IF site = PolicyTarget THEN doc.target ELSE RuleAt(doc, site).target
WithTarget(doc, site, target) ==
    IF site = PolicyTarget THEN [doc EXCEPT !.target = target]
    ELSE WithRule(doc, site, [RuleAt(doc, site) EXCEPT !.target = target])

\* A rule's condition is a sequence of at most one.
ConditionAt(doc, site) == RuleAt(doc, site).condition
WithCondition(doc, site, condition) ==
    WithRule(doc, site, [RuleAt(doc, site) EXCEPT !.condition = condition])

\* A mutant, and the counts its name ends in.
Numbered(policy, counts) == <<[policy |-> policy, counts |-> counts]>>
Only(policy) == Numbered(policy, <<>>)
Made(list, doc) == [made |-> list, doc |-> doc, threw |-> FALSE]
Nothing(doc)    == Made(<<>>, doc)
Thrown(doc)     == [made |-> <<>>, doc |-> doc, threw |-> TRUE]

-----------------------------------------------------------------------------
(* Effects, targets and conditions.                                        *)

Flip(effect) == IF effect = Deny THEN Permit ELSE Deny
FlipRule(doc, site) == WithRule(doc, site, [RuleAt(doc, site) EXCEPT !.effect = Flip(@)])

\* CRE: flips, loads, flips back.
RuleEffectFlipping(doc, site) ==
    LET changed == FlipRule(doc, site)
    IN  Made(Only(changed), FlipRule(changed, site))

\* RTT, PTT: all children of the target are removed and appended again.
TargetTrue(doc, site) ==
    IF TargetAt(doc, site) = <<>> THEN Nothing(doc)
    ELSE LET changed == WithTarget(doc, site, <<>>)
         IN  Made(Only(changed), WithTarget(changed, site, TargetAt(doc, site)))

\* Mutant of Reached: the first AllOf alone.
ReachedFirst(target) == {<<1, 1>>}

\* RTF, PTF.  The step "[local-name()='AnyOf' and 1]" selects every AnyOf,
\* and "position()=i" the i-th AllOf of each; of those the first is taken.
Reached(target) ==
    UNION {{<<j, i>> : i \in {a \in DOMAIN target[j] :
                                \A earlier \in 1..(j - 1) : a \notin DOMAIN target[earlier]}}
           : j \in DOMAIN target}

\* Two copies of the first Match that demand unequal values are appended.
Conflict(allOf) ==
    LET demand(k) == [allOf[1] EXCEPT !.function = "equal", !.value = UnequalValues(allOf[1].type)[k]]
    IN  allOf \o <<demand(1), demand(2)>>

\* The change is made on a clone: nothing to restore.
TargetFalse(doc, site) ==
    LET target == TargetAt(doc, site)
        reached == Reached(target)
    IN  IF target = <<>> THEN Nothing(doc)
        ELSE IF \E cell \in reached : ~Known(target[cell[1]][cell[2]][1].type) THEN Thrown(doc)
        ELSE Made(Only(WithTarget(doc, site,
                 [j \in DOMAIN target |-> [i \in DOMAIN target[j] |->
                     IF <<j, i>> \in reached THEN Conflict(target[j][i]) ELSE target[j][i]]])), doc)

\* RCT: the Condition element is removed and appended to its rule again.
ConditionTrue(doc, site) ==
    IF ConditionAt(doc, site) = <<>> THEN Nothing(doc)
    ELSE LET changed == WithCondition(doc, site, <<>>)
         IN  Made(Only(changed), WithCondition(changed, site, ConditionAt(doc, site)))

\* RCF: in its place, the conjunction of two demands for unequal values.
ConditionFalse(doc, site) ==
    LET condition == ConditionAt(doc, site)
    IN  IF condition = <<>> THEN Nothing(doc)
        ELSE IF ~Known(condition[1].type) THEN Thrown(doc)
        ELSE LET false == [condition[1] EXCEPT !.nots = 0, !.form = "conflict", !.function = "equal"]
                 changed == WithCondition(doc, site, <<false>>)
             IN  Made(Only(changed), WithCondition(changed, site, condition))

\* ANF, RNF: the outermost not function.
AddNot(doc, site) ==
    LET condition == ConditionAt(doc, site)
    IN  IF condition = <<>> THEN Nothing(doc)
        ELSE Made(Only(WithCondition(doc, site, <<[condition[1] EXCEPT !.nots = @ + 1]>>)), doc)

\* Mutant of RemoveNot: all not functions, not the outermost one.
RemoveNotAll(doc, site) ==
    LET condition == ConditionAt(doc, site)
    IN  IF condition = <<>> \/ condition[1].nots = 0 THEN Nothing(doc)
        ELSE Made(Only(WithCondition(doc, site, <<[condition[1] EXCEPT !.nots = 0]>>)), doc)

RemoveNot(doc, site) ==
    LET condition == ConditionAt(doc, site)
    IN  IF condition = <<>> \/ condition[1].nots = 0 THEN Nothing(doc)
        ELSE Made(Only(WithCondition(doc, site, <<[condition[1] EXCEPT !.nots = @ - 1]>>)), doc)

-----------------------------------------------------------------------------
(* Comparison functions and combining algorithms.                          *)

\* No list has a name twice.
Others(list, original) == RemoveFirst(list, original)

\* CCF, the target's part: the first Match of the target.
TargetComparisons(doc, site) ==
    LET target == TargetAt(doc, site)
        match == target[1][1][1]
        others == Others(ComparisonFunctions[match.type], match.function)
    IN  IF target = <<>> THEN Nothing(doc)
        ELSE IF ~Known(match.type) THEN Thrown(doc)
        ELSE Made([k \in DOMAIN others |->
                      [policy |-> WithTarget(doc, site, [target EXCEPT ![1][1][1].function = others[k]]),
                       counts |-> <<k - 1>>]], doc)

\* CCF, the condition's part: only a condition with a Function element.
ConditionComparisons(doc, site, startCount) ==
    LET condition == ConditionAt(doc, site)
        others == Others(ComparisonFunctions[condition[1].type], condition[1].function)
    IN  IF condition = <<>> THEN Nothing(doc)
        ELSE IF condition[1].form # "bags" THEN Nothing(doc)
        ELSE IF ~Known(condition[1].type) THEN Thrown(doc)
        ELSE Made([k \in DOMAIN others |->
                      [policy |-> WithCondition(doc, site, <<[condition[1] EXCEPT !.function = others[k]]>>),
                       counts |-> <<startCount + k - 1>>]], doc)

\* Mutant of StartCount: the condition's mutants are counted from 0 again.
StartCountZero(list) == 0
StartCount(list) == Len(list)

RuleComparisons(doc, site) ==
    LET ofTarget == TargetComparisons(doc, site)
        ofCondition == ConditionComparisons(doc, site, StartCount(ofTarget.made))
    IN  IF ofTarget.threw \/ ofCondition.threw THEN Thrown(doc)
        ELSE Made(ofTarget.made \o ofCondition.made, doc)

\* CRC
CombiningAlgorithm(doc) ==
    LET others == Others(RuleCombiningAlgorithms, doc.alg)
    IN  Made([k \in DOMAIN others |->
                 [policy |-> [doc EXCEPT !.alg = others[k]], counts |-> <<k - 1>>]], doc)

-----------------------------------------------------------------------------
(* Removing, adding and moving elements.                                   *)

WithRules(doc, rules) == [doc EXCEPT !.rules = rules]

\* Mutant of RemoveRule: the rule is appended, not inserted where it was.
RemoveRuleAppend(doc, site) ==
    LET removed == RemoveAt(doc.rules, IndexOf(doc, site))
    IN  Made(Only(WithRules(doc, removed)), WithRules(doc, Append(removed, RuleAt(doc, site))))

\* RER: the next sibling is read before the removal, and the rule inserted
\* before it again.
RemoveRule(doc, site) ==
    LET k == IndexOf(doc, site)
        removed == RemoveAt(doc.rules, k)
    IN  Made(Only(WithRules(doc, removed)), WithRules(doc, InsertAt(removed, k, RuleAt(doc, site))))

\* Mutant of NewRuleId: the clone keeps the id of a rule.
NewRuleIdKept(doc) == Site(doc.rules[1])

\* UUID.randomUUID: an id that no rule has.
NewRuleIds == {"new1", "new2"}
NewRuleId(doc) ==
    LET taken == {Site(doc.rules[k]) : k \in DOMAIN doc.rules}
    IN  CHOOSE id \in NewRuleIds : id \notin taken

\* ANR: a clone with the other effect, and one without a target, before the
\* rule; both mutants get the same name.
AddNewRule(doc, site) ==
    LET k == IndexOf(doc, site)
        clone == [RuleAt(doc, site) EXCEPT !.id = NewRuleId(doc)]
        before(rule) == WithRules(doc, InsertAt(doc.rules, k, rule))
    IN  Made(Only(before([clone EXCEPT !.effect = Flip(@)]))
                 \o (IF clone.target = <<>> THEN <<>> ELSE Only(before([clone EXCEPT !.target = <<>>]))),
             doc)

\* FDR, FPR: the first rule of effect B after the first of effect A moves
\* before that one, and back to the place of its next sibling.
FirstRule(doc, effectA, effectB) ==
    LET a == SelectInSeq(doc.rules, LAMBDA rule : rule.effect = effectA)
        b == SelectInSubSeq(doc.rules, a + 1, Len(doc.rules), LAMBDA rule : rule.effect = effectB)
        changed == InsertAt(RemoveAt(doc.rules, b), a, doc.rules[b])
    IN  IF doc.alg # "first-applicable" \/ a = 0 \/ b = 0 THEN Nothing(doc)
        ELSE Made(Only(WithRules(doc, changed)),
                  WithRules(doc, InsertAt(RemoveAt(changed, a), b, doc.rules[b])))

\* What k removals have made of a list: the next sibling is asked of a node
\* already removed, is null, and the node goes to the end.
Turned(list, k) == SubSeq(list, k + 1, Len(list)) \o SubSeq(list, 1, k)

\* The list when all its nodes have been removed and restored.
TurnedBack(list) == Turned(list, Len(list))

\* allOfCount is not reset between the AnyOf.
AllOfCount(target) ==
    LET count[j \in 0..Len(target)] == IF j = 0 THEN 0 ELSE count[j - 1] + Len(target[j])
    IN  count

\* RPTE.  From the second AnyOf on, the only AllOf of an AnyOf is removed,
\* which loadPolicy does not accept.
RemoveParallel(doc, site) ==
    LET target == TargetAt(doc, site)
        allOfCount == AllOfCount(target)
        emptied == SelectInSeq([j \in DOMAIN target |-> allOfCount[j] > 1 /\ Len(target[j]) = 1],
                               LAMBDA bad : bad)
        with(t) == WithTarget(doc, site, t)
        noMatch(j, a) ==
            IF Len(target[j][a]) = 1 THEN <<>>
            ELSE [i \in DOMAIN target[j][a] |->
                     [policy |-> with([target EXCEPT ![j][a] = Tail(Turned(@, i - 1))]),
                      counts |-> <<1, i, i>>]]
        noAllOf(j) ==
            IF allOfCount[j] = 1 THEN <<>>
            ELSE [i \in DOMAIN target[j] |->
                     [policy |-> with([target EXCEPT ![j] = Tail(Turned(@, i - 1))]),
                      counts |-> <<1, i>>]]
    IN  IF emptied # 0 THEN Thrown(with([target EXCEPT ![emptied] = <<>>]))
        ELSE Made(FlattenSeq([j \in DOMAIN target |->
                      FlattenSeq([a \in DOMAIN target[j] |-> noMatch(j, a)]) \o noAllOf(j)]),
                  with([j \in DOMAIN target |->
                      LET list == [a \in DOMAIN target[j] |-> TurnedBack(target[j][a])]
                      IN  IF allOfCount[j] = 1 THEN list ELSE TurnedBack(list)]))

-----------------------------------------------------------------------------
(* The methods by the abbreviations their mutants are named with.          *)

\* ruleMutationMethods, targetMutationMethods
RuleMethods == {"CRE", "RTT", "RCT", "RTF", "RCF", "CCF", "ANF", "RNF", "RER", "ANR", "RPTE"}
TargetMethods == {"PTT", "PTF", "CCF", "CRC", "FDR", "FPR", "RPTE"}

Applicable(method, site) ==
    method \in (IF site = PolicyTarget THEN TargetMethods ELSE RuleMethods)

Outcome(method, doc, site) ==
    CASE method = "CRE" -> RuleEffectFlipping(doc, site)
      [] method \in {"RTT", "PTT"} -> TargetTrue(doc, site)
      [] method \in {"RTF", "PTF"} -> TargetFalse(doc, site)
      [] method = "RCT" -> ConditionTrue(doc, site)
      [] method = "RCF" -> ConditionFalse(doc, site)
      [] method = "CCF" /\ site = PolicyTarget -> TargetComparisons(doc, site)
      [] method = "CCF" /\ site # PolicyTarget -> RuleComparisons(doc, site)
      [] method = "ANF" -> AddNot(doc, site)
      [] method = "RNF" -> RemoveNot(doc, site)
      [] method = "CRC" -> CombiningAlgorithm(doc)
      [] method = "RER" -> RemoveRule(doc, site)
      [] method = "ANR" -> AddNewRule(doc, site)
      [] method = "FDR" -> FirstRule(doc, Permit, Deny)
      [] method = "FPR" -> FirstRule(doc, Deny, Permit)
      [] method = "RPTE" -> RemoveParallel(doc, site)

=============================================================================
