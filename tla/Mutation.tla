------------------------------ MODULE Mutation ------------------------------
(***************************************************************************)
(* Making mutants of a policy and keeping them in files, as the mutation   *)
(* panel does: a Mutator for the policy is asked for the mutants of one    *)
(* method at one element after the other (generateSelectedMutantsAndSave), *)
(* each is saved under its name and its policy dropped from memory; for    *)
(* mutants of second order a new Mutator starts from a mutant read back.   *)
(* All mutants of a Mutator come from one document, which every method     *)
(* changes and restores.  An exception ends the generation.                *)
(***************************************************************************)
EXTENDS MutationOperators

CONSTANTS
    Policies,  \* the policies to make mutants of
    RuleIds,   \* the ids of rules
    Attributes,\* the attributes that Matches and Conditions ask for
    Values,    \* the values that Matches compare to
    Requests,  \* functions from attributes to the sets of their values
    MaxCalls   \* bound on the methods called in a behaviour

Types == DOMAIN ComparisonFunctions \cup {"anyURI"}
Forms == {"bags", "value"}   \* with a Function element, or comparing to a value

\* There are no order functions of Booleans.
Comparisons(type) == ToSet(IF Known(type) THEN ComparisonFunctions[type] ELSE Ordered)

Matches ==
    {match \in [function : ToSet(Ordered), attribute : Attributes, type : Types, value : Values] :
        match.function \in Comparisons(match.type)}
AllOfs == Seq(Matches) \ {<<>>}
AnyOfs == Seq(AllOfs) \ {<<>>}
Targets == Seq(AnyOfs)
Expressions(forms) ==
    {e \in [nots : Nat, form : forms, function : ToSet(Ordered), attribute : Attributes, type : Types] :
        e.function \in Comparisons(e.type)}
Conditions(forms) == {condition \in Seq(Expressions(forms)) : Len(condition) <= 1}
RulesOf(forms) ==
    [id : RuleIds, effect : Effects, target : Targets, condition : Conditions(forms)]
PoliciesOf(forms) ==
    {policy \in [alg : ToSet(RuleCombiningAlgorithms), target : Targets, rules : Seq(RulesOf(forms))] :
        \A k, l \in DOMAIN policy.rules : Site(policy.rules[k]) = Site(policy.rules[l]) => k = l}

ASSUME PoliciesAssumption ==
    /\ Policies \subseteq PoliciesOf(Forms) /\ MaxCalls \in Nat
    /\ NewRuleIds \subseteq RuleIds /\ PolicyTarget \notin RuleIds
    /\ \A type \in Types : ToSet(UnequalValues(type)) \subseteq Values
    /\ \A request \in Requests :
          DOMAIN request = Attributes /\ \A attribute \in Attributes : IsFiniteSet(request[attribute])
    /\ \A policy \in Policies : \A k \in DOMAIN policy.rules : Site(policy.rules[k]) \notin NewRuleIds

VARIABLES
    base,     \* the policy under mutation
    source,   \* the base mutant of the Mutator at work
    doc,      \* its document
    done,     \* the methods called on it, each with the site
    mutants,  \* every mutant returned, with the policy it was created with
    files,    \* the mutants folder: the policy under each name
    aborted   \* whether an exception has ended the generation

vars == <<base, source, doc, done, mutants, files, aborted>>

-----------------------------------------------------------------------------

\* xpathList: the elements of the base mutant's policy in document order.
Sites(policy) == <<PolicyTarget>> \o [k \in DOMAIN policy.rules |-> Site(policy.rules[k])]

\* Mutant of FaultLocation: counting from 1.
FaultLocationFromOne(site) == SelectInSeq(Sites(source.policy), LAMBDA s : s = site)

\* xpathMapping, counting from 0.
FaultLocation(site) == SelectInSeq(Sites(source.policy), LAMBDA s : s = site) - 1

\* A mutant's name: that of the base mutant, the method's abbreviation, the
\* fault location and the counts.  Its fault locations begin with those of
\* the base mutant.
MutantOf(made, method, site) ==
    [name   |-> Append(source.name, <<method, FaultLocation(site), made.counts>>),
     faults |-> Append(source.faults, FaultLocation(site)),
     policy |-> made.policy]

Init ==
    /\ base \in Policies
    /\ source = [policy |-> base, name |-> <<>>, faults |-> <<>>]
    /\ doc = base
    /\ done = {}
    /\ mutants = {}
    /\ files = <<>>
    /\ aborted = FALSE

\* FileIOUtil.saveMutant, for each mutant in turn: a later one overwrites.
Save(made) ==
    [name \in DOMAIN files \cup {made[k].name : k \in DOMAIN made} |->
        LET last == SelectLastInSeq(made, LAMBDA m : m.name = name)
        IN  IF last = 0 THEN files[name] ELSE made[last].policy]

\* One method at one element, and saving what it returns.
Generate(method, site) ==
    /\ ~aborted
    /\ Len(source.name) + Cardinality(done) < MaxCalls
    /\ <<method, site>> \notin done
    /\ Applicable(method, site)
    /\ LET outcome == Outcome(method, doc, site)
           made == [k \in DOMAIN outcome.made |-> MutantOf(outcome.made[k], method, site)]
       IN  /\ doc' = outcome.doc
           /\ aborted' = outcome.threw
           /\ mutants' = mutants \cup ToSet(made)
           /\ files' = Save(made)
    /\ done' = done \cup {<<method, site>>}
    /\ UNCHANGED <<base, source>>

\* generateSecondOrderMutants: a new Mutator for a mutant, whose policy
\* getPolicy reads from the file of its name.  A behaviour has one of these; the
\* panel goes on to a Mutator for every other mutant, in the same folder, and
\* then saves all their mutants once more.
NextMutator(mutant) ==
    /\ ~aborted
    /\ source.name = <<>>
    /\ source' = [mutant EXCEPT !.policy = files[mutant.name]]
    /\ doc' = files[mutant.name]
    /\ done' = {}
    /\ UNCHANGED <<base, mutants, files, aborted>>

Next ==
    \/ \E site \in ToSet(Sites(source.policy)), method \in RuleMethods \cup TargetMethods :
          Generate(method, site)
    \/ \E mutant \in mutants : NextMutator(mutant)

Spec == Init /\ [][Next]_vars

-----------------------------------------------------------------------------
(* Type invariant.                                                         *)

\* Every mutant is a policy that loads, the one "conflict" form of a mutated
\* condition included; every mutant has a file.
TypeOK ==
    /\ base \in Policies
    /\ source.policy \in PoliciesOf(Forms \cup {"conflict"})
    /\ aborted \/ doc \in PoliciesOf(Forms \cup {"conflict"})
    /\ \A mutant \in mutants :
          /\ mutant.policy \in PoliciesOf(Forms \cup {"conflict"})
          /\ Len(mutant.name) = Len(mutant.faults)
          /\ Len(mutant.name) \in 1..MaxCalls
    /\ {mutant.name : mutant \in mutants} = DOMAIN files
    /\ aborted \in BOOLEAN

-----------------------------------------------------------------------------
(* The document.                                                           *)

\* Until an exception, every method leaves the document as it found it, the
\* order of rules, AnyOf, AllOf and Match included: the mutants of a Mutator
\* are all mutants of the same policy.
DocIsRestored == ~aborted => doc = source.policy

-----------------------------------------------------------------------------
(* Mutants.                                                                *)

Method(mutant) == mutant.name[Len(mutant.name)][1]

\* The methods after which positions are not those of the policy before.
Shifting == {"RER", "ANR", "FDR", "FPR"}

\* What a fault location stands for: the target's holds the policy's target
\* and combining algorithm, a rule's all of the rule.
ElementAt(policy, location) ==
    IF location = 0 THEN <<policy.target, policy.alg>> ELSE <<policy.rules[location]>>

\* A mutant's fault locations name every element in which it differs from the
\* policy under mutation, over all orders of mutation, unless a method on the
\* way moved elements.
FaultsAreLocal ==
    \A mutant \in mutants :
        (\A k \in DOMAIN mutant.name : mutant.name[k][1] \notin Shifting) =>
            /\ Len(mutant.policy.rules) = Len(base.rules)
            /\ \A location \in 0..Len(base.rules) :
                  location \notin ToSet(mutant.faults) =>
                      ElementAt(mutant.policy, location) = ElementAt(base, location)

\* A flipped effect, a changed comparison, a changed algorithm, an added or
\* removed negation and an added rule are undone by a method of the Mutator
\* at one of the mutant's elements: the search of the Repairer can find the
\* original one layer below.
UndoneBy(method) ==
    CASE method \in {"CRE", "CCF", "CRC"} -> method
      [] method = "ANF" -> "RNF"
      [] method = "RNF" -> "ANF"
      [] method = "ANR" -> "RER"

OneStepRepairable ==
    \A mutant \in mutants :
        Len(mutant.name) = 1 /\ Method(mutant) \in {"CRE", "CCF", "CRC", "ANF", "RNF", "ANR"} =>
            \E site \in ToSet(Sites(mutant.policy)) :
                /\ Applicable(UndoneBy(Method(mutant)), site)
                /\ base \in {made.policy : made \in
                        ToSet(Outcome(UndoneBy(Method(mutant)), mutant.policy, site).made)}

\* The file of a mutant holds that mutant, however many others are saved.  ANR
\* and RPTE give one name to several mutants of one call, and are left out.
SavedAsCreated ==
    \A mutant \in mutants :
        (\A k \in DOMAIN mutant.name : mutant.name[k][1] \notin {"ANR", "RPTE"}) =>
            files[mutant.name] = mutant.policy

-----------------------------------------------------------------------------
(* What the targets of TargetFalse decide.                                 *)

\* Only equality is interpreted; any other function may hold of any value.
Holds(match, value) ==
    IF match.function # "equal" \/ value = match.value THEN "Match" ELSE "NoMatch"

TargetResult(target, request) ==
    TargetMatch({{{{Holds(target[j][a][m], value) : value \in request[target[j][a][m].attribute]}
                      : m \in DOMAIN target[j][a]}
                  : a \in DOMAIN target[j]}
              : j \in DOMAIN target})

FaultSite(mutant) ==
    LET location == mutant.faults[Len(mutant.faults)]
    IN  IF location = 0 THEN PolicyTarget ELSE Site(mutant.policy.rules[location])

MadeFalse(methods) == {mutant \in mutants : Method(mutant) \in methods}

\* The target of an RTF or PTF mutant matches no request whose attributes have
\* at most one value each, although the conflicting demands are added to some
\* AllOf only.
TargetFalseOnSingleValues ==
    \A mutant \in MadeFalse({"RTF", "PTF"}), request \in Requests :
        (\A attribute \in DOMAIN request : Cardinality(request[attribute]) <= 1) =>
            TargetResult(TargetAt(mutant.policy, FaultSite(mutant)), request) # "Match"

=============================================================================
