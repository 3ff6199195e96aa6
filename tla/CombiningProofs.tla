-------------------------- MODULE CombiningProofs ---------------------------
(***************************************************************************)
(* Proofs about Combining, for every set of calls: lists of children of    *)
(* any length, of any kinds, under any of the fifteen algorithms.          *)
(***************************************************************************)
EXTENDS Combining, TLAPS

ResultSet(n) ==
    [decision    : Decisions \cup {"none", "NullPointerException"},
     obligations : SUBSET (1..n),
     cause       : 0..n,
     own         : SUBSET Effects]

Rule2Algs   == {"DenyOverridesRule2", "PermitOverridesRule2"}
Rule3Algs   == {"DenyOverridesRule3", "PermitOverridesRule3"}
DenyAlgs    == {"DenyOverridesRule2", "DenyOverridesRule3", "DenyOverridesPolicy3"}
Policy3Algs == {"DenyOverridesPolicy3", "PermitOverridesPolicy3"}

-----------------------------------------------------------------------------
(* The operators the model is built from.                                  *)

\* A rule decides, and never answers IndeterminateDP.
LEMMA RuleDecides ==
    ASSUME NEW rule \in Rules
    PROVE  /\ RuleEvaluate(rule) \in Decisions \ {"IndeterminateDP"}
           /\ RuleEvaluate(rule) \in Effects => RuleEvaluate(rule) = rule.effect
           /\ RuleEvaluate(rule) = "IndeterminateP" => rule.effect = Permit
           /\ RuleEvaluate(rule) = "IndeterminateD" => rule.effect = Deny
    BY DEF RuleEvaluate, RuleError, Rules, Decisions, Effects, Indeterminates,
           Permit, Deny, NotApplicable, TargetResults, MatchResults, ConditionResults

\* A child policy decides, and does not apply when its target is no match.
LEMMA PolicyDecides ==
    ASSUME NEW policy \in Policies
    PROVE  /\ PolicyEvaluate(policy) \in Decisions
           /\ policy.target \in {"NoMatch", "Error"} => PolicyEvaluate(policy) = NotApplicable
    BY DEF PolicyEvaluate, Policies, Decisions, NotApplicable

\* What the fifteen loops have in common.
LEMMA LoopFacts ==
    ASSUME NEW a \in Algs
    PROVE  /\ LoopOf[a].errors \subseteq Indeterminates
           /\ LoopOf[a].returns \subseteq Decisions \ {NotApplicable}
           /\ LoopOf[a].gathers \in {Permit, Deny, "none"}
           /\ LoopOf[a].gathers \notin LoopOf[a].returns
           /\ LoopOf[a].gathers # "none" => LoopOf[a].returns = Effects \ {LoopOf[a].gathers}
           /\ LoopOf[a].onMatchError = "deny" => LoopOf[a].gathers = Permit
           /\ LoopOf[a].onMatchError = "note" => a = "PermitOverridesPolicy2"
           /\ LoopOf[a].onMatchError = "fail" => LoopOf[a].gathers = "none"
           /\ a \in CautiousAlgs => LoopOf[a].gathers \in Effects
           /\ a \in CautiousAlgs \cap DenyAlgs => LoopOf[a].gathers = Permit
           /\ a \in CautiousAlgs \ DenyAlgs => LoopOf[a].gathers = Deny
           /\ a \in Rule2Algs => LoopOf[a].errors = Indeterminates
           /\ a \in Rule3Algs => LoopOf[a].errors = {"IndeterminateD", "IndeterminateP"}
           /\ a \in Policy3Algs => LoopOf[a].errors = Indeterminates \ {"Indeterminate"}
    <1> USE DEF Decisions, Effects, Indeterminates, Permit, Deny, NotApplicable, Loop,
                CautiousAlgs, DenyAlgs, Rule2Algs, Rule3Algs, Policy3Algs
    <1>1. CASE a = "DenyOverridesRule2"
        <2>1. LoopOf[a] = DenyOverridesRule2Loop
            BY <1>1 DEF LoopOf
        <2> QED BY <1>1, <2>1 DEF DenyOverridesRule2Loop
    <1>2. CASE a = "PermitOverridesRule2"
        <2>1. LoopOf[a] = PermitOverridesRule2Loop
            BY <1>2 DEF LoopOf
        <2> QED BY <1>2, <2>1 DEF PermitOverridesRule2Loop
    <1>3. CASE a = "FirstApplicableRule"
        <2>1. LoopOf[a] = FirstApplicableRuleLoop
            BY <1>3 DEF LoopOf
        <2> QED BY <1>3, <2>1 DEF FirstApplicableRuleLoop
    <1>4. CASE a = "DenyOverridesRule3"
        <2>1. LoopOf[a] = DenyOverridesRule3Loop
            BY <1>4 DEF LoopOf
        <2> QED BY <1>4, <2>1 DEF DenyOverridesRule3Loop
    <1>5. CASE a = "PermitOverridesRule3"
        <2>1. LoopOf[a] = PermitOverridesRule3Loop
            BY <1>5 DEF LoopOf
        <2> QED BY <1>5, <2>1 DEF PermitOverridesRule3Loop
    <1>6. CASE a = "DenyUnlessPermitRule"
        <2>1. LoopOf[a] = DenyUnlessPermitRuleLoop
            BY <1>6 DEF LoopOf
        <2> QED BY <1>6, <2>1 DEF DenyUnlessPermitRuleLoop
    <1>7. CASE a = "PermitUnlessDenyRule"
        <2>1. LoopOf[a] = PermitUnlessDenyRuleLoop
            BY <1>7 DEF LoopOf
        <2> QED BY <1>7, <2>1 DEF PermitUnlessDenyRuleLoop
    <1>8. CASE a = "DenyUnlessPermitPolicy"
        <2>1. LoopOf[a] = DenyUnlessPermitPolicyLoop
            BY <1>8 DEF LoopOf
        <2> QED BY <1>8, <2>1 DEF DenyUnlessPermitPolicyLoop
    <1>9. CASE a = "PermitUnlessDenyPolicy"
        <2>1. LoopOf[a] = PermitUnlessDenyPolicyLoop
            BY <1>9 DEF LoopOf
        <2> QED BY <1>9, <2>1 DEF PermitUnlessDenyPolicyLoop
    <1>10. CASE a = "DenyOverridesPolicy2"
        <2>1. LoopOf[a] = DenyOverridesPolicy2Loop
            BY <1>10 DEF LoopOf
        <2> QED BY <1>10, <2>1 DEF DenyOverridesPolicy2Loop
    <1>11. CASE a = "PermitOverridesPolicy2"
        <2>1. LoopOf[a] = PermitOverridesPolicy2Loop
            BY <1>11 DEF LoopOf
        <2> QED BY <1>11, <2>1 DEF PermitOverridesPolicy2Loop
    <1>12. CASE a = "FirstApplicablePolicy"
        <2>1. LoopOf[a] = FirstApplicablePolicyLoop
            BY <1>12 DEF LoopOf
        <2> QED BY <1>12, <2>1 DEF FirstApplicablePolicyLoop
    <1>13. CASE a = "OnlyOneApplicable"
        <2>1. LoopOf[a] = OnlyOneApplicableLoop
            BY <1>13 DEF LoopOf
        <2> QED BY <1>13, <2>1 DEF OnlyOneApplicableLoop
    <1>14. CASE a = "DenyOverridesPolicy3"
        <2>1. LoopOf[a] = DenyOverridesPolicy3Loop
            BY <1>14 DEF LoopOf
        <2> QED BY <1>14, <2>1 DEF DenyOverridesPolicy3Loop
    <1>15. CASE a = "PermitOverridesPolicy3"
        <2>1. LoopOf[a] = PermitOverridesPolicy3Loop
            BY <1>15 DEF LoopOf
        <2> QED BY <1>15, <2>1 DEF PermitOverridesPolicy3Loop
    <1> QED BY <1>1, <1>2, <1>3, <1>4, <1>5, <1>6, <1>7, <1>8, <1>9, <1>10, <1>11, <1>12, <1>13, <1>14, <1>15
               DEF Algs, RuleAlgs, UnlessPolicyAlgs, MatchingAlgs

\* The three ways of making a result.
LEMMA FreshResult ==
    ASSUME NEW n \in Nat, NEW d \in Decisions \cup {"none", "NullPointerException"}, NEW c \in 0..n
    PROVE  /\ Fresh(d, c) \in ResultSet(n)
           /\ Fresh(d, c).decision = d
           /\ Fresh(d, c).obligations = {} /\ Fresh(d, c).own = {}
    BY DEF Fresh, ResultSet

LEMMA PassedResult ==
    ASSUME NEW n \in Nat, NEW d \in Decisions, NEW k \in 1..n
    PROVE  /\ Passed(d, k) \in ResultSet(n)
           /\ Passed(d, k).decision = d
           /\ Passed(d, k).obligations \subseteq {k} /\ Passed(d, k).own = {}
           /\ d \notin Effects => Passed(d, k).obligations = {}
    BY DEF Passed, ResultSet

LEMMA GatheredResult ==
    ASSUME NEW n \in Nat, NEW d \in Decisions, obligations \subseteq 1..n
    PROVE  /\ Gathered(d) \in ResultSet(n)
           /\ Gathered(d).decision = d
           /\ Gathered(d).obligations = obligations /\ Gathered(d).own = {}
    BY DEF Gathered, Fresh, ResultSet

-----------------------------------------------------------------------------
(* The inductive invariant.  While the loop runs, what it has noted speaks *)
(* for every child it has weighed; afterwards the result does.             *)

Looping   == pc \in {"target", "iterate", "evaluate"}
Processed == IF pc = "evaluate" THEN i - 1 ELSE i

\* The calls and the position of the loop.
PlaceInv ==
    /\ call \in Calls
    /\ pc = "evaluate" => i > 0 /\ alg \in MatchingAlgs
    /\ pc = "target" => i = 0
    /\ Looping => result.decision = "none"
    /\ ~Looping => result.decision # "none"

\* A flag comes with the result that raised it.
ErrorInv ==
    /\ \A d \in seen \cap Indeterminates : first[Slot(d)] # 0
    /\ potential => alg \in Rule2Algs /\ first["Indeterminate"] # 0
    /\ alg \in RuleAlgs => "IndeterminateDP" \notin seen
    /\ alg \in CautiousAlgs =>
          \A s \in Indeterminates, k \in 1..Len(kids) : first[s] = k => Value(k) \in Indeterminates

\* A potential winner among the children weighed so far has raised a flag
\* that outranks the loser after the loop.
Flagged ==
    IF alg \in Rule2Algs THEN potential ELSE seen \cap {WinnerError, "IndeterminateDP"} # {}

Matters(k) == alg \in RuleAlgs \/ kids[k].target = "Match"

FlagInv ==
    alg \in CautiousAlgs =>
        /\ Looping => \A k \in 1..Processed : Matters(k) /\ MayWin(k) => Flagged
        /\ ~Looping /\ result.decision = loop.gathers
              => \A k \in 1..Len(kids) : Matters(k) => ~MayWin(k)

ObligationInv ==
    /\ Looping => obligations = {k \in 1..Processed : Value(k) = loop.gathers}
    /\ ~Looping => \A k \in result.obligations : Value(k) = result.decision
    /\ ~Looping /\ result.decision = loop.gathers
          => result.obligations = {k \in 1..Len(kids) : Value(k) = loop.gathers}
    /\ result.own \subseteq {result.decision}

IInv == TypeOK /\ PlaceInv /\ ErrorInv /\ FlagInv /\ ObligationInv

-----------------------------------------------------------------------------
(* Facts about the call in progress.                                       *)

\* The call is one of Calls: its algorithm is known, and its children are
\* rules under a rule algorithm and policies under a policy algorithm.
LEMMA CallFacts ==
    ASSUME call \in Calls
    PROVE  /\ alg \in Algs
           /\ Len(kids) \in Nat
           /\ \A k \in 1..Len(kids) :
                 /\ alg \in RuleAlgs => kids[k] \in Rules
                 /\ alg \notin RuleAlgs => kids[k] \in Policies
    BY CallsAssumption DEF alg, kids, CallRecords

\* What a child answers.
LEMMA ValueFacts ==
    ASSUME call \in Calls, NEW k \in 1..Len(kids)
    PROVE  /\ Value(k) \in Decisions
           /\ alg \in RuleAlgs => /\ Value(k) # "IndeterminateDP"
                                  /\ Value(k) \in Effects => Value(k) = kids[k].effect
                                  /\ Value(k) = "IndeterminateP" => kids[k].effect = Permit
                                  /\ Value(k) = "IndeterminateD" => kids[k].effect = Deny
           /\ alg \notin RuleAlgs /\ kids[k].target \in {"NoMatch", "Error"}
                => Value(k) = NotApplicable
    <1>1. CASE alg \in RuleAlgs
        BY <1>1, CallFacts, RuleDecides DEF Value
    <1>2. CASE alg \notin RuleAlgs
        BY <1>2, CallFacts, PolicyDecides DEF Value
    <1> QED BY <1>1, <1>2

\* The loop of a cautious algorithm: the winner, and the errors it flags.
LEMMA CautiousFacts ==
    ASSUME call \in Calls, alg \in CautiousAlgs
    PROVE  /\ {loop.gathers, Winner} = Effects
           /\ loop.gathers # Winner
           /\ loop.returns = {Winner}
           /\ WinnerError \in loop.errors
           /\ alg \in Rule2Algs => loop.errors = Indeterminates
           /\ alg \in Policy3Algs => "IndeterminateDP" \in loop.errors
           /\ alg \in DenyAlgs => loop.gathers = Permit /\ WinnerError = "IndeterminateD"
           /\ alg \notin DenyAlgs => loop.gathers = Deny /\ WinnerError = "IndeterminateP"
    <1>1. /\ loop.gathers \in Effects
          /\ alg \in DenyAlgs => loop.gathers = Permit
          /\ alg \notin DenyAlgs => loop.gathers = Deny
          /\ loop.returns = Effects \ {loop.gathers}
          /\ alg \in Rule2Algs => loop.errors = Indeterminates
          /\ alg \in Rule3Algs => loop.errors = {"IndeterminateD", "IndeterminateP"}
          /\ alg \in Policy3Algs => loop.errors = Indeterminates \ {"Indeterminate"}
        BY CallFacts, LoopFacts DEF loop, Effects, Permit, Deny
    <1>2. Winner \in Effects /\ Winner # loop.gathers
        BY <1>1 DEF Winner, Effects, Permit, Deny
    <1>3. alg \in DenyAlgs => Winner = Deny /\ WinnerError = "IndeterminateD"
        BY <1>1, <1>2 DEF WinnerError, Effects, Permit, Deny
    <1>4. alg \notin DenyAlgs => Winner = Permit /\ WinnerError = "IndeterminateP"
        BY <1>1, <1>2 DEF WinnerError, Effects, Permit, Deny
    <1>5. alg \in Rule2Algs \cup Rule3Algs \cup Policy3Algs
        BY DEF CautiousAlgs, Rule2Algs, Rule3Algs, Policy3Algs
    <1> QED BY <1>1, <1>2, <1>3, <1>4, <1>5 DEF Effects, Permit, Deny, Indeterminates

-----------------------------------------------------------------------------
(* What the loop body notes.                                               *)

\* The indeterminate slots are indeterminate decisions.
LEMMA SlotType ==
    ASSUME NEW d \in Indeterminates
    PROVE  Slot(d) \in Indeterminates
    BY DEF Slot, Indeterminates

\* Noting the error of child kid keeps the types, raises its flag, and only
\* fills an empty slot.
LEMMA NoteErrorFacts ==
    ASSUME NEW n \in Nat, NEW kid \in 1..n, NEW d \in Indeterminates,
           seen \subseteq Decisions, first \in [Indeterminates -> 0..n], NoteError(d, kid)
    PROVE  /\ seen' = seen \cup {d}
           /\ first' \in [Indeterminates -> 0..n]
           /\ \A s \in Indeterminates :
                 first'[s] = first[s] \/ (first[s] = 0 /\ first'[s] = kid)
           /\ first'[Slot(d)] # 0
    BY SlotType DEF NoteError, Slot

LEMMA NoteFacts ==
    ASSUME NEW n \in Nat, NEW kid \in 1..n, NEW d \in Decisions, call \in Calls,
           seen \subseteq Decisions, first \in [Indeterminates -> 0..n], obligations \subseteq 1..n,
           Note(d, kid)
    PROVE  /\ seen' \in SUBSET Decisions /\ seen \subseteq seen' /\ seen' \subseteq seen \cup {d}
           /\ d \in loop.errors => d \in seen'
           /\ d \in seen' \cap Indeterminates => d \in seen \/ first'[Slot(d)] # 0
           /\ first' \in [Indeterminates -> 0..n]
           /\ \A s \in Indeterminates :
                 first'[s] = first[s] \/ (first[s] = 0 /\ first'[s] = kid /\ d \in loop.errors)
           /\ obligations' = IF d = loop.gathers THEN obligations \cup {kid} ELSE obligations
    <1>0. /\ loop.errors \subseteq Indeterminates
          /\ loop.gathers \in {Permit, Deny, "none"}
        BY CallFacts, LoopFacts DEF loop
    <1>1. CASE d = loop.gathers
        BY <1>0, <1>1 DEF Note, Decisions, Indeterminates, Permit, Deny
    <1>2. CASE d # loop.gathers /\ d \in loop.errors
        <2>1. NoteError(d, kid) /\ UNCHANGED obligations
            BY <1>2 DEF Note
        <2>2. d \in Indeterminates
            BY <1>0, <1>2
        <2> QED BY <1>2, <2>1, <2>2, NoteErrorFacts
    <1>3. CASE d # loop.gathers /\ d \notin loop.errors
        BY <1>3 DEF Note
    <1> QED BY <1>1, <1>2, <1>3

\* The first error of a flagged slot, as a result.
LEMMA FirstResultFacts ==
    ASSUME call \in Calls, NEW n \in 0..Len(kids), NEW s \in Indeterminates,
           first \in [Indeterminates -> 0..n], first[s] # 0
    PROVE  /\ FirstResult(s) \in ResultSet(n)
           /\ FirstResult(s).decision = Value(first[s]) /\ FirstResult(s).own = {}
           /\ \A k \in FirstResult(s).obligations : Value(k) = FirstResult(s).decision
    <1>1. first[s] \in 1..n /\ first[s] \in 1..Len(kids) /\ n \in Nat
        BY CallFacts
    <1>2. FirstResult(s) = Passed(Value(first[s]), first[s])
        BY DEF FirstResult, Value
    <1> QED BY <1>1, <1>2, ValueFacts, PassedResult

-----------------------------------------------------------------------------
(* The answer after the loop.                                              *)

\* What holds of the value returned behind the loop: it is a result, its
\* obligations answer its decision, and when it is the loser then everything
\* gathered is in it and no flag of a potential winner is raised.
Sound(r) ==
    /\ r \in ResultSet(i)
    /\ r.decision # "none" /\ r.own = {}
    /\ \A k \in r.obligations : Value(k) = r.decision
    /\ r.decision = loop.gathers =>
          /\ r.obligations = obligations
          /\ alg \in CautiousAlgs => ~Flagged

LEMMA AfterLoopSound ==
    ASSUME IInv, pc = "iterate", i = Len(kids)
    PROVE  /\ Sound(Fresh(NotApplicable, 0))
           /\ alg = "DenyOverridesRule3" => Sound(DenyOverridesRule3Tail)
           /\ alg = "PermitOverridesRule3" => Sound(PermitOverridesRule3Tail)
           /\ alg = "DenyOverridesPolicy3" => Sound(DenyOverridesPolicy3Tail)
           /\ alg = "PermitOverridesPolicy3" => Sound(PermitOverridesPolicy3Tail)
           /\ alg = "DenyOverridesRule2" => Sound(DenyOverridesRule2Tail)
           /\ alg = "PermitOverridesRule2" => Sound(PermitOverridesRule2Tail)
           /\ alg = "DenyOverridesPolicy2" => Sound(DenyOverridesPolicy2Tail)
           /\ alg = "PermitOverridesPolicy2" => Sound(PermitOverridesPolicy2Tail)
           /\ alg \in {"DenyUnlessPermitRule", "DenyUnlessPermitPolicy"} => Sound(Gathered(Deny))
           /\ alg \in {"PermitUnlessDenyRule", "PermitUnlessDenyPolicy"} => Sound(Gathered(Permit))
           /\ alg = "OnlyOneApplicable" => Sound(OnlyOneApplicableTail)
    <1> USE DEF IInv, PlaceInv
    <1> DEFINE g == loop.gathers
    <1>1. /\ i \in Nat /\ seen \subseteq Decisions
          /\ first \in [Indeterminates -> 0..i] /\ obligations \subseteq 1..i
          /\ i \in 0..Len(kids) /\ selected \in 0..i
        BY CallFacts DEF TypeOK
    <1>2. \A k \in obligations : Value(k) = g
        BY DEF ObligationInv, Looping
    <1>3. /\ loop.gathers \in {Permit, Deny, "none"}
          /\ loop = LoopOf[alg]
        BY CallFacts, LoopFacts DEF loop
    <1>4. Fresh(NotApplicable, 0).decision = NotApplicable /\ Sound(Fresh(NotApplicable, 0))
        <2>1. /\ NotApplicable \in Decisions /\ NotApplicable \notin {"none", g}
              /\ 0 \in 0..i
            BY <1>1, <1>3 DEF Decisions, NotApplicable, Permit, Deny
        <2>2. /\ Fresh(NotApplicable, 0) \in ResultSet(i)
              /\ Fresh(NotApplicable, 0).decision = NotApplicable
              /\ Fresh(NotApplicable, 0).obligations = {} /\ Fresh(NotApplicable, 0).own = {}
            BY <1>1, <2>1, FreshResult
        <2> QED BY <2>1, <2>2 DEF Sound
    <1>5. ASSUME NEW d \in Indeterminates, NEW c \in 0..i
          PROVE  Sound(Fresh(d, c))
        <2>1. d \in Decisions /\ d \notin {"none", g}
            BY <1>3, <1>5 DEF Decisions, Indeterminates, Permit, Deny
        <2>2. /\ Fresh(d, c) \in ResultSet(i)
              /\ Fresh(d, c).decision = d
              /\ Fresh(d, c).obligations = {} /\ Fresh(d, c).own = {}
            BY <1>1, <1>5, <2>1, FreshResult
        <2> QED BY <2>1, <2>2 DEF Sound
    <1>6. ASSUME g \in Effects, alg \in CautiousAlgs => ~Flagged
          PROVE  Sound(Gathered(g))
        <2>1. g \in Decisions /\ g # "none"
            BY <1>6 DEF Decisions, Effects, Permit, Deny
        <2>2. /\ Gathered(g) \in ResultSet(i)
              /\ Gathered(g).decision = g
              /\ Gathered(g).obligations = obligations /\ Gathered(g).own = {}
            BY <1>1, <2>1, GatheredResult
        <2> QED BY <1>2, <1>6, <2>1, <2>2 DEF Sound
    <1>7. ASSUME alg \in CautiousAlgs, NEW s \in Indeterminates, first[s] # 0
          PROVE  Sound(FirstResult(s))
        <2>1. Value(first[s]) \in Indeterminates
            BY <1>1, <1>7 DEF ErrorInv
        <2>2. Value(first[s]) # g /\ Value(first[s]) # "none"
            BY <1>3, <2>1 DEF Indeterminates, Permit, Deny
        <2> QED BY <1>1, <1>7, <2>2, FirstResultFacts DEF Sound
    <1>8. ASSUME alg \in CautiousAlgs, NEW d \in Indeterminates, Has(d), Slot(d) = d
          PROVE  Sound(FirstResult(d))
        BY <1>7, <1>8 DEF ErrorInv, Has
    <1>9. \A d \in Indeterminates : first[d] \in 0..i
        BY <1>1
    <1>10. ASSUME alg \in Rule3Algs \cup Policy3Algs
           PROVE  /\ \A d \in Indeterminates : Has(d) => Sound(FirstResult(d))
                  /\ \A d \in Indeterminates : Sound(Fresh("IndeterminateDP", first[d]))
                  /\ alg \in DenyAlgs /\ ~Has("IndeterminateD") /\ ~Has("IndeterminateDP")
                        => Sound(Gathered(Permit))
                  /\ alg \notin DenyAlgs /\ ~Has("IndeterminateP") /\ ~Has("IndeterminateDP")
                        => Sound(Gathered(Deny))
        <2>1. /\ alg \in CautiousAlgs /\ alg \notin Rule2Algs
              /\ \A d \in Indeterminates : Slot(d) = d
            BY <1>10 DEF Rule3Algs, Policy3Algs, Rule2Algs, CautiousAlgs, Slot
        <2>2. Flagged <=> Has(WinnerError) \/ Has("IndeterminateDP")
            BY <2>1 DEF Flagged, Has
        <2>3. /\ alg \in DenyAlgs => g = Permit /\ WinnerError = "IndeterminateD"
              /\ alg \notin DenyAlgs => g = Deny /\ WinnerError = "IndeterminateP"
            BY <2>1, CautiousFacts
        <2> QED BY <1>5, <1>6, <1>8, <1>9, <2>1, <2>2, <2>3 DEF Effects, Indeterminates
    <1>11. alg = "DenyOverridesRule3" => Sound(DenyOverridesRule3Tail)
        <2> SUFFICES ASSUME alg = "DenyOverridesRule3" PROVE Sound(DenyOverridesRule3Tail)
            OBVIOUS
        <2>1. ~Has("IndeterminateDP")
            BY DEF ErrorInv, Has, RuleAlgs
        <2> QED BY <1>4, <1>10, <2>1 DEF DenyOverridesRule3Tail, DenyAlgs, Rule3Algs, Indeterminates
    <1>12. alg = "PermitOverridesRule3" => Sound(PermitOverridesRule3Tail)
        <2> SUFFICES ASSUME alg = "PermitOverridesRule3" PROVE Sound(PermitOverridesRule3Tail)
            OBVIOUS
        <2>1. ~Has("IndeterminateDP")
            BY DEF ErrorInv, Has, RuleAlgs
        <2> QED BY <1>4, <1>10, <2>1 DEF PermitOverridesRule3Tail, DenyAlgs, Rule3Algs, Indeterminates
    <1>13. alg = "DenyOverridesPolicy3" => Sound(DenyOverridesPolicy3Tail)
        BY <1>4, <1>10 DEF DenyOverridesPolicy3Tail, DenyAlgs, Policy3Algs, Indeterminates
    <1>14. alg = "PermitOverridesPolicy3" => Sound(PermitOverridesPolicy3Tail)
        BY <1>4, <1>10 DEF PermitOverridesPolicy3Tail, DenyAlgs, Policy3Algs, Indeterminates
    <1>15. ASSUME alg \in Rule2Algs
           PROVE  /\ potential \/ Failed => Sound(FirstResult("Indeterminate"))
                  /\ ~potential => Sound(Gathered(g))
                  /\ alg = "DenyOverridesRule2" => g = Permit
                  /\ alg = "PermitOverridesRule2" => g = Deny
        <2>1. alg \in CautiousAlgs /\ \A d \in Indeterminates : Slot(d) = "Indeterminate"
            BY <1>15 DEF Rule2Algs, CautiousAlgs, Slot
        <2>2. potential \/ Failed => first["Indeterminate"] # 0
            BY <2>1 DEF ErrorInv, Failed
        <2>3. potential \/ Failed => Sound(FirstResult("Indeterminate"))
            BY <1>7, <2>1, <2>2 DEF Indeterminates
        <2>4. ~potential => Sound(Gathered(g))
            BY <1>6, <1>15, <2>1, CautiousFacts DEF Effects, Flagged
        <2> QED BY <2>1, <2>3, <2>4, CautiousFacts DEF DenyAlgs
    <1>16. alg = "DenyOverridesRule2" => Sound(DenyOverridesRule2Tail)
        BY <1>4, <1>15 DEF DenyOverridesRule2Tail, Rule2Algs
    <1>17. alg = "PermitOverridesRule2" => Sound(PermitOverridesRule2Tail)
        BY <1>4, <1>15 DEF PermitOverridesRule2Tail, Rule2Algs
    <1>18. ASSUME alg \in {"DenyOverridesPolicy2", "PermitOverridesPolicy2"} \cup UnlessPolicyAlgs
                            \cup {"DenyUnlessPermitRule", "PermitUnlessDenyRule"}
           PROVE  /\ g \in Effects => Sound(Gathered(g))
                  /\ Sound(Fresh("Indeterminate", first["Indeterminate"]))
        <2>1. alg \notin CautiousAlgs
            BY <1>18 DEF CautiousAlgs, UnlessPolicyAlgs
        <2> QED BY <1>5, <1>6, <1>9, <2>1 DEF Indeterminates
    <1>19. alg = "DenyOverridesPolicy2" => Sound(DenyOverridesPolicy2Tail)
        <2>1. alg = "DenyOverridesPolicy2" => g = Permit
            BY DEF loop, LoopOf, DenyOverridesPolicy2Loop, Loop
        <2> QED BY <1>4, <1>18, <2>1 DEF DenyOverridesPolicy2Tail, Effects
    <1>20. alg = "PermitOverridesPolicy2" => Sound(PermitOverridesPolicy2Tail)
        <2>1. alg = "PermitOverridesPolicy2" => g = Deny
            BY DEF loop, LoopOf, PermitOverridesPolicy2Loop, Loop
        <2> QED BY <1>4, <1>18, <2>1 DEF PermitOverridesPolicy2Tail, Effects
    <1>21. alg \in {"DenyUnlessPermitRule", "DenyUnlessPermitPolicy"} => Sound(Gathered(Deny))
        <2>1. alg \in {"DenyUnlessPermitRule", "DenyUnlessPermitPolicy"} => g = Deny
            BY DEF loop, LoopOf, DenyUnlessPermitRuleLoop, DenyUnlessPermitPolicyLoop, Loop
        <2> QED BY <1>18, <2>1 DEF Effects, UnlessPolicyAlgs
    <1>22. alg \in {"PermitUnlessDenyRule", "PermitUnlessDenyPolicy"} => Sound(Gathered(Permit))
        <2>1. alg \in {"PermitUnlessDenyRule", "PermitUnlessDenyPolicy"} => g = Permit
            BY DEF loop, LoopOf, PermitUnlessDenyRuleLoop, PermitUnlessDenyPolicyLoop, Loop
        <2> QED BY <1>18, <2>1 DEF Effects, UnlessPolicyAlgs
    <1>23. alg = "OnlyOneApplicable" => Sound(OnlyOneApplicableTail)
        <2> SUFFICES ASSUME alg = "OnlyOneApplicable" PROVE Sound(OnlyOneApplicableTail)
            OBVIOUS
        <2>1. alg \notin CautiousAlgs /\ g = "none"
            BY DEF CautiousAlgs, loop, LoopOf, OnlyOneApplicableLoop, Loop
        <2>2. CASE selected # 0
            <3>1. selected \in 1..i /\ selected \in 1..Len(kids)
                BY <1>1, <2>2
            <3>2. Value(selected) = PolicyEvaluate(kids[selected])
                BY DEF Value, RuleAlgs
            <3>3. Value(selected) \in Decisions /\ Value(selected) # "none"
                BY <3>1, ValueFacts DEF Decisions, Effects, Indeterminates, Permit, Deny, NotApplicable
            <3> QED BY <1>1, <2>1, <2>2, <3>1, <3>2, <3>3, PassedResult
                    DEF OnlyOneApplicableTail, Sound
        <2> QED BY <1>4, <2>2 DEF OnlyOneApplicableTail
    <1> QED BY <1>4, <1>11, <1>12, <1>13, <1>14, <1>16, <1>17, <1>19, <1>20, <1>21, <1>22, <1>23

-----------------------------------------------------------------------------
(* What every step is made of.  A step either moves the loop on to the     *)
(* next child (Advance) or ends it with a result (Settle).                 *)

\* Child kid has been weighed without ending the loop.
Advance(kid) ==
    /\ Looping /\ kid = Processed + 1 /\ kid \in 1..Len(kids)
    /\ pc' = "iterate" /\ i' = kid /\ UNCHANGED <<call, result>>
    /\ obligations' = IF Value(kid) = loop.gathers THEN obligations \cup {kid} ELSE obligations
    /\ seen \subseteq seen' /\ seen' \subseteq Decisions
    /\ alg \in RuleAlgs => "IndeterminateDP" \notin seen'
    /\ \A d \in seen' \cap Indeterminates : d \in seen \/ first'[Slot(d)] # 0
    /\ first' \in [Indeterminates -> 0..kid]
    /\ \A s \in Indeterminates :
          \/ first'[s] = first[s]
          \/ /\ first[s] = 0 /\ first'[s] = kid
             /\ alg \in CautiousAlgs => Value(kid) \in Indeterminates
    /\ potential' \in BOOLEAN /\ (potential => potential')
    /\ potential' => potential \/ (alg \in Rule2Algs /\ first'["Indeterminate"] # 0)
    /\ alg \in CautiousAlgs /\ Matters(kid) /\ MayWin(kid) => Flagged'
    /\ selected' \in 0..kid

\* The loop, or the target check before it, is over and has the result r.
Settle(r) ==
    /\ Looping /\ pc' \in {"obligations", "done"} /\ result' = r
    /\ i' \in i..Len(kids)
    /\ UNCHANGED <<call, seen, first, potential, obligations>>
    /\ selected' \in 0..i'
    /\ r \in ResultSet(i') /\ r.decision # "none" /\ r.own = {}
    /\ \A k \in r.obligations : Value(k) = r.decision
    /\ r.decision = loop.gathers =>
          /\ r.obligations = {k \in 1..Len(kids) : Value(k) = loop.gathers}
          /\ alg \in CautiousAlgs => \A k \in 1..Len(kids) : Matters(k) => ~MayWin(k)

\* The call never changes, and nothing that depends on it only.
LEMMA CallConstant ==
    ASSUME UNCHANGED call
    PROVE  /\ alg' = alg /\ kids' = kids /\ loop' = loop
           /\ Winner' = Winner /\ WinnerError' = WinnerError
           /\ \A k : Value(k)' = Value(k) /\ MayWin(k)' = MayWin(k) /\ Matters(k)' = Matters(k)
           /\ \A d : Slot(d)' = Slot(d)
    <1>1. alg' = alg /\ kids' = kids /\ loop' = loop
        BY DEF alg, kids, loop
    <1>2. Winner' = Winner /\ WinnerError' = WinnerError
        BY <1>1 DEF Winner, WinnerError
    <1>3. \A k : Value(k)' = Value(k) /\ Matters(k)' = Matters(k)
        BY <1>1 DEF Value, Matters
    <1>4. \A k : MayWin(k)' = MayWin(k)
        BY <1>1, <1>2, <1>3 DEF MayWin
    <1>5. \A d : Slot(d)' = Slot(d)
        BY <1>1 DEF Slot
    <1> QED BY <1>1, <1>2, <1>3, <1>4, <1>5

LEMMA AdvanceKeepsIInv ==
    ASSUME IInv, NEW kid, Advance(kid)
    PROVE  IInv'
    <1> USE DEF IInv
    <1>1. /\ alg' = alg /\ kids' = kids /\ loop' = loop /\ WinnerError' = WinnerError
          /\ \A k : Value(k)' = Value(k) /\ MayWin(k)' = MayWin(k) /\ Matters(k)' = Matters(k)
          /\ \A d : Slot(d)' = Slot(d)
        BY CallConstant DEF Advance
    <1>2. /\ Looping' /\ Processed' = kid /\ kid \in Nat /\ i \in Nat /\ i <= kid
          /\ Len(kids) \in Nat /\ 1..kid = (1..Processed) \cup {kid} /\ Processed \in Nat
        BY CallFacts DEF Advance, Looping, Processed, TypeOK, PlaceInv
    <1>3. TypeOK'
        <2>1. result' \in ResultSet(i')
            BY <1>2 DEF TypeOK, Advance, ResultSet
        <2>2. obligations' \subseteq 1..i'
            BY <1>2 DEF TypeOK, Advance
        <2> QED BY <1>1, <1>2, <2>1, <2>2 DEF TypeOK, Advance, ResultSet
    <1>4. PlaceInv'
        BY <1>1, <1>2 DEF PlaceInv, Advance
    <1>5. ErrorInv'
        <2>1. \A d \in seen' \cap Indeterminates : first'[Slot(d)] # 0
            BY <1>2, SlotType DEF ErrorInv, Advance, TypeOK
        <2>2. potential' => alg \in Rule2Algs /\ first'["Indeterminate"] # 0
            BY <1>2 DEF ErrorInv, Advance, TypeOK, Indeterminates
        <2>3. ASSUME alg \in CautiousAlgs, NEW s \in Indeterminates, NEW k \in 1..Len(kids), first'[s] = k
              PROVE  Value(k) \in Indeterminates
            BY <2>3 DEF ErrorInv, Advance
        <2> QED BY <1>1, <2>1, <2>2, <2>3 DEF ErrorInv, Advance
    <1>6. FlagInv'
        <2>1. Flagged => Flagged'
            BY <1>1 DEF Flagged, Advance
        <2>2. ASSUME alg \in CautiousAlgs, NEW k \in 1..kid, Matters(k), MayWin(k)
              PROVE  Flagged'
            BY <1>2, <2>1, <2>2 DEF FlagInv, Advance
        <2> QED BY <1>1, <1>2, <2>2 DEF FlagInv
    <1>7. ObligationInv'
        <2>1. obligations' = {k \in 1..kid : Value(k) = loop.gathers}
            BY <1>2 DEF ObligationInv, Advance
        <2>2. result'.own \subseteq {result'.decision}
            BY DEF ObligationInv, Advance
        <2> QED BY <1>1, <1>2, <2>1, <2>2 DEF ObligationInv
    <1> QED BY <1>3, <1>4, <1>5, <1>6, <1>7

LEMMA SettleKeepsIInv ==
    ASSUME IInv, NEW r, Settle(r)
    PROVE  IInv'
    <1> USE DEF IInv
    <1>1. /\ alg' = alg /\ kids' = kids /\ loop' = loop
          /\ \A k : Value(k)' = Value(k) /\ MayWin(k)' = MayWin(k) /\ Matters(k)' = Matters(k)
          /\ \A d : Slot(d)' = Slot(d)
        BY CallConstant DEF Settle
    <1>2. ~Looping' /\ Len(kids) \in Nat /\ i \in Nat /\ i' \in 0..Len(kids) /\ i <= i'
        BY CallFacts DEF Settle, Looping, TypeOK, PlaceInv
    <1>3. TypeOK'
        <2>1. first' \in [Indeterminates -> 0..i'] /\ obligations' \subseteq 1..i'
            BY <1>2 DEF TypeOK, Settle
        <2> QED BY <1>1, <1>2, <2>1 DEF TypeOK, Settle, ResultSet
    <1>4. PlaceInv'
        BY <1>1, <1>2 DEF PlaceInv, Settle
    <1>5. ErrorInv'
        BY <1>1 DEF ErrorInv, Settle
    <1>6. FlagInv'
        BY <1>1, <1>2 DEF FlagInv, Settle
    <1>7. ObligationInv'
        BY <1>1, <1>2 DEF ObligationInv, Settle
    <1> QED BY <1>3, <1>4, <1>5, <1>6, <1>7

-----------------------------------------------------------------------------
(* The actions.                                                            *)

\* A child that does not end the loop is noted as Advance demands.
LEMMA NoteAdvances ==
    ASSUME IInv, Looping, NEW kid \in 1..Len(kids), kid = Processed + 1,
           pc' = "iterate", i' = kid, UNCHANGED <<call, result, selected>>,
           Value(kid) \notin loop.returns, Note(Value(kid), kid),
           potential' = (potential \/ /\ alg \in Rule2Algs
                                      /\ Value(kid) \in Indeterminates
                                      /\ kids[kid].effect \in loop.returns)
    PROVE  Advance(kid)
    <1> USE DEF IInv
    <1> DEFINE value == Value(kid)
    <1>1. /\ i \in Nat /\ kid \in Nat /\ i <= kid /\ Len(kids) \in Nat
          /\ call \in Calls /\ alg \in Algs
        BY CallFacts DEF TypeOK, PlaceInv, Processed
    <1>2. /\ value \in Decisions
          /\ alg \in RuleAlgs => value # "IndeterminateDP"
        BY <1>1, ValueFacts
    <1>3. /\ seen \subseteq Decisions /\ obligations \subseteq 1..kid
          /\ first \in [Indeterminates -> 0..kid]
        BY <1>1 DEF TypeOK
    <1>4. /\ seen' \in SUBSET Decisions /\ seen \subseteq seen' /\ seen' \subseteq seen \cup {value}
          /\ value \in loop.errors => value \in seen'
          /\ value \in seen' \cap Indeterminates => value \in seen \/ first'[Slot(value)] # 0
          /\ first' \in [Indeterminates -> 0..kid]
          /\ \A s \in Indeterminates :
                first'[s] = first[s] \/ (first[s] = 0 /\ first'[s] = kid /\ value \in loop.errors)
          /\ obligations' = IF value = loop.gathers THEN obligations \cup {kid} ELSE obligations
        BY <1>1, <1>2, <1>3, NoteFacts
    <1>5. loop.errors \subseteq Indeterminates /\ (alg \in Rule2Algs => loop.errors = Indeterminates)
        BY <1>1, LoopFacts DEF loop
    <1>6. alg \in RuleAlgs => "IndeterminateDP" \notin seen'
        BY <1>2, <1>4 DEF ErrorInv
    <1>7. \A d \in seen' \cap Indeterminates : d \in seen \/ first'[Slot(d)] # 0
        BY <1>4
    <1>8. potential' \in BOOLEAN /\ (potential => potential')
        BY DEF TypeOK
    <1>9. potential' => potential \/ (alg \in Rule2Algs /\ first'["Indeterminate"] # 0)
        <2> SUFFICES ASSUME alg \in Rule2Algs, value \in Indeterminates
                     PROVE  first'["Indeterminate"] # 0
            OBVIOUS
        <2>1. Slot(value) = "Indeterminate" /\ "Indeterminate" \in Indeterminates
            BY DEF Slot, Rule2Algs, Indeterminates
        <2>2. value \in seen'
            BY <1>4, <1>5
        <2>3. value \in seen => first["Indeterminate"] # 0
            BY <2>1 DEF ErrorInv
        <2> QED BY <1>4, <2>1, <2>2, <2>3, <1>1
    <1>10. ASSUME alg \in CautiousAlgs, MayWin(kid)
           PROVE  Flagged'
        <2>1. /\ {loop.gathers, Winner} = Effects /\ loop.returns = {Winner}
              /\ WinnerError \in loop.errors
              /\ alg \in Policy3Algs => "IndeterminateDP" \in loop.errors
              /\ alg \in DenyAlgs => loop.gathers = Permit /\ WinnerError = "IndeterminateD"
              /\ alg \notin DenyAlgs => loop.gathers = Deny /\ WinnerError = "IndeterminateP"
            BY <1>1, <1>10, CautiousFacts
        <2>2. alg' = alg /\ WinnerError' = WinnerError
            BY CallConstant
        <2>3. CASE alg \in Rule2Algs
            <3>1. alg \in RuleAlgs
                BY <2>3 DEF Rule2Algs, RuleAlgs
            <3>2. value \in Indeterminates
                BY <1>10, <2>1 DEF MayWin, Indeterminates
            <3>3. kids[kid].effect = Winner
                BY <1>1, <1>10, <1>2, <2>1, <3>1, ValueFacts DEF MayWin, Effects, Permit, Deny
            <3> QED BY <2>1, <2>2, <2>3, <3>2, <3>3 DEF Flagged
        <2>4. CASE alg \notin Rule2Algs
            <3>1. value \in {WinnerError, "IndeterminateDP"}
                BY <1>10, <2>1, <2>4 DEF MayWin, Rule2Algs
            <3>2. alg \in RuleAlgs \/ alg \in Policy3Algs
                BY <1>10 DEF CautiousAlgs, RuleAlgs, Policy3Algs
            <3>3. value \in seen'
                BY <1>2, <1>4, <2>1, <3>1, <3>2
            <3> QED BY <2>2, <2>4, <3>1, <3>3 DEF Flagged
        <2> QED BY <2>3, <2>4
    <1>11. selected' \in 0..kid
        BY <1>1 DEF TypeOK
    <1> QED BY <1>1, <1>4, <1>5, <1>6, <1>7, <1>8, <1>9, <1>10, <1>11 DEF Advance

\* A child that ends the loop hands over its own result.
LEMMA PassedSettles ==
    ASSUME IInv, Looping, NEW kid \in 1..Len(kids), kid = Processed + 1, i' = kid,
           Value(kid) # loop.gathers, Return(Passed(Value(kid), kid)),
           UNCHANGED <<call, seen, first, potential, obligations, selected>>
    PROVE  Settle(Passed(Value(kid), kid))
    <1> USE DEF IInv
    <1> DEFINE r == Passed(Value(kid), kid)
    <1>1. /\ call \in Calls /\ i \in Nat /\ Len(kids) \in Nat /\ kid \in Nat
          /\ i' \in i..Len(kids)
        BY CallFacts DEF TypeOK, PlaceInv, Processed
    <1>2. Value(kid) \in Decisions /\ Value(kid) # "none"
        BY <1>1, ValueFacts DEF Decisions, Effects, Indeterminates, Permit, Deny, NotApplicable
    <1>3. /\ r \in ResultSet(kid) /\ r.decision = Value(kid) /\ r.own = {}
          /\ r.obligations \subseteq {kid}
        BY <1>1, <1>2, PassedResult
    <1>4. selected' \in 0..i'
        BY <1>1 DEF TypeOK
    <1>5. pc' \in {"obligations", "done"} /\ result' = r
        BY DEF Return
    <1> QED BY <1>1, <1>2, <1>3, <1>4, <1>5 DEF Settle

\* A new result that is not the loser's.
LEMMA FreshSettles ==
    ASSUME IInv, Looping, i' \in i..Len(kids),
           NEW d \in Decisions \cup {"NullPointerException"}, NEW c \in 0..i',
           d # loop.gathers, pc' \in {"obligations", "done"}, result' = Fresh(d, c),
           UNCHANGED <<call, seen, first, potential, obligations, selected>>
    PROVE  Settle(Fresh(d, c))
    <1> USE DEF IInv
    <1>1. /\ i \in Nat /\ Len(kids) \in Nat /\ i' \in Nat
          /\ selected' \in 0..i' /\ d # "none"
        BY CallFacts DEF TypeOK, PlaceInv, Decisions, Effects, Indeterminates, Permit, Deny, NotApplicable
    <1>2. /\ Fresh(d, c) \in ResultSet(i') /\ Fresh(d, c).decision = d
          /\ Fresh(d, c).obligations = {} /\ Fresh(d, c).own = {}
        BY <1>1, FreshResult
    <1> QED BY <1>1, <1>2 DEF Settle

LEMMA CheckTargetKeepsIInv ==
    ASSUME IInv, CheckTarget
    PROVE  IInv'
    <1>1. CASE call.target \in {"none", "Match"}
        <2>1. /\ pc = "target" /\ pc' = "iterate"
              /\ UNCHANGED <<call, i, seen, first, potential, obligations, selected, result>>
            BY <1>1 DEF CheckTarget
        <2>2. /\ alg' = alg /\ kids' = kids /\ loop' = loop /\ WinnerError' = WinnerError
              /\ \A k : Value(k)' = Value(k) /\ MayWin(k)' = MayWin(k) /\ Matters(k)' = Matters(k)
              /\ \A d : Slot(d)' = Slot(d)
            BY <2>1, CallConstant
        <2>3. Looping /\ Looping' /\ Processed' = Processed
            BY <2>1 DEF Looping, Processed
        <2>4. Flagged' = Flagged
            BY <2>1, <2>2 DEF Flagged
        <2>5. TypeOK' /\ PlaceInv'
            BY <2>1, <2>2, <2>3 DEF IInv, TypeOK, PlaceInv
        <2>6. ErrorInv' /\ ObligationInv'
            BY <2>1, <2>2, <2>3 DEF IInv, ErrorInv, ObligationInv
        <2>7. FlagInv'
            BY <2>1, <2>2, <2>3, <2>4 DEF IInv, FlagInv
        <2> QED BY <2>5, <2>6, <2>7 DEF IInv
    <1>2. CASE call.target \in {"NoMatch", "Error"}
        <2>1. /\ Looping /\ pc' = "done" /\ result' = Fresh(NotApplicable, 0)
              /\ UNCHANGED <<call, i, seen, first, potential, obligations, selected>>
            BY <1>2 DEF CheckTarget, Looping
        <2>2. i \in 0..Len(kids) /\ Len(kids) \in Nat /\ loop = LoopOf[alg] /\ alg \in Algs
            BY CallFacts DEF IInv, TypeOK, PlaceInv, loop
        <2>3. NotApplicable \in Decisions /\ NotApplicable # loop.gathers
            BY <2>2, LoopFacts DEF Decisions, NotApplicable, Permit, Deny
        <2>4. Settle(Fresh(NotApplicable, 0))
            BY <2>1, <2>2, <2>3, FreshSettles
        <2> QED BY <2>4, SettleKeepsIInv
    <1> QED BY <1>1, <1>2 DEF CheckTarget

LEMMA EvaluateRuleKeepsIInv ==
    ASSUME IInv, EvaluateRule
    PROVE  IInv'
    <1> DEFINE kid == i + 1
    <1>1. /\ call \in Calls /\ alg \in Algs /\ loop = LoopOf[alg] /\ potential \in BOOLEAN
          /\ i \in Nat /\ Len(kids) \in Nat /\ Looping /\ kid = Processed + 1 /\ kid \in 1..Len(kids)
        BY CallFacts DEF IInv, TypeOK, PlaceInv, EvaluateRule, Looping, Processed, loop
    <1>2. Value(kid) = RuleEvaluate(kids[kid]) /\ i' = kid /\ UNCHANGED <<call, selected>>
        BY DEF EvaluateRule, Value
    <1>3. CASE Value(kid) \in loop.returns
        <2>1. Value(kid) # loop.gathers
            BY <1>1, <1>3, LoopFacts
        <2>2. Return(Passed(Value(kid), kid)) /\ UNCHANGED <<seen, first, obligations, potential>>
            BY <1>2, <1>3 DEF EvaluateRule
        <2>3. Settle(Passed(Value(kid), kid))
            BY <1>1, <1>2, <2>1, <2>2, PassedSettles
        <2> QED BY <2>3, SettleKeepsIInv
    <1>4. CASE Value(kid) \notin loop.returns
        <2>1. /\ Note(Value(kid), kid) /\ UNCHANGED <<pc, result>>
              /\ potential' = (potential \/ /\ alg \in Rule2Algs
                                            /\ Value(kid) \in Indeterminates
                                            /\ kids[kid].effect \in loop.returns)
            BY <1>2, <1>4 DEF EvaluateRule, Rule2Algs
        <2>2. pc' = "iterate"
            BY <2>1 DEF EvaluateRule
        <2>3. Advance(kid)
            BY <1>1, <1>2, <1>4, <2>1, <2>2, NoteAdvances
        <2> QED BY <2>3, AdvanceKeepsIInv
    <1> QED BY <1>3, <1>4

\* A policy loop weighs a child's decision.
LEMMA WeighKeepsIInv ==
    ASSUME IInv, Looping, alg \notin RuleAlgs, NEW kid \in 1..Len(kids), kid = Processed + 1,
           i' = kid, UNCHANGED <<call, potential, selected>>, Weigh(Value(kid), kid)
    PROVE  IInv'
    <1>1. /\ call \in Calls /\ alg \in Algs /\ loop = LoopOf[alg] /\ potential \in BOOLEAN
          /\ i \in Nat /\ Len(kids) \in Nat /\ kid \in Nat /\ i' \in i..Len(kids)
         
        BY CallFacts DEF IInv, TypeOK, PlaceInv, Processed, loop
    <1>2. CASE Value(kid) \in loop.returns /\ Return(Passed(Value(kid), kid))
               /\ UNCHANGED <<seen, first, obligations>>
        <2>1. Value(kid) # loop.gathers
            BY <1>1, <1>2, LoopFacts
        <2>2. Settle(Passed(Value(kid), kid))
            BY <1>2, <2>1, PassedSettles
        <2> QED BY <2>2, SettleKeepsIInv
    <1>3. CASE alg = "DenyOverridesPolicy2" /\ Return(Fresh(Deny, 0))
               /\ UNCHANGED <<seen, first, obligations>>
        <2>1. Deny \in Decisions /\ Deny # loop.gathers
            BY <1>3 DEF loop, LoopOf, DenyOverridesPolicy2Loop, Loop, Permit, Deny, Decisions, Effects
        <2>2. Settle(Fresh(Deny, 0))
            BY <1>1, <1>3, <2>1, FreshSettles DEF Return
        <2> QED BY <2>2, SettleKeepsIInv
    <1>4. CASE /\ Value(kid) \notin loop.returns /\ Note(Value(kid), kid)
               /\ pc' = "iterate" /\ UNCHANGED result
        <2>1. alg \notin Rule2Algs
            BY DEF Rule2Algs, RuleAlgs
        <2>2. potential' = (potential \/ /\ alg \in Rule2Algs
                                         /\ Value(kid) \in Indeterminates
                                         /\ kids[kid].effect \in loop.returns)
            BY <1>1, <2>1
        <2>3. Advance(kid)
            BY <1>4, <2>2, NoteAdvances
        <2> QED BY <2>3, AdvanceKeepsIInv
    <1> QED BY <1>2, <1>3, <1>4 DEF Weigh

LEMMA EvaluateUnmatchedKeepsIInv ==
    ASSUME IInv, EvaluateUnmatched
    PROVE  IInv'
    <1>1. /\ Looping /\ alg \notin RuleAlgs /\ i + 1 = Processed + 1
          /\ i + 1 \in 1..Len(kids)
        BY CallFacts DEF IInv, TypeOK, PlaceInv, EvaluateUnmatched, Looping, Processed, RuleAlgs, UnlessPolicyAlgs
    <1>2. Value(i + 1) = PolicyEvaluate(kids[i + 1])
        BY <1>1 DEF Value
    <1> QED BY <1>1, <1>2, WeighKeepsIInv DEF EvaluateUnmatched

LEMMA EvaluateMatchedKeepsIInv ==
    ASSUME IInv, EvaluateMatched
    PROVE  IInv'
    <1>1. /\ Looping /\ alg \notin RuleAlgs /\ i = Processed + 1 /\ i \in 1..Len(kids)
        BY CallFacts DEF IInv, TypeOK, PlaceInv, EvaluateMatched, Looping, Processed, RuleAlgs, MatchingAlgs
    <1>2. Value(i) = PolicyEvaluate(kids[i])
        BY <1>1 DEF Value
    <1> QED BY <1>1, <1>2, WeighKeepsIInv DEF EvaluateMatched

\* A child that does not match is skipped, and the selected policy of
\* only-one-applicable is kept for later.
LEMMA SkipAdvances ==
    ASSUME IInv, pc = "iterate", NEW kid \in 1..Len(kids), kid = i + 1,
           i' = kid, pc' = "iterate",
           UNCHANGED <<call, result, seen, first, potential, obligations>>,
           Value(kid) # loop.gathers, alg \in CautiousAlgs => ~Matters(kid),
           selected' \in 0..kid
    PROVE  Advance(kid)
    <1>1. /\ i \in Nat /\ Len(kids) \in Nat /\ kid \in Nat /\ i <= kid
          /\ Looping /\ kid = Processed + 1
        BY CallFacts DEF IInv, TypeOK, PlaceInv, Looping, Processed
    <1>2. first' \in [Indeterminates -> 0..kid] /\ seen' \subseteq Decisions
        BY <1>1 DEF IInv, TypeOK
    <1>3. potential' \in BOOLEAN
        BY DEF IInv, TypeOK
    <1>4. alg \in RuleAlgs => "IndeterminateDP" \notin seen'
        BY DEF IInv, ErrorInv
    <1> QED BY <1>1, <1>2, <1>3, <1>4 DEF Advance

LEMMA MatchPolicyKeepsIInv ==
    ASSUME IInv, MatchPolicy
    PROVE  IInv'
    <1> DEFINE kid == i + 1
    <1>1. /\ call \in Calls /\ alg \in Algs /\ loop = LoopOf[alg]
          /\ i \in Nat /\ Len(kids) \in Nat /\ Looping /\ kid \in 1..Len(kids)
          /\ pc = "iterate" /\ alg \notin RuleAlgs /\ i' = kid /\ kid \in Nat
          /\ i' \in i..Len(kids) /\ 0 \in 0..i' /\ kid \in 0..i' /\ kid = Processed + 1
          /\ selected \in 0..kid
          /\ UNCHANGED <<call, potential, obligations>>
        BY CallFacts DEF IInv, TypeOK, PlaceInv, MatchPolicy, Looping, Processed, loop,
                         RuleAlgs, MatchingAlgs
    <1>2. /\ loop.gathers \in {Permit, Deny, "none"}
          /\ loop.onMatchError = "deny" => loop.gathers = Permit
          /\ loop.onMatchError = "note" => alg = "PermitOverridesPolicy2"
        BY <1>1, LoopFacts
    <1>3. /\ NotApplicable # loop.gathers /\ "Indeterminate" # loop.gathers
          /\ "NullPointerException" # loop.gathers
          /\ "Indeterminate" \in Decisions /\ Deny \in Decisions /\ "Indeterminate" \in Indeterminates
        BY <1>2 DEF NotApplicable, Permit, Deny, Decisions, Effects, Indeterminates
    <1>4. CASE kids[kid].target = "none" /\ Throw /\ UNCHANGED <<seen, first, selected>>
        <2>1. Settle(Fresh("NullPointerException", 0))
            BY <1>1, <1>3, <1>4, FreshSettles DEF Throw
        <2> QED BY <2>1, SettleKeepsIInv
    <1>5. ASSUME kids[kid].target \in {"NoMatch", "Error"},
                 UNCHANGED <<pc, result, seen, first, selected>>
          PROVE  IInv'
        <2>1. Value(kid) = NotApplicable /\ ~Matters(kid)
            BY <1>1, <1>5, ValueFacts DEF Matters
        <2>2. Advance(kid)
            BY <1>1, <1>3, <1>5, <2>1, SkipAdvances
        <2> QED BY <2>2, AdvanceKeepsIInv
    <1>6. CASE kids[kid].target = "Error" /\ MatchError(kid) /\ UNCHANGED selected
        <2>1. CASE loop.onMatchError = "deny" /\ Return(Fresh(Deny, 0)) /\ UNCHANGED <<seen, first>>
            <3>1. Deny # loop.gathers
                BY <1>2, <2>1 DEF Permit, Deny
            <3>2. Settle(Fresh(Deny, 0))
                BY <1>1, <1>3, <1>6, <2>1, <3>1, FreshSettles DEF Return
            <3> QED BY <3>2, SettleKeepsIInv
        <2>2. CASE Return(Fresh("Indeterminate", kid)) /\ UNCHANGED <<seen, first>>
            <3>1. Settle(Fresh("Indeterminate", kid))
                BY <1>1, <1>3, <1>6, <2>2, FreshSettles DEF Return
            <3> QED BY <3>1, SettleKeepsIInv
        <2>3. CASE /\ loop.onMatchError = "note" /\ NoteError("Indeterminate", kid)
                   /\ UNCHANGED <<pc, result>>
            <3>1. alg \notin CautiousAlgs /\ alg = "PermitOverridesPolicy2"
                BY <1>2, <2>3 DEF CautiousAlgs
            <3>2. Value(kid) = NotApplicable
                BY <1>1, <1>6, ValueFacts
            <3>3. first \in [Indeterminates -> 0..kid] /\ seen \subseteq Decisions
                BY <1>1 DEF IInv, TypeOK
            <3>4. /\ seen' = seen \cup {"Indeterminate"}
                  /\ first' \in [Indeterminates -> 0..kid]
                  /\ \A s \in Indeterminates :
                        first'[s] = first[s] \/ (first[s] = 0 /\ first'[s] = kid)
                  /\ first'[Slot("Indeterminate")] # 0
                BY <1>1, <1>3, <2>3, <3>3, NoteErrorFacts
            <3>5. alg \notin RuleAlgs /\ potential' = potential /\ potential \in BOOLEAN
                BY <1>1 DEF IInv, TypeOK
            <3>6. Advance(kid)
                BY <1>1, <1>3, <1>6, <2>3, <3>1, <3>2, <3>3, <3>4, <3>5 DEF Advance
            <3> QED BY <3>6, AdvanceKeepsIInv
        <2>4. CASE UNCHANGED <<pc, result, seen, first>>
            BY <1>5, <1>6, <2>4
        <2> QED BY <1>6, <2>1, <2>2, <2>3, <2>4 DEF MatchError
    <1>7. CASE /\ kids[kid].target = "Match" /\ Matched(kid)
               /\ UNCHANGED <<seen, first>>
        <2>1. CASE alg # "OnlyOneApplicable" /\ pc' = "evaluate" /\ UNCHANGED <<result, selected>>
            <3>1. /\ alg' = alg /\ kids' = kids /\ loop' = loop /\ WinnerError' = WinnerError
                  /\ \A k : Value(k)' = Value(k) /\ MayWin(k)' = MayWin(k) /\ Matters(k)' = Matters(k)
                  /\ \A d : Slot(d)' = Slot(d)
                BY <1>1, CallConstant
            <3>2. Looping' /\ Processed' = Processed
                BY <1>1, <2>1 DEF Looping, Processed
            <3>3. Flagged' = Flagged
                BY <1>1, <1>7, <3>1 DEF Flagged
            <3>4. alg \in MatchingAlgs
                BY DEF MatchPolicy
            <3>5. TypeOK'
                BY <1>1, <1>7, <2>1, <3>1 DEF IInv, TypeOK
            <3>6. PlaceInv' /\ ErrorInv' /\ ObligationInv'
                BY <1>1, <1>7, <2>1, <3>1, <3>2, <3>4 DEF IInv, PlaceInv, ErrorInv, ObligationInv
            <3>7. FlagInv'
                BY <1>1, <1>7, <2>1, <3>1, <3>2, <3>3 DEF IInv, FlagInv
            <3> QED BY <3>5, <3>6, <3>7 DEF IInv
        <2>2. CASE Return(Fresh("Indeterminate", kid)) /\ UNCHANGED selected
            <3>1. Settle(Fresh("Indeterminate", kid))
                BY <1>1, <1>3, <1>7, <2>2, FreshSettles DEF Return
            <3> QED BY <3>1, SettleKeepsIInv
        <2>3. CASE alg = "OnlyOneApplicable" /\ selected' = kid /\ UNCHANGED <<pc, result>>
            <3>1. alg \notin CautiousAlgs /\ loop.gathers = "none"
                BY <2>3 DEF CautiousAlgs, loop, LoopOf, OnlyOneApplicableLoop, Loop
            <3>2. Value(kid) # loop.gathers
                BY <1>1, <3>1, ValueFacts DEF Decisions, Effects, Indeterminates, Permit, Deny, NotApplicable
            <3>3. selected' \in 0..kid
                BY <1>1, <2>3
            <3>4. Advance(kid)
                BY <1>1, <1>7, <2>3, <3>1, <3>2, <3>3, SkipAdvances
            <3> QED BY <3>4, AdvanceKeepsIInv
        <2> QED BY <1>7, <2>1, <2>2, <2>3 DEF Matched
    <1>8. CASE kids[kid].target = "NoMatch" /\ UNCHANGED <<pc, result, seen, first, selected>>
        BY <1>5, <1>8
    <1> QED BY <1>4, <1>6, <1>7, <1>8 DEF MatchPolicy

LEMMA FinishKeepsIInv ==
    ASSUME IInv, Finish
    PROVE  IInv'
    <1>1. /\ pc = "iterate" /\ i = Len(kids) /\ Looping /\ Processed = i
          /\ call \in Calls /\ i \in Nat /\ i' = i /\ i' \in i..Len(kids)
          /\ UNCHANGED <<call, i, seen, first, potential, obligations, selected>>
        BY CallFacts DEF Finish, IInv, PlaceInv, Looping, Processed
    <1>2. ASSUME NEW r, Sound(r), Return(r)
          PROVE  IInv'
        <2>1. selected' \in 0..i'
            BY <1>1 DEF IInv, TypeOK
        <2>2. obligations = {k \in 1..Len(kids) : Value(k) = loop.gathers}
            BY <1>1 DEF IInv, ObligationInv
        <2>3. alg \in CautiousAlgs /\ ~Flagged => \A k \in 1..Len(kids) : Matters(k) => ~MayWin(k)
            BY <1>1 DEF IInv, FlagInv
        <2>4. r \in ResultSet(i')
            BY <1>1, <1>2 DEF Sound
        <2>5. Settle(r)
            BY <1>1, <1>2, <2>1, <2>2, <2>3, <2>4 DEF Settle, Sound, Return
        <2> QED BY <2>5, SettleKeepsIInv
    <1> QED BY <1>1, <1>2, AfterLoopSound DEF Finish

LEMMA AddObligationsKeepsIInv ==
    ASSUME IInv, AddObligations
    PROVE  IInv'
    <1>1. /\ pc = "obligations" /\ pc' = "done"
          /\ UNCHANGED <<call, i, seen, first, potential, obligations, selected>>
          /\ ~Looping /\ ~Looping'
        BY DEF AddObligations, Looping
    <1>2. /\ result' \in ResultSet(i) /\ result'.decision = result.decision
          /\ result'.obligations = result.obligations
          /\ result'.own \subseteq {result.decision}
        <2>1. call.fulfilOn \in SUBSET Effects /\ result \in ResultSet(i)
            BY DEF IInv, TypeOK, CallRecords, ResultSet
        <2> QED BY <2>1 DEF AddObligations, ResultSet
    <1>3. /\ alg' = alg /\ kids' = kids /\ loop' = loop
          /\ \A k : Value(k)' = Value(k) /\ MayWin(k)' = MayWin(k) /\ Matters(k)' = Matters(k)
          /\ \A d : Slot(d)' = Slot(d)
        BY <1>1, CallConstant
    <1>4. TypeOK'
        BY <1>1, <1>2, <1>3 DEF IInv, TypeOK, ResultSet
    <1>5. PlaceInv' /\ ErrorInv'
        BY <1>1, <1>2, <1>3 DEF IInv, PlaceInv, ErrorInv
    <1>6. FlagInv' /\ ObligationInv'
        BY <1>1, <1>2, <1>3 DEF IInv, FlagInv, ObligationInv
    <1> QED BY <1>4, <1>5, <1>6 DEF IInv

-----------------------------------------------------------------------------
(* Errors and their causes.                                                *)

\* Child k has an error, or is a match too many.
Explains(k) ==
    /\ k \in 1..Len(kids)
    /\ \/ Value(k) \in Indeterminates
       \/ alg \in MatchingAlgs /\ kids[k].target = "Error"
       \/ alg = "OnlyOneApplicable" /\ kids[k].target = "Match"

Explained(r) == r.decision \in Indeterminates => Explains(r.cause)

CauseInv ==
    /\ \A s \in Indeterminates : first[s] = 0 \/ Explains(first[s])
    /\ ~Looping => Explained(result)

\* What may be returned with children that have been handed out.
LEMMA ResultsExplained ==
    ASSUME IInv, CauseInv
    PROVE  /\ \A d \in Effects \cup {NotApplicable, "NullPointerException"} : Explained(Fresh(d, 0))
           /\ \A d \in Effects : Explained(Gathered(d))
           /\ \A k \in 1..Len(kids) : Explained(Passed(Value(k), k))
           /\ \A s \in Indeterminates : first[s] # 0 =>
                 Explained(FirstResult(s)) /\ \A d \in Indeterminates : Explained(Fresh(d, first[s]))
    <1>1. \A d \in Effects \cup {NotApplicable, "NullPointerException"} : d \notin Indeterminates
        BY DEF Effects, NotApplicable, Permit, Deny, Indeterminates
    <1>2. \A d, k : Fresh(d, k).decision = d /\ Fresh(d, k).cause = k
        BY DEF Fresh
    <1>3. \A d : Gathered(d).decision = d
        BY DEF Gathered, Fresh
    <1>4. \A d, k : Passed(d, k).decision = d /\ (d \in Indeterminates => Passed(d, k).cause = k)
        BY DEF Passed
    <1>5. \A k \in 1..Len(kids) : Explained(Passed(Value(k), k))
        BY <1>4 DEF Explained, Explains
    <1>6. ASSUME NEW s \in Indeterminates, first[s] # 0
          PROVE  Explained(FirstResult(s)) /\ \A d \in Indeterminates : Explained(Fresh(d, first[s]))
        <2>1. Explains(first[s])
            BY <1>6 DEF CauseInv
        <2>2. FirstResult(s) = Passed(Value(first[s]), first[s])
            BY DEF FirstResult, Value
        <2>3. Explained(FirstResult(s))
            BY <1>5, <2>1, <2>2 DEF Explains
        <2> QED BY <1>2, <2>1, <2>3 DEF Explained
    <1> QED BY <1>1, <1>2, <1>3, <1>5, <1>6 DEF Explained

\* Every tail of a loop explains the error it returns.
LEMMA TailsExplained ==
    ASSUME IInv, CauseInv, pc = "iterate", i = Len(kids)
    PROVE  /\ alg = "DenyOverridesRule3" => Explained(DenyOverridesRule3Tail)
           /\ alg = "PermitOverridesRule3" => Explained(PermitOverridesRule3Tail)
           /\ alg = "DenyOverridesPolicy3" => Explained(DenyOverridesPolicy3Tail)
           /\ alg = "PermitOverridesPolicy3" => Explained(PermitOverridesPolicy3Tail)
           /\ alg = "DenyOverridesRule2" => Explained(DenyOverridesRule2Tail)
           /\ alg = "PermitOverridesRule2" => Explained(PermitOverridesRule2Tail)
           /\ alg = "DenyOverridesPolicy2" => Explained(DenyOverridesPolicy2Tail)
           /\ alg = "PermitOverridesPolicy2" => Explained(PermitOverridesPolicy2Tail)
           /\ alg = "OnlyOneApplicable" => Explained(OnlyOneApplicableTail)
    <1>1. /\ Explained(Fresh(NotApplicable, 0)) /\ Explained(Gathered(Permit)) /\ Explained(Gathered(Deny))
        BY ResultsExplained DEF Effects
    <1>2. ASSUME NEW d \in Indeterminates, Has(d), Slot(d) = d
          PROVE  Explained(FirstResult(d)) /\ Explained(Fresh("IndeterminateDP", first[d]))
        <2>1. first[d] # 0
            BY <1>2 DEF IInv, ErrorInv, Has
        <2> QED BY <2>1, ResultsExplained DEF Indeterminates
    <1>3. /\ "IndeterminateD" \in Indeterminates /\ "IndeterminateP" \in Indeterminates
          /\ "IndeterminateDP" \in Indeterminates /\ "Indeterminate" \in Indeterminates
        BY DEF Indeterminates
    <1>4. ASSUME alg \in Rule3Algs \cup Policy3Algs
          PROVE  /\ alg = "DenyOverridesRule3" => Explained(DenyOverridesRule3Tail)
                 /\ alg = "PermitOverridesRule3" => Explained(PermitOverridesRule3Tail)
                 /\ alg = "DenyOverridesPolicy3" => Explained(DenyOverridesPolicy3Tail)
                 /\ alg = "PermitOverridesPolicy3" => Explained(PermitOverridesPolicy3Tail)
        <2>1. \A d : Slot(d) = d
            BY <1>4 DEF Slot, Rule3Algs, Policy3Algs
        <2>2. \A d \in Indeterminates :
                  Has(d) => Explained(FirstResult(d)) /\ Explained(Fresh("IndeterminateDP", first[d]))
            BY <1>2, <2>1
        <2> QED BY <1>1, <1>3, <2>2 DEF DenyOverridesRule3Tail, PermitOverridesRule3Tail,
                                       DenyOverridesPolicy3Tail, PermitOverridesPolicy3Tail
    <1>5. ASSUME alg \in {"DenyOverridesRule2", "PermitOverridesRule2", "PermitOverridesPolicy2"}
          PROVE  /\ potential \/ Failed => Explained(FirstResult("Indeterminate"))
                 /\ Failed => Explained(Fresh("Indeterminate", first["Indeterminate"]))
        <2>1. \A d : Slot(d) = "Indeterminate"
            BY <1>5 DEF Slot
        <2>2. potential \/ Failed => first["Indeterminate"] # 0
            BY <2>1 DEF IInv, ErrorInv, Failed
        <2> QED BY <1>3, <2>2, ResultsExplained
    <1>6. /\ alg = "DenyOverridesRule2" => Explained(DenyOverridesRule2Tail)
          /\ alg = "PermitOverridesRule2" => Explained(PermitOverridesRule2Tail)
          /\ alg = "PermitOverridesPolicy2" => Explained(PermitOverridesPolicy2Tail)
        BY <1>1, <1>5 DEF DenyOverridesRule2Tail, PermitOverridesRule2Tail, PermitOverridesPolicy2Tail
    <1>7. Explained(DenyOverridesPolicy2Tail)
        BY <1>1 DEF DenyOverridesPolicy2Tail
    <1>8. alg = "OnlyOneApplicable" => Explained(OnlyOneApplicableTail)
        <2> SUFFICES ASSUME alg = "OnlyOneApplicable", selected # 0
                     PROVE  Explained(Passed(PolicyEvaluate(kids[selected]), selected))
            BY <1>1 DEF OnlyOneApplicableTail
        <2>1. selected \in 1..Len(kids)
            BY CallFacts DEF IInv, TypeOK, PlaceInv
        <2>2. Value(selected) = PolicyEvaluate(kids[selected])
            BY DEF Value, RuleAlgs
        <2> QED BY <2>1, <2>2, ResultsExplained
    <1> QED BY <1>4, <1>6, <1>7, <1>8 DEF Rule3Algs, Policy3Algs

LEMMA NextCauseInv ==
    ASSUME IInv, CauseInv, [Next]_vars
    PROVE  CauseInv'
    <1>1. /\ call \in Calls /\ i \in 0..Len(kids) /\ Len(kids) \in Nat /\ seen \subseteq Decisions
          /\ first \in [Indeterminates -> 0..Len(kids)] /\ obligations \subseteq 1..Len(kids)
        <2>1. call \in Calls /\ Len(kids) \in Nat
            BY CallFacts DEF IInv, PlaceInv
        <2>2. /\ i \in 0..Len(kids) /\ seen \subseteq Decisions
              /\ first \in [Indeterminates -> 0..i] /\ obligations \subseteq 1..i
            BY DEF IInv, TypeOK
        <2>3. 0..i \subseteq 0..Len(kids) /\ 1..i \subseteq 1..Len(kids)
            BY <2>1, <2>2
        <2> QED BY <2>1, <2>2, <2>3
    <1>2. ASSUME call' = call,
                 \A s \in Indeterminates : first'[s] = first[s] \/ Explains(first'[s]),
                 Looping' \/ Explained(result')
          PROVE  CauseInv'
        <2>1. /\ \A k : Value(k)' = Value(k)
              /\ alg' = alg /\ kids' = kids
            BY <1>2, CallConstant
        <2>2. \A k : Explains(k)' = Explains(k)
            BY <2>1 DEF Explains
        <2>3. Explained(result)' = Explained(result')
            BY <2>2 DEF Explained
        <2> QED BY <1>2, <2>2, <2>3 DEF CauseInv
    <1>3. ASSUME NEW kid \in 1..Len(kids), Note(Value(kid), kid)
          PROVE  \A s \in Indeterminates : first'[s] = first[s] \/ Explains(first'[s])
        <2>1. /\ Value(kid) \in Decisions /\ loop.errors \subseteq Indeterminates
            BY <1>1, ValueFacts, CallFacts, LoopFacts DEF loop
        <2>2. \A s \in Indeterminates :
                 first'[s] = first[s] \/ (first[s] = 0 /\ first'[s] = kid /\ Value(kid) \in loop.errors)
            BY <1>1, <1>3, <2>1, NoteFacts
        <2> QED BY <2>1, <2>2 DEF Explains
    <1>4. ASSUME NEW kid \in 1..Len(kids), Weigh(Value(kid), kid), call' = call
          PROVE  CauseInv'
        <2>1. CASE Return(Passed(Value(kid), kid)) /\ UNCHANGED first
            BY <1>2, <1>4, <2>1, ResultsExplained DEF Return
        <2>2. CASE Return(Fresh(Deny, 0)) /\ UNCHANGED first
            BY <1>2, <1>4, <2>2, ResultsExplained DEF Return, Effects
        <2>3. CASE Note(Value(kid), kid) /\ pc' = "iterate"
            BY <1>2, <1>3, <1>4, <2>3 DEF Looping
        <2> QED BY <1>4, <2>1, <2>2, <2>3 DEF Weigh
    <1>5. CASE CheckTarget
        <2>1. call' = call /\ first' = first /\ (pc' = "iterate" \/ result' = Fresh(NotApplicable, 0))
            BY <1>5 DEF CheckTarget
        <2> QED BY <1>2, <2>1, ResultsExplained DEF Looping
    <1>6. CASE EvaluateRule
        <2> DEFINE kid == i + 1
        <2>1. /\ kid \in 1..Len(kids) /\ call' = call /\ pc = "iterate" /\ Value(kid) = RuleEvaluate(kids[kid])
            BY <1>1, <1>6 DEF EvaluateRule, Value
        <2>2. \/ Return(Passed(Value(kid), kid)) /\ UNCHANGED first
              \/ Note(Value(kid), kid) /\ UNCHANGED pc
            BY <1>6, <2>1 DEF EvaluateRule
        <2>3. CASE Return(Passed(Value(kid), kid)) /\ UNCHANGED first
            BY <1>2, <2>1, <2>3, ResultsExplained DEF Return
        <2>4. CASE Note(Value(kid), kid) /\ UNCHANGED pc
            BY <1>2, <1>3, <2>1, <2>4 DEF Looping
        <2> QED BY <2>2, <2>3, <2>4
    <1>7. CASE EvaluateUnmatched
        <2>1. i + 1 \in 1..Len(kids) /\ call' = call /\ Value(i + 1) = PolicyEvaluate(kids[i + 1])
            BY <1>1, <1>7 DEF EvaluateUnmatched, Value, UnlessPolicyAlgs, RuleAlgs
        <2> QED BY <1>4, <1>7, <2>1 DEF EvaluateUnmatched
    <1>8. CASE EvaluateMatched
        <2>1. i \in 1..Len(kids) /\ call' = call /\ Value(i) = PolicyEvaluate(kids[i])
            BY <1>1, <1>8 DEF EvaluateMatched, Value, MatchingAlgs, RuleAlgs, IInv, PlaceInv
        <2> QED BY <1>4, <1>8, <2>1 DEF EvaluateMatched
    <1>9. CASE MatchPolicy
        <2> DEFINE kid == i + 1
        <2>1. kid \in 1..Len(kids) /\ call' = call /\ pc = "iterate" /\ alg \in MatchingAlgs
            BY <1>1, <1>9 DEF MatchPolicy
        <2>2. CASE Throw /\ UNCHANGED first
            BY <1>2, <2>1, <2>2, ResultsExplained DEF Throw
        <2>3. CASE UNCHANGED <<pc, first>>
            BY <1>2, <2>1, <2>3 DEF Looping
        <2>4. CASE kids[kid].target = "Error" /\ MatchError(kid)
            <3>1. Explains(kid)
                BY <2>1, <2>4 DEF Explains
            <3>2. CASE Return(Fresh(Deny, 0)) /\ UNCHANGED first
                BY <1>2, <2>1, <3>2, ResultsExplained DEF Return, Effects
            <3>3. CASE Return(Fresh("Indeterminate", kid)) /\ UNCHANGED first
                <4>1. Fresh("Indeterminate", kid).cause = kid
                    BY DEF Fresh
                <4>2. Explained(Fresh("Indeterminate", kid))
                    BY <3>1, <4>1 DEF Explained
                <4> QED BY <1>2, <2>1, <3>3, <4>2 DEF Return
            <3>4. CASE NoteError("Indeterminate", kid) /\ UNCHANGED pc
                <4>1. "Indeterminate" \in Indeterminates
                    BY DEF Indeterminates
                <4>2. \A s \in Indeterminates : first'[s] = first[s] \/ (first[s] = 0 /\ first'[s] = kid)
                    BY <1>1, <2>1, <3>4, <4>1, NoteErrorFacts
                <4> QED BY <1>2, <2>1, <3>1, <3>4, <4>2 DEF Looping
            <3> QED BY <2>3, <2>4, <3>2, <3>3, <3>4 DEF MatchError
        <2>5. CASE kids[kid].target = "Match" /\ Matched(kid) /\ UNCHANGED first
            <3>1. CASE Return(Fresh("Indeterminate", kid)) /\ alg = "OnlyOneApplicable"
                <4>1. Fresh("Indeterminate", kid).cause = kid /\ Explains(kid)
                    BY <2>1, <2>5, <3>1 DEF Fresh, Explains
                <4>2. Explained(Fresh("Indeterminate", kid))
                    BY <4>1 DEF Explained
                <4> QED BY <1>2, <2>1, <2>5, <3>1, <4>2 DEF Return
            <3>2. CASE pc' = "evaluate" \/ UNCHANGED pc
                BY <1>2, <2>1, <2>5, <3>2 DEF Looping
            <3> QED BY <2>5, <3>1, <3>2 DEF Matched
        <2> QED BY <1>9, <2>2, <2>3, <2>4, <2>5 DEF MatchPolicy
    <1>10. CASE Finish
        <2>1. pc = "iterate" /\ i = Len(kids) /\ call' = call /\ first' = first
            BY <1>10 DEF Finish
        <2>2. ASSUME NEW r, Explained(r), Return(r) PROVE CauseInv'
            BY <1>2, <2>1, <2>2 DEF Return
        <2>3. /\ Explained(Gathered(Deny)) /\ Explained(Gathered(Permit)) /\ Explained(Fresh(NotApplicable, 0))
            BY ResultsExplained DEF Effects
        <2> QED BY <1>10, <2>1, <2>2, <2>3, TailsExplained DEF Finish
    <1>11. CASE AddObligations
        <2>1. /\ call' = call /\ first' = first /\ ~Looping
              /\ result' = [result EXCEPT !.own = call.fulfilOn \cap {result.decision}]
            BY <1>11 DEF AddObligations, Looping
        <2>2. result'.decision = result.decision /\ result'.cause = result.cause
            BY <2>1 DEF IInv, TypeOK
        <2>3. Explained(result')
            BY <2>1, <2>2 DEF CauseInv, Explained
        <2> QED BY <1>2, <2>1, <2>3
    <1>12. CASE UNCHANGED vars
        <2>1. call' = call /\ first' = first /\ pc' = pc /\ result' = result
            BY <1>12 DEF vars
        <2> QED BY <1>2, <2>1 DEF CauseInv, Looping
    <1> QED BY <1>5, <1>6, <1>7, <1>8, <1>9, <1>10, <1>11, <1>12 DEF Next

-----------------------------------------------------------------------------
(* What the promise allows, algorithm by algorithm: each promise, though   *)
(* it is stated by worlds, is a cascade over what the children say.        *)

Said == Effects \cup {NotApplicable}

LEMMA OverridesFacts ==
    ASSUME NEW winner \in Effects, NEW answers \in SUBSET Said
    PROVE  /\ Overrides(winner, answers) \in Said
           /\ Overrides(winner, answers) = winner <=> winner \in answers
           /\ Overrides(winner, answers) = Loser(winner) <=> winner \notin answers /\ Loser(winner) \in answers
           /\ Overrides(winner, answers) = NotApplicable <=> answers \subseteq {NotApplicable}
    BY DEF Overrides, Loser, Said, Effects, Permit, Deny, NotApplicable

\* What can come out of a choice of one answer for each kind of child.
LEMMA OutcomesFacts ==
    ASSUME NEW winner \in Effects, NEW worlds, \A ws \in worlds : ws \in SUBSET Said /\ ws # {}
    PROVE  /\ Outcomes(winner, worlds) \subseteq Said
           /\ winner \in Outcomes(winner, worlds) <=> \E ws \in worlds : winner \in ws
           /\ Loser(winner) \in Outcomes(winner, worlds) <=>
                 /\ \A ws \in worlds : ws # {winner}
                 /\ \E ws \in worlds : Loser(winner) \in ws
           /\ NotApplicable \in Outcomes(winner, worlds) <=> \A ws \in worlds : NotApplicable \in ws
    <1> DEFINE Choices == {f \in [worlds -> Said] : \A ws \in worlds : f[ws] \in ws}
               Image(w) == {w[ws] : ws \in worlds}
    <1>1. Outcomes(winner, worlds) = {Overrides(winner, Image(w)) : w \in Choices}
        BY DEF Outcomes, Said
    <1>2. ASSUME NEW w \in Choices PROVE Image(w) \in SUBSET Said
        OBVIOUS
    <1>3. ASSUME NEW w \in Choices
          PROVE  /\ Overrides(winner, Image(w)) \in Said
                 /\ Overrides(winner, Image(w)) = winner <=> winner \in Image(w)
                 /\ Overrides(winner, Image(w)) = Loser(winner) <=> winner \notin Image(w) /\ Loser(winner) \in Image(w)
                 /\ Overrides(winner, Image(w)) = NotApplicable <=> Image(w) \subseteq {NotApplicable}
        <2> HIDE DEF Image
        <2> QED BY <1>2, <1>3, OverridesFacts
    <1>4. ASSUME NEW x \in Said PROVE x \in Outcomes(winner, worlds) <=> \E w \in Choices : x = Overrides(winner, Image(w))
        BY <1>1
    <1>5. winner \in Said /\ Loser(winner) \in Said /\ NotApplicable \in Said
        BY DEF Said, Effects, Loser
    <1>6. winner \in Outcomes(winner, worlds) <=> \E ws \in worlds : winner \in ws
        <2>1. ASSUME winner \in Outcomes(winner, worlds) PROVE \E ws \in worlds : winner \in ws
            <3>1. PICK w \in Choices : winner \in Image(w)
                <4> HIDE DEF Choices, Image
                <4> QED BY <1>3, <1>4, <1>5, <2>1
            <3> QED BY <3>1
        <2>2. ASSUME NEW ws \in worlds, winner \in ws PROVE winner \in Outcomes(winner, worlds)
            <3> DEFINE w == [v \in worlds |-> IF winner \in v THEN winner ELSE CHOOSE x \in v : TRUE]
            <3>1. w \in Choices /\ winner \in Image(w)
                BY <1>5, <2>2
            <3> HIDE DEF w, Choices, Image
            <3> QED BY <1>3, <1>4, <1>5, <3>1
        <2> QED BY <2>1, <2>2
    <1>7. Loser(winner) \in Outcomes(winner, worlds) <=>
              /\ \A ws \in worlds : ws # {winner}
              /\ \E ws \in worlds : Loser(winner) \in ws
        <2>1. ASSUME Loser(winner) \in Outcomes(winner, worlds)
              PROVE  (\A ws \in worlds : ws # {winner}) /\ \E ws \in worlds : Loser(winner) \in ws
            <3>1. PICK w \in Choices : winner \notin Image(w) /\ Loser(winner) \in Image(w)
                <4> HIDE DEF Choices, Image
                <4> QED BY <1>3, <1>4, <1>5, <2>1
            <3> QED BY <3>1
        <2>2. ASSUME \A ws \in worlds : ws # {winner}, NEW ws \in worlds, Loser(winner) \in ws
              PROVE  Loser(winner) \in Outcomes(winner, worlds)
            <3> DEFINE w == [v \in worlds |-> IF Loser(winner) \in v THEN Loser(winner) ELSE CHOOSE x \in v : x # winner]
            <3>1. winner # Loser(winner)
                BY DEF Loser, Effects, Permit, Deny
            <3>2. ASSUME NEW v \in worlds PROVE w[v] \in v /\ w[v] # winner /\ w[v] \in Said
                <4>1. \E x \in v : x # winner
                    BY <2>2
                <4>2. w[v] = IF Loser(winner) \in v THEN Loser(winner) ELSE CHOOSE x \in v : x # winner
                    OBVIOUS
                <4> QED BY <3>1, <4>1, <4>2
            <3>3. w \in Choices /\ winner \notin Image(w) /\ Loser(winner) \in Image(w)
                <4>1. w[ws] = Loser(winner)
                    BY <2>2
                <4>2. w = [v \in worlds |-> w[v]]
                    OBVIOUS
                <4> HIDE DEF w
                <4> QED BY <3>2, <4>1, <4>2
            <3> HIDE DEF w, Choices, Image
            <3> QED BY <1>3, <1>4, <1>5, <3>3
        <2> QED BY <2>1, <2>2
    <1>8. NotApplicable \in Outcomes(winner, worlds) <=> \A ws \in worlds : NotApplicable \in ws
        <2>1. ASSUME NotApplicable \in Outcomes(winner, worlds) PROVE \A ws \in worlds : NotApplicable \in ws
            <3>1. PICK w \in Choices : Image(w) \subseteq {NotApplicable}
                <4> HIDE DEF Choices, Image
                <4> QED BY <1>3, <1>4, <1>5, <2>1
            <3> QED BY <3>1
        <2>2. ASSUME \A ws \in worlds : NotApplicable \in ws PROVE NotApplicable \in Outcomes(winner, worlds)
            <3> DEFINE w == [v \in worlds |-> NotApplicable]
            <3>1. w \in Choices /\ Image(w) \subseteq {NotApplicable}
                BY <1>5, <2>2
            <3> HIDE DEF w, Choices, Image
            <3> QED BY <1>3, <1>4, <1>5, <3>1
        <2> QED BY <2>1, <2>2
    <1>9. Outcomes(winner, worlds) \subseteq Said
        <2> HIDE DEF Choices, Image
        <2> QED BY <1>1, <1>3
    <1> QED BY <1>6, <1>7, <1>8, <1>9

ErrorOf(effect) == IF effect = Permit THEN "IndeterminateP" ELSE "IndeterminateD"

\* The outcomes over children that answer the decisions of a set.
LEMMA WorldsFacts ==
    ASSUME NEW winner \in Effects, NEW values \in SUBSET (Decisions \ {"Indeterminate"}),
           NEW outcomes, outcomes = Outcomes(winner, {Worlds(v) : v \in values})
    PROVE  /\ outcomes \subseteq Said
           /\ winner \in outcomes <=> values \cap {winner, ErrorOf(winner), "IndeterminateDP"} # {}
           /\ Loser(winner) \in outcomes <=>
                 /\ winner \notin values
                 /\ values \cap {Loser(winner), ErrorOf(Loser(winner)), "IndeterminateDP"} # {}
           /\ NotApplicable \in outcomes <=> values \cap Effects = {}
    <1> DEFINE worlds == {Worlds(v) : v \in values}
    <1> USE DEF Effects, Permit, Deny, NotApplicable, Said, Loser, ErrorOf
    <1>1. ASSUME NEW v \in values
          PROVE  /\ Worlds(v) \in SUBSET Said /\ Worlds(v) # {}
                 /\ winner \in Worlds(v) <=> v \in {winner, ErrorOf(winner), "IndeterminateDP"}
                 /\ Worlds(v) = {winner} <=> v = winner
                 /\ Loser(winner) \in Worlds(v) <=> v \in {Loser(winner), ErrorOf(Loser(winner)), "IndeterminateDP"}
                 /\ NotApplicable \in Worlds(v) <=> v \notin Effects
        BY DEF Worlds, Decisions, Indeterminates
    <1>2. \A ws \in worlds : ws \in SUBSET Said /\ ws # {}
        BY <1>1
    <1>3. /\ (\E ws \in worlds : winner \in ws) <=> values \cap {winner, ErrorOf(winner), "IndeterminateDP"} # {}
          /\ (\A ws \in worlds : ws # {winner}) <=> winner \notin values
          /\ (\E ws \in worlds : Loser(winner) \in ws) <=>
                values \cap {Loser(winner), ErrorOf(Loser(winner)), "IndeterminateDP"} # {}
          /\ (\A ws \in worlds : NotApplicable \in ws) <=> values \cap Effects = {}
        <2>1. (\E ws \in worlds : winner \in ws) <=> \E v \in values : winner \in Worlds(v)
            OBVIOUS
        <2>2. (\A ws \in worlds : ws # {winner}) <=> \A v \in values : Worlds(v) # {winner}
            OBVIOUS
        <2>3. (\E ws \in worlds : Loser(winner) \in ws) <=> \E v \in values : Loser(winner) \in Worlds(v)
            OBVIOUS
        <2>4. (\A ws \in worlds : NotApplicable \in ws) <=> \A v \in values : NotApplicable \in Worlds(v)
            OBVIOUS
        <2> QED BY <1>1, <2>1, <2>2, <2>3, <2>4
    <1> HIDE DEF worlds, Effects, Permit, Deny, NotApplicable, Said, Loser, ErrorOf
    <1>4. outcomes = Outcomes(winner, worlds)
        BY DEF worlds
    <1>5. /\ Outcomes(winner, worlds) \subseteq Said
          /\ winner \in Outcomes(winner, worlds) <=> \E ws \in worlds : winner \in ws
          /\ Loser(winner) \in Outcomes(winner, worlds) <=>
                /\ \A ws \in worlds : ws # {winner}
                /\ \E ws \in worlds : Loser(winner) \in ws
          /\ NotApplicable \in Outcomes(winner, worlds) <=> \A ws \in worlds : NotApplicable \in ws
        BY <1>2, OutcomesFacts
    <1> QED BY <1>3, <1>4, <1>5

\* A set of answers is settled by its members.
LEMMA SingleAnswer ==
    ASSUME NEW outcomes \in SUBSET Said, NEW o, outcomes = {o}
    PROVE  Certain(outcomes) /\ Extended(outcomes) = o
    <1>1. Certain(outcomes)
        BY DEF Certain
    <1>2. (CHOOSE x \in outcomes : TRUE) = o
        OBVIOUS
    <1> QED BY <1>1, <1>2 DEF Extended

LEMMA SeveralAnswers ==
    ASSUME NEW outcomes, NEW o \in outcomes, NEW q \in outcomes, o # q
    PROVE  /\ ~Certain(outcomes)
           /\ Extended(outcomes) = IF Permit \notin outcomes THEN "IndeterminateD"
                                   ELSE IF Deny \notin outcomes THEN "IndeterminateP"
                                   ELSE "IndeterminateDP"
    BY DEF Certain, Extended

\* The decision that stands for the outcomes over a set of decisions.
LEMMA ExtendedFacts ==
    ASSUME NEW winner \in Effects, NEW values \in SUBSET (Decisions \ {"Indeterminate"}),
           NEW outcomes, outcomes = Outcomes(winner, {Worlds(v) : v \in values})
    PROVE  /\ winner \in values => outcomes = {winner} /\ Extended(outcomes) = winner
           /\ winner \notin values /\ values \cap {ErrorOf(winner), "IndeterminateDP"} # {} =>
                 /\ ~Certain(outcomes)
                 /\ Extended(outcomes) =
                       IF values \cap {Loser(winner), ErrorOf(Loser(winner)), "IndeterminateDP"} # {}
                       THEN "IndeterminateDP" ELSE ErrorOf(winner)
           /\ values \cap {winner, ErrorOf(winner), "IndeterminateDP"} = {} =>
                 /\ Loser(winner) \in values =>
                       outcomes = {Loser(winner)} /\ Extended(outcomes) = Loser(winner)
                 /\ Loser(winner) \notin values /\ ErrorOf(Loser(winner)) \in values =>
                       ~Certain(outcomes) /\ Extended(outcomes) = ErrorOf(Loser(winner))
                 /\ values \cap {Loser(winner), ErrorOf(Loser(winner))} = {} =>
                       outcomes = {NotApplicable} /\ Extended(outcomes) = NotApplicable
    <1> DEFINE loser == Loser(winner)
    <1>1. /\ outcomes \subseteq Said
          /\ winner \in outcomes <=> values \cap {winner, ErrorOf(winner), "IndeterminateDP"} # {}
          /\ loser \in outcomes <=>
                winner \notin values /\ values \cap {loser, ErrorOf(loser), "IndeterminateDP"} # {}
          /\ NotApplicable \in outcomes <=> values \cap Effects = {}
        BY WorldsFacts
    <1>2. /\ loser \in Effects /\ loser # winner /\ NotApplicable \notin Effects
          /\ Effects = {winner, loser} /\ Said = {winner, loser, NotApplicable}
        BY DEF Effects, Loser, Said, Permit, Deny, NotApplicable
    <1>3. \/ winner = Permit /\ loser = Deny /\ ErrorOf(winner) = "IndeterminateP" /\ ErrorOf(loser) = "IndeterminateD"
          \/ winner = Deny /\ loser = Permit /\ ErrorOf(winner) = "IndeterminateD" /\ ErrorOf(loser) = "IndeterminateP"
        BY DEF Effects, Loser, ErrorOf, Permit, Deny
    <1> HIDE DEF loser
    <1>4. ASSUME winner \in values PROVE outcomes = {winner} /\ Extended(outcomes) = winner
        <2>1. outcomes = {winner}
            BY <1>1, <1>2, <1>4
        <2> QED BY <1>1, <2>1, SingleAnswer
    <1>5. ASSUME winner \notin values, values \cap {ErrorOf(winner), "IndeterminateDP"} # {}
          PROVE  /\ ~Certain(outcomes)
                 /\ Extended(outcomes) =
                       IF values \cap {loser, ErrorOf(loser), "IndeterminateDP"} # {}
                       THEN "IndeterminateDP" ELSE ErrorOf(winner)
        <2>1. winner \in outcomes
            BY <1>1, <1>5
        <2>2. loser \in outcomes <=> values \cap {loser, ErrorOf(loser), "IndeterminateDP"} # {}
            BY <1>1, <1>5
        <2>3. loser \in outcomes \/ NotApplicable \in outcomes
            BY <1>1, <1>2, <1>5, <2>2
        <2>4. /\ ~Certain(outcomes)
              /\ Extended(outcomes) = IF Permit \notin outcomes THEN "IndeterminateD"
                                      ELSE IF Deny \notin outcomes THEN "IndeterminateP"
                                      ELSE "IndeterminateDP"
            BY <1>2, <2>1, <2>3, SeveralAnswers
        <2> QED BY <1>3, <2>1, <2>2, <2>4
    <1>6. ASSUME values \cap {winner, ErrorOf(winner), "IndeterminateDP"} = {}
          PROVE  /\ loser \in values => outcomes = {loser} /\ Extended(outcomes) = loser
                 /\ loser \notin values /\ ErrorOf(loser) \in values =>
                       ~Certain(outcomes) /\ Extended(outcomes) = ErrorOf(loser)
                 /\ values \cap {loser, ErrorOf(loser)} = {} =>
                       outcomes = {NotApplicable} /\ Extended(outcomes) = NotApplicable
        <2>1. winner \notin outcomes /\ winner \notin values
            BY <1>1, <1>6
        <2>2. ASSUME loser \in values PROVE outcomes = {loser} /\ Extended(outcomes) = loser
            <3>1. outcomes = {loser}
                BY <1>1, <1>2, <2>1, <2>2
            <3> QED BY <1>1, <3>1, SingleAnswer
        <2>3. ASSUME loser \notin values, ErrorOf(loser) \in values
              PROVE  ~Certain(outcomes) /\ Extended(outcomes) = ErrorOf(loser)
            <3>1. loser \in outcomes /\ NotApplicable \in outcomes
                BY <1>1, <1>2, <2>1, <2>3
            <3>2. loser # NotApplicable
                BY <1>2
            <3>3. Extended(outcomes) = IF Permit \notin outcomes THEN "IndeterminateD"
                                       ELSE IF Deny \notin outcomes THEN "IndeterminateP"
                                       ELSE "IndeterminateDP"
                BY <3>1, <3>2, SeveralAnswers
            <3>4. ~Certain(outcomes)
                BY <3>1, <3>2, SeveralAnswers
            <3> QED BY <1>3, <2>1, <3>1, <3>3, <3>4
        <2>4. ASSUME values \cap {loser, ErrorOf(loser)} = {}
              PROVE  outcomes = {NotApplicable} /\ Extended(outcomes) = NotApplicable
            <3>1. outcomes = {NotApplicable}
                BY <1>1, <1>2, <1>6, <2>1, <2>4
            <3> QED BY <1>1, <3>1, SingleAnswer
        <2> QED BY <2>2, <2>3, <2>4
    <1> QED BY <1>4, <1>5, <1>6 DEF loser

\* What child k of a call says to the algorithm.
Contribution(c, k) ==
    IF c.alg \in RuleAlgs THEN RuleEvaluate(c.kids[k])
    ELSE IF c.alg \in MatchingAlgs THEN PolicyValue(c.kids[k]) ELSE UnmatchedValue(c.kids[k])
Contributions(c) == {Contribution(c, k) : k \in DOMAIN c.kids}

ProperCall(c) ==
    /\ c.alg \in Algs
    /\ \A k \in DOMAIN c.kids : c.kids[k] \in (IF c.alg \in RuleAlgs THEN Rules ELSE Policies)

LEMMA ContributionsFacts ==
    ASSUME NEW c, ProperCall(c)
    PROVE  /\ Contributions(c) \subseteq Decisions \cup {"MatchError"}
           /\ c.alg \in RuleAlgs =>
                 /\ Contributions(c) \subseteq Decisions \ {"IndeterminateDP"}
                 /\ {RuleEvaluate(rule) : rule \in Kids(c)} = Contributions(c)
           /\ c.alg \in MatchingAlgs => {PolicyValue(policy) : policy \in Kids(c)} = Contributions(c)
           /\ c.alg \in UnlessPolicyAlgs => {UnmatchedValue(policy) : policy \in Kids(c)} = Contributions(c)
    <1>1. CASE c.alg \in RuleAlgs
        <2>1. c.alg \notin MatchingAlgs /\ c.alg \notin UnlessPolicyAlgs
            BY <1>1 DEF RuleAlgs, MatchingAlgs, UnlessPolicyAlgs
        <2>2. \A k \in DOMAIN c.kids : Contribution(c, k) = RuleEvaluate(c.kids[k]) /\ c.kids[k] \in Rules
            BY <1>1 DEF Contribution, ProperCall
        <2>3. \A k \in DOMAIN c.kids : RuleEvaluate(c.kids[k]) \in Decisions \ {"IndeterminateDP"}
            BY <2>2, RuleDecides
        <2> QED BY <2>1, <2>2, <2>3 DEF Contributions, Kids
    <1>2. CASE c.alg \in MatchingAlgs
        <2>1. c.alg \notin RuleAlgs /\ c.alg \notin UnlessPolicyAlgs
            BY <1>2 DEF RuleAlgs, MatchingAlgs, UnlessPolicyAlgs
        <2>2. \A k \in DOMAIN c.kids : Contribution(c, k) = PolicyValue(c.kids[k]) /\ c.kids[k] \in Policies
            BY <1>2, <2>1 DEF Contribution, ProperCall
        <2>3. \A policy \in Policies : PolicyValue(policy) \in Decisions \cup {"MatchError"}
            BY DEF PolicyValue, Policies, Decisions
        <2> QED BY <2>1, <2>2, <2>3 DEF Contributions, Kids
    <1>3. CASE c.alg \in UnlessPolicyAlgs
        <2>1. c.alg \notin RuleAlgs /\ c.alg \notin MatchingAlgs
            BY <1>3 DEF RuleAlgs, MatchingAlgs, UnlessPolicyAlgs
        <2>2. \A k \in DOMAIN c.kids : Contribution(c, k) = UnmatchedValue(c.kids[k]) /\ c.kids[k] \in Policies
            BY <1>3, <2>1 DEF Contribution, ProperCall
        <2>3. \A policy \in Policies : UnmatchedValue(policy) \in Decisions
            BY DEF UnmatchedValue, Policies, Decisions
        <2> QED BY <2>1, <2>2, <2>3 DEF Contributions, Kids
    <1> QED BY <1>1, <1>2, <1>3 DEF ProperCall, Algs

\* The cascades of the xacml3 overrides algorithms, over what children say.
DenyRules3(values) ==
    IF Deny \in values THEN Deny
    ELSE IF "IndeterminateD" \in values /\ ("IndeterminateP" \in values \/ Permit \in values)
    THEN "IndeterminateDP"
    ELSE IF "IndeterminateD" \in values THEN "IndeterminateD"
    ELSE IF Permit \in values THEN Permit
    ELSE IF "IndeterminateP" \in values THEN "IndeterminateP" ELSE NotApplicable
PermitOverrides3(values) ==
    IF Permit \in values THEN Permit
    ELSE IF "IndeterminateDP" \in values THEN "IndeterminateDP"
    ELSE IF "IndeterminateP" \in values /\ ("IndeterminateD" \in values \/ Deny \in values)
    THEN "IndeterminateDP"
    ELSE IF "IndeterminateP" \in values THEN "IndeterminateP"
    ELSE IF Deny \in values THEN Deny ELSE NotApplicable
DenyPolicies3(values) ==
    IF Deny \in values \/ "MatchError" \in values THEN Deny
    ELSE IF "IndeterminateDP" \in values THEN "IndeterminateDP"
    ELSE IF {"IndeterminateD", "IndeterminateP", Permit} \subseteq values THEN "IndeterminateDP"
    ELSE IF "IndeterminateD" \in values THEN "IndeterminateD"
    ELSE IF Permit \in values THEN Permit
    ELSE IF "IndeterminateP" \in values THEN "IndeterminateP" ELSE NotApplicable

\* What the xacml3 overrides algorithms promise is what they compute.
LEMMA Promise3Facts ==
    ASSUME NEW c, ProperCall(c), c.alg \in Rule3Algs \cup Policy3Algs,
           NEW values, values = Contributions(c)
    PROVE  /\ c.alg = "DenyOverridesRule3" => Promise3(c) = DenyRules3(values)
           /\ c.alg = "DenyOverridesPolicy3" => Promise3(c) = DenyPolicies3(values)
           /\ c.alg \in {"PermitOverridesRule3", "PermitOverridesPolicy3"} =>
                 Promise3(c) = PermitOverrides3(values)
    <1> DEFINE winner == IF c.alg \in {"DenyOverridesRule3", "DenyOverridesPolicy3"} THEN Deny ELSE Permit
               said == values \ {"Indeterminate", "MatchError"}
               outcomes == Outcomes(winner, {Worlds(v) : v \in said})
               answer == Extended(outcomes)
    <1>1. /\ winner \in Effects
          /\ c.alg \in {"DenyOverridesRule3", "DenyOverridesPolicy3"} =>
                winner = Deny /\ Loser(winner) = Permit
                /\ ErrorOf(winner) = "IndeterminateD" /\ ErrorOf(Loser(winner)) = "IndeterminateP"
          /\ c.alg \notin {"DenyOverridesRule3", "DenyOverridesPolicy3"} =>
                winner = Permit /\ Loser(winner) = Deny
                /\ ErrorOf(winner) = "IndeterminateP" /\ ErrorOf(Loser(winner)) = "IndeterminateD"
        BY DEF Effects, Loser, ErrorOf, Permit, Deny
    <1>2. /\ values \subseteq Decisions \cup {"MatchError"}
          /\ c.alg \in Rule3Algs => "IndeterminateDP" \notin values /\ "MatchError" \notin values
        BY ContributionsFacts DEF Rule3Algs, RuleAlgs, Decisions, Effects, Permit, Deny, NotApplicable, Indeterminates
    <1>3. said \in SUBSET (Decisions \ {"Indeterminate"})
        BY <1>2
    <1>4. values = IF c.alg \in {"DenyOverridesRule3", "PermitOverridesRule3"}
                   THEN {RuleEvaluate(rule) : rule \in Kids(c)}
                   ELSE {PolicyValue(policy) : policy \in Kids(c)}
        BY ContributionsFacts DEF Rule3Algs, Policy3Algs, RuleAlgs, MatchingAlgs
    <1>5. Promise3(c) =
            IF winner = Permit /\ answer = "IndeterminateD" THEN NotApplicable
            ELSE IF c.alg # "DenyOverridesPolicy3" THEN answer
            ELSE IF "MatchError" \in values THEN Deny
            ELSE IF /\ answer = "IndeterminateDP"
                    /\ "IndeterminateDP" \notin values
                    /\ {Permit, "IndeterminateP"} \ values # {}
            THEN "IndeterminateD" ELSE answer
        BY <1>4, Zenon DEF Promise3
    <1>6. \A d \in {Permit, Deny, "IndeterminateD", "IndeterminateP", "IndeterminateDP"} : d \in said <=> d \in values
        BY DEF Permit, Deny
    <1> HIDE DEF winner, said
    <1>7. /\ winner \in said => answer = winner
          /\ winner \notin said /\ said \cap {ErrorOf(winner), "IndeterminateDP"} # {} =>
                answer = IF said \cap {Loser(winner), ErrorOf(Loser(winner)), "IndeterminateDP"} # {}
                         THEN "IndeterminateDP" ELSE ErrorOf(winner)
          /\ said \cap {winner, ErrorOf(winner), "IndeterminateDP"} = {} =>
                /\ Loser(winner) \in said => answer = Loser(winner)
                /\ Loser(winner) \notin said /\ ErrorOf(Loser(winner)) \in said => answer = ErrorOf(Loser(winner))
                /\ said \cap {Loser(winner), ErrorOf(Loser(winner))} = {} => answer = NotApplicable
        BY <1>1, <1>3, ExtendedFacts
    <1> HIDE DEF answer, outcomes
    <1> USE DEF Permit, Deny, NotApplicable
    <1>8. CASE c.alg \in {"DenyOverridesRule3", "DenyOverridesPolicy3"}
        <2>1. /\ Deny \in values => answer = Deny
              /\ Deny \notin values /\ ("IndeterminateD" \in values \/ "IndeterminateDP" \in values) =>
                    answer = IF Permit \in values \/ "IndeterminateP" \in values \/ "IndeterminateDP" \in values
                             THEN "IndeterminateDP" ELSE "IndeterminateD"
              /\ Deny \notin values /\ "IndeterminateD" \notin values /\ "IndeterminateDP" \notin values =>
                    answer = IF Permit \in values THEN Permit
                             ELSE IF "IndeterminateP" \in values THEN "IndeterminateP" ELSE NotApplicable
            BY <1>1, <1>6, <1>7, <1>8
        <2> QED BY <1>1, <1>2, <1>5, <1>8, <2>1 DEF Rule3Algs, DenyRules3, DenyPolicies3
    <1>9. CASE c.alg \in {"PermitOverridesRule3", "PermitOverridesPolicy3"}
        <2>1. /\ Permit \in values => answer = Permit
              /\ Permit \notin values /\ ("IndeterminateP" \in values \/ "IndeterminateDP" \in values) =>
                    answer = IF Deny \in values \/ "IndeterminateD" \in values \/ "IndeterminateDP" \in values
                             THEN "IndeterminateDP" ELSE "IndeterminateP"
              /\ Permit \notin values /\ "IndeterminateP" \notin values /\ "IndeterminateDP" \notin values =>
                    answer = IF Deny \in values THEN Deny
                             ELSE IF "IndeterminateD" \in values THEN "IndeterminateD" ELSE NotApplicable
            BY <1>1, <1>6, <1>7, <1>9
        <2> QED BY <1>1, <1>2, <1>5, <1>9, <2>1 DEF Rule3Algs, PermitOverrides3
    <1> QED BY <1>8, <1>9 DEF Rule3Algs, Policy3Algs

\* A rule of the call has an error and the effect that would win.
MightWin(c, winner) ==
    \E k \in DOMAIN c.kids : RuleEvaluate(c.kids[k]) \in Indeterminates /\ c.kids[k].effect = winner

\* The answers of the xacml2 overrides algorithms.
Rules2(winner, potent, values) ==
    IF winner \in values THEN {winner}
    ELSE IF potent THEN values \cap Indeterminates
    ELSE IF Loser(winner) \in values THEN {Loser(winner)}
    ELSE IF values \cap Indeterminates # {} THEN values \cap Indeterminates ELSE {NotApplicable}
DenyPolicies2(values) ==
    IF values \cap ({Deny, "MatchError"} \cup Indeterminates) # {} THEN Deny
    ELSE IF Permit \in values THEN Permit ELSE NotApplicable
PermitPolicies2(values) ==
    IF Permit \in values THEN Permit
    ELSE IF Deny \in values THEN Deny
    ELSE IF values \cap ({"MatchError"} \cup Indeterminates) # {} THEN "Indeterminate" ELSE NotApplicable

\* The xacml2 overrides algorithms over rules: the outcomes are those over the
\* errors that their rules' effects stand for.
LEMMA PromiseRule2Facts ==
    ASSUME NEW c, ProperCall(c), c.alg \in Rule2Algs, NEW winner \in Effects,
           winner = IF c.alg = "DenyOverridesRule2" THEN Deny ELSE Permit
    PROVE  PromiseRule2(c) = Rules2(winner, MightWin(c, winner), Contributions(c))
    <1> DEFINE values == Contributions(c)
               Meant(rule) == IF RuleEvaluate(rule) \in Indeterminates THEN ErrorOf(rule.effect)
                              ELSE RuleEvaluate(rule)
               said == {Meant(rule) : rule \in Kids(c)}
               outcomes == Outcomes(winner, {Worlds(v) : v \in said})
               errors == values \cap Indeterminates
    <1>1. /\ c.alg \in RuleAlgs
          /\ \A k \in DOMAIN c.kids : c.kids[k] \in Rules
          /\ \A rule \in Kids(c) : rule \in Rules
          /\ values = {RuleEvaluate(rule) : rule \in Kids(c)}
          /\ values \subseteq Decisions \ {"IndeterminateDP"}
        BY ContributionsFacts DEF Rule2Algs, RuleAlgs, ProperCall, Kids
    <1>2. ASSUME NEW rule \in Kids(c)
          PROVE  /\ RuleEvaluate(rule) \in Decisions \ {"IndeterminateDP"} /\ rule.effect \in Effects
                 /\ Meant(rule) \in {Permit, Deny, NotApplicable, "IndeterminateD", "IndeterminateP"}
                 /\ RuleWorlds(rule) = Worlds(Meant(rule))
        <2>1. RuleEvaluate(rule) \in Decisions \ {"IndeterminateDP"} /\ rule.effect \in Effects
            BY <1>1, RuleDecides DEF Rules
        <2> QED BY <2>1 DEF RuleWorlds, Worlds, ErrorOf, Effects, Decisions, Indeterminates, Permit, Deny, NotApplicable
    <1>3. {RuleWorlds(rule) : rule \in Kids(c)} = {Worlds(v) : v \in said}
        <2> HIDE DEF Meant
        <2> QED BY <1>2
    <1>4. said \in SUBSET (Decisions \ {"Indeterminate"}) /\ "IndeterminateDP" \notin said
        <2>1. {Permit, Deny, NotApplicable, "IndeterminateD", "IndeterminateP"} \subseteq Decisions \ {"Indeterminate", "IndeterminateDP"}
            BY DEF Decisions, Effects, Indeterminates, Permit, Deny, NotApplicable
        <2> HIDE DEF Meant
        <2> QED BY <1>2, <2>1
    <1>5. PromiseRule2(c) = IF Certain(outcomes) THEN outcomes ELSE errors
        BY <1>1, <1>3 DEF PromiseRule2
    <1>6. /\ \A e \in Effects : e \in said <=> e \in values
          /\ ErrorOf(winner) \in said <=> MightWin(c, winner)
          /\ ErrorOf(winner) \in said \/ ErrorOf(Loser(winner)) \in said <=> errors # {}
        <2>1. \A e \in Effects : e \in said <=> e \in values
            <3>1. ASSUME NEW rule \in Kids(c), NEW e \in Effects PROVE Meant(rule) = e <=> RuleEvaluate(rule) = e
                BY <1>2 DEF ErrorOf, Effects, Permit, Deny, Indeterminates
            <3> HIDE DEF Meant
            <3> QED BY <1>1, <3>1
        <2>2. ASSUME NEW rule \in Kids(c), NEW e \in Effects
              PROVE  Meant(rule) = ErrorOf(e) <=> RuleEvaluate(rule) \in Indeterminates /\ rule.effect = e
            <3>1. RuleEvaluate(rule) \notin Indeterminates \/ Meant(rule) = ErrorOf(rule.effect)
                OBVIOUS
            <3>2. RuleEvaluate(rule) = "IndeterminateP" \/ RuleEvaluate(rule) = "IndeterminateD"
                      \/ RuleEvaluate(rule) \in Indeterminates \/ RuleEvaluate(rule) \in Effects \cup {NotApplicable}
                BY <1>2 DEF Decisions
            <3>3. ErrorOf(e) \in Indeterminates /\ ErrorOf(e) \notin Effects \cup {NotApplicable}
                BY DEF ErrorOf, Effects, Indeterminates, Permit, Deny, NotApplicable
            <3>4. ErrorOf(rule.effect) = ErrorOf(e) <=> rule.effect = e
                BY <1>2 DEF ErrorOf, Effects, Permit, Deny
            <3> QED BY <3>1, <3>2, <3>3, <3>4
        <2>3. \A e \in Effects : ErrorOf(e) \in said <=> \E rule \in Kids(c) : RuleEvaluate(rule) \in Indeterminates /\ rule.effect = e
            <3> HIDE DEF Meant
            <3> QED BY <2>2
        <2>4. Loser(winner) \in Effects /\ \A e \in Effects : e = winner \/ e = Loser(winner)
            BY DEF Loser, Effects, Permit, Deny
        <2>5. MightWin(c, winner) <=> \E rule \in Kids(c) : RuleEvaluate(rule) \in Indeterminates /\ rule.effect = winner
            BY DEF MightWin, Kids
        <2>6. errors # {} <=> \E rule \in Kids(c) : RuleEvaluate(rule) \in Indeterminates
            BY <1>1
        <2>7. errors # {} <=> \E e \in Effects : \E rule \in Kids(c) : RuleEvaluate(rule) \in Indeterminates /\ rule.effect = e
            BY <1>2, <2>6
        <2>8. errors # {} <=> \E e \in Effects : ErrorOf(e) \in said
            BY <2>3, <2>7
        <2> QED BY <2>1, <2>3, <2>4, <2>5, <2>8
    <1> HIDE DEF said, values
    <1>7. /\ winner \in said => outcomes = {winner} /\ Extended(outcomes) = winner
          /\ winner \notin said /\ said \cap {ErrorOf(winner), "IndeterminateDP"} # {} => ~Certain(outcomes)
          /\ said \cap {winner, ErrorOf(winner), "IndeterminateDP"} = {} =>
                /\ Loser(winner) \in said => outcomes = {Loser(winner)}
                /\ Loser(winner) \notin said /\ ErrorOf(Loser(winner)) \in said => ~Certain(outcomes)
                /\ said \cap {Loser(winner), ErrorOf(Loser(winner))} = {} => outcomes = {NotApplicable}
        BY <1>4, ExtendedFacts
    <1>8. Loser(winner) \in Effects
        BY DEF Loser, Effects
    <1> HIDE DEF outcomes, errors
    <1>9. \A o : outcomes = {o} => Certain(outcomes)
        BY DEF Certain
    <1>10. PromiseRule2(c) =
              IF winner \in values THEN {winner}
              ELSE IF MightWin(c, winner) THEN errors
              ELSE IF Loser(winner) \in values THEN {Loser(winner)}
              ELSE IF errors # {} THEN errors ELSE {NotApplicable}
        <2>1. CASE winner \in values
            BY <1>5, <1>6, <1>7, <1>9, <2>1
        <2>2. CASE winner \notin values /\ MightWin(c, winner)
            <3>1. said \cap {ErrorOf(winner), "IndeterminateDP"} # {} /\ winner \notin said
                BY <1>6, <2>2
            <3> QED BY <1>5, <1>7, <2>2, <3>1
        <2>3. CASE winner \notin values /\ ~MightWin(c, winner)
            <3>1. said \cap {winner, ErrorOf(winner), "IndeterminateDP"} = {}
                BY <1>4, <1>6, <2>3
            <3>2. CASE Loser(winner) \in values
                BY <1>5, <1>6, <1>7, <1>8, <1>9, <2>3, <3>1, <3>2
            <3>3. CASE Loser(winner) \notin values /\ errors # {}
                BY <1>5, <1>6, <1>7, <1>8, <2>3, <3>1, <3>3
            <3>4. CASE Loser(winner) \notin values /\ errors = {}
                <4>1. said \cap {Loser(winner), ErrorOf(Loser(winner))} = {}
                    BY <1>6, <1>8, <3>4
                <4> QED BY <1>5, <1>7, <1>9, <2>3, <3>1, <3>4, <4>1
            <3> QED BY <3>2, <3>3, <3>4
        <2> QED BY <2>1, <2>2, <2>3
    <1> QED BY <1>10 DEF Rules2, values, errors

LEMMA PromisePolicy2Facts ==
    ASSUME NEW c, ProperCall(c)
    PROVE  /\ c.alg = "DenyOverridesPolicy2" => PromisePolicy2(c) = DenyPolicies2(Contributions(c))
           /\ c.alg = "PermitOverridesPolicy2" => PromisePolicy2(c) = PermitPolicies2(Contributions(c))
    <1> DEFINE values == Contributions(c)
               errors == values \cap (Indeterminates \cup {"MatchError"})
    <1>1. SUFFICES ASSUME c.alg \in {"DenyOverridesPolicy2", "PermitOverridesPolicy2"}
                   PROVE  /\ c.alg = "DenyOverridesPolicy2" => PromisePolicy2(c) = DenyPolicies2(values)
                          /\ c.alg = "PermitOverridesPolicy2" => PromisePolicy2(c) = PermitPolicies2(values)
        OBVIOUS
    <1>2. values = {PolicyValue(policy) : policy \in Kids(c)} /\ values \subseteq Decisions \cup {"MatchError"}
        BY <1>1, ContributionsFacts DEF MatchingAlgs
    <1> HIDE DEF values
    <1>3. PromisePolicy2(c) =
            IF c.alg = "DenyOverridesPolicy2"
            THEN Overrides(Deny, IF errors # {} THEN {Deny} ELSE values)
            ELSE IF errors # {} /\ values \cap Effects = {} THEN "Indeterminate"
            ELSE Overrides(Permit, values \ errors)
        BY <1>2 DEF PromisePolicy2
    <1>4. values \ errors \subseteq Said
        BY <1>2 DEF Decisions, Said
    <1>5. ASSUME c.alg = "DenyOverridesPolicy2" PROVE PromisePolicy2(c) = DenyPolicies2(values)
        <2>1. CASE errors # {}
            BY <1>3, <1>5, <2>1 DEF Overrides, DenyPolicies2
        <2>2. CASE errors = {}
            BY <1>3, <1>4, <1>5, <2>2 DEF Overrides, DenyPolicies2, Said, Loser, Effects, Permit, Deny, NotApplicable
        <2> QED BY <2>1, <2>2
    <1>6. ASSUME c.alg = "PermitOverridesPolicy2" PROVE PromisePolicy2(c) = PermitPolicies2(values)
        <2>1. Permit \notin errors /\ Deny \notin errors
            BY DEF Indeterminates, Permit, Deny
        <2>2. CASE errors # {} /\ values \cap Effects = {}
            BY <1>3, <1>6, <2>2 DEF PermitPolicies2, Effects
        <2>3. CASE errors = {} \/ values \cap Effects # {}
            BY <1>3, <1>4, <1>6, <2>1, <2>3 DEF Overrides, PermitPolicies2, Said, Loser, Effects, Permit, Deny, NotApplicable
        <2> QED BY <2>2, <2>3
    <1> QED BY <1>5, <1>6

\* What first-applicable answers at child k.
FirstReply(c, k) ==
    IF c.alg = "FirstApplicableRule" THEN RuleEvaluate(c.kids[k])
    ELSE IF c.kids[k].target = "Error" THEN "Indeterminate"
    ELSE IF c.kids[k].target = "none" THEN Crash
    ELSE PolicyValue(c.kids[k])

LEMMA PromiseFirstFacts ==
    ASSUME NEW c, NEW n \in Nat, DOMAIN c.kids = 1..n
    PROVE  /\ (\A k \in 1..n : FirstReply(c, k) = NotApplicable) => PromiseFirst(c) = NotApplicable
           /\ \A k \in 1..n :
                 FirstReply(c, k) # NotApplicable /\ (\A j \in 1..k - 1 : FirstReply(c, j) = NotApplicable)
                     => PromiseFirst(c) = FirstReply(c, k)
    <1> DEFINE applying == {k \in DOMAIN c.kids : FirstReply(c, k) # NotApplicable}
    <1>1. PromiseFirst(c) = IF applying = {} THEN NotApplicable
                            ELSE FirstReply(c, CHOOSE k \in applying : \A j \in applying : k <= j)
        BY Zenon DEF PromiseFirst, FirstReply
    <1>2. ASSUME NEW k \in 1..n, FirstReply(c, k) # NotApplicable,
                 \A j \in 1..k - 1 : FirstReply(c, j) = NotApplicable
          PROVE  PromiseFirst(c) = FirstReply(c, k)
        <2>1. k \in applying /\ \A j \in applying : k <= j
            BY <1>2
        <2> DEFINE l == CHOOSE m \in applying : \A j \in applying : m <= j
        <2>2. l \in applying /\ \A j \in applying : l <= j
            BY <2>1
        <2>3. l = k
            <3> HIDE DEF l
            <3> QED BY <2>1, <2>2
        <2> HIDE DEF applying
        <2> QED BY <1>1, <2>1, <2>3
    <1>3. ASSUME \A k \in 1..n : FirstReply(c, k) = NotApplicable PROVE PromiseFirst(c) = NotApplicable
        BY <1>1, <1>3
    <1> QED BY <1>2, <1>3

LEMMA PromiseOnlyOneFacts ==
    ASSUME NEW c
    PROVE  /\ \A k \in DOMAIN c.kids : c.kids[k].target = "Error" => PromiseOnlyOne(c) = "Indeterminate"
           /\ \A j, k \in DOMAIN c.kids : j # k /\ c.kids[j].target = "Match" /\ c.kids[k].target = "Match"
                  => PromiseOnlyOne(c) = "Indeterminate"
           /\ (\A k \in DOMAIN c.kids : c.kids[k].target \notin {"Match", "Error"})
                  => PromiseOnlyOne(c) = NotApplicable
           /\ \A k \in DOMAIN c.kids :
                  /\ c.kids[k].target = "Match"
                  /\ \A j \in DOMAIN c.kids : c.kids[j].target # "Error" /\ (c.kids[j].target = "Match" => j = k)
                  => PromiseOnlyOne(c) = c.kids[k].inner
    <1> DEFINE matching == {k \in DOMAIN c.kids : c.kids[k].target = "Match"}
    <1>1. PromiseOnlyOne(c) =
            IF (\E j, k \in matching : j # k) \/ \E k \in DOMAIN c.kids : c.kids[k].target = "Error"
            THEN "Indeterminate"
            ELSE IF matching = {} THEN NotApplicable
            ELSE c.kids[CHOOSE k \in matching : TRUE].inner
        BY Zenon DEF PromiseOnlyOne
    <1>2. ASSUME NEW k \in DOMAIN c.kids, c.kids[k].target = "Match",
                 \A j \in DOMAIN c.kids : c.kids[j].target # "Error" /\ (c.kids[j].target = "Match" => j = k)
          PROVE  PromiseOnlyOne(c) = c.kids[k].inner
        <2>1. matching = {k}
            BY <1>2
        <2>2. (CHOOSE j \in matching : TRUE) = k
            BY <2>1
        <2> HIDE DEF matching
        <2> QED BY <1>1, <1>2, <2>1, <2>2
    <1>3. \A k \in DOMAIN c.kids : c.kids[k].target = "Error" => PromiseOnlyOne(c) = "Indeterminate"
        BY <1>1
    <1>4. ASSUME NEW j \in DOMAIN c.kids, NEW k \in DOMAIN c.kids, j # k,
                 c.kids[j].target = "Match", c.kids[k].target = "Match"
          PROVE  PromiseOnlyOne(c) = "Indeterminate"
        <2>1. j \in matching /\ k \in matching
            BY <1>4
        <2> HIDE DEF matching
        <2> QED BY <1>1, <1>4, <2>1
    <1>5. ASSUME \A k \in DOMAIN c.kids : c.kids[k].target \notin {"Match", "Error"}
          PROVE  PromiseOnlyOne(c) = NotApplicable
        <2>1. matching = {}
            BY <1>5
        <2> HIDE DEF matching
        <2> QED BY <1>1, <1>5, <2>1
    <1> QED BY <1>2, <1>3, <1>4, <1>5

UnlessAlgs == UnlessPolicyAlgs \cup {"DenyUnlessPermitRule", "PermitUnlessDenyRule"}

LEMMA PromiseUnlessFacts ==
    ASSUME NEW c, ProperCall(c), c.alg \in UnlessAlgs
    PROVE  /\ c.alg \in {"DenyUnlessPermitRule", "DenyUnlessPermitPolicy"} =>
                 PromiseUnless(c) = IF Permit \in Contributions(c) THEN Permit ELSE Deny
           /\ c.alg \notin {"DenyUnlessPermitRule", "DenyUnlessPermitPolicy"} =>
                 PromiseUnless(c) = IF Deny \in Contributions(c) THEN Deny ELSE Permit
    <1>1. Contributions(c) = IF c.alg \in {"DenyUnlessPermitRule", "PermitUnlessDenyRule"}
                             THEN {RuleEvaluate(rule) : rule \in Kids(c)}
                             ELSE {UnmatchedValue(policy) : policy \in Kids(c)}
        BY ContributionsFacts DEF UnlessAlgs, UnlessPolicyAlgs, RuleAlgs
    <1>2. PromiseUnless(c) =
            LET winner == IF c.alg \in {"DenyUnlessPermitRule", "DenyUnlessPermitPolicy"} THEN Permit ELSE Deny
            IN  IF winner \in Contributions(c) THEN winner ELSE Loser(winner)
        BY <1>1, Zenon DEF PromiseUnless
    <1> QED BY <1>2 DEF Loser, Permit, Deny

-----------------------------------------------------------------------------
(* What may be answered.                                                   *)

LEMMA SilencedFacts ==
    ASSUME NEW c \in CallRecords, ProperCall(c), c.alg \in MatchingAlgs
    PROVE  /\ ProperCall(Silenced(c)) /\ Silenced(c).alg = c.alg
           /\ DOMAIN Silenced(c).kids = DOMAIN c.kids
           /\ \A k \in DOMAIN c.kids : c.kids[k].target # "none" => Silenced(c).kids[k] = c.kids[k]
    <1> DEFINE heard == [k \in DOMAIN c.kids |->
                           IF c.kids[k].target = "none" THEN [c.kids[k] EXCEPT !.target = "NoMatch"] ELSE c.kids[k]]
    <1>1. Silenced(c) = [c EXCEPT !.kids = heard]
        BY DEF Silenced
    <1>2. Silenced(c).alg = c.alg /\ Silenced(c).kids = heard
        BY <1>1 DEF CallRecords
    <1>3. c.alg \notin RuleAlgs /\ \A k \in DOMAIN c.kids : c.kids[k] \in Policies
        BY DEF MatchingAlgs, RuleAlgs, ProperCall
    <1>4. \A k \in DOMAIN c.kids : heard[k] \in Policies
        BY <1>3 DEF Policies, TargetResults, MatchResults
    <1>5. \A k \in DOMAIN c.kids : c.kids[k].target # "none" => heard[k] = c.kids[k]
        OBVIOUS
    <1>6. DOMAIN heard = DOMAIN c.kids
        OBVIOUS
    <1> HIDE DEF heard
    <1>7. ProperCall(Silenced(c))
        BY <1>2, <1>3, <1>4, <1>6 DEF ProperCall
    <1> QED BY <1>2, <1>5, <1>6, <1>7

StoppingAlgs == MatchingAlgs \ {"FirstApplicablePolicy"}

\* What may be answered, with and without a child that has no target.
LEMMA PromiseFacts ==
    ASSUME NEW c \in CallRecords, ProperCall(c), c.target \in {"none", "Match"}
    PROVE  /\ \/ c.alg \notin StoppingAlgs
              \/ \A k \in DOMAIN c.kids : c.kids[k].target # "none"
              => Promise(c) = Verdicts(c)
           /\ c.alg \in StoppingAlgs =>
                 /\ \A k \in DOMAIN c.kids : c.kids[k].target = "none" => Crash \in Promise(c)
                 /\ \A d \in Stopping(c) : d \in Verdicts(c) /\ d \in Verdicts(Silenced(c)) => d \in Promise(c)
    <1>1. c.alg \notin StoppingAlgs <=> Stopping(c) = {}
        BY DEF Stopping, StoppingAlgs, MatchingAlgs, ProperCall, Algs, RuleAlgs, UnlessPolicyAlgs
    <1>2. (\E policy \in Kids(c) : policy.target = "none") <=> \E k \in DOMAIN c.kids : c.kids[k].target = "none"
        BY DEF Kids
    <1>3. Promise(c) = IF Stopping(c) # {} /\ \E policy \in Kids(c) : policy.target = "none"
                       THEN {Crash} \cup (Verdicts(Silenced(c)) \cap Stopping(c)) ELSE Verdicts(c)
        BY DEF Promise
    <1> QED BY <1>1, <1>2, <1>3

\* A child that is enough for an answer, in the algorithms that stop at one.
LEMMA StopsAt ==
    ASSUME NEW c, ProperCall(c), NEW k \in DOMAIN c.kids, NEW v, v = Contribution(c, k)
    PROVE  /\ c.alg \in {"DenyOverridesRule2", "DenyOverridesRule3"} /\ v = Deny => Deny \in Verdicts(c)
           /\ c.alg \in {"PermitOverridesRule2", "PermitOverridesRule3"} /\ v = Permit => Permit \in Verdicts(c)
           /\ c.alg = "DenyOverridesPolicy2" /\ v \in {Deny, "MatchError"} \cup Indeterminates => Deny \in Verdicts(c)
           /\ c.alg = "DenyOverridesPolicy3" /\ v \in {Deny, "MatchError"} => Deny \in Verdicts(c)
           /\ c.alg \in {"PermitOverridesPolicy2", "PermitOverridesPolicy3"} /\ v = Permit => Permit \in Verdicts(c)
           /\ c.alg \in {"DenyUnlessPermitRule", "DenyUnlessPermitPolicy"} /\ v = Permit => Permit \in Verdicts(c)
           /\ c.alg \in {"PermitUnlessDenyRule", "PermitUnlessDenyPolicy"} /\ v = Deny => Deny \in Verdicts(c)
           /\ c.alg = "OnlyOneApplicable" =>
                 /\ c.kids[k].target = "Error" => "Indeterminate" \in Verdicts(c)
                 /\ \A j \in DOMAIN c.kids \ {k} : c.kids[j].target = "Match" /\ c.kids[k].target = "Match"
                       => "Indeterminate" \in Verdicts(c)
    <1> DEFINE values == Contributions(c)
    <1>1. v \in values
        BY DEF Contributions
    <1> HIDE DEF values
    <1>2. /\ c.alg \in {"DenyOverridesRule3", "PermitOverridesRule3", "DenyOverridesPolicy3", "PermitOverridesPolicy3"}
                => Verdicts(c) = {Promise3(c)}
          /\ c.alg \in {"DenyOverridesRule2", "PermitOverridesRule2"} => Verdicts(c) = PromiseRule2(c)
          /\ c.alg \in {"DenyOverridesPolicy2", "PermitOverridesPolicy2"} => Verdicts(c) = {PromisePolicy2(c)}
          /\ c.alg = "OnlyOneApplicable" => Verdicts(c) = {PromiseOnlyOne(c)}
          /\ c.alg \in UnlessAlgs => Verdicts(c) = {PromiseUnless(c)}
        BY DEF Verdicts, UnlessAlgs, UnlessPolicyAlgs
    <1>3. c.alg \in Rule3Algs \cup Policy3Algs =>
            /\ c.alg = "DenyOverridesRule3" => Promise3(c) = DenyRules3(values)
            /\ c.alg = "DenyOverridesPolicy3" => Promise3(c) = DenyPolicies3(values)
            /\ c.alg \in {"PermitOverridesRule3", "PermitOverridesPolicy3"} => Promise3(c) = PermitOverrides3(values)
        BY Promise3Facts DEF values
    <1>4. /\ c.alg \in {"DenyOverridesRule3", "DenyOverridesPolicy3"} /\ v = Deny => Deny \in Verdicts(c)
          /\ c.alg = "DenyOverridesPolicy3" /\ v = "MatchError" => Deny \in Verdicts(c)
          /\ c.alg \in {"PermitOverridesRule3", "PermitOverridesPolicy3"} /\ v = Permit => Permit \in Verdicts(c)
        BY <1>1, <1>2, <1>3 DEF Rule3Algs, Policy3Algs, DenyRules3, DenyPolicies3, PermitOverrides3
    <1>5. /\ c.alg = "DenyOverridesRule2" /\ v = Deny => Deny \in Verdicts(c)
          /\ c.alg = "PermitOverridesRule2" /\ v = Permit => Permit \in Verdicts(c)
        <2>1. Permit \in Effects /\ Deny \in Effects
            BY DEF Effects
        <2>2. c.alg = "DenyOverridesRule2" => PromiseRule2(c) = Rules2(Deny, MightWin(c, Deny), values)
            BY <2>1, PromiseRule2Facts DEF Rule2Algs, values
        <2>3. c.alg = "PermitOverridesRule2" => PromiseRule2(c) = Rules2(Permit, MightWin(c, Permit), values)
            BY <2>1, PromiseRule2Facts DEF Rule2Algs, values
        <2> QED BY <1>1, <1>2, <2>2, <2>3 DEF Rules2
    <1>6. /\ c.alg = "DenyOverridesPolicy2" /\ v \in {Deny, "MatchError"} \cup Indeterminates => Deny \in Verdicts(c)
          /\ c.alg = "PermitOverridesPolicy2" /\ v = Permit => Permit \in Verdicts(c)
        BY <1>1, <1>2, PromisePolicy2Facts DEF DenyPolicies2, PermitPolicies2, values
    <1>7. /\ c.alg \in {"DenyUnlessPermitRule", "DenyUnlessPermitPolicy"} /\ v = Permit => Permit \in Verdicts(c)
          /\ c.alg \in {"PermitUnlessDenyRule", "PermitUnlessDenyPolicy"} /\ v = Deny => Deny \in Verdicts(c)
        BY <1>1, <1>2, PromiseUnlessFacts DEF UnlessAlgs, UnlessPolicyAlgs, values
    <1>8. c.alg = "OnlyOneApplicable" =>
            /\ c.kids[k].target = "Error" => "Indeterminate" \in Verdicts(c)
            /\ \A j \in DOMAIN c.kids \ {k} : c.kids[j].target = "Match" /\ c.kids[k].target = "Match"
                  => "Indeterminate" \in Verdicts(c)
        BY <1>2, PromiseOnlyOneFacts
    <1> QED BY <1>4, <1>5, <1>6, <1>7, <1>8

\* It is enough whatever targets the other children have.
LEMMA StopsAtAnswers ==
    ASSUME NEW c \in CallRecords, ProperCall(c), c.target \in {"none", "Match"},
           NEW k \in DOMAIN c.kids, NEW v, v = Contribution(c, k),
           c.alg \in MatchingAlgs => c.kids[k].target # "none"
    PROVE  /\ c.alg \in {"DenyOverridesRule2", "DenyOverridesRule3"} /\ v = Deny => Deny \in Promise(c)
           /\ c.alg \in {"PermitOverridesRule2", "PermitOverridesRule3"} /\ v = Permit => Permit \in Promise(c)
           /\ c.alg = "DenyOverridesPolicy2" /\ v \in {Deny, "MatchError"} \cup Indeterminates => Deny \in Promise(c)
           /\ c.alg = "DenyOverridesPolicy3" /\ v \in {Deny, "MatchError"} => Deny \in Promise(c)
           /\ c.alg \in {"PermitOverridesPolicy2", "PermitOverridesPolicy3"} /\ v = Permit => Permit \in Promise(c)
           /\ c.alg \in {"DenyUnlessPermitRule", "DenyUnlessPermitPolicy"} /\ v = Permit => Permit \in Promise(c)
           /\ c.alg \in {"PermitUnlessDenyRule", "PermitUnlessDenyPolicy"} /\ v = Deny => Deny \in Promise(c)
           /\ c.alg = "OnlyOneApplicable" =>
                 /\ c.kids[k].target = "Error" => "Indeterminate" \in Promise(c)
                 /\ \A j \in DOMAIN c.kids \ {k} : c.kids[j].target = "Match" /\ c.kids[k].target = "Match"
                       => "Indeterminate" \in Promise(c)
    <1>1. CASE c.alg \notin MatchingAlgs
        <2>1. Promise(c) = Verdicts(c)
            BY <1>1, PromiseFacts DEF StoppingAlgs
        <2> QED BY <1>1, <2>1, StopsAt DEF MatchingAlgs
    <1>2. CASE c.alg \in MatchingAlgs
        <2> DEFINE r == Silenced(c)
        <2>1. /\ ProperCall(r) /\ r.alg = c.alg /\ DOMAIN r.kids = DOMAIN c.kids
              /\ \A j \in DOMAIN c.kids : c.kids[j].target # "none" => r.kids[j] = c.kids[j]
            BY <1>2, SilencedFacts
        <2>2. Contribution(r, k) = v
            BY <1>2, <2>1 DEF Contribution
        <2>3. ASSUME NEW d \in Stopping(c), d \in Verdicts(c), d \in Verdicts(r), c.alg \in StoppingAlgs
              PROVE  d \in Promise(c)
            BY <2>3, PromiseFacts
        <2> HIDE DEF r
        <2>4. \A j \in DOMAIN c.kids : c.kids[j].target = "Match" => r.kids[j].target = "Match"
            BY <2>1
        <2>5. /\ c.alg \in {"DenyOverridesPolicy2", "DenyOverridesPolicy3"} => Deny \in Stopping(c)
              /\ c.alg \in {"PermitOverridesPolicy2", "PermitOverridesPolicy3"} => Permit \in Stopping(c)
              /\ c.alg = "OnlyOneApplicable" => "Indeterminate" \in Stopping(c)
            BY DEF Stopping
        <2>6. /\ c.alg = "DenyOverridesPolicy2" /\ v \in {Deny, "MatchError"} \cup Indeterminates => Deny \in Promise(c)
              /\ c.alg = "DenyOverridesPolicy3" /\ v \in {Deny, "MatchError"} => Deny \in Promise(c)
              /\ c.alg \in {"PermitOverridesPolicy2", "PermitOverridesPolicy3"} /\ v = Permit => Permit \in Promise(c)
            BY <2>1, <2>2, <2>3, <2>5, StopsAt DEF StoppingAlgs, MatchingAlgs
        <2>7. c.alg = "OnlyOneApplicable" =>
                 /\ c.kids[k].target = "Error" => "Indeterminate" \in Promise(c)
                 /\ \A j \in DOMAIN c.kids \ {k} : c.kids[j].target = "Match" /\ c.kids[k].target = "Match"
                       => "Indeterminate" \in Promise(c)
            <3> SUFFICES ASSUME c.alg = "OnlyOneApplicable",
                                \/ c.kids[k].target = "Error"
                                \/ \E j \in DOMAIN c.kids \ {k} : c.kids[j].target = "Match" /\ c.kids[k].target = "Match"
                         PROVE  "Indeterminate" \in Promise(c)
                OBVIOUS
            <3>1. "Indeterminate" \in Verdicts(c)
                BY StopsAt
            <3>2. r.kids[k] = c.kids[k] /\ r.alg = "OnlyOneApplicable"
                BY <1>2, <2>1
            <3>3. "Indeterminate" \in Verdicts(r)
                BY <2>1, <2>2, <2>4, <3>2, StopsAt
            <3> QED BY <2>3, <2>5, <3>1, <3>3 DEF StoppingAlgs, MatchingAlgs
        <2> QED BY <1>2, <2>6, <2>7 DEF MatchingAlgs
    <1> QED BY <1>1, <1>2

-----------------------------------------------------------------------------
(* The loops keep the promise.                                             *)

\* What the loop hears of child k while it goes on.
Says(k, d) ==
    \/ Contribution(call, k) = d
    \/ Contribution(call, k) = "MatchError" /\ loop.onMatchError = "note" /\ d = "Indeterminate"

\* Child k does not end the loop.
Passes(k) ==
    /\ Contribution(call, k) \notin loop.returns
    /\ alg \in MatchingAlgs => kids[k].target # "none"
    /\ Contribution(call, k) = "MatchError" => loop.onMatchError \in {"skip", "note"}
    /\ alg = "DenyOverridesPolicy2" => Contribution(call, k) \notin Indeterminates

Potent(k) ==
    alg \in Rule2Algs /\ Value(k) \in Indeterminates /\ kids[k].effect \in loop.returns

Tracked == loop.errors \cup {loop.gathers}

\* The flags say exactly what the children weighed so far said.
HeardInv ==
    Looping =>
        /\ pc # "target" => call.target \in {"none", "Match"}
        /\ pc = "evaluate" => kids[i].target = "Match" /\ alg # "OnlyOneApplicable"
        /\ \A k \in 1..Processed : Passes(k)
        /\ seen = {d \in Tracked : \E k \in 1..Processed : Says(k, d)}
        /\ potential <=> \E k \in 1..Processed : Potent(k)
        /\ alg \in Rule3Algs \cup Policy3Algs =>
              \A s \in Indeterminates : first[s] # 0 => Value(first[s]) = s
        /\ alg = "OnlyOneApplicable" =>
              \/ selected = 0 /\ \A k \in 1..Processed : kids[k].target # "Match"
              \/ /\ selected \in 1..Processed /\ kids[selected].target = "Match"
                 /\ \A k \in 1..Processed : kids[k].target = "Match" => k = selected

AnswerInv == pc = "obligations" => result.decision \in Promise(call)

\* The call in progress, as the promise sees it.
LEMMA ProperCallFacts ==
    ASSUME call \in Calls
    PROVE  /\ call \in CallRecords /\ ProperCall(call) /\ call.alg = alg /\ call.kids = kids
           /\ DOMAIN kids = 1..Len(kids) /\ Len(kids) \in Nat
           /\ \A k \in 1..Len(kids) :
                 Contribution(call, k) = IF alg \in MatchingAlgs /\ kids[k].target = "Error"
                                         THEN "MatchError" ELSE Value(k)
    <1>1. call \in CallRecords /\ call.alg = alg /\ call.kids = kids /\ Len(kids) \in Nat /\ alg \in Algs
        BY CallFacts, CallsAssumption DEF alg, kids
    <1>2. DOMAIN kids = 1..Len(kids)
        BY CallsAssumption DEF kids, CallRecords
    <1>3. ProperCall(call)
        BY <1>1, <1>2, CallFacts DEF ProperCall
    <1>4. ASSUME NEW k \in 1..Len(kids)
          PROVE  Contribution(call, k) = IF alg \in MatchingAlgs /\ kids[k].target = "Error"
                                         THEN "MatchError" ELSE Value(k)
        <2>1. alg \in MatchingAlgs => alg \notin RuleAlgs
            BY DEF MatchingAlgs, RuleAlgs
        <2> QED BY <1>1, <2>1 DEF Contribution, Value, PolicyValue, UnmatchedValue, PolicyEvaluate
    <1> QED BY <1>1, <1>2, <1>3, <1>4

\* A step weighs child kid and goes on with the next one.
LEMMA HeardKept ==
    ASSUME IInv, HeardInv, Looping, NEW kid \in 1..Len(kids), kid = Processed + 1,
           pc # "target", UNCHANGED call, pc' = "iterate", i' = kid, Passes(kid),
           seen' = seen \cup {d \in Tracked : Says(kid, d)},
           potential' = (potential \/ Potent(kid)),
           alg \in Rule3Algs \cup Policy3Algs =>
               \A s \in Indeterminates : first'[s] = first[s] \/ (first'[s] = kid /\ Value(kid) = s),
           alg = "OnlyOneApplicable" =>
               \/ kids[kid].target # "Match" /\ selected' = selected
               \/ kids[kid].target = "Match" /\ selected = 0 /\ selected' = kid
    PROVE  HeardInv'
    <1>1. call \in Calls /\ Processed \in Nat /\ kid \in Nat /\ Len(kids) \in Nat
        BY CallFacts DEF IInv, TypeOK, PlaceInv, Processed
    <1>2. /\ alg' = alg /\ kids' = kids /\ loop' = loop /\ call' = call
          /\ \A k : Value(k)' = Value(k)
        BY CallConstant
    <1>3. Processed' = kid /\ pc' # "evaluate" /\ pc' # "target" /\ 1..kid = (1..Processed) \cup {kid}
        BY <1>1 DEF Processed
    <1>4. /\ \A k : Passes(k)' = Passes(k)
          /\ \A k, d : Says(k, d)' = Says(k, d)
          /\ \A k : Potent(k)' = Potent(k)
          /\ Tracked' = Tracked
        BY <1>2 DEF Passes, Says, Potent, Tracked
    <1> DEFINE P == Processed
    <1>5. /\ call.target \in {"none", "Match"}
          /\ \A k \in 1..P : Passes(k)
          /\ seen = {d \in Tracked : \E k \in 1..P : Says(k, d)}
          /\ potential <=> \E k \in 1..P : Potent(k)
          /\ alg \in Rule3Algs \cup Policy3Algs => \A s \in Indeterminates : first[s] # 0 => Value(first[s]) = s
          /\ alg = "OnlyOneApplicable" =>
                  \/ selected = 0 /\ \A k \in 1..P : kids[k].target # "Match"
                  \/ /\ selected \in 1..P /\ kids[selected].target = "Match"
                     /\ \A k \in 1..P : kids[k].target = "Match" => k = selected
        BY DEF HeardInv
    <1> HIDE DEF P
    <1>6. 1..kid = (1..P) \cup {kid}
        BY <1>3 DEF P
    <1>7. \A k \in 1..kid : Passes(k)
        BY <1>5, <1>6
    <1>8. seen' = {d \in Tracked : \E k \in 1..kid : Says(k, d)}
        BY <1>5, <1>6
    <1>9. potential' <=> \E k \in 1..kid : Potent(k)
        BY <1>5, <1>6
    <1>10. alg \in Rule3Algs \cup Policy3Algs => \A s \in Indeterminates : first'[s] # 0 => Value(first'[s]) = s
        BY <1>5
    <1>11. alg = "OnlyOneApplicable" =>
               \/ selected' = 0 /\ \A k \in 1..kid : kids[k].target # "Match"
               \/ /\ selected' \in 1..kid /\ kids[selected'].target = "Match"
                  /\ \A k \in 1..kid : kids[k].target = "Match" => k = selected'
        <2> SUFFICES ASSUME alg = "OnlyOneApplicable"
                     PROVE  \/ selected' = 0 /\ \A k \in 1..kid : kids[k].target # "Match"
                            \/ /\ selected' \in 1..kid /\ kids[selected'].target = "Match"
                               /\ \A k \in 1..kid : kids[k].target = "Match" => k = selected'
            OBVIOUS
        <2>1. CASE kids[kid].target # "Match" /\ selected' = selected
            BY <1>5, <1>6, <2>1
        <2>2. CASE kids[kid].target = "Match" /\ selected = 0 /\ selected' = kid
            <3>1. 0 \notin 1..P
                BY <1>1 DEF P
            <3> QED BY <1>5, <1>6, <2>2, <3>1
        <2> QED BY <2>1, <2>2
    <1> QED BY <1>2, <1>3, <1>4, <1>5, <1>7, <1>8, <1>9, <1>10, <1>11 DEF HeardInv

\* Noting a decision raises just the flag that stands for it.
LEMMA NoteSays ==
    ASSUME IInv, NEW kid \in 1..Len(kids), Note(Value(kid), kid), Contribution(call, kid) = Value(kid)
    PROVE  /\ seen' = seen \cup {d \in Tracked : Says(kid, d)}
           /\ alg \in Rule3Algs \cup Policy3Algs =>
                 \A s \in Indeterminates : first'[s] = first[s] \/ (first'[s] = kid /\ Value(kid) = s)
    <1>1. /\ Value(kid) \in Decisions /\ "MatchError" \notin Decisions
          /\ loop.errors \subseteq Indeterminates /\ first \in [Indeterminates -> 0..i]
        <2>1. call \in Calls
            BY DEF IInv, PlaceInv
        <2> QED BY <2>1, ValueFacts, CallFacts, LoopFacts
                DEF loop, IInv, TypeOK, Decisions, Effects, Indeterminates, Permit, Deny, NotApplicable
    <1>2. \A d : Says(kid, d) <=> Value(kid) = d
        BY <1>1 DEF Says
    <1>3. {d \in Tracked : Says(kid, d)} = {Value(kid)} \cap Tracked
        BY <1>2
    <1>4. CASE Value(kid) = loop.gathers
        BY <1>3, <1>4 DEF Note, Tracked
    <1>5. CASE Value(kid) # loop.gathers /\ Value(kid) \in loop.errors
        <2>1. NoteError(Value(kid), kid)
            BY <1>5 DEF Note
        <2>2. seen' = seen \cup {d \in Tracked : Says(kid, d)}
            BY <1>3, <1>5, <2>1 DEF NoteError, Tracked
        <2>3. ASSUME alg \in Rule3Algs \cup Policy3Algs
              PROVE  \A s \in Indeterminates : first'[s] = first[s] \/ (first'[s] = kid /\ Value(kid) = s)
            <3>1. Slot(Value(kid)) = Value(kid)
                BY <2>3 DEF Slot, Rule3Algs, Policy3Algs
            <3> QED BY <1>1, <2>1, <3>1 DEF NoteError
        <2> QED BY <2>2, <2>3
    <1>6. CASE Value(kid) # loop.gathers /\ Value(kid) \notin loop.errors
        <2>1. UNCHANGED <<seen, first>>
            BY <1>6 DEF Note
        <2> QED BY <1>3, <1>6, <2>1 DEF Tracked
    <1> QED BY <1>4, <1>5, <1>6

\* The children before child kid have nothing to say to first-applicable.
LEMMA FirstSoFar ==
    ASSUME IInv, HeardInv, Looping, alg \in {"FirstApplicableRule", "FirstApplicablePolicy"}
    PROVE  \A k \in 1..Processed : k \in 1..Len(kids) => FirstReply(call, k) = NotApplicable
    <1>1. call \in Calls
        BY DEF IInv, PlaceInv
    <1>2. loop.returns = Decisions \ {NotApplicable} /\ loop.onMatchError \notin {"skip", "note"}
        BY DEF loop, LoopOf, FirstApplicableRuleLoop, FirstApplicablePolicyLoop, Loop
    <1> SUFFICES ASSUME NEW k \in 1..Processed, k \in 1..Len(kids) PROVE FirstReply(call, k) = NotApplicable
        OBVIOUS
    <1>3. Passes(k)
        BY DEF HeardInv
    <1>4. /\ Value(k) \in Decisions
          /\ Contribution(call, k) = IF alg \in MatchingAlgs /\ kids[k].target = "Error" THEN "MatchError" ELSE Value(k)
          /\ call.alg = alg /\ call.kids = kids
        BY <1>1, ValueFacts, ProperCallFacts
    <1>5. Contribution(call, k) = NotApplicable
        BY <1>2, <1>3, <1>4 DEF Passes
    <1>6. CASE alg = "FirstApplicableRule"
        BY <1>4, <1>5, <1>6 DEF FirstReply, Contribution, RuleAlgs
    <1>7. CASE alg = "FirstApplicablePolicy"
        <2>1. kids[k].target # "none" /\ kids[k].target # "Error"
            BY <1>2, <1>3, <1>4, <1>7 DEF Passes, MatchingAlgs
        <2>2. Contribution(call, k) = PolicyValue(kids[k])
            BY <1>4, <1>7 DEF Contribution, RuleAlgs, MatchingAlgs
        <2> QED BY <1>4, <1>5, <1>7, <2>1, <2>2 DEF FirstReply
    <1> QED BY <1>6, <1>7

\* A decision that ends a loop is promised.
LEMMA ReturnsPromised ==
    ASSUME IInv, HeardInv, Looping, pc # "target", NEW kid \in 1..Len(kids), kid = Processed + 1,
           alg \in MatchingAlgs => kids[kid].target = "Match"
    PROVE  /\ Value(kid) \in loop.returns => Value(kid) \in Promise(call)
           /\ alg = "DenyOverridesPolicy2" /\ Value(kid) \in Indeterminates => Deny \in Promise(call)
    <1>1. call \in Calls /\ call.target \in {"none", "Match"} /\ Processed \in Nat
        BY CallFacts DEF IInv, TypeOK, PlaceInv, HeardInv, Processed
    <1>2. /\ call \in CallRecords /\ ProperCall(call) /\ call.alg = alg /\ call.kids = kids
          /\ DOMAIN kids = 1..Len(kids) /\ Len(kids) \in Nat
          /\ Contribution(call, kid) = Value(kid) /\ alg \in Algs
        BY <1>1, ProperCallFacts, CallFacts
    <1>3. alg = "DenyOverridesPolicy2" /\ Value(kid) \in Indeterminates => Deny \in Promise(call)
        BY <1>1, <1>2, StopsAtAnswers DEF MatchingAlgs
    <1>4. ASSUME Value(kid) \in loop.returns PROVE Value(kid) \in Promise(call)
        <2>1. CASE alg \in {"FirstApplicableRule", "FirstApplicablePolicy"}
            <3>1. loop.returns = Decisions \ {NotApplicable}
                BY <2>1 DEF loop, LoopOf, FirstApplicableRuleLoop, FirstApplicablePolicyLoop, Loop
            <3>2. FirstReply(call, kid) = Value(kid)
                BY <1>2, <2>1 DEF FirstReply, Contribution, RuleAlgs, MatchingAlgs
            <3>3. kid - 1 = Processed
                BY <1>1
            <3>4. \A j \in 1..kid - 1 : FirstReply(call, j) = NotApplicable
                <4>1. \A j \in 1..kid - 1 : j \in 1..Processed /\ j \in 1..Len(kids)
                    BY <1>2, <3>3
                <4> QED BY <2>1, <4>1, FirstSoFar
            <3>5. PromiseFirst(call) = Value(kid)
                BY <1>2, <1>4, <3>1, <3>2, <3>4, PromiseFirstFacts
            <3>6. Promise(call) = {PromiseFirst(call)}
                BY <1>1, <1>2, <2>1, PromiseFacts DEF StoppingAlgs, Verdicts, MatchingAlgs
            <3> QED BY <3>5, <3>6
        <2>2. CASE alg \notin {"FirstApplicableRule", "FirstApplicablePolicy"}
            <3>1. \/ /\ alg \in {"DenyOverridesRule2", "DenyOverridesRule3", "DenyOverridesPolicy2",
                                 "DenyOverridesPolicy3", "PermitUnlessDenyRule", "PermitUnlessDenyPolicy"}
                     /\ Value(kid) = Deny
                  \/ /\ alg \in {"PermitOverridesRule2", "PermitOverridesRule3", "PermitOverridesPolicy2",
                                 "PermitOverridesPolicy3", "DenyUnlessPermitRule", "DenyUnlessPermitPolicy"}
                     /\ Value(kid) = Permit
                <4>1. loop = LoopOf[alg] /\ alg \in Algs
                    BY <1>2 DEF loop
                <4> HIDE DEF loop
                <4> QED BY <1>4, <2>2, <4>1
                        DEF Algs, RuleAlgs, UnlessPolicyAlgs, MatchingAlgs, LoopOf, Loop,
                            DenyOverridesRule2Loop, DenyOverridesRule3Loop, DenyOverridesPolicy2Loop,
                            DenyOverridesPolicy3Loop, PermitUnlessDenyRuleLoop, PermitUnlessDenyPolicyLoop,
                            PermitOverridesRule2Loop, PermitOverridesRule3Loop, PermitOverridesPolicy2Loop,
                            PermitOverridesPolicy3Loop, DenyUnlessPermitRuleLoop, DenyUnlessPermitPolicyLoop,
                            OnlyOneApplicableLoop
            <3>2. kid \in DOMAIN call.kids /\ (call.alg \in MatchingAlgs => call.kids[kid].target # "none")
                BY <1>2
            <3> QED BY <1>1, <1>2, <3>1, <3>2, StopsAtAnswers
        <2> QED BY <2>1, <2>2
    <1> QED BY <1>3, <1>4

LEMMA InitHeard == Init => HeardInv /\ AnswerInv
    <1> SUFFICES ASSUME Init PROVE HeardInv /\ AnswerInv
        OBVIOUS
    <1>1. pc = "target" /\ Processed = 0 /\ seen = {} /\ potential = FALSE /\ selected = 0
          /\ \A s \in Indeterminates : first[s] = 0
        BY DEF Init, Processed
    <1>2. 1..0 = {}
        OBVIOUS
    <1> QED BY <1>1, <1>2 DEF HeardInv, AnswerInv

LEMMA TargetHeard ==
    ASSUME IInv, HeardInv, CheckTarget
    PROVE  HeardInv' /\ AnswerInv'
    <1>1. CASE call.target \in {"none", "Match"}
        <2>1. /\ pc = "target" /\ pc' = "iterate" /\ i = 0
              /\ UNCHANGED <<call, i, seen, first, potential, obligations, selected, result>>
            BY <1>1 DEF CheckTarget, IInv, PlaceInv
        <2>2. /\ alg' = alg /\ kids' = kids /\ loop' = loop /\ call' = call
              /\ \A k : Value(k)' = Value(k)
            BY <2>1, CallConstant
        <2>3. /\ \A k : Passes(k)' = Passes(k)
              /\ \A k, d : Says(k, d)' = Says(k, d)
              /\ \A k : Potent(k)' = Potent(k)
              /\ Tracked' = Tracked
            BY <2>2 DEF Passes, Says, Potent, Tracked
        <2>4. Processed = 0 /\ Processed' = 0 /\ Looping
            BY <2>1 DEF Processed, Looping
        <2>5. AnswerInv'
            BY <2>1 DEF AnswerInv
        <2> QED BY <1>1, <2>1, <2>2, <2>3, <2>4, <2>5 DEF HeardInv
    <1>2. CASE call.target \in {"NoMatch", "Error"}
        BY <1>2 DEF CheckTarget, HeardInv, AnswerInv, Looping
    <1> QED BY <1>1, <1>2 DEF CheckTarget

\* A return ends the loop with a promised answer.
LEMMA ReturnHeard ==
    ASSUME NEW r, Return(r), r.decision \in Promise(call), UNCHANGED call
    PROVE  HeardInv' /\ AnswerInv'
    BY DEF Return, HeardInv, AnswerInv, Looping

LEMMA MadeResults ==
    /\ \A d, k : Fresh(d, k).decision = d
    /\ \A d : Gathered(d).decision = d
    /\ \A d, k : Passed(d, k).decision = d
    BY DEF Fresh, Gathered, Passed

LEMMA RuleHeard ==
    ASSUME IInv, HeardInv, EvaluateRule
    PROVE  HeardInv' /\ AnswerInv'
    <1> DEFINE kid == i + 1
    <1>1. /\ call \in Calls /\ potential \in BOOLEAN /\ i \in Nat /\ Len(kids) \in Nat
          /\ pc = "iterate" /\ Looping /\ kid = Processed + 1 /\ kid \in 1..Len(kids)
          /\ alg \in RuleAlgs /\ alg \notin MatchingAlgs
        BY CallFacts DEF IInv, TypeOK, PlaceInv, EvaluateRule, Looping, Processed, RuleAlgs, MatchingAlgs
    <1>2. Value(kid) = RuleEvaluate(kids[kid]) /\ i' = kid /\ UNCHANGED <<call, selected>>
        BY DEF EvaluateRule, Value
    <1>3. CASE Value(kid) \in loop.returns
        <2>1. Return(Passed(Value(kid), kid))
            BY <1>2, <1>3 DEF EvaluateRule
        <2>2. Value(kid) \in Promise(call)
            BY <1>1, <1>3, ReturnsPromised
        <2> QED BY <1>2, <2>1, <2>2, ReturnHeard, MadeResults
    <1>4. CASE Value(kid) \notin loop.returns
        <2>1. /\ Note(Value(kid), kid) /\ UNCHANGED <<pc, result>>
              /\ potential' = (potential \/ Potent(kid))
            BY <1>2, <1>4 DEF EvaluateRule, Potent, Rule2Algs
        <2>2. Value(kid) \in Decisions /\ Contribution(call, kid) = Value(kid)
            BY <1>1, ValueFacts, ProperCallFacts
        <2>3. Passes(kid)
            <3>1. Value(kid) # "MatchError" /\ alg # "DenyOverridesPolicy2"
                BY <1>1, <2>2 DEF Decisions, Effects, Indeterminates, Permit, Deny, NotApplicable, RuleAlgs
            <3> QED BY <1>1, <1>4, <2>2, <3>1 DEF Passes
        <2>4. /\ seen' = seen \cup {d \in Tracked : Says(kid, d)}
              /\ alg \in Rule3Algs \cup Policy3Algs =>
                     \A s \in Indeterminates : first'[s] = first[s] \/ (first'[s] = kid /\ Value(kid) = s)
            BY <1>1, <2>1, <2>2, NoteSays
        <2>5. alg # "OnlyOneApplicable" /\ pc' = "iterate" /\ pc # "target"
            BY <1>1, <2>1 DEF RuleAlgs
        <2>6. HeardInv'
            BY <1>1, <1>2, <2>1, <2>3, <2>4, <2>5, HeardKept
        <2> QED BY <2>5, <2>6 DEF AnswerInv
    <1> QED BY <1>3, <1>4

LEMMA WeighHeard ==
    ASSUME IInv, HeardInv, Looping, pc # "target", alg \notin RuleAlgs, alg # "OnlyOneApplicable",
           NEW kid \in 1..Len(kids), kid = Processed + 1, alg \in MatchingAlgs => kids[kid].target = "Match",
           i' = kid, UNCHANGED <<call, potential, selected>>, Weigh(Value(kid), kid)
    PROVE  HeardInv' /\ AnswerInv'
    <1>1. call \in Calls /\ potential \in BOOLEAN
        BY DEF IInv, PlaceInv, TypeOK
    <1>2. CASE Value(kid) \in loop.returns /\ Return(Passed(Value(kid), kid))
        <2>1. Value(kid) \in Promise(call)
            BY <1>2, ReturnsPromised
        <2> QED BY <1>2, <2>1, ReturnHeard, MadeResults
    <1>3. CASE alg = "DenyOverridesPolicy2" /\ Value(kid) \in Indeterminates /\ Return(Fresh(Deny, 0))
        <2>1. Deny \in Promise(call)
            BY <1>3, ReturnsPromised
        <2> QED BY <1>3, <2>1, ReturnHeard, MadeResults
    <1>4. CASE /\ Value(kid) \notin loop.returns
               /\ ~(alg = "DenyOverridesPolicy2" /\ Value(kid) \in Indeterminates)
               /\ Note(Value(kid), kid) /\ pc' = "iterate"
        <2>1. Value(kid) \in Decisions /\ Contribution(call, kid) = Value(kid)
            BY <1>1, ValueFacts, ProperCallFacts
        <2>2. Passes(kid)
            <3>1. Value(kid) # "MatchError"
                BY <2>1 DEF Decisions, Effects, Indeterminates, Permit, Deny, NotApplicable
            <3> QED BY <1>4, <2>1, <3>1 DEF Passes
        <2>3. /\ seen' = seen \cup {d \in Tracked : Says(kid, d)}
              /\ alg \in Rule3Algs \cup Policy3Algs =>
                     \A s \in Indeterminates : first'[s] = first[s] \/ (first'[s] = kid /\ Value(kid) = s)
            BY <1>4, <2>1, NoteSays
        <2>4. potential' = (potential \/ Potent(kid))
            <3>1. ~Potent(kid)
                BY DEF Potent, Rule2Algs, RuleAlgs
            <3> QED BY <1>1, <3>1
        <2>5. HeardInv'
            BY <1>4, <2>2, <2>3, <2>4, HeardKept
        <2> QED BY <1>4, <2>5 DEF AnswerInv
    <1> QED BY <1>2, <1>3, <1>4 DEF Weigh

LEMMA UnmatchedHeard ==
    ASSUME IInv, HeardInv, EvaluateUnmatched
    PROVE  HeardInv' /\ AnswerInv'
    <1>1. /\ Looping /\ pc # "target" /\ alg \notin RuleAlgs /\ alg \notin MatchingAlgs /\ alg # "OnlyOneApplicable"
          /\ i + 1 = Processed + 1 /\ i + 1 \in 1..Len(kids)
        BY CallFacts DEF IInv, TypeOK, PlaceInv, EvaluateUnmatched, Looping, Processed, RuleAlgs, UnlessPolicyAlgs, MatchingAlgs
    <1>2. Value(i + 1) = PolicyEvaluate(kids[i + 1])
        BY <1>1 DEF Value
    <1> QED BY <1>1, <1>2, WeighHeard DEF EvaluateUnmatched

LEMMA MatchedHeard ==
    ASSUME IInv, HeardInv, EvaluateMatched
    PROVE  HeardInv' /\ AnswerInv'
    <1>1. /\ Looping /\ pc # "target" /\ alg \notin RuleAlgs /\ i = Processed + 1 /\ i \in 1..Len(kids)
        BY CallFacts DEF IInv, TypeOK, PlaceInv, EvaluateMatched, Looping, Processed, RuleAlgs, MatchingAlgs
    <1>2. alg # "OnlyOneApplicable" /\ kids[i].target = "Match"
        BY <1>1 DEF HeardInv, EvaluateMatched
    <1>3. Value(i) = PolicyEvaluate(kids[i])
        BY <1>1 DEF Value
    <1> QED BY <1>1, <1>2, <1>3, WeighHeard DEF EvaluateMatched

LEMMA MatchHeard ==
    ASSUME IInv, HeardInv, MatchPolicy
    PROVE  HeardInv' /\ AnswerInv'
    <1> DEFINE kid == i + 1
    <1>1. /\ call \in Calls /\ potential \in BOOLEAN /\ i \in Nat /\ Len(kids) \in Nat
          /\ pc = "iterate" /\ Looping /\ kid = Processed + 1 /\ kid \in 1..Len(kids)
          /\ alg \in MatchingAlgs /\ alg \notin RuleAlgs /\ alg \notin Rule3Algs /\ i' = kid /\ Processed \in Nat
          /\ UNCHANGED <<call, potential, obligations>>
        BY CallFacts DEF IInv, TypeOK, PlaceInv, MatchPolicy, Looping, Processed, RuleAlgs, MatchingAlgs, Rule3Algs
    <1>2. /\ loop.errors \subseteq Indeterminates /\ loop.gathers \in {Permit, Deny, "none"}
          /\ NotApplicable \notin loop.returns
          /\ loop.onMatchError = "note" => alg = "PermitOverridesPolicy2"
        BY <1>1, CallFacts, LoopFacts DEF loop
    <1>3. /\ call.target \in {"none", "Match"} /\ call \in CallRecords /\ ProperCall(call)
          /\ call.alg = alg /\ call.kids = kids /\ DOMAIN kids = 1..Len(kids) /\ alg \in Algs
          /\ Value(kid) \in Decisions
          /\ Contribution(call, kid) = IF kids[kid].target = "Error" THEN "MatchError" ELSE Value(kid)
        BY <1>1, ProperCallFacts, ValueFacts, CallFacts DEF HeardInv
    <1>4. potential' = (potential \/ Potent(kid)) /\ ~Potent(kid)
        BY <1>1 DEF Potent, Rule2Algs, RuleAlgs
    <1>5. /\ "MatchError" \notin Decisions /\ "MatchError" \notin Tracked /\ NotApplicable \notin Tracked
          /\ "MatchError" \notin loop.returns
        <2>1. "MatchError" \notin Decisions /\ "MatchError" \notin Indeterminates /\ NotApplicable \notin Indeterminates
            BY DEF Decisions, Effects, Indeterminates, Permit, Deny, NotApplicable
        <2>2. loop.returns \subseteq Decisions
            BY <1>3, LoopFacts DEF loop
        <2> QED BY <1>2, <2>1, <2>2 DEF Tracked, Permit, Deny, NotApplicable
    <1> HIDE DEF kid
    \* The loop goes on behind a child that says nothing to it.
    <1>6. ASSUME Passes(kid), {d \in Tracked : Says(kid, d)} = {}, UNCHANGED <<pc, seen, first>>,
                 alg = "OnlyOneApplicable" =>
                     \/ kids[kid].target # "Match" /\ selected' = selected
                     \/ kids[kid].target = "Match" /\ selected = 0 /\ selected' = kid
          PROVE  HeardInv' /\ AnswerInv'
        <2>1. seen' = seen \cup {d \in Tracked : Says(kid, d)} /\ pc' = "iterate"
            BY <1>1, <1>6
        <2>2. HeardInv'
            BY <1>1, <1>4, <1>6, <2>1, HeardKept
        <2> QED BY <2>1, <2>2 DEF AnswerInv
    <1>7. CASE kids[kid].target = "none" /\ Throw
        BY <1>7 DEF Throw, HeardInv, AnswerInv, Looping
    <1>8. CASE kids[kid].target = "NoMatch" /\ UNCHANGED <<pc, result, seen, first, selected>>
        <2>1. Contribution(call, kid) = NotApplicable
            BY <1>1, <1>3, <1>8, ValueFacts
        <2>2. Passes(kid)
            BY <1>2, <1>8, <2>1 DEF Passes, NotApplicable, Indeterminates
        <2>3. {d \in Tracked : Says(kid, d)} = {}
            BY <1>5, <2>1 DEF Says, NotApplicable
        <2> QED BY <1>6, <1>8, <2>2, <2>3
    <1>9. CASE kids[kid].target = "Error" /\ MatchError(kid) /\ UNCHANGED selected
        <2>1. Contribution(call, kid) = "MatchError"
            BY <1>3, <1>9
        <2>2. kid \in DOMAIN call.kids /\ call.kids[kid].target # "none"
            BY <1>1, <1>3, <1>9
        <2>3. \A e : loop.onMatchError = e => LoopOf[alg].onMatchError = e
            BY DEF loop
        <2>4. CASE loop.onMatchError = "deny" /\ Return(Fresh(Deny, 0))
            <3>1. alg \in {"DenyOverridesPolicy2", "DenyOverridesPolicy3"}
                BY <1>1, <2>3, <2>4 DEF LoopOf, Loop, MatchingAlgs, DenyOverridesPolicy2Loop, DenyOverridesPolicy3Loop,
                    PermitOverridesPolicy2Loop, PermitOverridesPolicy3Loop, FirstApplicablePolicyLoop, OnlyOneApplicableLoop
            <3>2. Deny \in Promise(call)
                BY <1>3, <2>1, <2>2, <3>1, StopsAtAnswers
            <3> QED BY <1>1, <2>4, <3>2, ReturnHeard, MadeResults
        <2>5. CASE loop.onMatchError = "fail" /\ Return(Fresh("Indeterminate", kid))
            <3>1. alg \in {"FirstApplicablePolicy", "OnlyOneApplicable"}
                BY <1>1, <2>3, <2>5 DEF LoopOf, Loop, MatchingAlgs, DenyOverridesPolicy2Loop, DenyOverridesPolicy3Loop,
                    PermitOverridesPolicy2Loop, PermitOverridesPolicy3Loop, FirstApplicablePolicyLoop, OnlyOneApplicableLoop
            <3>2. CASE alg = "OnlyOneApplicable"
                <4>1. "Indeterminate" \in Promise(call)
                    BY <1>3, <1>9, <2>2, <3>2, StopsAtAnswers
                <4> QED BY <1>1, <2>5, <4>1, ReturnHeard, MadeResults
            <3>3. CASE alg = "FirstApplicablePolicy"
                <4>1. FirstReply(call, kid) = "Indeterminate" /\ "Indeterminate" # NotApplicable
                    BY <1>3, <1>9, <3>3 DEF FirstReply, NotApplicable
                <4>2. kid - 1 = Processed
                    <5> DEFINE p == Processed
                    <5>1. p \in Nat /\ kid = p + 1
                        BY <1>1
                    <5> HIDE DEF p
                    <5>2. kid - 1 = p
                        BY <5>1
                    <5> QED BY <5>2 DEF p
                <4>3. \A j \in 1..kid - 1 : j \in 1..Processed /\ j \in 1..Len(kids)
                    BY <1>1, <4>2
                <4>4. \A j \in 1..kid - 1 : FirstReply(call, j) = NotApplicable
                    BY <1>1, <3>3, <4>3, FirstSoFar
                <4>5. PromiseFirst(call) = "Indeterminate"
                    BY <1>1, <1>3, <4>1, <4>4, PromiseFirstFacts
                <4>6. Promise(call) = {PromiseFirst(call)}
                    BY <1>3, <3>3, PromiseFacts DEF StoppingAlgs, Verdicts, MatchingAlgs
                <4> QED BY <1>1, <2>5, <4>5, <4>6, ReturnHeard, MadeResults
            <3> QED BY <3>1, <3>2, <3>3
        <2>6. CASE loop.onMatchError = "note" /\ NoteError("Indeterminate", kid) /\ UNCHANGED <<pc, result>>
            <3>1. alg = "PermitOverridesPolicy2" /\ "Indeterminate" \in Tracked
                <4>1. alg = "PermitOverridesPolicy2"
                    BY <1>2, <2>6
                <4> QED BY <4>1 DEF loop, LoopOf, PermitOverridesPolicy2Loop, Loop, Tracked, Indeterminates
            <3>2. {d \in Tracked : Says(kid, d)} = {"Indeterminate"}
                BY <1>5, <2>1, <2>6, <3>1 DEF Says
            <3>3. seen' = seen \cup {d \in Tracked : Says(kid, d)}
                BY <2>6, <3>2 DEF NoteError
            <3>4. Passes(kid)
                BY <1>5, <1>9, <2>1, <2>6, <3>1 DEF Passes
            <3>5. alg \notin Rule3Algs \cup Policy3Algs /\ pc' = "iterate" /\ pc # "target" /\ alg # "OnlyOneApplicable"
                BY <1>1, <2>6, <3>1 DEF Rule3Algs, Policy3Algs
            <3>6. HeardInv'
                BY <1>1, <1>4, <3>3, <3>4, <3>5, HeardKept
            <3> QED BY <3>5, <3>6 DEF AnswerInv
        <2>7. CASE loop.onMatchError = "skip" /\ UNCHANGED <<pc, result, seen, first>>
            <3>1. Passes(kid)
                <4>1. alg # "DenyOverridesPolicy2"
                    BY <2>7 DEF loop, LoopOf, DenyOverridesPolicy2Loop, Loop
                <4> QED BY <1>5, <1>9, <2>1, <2>7, <4>1 DEF Passes
            <3>2. {d \in Tracked : Says(kid, d)} = {}
                BY <1>5, <2>1, <2>7 DEF Says
            <3> QED BY <1>6, <1>9, <2>7, <3>1, <3>2
        <2> QED BY <1>9, <2>4, <2>5, <2>6, <2>7 DEF MatchError
    <1>10. CASE kids[kid].target = "Match" /\ Matched(kid) /\ UNCHANGED <<seen, first>>
        <2>1. CASE alg # "OnlyOneApplicable" /\ pc' = "evaluate" /\ UNCHANGED <<result, selected>>
            <3>1. /\ alg' = alg /\ kids' = kids /\ loop' = loop /\ call' = call
                  /\ \A k : Value(k)' = Value(k)
                BY <1>1, CallConstant
            <3>2. /\ \A k : Passes(k)' = Passes(k)
                  /\ \A k, d : Says(k, d)' = Says(k, d)
                  /\ \A k : Potent(k)' = Potent(k)
                  /\ Tracked' = Tracked
                BY <3>1 DEF Passes, Says, Potent, Tracked
            <3>3. Processed' = Processed
                BY <1>1, <2>1 DEF Processed
            <3>4. kids[i'].target = "Match"
                BY <1>1, <1>10
            <3> QED BY <1>1, <1>3, <1>10, <2>1, <3>1, <3>2, <3>3, <3>4 DEF HeardInv, AnswerInv
        <2>2. CASE alg = "OnlyOneApplicable" /\ selected # 0 /\ Return(Fresh("Indeterminate", kid))
            <3>1. selected \in 1..Processed /\ kids[selected].target = "Match"
                BY <1>1, <2>2 DEF HeardInv
            <3>2. selected \in DOMAIN call.kids \ {kid} /\ kid \in DOMAIN call.kids
                <4> DEFINE p == Processed
                <4>1. p \in Nat /\ kid = p + 1 /\ kid \in 1..Len(kids) /\ Len(kids) \in Nat /\ selected \in 1..p
                    BY <1>1, <3>1
                <4> HIDE DEF p
                <4>2. selected # kid /\ selected \in 1..Len(kids)
                    BY <4>1
                <4> QED BY <1>1, <1>3, <4>2
            <3>3. "Indeterminate" \in Promise(call)
                BY <1>3, <1>10, <2>2, <3>1, <3>2, StopsAtAnswers
            <3> QED BY <1>1, <2>2, <3>3, ReturnHeard, MadeResults
        <2>3. CASE alg = "OnlyOneApplicable" /\ selected = 0 /\ selected' = kid /\ UNCHANGED <<pc, result>>
            <3>1. loop.returns = {} /\ loop.errors = {} /\ loop.gathers = "none"
                BY <2>3 DEF loop, LoopOf, OnlyOneApplicableLoop, Loop
            <3>2. Contribution(call, kid) \in Decisions
                BY <1>3, <1>10
            <3>3. Passes(kid)
                BY <1>5, <1>10, <2>3, <3>1, <3>2 DEF Passes
            <3>4. {d \in Tracked : Says(kid, d)} = {}
                BY <1>5, <3>1, <3>2 DEF Says, Tracked, Decisions, Effects, Indeterminates, Permit, Deny, NotApplicable
            <3> QED BY <1>6, <1>10, <2>3, <3>3, <3>4
        <2> QED BY <1>10, <2>1, <2>2, <2>3 DEF Matched
    <1> QED BY <1>7, <1>8, <1>9, <1>10 DEF MatchPolicy, kid

\* Behind the last child: the flags say what the children said, and nothing
\* they said would have ended the loop.
LEMMA AllHeard ==
    ASSUME IInv, HeardInv, pc = "iterate", i = Len(kids), NEW values, values = Contributions(call)
    PROVE  /\ call \in CallRecords /\ ProperCall(call) /\ call.alg = alg
           /\ Promise(call) = Verdicts(call)
           /\ values \cap loop.returns = {}
           /\ seen \subseteq Tracked
           /\ \A d \in Tracked : d \in values => Has(d)
           /\ \A d \in Tracked : Has(d) =>
                 \/ d \in values
                 \/ loop.onMatchError = "note" /\ d = "Indeterminate" /\ "MatchError" \in values
           /\ "MatchError" \in values => loop.onMatchError \in {"skip", "note"}
           /\ "MatchError" \in values /\ loop.onMatchError = "note" /\ "Indeterminate" \in Tracked
                 => Has("Indeterminate")
           /\ alg = "DenyOverridesPolicy2" => values \cap Indeterminates = {}
           /\ alg \in Rule3Algs \cup Policy3Algs =>
                 \A s \in Indeterminates : Has(s) => FirstResult(s).decision = s
    <1>1. /\ call \in Calls /\ Looping /\ Processed = Len(kids)
          /\ call.target \in {"none", "Match"} /\ i \in 0..Len(kids) /\ first \in [Indeterminates -> 0..i]
        BY DEF IInv, TypeOK, PlaceInv, HeardInv, Looping, Processed
    <1>2. /\ call \in CallRecords /\ ProperCall(call) /\ call.alg = alg /\ call.kids = kids
          /\ DOMAIN kids = 1..Len(kids) /\ Len(kids) \in Nat
        BY <1>1, ProperCallFacts
    <1>3. values = {Contribution(call, k) : k \in 1..Len(kids)}
        BY <1>2 DEF Contributions
    <1>4. /\ \A k \in 1..Len(kids) : Passes(k)
          /\ seen = {d \in Tracked : \E k \in 1..Len(kids) : Says(k, d)}
        BY <1>1 DEF HeardInv
    <1>5. Promise(call) = Verdicts(call)
        <2>1. alg \in MatchingAlgs => \A k \in DOMAIN call.kids : call.kids[k].target # "none"
            BY <1>2, <1>4 DEF Passes
        <2> QED BY <1>1, <1>2, <2>1, PromiseFacts DEF StoppingAlgs
    <1>6. /\ values \cap loop.returns = {}
          /\ "MatchError" \in values => loop.onMatchError \in {"skip", "note"}
          /\ alg = "DenyOverridesPolicy2" => values \cap Indeterminates = {}
        BY <1>3, <1>4 DEF Passes
    <1>7. /\ seen \subseteq Tracked
          /\ \A d \in Tracked : d \in values => Has(d)
          /\ \A d \in Tracked : Has(d) =>
                \/ d \in values
                \/ loop.onMatchError = "note" /\ d = "Indeterminate" /\ "MatchError" \in values
          /\ "MatchError" \in values /\ loop.onMatchError = "note" /\ "Indeterminate" \in Tracked
                => Has("Indeterminate")
        BY <1>3, <1>4 DEF Says, Has
    <1>8. ASSUME alg \in Rule3Algs \cup Policy3Algs, NEW s \in Indeterminates, Has(s)
          PROVE  FirstResult(s).decision = s
        <2>1. Slot(s) = s
            BY <1>8 DEF Slot, Rule3Algs, Policy3Algs
        <2>2. first[s] # 0
            BY <1>8, <2>1 DEF IInv, ErrorInv, Has
        <2>3. Value(first[s]) = s
            BY <1>1, <1>8, <2>2 DEF HeardInv
        <2> QED BY <1>1, <2>2, <2>3, FirstResultFacts
    <1> QED BY <1>2, <1>5, <1>6, <1>7, <1>8

\* The answers behind the loop of the xacml3 overrides algorithms.
LEMMA Tails3Promised ==
    ASSUME IInv, HeardInv, pc = "iterate", i = Len(kids)
    PROVE  /\ alg = "DenyOverridesRule3" => DenyOverridesRule3Tail.decision \in Promise(call)
           /\ alg = "PermitOverridesRule3" => PermitOverridesRule3Tail.decision \in Promise(call)
           /\ alg = "DenyOverridesPolicy3" => DenyOverridesPolicy3Tail.decision \in Promise(call)
           /\ alg = "PermitOverridesPolicy3" => PermitOverridesPolicy3Tail.decision \in Promise(call)
    <1> DEFINE values == Contributions(call)
    <1> SUFFICES ASSUME alg \in Rule3Algs \cup Policy3Algs
                 PROVE  /\ alg = "DenyOverridesRule3" => DenyOverridesRule3Tail.decision \in Promise(call)
                        /\ alg = "PermitOverridesRule3" => PermitOverridesRule3Tail.decision \in Promise(call)
                        /\ alg = "DenyOverridesPolicy3" => DenyOverridesPolicy3Tail.decision \in Promise(call)
                        /\ alg = "PermitOverridesPolicy3" => PermitOverridesPolicy3Tail.decision \in Promise(call)
        BY DEF Rule3Algs, Policy3Algs
    <1>1. /\ ProperCall(call) /\ call.alg = alg /\ Promise(call) = Verdicts(call)
          /\ values \cap loop.returns = {} /\ seen \subseteq Tracked
          /\ \A d \in Tracked : d \in values => Has(d)
          /\ \A d \in Tracked : Has(d) =>
                d \in values \/ (loop.onMatchError = "note" /\ d = "Indeterminate" /\ "MatchError" \in values)
          /\ "MatchError" \in values => loop.onMatchError \in {"skip", "note"}
          /\ \A s \in Indeterminates : Has(s) => FirstResult(s).decision = s
        BY AllHeard
    <1>2. /\ call.alg = "DenyOverridesRule3" => Promise3(call) = DenyRules3(values)
          /\ call.alg = "DenyOverridesPolicy3" => Promise3(call) = DenyPolicies3(values)
          /\ call.alg \in {"PermitOverridesRule3", "PermitOverridesPolicy3"} => Promise3(call) = PermitOverrides3(values)
        BY <1>1, Promise3Facts
    <1>3. Verdicts(call) = {Promise3(call)}
        BY <1>1 DEF Verdicts, Rule3Algs, Policy3Algs
    <1>4. call \in Calls
        BY DEF IInv, PlaceInv
    <1>5. alg \in Rule3Algs => "IndeterminateDP" \notin values
        BY <1>1, ContributionsFacts DEF Rule3Algs, RuleAlgs
    <1> HIDE DEF values
    <1> USE DEF Permit, Deny, Indeterminates
    <1>6. ASSUME alg = "DenyOverridesRule3" PROVE DenyOverridesRule3Tail.decision = DenyRules3(values)
        <2>1. /\ loop.returns = {Deny} /\ loop.onMatchError = "none"
              /\ Tracked = {Permit, "IndeterminateD", "IndeterminateP"}
            BY <1>6 DEF loop, LoopOf, DenyOverridesRule3Loop, Loop, Tracked
        <2>2. \A d \in {Permit, "IndeterminateD", "IndeterminateP"} : Has(d) <=> d \in values
            BY <1>1, <2>1
        <2> QED BY <1>1, <2>1, <2>2, MadeResults DEF DenyOverridesRule3Tail, DenyRules3
    <1>7. ASSUME alg = "PermitOverridesRule3" PROVE PermitOverridesRule3Tail.decision = PermitOverrides3(values)
        <2>1. /\ loop.returns = {Permit} /\ loop.onMatchError = "none"
              /\ Tracked = {Deny, "IndeterminateD", "IndeterminateP"}
            BY <1>7 DEF loop, LoopOf, PermitOverridesRule3Loop, Loop, Tracked
        <2>2. \A d \in {Deny, "IndeterminateD", "IndeterminateP"} : Has(d) <=> d \in values
            BY <1>1, <2>1
        <2>3. "IndeterminateDP" \notin values
            BY <1>5, <1>7 DEF Rule3Algs
        <2> QED BY <1>1, <2>1, <2>2, <2>3, MadeResults DEF PermitOverridesRule3Tail, PermitOverrides3
    <1>8. ASSUME alg = "DenyOverridesPolicy3" PROVE DenyOverridesPolicy3Tail.decision = DenyPolicies3(values)
        <2>1. /\ loop.returns = {Deny} /\ loop.onMatchError = "deny"
              /\ Tracked = {Permit, "IndeterminateD", "IndeterminateP", "IndeterminateDP"}
            BY <1>8 DEF loop, LoopOf, DenyOverridesPolicy3Loop, Loop, Tracked
        <2>2. \A d \in {Permit, "IndeterminateD", "IndeterminateP", "IndeterminateDP"} : Has(d) <=> d \in values
            BY <1>1, <2>1
        <2> QED BY <1>1, <2>1, <2>2, MadeResults DEF DenyOverridesPolicy3Tail, DenyPolicies3
    <1>9. ASSUME alg = "PermitOverridesPolicy3" PROVE PermitOverridesPolicy3Tail.decision = PermitOverrides3(values)
        <2>1. /\ loop.returns = {Permit} /\ loop.onMatchError = "skip"
              /\ Tracked = {Deny, "IndeterminateD", "IndeterminateP", "IndeterminateDP"}
            BY <1>9 DEF loop, LoopOf, PermitOverridesPolicy3Loop, Loop, Tracked
        <2>2. \A d \in {Deny, "IndeterminateD", "IndeterminateP", "IndeterminateDP"} : Has(d) <=> d \in values
            BY <1>1, <2>1
        <2> QED BY <1>1, <2>1, <2>2, MadeResults DEF PermitOverridesPolicy3Tail, PermitOverrides3
    <1> QED BY <1>1, <1>2, <1>3, <1>6, <1>7, <1>8, <1>9

\* The answers behind the loop of the xacml2 overrides algorithms.
LEMMA Tails2Promised ==
    ASSUME IInv, HeardInv, pc = "iterate", i = Len(kids)
    PROVE  /\ alg = "DenyOverridesRule2" => DenyOverridesRule2Tail.decision \in Promise(call)
           /\ alg = "PermitOverridesRule2" => PermitOverridesRule2Tail.decision \in Promise(call)
           /\ alg = "DenyOverridesPolicy2" => DenyOverridesPolicy2Tail.decision \in Promise(call)
           /\ alg = "PermitOverridesPolicy2" => PermitOverridesPolicy2Tail.decision \in Promise(call)
    <1> DEFINE values == Contributions(call)
    <1>1. /\ ProperCall(call) /\ call.alg = alg /\ Promise(call) = Verdicts(call)
          /\ values \cap loop.returns = {} /\ seen \subseteq Tracked
          /\ \A d \in Tracked : d \in values => Has(d)
          /\ \A d \in Tracked : Has(d) =>
                d \in values \/ (loop.onMatchError = "note" /\ d = "Indeterminate" /\ "MatchError" \in values)
          /\ "MatchError" \in values => loop.onMatchError \in {"skip", "note"}
          /\ "MatchError" \in values /\ loop.onMatchError = "note" /\ "Indeterminate" \in Tracked => Has("Indeterminate")
          /\ alg = "DenyOverridesPolicy2" => values \cap Indeterminates = {}
        BY AllHeard
    <1>2. call \in Calls /\ Looping /\ Processed = Len(kids)
        BY DEF IInv, PlaceInv, Looping, Processed
    <1>3. /\ call.kids = kids /\ DOMAIN kids = 1..Len(kids) /\ Len(kids) \in Nat
          /\ \A k \in 1..Len(kids) :
                Contribution(call, k) = IF alg \in MatchingAlgs /\ kids[k].target = "Error" THEN "MatchError" ELSE Value(k)
        BY <1>2, ProperCallFacts
    <1>4. ASSUME alg \in Rule2Algs, potential \/ Failed
          PROVE  FirstResult("Indeterminate").decision \in values \cap Indeterminates
        <2>1. \A d : Slot(d) = "Indeterminate"
            BY <1>4 DEF Slot, Rule2Algs
        <2>2. first["Indeterminate"] # 0
            BY <1>4, <2>1 DEF IInv, ErrorInv, Failed
        <2>3. /\ i \in 0..Len(kids) /\ first \in [Indeterminates -> 0..i] /\ "Indeterminate" \in Indeterminates
            BY DEF IInv, TypeOK, Indeterminates
        <2> DEFINE k == first["Indeterminate"]
        <2>4. k \in 1..Len(kids)
            BY <1>3, <2>2, <2>3
        <2>5. Value(k) \in Indeterminates
            BY <1>4, <2>3, <2>4 DEF IInv, ErrorInv, CautiousAlgs, Rule2Algs
        <2>6. FirstResult("Indeterminate").decision = Value(k)
            BY <1>2, <2>2, <2>3, FirstResultFacts
        <2>7. alg \notin MatchingAlgs
            BY <1>4 DEF Rule2Algs, MatchingAlgs
        <2>8. Contribution(call, k) = Value(k)
            BY <1>3, <2>4, <2>7
        <2>9. Value(k) \in values
            BY <1>3, <2>4, <2>8 DEF Contributions
        <2> HIDE DEF k, values
        <2> QED BY <2>5, <2>6, <2>9
    <1>5. ASSUME alg \in Rule2Algs, NEW winner, loop.returns = {winner}
          PROVE  potential <=> MightWin(call, winner)
        <2>1. potential <=> \E k \in 1..Len(kids) : Potent(k)
            BY <1>2 DEF HeardInv
        <2>2. \A k : Value(k) = RuleEvaluate(kids[k])
            BY <1>5 DEF Value, Rule2Algs, RuleAlgs
        <2> QED BY <1>3, <1>5, <2>1, <2>2 DEF MightWin, Potent
    <1>6. ASSUME alg \in Rule2Algs, NEW winner \in Effects, loop.returns = {winner}, loop.gathers = Loser(winner),
                 winner = IF alg = "DenyOverridesRule2" THEN Deny ELSE Permit,
                 NEW tail, tail = IF potential THEN FirstResult("Indeterminate")
                                  ELSE IF Has(Loser(winner)) THEN Gathered(Loser(winner))
                                  ELSE IF Failed THEN FirstResult("Indeterminate") ELSE Fresh(NotApplicable, 0)
          PROVE  tail.decision \in Promise(call)
        <2>1. Verdicts(call) = PromiseRule2(call)
            BY <1>1, <1>6 DEF Verdicts, Rule2Algs
        <2>2. PromiseRule2(call) = Rules2(winner, MightWin(call, winner), values)
            BY <1>1, <1>6, PromiseRule2Facts
        <2>3. loop.errors = Indeterminates /\ loop.onMatchError = "none" /\ Loser(winner) \notin Indeterminates
            BY <1>6 DEF loop, LoopOf, DenyOverridesRule2Loop, PermitOverridesRule2Loop, Loop, Rule2Algs,
                        Loser, Permit, Deny, Indeterminates
        <2>4. winner \notin values /\ \A d \in Indeterminates \cup {Loser(winner)} : Has(d) <=> d \in values
            BY <1>1, <1>6, <2>3 DEF Tracked
        <2>5. Failed <=> values \cap Indeterminates # {}
            BY <2>4 DEF Failed, Has
        <2>6. potential <=> MightWin(call, winner)
            BY <1>5, <1>6
        <2> HIDE DEF values
        <2>7. potential \/ Failed => FirstResult("Indeterminate").decision \in values \cap Indeterminates
            BY <1>4, <1>6
        <2>8. CASE potential
            BY <1>1, <1>6, <2>1, <2>2, <2>4, <2>6, <2>7, <2>8 DEF Rules2
        <2>9. CASE ~potential /\ Has(Loser(winner))
            BY <1>1, <1>6, <2>1, <2>2, <2>4, <2>6, <2>9, MadeResults DEF Rules2
        <2>10. CASE ~potential /\ ~Has(Loser(winner))
            BY <1>1, <1>6, <2>1, <2>2, <2>4, <2>5, <2>6, <2>7, <2>10, MadeResults DEF Rules2
        <2> QED BY <2>8, <2>9, <2>10
    <1>7. ASSUME alg = "DenyOverridesRule2" PROVE DenyOverridesRule2Tail.decision \in Promise(call)
        <2>1. loop.returns = {Deny} /\ loop.gathers = Permit /\ Loser(Deny) = Permit /\ Deny \in Effects
            BY <1>7 DEF loop, LoopOf, DenyOverridesRule2Loop, Loop, Loser, Permit, Deny, Effects
        <2> QED BY <1>6, <1>7, <2>1 DEF DenyOverridesRule2Tail, Rule2Algs
    <1>8. ASSUME alg = "PermitOverridesRule2" PROVE PermitOverridesRule2Tail.decision \in Promise(call)
        <2>1. loop.returns = {Permit} /\ loop.gathers = Deny /\ Loser(Permit) = Deny /\ Permit \in Effects
            BY <1>8 DEF loop, LoopOf, PermitOverridesRule2Loop, Loop, Loser, Permit, Deny, Effects
        <2> QED BY <1>6, <1>8, <2>1 DEF PermitOverridesRule2Tail, Rule2Algs
    <1>9. alg \in {"DenyOverridesPolicy2", "PermitOverridesPolicy2"} => Verdicts(call) = {PromisePolicy2(call)}
        BY <1>1 DEF Verdicts
    <1>10. ASSUME alg = "DenyOverridesPolicy2" PROVE DenyOverridesPolicy2Tail.decision \in Promise(call)
        <2>1. /\ loop.returns = {Deny} /\ loop.onMatchError = "deny" /\ Tracked = {Permit}
            BY <1>10 DEF loop, LoopOf, DenyOverridesPolicy2Loop, Loop, Tracked
        <2>2. PromisePolicy2(call) = DenyPolicies2(values)
            BY <1>1, <1>10, PromisePolicy2Facts
        <2> HIDE DEF values
        <2>3. (Has(Permit) <=> Permit \in values) /\ values \cap ({Deny, "MatchError"} \cup Indeterminates) = {}
            BY <1>1, <1>10, <2>1 DEF Permit
        <2> QED BY <1>1, <1>9, <1>10, <2>2, <2>3, MadeResults DEF DenyOverridesPolicy2Tail, DenyPolicies2
    <1>11. ASSUME alg = "PermitOverridesPolicy2" PROVE PermitOverridesPolicy2Tail.decision \in Promise(call)
        <2>1. /\ loop.returns = {Permit} /\ loop.onMatchError = "note" /\ Tracked = Indeterminates \cup {Deny}
            BY <1>11 DEF loop, LoopOf, PermitOverridesPolicy2Loop, Loop, Tracked
        <2>2. PromisePolicy2(call) = PermitPolicies2(values)
            BY <1>1, <1>11, PromisePolicy2Facts
        <2> HIDE DEF values
        <2>3. Permit \notin values /\ (Has(Deny) <=> Deny \in values)
            BY <1>1, <1>11, <2>1 DEF Deny
        <2>4. Failed <=> values \cap ({"MatchError"} \cup Indeterminates) # {}
            BY <1>1, <2>1 DEF Failed, Has, Indeterminates
        <2> QED BY <1>1, <1>9, <1>11, <2>2, <2>3, <2>4, MadeResults DEF PermitOverridesPolicy2Tail, PermitPolicies2
    <1> QED BY <1>7, <1>8, <1>10, <1>11

\* The answers behind the loops that an answer of the other kind would have
\* ended.
LEMMA OtherTailsPromised ==
    ASSUME IInv, HeardInv, pc = "iterate", i = Len(kids)
    PROVE  /\ alg \in {"DenyUnlessPermitRule", "DenyUnlessPermitPolicy"} => Deny \in Promise(call)
           /\ alg \in {"PermitUnlessDenyRule", "PermitUnlessDenyPolicy"} => Permit \in Promise(call)
           /\ alg \in {"FirstApplicableRule", "FirstApplicablePolicy"} => NotApplicable \in Promise(call)
           /\ alg = "OnlyOneApplicable" => OnlyOneApplicableTail.decision \in Promise(call)
    <1>1. /\ ProperCall(call) /\ call.alg = alg /\ Promise(call) = Verdicts(call)
          /\ Contributions(call) \cap loop.returns = {}
        BY AllHeard
    <1>2. call \in Calls /\ Looping /\ Processed = Len(kids)
        BY DEF IInv, PlaceInv, Looping, Processed
    <1>3. /\ call.kids = kids /\ DOMAIN kids = 1..Len(kids) /\ Len(kids) \in Nat
          /\ \A k \in 1..Len(kids) : Passes(k)
          /\ \A k \in 1..Len(kids) :
                Contribution(call, k) = IF alg \in MatchingAlgs /\ kids[k].target = "Error" THEN "MatchError" ELSE Value(k)
        BY <1>2, ProperCallFacts DEF HeardInv
    <1>4. ASSUME alg \in UnlessAlgs
          PROVE  /\ alg \in {"DenyUnlessPermitRule", "DenyUnlessPermitPolicy"} => Deny \in Promise(call)
                 /\ alg \in {"PermitUnlessDenyRule", "PermitUnlessDenyPolicy"} => Permit \in Promise(call)
        <2>1. Verdicts(call) = {PromiseUnless(call)}
            BY <1>1, <1>4 DEF Verdicts, UnlessAlgs, UnlessPolicyAlgs
        <2>2. loop.returns = IF alg \in {"DenyUnlessPermitRule", "DenyUnlessPermitPolicy"} THEN {Permit} ELSE {Deny}
            <3>1. CASE alg \in {"DenyUnlessPermitRule", "DenyUnlessPermitPolicy"}
                BY <3>1 DEF loop, LoopOf, Loop, DenyUnlessPermitRuleLoop, DenyUnlessPermitPolicyLoop
            <3>2. CASE alg \in {"PermitUnlessDenyRule", "PermitUnlessDenyPolicy"}
                <4>1. loop.returns = {Deny}
                    BY <3>2 DEF loop, LoopOf, Loop, PermitUnlessDenyRuleLoop, PermitUnlessDenyPolicyLoop
                <4> QED BY <3>2, <4>1
            <3> QED BY <1>4, <3>1, <3>2 DEF UnlessAlgs, UnlessPolicyAlgs
        <2>3. /\ alg \in {"DenyUnlessPermitRule", "DenyUnlessPermitPolicy"} => PromiseUnless(call) = Deny
              /\ alg \in {"PermitUnlessDenyRule", "PermitUnlessDenyPolicy"} => PromiseUnless(call) = Permit
            BY <1>1, <1>4, <2>2, PromiseUnlessFacts
        <2> QED BY <1>1, <2>1, <2>3
    <1>5. ASSUME alg \in {"FirstApplicableRule", "FirstApplicablePolicy"} PROVE NotApplicable \in Promise(call)
        <2>1. \A k \in 1..Len(kids) : FirstReply(call, k) = NotApplicable
            BY <1>2, <1>5, FirstSoFar
        <2>2. PromiseFirst(call) = NotApplicable
            BY <1>3, <2>1, PromiseFirstFacts
        <2> QED BY <1>1, <1>5, <2>2 DEF Verdicts
    <1>6. ASSUME alg = "OnlyOneApplicable" PROVE OnlyOneApplicableTail.decision \in Promise(call)
        <2>1. Verdicts(call) = {PromiseOnlyOne(call)}
            BY <1>1, <1>6 DEF Verdicts
        <2>2. loop.onMatchError = "fail" /\ alg \in MatchingAlgs
            BY <1>6 DEF loop, LoopOf, Loop, OnlyOneApplicableLoop, MatchingAlgs
        <2>3. \A k \in 1..Len(kids) : kids[k].target # "Error"
            BY <1>3, <2>2 DEF Passes
        <2>4. \/ selected = 0 /\ \A k \in 1..Len(kids) : kids[k].target # "Match"
              \/ /\ selected \in 1..Len(kids) /\ kids[selected].target = "Match"
                 /\ \A k \in 1..Len(kids) : kids[k].target = "Match" => k = selected
            BY <1>2, <1>6 DEF HeardInv
        <2>5. CASE selected = 0 /\ \A k \in 1..Len(kids) : kids[k].target # "Match"
            <3>1. PromiseOnlyOne(call) = NotApplicable
                BY <1>3, <2>3, <2>5, PromiseOnlyOneFacts
            <3> QED BY <1>1, <2>1, <2>5, <3>1, MadeResults DEF OnlyOneApplicableTail
        <2>6. CASE /\ selected \in 1..Len(kids) /\ kids[selected].target = "Match"
                   /\ \A k \in 1..Len(kids) : kids[k].target = "Match" => k = selected
            <3>1. PromiseOnlyOne(call) = kids[selected].inner
                BY <1>3, <2>3, <2>6, PromiseOnlyOneFacts
            <3>2. PolicyEvaluate(kids[selected]) = kids[selected].inner /\ selected # 0
                BY <1>3, <2>6 DEF PolicyEvaluate
            <3> QED BY <1>1, <2>1, <3>1, <3>2, MadeResults DEF OnlyOneApplicableTail
        <2> QED BY <2>4, <2>5, <2>6
    <1> QED BY <1>4, <1>5, <1>6 DEF UnlessAlgs, UnlessPolicyAlgs

LEMMA FinishHeard ==
    ASSUME IInv, HeardInv, Finish
    PROVE  HeardInv' /\ AnswerInv'
    <1>1. pc = "iterate" /\ i = Len(kids) /\ UNCHANGED call
        BY DEF Finish
    <1>2. ASSUME NEW r, Return(r), r.decision \in Promise(call) PROVE HeardInv' /\ AnswerInv'
        BY <1>1, <1>2, ReturnHeard
    <1> QED BY <1>1, <1>2, Tails3Promised, Tails2Promised, OtherTailsPromised, MadeResults DEF Finish

\* The heard flags and the promised answer survive every step.
LEMMA NextHeard ==
    ASSUME IInv, HeardInv, AnswerInv, [Next]_vars
    PROVE  HeardInv' /\ AnswerInv'
    <1>1. CASE CheckTarget
        BY <1>1, TargetHeard
    <1>2. CASE EvaluateRule
        BY <1>2, RuleHeard
    <1>3. CASE EvaluateUnmatched
        BY <1>3, UnmatchedHeard
    <1>4. CASE MatchPolicy
        BY <1>4, MatchHeard
    <1>5. CASE EvaluateMatched
        BY <1>5, MatchedHeard
    <1>6. CASE Finish
        BY <1>6, FinishHeard
    <1>7. CASE AddObligations
        BY <1>7 DEF AddObligations, HeardInv, AnswerInv, Looping
    <1>8. CASE UNCHANGED vars
        <2> USE <1>8 DEF vars
        <2>1. /\ alg' = alg /\ kids' = kids /\ loop' = loop /\ call' = call
              /\ \A k : Value(k)' = Value(k)
            BY CallConstant
        <2>2. /\ \A k : Passes(k)' = Passes(k)
              /\ \A k, d : Says(k, d)' = Says(k, d)
              /\ \A k : Potent(k)' = Potent(k)
              /\ Tracked' = Tracked /\ Looping' = Looping /\ Processed' = Processed
            BY <2>1 DEF Passes, Says, Potent, Tracked, Looping, Processed
        <2>3. HeardInv'
            BY <2>1, <2>2 DEF HeardInv
        <2> QED BY <2>3 DEF AnswerInv
    <1> QED BY <1>1, <1>2, <1>3, <1>4, <1>5, <1>6, <1>7, <1>8 DEF Next

\* An exception is promised where the loop throws one.
LEMMA CrashPromised ==
    ASSUME IInv, HeardInv, MatchPolicy, kids[i + 1].target = "none"
    PROVE  Crash \in Promise(call)
    <1> DEFINE kid == i + 1
    <1>1. /\ call \in Calls /\ call.target \in {"none", "Match"} /\ Looping /\ alg \in MatchingAlgs
          /\ i \in Nat /\ kid \in 1..Len(kids) /\ Processed = i
        BY CallFacts DEF IInv, TypeOK, PlaceInv, HeardInv, MatchPolicy, Looping, Processed
    <1>2. /\ call \in CallRecords /\ ProperCall(call) /\ call.alg = alg /\ call.kids = kids
          /\ DOMAIN kids = 1..Len(kids) /\ Len(kids) \in Nat
        BY <1>1, ProperCallFacts
    <1>3. CASE alg # "FirstApplicablePolicy"
        BY <1>1, <1>2, <1>3, PromiseFacts DEF StoppingAlgs
    <1>4. CASE alg = "FirstApplicablePolicy"
        <2>1. FirstReply(call, kid) = Crash /\ Crash # NotApplicable
            BY <1>2, <1>4 DEF FirstReply, Crash, NotApplicable
        <2>2. \A j \in 1..kid - 1 : j \in 1..i /\ j \in 1..Len(kids)
            BY <1>1, <1>2
        <2>3. \A j \in 1..kid - 1 : FirstReply(call, j) = NotApplicable
            BY <1>1, <1>4, <2>2, FirstSoFar
        <2>4. PromiseFirst(call) = Crash
            BY <1>1, <1>2, <2>1, <2>3, PromiseFirstFacts
        <2>5. Promise(call) = {PromiseFirst(call)}
            BY <1>1, <1>2, <1>4, PromiseFacts DEF StoppingAlgs, Verdicts
        <2> QED BY <2>4, <2>5
    <1> QED BY <1>3, <1>4

\* Every step answers as promised, or has not answered yet.
LEMMA StepPromised ==
    ASSUME IInv, HeardInv, AnswerInv, [Next]_vars
    PROVE  [Promised!Answer]_<<call, IF Answered THEN result.decision ELSE "none">>
    <1> USE DEF Answered
    <1>1. ASSUME pc # "done", pc' # "done", UNCHANGED call
          PROVE  UNCHANGED <<call, IF Answered THEN result.decision ELSE "none">>
        BY <1>1
    <1>2. ASSUME pc # "done", pc' = "done", UNCHANGED call, result'.decision \in Promise(call)
          PROVE  Promised!Answer
        BY <1>2 DEF Promised!Answer, Promised!NoAnswer
    <1>3. CASE CheckTarget
        <2>1. pc # "done" /\ UNCHANGED call
            BY <1>3 DEF CheckTarget
        <2>2. CASE call.target \in {"NoMatch", "Error"} /\ pc' = "done" /\ result' = Fresh(NotApplicable, 0)
            BY <1>2, <2>1, <2>2, MadeResults DEF Promise
        <2> QED BY <1>1, <1>3, <2>1, <2>2 DEF CheckTarget
    <1>4. CASE EvaluateRule
        BY <1>1, <1>4 DEF EvaluateRule, Return
    <1>5. CASE EvaluateUnmatched
        BY <1>1, <1>5 DEF EvaluateUnmatched, Weigh, Return
    <1>6. CASE EvaluateMatched
        BY <1>1, <1>6 DEF EvaluateMatched, Weigh, Return
    <1>7. CASE MatchPolicy
        <2>1. pc = "iterate" /\ UNCHANGED call
            BY <1>7 DEF MatchPolicy
        <2>2. CASE kids[i + 1].target = "none"
            <3>1. Crash \in Promise(call)
                BY <1>7, <2>2, CrashPromised
            <3>2. pc' = "done" /\ result'.decision = Crash
                BY <1>7, <2>2, MadeResults DEF MatchPolicy, Throw, Crash
            <3> QED BY <1>2, <2>1, <3>1, <3>2
        <2>3. CASE kids[i + 1].target # "none"
            <3>1. pc' # "done"
                BY <1>7, <2>1, <2>3 DEF MatchPolicy, MatchError, Matched, Return
            <3> QED BY <1>1, <2>1, <3>1
        <2> QED BY <2>2, <2>3
    <1>8. CASE Finish
        BY <1>1, <1>8 DEF Finish, Return
    <1>9. CASE AddObligations
        <2>1. result'.decision = result.decision
            BY <1>9 DEF AddObligations, IInv, TypeOK
        <2> QED BY <1>2, <1>9, <2>1 DEF AddObligations, AnswerInv
    <1>10. CASE UNCHANGED vars
        BY <1>10 DEF vars
    <1> QED BY <1>3, <1>4, <1>5, <1>6, <1>7, <1>8, <1>9, <1>10 DEF Next

-----------------------------------------------------------------------------
(* The theorems.                                                           *)

LEMMA InitIInv == Init => IInv
    <1> SUFFICES ASSUME Init PROVE IInv
        OBVIOUS
    <1>1. /\ call \in Calls /\ call \in CallRecords /\ Len(kids) \in Nat /\ pc = "target" /\ i = 0
          /\ Looping /\ Processed = 0
        BY CallFacts, CallsAssumption DEF Init, Looping, Processed
    <1>2. result = Fresh("none", 0) /\ result \in ResultSet(0) /\ result.decision = "none" /\ result.own = {}
        BY FreshResult DEF Init, NoResult
    <1>3. TypeOK
        <2>1. i \in 0..Len(kids) /\ seen \subseteq Decisions
            BY <1>1 DEF Init
        <2>2. first \in [Indeterminates -> 0..i]
            BY <1>1 DEF Init
        <2>3. obligations \subseteq 1..i /\ selected \in 0..i
            BY <1>1 DEF Init
        <2>4. potential \in BOOLEAN
            BY DEF Init
        <2>5. result \in ResultSet(i)
            BY <1>1, <1>2
        <2>6. pc \in {"target", "iterate", "evaluate", "obligations", "done"}
            BY <1>1
        <2> QED BY <1>1, <2>1, <2>2, <2>3, <2>4, <2>5, <2>6 DEF TypeOK, ResultSet
    <1>4. PlaceInv
        BY <1>1, <1>2 DEF Init, PlaceInv
    <1>5. ErrorInv
        BY <1>1 DEF Init, ErrorInv
    <1>6. FlagInv /\ ObligationInv
        BY <1>1, <1>2 DEF Init, FlagInv, ObligationInv
    <1> QED BY <1>3, <1>4, <1>5, <1>6 DEF IInv

LEMMA NextIInv == IInv /\ [Next]_vars => IInv'
    <1> SUFFICES ASSUME IInv, [Next]_vars PROVE IInv'
        OBVIOUS
    <1>1. CASE CheckTarget
        BY <1>1, CheckTargetKeepsIInv
    <1>2. CASE EvaluateRule
        BY <1>2, EvaluateRuleKeepsIInv
    <1>3. CASE EvaluateUnmatched
        BY <1>3, EvaluateUnmatchedKeepsIInv
    <1>4. CASE MatchPolicy
        BY <1>4, MatchPolicyKeepsIInv
    <1>5. CASE EvaluateMatched
        BY <1>5, EvaluateMatchedKeepsIInv
    <1>6. CASE Finish
        BY <1>6, FinishKeepsIInv
    <1>7. CASE AddObligations
        BY <1>7, AddObligationsKeepsIInv
    <1>8. CASE UNCHANGED vars
        <2> USE <1>8 DEF vars
        <2>1. /\ alg' = alg /\ kids' = kids /\ loop' = loop /\ WinnerError' = WinnerError
              /\ \A k : Value(k)' = Value(k) /\ MayWin(k)' = MayWin(k) /\ Matters(k)' = Matters(k)
              /\ \A d : Slot(d)' = Slot(d)
            BY CallConstant
        <2>2. Looping' = Looping /\ Processed' = Processed /\ Flagged' = Flagged
            BY <2>1 DEF Looping, Processed, Flagged
        <2>3. TypeOK' /\ PlaceInv' /\ ErrorInv'
            BY <2>1, <2>2 DEF IInv, TypeOK, PlaceInv, ErrorInv
        <2>4. FlagInv' /\ ObligationInv'
            BY <2>1, <2>2 DEF IInv, FlagInv, ObligationInv
        <2> QED BY <2>3, <2>4 DEF IInv
    <1> QED BY <1>1, <1>2, <1>3, <1>4, <1>5, <1>6, <1>7, <1>8 DEF Next

\* The inductive invariant holds throughout every evaluation.
THEOREM Invariant == Spec => []IInv
    BY InitIInv, NextIInv, PTL DEF Spec

\* Whatever the policy, its children and their errors, the flags, positions
\* and results of an evaluation keep their types.
THEOREM TypeCorrect == Spec => []TypeOK
    <1>1. IInv => TypeOK
        BY DEF IInv
    <1> QED BY <1>1, Invariant, PTL

\* For every list of children: the overrides algorithms never answer the
\* loser's effect beside a child that answers the winner's or might have.
THEOREM LoserSafe == Spec => []LoserIsSafe
    <1>1. IInv => LoserIsSafe
        BY DEF IInv, FlagInv, LoserIsSafe, Matters, Looping, Answered
    <1> QED BY <1>1, Invariant, PTL

\* For every list of children: an answer carries the obligations of children
\* that gave the same answer, and all of them when the loop ran to its end.
THEOREM ObligationsFollow == Spec => []ObligationsFollowDecision
    <1>1. IInv => ObligationsFollowDecision
        BY DEF IInv, ObligationInv, ObligationsFollowDecision, Looping, Answered
    <1> QED BY <1>1, Invariant, PTL

\* For every list of children: an error that is answered names a child that
\* has an error itself, whose target has one, or that is the second match of
\* only-one-applicable, wherever in the loop it was met.
THEOREM ErrorsExplained == Spec => []ErrorsAreExplained
    <1>1. Init => CauseInv
        BY DEF Init, CauseInv, Looping
    <1>2. CauseInv => ErrorsAreExplained
        BY DEF CauseInv, Explained, Explains, ErrorsAreExplained, Answered, Looping
    <1> QED BY <1>1, <1>2, NextCauseInv, Invariant, PTL DEF Spec

\* For every list of children, of any length: evaluate answers once, and what
\* it answers is what the algorithm promises for the set of its children,
\* whatever their order and wherever the loop stopped.  This is the safety
\* half of KeepsPromise: that it answers at all is liveness.
THEOREM PromiseKept ==
    Spec => Promised!Init /\ [][Promised!Answer]_<<call, IF Answered THEN result.decision ELSE "none">>
    <1>1. Init => Promised!Init
        BY DEF Init, Promised!Init, Answered, Promised!NoAnswer
    <1> QED BY <1>1, InitHeard, NextHeard, StepPromised, Invariant, PTL DEF Spec

=============================================================================
