SPECIFICATION Spec
CONSTANTS
    Calls <- MCCalls
    MaxKids = 1
    AlgsUnderTest <- RuleAlgs
INVARIANTS NotApplicableMeansNoneApplied
CHECK_DEADLOCK FALSE
