SPECIFICATION Spec
CONSTANTS
    Calls <- MCCalls
    MaxKids = 3
    AlgsUnderTest <- Algs
INVARIANTS TypeOK LoserIsSafe ObligationsFollowDecision ErrorsAreExplained
PROPERTIES KeepsPromise
CHECK_DEADLOCK FALSE
