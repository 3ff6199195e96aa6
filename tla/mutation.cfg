SPECIFICATION Spec
CONSTANTS
    Policies <- MCPolicies
    RuleIds <- MCRuleIds
    Attributes <- MCAttributes
    Values <- MCValues
    Requests <- MCRequests
    MaxCalls = 2
INVARIANTS TypeOK DocIsRestored FaultsAreLocal OneStepRepairable SavedAsCreated TargetFalseOnSingleValues
CHECK_DEADLOCK FALSE
