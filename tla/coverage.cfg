SPECIFICATION Spec
CONSTANTS
    RuleIds = {"r1", "r2"}
    Jobs <- MCJobs
INVARIANTS TypeOK TracingIsFaithful MatrixDescribesSuite KilledByFirstFailure
PROPERTIES ResultsOfSuitesOnly
