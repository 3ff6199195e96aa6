SPECIFICATION Spec
CONSTANTS
    Policies = {"faulty", "m1", "m2", "m3", "m4"}
    Tests = {"t1", "t2"}
    Problems <- MCProblems
INVARIANTS TypeOK BestFirst DiagnosesItself StepsNeverBreakTests
PROPERTIES FindsCheapestRepair
CHECK_DEADLOCK FALSE
