SPECIFICATION Spec
CONSTANTS
    Terms <- MCTerms
    Equations <- MCEquations
    MaxLevel = 3
    x = x
    y = y
    m = m
    n = n
    t1 = t1
    t2 = t2
    t3 = t3
    t4 = t4
INVARIANTS
    CutsAreBacktracked
