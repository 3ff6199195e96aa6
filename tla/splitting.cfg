SPECIFICATION CallSpec
CONSTANTS
    Values <- MCValues
    Overlaps <- MCOverlaps
    Chars = {1, 2}
    MaxLen = 3
INVARIANTS
    SplitIsExact
