SPECIFICATION Spec
CONSTANTS
    Problems <- MCProblems
    LenStep = 2
    More = More
    None = None
    MaxElsewhere = 1
    MaxRestarts = 1
INVARIANTS TypeOK EachStringOnce NeverCrashes VerdictIsRight
PROPERTIES OffersNeverChange Answers
CHECK_DEADLOCK FALSE
