SPECIFICATION Spec
CONSTANTS
    Spectra <- MCSpectra
INVARIANTS TypeOK RankEndsItsTie RankIsWorstCase DominantIsNotOutranked
CHECK_DEADLOCK FALSE
