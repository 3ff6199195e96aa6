SPECIFICATION Spec
CONSTANTS
    Terms <- MCTerms
    Strings <- MCStrings
    ConstOf <- MCConstOf
    Args <- MCArgs
    Pieces <- MCPieces
    Includes <- MCIncludes
    Keys <- MCKeys
    Patterns <- MCPatterns
    Matches <- MCMatches
    RegexKeys <- MCRegexKeys
    TermRank <- MCTermRank
    KeyRank <- MCKeyRank
    Clashes <- MCClashes
    Facts <- MCFacts
    Models <- MCModels
    MaxLevel = 1
INVARIANTS TypeOK AxiomsAreValid KnownIsDecided PiecesRefute
CHECK_DEADLOCK FALSE
