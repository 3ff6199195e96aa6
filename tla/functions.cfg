SPECIFICATION Spec
CONSTANTS
    Chars = {1, 2}
    MaxLen = 3
    ArgLists <- MCArgLists
    RegexArgs <- MCRegexArgs
INVARIANTS IsFunction RegexInIsFunction
CHECK_DEADLOCK FALSE
