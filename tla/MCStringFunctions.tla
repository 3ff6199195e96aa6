-------------------------- MODULE MCStringFunctions --------------------------
(* Strings of up to four characters over two letters, needles of up to two, *)
(* positions around the ends, and each subset of the arguments constant;     *)
(* regular expressions of up to two operators.                               *)
EXTENDS RegexFunctions

Haystacks == BoundedSeq(Chars, 4)
Needles == BoundedSeq(Chars, 2)
Replacements == {<<>>, <<1>>, <<2, 1>>}
Positions == -1..5

Leaves == {[op |-> "Str2Reg", str |-> s] : s \in {<<>>, <<1>>, <<2, 1>>}}
          \cup {[op |-> "RegexCharRange", low |-> 2, high |-> 1]}
Over(R) ==
    R \cup {[op |-> o, of |-> r] : o \in {"RegexStar", "RegexPlus"}, r \in R}
      \cup {[op |-> o, left |-> r, right |-> q] :
                o \in {"RegexConcat", "RegexUnion"}, r \in R, q \in Leaves}
Regexes == Over(Over(Leaves))

MCArgLists ==
    [f \in {"Contains", "StartsWith", "EndsWith", "Indexof", "Indexof2", "LastIndexof",
            "CharAt", "Replace", "Substring"} |->
        CASE f \in {"Contains", "StartsWith", "EndsWith", "Indexof", "LastIndexof"} ->
                 Haystacks \X Needles
          [] f = "Indexof2" -> Haystacks \X Needles \X Positions
          [] f = "CharAt" -> Haystacks \X Positions
          [] f = "Replace" -> Haystacks \X Needles \X Replacements
          [] f = "Substring" -> Haystacks \X Positions \X Positions]
MCRegexArgs == BoundedSeq(Chars, MaxLen) \X Regexes

=============================================================================
