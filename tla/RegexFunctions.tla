--------------------------- MODULE RegexFunctions ----------------------------
(***************************************************************************)
(* The functions of StringFunctions, and RegexIn: a regular expression is  *)
(* reduced from its leaves to its root, and RegexIn(s, r) is replaced by a *)
(* Boolean with an axiom.  The first RegexIn of s and r is registered, and *)
(* is taken to be decided by what the string is (module Containment).      *)
(* Characters are numbers.                                                 *)
(***************************************************************************)
EXTENDS StringFunctions

CONSTANTS
    MaxLen,         \* bound on the length of strings in regular languages
    RegexArgs       \* the strings and expressions RegexIn is called with

-----------------------------------------------------------------------------
(* Regular expressions.                                                    *)

Str2Reg(s) == [op |-> "Str2Reg", str |-> s]
Binary(op, r1, r2) == [op |-> op, left |-> r1, right |-> r2]
Star(r) == [op |-> "RegexStar", of |-> r]

\* The strings of a regular expression, up to MaxLen characters (Boost's
\* regex_match, for the pattern that getStdRegexStr writes).
Joined(L, M) == {w \in {u \o v : u \in L, v \in M} : Len(w) <= MaxLen}
RECURSIVE Language(_)
Language(r) ==
    CASE r.op = "Str2Reg" -> {r.str}
      [] r.op = "RegexConcat" -> Joined(Language(r.left), Language(r.right))
      [] r.op = "RegexUnion" -> Language(r.left) \cup Language(r.right)
      [] r.op = "RegexStar" ->
             LET L == Language(r.of)
                 power[n \in 0..MaxLen] == IF n = 0 THEN {<<>>} ELSE Joined(L \cup {<<>>}, power[n - 1])
             IN power[MaxLen]

RegexStar(r) == IF r.op = "RegexStar" THEN r ELSE Star(r)

RegexConcat(r1, r2) ==
    IF r1.op = "Str2Reg" /\ r2.op = "Str2Reg" THEN Str2Reg(r1.str \o r2.str)
    ELSE Binary("RegexConcat", r1, r2)

\* Mutant of RegexPlus: it may be empty.
RegexPlusOrNone(r) == RegexStar(r)

RegexPlus(r) == IF r.op = "RegexStar" THEN r ELSE RegexConcat(r, RegexStar(r))

\* The union of the characters between the two, whichever is the lower one.
\* They are constants of one character (or the solver exits) below 127 (at which
\* the counter, a char, would overflow and the loop go on).
RegexCharRange(c, d) ==
    LET low == IF c > d THEN d ELSE c
        high == IF c > d THEN c ELSE d
        upTo[k \in low..high] ==
            IF k = low THEN Str2Reg(<<low>>) ELSE Binary("RegexUnion", Str2Reg(<<k>>), upTo[k - 1])
    IN upTo[high]

\* The simplifier reduces an expression from its leaves to its root.
RECURSIVE Reduced(_)
Reduced(r) ==
    CASE r.op = "Str2Reg" -> r
      [] r.op = "RegexCharRange" -> RegexCharRange(r.low, r.high)
      [] r.op = "RegexUnion" -> Binary(r.op, Reduced(r.left), Reduced(r.right))
      [] r.op = "RegexConcat" -> RegexConcat(Reduced(r.left), Reduced(r.right))
      [] r.op = "RegexStar" -> RegexStar(Reduced(r.of))
      [] r.op = "RegexPlus" -> RegexPlus(Reduced(r.of))

\* What may be said of RegexIn(s, r) by its axiom: the variables for the parts
\* of r stand for some strings of them, and s equals what they make, or not.
RegexInAxiom(s, r) ==
    CASE r.op = "RegexConcat" -> {(s = v \o w) : v \in Language(r.left), w \in Language(r.right)}
      [] r.op = "RegexUnion" -> {(s \in {v, w}) : v \in Language(r.left), w \in Language(r.right)}
      [] r.op = "RegexStar" -> {(s = v) : v \in Language(r)}

\* Only the first RegexIn of s and r is registered, and so decided by what s is.
ReduceRegexIn ==
    /\ Reduces("RegexIn")
    /\ LET s == Arg(1)
           r == Reduced(Arg(2))
       IN answers' = IF r.op = "Str2Reg" THEN {s = r.str}
                     ELSE RegexInAxiom(s, r) \cap
                              IF call.seen THEN BOOLEAN ELSE {s \in Language(r)}

-----------------------------------------------------------------------------
\* The pattern of a RegexIn is always a constant.  seen tells whether it was
\* reduced before.
RegexInit ==
    /\ \E args \in RegexArgs : \E seen \in BOOLEAN :
           call = [function |-> "RegexIn", args |-> args, constants |-> {2}, seen |-> seen]
    /\ reduced = FALSE
    /\ answers = {}

Init == FunctionInit \/ RegexInit
Next == FunctionNext \/ ReduceRegexIn
Spec == Init /\ [][Next]_functionVars

-----------------------------------------------------------------------------
(* Properties.                                                             *)

\* What a regular expression means as it is written.
RECURSIVE Means(_, _)
Means(w, r) ==
    CASE r.op = "Str2Reg" -> w = r.str
      [] r.op = "RegexCharRange" ->
             Len(w) = 1 /\ (w[1] \in r.low..r.high \/ w[1] \in r.high..r.low)
      [] r.op = "RegexUnion" -> Means(w, r.left) \/ Means(w, r.right)
      [] r.op = "RegexConcat" -> \E parts \in Parts(w) : Means(parts[1], r.left) /\ Means(parts[2], r.right)
      [] r.op \in {"RegexStar", "RegexPlus"} ->
             \/ w = <<>> /\ (r.op = "RegexStar" \/ Means(w, r.of))
             \/ \E parts \in Parts(w) :
                    /\ parts[1] # <<>> /\ Means(parts[1], r.of)
                    /\ parts[2] = <<>> \/ Means(parts[2], r)

\* The first RegexIn of a string and an expression is true if and only if the
\* string is one that the expression means, whatever its parts were reduced
\* to and whatever the fresh variables of its axiom are.
RegexInIsFunction ==
    reduced /\ call.function = "RegexIn" /\ ~call.seen => answers = {Means(Arg(1), Arg(2))}

=============================================================================
