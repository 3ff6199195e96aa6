--------------------------- MODULE StringFunctions ---------------------------
(***************************************************************************)
(* The functions on strings that the plug-in reduces before the search     *)
(* starts (strAstReduce.cpp).  A call of constants is computed; any other  *)
(* one is replaced by a fresh variable and an axiom with more fresh        *)
(* variables, a second definition of the same function.  An action is one  *)
(* call of cb_reduce_app; answers are the values the variable may then     *)
(* take when the arguments have theirs.                                    *)
(*                                                                         *)
(* Contains, which the axioms use, is taken to be decided by what the      *)
(* strings are (module Containment).  Positions count from 0.              *)
(***************************************************************************)
EXTENDS Integers, SequencesExt

CONSTANTS
    Chars,          \* the alphabet
    ArgLists        \* the arguments each function is called with

VARIABLES
    call,           \* the call
    reduced,        \* whether it has been reduced
    answers         \* the values it may have then

functionVars == <<call, reduced, answers>>

\* What the functions take.
Text == Seq(Chars)
Signature ==
    [Contains |-> Text \X Text, StartsWith |-> Text \X Text, EndsWith |-> Text \X Text,
     Indexof |-> Text \X Text, Indexof2 |-> Text \X Text \X Int, LastIndexof |-> Text \X Text,
     CharAt |-> Text \X Int, Replace |-> Text \X Text \X Text, Substring |-> Text \X Int \X Int]

ASSUME ArgumentsAssumption ==
    /\ DOMAIN ArgLists \subseteq DOMAIN Signature
    /\ \A function \in DOMAIN ArgLists : ArgLists[function] \subseteq Signature[function]

\* std::string::find and rfind.
Places(s, p) == {i \in 0..Len(s) - Len(p) : SubSeq(s, i + 1, i + Len(p)) = p}
Find(s, p) ==
    IF Places(s, p) = {} THEN -1 ELSE CHOOSE i \in Places(s, p) : \A j \in Places(s, p) : i <= j
RFind(s, p) ==
    IF Places(s, p) = {} THEN -1 ELSE CHOOSE i \in Places(s, p) : \A j \in Places(s, p) : i >= j
Found(s, p) == Find(s, p) # -1

-----------------------------------------------------------------------------
(* Axioms.  A variable that is part of s by an equation is one of its       *)
(* prefixes, suffixes or infixes.                                           *)

Parts(s) == {xs \in Prefixes(s) \X Suffixes(s) : xs[1] \o xs[2] = s}
Around(s, p) == {xs \in Prefixes(s) \X Suffixes(s) : xs[1] \o p \o xs[2] = s}

\* reduce_contains
ContainsAxiom(s, p) ==
    {b \in BOOLEAN : b = Found(s, p) /\ (b => Around(s, p) # {})}

\* reduce_startswith, reduce_endswith
StartsWithAxiom(s, p) ==
    IF Len(s) >= Len(p) THEN {parts[1] = p : parts \in {q \in Parts(s) : Len(q[1]) = Len(p)}}
    ELSE {FALSE}
EndsWithAxiom(s, p) ==
    IF Len(s) >= Len(p) THEN {parts[2] = p : parts \in {q \in Parts(s) : Len(q[2]) = Len(p)}}
    ELSE {FALSE}

\* The p of an x1 . p . x2 is the first one: the prefix that lacks p's last
\* character does not contain p.
FirstIn(s, p) ==
    {xs \in Around(s, p) : \E q \in Parts(s) : /\ Len(q[1]) = Len(xs[1]) + Len(p) - 1
                                               /\ ~Found(q[1], p)}
\* Mutant of LastIn: x2 does not contain p, but p may overlap the one found.
LastInSkipping(s, p, constant) == {xs \in Around(s, p) : ~Found(xs[2], p)}

\* It is the last one: x2 does not contain p, nor does what follows the
\* first character of p, which need not be said of a constant character.
LastIn(s, p, constant) ==
    {xs \in Around(s, p) :
        /\ ~Found(xs[2], p)
        /\ \/ constant /\ Len(p) = 1
           \/ \E q \in Parts(s) : Len(q[1]) = Len(xs[1]) + 1 /\ ~Found(q[2], p)}

\* reduce_indexof, reduce_lastindexof, reduce_replace
IndexofAxiom(s, p) == IF Found(s, p) THEN {Len(xs[1]) : xs \in FirstIn(s, p)} ELSE {-1}
LastIndexofAxiom(s, p, constant) ==
    IF Found(s, p) THEN {Len(xs[1]) : xs \in LastIn(s, p, constant)} ELSE {-1}
ReplaceAxiom(s, p, r) ==
    IF Found(s, p) THEN {xs[1] \o r \o xs[2] : xs \in FirstIn(s, p)} ELSE {s}

\* reduce_indexof2: the search of a suffix, which is a call of Indexof.  That
\* of s itself is computed if s and p are constants, whatever n is.
Indexof2Axiom(s, p, n, constant) ==
    IF n < 0 THEN IF constant THEN {Find(s, p)} ELSE IndexofAxiom(s, p)
    ELSE IF n >= Len(s) THEN {-1}
    ELSE UNION {{IF i = -1 THEN -1 ELSE n + i : i \in IndexofAxiom(q[2], p)} :
                    q \in {parts \in Parts(s) : Len(parts[1]) = n}}

\* reduce_charAt, reduce_subStr: x1 . result . x2 = s.
CharAtAxiom(s, n) ==
    IF n >= 0 /\ n < Len(s)
    THEN {c \in {<<a>> : a \in Chars} : \E xs \in Around(s, c) : Len(xs[1]) = n}
    ELSE {<<>>}
SubstringAxiom(s, n, m) ==
    {r \in UNION {Prefixes(q) : q \in Suffixes(s)} :
        Len(r) = m /\ \E xs \in Around(s, r) : Len(xs[1]) = n}

-----------------------------------------------------------------------------
(* Calls.  constants are the arguments that are constant.                  *)

Constant(i) == i \in call.constants
Arg(i) == call.args[i]
AllConstant == call.constants = DOMAIN call.args
Reduces(function) == call.function = function /\ ~reduced /\ reduced' = TRUE /\ UNCHANGED call
Answers(computed, axiom) == answers' = IF AllConstant THEN {computed} ELSE axiom

ReduceContains ==
    /\ Reduces("Contains")
    /\ Answers(Found(Arg(1), Arg(2)), ContainsAxiom(Arg(1), Arg(2)))

ReduceStartsWith ==
    /\ Reduces("StartsWith")
    /\ Answers(Len(Arg(1)) >= Len(Arg(2)) /\ SubSeq(Arg(1), 1, Len(Arg(2))) = Arg(2),
               StartsWithAxiom(Arg(1), Arg(2)))

ReduceEndsWith ==
    /\ Reduces("EndsWith")
    /\ Answers(/\ Len(Arg(1)) >= Len(Arg(2))
               /\ SubSeq(Arg(1), Len(Arg(1)) - Len(Arg(2)) + 1, Len(Arg(1))) = Arg(2),
               EndsWithAxiom(Arg(1), Arg(2)))

ReduceIndexof ==
    /\ Reduces("Indexof")
    /\ Answers(Find(Arg(1), Arg(2)), IndexofAxiom(Arg(1), Arg(2)))

ReduceIndexof2 ==
    /\ Reduces("Indexof2")
    /\ LET s == Arg(1)
           p == Arg(2)
           n == Arg(3)
           suffix == SubSeq(s, n + 1, Len(s))
           computed == IF n >= Len(s) THEN -1
                       ELSE IF n < 0 THEN Find(s, p)
                       ELSE IF Find(suffix, p) = -1 THEN -1
                       ELSE Find(suffix, p) + n
       IN Answers(computed, Indexof2Axiom(s, p, n, Constant(1) /\ Constant(2)))

ReduceLastIndexof ==
    /\ Reduces("LastIndexof")
    /\ Answers(RFind(Arg(1), Arg(2)), LastIndexofAxiom(Arg(1), Arg(2), Constant(2)))

ReduceCharAt ==
    /\ Reduces("CharAt")
    /\ Answers(IF Arg(2) \in 0..Len(Arg(1)) - 1 THEN <<Arg(1)[Arg(2) + 1]>> ELSE <<>>,
               CharAtAxiom(Arg(1), Arg(2)))

ReduceReplace ==
    /\ Reduces("Replace")
    /\ LET s == Arg(1)
           i == Find(s, Arg(2))
           replaced == SubSeq(s, 1, i) \o Arg(3) \o SubSeq(s, i + Len(Arg(2)) + 1, Len(s))
       IN Answers(IF i = -1 THEN s ELSE replaced, ReplaceAxiom(s, Arg(2), Arg(3)))

\* Substring is never computed.
ReduceSubStr ==
    /\ Reduces("Substring")
    /\ answers' = SubstringAxiom(Arg(1), Arg(2), Arg(3))

-----------------------------------------------------------------------------
FunctionInit ==
    /\ \E function \in DOMAIN ArgLists : \E args \in ArgLists[function] :
           \E constants \in SUBSET DOMAIN args :
               call = [function |-> function, args |-> args, constants |-> constants]
    /\ reduced = FALSE
    /\ answers = {}

FunctionNext ==
    \/ ReduceContains \/ ReduceStartsWith \/ ReduceEndsWith
    \/ ReduceIndexof \/ ReduceIndexof2 \/ ReduceLastIndexof
    \/ ReduceCharAt \/ ReduceReplace \/ ReduceSubStr
FunctionSpec == FunctionInit /\ [][FunctionNext]_functionVars

-----------------------------------------------------------------------------
(* Properties.                                                             *)

\* The first place of p in s from n on, and the last one; -1 if there is none.
First(s, p, n) ==
    CHOOSE i \in Places(s, p) \cup {-1} :
        IF i = -1 THEN \A j \in Places(s, p) : j < n
        ELSE i >= n /\ \A j \in Places(s, p) : j >= n => i <= j
Latest(s, p) == CHOOSE i \in Places(s, p) \cup {-1} : \A j \in Places(s, p) : i >= j

Meaning ==
    LET s == Arg(1)
        p == Arg(2)
    IN CASE call.function = "Contains" ->
                \E n \in 0..Len(s) : IsPrefix(p, SubSeq(s, n + 1, Len(s)))
         [] call.function = "StartsWith" -> IsPrefix(p, s)
         [] call.function = "EndsWith" -> IsSuffix(p, s)
         [] call.function = "Indexof" -> First(s, p, 0)
         [] call.function = "Indexof2" -> First(s, p, Arg(3))
         [] call.function = "LastIndexof" -> Latest(s, p)
         [] call.function = "CharAt" ->
                IF Arg(2) + 1 \in DOMAIN s THEN <<s[Arg(2) + 1]>> ELSE <<>>
         [] call.function = "Replace" -> ReplaceFirstSubSeq(Arg(3), p, s)
         [] call.function = "Substring" -> SubSeq(s, Arg(2) + 1, Arg(2) + Arg(3))

\* What the axioms do not define, although the computation does: the place of
\* an empty string (every prefix contains it) and a substring that is not all
\* inside.
Defined ==
    CASE call.function \in {"Indexof", "Indexof2", "LastIndexof", "Replace"} -> Arg(2) # <<>>
      [] call.function = "Substring" -> Arg(2) >= 0 /\ Arg(3) >= 0 /\ Arg(2) + Arg(3) <= Len(Arg(1))
      [] OTHER -> TRUE

\* A function is one: whichever arguments are constants when it is reduced,
\* and whatever the fresh variables of its axiom are, it has the one value
\* that it stands for.
IsFunction ==
    reduced /\ call.function \in DOMAIN Signature /\ Defined => answers = {Meaning}

=============================================================================
