--------------------------- MODULE MCContainment ----------------------------
(* Strings of up to two letters for TLC; x and y are contained in each other *)
(* or not, x equals a concat that is congruent to another one, and y equals  *)
(* a concat with a constant inside.                                          *)
EXTENDS Containment

Letters == {"a", "b", "c"}
MCStrings == UNION {[1..n -> Letters] : n \in 0..3}
Infix(p, s) == \E i \in 0..Len(s) - Len(p) : SubSeq(s, i + 1, i + Len(p)) = p
MCIncludes == {sp \in MCStrings \X MCStrings : Infix(sp[2], sp[1])}

A == <<"a">>
B == <<"b">>
C == <<"c">>
AB == <<"a", "b">>

MCConstOf == [c \in {"'ab'", "'b'", "'c'"} |->
                 CASE c = "'ab'" -> AB [] c = "'b'" -> B [] OTHER -> C]
MCArgs == [c \in {"pq", "pr", "pc"} |->
              CASE c = "pq" -> <<"p", "q">> [] c = "pr" -> <<"p", "r">>
                [] OTHER -> <<"p", "'c'">>]
MCPieces == [c \in DOMAIN MCArgs |-> IF c = "pc" THEN {C} ELSE {}]
Vars == {"x", "y", "p", "q", "r"}
MCTerms == Vars \cup DOMAIN MCConstOf \cup DOMAIN MCArgs

\* The pointers of the terms: some order.
MCTermRank ==
    LET order == <<"pq", "y", "'ab'", "x", "p", "'b'", "pc", "q", "pr", "r", "'c'">>
    IN [t \in MCTerms |-> CHOOSE i \in 1..Len(order) : order[i] = t]

\* Two keys that nothing needs to be merged for: of two constants, and of a
\* constant and a concat with another constant inside.
MCKeys == {<<"x", "y">>, <<"x", "'b'">>, <<"y", "'b'">>, <<"'c'", "y">>,
           <<"'ab'", "'b'">>, <<"'b'", "pc">>}
MCKeyRank ==
    LET order == <<<<"x", "'b'">>, <<"x", "y">>, <<"'ab'", "'b'">>, <<"'c'", "y">>,
                   <<"'b'", "pc">>, <<"y", "'b'">>>>
    IN [k \in MCKeys |-> CHOOSE i \in 1..Len(order) : order[i] = k]

MCPatterns == {"a*b"}
MCMatches == {<<s, "a*b">> : s \in {B, AB, <<"a", "a", "b">>}}
MCRegexKeys == {<<"x", "a*b">>, <<"pq", "a*b">>}

\* What canTwoNodesEq refutes: a concat that ends in c and one that does not
\* have to, but a constant.
MCClashes == {<<"pc", "'ab'">>, <<"'ab'", "pc">>, <<"pc", "'b'">>, <<"'b'", "pc">>}

MCFacts ==
    {<<"x", "'ab'">>, <<"y", "'b'">>, <<"x", "y">>, <<"x", "pq">>, <<"q", "r">>,
     <<"pr", "'ab'">>, <<"y", "pc">>}

Values ==
    {[x |-> x, y |-> y, p |-> p, q |-> q, r |-> r] :
        x \in {AB, B, <<"a", "b", "c">>}, y \in {AB, B, A, <<"a", "c">>},
        p \in {<<>>, A}, q \in {<<>>, B}, r \in {<<>>, B}}
MCModels ==
    {[t \in MCTerms |->
        IF t \in DOMAIN MCConstOf THEN MCConstOf[t]
        ELSE IF t \in Vars THEN v[t]
        ELSE IF t = "pc" THEN v.p \o C
        ELSE v.p \o v[MCArgs[t][2]]] : v \in Values}

=============================================================================
