------------------------------ MODULE MCSearch ------------------------------
(* Alphabets of two and three letters, testers that offer two or three      *)
(* strings: the strings of a length end inside a tester, with a tester and   *)
(* beyond several.                                                           *)
EXTENDS Search

Problem(size, step, max, accepted) ==
    [charSetSize |-> size, valStep |-> step, maxLen |-> max, accepted |-> accepted]

MCProblems ==
    {Problem(2, 2, 2, {<<0>>, <<1, 0>>, <<1, 1>>}), Problem(2, 3, 2, {<<>>, <<0, 1>>}),
     Problem(3, 2, 1, {<<2>>}), Problem(2, 3, 1, {})}

=============================================================================
