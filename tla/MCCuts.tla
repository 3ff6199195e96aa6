------------------------------- MODULE MCCuts -------------------------------
(***************************************************************************)
(* x . y = m . n, where t1 and t2 are what m shares with y and x with n;    *)
(* t1 . y = "s" . m, where t1 and m must not overlap as t1 is cut from m;   *)
(* and "s" . y = t1 . "r".                                                 *)
(***************************************************************************)
EXTENDS Cuts

CONSTANTS x, y, m, n, t1, t2, t3, t4

MCTerms == {x, y, m, n, t1, t2, t3, t4}
CutPair(overlap, left, right) == [overlap |-> overlap, left |-> left, right |-> right]
MCEquations ==
    {[type |-> 1, parts |-> {x, y, m, n}, cuts |-> <<CutPair(t1, m, y), CutPair(t2, x, n)>>],
     [type |-> 3, parts |-> {t1, y, m}, cuts |-> <<CutPair(t3, t1, m)>>],
     [type |-> 6, parts |-> {t1, y}, cuts |-> <<CutPair(t4, t1, y)>>]}

=============================================================================
