---------------------------- MODULE MCDiagnosis -----------------------------
(* Spectra for TLC: every touched/untouched matrix of three elements by     *)
(* three tests and of two elements by four, with the failed tests first (the *)
(* counts do not depend on the order of the tests), and the irregular ones: *)
(* other cells, rows of different lengths, stale results, nothing to rank.  *)
EXTENDS Diagnosis

Verdicts(n) == {[t \in 1..n |-> t > failed] : failed \in 0..n}

Matrices(n, width) ==
    [cells : [1..n -> [1..width -> {"EFFECT", "NA"}]], results : Verdicts(n)]

Irregular ==
    [cells : {<<>>, <<<<>>>>, <<<<"MATCH">>>>, <<<<"MATCH", "NA">>, <<"NO_MATCH">>>>,
              <<<<"INDETERMINATE", "EFFECT">>, <<"MATCH", "RULE_INDETERMINATE", "NA">>>>},
     results : UNION {[1..n -> BOOLEAN] : n \in 0..2}]

MCSpectra == Matrices(3, 3) \cup Matrices(4, 2) \cup Irregular

=============================================================================
