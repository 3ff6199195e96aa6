-------------------------------- MODULE Loops --------------------------------
(***************************************************************************)
(* What the splitting of equations (Splitting) and the map of cuts (Cuts)  *)
(* of the string plug-in share: whether overlaps that would be split for   *)
(* ever are avoided, and whether one was (check then answers UNKNOWN where *)
(* it would answer UNSAT).                                                 *)
(***************************************************************************)
VARIABLES
    avoidLoopCut,   \* off by the option -p
    loopDetected

=============================================================================
