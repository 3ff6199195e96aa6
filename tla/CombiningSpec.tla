--------------------------- MODULE CombiningSpec ----------------------------
(***************************************************************************)
(* What AbstractPolicy.evaluate promises: it answers once, and the answer  *)
(* is one that may be answered to the request.                             *)
(***************************************************************************)
CONSTANT Promise(_)    \* what may be answered to a request

VARIABLES request, answer

NoAnswer == "none"

\* The request is whatever the detailed specification was asked.
Init == answer = NoAnswer

Answer ==
    /\ answer = NoAnswer
    /\ answer' \in Promise(request)
    /\ UNCHANGED request

Spec == Init /\ [][Answer]_<<request, answer>> /\ WF_<<request, answer>>(Answer)

=============================================================================
