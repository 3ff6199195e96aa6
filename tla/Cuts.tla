-------------------------------- MODULE Cuts --------------------------------
(***************************************************************************)
(* How the string plug-in avoids to split for ever (strArgmt.cpp).  When    *)
(* two parts of an equation overlap, a fresh variable stands for the        *)
(* overlap and is split in its turn.  cut_VARMap tells for each term which  *)
(* variables it was cut from; parts that have one in common are not made    *)
(* to overlap.  The map follows the scopes of the search: for each term it  *)
(* has a stack with an entry for each level where the term was cut, and a   *)
(* pop takes entries away.                                                  *)
(*                                                                         *)
(* Which equations are found, and which of their parts may overlap by what *)
(* is known of their lengths, is left to the search (module Splitting has  *)
(* what is asserted).                                                      *)
(***************************************************************************)
EXTENDS Integers, Sequences, FiniteSets, Loops

CONSTANTS
    Terms,          \* variables and the overlaps that stand for
    Equations,      \* [type, parts, cuts]: see EquationsAssumption
    MaxLevel        \* bound on the scopes

VARIABLES
    sLevel,         \* the scopes pushed
    cut_VARMap,     \* the stack of each term, empty if it has none
    broken,         \* varForBreakConcat: the equations that have their overlaps
    exited,         \* the plug-in has come to "should not be here"
    inForce         \* history: the cuts made in the scopes there are

vars == <<avoidLoopCut, sLevel, cut_VARMap, broken, loopDetected, exited, inForce>>

\* parts are those that are no constants; cuts are the pairs of them that may
\* overlap, with the fresh variable for what they share, in the order tried.
CutPairs == [overlap : Terms, left : Terms, right : Terms]
ASSUME EquationsAssumption ==
    \A e \in Equations :
        /\ e.type \in 1..6
        /\ e.parts \subseteq Terms
        /\ e.cuts \in Seq(CutPairs) /\ Len(e.cuts) <= 2
        /\ \A i \in DOMAIN e.cuts : /\ {e.cuts[i].left, e.cuts[i].right} \subseteq e.parts
                                   /\ e.cuts[i].overlap \notin e.parts

-----------------------------------------------------------------------------
(* The map.                                                                *)

Top(stack) == stack[Len(stack)]
CutFrom(map, v) == IF map[v] = <<>> THEN {} ELSE Top(map[v]).vars

\* checkandInit_cutVAR, addCutInfoOneNode: a term that is not in the map is
\* cut from itself, at a level below all scopes.
checkandInit(map, terms) ==
    [v \in Terms |-> IF v \in terms /\ map[v] = <<>> THEN <<[level |-> -1, vars |-> {v}]>>
                     ELSE map[v]]

\* Mutant of MergedTop: a new entry does not take over the older one.
MergedTopOnly(stack, from) ==
    LET entry == [level |-> sLevel, vars |-> from]
    IN IF Top(stack).level < sLevel THEN Append(stack, entry)
       ELSE [stack EXCEPT ![Len(stack)] = entry]

\* addCutInfoMerge, and when it exits instead.
MergedTop(stack, from) ==
    LET entry == [level |-> sLevel, vars |-> Top(stack).vars \cup from]
    IN IF Top(stack).level < sLevel THEN Append(stack, entry)
       ELSE [stack EXCEPT ![Len(stack)] = entry]
addCutInfoMerge(map, dest, src) ==
    [map EXCEPT ![dest] =
        IF map[dest] = <<>> THEN <<[level |-> sLevel, vars |-> Top(map[src]).vars]>>
        ELSE MergedTop(map[dest], Top(map[src]).vars)]
MergeExits(map, dest, src) ==
    map[src] = <<>> \/ (map[dest] # <<>> /\ Top(map[dest]).level > sLevel)

hasSelfCut(map, cut) == CutFrom(map, cut.left) \cap CutFrom(map, cut.right) # {}

-----------------------------------------------------------------------------
(* One equation of two concatenations.  A try is the number of one of its   *)
(* cuts.  Type 6 asks whether its parts may overlap but does not record     *)
(* the cut; type 1 asks even if loops need not be avoided when lengths      *)
(* leave it one cut.                                                        *)

Allowed(map, e, tries, i) ==
    \/ ~hasSelfCut(map, e.cuts[i])
    \/ ~avoidLoopCut /\ ~(e.type = 1 /\ Cardinality(tries) = 1)

Makes(map, e, tries, i) == i \in tries /\ e.type # 6 /\ Allowed(map, e, tries, i)

CutOnce(map, cut) ==
    addCutInfoMerge(addCutInfoMerge(map, cut.overlap, cut.left), cut.overlap, cut.right)
CutExits(map, cut) ==
    \/ MergeExits(map, cut.overlap, cut.left)
    \/ MergeExits(addCutInfoMerge(map, cut.overlap, cut.left), cut.overlap, cut.right)

\* The map before the first try, after it, and after the second.
OverlapsOf(e) == {e.cuts[i].overlap : i \in DOMAIN e.cuts}
Prepared(e) ==
    checkandInit(cut_VARMap, e.parts \cup IF e.type = 1 /\ e \notin broken THEN OverlapsOf(e) ELSE {})
Tried(map, e, tries, i) ==
    IF Makes(map, e, tries, i) THEN CutOnce(map, e.cuts[i]) ELSE map
TriedExits(map, e, tries, i) ==
    Makes(map, e, tries, i) /\ CutExits(map, e.cuts[i])

\* simplifyConcatEq and processConcatEqType_i.  By what is known of the
\* lengths, type 1 tries none of its cuts, one or both.
SimplifyConcatEq(e, tries) ==
    LET first == Prepared(e)
        second == Tried(first, e, tries, 1)
        last == Tried(second, e, tries, 2)
        before == <<first, second>>
    IN /\ exited' = (TriedExits(first, e, tries, 1) \/ TriedExits(second, e, tries, 2))
       /\ cut_VARMap' = last
       /\ broken' = IF e.type \in {1, 2, 3, 6} THEN broken \cup {e} ELSE broken
       /\ loopDetected' = (loopDetected \/ \E i \in tries : ~Allowed(before[i], e, tries, i))
       /\ inForce' = inForce \cup
              {[overlap |-> e.cuts[i].overlap, level |-> sLevel, returned |-> FALSE,
                vars |-> CutFrom(before[i], e.cuts[i].left) \cup CutFrom(before[i], e.cuts[i].right)] :
                  i \in {j \in tries : Makes(before[j], e, tries, j)}}
       /\ UNCHANGED <<avoidLoopCut, sLevel>>

NewEq == \E e \in Equations : \E tries \in SUBSET DOMAIN e.cuts : SimplifyConcatEq(e, tries)

-----------------------------------------------------------------------------
(* Scopes.                                                                 *)

Push ==
    /\ sLevel < MaxLevel
    /\ sLevel' = sLevel + 1
    /\ UNCHANGED <<avoidLoopCut, cut_VARMap, broken, loopDetected, exited, inForce>>

\* Mutant of Popped: the next scope may come with older entries of its level.
PoppedNone(stack, level) == stack

\* What a pop to a level leaves of a stack: entries are taken off while the
\* top one is of that level or a higher one, but never one of level 0.
Stays(entry, level) == entry.level = 0 \/ entry.level < level
Popped(stack, level) ==
    LET staying == {i \in DOMAIN stack : Stays(stack[i], level)}
    IN IF staying = {} THEN <<>>
       ELSE SubSeq(stack, 1, CHOOSE i \in staying : \A j \in staying : i >= j)

Pop ==
    /\ sLevel > 0
    /\ sLevel' = sLevel - 1
    /\ cut_VARMap' = [v \in Terms |-> Popped(cut_VARMap[v], sLevel - 1)]
    /\ inForce' = {[r EXCEPT !.returned = @ \/ (r.level = sLevel - 1 /\ r.level # 0)] :
                       r \in {cut \in inForce : cut.level < sLevel}}
    /\ UNCHANGED <<avoidLoopCut, broken, loopDetected, exited>>

Init ==
    /\ avoidLoopCut \in BOOLEAN
    /\ sLevel = 0
    /\ cut_VARMap = [v \in Terms |-> <<>>]
    /\ broken = {}
    /\ loopDetected = FALSE
    /\ exited = FALSE
    /\ inForce = {}

Next == ~exited /\ (NewEq \/ Push \/ Pop)
Spec == Init /\ [][Next]_vars

-----------------------------------------------------------------------------
(* Properties.                                                             *)

Entries == [level : Int, vars : SUBSET Terms]
TypeOK ==
    /\ avoidLoopCut \in BOOLEAN
    /\ sLevel \in Nat
    /\ cut_VARMap \in [Terms -> Seq(Entries)]
    /\ broken \subseteq Equations
    /\ loopDetected \in BOOLEAN
    /\ exited \in BOOLEAN
    /\ inForce \subseteq
           [overlap : Terms, level : Nat, returned : BOOLEAN, vars : SUBSET Terms]

\* A cut finds its parts in the map, and no entry of a level that is gone on
\* top of its overlap's: the plug-in never comes to "should not be here".
NeverExits == ~exited

\* As long as its scope has not been returned to, a cut that was made is
\* known: its overlap is cut from all that its parts had been cut from.
CutsAreKept ==
    \A r \in inForce : ~exited /\ ~r.returned => r.vars \subseteq CutFrom(cut_VARMap, r.overlap)

\* "backtrack-able cut information" (line 3): a pop takes back the cuts of
\* the scopes it leaves and no others.
CutsAreBacktracked ==
    \A r \in inForce : ~exited => r.vars \subseteq CutFrom(cut_VARMap, r.overlap)

=============================================================================
