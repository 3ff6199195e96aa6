----------------------------- MODULE MCSplitting -----------------------------
(***************************************************************************)
(* All the solutions of x . y = m . n of three characters at most, of an   *)
(* alphabet of two, and all other values of one character at most on each  *)
(* side, or of two at most with parts of the same characters.              *)
(***************************************************************************)
EXTENDS Splitting, SequencesExt

CONSTANT MaxLen

Strings == BoundedSeq(Chars, MaxLen)
Cuts(w) == {<<First(w, i), After(w, i)>> : i \in 0..Len(w)}
Pairs(k) == UNION {Cuts(w) : w \in BoundedSeq(Chars, k)}

Solutions == UNION {{p \o q : p \in Cuts(w), q \in Cuts(w)} : w \in Strings}
Others == {p \o q : p \in Pairs(1), q \in Pairs(2)} \cup {p \o q : p \in Pairs(2), q \in Pairs(1)}
OfString == {p \o <<w>> : p \in Pairs(2), w \in Strings}

MCValues == Solutions \cup Others \cup OfString
MCOverlaps == BoundedSeq(Chars, MaxLen)

=============================================================================
