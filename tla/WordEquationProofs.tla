------------------------- MODULE WordEquationProofs -------------------------
(***************************************************************************)
(* Word equations of the string plug-in (strArgmt.cpp), whatever the terms *)
(* and the strings.                                                        *)
(*                                                                         *)
(* Cuts: whatever the equations and the order of pushes, pops and cuts,    *)
(* the plug-in does not come to "should not be here", and a cut is known   *)
(* as long as its scope has not been returned to.                          *)
(*                                                                         *)
(* Splitting: the axiom of a call says no less than its equation and no    *)
(* more.  The argument is about where the boundaries of the parts lie: of  *)
(* two ways to cut one string, the longer first part has the other one in  *)
(* front and what it has more, the overlap, is in front of the other's     *)
(* second part (Overlap).  A solution makes true all the equations of the  *)
(* option for its boundary, and none of the others' (PlaceIn..., CutsSays, *)
(* OverSays); whoever makes all the equations of an option true is a       *)
(* solution (Joined).                                                      *)
(***************************************************************************)
EXTENDS Cuts, Splitting, SequenceTheorems, WellFoundedInduction, TLAPS

-----------------------------------------------------------------------------
(* How cuts are remembered (Cuts).                                         *)

\* Entries of a stack are of levels that there are and go up, and an entry
\* has all that the ones below have.
StackOK(stack, level) ==
    /\ stack \in Seq(Entries)
    /\ \A i \in DOMAIN stack : stack[i].level <= level
    /\ \A i, j \in DOMAIN stack :
           i < j => stack[i].level < stack[j].level /\ stack[i].vars \subseteq stack[j].vars
MapOK(map) == map \in [Terms -> Seq(Entries)] /\ \A v \in Terms : StackOK(map[v], sLevel)

\* There is an entry of a level with some variables.
Has(stack, level, from) ==
    \E i \in DOMAIN stack : stack[i].level = level /\ from \subseteq stack[i].vars

\* What a map still has of another one.
Extends(new, old) ==
    \A v \in Terms :
        /\ old[v] # <<>> => new[v] # <<>>
        /\ \A level \in Nat : \A from \in SUBSET Terms : Has(old[v], level, from) => Has(new[v], level, from)

CutKnown(r) == ~r.returned => Has(cut_VARMap[r.overlap], r.level, r.vars)

IInv ==
    /\ TypeOK
    /\ ~exited
    /\ MapOK(cut_VARMap)
    /\ \A r \in inForce : r.level <= sLevel /\ CutKnown(r)

-----------------------------------------------------------------------------
(* Stacks.                                                                 *)

LEMMA LastIsLargest ==
    ASSUME NEW N \in Nat, NEW S \in SUBSET (1..N), S # {}
    PROVE  \E i \in S : \A j \in S : i >= j
<1> DEFINE T == {N - i : i \in S}
<1>1. T \subseteq Nat /\ T # {}
    <2>1. PICK i \in S : TRUE
        OBVIOUS
    <2>2. N - i \in T
        BY <2>1
    <2>3. \A j \in S : N - j \in Nat
        BY SMT
    <2> QED BY <2>2, <2>3
<1>2. PICK k \in T : \A l \in T : ~(<<l, k>> \in OpToRel(<, Nat))
    <2>1. \E k \in T : \A l \in T : ~(<<l, k>> \in OpToRel(<, Nat))
        BY <1>1, NatLessThanWellFounded, WFMin, Zenon
    <2> QED BY <2>1
<1>3. \A l \in T : ~(l < k)
    BY <1>1, <1>2 DEF OpToRel
<1>4. PICK i \in S : k = N - i
    OBVIOUS
<1>5. ASSUME NEW j \in S PROVE i >= j
    <2>1. ~(N - j < N - i)
        BY <1>3, <1>4
    <2> QED BY <2>1
<1> QED BY <1>5

LEMMA LastOrBefore == \A N \in Nat : \A i \in 1..N : i = N \/ i < N
    OBVIOUS

LEMMA TopOK ==
    ASSUME NEW stack, NEW level, StackOK(stack, level), stack # <<>>
    PROVE  /\ Len(stack) \in DOMAIN stack
           /\ Top(stack) \in Entries
           /\ \A k, from : Has(stack, k, from) => from \subseteq Top(stack).vars
<1>1. /\ stack \in Seq(Entries) /\ Len(stack) \in Nat /\ Len(stack) \in 1..Len(stack)
      /\ DOMAIN stack = 1..Len(stack)
    BY LenProperties, EmptySeq DEF StackOK
<1>2. Top(stack) \in Entries
    BY <1>1, ElementOfSeq DEF Top
<1>3. ASSUME NEW k, NEW from, Has(stack, k, from) PROVE from \subseteq Top(stack).vars
    <2>1. PICK i \in 1..Len(stack) : from \subseteq stack[i].vars
        BY <1>1, <1>3 DEF Has
    <2>2. i = Len(stack) \/ i < Len(stack)
        BY <1>1, LastOrBefore
    <2> QED BY <1>1, <2>1, <2>2 DEF StackOK, Top
<1> QED BY <1>1, <1>2, <1>3

\* Merging keeps all there is, and adds to the top.
LEMMA MergedTopOK ==
    ASSUME sLevel \in Nat, NEW stack, StackOK(stack, sLevel), stack # <<>>,
           NEW from \in SUBSET Terms
    PROVE  LET new == MergedTop(stack, from)
           IN /\ StackOK(new, sLevel) /\ new # <<>>
              /\ \A k, vs : Has(stack, k, vs) => Has(new, k, vs)
              /\ Top(new).level = sLevel /\ Top(new).vars = Top(stack).vars \cup from
<1> DEFINE l == Len(stack)
           entry == [level |-> sLevel, vars |-> Top(stack).vars \cup from]
<1>1. /\ stack \in Seq(Entries) /\ l \in Nat /\ l > 0 /\ DOMAIN stack = 1..l
      /\ Top(stack) \in Entries /\ Top(stack) = stack[l]
      /\ Top(stack).level <= sLevel
    BY TopOK, LenProperties DEF StackOK, Top
<1>2. entry \in Entries /\ entry.level = sLevel /\ entry.vars = Top(stack).vars \cup from
    BY <1>1 DEF Entries
<1>3. \A i \in 1..l : stack[i] \in Entries /\ stack[i].vars \subseteq Top(stack).vars
    <2> TAKE i \in 1..l
    <2>1. stack[i] \in Entries
        BY <1>1, ElementOfSeq
    <2>2. i = l \/ i < l
        BY <1>1, LastOrBefore
    <2>3. CASE i = l
        BY <1>1, <2>1, <2>3
    <2>4. CASE i < l
        <3>1. stack[i].vars \subseteq stack[l].vars
            BY <1>1, <2>4 DEF StackOK
        <3> QED BY <1>1, <2>1, <3>1
    <2> QED BY <2>2, <2>3, <2>4
<1>4. CASE Top(stack).level < sLevel
    <2> DEFINE new == Append(stack, entry)
    <2>1. new = MergedTop(stack, from)
        BY <1>4 DEF MergedTop
    <2>2. /\ new \in Seq(Entries) /\ new # <<>> /\ Len(new) = l + 1 /\ DOMAIN new = 1..(l + 1)
          /\ \A i \in 1..l : new[i] = stack[i]
          /\ new[l + 1] = entry
        <3>1. /\ new \in Seq(Entries) /\ new # <<>> /\ Len(new) = l + 1
              /\ \A i \in 1..l : new[i] = stack[i]
              /\ new[l + 1] = entry
            <4>1. stack \in Seq(Entries) /\ entry \in Entries
                BY <1>1, <1>2
            <4> HIDE DEF entry
            <4> QED BY <4>1, AppendProperties
        <3>2. DOMAIN new = 1..Len(new)
            BY <3>1, LenProperties
        <3> QED BY <3>1, <3>2
    <2>3. \A i \in 1..l : stack[i].level < sLevel
        <3> TAKE i \in 1..l
        <3>1. i = l \/ i < l
            BY <1>1, LastOrBefore
        <3>2. stack[i].level \in Int /\ stack[l].level \in Int
            BY <1>1, <1>3 DEF Entries
        <3>3. CASE i = l
            BY <1>1, <1>4, <3>3
        <3>4. CASE i < l
            <4>1. stack[i].level < stack[l].level
                BY <1>1, <3>4 DEF StackOK
            <4> QED BY <1>1, <1>4, <3>2, <4>1
        <3> QED BY <3>1, <3>3, <3>4
    <2>4. \A i \in 1..(l + 1) : i \in 1..l \/ i = l + 1
        BY <1>1
    <2>5. \A i \in DOMAIN new : new[i].level <= sLevel
        BY <1>1, <1>2, <2>2, <2>3, <2>4 DEF StackOK
    <2>6. ASSUME NEW i \in DOMAIN new, NEW j \in DOMAIN new, i < j
          PROVE  new[i].level < new[j].level /\ new[i].vars \subseteq new[j].vars
        <3>1. i \in 1..l /\ (j \in 1..l \/ j = l + 1)
            BY <1>1, <2>2, <2>4, <2>6
        <3>2. CASE j \in 1..l
            BY <1>1, <2>2, <2>6, <3>1, <3>2 DEF StackOK
        <3>3. CASE j = l + 1
            BY <1>2, <1>3, <2>2, <2>3, <3>1, <3>3
        <3> QED BY <3>1, <3>2, <3>3
    <2>7. ASSUME NEW k, NEW vs, Has(stack, k, vs) PROVE Has(new, k, vs)
        <3>1. PICK i \in 1..l : stack[i].level = k /\ vs \subseteq stack[i].vars
            BY <1>1, <2>7 DEF Has
        <3>2. i \in DOMAIN new /\ new[i] = stack[i]
            BY <1>1, <2>2
        <3> QED BY <3>1, <3>2 DEF Has
    <2>8. Top(new) = entry
        BY <2>2 DEF Top
    <2> HIDE DEF new
    <2> QED BY <1>2, <2>1, <2>2, <2>5, <2>6, <2>7, <2>8 DEF StackOK
<1>5. CASE ~(Top(stack).level < sLevel)
    <2> DEFINE new == [stack EXCEPT ![Len(stack)] = entry]
    <2>1. new = MergedTop(stack, from)
        BY <1>5 DEF MergedTop
    <2>2. /\ new \in Seq(Entries) /\ Len(new) = l /\ DOMAIN new = 1..l
          /\ \A i \in 1..l : new[i] = IF i = l THEN entry ELSE stack[i]
        BY <1>1, <1>2, ExceptSeq, LenProperties
    <2>3. Top(new) = entry /\ new # <<>>
        BY <1>1, <2>2, EmptySeq DEF Top
    <2>4. stack[l].level = sLevel
        BY <1>1, <1>5 DEF Entries
    <2>5. \A i \in DOMAIN new : new[i].level <= sLevel
        BY <1>1, <1>2, <2>2 DEF StackOK
    <2>6. ASSUME NEW i \in DOMAIN new, NEW j \in DOMAIN new, i < j
          PROVE  new[i].level < new[j].level /\ new[i].vars \subseteq new[j].vars
        <3>1. i \in 1..l /\ j \in 1..l /\ i # l /\ new[i] = stack[i]
            BY <1>1, <2>2, <2>6
        <3>2. CASE j = l
            BY <1>1, <1>2, <1>3, <2>2, <2>4, <2>6, <3>1, <3>2 DEF StackOK
        <3>3. CASE j # l
            BY <1>1, <2>2, <2>6, <3>1, <3>3 DEF StackOK
        <3> QED BY <3>2, <3>3
    <2>7. ASSUME NEW k, NEW vs, Has(stack, k, vs) PROVE Has(new, k, vs)
        <3>1. PICK i \in 1..l : stack[i].level = k /\ vs \subseteq stack[i].vars
            BY <1>1, <2>7 DEF Has
        <3>2. i \in DOMAIN new /\ new[i].level = k /\ vs \subseteq new[i].vars
            BY <1>1, <1>2, <1>3, <2>2, <2>4, <3>1
        <3> QED BY <3>2 DEF Has
    <2> HIDE DEF new
    <2> QED BY <1>2, <2>1, <2>2, <2>3, <2>5, <2>6, <2>7 DEF StackOK
<1> QED BY <1>4, <1>5

\* A pop keeps the entries of lower levels, and those of level 0.
LEMMA PoppedOK ==
    ASSUME NEW level \in Nat, NEW stack, StackOK(stack, level + 1)
    PROVE  /\ StackOK(Popped(stack, level), level)
           /\ \A k \in Nat : \A vs : Has(stack, k, vs) /\ (k = 0 \/ k < level)
                                     => Has(Popped(stack, level), k, vs)
<1> DEFINE staying == {i \in DOMAIN stack : Stays(stack[i], level)}
<1>1. stack \in Seq(Entries) /\ Len(stack) \in Nat /\ DOMAIN stack = 1..Len(stack)
    BY LenProperties DEF StackOK
<1>2. CASE staying = {}
    <2>1. Popped(stack, level) = <<>>
        BY <1>2 DEF Popped
    <2>2. \A k \in Nat : \A vs : (k = 0 \/ k < level) => ~Has(stack, k, vs)
        BY <1>2 DEF Has, Stays
    <2> QED BY <2>1, <2>2, EmptySeq DEF StackOK
<1>3. CASE staying # {}
    <2> DEFINE last == CHOOSE i \in staying : \A j \in staying : i >= j
               new == SubSeq(stack, 1, last)
    <2>1. last \in staying /\ \A j \in staying : last >= j
        BY <1>1, <1>3, LastIsLargest
    <2>2. Popped(stack, level) = new
        BY <1>3 DEF Popped
    <2>3. last \in 1..Len(stack) /\ \A i \in 1..last : i \in 1..Len(stack) /\ stack[i] \in Entries
        BY <1>1, <2>1, ElementOfSeq
    <2> HIDE DEF last
    <2>4. /\ new \in Seq(Entries) /\ Len(new) = last /\ DOMAIN new = 1..last
          /\ \A i \in 1..last : new[i] = stack[i]
        <3>1. /\ new \in Seq(Entries)
              /\ Len(new) = IF 1 <= last THEN last - 1 + 1 ELSE 0
              /\ \A i \in 1..(last - 1 + 1) : new[i] = stack[1 + i - 1]
            BY <2>3, SubSeqProperties
        <3>2. Len(new) = last /\ \A i \in 1..last : new[i] = stack[i]
            BY <2>3, <3>1
        <3> QED BY <3>1, <3>2, LenProperties
    <2>5. \A i \in 1..last : stack[i].level <= level
        <3> TAKE i \in 1..last
        <3>1. stack[last].level <= level
            BY <2>1, <2>3 DEF Stays, Entries
        <3>2. i = last \/ i < last
            BY <2>3, LastOrBefore
        <3>3. CASE i < last
            <4>1. stack[i].level < stack[last].level
                BY <1>1, <2>3, <3>3 DEF StackOK
            <4>2. stack[i].level \in Int /\ stack[last].level \in Int
                BY <2>3 DEF Entries
            <4> QED BY <3>1, <4>1, <4>2
        <3> QED BY <3>1, <3>2, <3>3
    <2>6. StackOK(new, level)
        <3> HIDE DEF new
        <3>1. \A i, j \in 1..last : i \in DOMAIN stack /\ j \in DOMAIN stack
            BY <1>1, <2>3
        <3> QED BY <2>4, <2>5, <3>1 DEF StackOK
    <2>7. ASSUME NEW k \in Nat, NEW vs, Has(stack, k, vs), k = 0 \/ k < level
          PROVE  Has(new, k, vs)
        <3>1. PICK i \in 1..Len(stack) : stack[i].level = k /\ vs \subseteq stack[i].vars
            BY <1>1, <2>7 DEF Has
        <3>2. i \in staying
            BY <1>1, <2>7, <3>1 DEF Stays
        <3>3. i \in DOMAIN new /\ new[i] = stack[i]
            BY <2>1, <2>3, <2>4, <3>2
        <3> QED BY <3>1, <3>3 DEF Has
    <2> QED BY <2>2, <2>6, <2>7
<1> QED BY <1>2, <1>3

-----------------------------------------------------------------------------
(* Maps.                                                                   *)

LEMMA OneEntryOK ==
    ASSUME NEW level \in Int, NEW entry \in Entries, entry.level <= level
    PROVE  StackOK(<<entry>>, level) /\ <<entry>> # <<>> /\ Top(<<entry>>) = entry
<1>1. /\ <<entry>> \in Seq(Entries) /\ DOMAIN <<entry>> = 1..1 /\ Len(<<entry>>) = 1
      /\ <<entry>>[1] = entry
    OBVIOUS
<1>2. \A i \in 1..1 : i = 1
    OBVIOUS
<1>3. \A i, j \in 1..1 : ~(i < j)
    OBVIOUS
<1>4. Top(<<entry>>) = entry /\ <<entry>> # <<>>
    BY <1>1 DEF Top
<1> DEFINE stack == <<entry>>
<1>5. stack \in Seq(Entries) /\ DOMAIN stack = 1..1 /\ stack[1] = entry
    BY <1>1
<1>6. StackOK(stack, level)
    <2> HIDE DEF stack
    <2> QED BY <1>2, <1>3, <1>5 DEF StackOK
<1> QED BY <1>4, <1>6

LEMMA CutFromIn ==
    ASSUME NEW map, MapOK(map), NEW v \in Terms
    PROVE  CutFrom(map, v) \in SUBSET Terms
<1>1. CASE map[v] = <<>>
    BY <1>1 DEF CutFrom
<1>2. CASE map[v] # <<>>
    <2>1. Top(map[v]) \in Entries
        BY <1>2, TopOK DEF MapOK
    <2> QED BY <1>2, <2>1 DEF CutFrom, Entries
<1> QED BY <1>1, <1>2

LEMMA ExtendsTransitively ==
    ASSUME NEW a, NEW b, NEW c, Extends(b, a), Extends(c, b)
    PROVE  Extends(c, a)
    BY DEF Extends

\* Merging never exits if the source is in the map, and leaves the
\* destination cut, at this level, from what both were cut from.
LEMMA MergeOK ==
    ASSUME sLevel \in Nat, NEW map, MapOK(map), NEW dest \in Terms, NEW src \in Terms,
           map[src] # <<>>
    PROVE  LET new == addCutInfoMerge(map, dest, src)
           IN /\ MapOK(new) /\ Extends(new, map) /\ ~MergeExits(map, dest, src)
              /\ new[dest] # <<>> /\ Top(new[dest]).level = sLevel
              /\ CutFrom(map, dest) \cup CutFrom(map, src) \subseteq Top(new[dest]).vars
              /\ \A v \in Terms : v # dest => new[v] = map[v]
<1> DEFINE new == addCutInfoMerge(map, dest, src)
           from == Top(map[src]).vars
           stack == IF map[dest] = <<>> THEN <<[level |-> sLevel, vars |-> from]>>
                    ELSE MergedTop(map[dest], from)
<1>1. /\ map \in [Terms -> Seq(Entries)]
      /\ StackOK(map[dest], sLevel) /\ StackOK(map[src], sLevel)
    BY DEF MapOK
<1>2. Top(map[src]) \in Entries /\ from \in SUBSET Terms /\ CutFrom(map, src) = from
    <2>1. Top(map[src]) \in Entries
        BY <1>1, TopOK
    <2> QED BY <2>1 DEF Entries, CutFrom
<1>3. /\ StackOK(stack, sLevel) /\ stack # <<>>
      /\ Top(stack).level = sLevel /\ CutFrom(map, dest) \cup from \subseteq Top(stack).vars
      /\ \A k, vs : Has(map[dest], k, vs) => Has(stack, k, vs)
    <2>1. CASE map[dest] = <<>>
        <3> DEFINE entry == [level |-> sLevel, vars |-> from]
        <3>1. entry \in Entries /\ entry.level = sLevel /\ entry.vars = from
            BY <1>2 DEF Entries
        <3>2. stack = <<entry>>
            BY <2>1
        <3> HIDE DEF entry
        <3>3. StackOK(<<entry>>, sLevel) /\ <<entry>> # <<>> /\ Top(<<entry>>) = entry
            BY <3>1, OneEntryOK
        <3>4. \A k, vs : ~Has(map[dest], k, vs)
            BY <2>1 DEF Has
        <3>5. CutFrom(map, dest) = {}
            BY <2>1 DEF CutFrom
        <3> HIDE DEF stack, from
        <3> QED BY <3>1, <3>2, <3>3, <3>4, <3>5
    <2>2. CASE map[dest] # <<>>
        <3>1. stack = MergedTop(map[dest], from) /\ CutFrom(map, dest) = Top(map[dest]).vars
            BY <2>2 DEF CutFrom
        <3> HIDE DEF stack, from
        <3> QED BY <1>1, <1>2, <2>2, <3>1, MergedTopOK
    <2> QED BY <2>1, <2>2
<1>4. new = [map EXCEPT ![dest] = stack]
    BY DEF addCutInfoMerge
<1> HIDE DEF new, stack, from
<1>5. new[dest] = stack /\ \A v \in Terms : v # dest => new[v] = map[v]
    BY <1>1, <1>4
<1>6. MapOK(new)
    <2>1. stack \in Seq(Entries)
        BY <1>3 DEF StackOK
    <2>2. new \in [Terms -> Seq(Entries)]
        BY <1>1, <1>4, <2>1
    <2>3. \A v \in Terms : StackOK(new[v], sLevel)
        BY <1>3, <1>5 DEF MapOK
    <2> QED BY <2>2, <2>3 DEF MapOK
<1>7. Extends(new, map)
    BY <1>3, <1>5 DEF Extends
<1>8. ~MergeExits(map, dest, src)
    <2>1. ASSUME map[dest] # <<>> PROVE ~(Top(map[dest]).level > sLevel)
        <3>1. Len(map[dest]) \in DOMAIN map[dest] /\ Top(map[dest]) \in Entries
            BY <1>1, <2>1, TopOK
        <3>2. Top(map[dest]).level <= sLevel
            BY <1>1, <3>1 DEF StackOK, Top
        <3> QED BY <3>1, <3>2 DEF Entries
    <2> QED BY <2>1 DEF MergeExits
<1> QED BY <1>2, <1>3, <1>5, <1>6, <1>7, <1>8 DEF new

LEMMA TwoMergesOK ==
    ASSUME sLevel \in Nat, NEW map, MapOK(map), NEW o \in Terms, NEW left \in Terms,
           NEW right \in Terms, map[left] # <<>>, map[right] # <<>>, o # right
    PROVE  LET half == addCutInfoMerge(map, o, left)
               new == addCutInfoMerge(half, o, right)
           IN /\ MapOK(new) /\ Extends(new, map)
              /\ ~MergeExits(map, o, left) /\ ~MergeExits(half, o, right)
              /\ Has(new[o], sLevel, CutFrom(map, left) \cup CutFrom(map, right))
<1> DEFINE half == addCutInfoMerge(map, o, left)
           new == addCutInfoMerge(half, o, right)
<1>1. /\ MapOK(half) /\ Extends(half, map) /\ ~MergeExits(map, o, left)
      /\ half[o] # <<>> /\ CutFrom(map, left) \subseteq Top(half[o]).vars
      /\ half[right] = map[right]
    BY MergeOK
<1> HIDE DEF half
<1>2. /\ half[right] # <<>> /\ CutFrom(half, right) = CutFrom(map, right)
      /\ CutFrom(half, o) = Top(half[o]).vars
    BY <1>1 DEF CutFrom
<1>3. /\ MapOK(new) /\ Extends(new, half) /\ ~MergeExits(half, o, right)
      /\ new[o] # <<>> /\ Top(new[o]).level = sLevel
      /\ CutFrom(half, o) \cup CutFrom(half, right) \subseteq Top(new[o]).vars
    BY SMTT(30), <1>1, <1>2, MergeOK
<1> HIDE DEF new
<1>4. Has(new[o], sLevel, CutFrom(map, left) \cup CutFrom(map, right))
    <2> DEFINE vs == CutFrom(map, left) \cup CutFrom(map, right)
    <2>1. StackOK(new[o], sLevel) /\ vs \subseteq Top(new[o]).vars
        BY <1>1, <1>2, <1>3 DEF MapOK
    <2>2. Len(new[o]) \in DOMAIN new[o]
        BY <1>3, <2>1, TopOK
    <2> HIDE DEF vs
    <2>3. Has(new[o], sLevel, vs)
        BY <1>3, <2>1, <2>2 DEF Has, Top
    <2> QED BY <2>3 DEF vs
<1>5. Extends(new, map)
    BY <1>1, <1>3, ExtendsTransitively
<1> QED BY <1>1, <1>3, <1>4, <1>5 DEF half, new

\* A cut of two parts in the map is known at this level.
LEMMA CutOnceOK ==
    ASSUME sLevel \in Nat, NEW map, MapOK(map), NEW cut \in CutPairs,
           map[cut.left] # <<>>, map[cut.right] # <<>>, cut.overlap # cut.right
    PROVE  /\ MapOK(CutOnce(map, cut)) /\ Extends(CutOnce(map, cut), map) /\ ~CutExits(map, cut)
           /\ Has(CutOnce(map, cut)[cut.overlap], sLevel,
                  CutFrom(map, cut.left) \cup CutFrom(map, cut.right))
<1>1. cut.overlap \in Terms /\ cut.left \in Terms /\ cut.right \in Terms
    BY DEF CutPairs
<1>2. PICK o \in Terms, left \in Terms, right \in Terms :
          o = cut.overlap /\ left = cut.left /\ right = cut.right
    BY <1>1
<1> QED BY <1>2, TwoMergesOK DEF CutOnce, CutExits

\* The terms asked for are in the map, and nothing else changes.
LEMMA CheckandInitOK ==
    ASSUME sLevel \in Nat, NEW map, MapOK(map), NEW terms \in SUBSET Terms
    PROVE  LET new == checkandInit(map, terms)
           IN MapOK(new) /\ Extends(new, map) /\ \A v \in terms : new[v] # <<>>
<1> DEFINE new == checkandInit(map, terms)
           entry(v) == [level |-> -1, vars |-> {v}]
<1>1. ASSUME NEW v \in Terms
      PROVE  /\ entry(v) \in Entries /\ entry(v).level <= sLevel
             /\ StackOK(<<entry(v)>>, sLevel) /\ <<entry(v)>> # <<>>
             /\ <<entry(v)>> \in Seq(Entries)
    <2>1. entry(v) \in Entries /\ entry(v).level <= sLevel
        BY DEF Entries
    <2> HIDE DEF entry
    <2>2. StackOK(<<entry(v)>>, sLevel) /\ <<entry(v)>> # <<>>
        BY <2>1, OneEntryOK
    <2> QED BY <2>1, <2>2
<1>2. \A v \in Terms : new[v] = IF v \in terms /\ map[v] = <<>> THEN <<entry(v)>> ELSE map[v]
    BY DEF checkandInit
<1>3. new = [v \in Terms |-> new[v]]
    BY DEF checkandInit
<1> HIDE DEF new, entry
<1>4. \A v \in Terms : new[v] \in Seq(Entries) /\ StackOK(new[v], sLevel)
    BY <1>1, <1>2 DEF MapOK
<1>5. MapOK(new)
    BY <1>3, <1>4 DEF MapOK
<1>6. Extends(new, map)
    <2>1. \A k, vs : ~Has(<<>>, k, vs)
        BY DEF Has
    <2>2. ASSUME NEW v \in Terms
          PROVE  /\ map[v] # <<>> => new[v] # <<>>
                 /\ \A k, vs : Has(map[v], k, vs) => Has(new[v], k, vs)
        <3>1. CASE map[v] = <<>>
            BY <2>1, <3>1
        <3>2. CASE map[v] # <<>>
            BY <1>2, <3>2
        <3> QED BY <3>1, <3>2
    <2> QED BY <2>2 DEF Extends
<1>7. \A v \in terms : new[v] # <<>>
    BY <1>1, <1>2
<1> QED BY <1>5, <1>6, <1>7 DEF new

\* The cuts of an equation are of terms, and do not cut a part itself.
LEMMA CutsOfEquation ==
    ASSUME NEW e \in Equations, NEW i \in DOMAIN e.cuts
    PROVE  /\ e.cuts[i] \in CutPairs
           /\ e.cuts[i].left \in e.parts /\ e.cuts[i].right \in e.parts
           /\ e.cuts[i].overlap # e.cuts[i].right
<1>1. e.cuts \in Seq(CutPairs)
    BY EquationsAssumption
<1>2. e.cuts[i] \in CutPairs
    BY <1>1, LenProperties, ElementOfSeq
<1> QED BY <1>2, EquationsAssumption

LEMMA PreparedOK ==
    ASSUME sLevel \in Nat, MapOK(cut_VARMap), NEW e \in Equations
    PROVE  /\ MapOK(Prepared(e)) /\ Extends(Prepared(e), cut_VARMap)
           /\ \A v \in e.parts : Prepared(e)[v] # <<>>
<1> DEFINE terms == e.parts \cup IF e.type = 1 /\ e \notin broken THEN OverlapsOf(e) ELSE {}
<1>1. e.parts \in SUBSET Terms
    BY EquationsAssumption
<1>2. OverlapsOf(e) \in SUBSET Terms
    <2>1. \A i \in DOMAIN e.cuts : e.cuts[i].overlap \in Terms
        BY CutsOfEquation DEF CutPairs
    <2> QED BY <2>1 DEF OverlapsOf
<1>3. terms \in SUBSET Terms /\ e.parts \subseteq terms
    BY <1>1, <1>2
<1>4. Prepared(e) = checkandInit(cut_VARMap, terms)
    BY DEF Prepared
<1> HIDE DEF terms
<1> QED BY <1>3, <1>4, CheckandInitOK

\* A try of an equation whose parts are in the map does not exit, keeps what
\* there is, and leaves its cut known.
LEMMA TriedOK ==
    ASSUME sLevel \in Nat, NEW map, MapOK(map), NEW e \in Equations,
           \A v \in e.parts : map[v] # <<>>,
           NEW tries \in SUBSET DOMAIN e.cuts, NEW i
    PROVE  LET new == Tried(map, e, tries, i)
           IN /\ MapOK(new) /\ Extends(new, map) /\ ~TriedExits(map, e, tries, i)
              /\ \A v \in e.parts : new[v] # <<>>
              /\ Makes(map, e, tries, i) =>
                     Has(new[e.cuts[i].overlap], sLevel,
                         CutFrom(map, e.cuts[i].left) \cup CutFrom(map, e.cuts[i].right))
<1> DEFINE new == Tried(map, e, tries, i)
<1>0. e.parts \subseteq Terms
    BY EquationsAssumption
<1>1. CASE ~Makes(map, e, tries, i)
    <2>1. new = map /\ ~TriedExits(map, e, tries, i)
        BY <1>1 DEF Tried, TriedExits
    <2>2. Extends(map, map)
        BY DEF Extends
    <2> HIDE DEF new
    <2>3. /\ MapOK(new) /\ Extends(new, map) /\ ~TriedExits(map, e, tries, i)
          /\ \A v \in e.parts : new[v] # <<>>
        BY <2>1, <2>2
    <2> QED BY <1>1, <2>3 DEF new
<1>2. CASE Makes(map, e, tries, i)
    <2>1. i \in DOMAIN e.cuts
        BY <1>2 DEF Makes
    <2> DEFINE cut == e.cuts[i]
    <2>2. /\ cut \in CutPairs /\ map[cut.left] # <<>> /\ map[cut.right] # <<>>
          /\ cut.overlap # cut.right
        BY <2>1, CutsOfEquation
    <2>3. new = CutOnce(map, cut) /\ TriedExits(map, e, tries, i) = CutExits(map, cut)
        BY <1>2 DEF Tried, TriedExits, CutExits, MergeExits
    <2> HIDE DEF new, cut
    <2>4. /\ MapOK(new) /\ Extends(new, map) /\ ~CutExits(map, cut)
          /\ Has(new[cut.overlap], sLevel, CutFrom(map, cut.left) \cup CutFrom(map, cut.right))
        BY <2>2, <2>3, CutOnceOK
    <2>5. \A v \in e.parts : new[v] # <<>>
        BY <1>0, <2>4 DEF Extends
    <2> QED BY <2>3, <2>4, <2>5 DEF new, cut
<1> QED BY <1>1, <1>2

-----------------------------------------------------------------------------
(* The steps.                                                              *)

LEMMA InitOK == Init => IInv
<1> SUFFICES ASSUME Init PROVE IInv
    OBVIOUS
<1>1. /\ avoidLoopCut \in BOOLEAN /\ sLevel = 0 /\ cut_VARMap = [v \in Terms |-> <<>>]
      /\ broken = {} /\ loopDetected = FALSE /\ exited = FALSE /\ inForce = {}
    BY DEF Init
<1>2. <<>> \in Seq(Entries) /\ StackOK(<<>>, 0)
    BY EmptySeq DEF StackOK
<1>3. cut_VARMap \in [Terms -> Seq(Entries)] /\ \A v \in Terms : StackOK(cut_VARMap[v], sLevel)
    BY <1>1, <1>2
<1>4. TypeOK
    BY <1>1, <1>3 DEF TypeOK
<1> QED BY <1>1, <1>3, <1>4 DEF IInv, MapOK

\* What is known of a cut stays known in a map that extends the one before.
LEMMA KnownStays ==
    ASSUME TypeOK, NEW r \in inForce, NEW new, Extends(new, cut_VARMap),
           Has(cut_VARMap[r.overlap], r.level, r.vars)
    PROVE  Has(new[r.overlap], r.level, r.vars)
<1>1. r.overlap \in Terms /\ r.level \in Nat /\ r.vars \in SUBSET Terms
    BY DEF TypeOK
<1>2. PICK o \in Terms, k \in Nat, vs \in SUBSET Terms :
          o = r.overlap /\ k = r.level /\ vs = r.vars
    BY <1>1
<1>3. Has(cut_VARMap[o], k, vs)
    BY <1>2
<1>4. Has(new[o], k, vs)
    BY <1>3 DEF Extends
<1> QED BY <1>2, <1>4

LEMMA NewEqOK == IInv /\ NewEq => IInv'
<1> SUFFICES ASSUME IInv, NEW e \in Equations, NEW tries \in SUBSET DOMAIN e.cuts,
                    SimplifyConcatEq(e, tries)
             PROVE  IInv'
    BY DEF NewEq
<1> DEFINE first == Prepared(e)
           second == Tried(first, e, tries, 1)
           last == Tried(second, e, tries, 2)
           before == <<first, second>>
           Vars(i) == CutFrom(before[i], e.cuts[i].left) \cup CutFrom(before[i], e.cuts[i].right)
           NewCut(i) == [overlap |-> e.cuts[i].overlap, level |-> sLevel, returned |-> FALSE,
                      vars |-> Vars(i)]
           made == {j \in tries : Makes(before[j], e, tries, j)}
<1>1. /\ TypeOK /\ exited = FALSE /\ sLevel \in Nat /\ MapOK(cut_VARMap)
      /\ \A r \in inForce : r.level <= sLevel /\ CutKnown(r)
    BY DEF IInv, TypeOK
<1>2. /\ exited' = (TriedExits(first, e, tries, 1) \/ TriedExits(second, e, tries, 2))
      /\ cut_VARMap' = last
      /\ broken' = IF e.type \in {1, 2, 3, 6} THEN broken \cup {e} ELSE broken
      /\ loopDetected' = (loopDetected \/ \E i \in tries : ~Allowed(before[i], e, tries, i))
      /\ inForce' = inForce \cup {NewCut(i) : i \in made}
      /\ UNCHANGED <<avoidLoopCut, sLevel>>
    BY DEF SimplifyConcatEq
<1>3. /\ MapOK(first) /\ Extends(first, cut_VARMap)
      /\ \A v \in e.parts : first[v] # <<>>
    BY <1>1, PreparedOK
<1>4. /\ MapOK(second) /\ Extends(second, first) /\ ~TriedExits(first, e, tries, 1)
      /\ \A v \in e.parts : second[v] # <<>>
      /\ Makes(first, e, tries, 1) =>
             Has(second[e.cuts[1].overlap], sLevel,
                 CutFrom(first, e.cuts[1].left) \cup CutFrom(first, e.cuts[1].right))
    <2> HIDE DEF first
    <2> QED BY <1>1, <1>3, TriedOK
<1>5. /\ MapOK(last) /\ Extends(last, second) /\ ~TriedExits(second, e, tries, 2)
      /\ Makes(second, e, tries, 2) =>
             Has(last[e.cuts[2].overlap], sLevel,
                 CutFrom(second, e.cuts[2].left) \cup CutFrom(second, e.cuts[2].right))
    <2> HIDE DEF first, second
    <2> QED BY <1>1, <1>4, TriedOK
<1>6. before[1] = first /\ before[2] = second
    OBVIOUS
<1> HIDE DEF first, second, last, before
<1>7. Extends(last, cut_VARMap)
    BY <1>3, <1>4, <1>5, ExtendsTransitively
<1>8. ASSUME NEW i \in tries
      PROVE  i = 1 \/ i = 2
    <2>1. e.cuts \in Seq(CutPairs) /\ Len(e.cuts) <= 2
        BY EquationsAssumption
    <2>2. Len(e.cuts) \in Nat /\ i \in 1..Len(e.cuts)
        BY <2>1, LenProperties
    <2> QED BY <2>1, <2>2
<1>9. ASSUME NEW i \in made
      PROVE  /\ e.cuts[i].overlap \in Terms /\ Vars(i) \in SUBSET Terms
             /\ Has(last[e.cuts[i].overlap], sLevel, Vars(i))
    <2>1. i \in tries /\ Makes(before[i], e, tries, i)
        OBVIOUS
    <2>2. /\ e.cuts[i].overlap \in Terms /\ e.cuts[i].left \in Terms
          /\ e.cuts[i].right \in Terms
        BY <2>1, CutsOfEquation DEF CutPairs
    <2>3. MapOK(before[i])
        BY <1>3, <1>4, <1>6, <1>8, <2>1
    <2>4. Vars(i) \in SUBSET Terms
        BY <2>2, <2>3, CutFromIn
    <2>5. CASE i = 1
        <3>1. Has(second[e.cuts[1].overlap], sLevel, Vars(1))
            BY <1>4, <1>6, <2>1, <2>5
        <3>2. e.cuts[1].overlap \in Terms /\ Vars(1) \in SUBSET Terms
            BY <2>2, <2>4, <2>5
        <3> HIDE DEF Vars
        <3>3. Has(last[e.cuts[1].overlap], sLevel, Vars(1))
            BY <1>1, <1>5, <3>1, <3>2 DEF Extends
        <3> QED BY <2>2, <2>4, <2>5, <3>3
    <2>6. CASE i = 2
        <3>1. Has(last[e.cuts[2].overlap], sLevel, Vars(2))
            BY <1>5, <1>6, <2>1, <2>6
        <3> QED BY <2>2, <2>4, <2>6, <3>1
    <2> QED BY <1>8, <2>1, <2>5, <2>6
<1> HIDE DEF made, Vars
<1>10. ASSUME NEW r \in inForce'
       PROVE  /\ r \in [overlap : Terms, level : Nat, returned : BOOLEAN, vars : SUBSET Terms]
              /\ r.level <= sLevel
              /\ ~r.returned => Has(last[r.overlap], r.level, r.vars)
    <2>1. CASE r \in inForce
        <3>1. /\ r \in [overlap : Terms, level : Nat, returned : BOOLEAN, vars : SUBSET Terms]
              /\ r.level <= sLevel
            BY <1>1, <2>1 DEF TypeOK
        <3>2. ASSUME ~r.returned PROVE Has(last[r.overlap], r.level, r.vars)
            <4>1. Has(cut_VARMap[r.overlap], r.level, r.vars)
                BY <1>1, <2>1, <3>2 DEF CutKnown
            <4> QED BY <1>1, <1>7, <2>1, <4>1, KnownStays
        <3> QED BY <3>1, <3>2
    <2>2. CASE r \notin inForce
        <3>1. PICK i \in made : r = NewCut(i)
            BY <1>2, <2>2
        <3>2. /\ r.overlap = e.cuts[i].overlap /\ r.level = sLevel /\ r.returned = FALSE
              /\ r.vars = Vars(i)
            BY <3>1
        <3>3. r \in [overlap : Terms, level : Nat, returned : BOOLEAN, vars : SUBSET Terms]
            BY <1>1, <1>9, <3>1
        <3> QED BY <1>1, <1>9, <3>2, <3>3
    <2> QED BY <2>1, <2>2
<1>11. TypeOK'
    <2>1. broken' \subseteq Equations /\ loopDetected' \in BOOLEAN /\ exited' \in BOOLEAN
        BY <1>1, <1>2 DEF TypeOK, Allowed
    <2>2. cut_VARMap' \in [Terms -> Seq(Entries)]
        BY <1>2, <1>5 DEF MapOK
    <2> QED BY <1>1, <1>2, <1>10, <2>1, <2>2 DEF TypeOK
<1>12. MapOK(cut_VARMap)'
    BY <1>2, <1>5 DEF MapOK
<1> QED BY <1>2, <1>4, <1>5, <1>10, <1>11, <1>12 DEF IInv, CutKnown

LEMMA PushOK == IInv /\ Push => IInv'
<1> SUFFICES ASSUME IInv, Push PROVE IInv'
    OBVIOUS
<1>1. /\ sLevel \in Nat /\ sLevel' = sLevel + 1 /\ cut_VARMap' = cut_VARMap
      /\ UNCHANGED <<avoidLoopCut, broken, loopDetected, exited, inForce>>
    BY DEF IInv, TypeOK, Push
<1>2. TypeOK'
    BY <1>1 DEF IInv, TypeOK
<1>3. ASSUME NEW stack, StackOK(stack, sLevel) PROVE StackOK(stack, sLevel')
    <2>1. /\ stack \in Seq(Entries)
          /\ \A i \in DOMAIN stack : stack[i] \in Entries
        BY <1>3, LenProperties, ElementOfSeq DEF StackOK
    <2>2. \A i \in DOMAIN stack : stack[i].level \in Int
        BY <2>1 DEF Entries
    <2> QED BY <1>1, <1>3, <2>2 DEF StackOK
<1>4. MapOK(cut_VARMap)'
    BY <1>1, <1>3 DEF IInv, MapOK
<1>5. \A r \in inForce : r.level <= sLevel'
    BY <1>1 DEF IInv, TypeOK
<1> QED BY <1>1, <1>2, <1>4, <1>5 DEF IInv, CutKnown

\* A cut below the level returned to, or one of level 0, keeps its entry; one
\* of the level returned to counts as returned.
LEMMA PopOK == IInv /\ Pop => IInv'
<1> SUFFICES ASSUME IInv, Pop PROVE IInv'
    OBVIOUS
<1> DEFINE level == sLevel - 1
           Returns(r) == [r EXCEPT !.returned = @ \/ (r.level = sLevel - 1 /\ r.level # 0)]
<1>1. /\ level \in Nat /\ sLevel = level + 1 /\ sLevel' = level
      /\ cut_VARMap' = [v \in Terms |-> Popped(cut_VARMap[v], level)]
      /\ inForce' = {Returns(r) : r \in {cut \in inForce : cut.level < sLevel}}
      /\ UNCHANGED <<avoidLoopCut, broken, loopDetected, exited>>
    BY DEF IInv, TypeOK, Pop
<1>2. /\ TypeOK /\ ~exited /\ \A v \in Terms : StackOK(cut_VARMap[v], level + 1)
      /\ \A r \in inForce : CutKnown(r)
    BY <1>1 DEF IInv, MapOK
<1> HIDE DEF level
<1>3. \A v \in Terms : /\ StackOK(cut_VARMap'[v], level)
                       /\ \A k \in Nat : \A vs : Has(cut_VARMap[v], k, vs) /\ (k = 0 \/ k < level)
                                                 => Has(cut_VARMap'[v], k, vs)
    BY <1>1, <1>2, PoppedOK
<1>4. cut_VARMap' \in [Terms -> Seq(Entries)]
    <2>1. \A v \in Terms : Popped(cut_VARMap[v], level) \in Seq(Entries)
        BY <1>1, <1>3 DEF StackOK
    <2> QED BY <1>1, <2>1
<1>5. ASSUME NEW r \in inForce'
      PROVE  /\ r \in [overlap : Terms, level : Nat, returned : BOOLEAN, vars : SUBSET Terms]
             /\ r.level <= sLevel'
             /\ ~r.returned => Has(cut_VARMap'[r.overlap], r.level, r.vars)
    <2>1. PICK old \in inForce : old.level < sLevel /\ r = Returns(old)
        BY <1>1
    <2>2. old \in [overlap : Terms, level : Nat, returned : BOOLEAN, vars : SUBSET Terms]
        BY <1>2 DEF TypeOK
    <2>3. /\ r.overlap = old.overlap /\ r.level = old.level /\ r.vars = old.vars
          /\ r.returned = (old.returned \/ (old.level = level /\ old.level # 0))
          /\ r \in [overlap : Terms, level : Nat, returned : BOOLEAN, vars : SUBSET Terms]
        BY <2>1, <2>2 DEF level
    <2>4. r.level <= sLevel'
        BY <1>1, <2>1, <2>2, <2>3
    <2>5. ASSUME ~r.returned PROVE Has(cut_VARMap'[r.overlap], r.level, r.vars)
        <3>1. Has(cut_VARMap[old.overlap], old.level, old.vars)
            BY <1>2, <2>3, <2>5 DEF CutKnown
        <3>2. old.level = 0 \/ old.level < level
            BY <1>1, <2>1, <2>2, <2>3, <2>5
        <3>3. old.overlap \in Terms /\ old.level \in Nat
            BY <2>2
        <3>4. Has(cut_VARMap'[old.overlap], old.level, old.vars)
            BY <1>3, <3>1, <3>2, <3>3
        <3> QED BY <2>3, <3>4
    <2> QED BY <2>3, <2>4, <2>5
<1>6. TypeOK'
    BY <1>1, <1>2, <1>4, <1>5 DEF TypeOK
<1>7. MapOK(cut_VARMap)'
    BY <1>1, <1>3, <1>4 DEF MapOK
<1> QED BY <1>1, <1>2, <1>5, <1>6, <1>7 DEF IInv, CutKnown

LEMMA Inductive == Spec => []IInv
<1>1. IInv /\ [Next]_vars => IInv'
    <2> SUFFICES ASSUME IInv, [Next]_vars PROVE IInv'
        OBVIOUS
    <2>1. CASE NewEq
        BY <2>1, NewEqOK
    <2>2. CASE Push
        BY <2>2, PushOK
    <2>3. CASE Pop
        BY <2>3, PopOK
    <2>4. CASE UNCHANGED vars
        BY <2>4 DEF IInv, TypeOK, MapOK, CutKnown, vars
    <2> QED BY <2>1, <2>2, <2>3, <2>4 DEF Next
<1> QED BY InitOK, <1>1, PTL DEF Spec

-----------------------------------------------------------------------------
(* The theorems.                                                           *)

\* The map of cuts, the scopes and the history have their types.
THEOREM CutsTypes == Spec => []TypeOK
<1>1. IInv => TypeOK
    BY DEF IInv
<1> QED BY Inductive, <1>1, PTL

\* addCutInfoMerge always finds the part it merges from, and never an entry of
\* a level above the current one: its exits are dead code.
THEOREM CutsNeverExit == Spec => []NeverExits
<1>1. IInv => NeverExits
    BY DEF IInv, NeverExits
<1> QED BY Inductive, <1>1, PTL

\* A cut whose scope has not been returned to is known as long as the scope
\* is there: its overlap is cut from all its parts were cut from.
THEOREM KnownCutsAreKept == Spec => []CutsAreKept
<1>1. IInv => CutsAreKept
    <2> SUFFICES ASSUME IInv, NEW r \in inForce, ~r.returned
                 PROVE  r.vars \subseteq CutFrom(cut_VARMap, r.overlap)
        BY DEF CutsAreKept
    <2>1. Has(cut_VARMap[r.overlap], r.level, r.vars)
        BY DEF IInv, CutKnown
    <2>2. r.overlap \in Terms /\ StackOK(cut_VARMap[r.overlap], sLevel)
        BY DEF IInv, TypeOK, MapOK
    <2>3. cut_VARMap[r.overlap] # <<>>
        BY <2>1 DEF Has
    <2>4. r.vars \subseteq Top(cut_VARMap[r.overlap]).vars
        BY <2>1, <2>2, <2>3, TopOK
    <2> QED BY <2>3, <2>4 DEF CutFrom
<1> QED BY Inductive, <1>1, PTL

-----------------------------------------------------------------------------
(* How equations are split (Splitting).  Strings first.                    *)

LEMMA Concat ==
    ASSUME NEW u \in Seq(Chars), NEW v \in Seq(Chars)
    PROVE  /\ u \o v \in Seq(Chars) /\ Len(u) \in Nat /\ Len(v) \in Nat /\ Len(u \o v) = Len(u) + Len(v)
           /\ \A i \in 1..Len(u) : (u \o v)[i] = u[i]
           /\ \A i \in 1..Len(v) : (u \o v)[Len(u) + i] = v[i]
    OBVIOUS

LEMMA SameString ==
    ASSUME NEW u \in Seq(Chars), NEW v \in Seq(Chars), Len(u) = Len(v), \A i \in 1..Len(u) : u[i] = v[i]
    PROVE  u = v
    OBVIOUS

LEMMA ConcatAt ==
    ASSUME NEW u \in Seq(Chars), NEW v \in Seq(Chars), NEW i \in Nat, Len(u) = i,
           NEW j \in Nat, j > i, j <= i + Len(v)
    PROVE  (u \o v)[j] = v[j - i]
    OBVIOUS

LEMMA FirstAfter ==
    ASSUME NEW w \in Seq(Chars), NEW i \in 0..Len(w)
    PROVE  /\ First(w, i) \in Seq(Chars) /\ Len(First(w, i)) = i
           /\ After(w, i) \in Seq(Chars) /\ Len(After(w, i)) = Len(w) - i
           /\ First(w, i) \o After(w, i) = w
<1>1. Len(w) \in Nat /\ i \in Nat /\ i <= Len(w)
    OBVIOUS
<1>2. /\ First(w, i) \in Seq(Chars) /\ Len(First(w, i)) = i
      /\ \A j \in 1..i : First(w, i)[j] = w[j]
    BY <1>1 DEF First
<1>3. /\ After(w, i) \in Seq(Chars) /\ Len(After(w, i)) = Len(w) - i
      /\ \A j \in 1..(Len(w) - i) : After(w, i)[j] = w[i + j]
    BY <1>1 DEF After
<1> DEFINE f == First(w, i)
           a == After(w, i)
<1> HIDE DEF f, a
<1>4. f \in Seq(Chars) /\ Len(f) = i /\ a \in Seq(Chars) /\ Len(a) = Len(w) - i
    BY <1>2, <1>3 DEF f, a
<1>5. f \o a \in Seq(Chars) /\ Len(f \o a) = Len(w)
    BY <1>1, <1>4
<1>6. ASSUME NEW j \in 1..Len(w) PROVE (f \o a)[j] = w[j]
    <2>1. CASE j <= i
        <3>1. j \in 1..i /\ (f \o a)[j] = f[j]
            BY <1>1, <1>4, <2>1
        <3> QED BY <1>2, <3>1 DEF f
    <2>2. CASE j > i
        <3>1. j - i \in 1..(Len(w) - i) /\ i + (j - i) = j /\ j \in Nat /\ j <= i + Len(a)
            BY <1>1, <1>4, <2>2
        <3>2. (f \o a)[j] = a[j - i]
            BY <1>1, <1>4, <2>2, <3>1, ConcatAt
        <3>3. a[j - i] = w[i + (j - i)]
            BY <1>3, <3>1 DEF a
        <3> QED BY <3>1, <3>2, <3>3
    <2>3. j <= i \/ j > i
        BY <1>1
    <2> QED BY <2>1, <2>2, <2>3
<1>7. f \o a = w
    BY <1>5, <1>6, SameString
<1> QED BY <1>2, <1>3, <1>7 DEF f, a

\* Strings are cut in one place in one way only.
LEMMA Cancel ==
    ASSUME NEW u \in Seq(Chars), NEW v \in Seq(Chars), NEW p \in Seq(Chars), NEW q \in Seq(Chars),
           u \o v = p \o q, Len(u) = Len(p)
    PROVE  u = p /\ v = q
<1>1. Len(u) = Len(p) /\ Len(v) = Len(q)
    BY Concat
<1>2. u = p
    BY <1>1, Concat, SameString
<1>3. ASSUME NEW i \in 1..Len(v) PROVE v[i] = q[i]
    <2>1. (u \o v)[Len(u) + i] = v[i] /\ (p \o q)[Len(u) + i] = q[i]
        BY <1>1, <1>3
    <2> QED BY <2>1
<1> QED BY <1>1, <1>2, <1>3, SameString

\* A name for concatenation, so that the provers match it as a whole.
Cat(u, v) == u \o v

LEMMA CatFacts ==
    ASSUME NEW u \in Seq(Chars), NEW v \in Seq(Chars)
    PROVE  Cat(u, v) \in Seq(Chars) /\ Len(Cat(u, v)) = Len(u) + Len(v)
           /\ Len(u) \in Nat /\ Len(v) \in Nat
    BY Concat DEF Cat

LEMMA CatCancel ==
    ASSUME NEW u \in Seq(Chars), NEW v \in Seq(Chars), NEW p \in Seq(Chars), NEW q \in Seq(Chars),
           Cat(u, v) = Cat(p, q), Len(u) = Len(p)
    PROVE  u = p /\ v = q
    BY Cancel, Zenon DEF Cat

LEMMA CatAssoc ==
    ASSUME NEW u \in Seq(Chars), NEW v \in Seq(Chars), NEW w \in Seq(Chars)
    PROVE  Cat(Cat(u, v), w) = Cat(u, Cat(v, w))
    BY ConcatAssociative DEF Cat

LEMMA CatParts ==
    ASSUME NEW w \in Seq(Chars), NEW i \in 0..Len(w)
    PROVE  /\ First(w, i) \in Seq(Chars) /\ Len(First(w, i)) = i
           /\ After(w, i) \in Seq(Chars) /\ Len(After(w, i)) = Len(w) - i
           /\ Cat(First(w, i), After(w, i)) = w
    BY FirstAfter DEF Cat

LEMMA PartsOfCat ==
    ASSUME NEW u \in Seq(Chars), NEW v \in Seq(Chars)
    PROVE  First(Cat(u, v), Len(u)) = u /\ After(Cat(u, v), Len(u)) = v
<1>1. Cat(u, v) \in Seq(Chars) /\ Len(u) \in 0..Len(Cat(u, v))
    BY CatFacts
<1> QED BY <1>1, CatParts, CatCancel

\* Two ways to cut one string: the longer first part has the other one in
\* front, and what it has more is in front of the other's second part.
LEMMA Overlap ==
    ASSUME NEW u \in Seq(Chars), NEW v \in Seq(Chars), NEW p \in Seq(Chars), NEW q \in Seq(Chars),
           Cat(u, v) = Cat(p, q), Len(u) <= Len(p)
    PROVE  LET t == After(p, Len(u))
           IN  /\ t \in Seq(Chars) /\ Len(t) = Len(p) - Len(u)
               /\ p = Cat(u, t) /\ v = Cat(t, q)
<1> DEFINE f == First(p, Len(u))
           t == After(p, Len(u))
<1> HIDE DEF f, t
<1>1. f \in Seq(Chars) /\ Len(f) = Len(u) /\ t \in Seq(Chars) /\ Len(t) = Len(p) - Len(u)
      /\ Cat(f, t) = p
    <2>1. Len(u) \in 0..Len(p)
        BY CatFacts
    <2> QED BY <2>1, CatParts DEF f, t
<1>2. Cat(u, v) = Cat(f, Cat(t, q)) /\ Cat(t, q) \in Seq(Chars)
    BY <1>1, CatAssoc, CatFacts
<1>3. u = f /\ v = Cat(t, q)
    BY <1>1, <1>2, CatCancel
<1> QED BY <1>1, <1>3 DEF t

\* The other way around: parts that overlap make one string.
LEMMA Joined ==
    ASSUME NEW u \in Seq(Chars), NEW t \in Seq(Chars), NEW q \in Seq(Chars)
    PROVE  Cat(u, Cat(t, q)) = Cat(Cat(u, t), q)
    BY CatAssoc

LEMMA NotEmpty == ASSUME NEW t \in Seq(Chars) PROVE Len(t) \in Nat /\ (t # <<>> <=> Len(t) > 0)
    OBVIOUS

\* What is longer is not shorter.
LEMMA NoOverlap ==
    ASSUME NEW u \in Seq(Chars), NEW t \in Seq(Chars), t # <<>>, NEW w \in Seq(Chars), Len(w) <= Len(u)
    PROVE  w # Cat(u, t) /\ w # Cat(t, u) /\ Len(w) # Len(u) + Len(t)
<1>1. /\ Len(u) \in Nat /\ Len(t) \in Nat /\ Len(w) \in Nat /\ Len(t) > 0
      /\ Len(Cat(u, t)) = Len(u) + Len(t) /\ Len(Cat(t, u)) = Len(t) + Len(u)
    BY NotEmpty, CatFacts
<1>2. Len(w) # Len(Cat(u, t)) /\ Len(w) # Len(Cat(t, u)) /\ Len(w) # Len(u) + Len(t)
    BY <1>1
<1> QED BY <1>2

-----------------------------------------------------------------------------
(* Options.                                                                *)

LEMMA Equations1 ==
    \A a \in BOOLEAN : (All(<<a>>) <=> a) /\ (None(<<a>>) <=> ~a)
    BY DEF All, None
LEMMA Equations2 ==
    \A a, b \in BOOLEAN :
        (All(<<a, b>>) <=> a /\ b) /\ (None(<<a, b>>) <=> ~a /\ ~b)
    BY DEF All, None
LEMMA Equations3 ==
    \A a, b, c \in BOOLEAN :
        /\ All(<<a, b, c>>) <=> a /\ b /\ c
        /\ None(<<a, b, c>>) <=> ~a /\ ~b /\ ~c
    BY DEF All, None
LEMMA Equations4 ==
    \A a, b, c, d \in BOOLEAN :
        /\ All(<<a, b, c, d>>) <=> a /\ b /\ c /\ d
        /\ None(<<a, b, c, d>>) <=> ~a /\ ~b /\ ~c /\ ~d
    BY DEF All, None
LEMMA Equations5 ==
    \A a, b, c, d, e \in BOOLEAN :
        /\ All(<<a, b, c, d, e>>) <=> a /\ b /\ c /\ d /\ e
        /\ None(<<a, b, c, d, e>>) <=> ~a /\ ~b /\ ~c /\ ~d /\ ~e
    BY DEF All, None

Fresh == Overlaps \ {<<>>}
Solves(option, overlaps) == \E t \in overlaps : All(option[t])
Misses(option, overlaps) == \E t \in overlaps : None(option[t])

\* What a call should have answered when it returns.
Answered ==
    IF Holds THEN loopDetected' \/ outcome' \in {"admitted", "nothing"}
    ELSE outcome' \in {"refused", "nothing", "exception"}

LEMMA SplitIsRight ==
    ASSUME NEW options, NEW loop, Split(options, loop),
           Holds /\ ~loop =>
               \E k \in DOMAIN options :
                   /\ Solves(options[k], Fresh)
                   /\ \A l \in DOMAIN options \ {k} : Misses(options[l], Fresh),
           ~Holds => \A k \in DOMAIN options : ~Solves(options[k], Overlaps)
    PROVE  Answered
<1>1. /\ outcome' = IF DOMAIN options = {} THEN "nothing" ELSE Says(options)
      /\ loop => loopDetected'
    BY DEF Split
<1>2. Says(options) = CASE Open(options, Fresh) -> "admitted"
                             [] ~Open(options, Overlaps) -> "refused"
                             [] OTHER -> "admitted, empty"
    BY DEF Says, Fresh
<1>3. CASE Holds /\ loop
    BY <1>1, <1>3 DEF Answered
<1>4. CASE Holds /\ ~loop
    <2>1. Open(options, Fresh)
        BY <1>4, Zenon DEF Open, Solves, Misses
    <2>2. Open(options, Overlaps)
        BY <2>1, Zenon DEF Open, Fresh
    <2> QED BY <1>1, <1>2, <1>4, <2>1, <2>2 DEF Answered
<1>5. CASE ~Holds
    <2>1. ~Open(options, Overlaps)
        BY <1>5, Zenon DEF Open, Solves
    <2>2. ~Open(options, Fresh)
        BY <1>5, Zenon DEF Open, Solves, Fresh
    <2> QED BY <1>1, <1>2, <1>5, <2>1, <2>2 DEF Answered
<1> QED BY <1>3, <1>4, <1>5

LEMMA OneOption ==
    ASSUME NEW option, NEW c, NEW loop, Split(When(c, option), loop),
           Holds /\ ~loop => c /\ Solves(option, Fresh),
           ~Holds => ~Solves(option, Overlaps)
    PROVE  Answered
<1> DEFINE options == When(c, option)
<1>1. \A k \in DOMAIN options : k = 1 /\ options[k] = option
    BY DEF When
<1>2. c => 1 \in DOMAIN options
    BY DEF When
<1> HIDE DEF options
<1>3. Holds /\ ~loop =>
          \E k \in DOMAIN options : /\ Solves(options[k], Fresh)
                                    /\ \A l \in DOMAIN options \ {k} : Misses(options[l], Fresh)
    BY <1>1, <1>2
<1>4. ~Holds => \A k \in DOMAIN options : ~Solves(options[k], Overlaps)
    BY <1>1
<1>5. Split(options, loop)
    BY DEF options
<1> QED BY <1>3, <1>4, <1>5, SplitIsRight, Zenon

LEMMA ImpliesIsRight ==
    ASSUME NEW equations, Implies(equations),
           Holds <=> All(equations)
    PROVE  Answered
<1> DEFINE option == Just(equations)
<1>1. \A t \in Overlaps : option[t] = equations
    BY DEF Just
<1>2. PICK t \in Fresh : t \in Overlaps
    BY StringsAssumption DEF Fresh
<1>3. Split(When(TRUE, option), FALSE)
    BY DEF Implies, When
<1> HIDE DEF option
<1>4. Holds => Solves(option, Fresh)
    BY <1>1, <1>2 DEF Solves
<1>5. ~Holds => ~Solves(option, Overlaps)
    BY <1>1 DEF Solves
<1> QED BY <1>3, <1>4, <1>5, OneOption, Zenon

LEMMA NegateIsRight == ASSUME Negate, ~Holds PROVE Answered
    BY DEF Negate, Answered
LEMMA SkipIsRight == ASSUME Skip PROVE Answered
    BY DEF Skip, Answered

-----------------------------------------------------------------------------
(* The parts.                                                              *)

CallOK == call.values \in Values

LEMMA FourParts ==
    ASSUME CallOK, OfConcats
    PROVE  /\ x \in Seq(Chars) /\ y \in Seq(Chars)
           /\ m \in Seq(Chars) /\ n \in Seq(Chars)
           /\ \A j \in 0..Len(x) : After(x, j) \in Overlaps
           /\ \A j \in 0..Len(m) : After(m, j) \in Overlaps
           /\ Holds <=> Cat(x, y) = Cat(m, n)
<1>1. /\ call.values \in Seq(Seq(Chars)) /\ Len(call.values) = 4
      /\ \A i \in DOMAIN call.values :
             \A j \in 0..Len(call.values[i]) : After(call.values[i], j) \in Overlaps
    BY StringsAssumption DEF CallOK, OfConcats
<1>2. \A i \in 1..4 : Part(i) \in 1..4
    BY DEF Part
<1>3. DOMAIN call.values = 1..4 /\ \A i \in 1..4 : call.values[i] \in Seq(Chars)
    BY <1>1
<1>4. \A i \in 1..4 : /\ call.values[Part(i)] \in Seq(Chars)
                      /\ \A j \in 0..Len(call.values[Part(i)]) :
                             After(call.values[Part(i)], j) \in Overlaps
    BY <1>1, <1>2, <1>3
<1>5. /\ x \in Seq(Chars) /\ y \in Seq(Chars)
      /\ m \in Seq(Chars) /\ n \in Seq(Chars)
      /\ \A j \in 0..Len(x) : After(x, j) \in Overlaps
      /\ \A j \in 0..Len(m) : After(m, j) \in Overlaps
    BY <1>4 DEF x, y, m, n
<1>6. Holds <=> Cat(x, y) = Cat(m, n)
    BY DEF Holds, Cat
<1> QED BY <1>5, <1>6

LEMMA ThreeParts ==
    ASSUME CallOK, ~OfConcats
    PROVE  /\ x \in Seq(Chars) /\ y \in Seq(Chars) /\ s \in Seq(Chars)
           /\ Holds <=> Cat(x, y) = s
<1>1. call.values \in Seq(Seq(Chars)) /\ Len(call.values) = 3
    BY StringsAssumption DEF CallOK, OfConcats
<1>2. \A i \in 1..3 : call.values[i] \in Seq(Chars) /\ Part(i) = i
    BY <1>1 DEF Part
<1>3. /\ x \in Seq(Chars) /\ y \in Seq(Chars) /\ s \in Seq(Chars)
    BY <1>2 DEF x, y, s
<1>4. Holds <=> Cat(x, y) = s
    BY DEF Holds, Cat
<1> QED BY <1>3, <1>4

\* The overlap, when the first part of one side is longer.
LEMMA FreshOverlap ==
    ASSUME NEW u \in Seq(Chars), NEW w \in Seq(Chars), NEW p \in Seq(Chars), NEW q \in Seq(Chars),
           Cat(u, w) = Cat(p, q), Len(u) < Len(p),
           \A j \in 0..Len(p) : After(p, j) \in Overlaps
    PROVE  \E t \in Fresh :
               /\ t \in Overlaps /\ t \in Seq(Chars) /\ t # <<>>
               /\ p = Cat(u, t) /\ w = Cat(t, q) /\ t = After(p, Len(u))
               /\ Len(t) \in Nat /\ Len(t) = Len(p) - Len(u) /\ Len(w) = Len(t) + Len(q)
<1> DEFINE t == After(p, Len(u))
<1>1. Len(u) \in Nat /\ Len(p) \in Nat
    BY CatFacts
<1>2. t \in Seq(Chars) /\ Len(t) = Len(p) - Len(u) /\ p = Cat(u, t) /\ w = Cat(t, q)
    BY <1>1, Overlap
<1>3. t \in Overlaps
    BY <1>1
<1> HIDE DEF t
<1>4. Len(t) \in Nat /\ t # <<>>
    BY <1>1, <1>2, NotEmpty
<1>5. Len(w) = Len(t) + Len(q)
    BY <1>2, CatFacts
<1> QED BY <1>2, <1>3, <1>4, <1>5 DEF Fresh, t

LEMMA LensAgree ==
    ASSUME NEW u \in Seq(Chars), NEW w \in Seq(Chars), NEW p \in Seq(Chars), NEW q \in Seq(Chars),
           Cat(u, w) = Cat(p, q)
    PROVE  /\ Len(u) + Len(w) = Len(p) + Len(q)
           /\ Len(u) \in Nat /\ Len(w) \in Nat /\ Len(p) \in Nat /\ Len(q) \in Nat
<1>1. Len(Cat(u, w)) = Len(u) + Len(w) /\ Len(Cat(p, q)) = Len(p) + Len(q)
    BY CatFacts
<1>2. Len(u) \in Nat /\ Len(w) \in Nat /\ Len(p) \in Nat /\ Len(q) \in Nat
    OBVIOUS
<1> QED BY <1>1, <1>2

\* An overlap that is too much: no equation of it holds.
LEMMA NoCut ==
    ASSUME NEW u \in Seq(Chars), NEW w \in Seq(Chars), NEW p \in Seq(Chars), NEW q \in Seq(Chars),
           Cat(u, w) = Cat(p, q), Len(p) <= Len(u), NEW t \in Fresh, t \in Seq(Chars)
    PROVE  p # Cat(u, t) /\ w # Cat(t, q) /\ Len(p) # Len(u) + Len(t) /\ Len(w) <= Len(q)
<1>1. Len(w) <= Len(q)
    BY LensAgree
<1>2. t # <<>>
    BY DEF Fresh
<1>3. p # Cat(u, t) /\ Len(p) # Len(u) + Len(t)
    BY <1>2, NoOverlap
<1>4. w # Cat(t, q)
    BY <1>1, <1>2, NoOverlap
<1> QED BY <1>1, <1>3, <1>4

LEMMA SomeFresh == ASSUME CallOK PROVE \E t \in Fresh : t \in Overlaps /\ t \in Seq(Chars)
    BY StringsAssumption DEF CallOK, Fresh

\* What known lengths say of a solution.
LEMMA TypeOfSplit ==
    ASSUME CallOK, OfConcats, Holds
    PROVE  /\ SplitType = 0 =>
                  Len(x) < Len(m) /\ Delta = Len(m) - Len(x)
           /\ SplitType = 1 => x = m /\ y = n
           /\ SplitType = 2 =>
                  /\ Len(m) < Len(x) /\ -Delta = Len(x) - Len(m)
                  /\ -Delta <= Len(n)
<1>1. /\ x \in Seq(Chars) /\ y \in Seq(Chars) /\ m \in Seq(Chars) /\ n \in Seq(Chars)
      /\ Cat(x, y) = Cat(m, n)
    BY FourParts
<1>2. /\ Len(x) + Len(y) = Len(m) + Len(n)
      /\ Len(x) \in Nat /\ Len(y) \in Nat /\ Len(m) \in Nat /\ Len(n) \in Nat
    BY <1>1, LensAgree
<1>3. Len(x) = Len(m) => x = m /\ y = n
    BY <1>1, CatCancel
<1>4. CASE LenKnown(1) /\ LenKnown(3)
    BY <1>2, <1>3, <1>4 DEF SplitType, Delta
<1>5. CASE ~(LenKnown(1) /\ LenKnown(3))
    BY <1>2, <1>3, <1>5 DEF SplitType, Delta
<1> QED BY <1>4, <1>5

\* Equations that say that the parts agree.
LEMMA AgreeIsRight ==
    ASSUME CallOK, OfConcats, Implies(<<x = m, y = n>>),
           Holds => x = m /\ y = n
    PROVE  Answered
<1>1. All(<<x = m, y = n>>) <=> x = m /\ y = n
    BY Equations2, Zenon
<1>2. x = m /\ y = n => Holds
    BY FourParts
<1>3. Holds <=> All(<<x = m, y = n>>)
    BY <1>1, <1>2, Zenon
<1> QED BY <1>3, ImpliesIsRight, Zenon

-----------------------------------------------------------------------------
(* Overlaps of known lengths.                                              *)

LEMMA MCutsYIsRight ==
    ASSUME CallOK, OfConcats
    PROVE  /\ Holds /\ SplitType = 0 => Solves(MCutsY, Fresh)
           /\ ~Holds => ~Solves(MCutsY, Overlaps)
<1>1. /\ x \in Seq(Chars) /\ y \in Seq(Chars) /\ m \in Seq(Chars) /\ n \in Seq(Chars)
      /\ Holds <=> Cat(x, y) = Cat(m, n)
      /\ \A j \in 0..Len(m) : After(m, j) \in Overlaps
    BY FourParts
<1>2. ASSUME NEW t \in Overlaps
      PROVE  All(MCutsY[t]) <=>
                 m = Cat(x, t) /\ y = Cat(t, n) /\ Len(t) = Delta
    <2>1. MCutsY[t] = <<m = Cat(x, t), y = Cat(t, n), Len(t) = Delta>>
        BY DEF MCutsY, Cat
    <2>2. All(<<m = Cat(x, t), y = Cat(t, n), Len(t) = Delta>>) <=>
              m = Cat(x, t) /\ y = Cat(t, n) /\ Len(t) = Delta
        BY Equations3, Zenon
    <2> QED BY <2>1, <2>2, Zenon
<1>3. CASE Holds /\ SplitType = 0
    <2>1. PICK t \in Fresh : /\ t \in Overlaps
                             /\ m = Cat(x, t) /\ y = Cat(t, n)
                             /\ Len(t) = Len(m) - Len(x)
        BY <1>1, <1>3, TypeOfSplit, FreshOverlap
    <2> QED BY <1>2, <1>3, <2>1, TypeOfSplit DEF Solves
<1>4. CASE ~Holds
    <2>1. ASSUME NEW t \in Overlaps, All(MCutsY[t]) PROVE FALSE
        <3>1. t \in Seq(Chars) /\ m = Cat(x, t) /\ y = Cat(t, n)
            BY <1>2, <2>1, StringsAssumption DEF CallOK
        <3> QED BY <1>1, <1>4, <3>1, Joined
    <2> QED BY <2>1, <1>4 DEF Solves
<1> QED BY <1>3, <1>4

LEMMA XCutsNIsRight ==
    ASSUME CallOK, OfConcats
    PROVE  /\ Holds /\ SplitType = 2 => Solves(XCutsN, Fresh)
           /\ ~Holds => ~Solves(XCutsN, Overlaps)
<1>1. /\ x \in Seq(Chars) /\ y \in Seq(Chars) /\ m \in Seq(Chars) /\ n \in Seq(Chars)
      /\ Holds <=> Cat(x, y) = Cat(m, n)
      /\ \A j \in 0..Len(x) : After(x, j) \in Overlaps
    BY FourParts
<1>2. ASSUME NEW t \in Overlaps
      PROVE  All(XCutsN[t]) <=>
                 x = Cat(m, t) /\ n = Cat(t, y) /\ Len(t) = -Delta
    <2>1. XCutsN[t] = <<x = Cat(m, t), n = Cat(t, y), Len(t) = -Delta>>
        BY DEF XCutsN, Cat
    <2>2. All(<<x = Cat(m, t), n = Cat(t, y), Len(t) = -Delta>>) <=>
              x = Cat(m, t) /\ n = Cat(t, y) /\ Len(t) = -Delta
        BY Equations3, Zenon
    <2> QED BY <2>1, <2>2, Zenon
<1>3. CASE Holds /\ SplitType = 2
    <2>1. PICK t \in Fresh : /\ t \in Overlaps
                             /\ x = Cat(m, t) /\ n = Cat(t, y)
                             /\ Len(t) = Len(x) - Len(m)
        <3>1. Cat(m, n) = Cat(x, y) /\ Len(m) < Len(x)
            BY <1>1, <1>3, TypeOfSplit
        <3> QED BY <1>1, <3>1, FreshOverlap
    <2> QED BY <1>2, <1>3, <2>1, TypeOfSplit DEF Solves
<1>4. CASE ~Holds
    <2>1. ASSUME NEW t \in Overlaps, All(XCutsN[t]) PROVE FALSE
        <3>1. t \in Seq(Chars) /\ x = Cat(m, t) /\ n = Cat(t, y)
            BY <1>2, <2>1, StringsAssumption DEF CallOK
        <3> QED BY <1>1, <1>4, <3>1, Joined
    <2> QED BY <2>1, <1>4 DEF Solves
<1> QED BY <1>3, <1>4

\* The options of ProcessConcatEqType_1, when no length is known: an overlap
\* of the parts u . w and p . q, and the two places being one.
Over(u, w, p, q) ==
    [t \in Overlaps |-> <<p = Cat(u, t), w = Cat(t, q), Len(p) = Len(u) + Len(t),
                          Len(p) > Len(u), Len(w) > Len(q)>>]

LEMMA OverSays ==
    ASSUME CallOK,
           NEW u \in Seq(Chars), NEW w \in Seq(Chars), NEW p \in Seq(Chars), NEW q \in Seq(Chars)
    PROVE  /\ Cat(u, w) = Cat(p, q) /\ Len(u) < Len(p)
                  /\ (\A j \in 0..Len(p) : After(p, j) \in Overlaps)
              => Solves(Over(u, w, p, q), Fresh)
           /\ Cat(u, w) = Cat(p, q) /\ Len(p) <= Len(u) => Misses(Over(u, w, p, q), Fresh)
           /\ Cat(u, w) # Cat(p, q) => ~Solves(Over(u, w, p, q), Overlaps)
<1> DEFINE option == Over(u, w, p, q)
<1>1. ASSUME NEW t \in Overlaps
      PROVE  /\ All(option[t]) <=>
                    /\ p = Cat(u, t) /\ w = Cat(t, q) /\ Len(p) = Len(u) + Len(t)
                    /\ Len(p) > Len(u) /\ Len(w) > Len(q)
             /\ None(option[t]) <=>
                    /\ p # Cat(u, t) /\ w # Cat(t, q) /\ Len(p) # Len(u) + Len(t)
                    /\ ~(Len(p) > Len(u)) /\ ~(Len(w) > Len(q))
    <2>1. option[t] = <<p = Cat(u, t), w = Cat(t, q), Len(p) = Len(u) + Len(t),
                        Len(p) > Len(u), Len(w) > Len(q)>>
        BY DEF Over
    <2> DEFINE a == p = Cat(u, t)
               b == w = Cat(t, q)
               c == Len(p) = Len(u) + Len(t)
               d == Len(p) > Len(u)
               e == Len(w) > Len(q)
    <2>2. a \in BOOLEAN /\ b \in BOOLEAN /\ c \in BOOLEAN /\ d \in BOOLEAN /\ e \in BOOLEAN
        OBVIOUS
    <2>3. option[t] = <<a, b, c, d, e>>
        BY <2>1
    <2> HIDE DEF option, a, b, c, d, e
    <2>4. /\ All(<<a, b, c, d, e>>) <=> a /\ b /\ c /\ d /\ e
          /\ None(<<a, b, c, d, e>>) <=> ~a /\ ~b /\ ~c /\ ~d /\ ~e
        BY <2>2, Equations5, ZenonT(60)
    <2>5. /\ All(option[t]) <=> a /\ b /\ c /\ d /\ e
          /\ None(option[t]) <=> ~a /\ ~b /\ ~c /\ ~d /\ ~e
        BY <2>3, <2>4, Zenon
    <2> QED BY <2>5 DEF a, b, c, d, e
<1> HIDE DEF option
<1>2. ASSUME Cat(u, w) = Cat(p, q), Len(u) < Len(p),
             \A j \in 0..Len(p) : After(p, j) \in Overlaps
      PROVE  Solves(option, Fresh)
    <2>1. PICK t \in Fresh : /\ t \in Overlaps /\ p = Cat(u, t) /\ w = Cat(t, q) /\ t # <<>>
                             /\ Len(t) \in Nat /\ Len(t) = Len(p) - Len(u) /\ t \in Seq(Chars)
                             /\ Len(w) = Len(t) + Len(q)
        BY <1>2, FreshOverlap
    <2>2. Len(p) = Len(u) + Len(t) /\ Len(p) > Len(u) /\ Len(w) > Len(q)
        <3>1. Len(u) \in Nat /\ Len(p) \in Nat /\ Len(q) \in Nat /\ Len(w) \in Nat
            OBVIOUS
        <3> QED BY <1>2, <2>1, <3>1
    <2> QED BY <1>1, <2>1, <2>2 DEF Solves
<1>3. ASSUME Cat(u, w) = Cat(p, q), Len(p) <= Len(u) PROVE Misses(option, Fresh)
    <2>1. PICK t \in Fresh : t \in Overlaps /\ t \in Seq(Chars)
        BY SomeFresh
    <2>2. p # Cat(u, t) /\ w # Cat(t, q) /\ Len(p) # Len(u) + Len(t) /\ Len(w) <= Len(q)
        BY <1>3, <2>1, NoCut
    <2>3. ~(Len(p) > Len(u)) /\ ~(Len(w) > Len(q))
        <3>1. Len(u) \in Nat /\ Len(p) \in Nat /\ Len(q) \in Nat /\ Len(w) \in Nat
            OBVIOUS
        <3> QED BY <1>3, <2>2, <3>1
    <2> QED BY <1>1, <2>1, <2>2, <2>3 DEF Misses
<1>4. ASSUME Cat(u, w) # Cat(p, q), Solves(option, Overlaps) PROVE FALSE
    <2>1. PICK t \in Overlaps : p = Cat(u, t) /\ w = Cat(t, q)
        BY <1>1, <1>4 DEF Solves
    <2>2. t \in Seq(Chars)
        BY StringsAssumption DEF CallOK
    <2> QED BY <1>4, <2>1, <2>2, Joined
<1> QED BY <1>2, <1>3, <1>4 DEF option

LEMMA ThirdSays ==
    ASSUME CallOK, OfConcats,
           NEW third, third = Just(<<x = m, y = n,
                                          Len(x) = Len(m), Len(y) = Len(n)>>)
    PROVE  /\ x = m /\ y = n => Solves(third, Fresh)
           /\ Holds /\ Len(x) # Len(m) => Misses(third, Fresh)
           /\ ~Holds => ~Solves(third, Overlaps)
<1>1. ASSUME NEW t \in Overlaps
      PROVE  /\ All(third[t]) <=> x = m /\ y = n
                                       /\ Len(x) = Len(m) /\ Len(y) = Len(n)
             /\ None(third[t]) <=> x # m /\ y # n
                                       /\ Len(x) # Len(m) /\ Len(y) # Len(n)
    <2>1. third[t] = <<x = m, y = n,
                       Len(x) = Len(m), Len(y) = Len(n)>>
        BY DEF Just
    <2> QED BY <2>1, Equations4, Zenon
<1>2. PICK t \in Fresh : t \in Overlaps
    BY SomeFresh
<1>3. x = m /\ y = n => Solves(third, Fresh)
    BY <1>1, <1>2, Zenon DEF Solves
<1>4. ASSUME Holds, Len(x) # Len(m) PROVE Misses(third, Fresh)
    <2>1. Len(y) # Len(n)
        BY <1>4, FourParts, LensAgree
    <2>2. x # m /\ y # n
        BY <1>4, <2>1
    <2> QED BY <1>1, <1>2, <1>4, <2>1, <2>2, Zenon DEF Misses
<1>5. ASSUME ~Holds, Solves(third, Overlaps) PROVE FALSE
    <2>1. x = m /\ y = n
        BY <1>1, <1>5, Zenon DEF Solves
    <2> QED BY <1>5, <2>1, FourParts
<1> QED BY <1>3, <1>4, <1>5

LEMMA Type1IsRight ==
    ASSUME CallOK, ProcessConcatEqType_1
    PROVE  Answered
<1> DEFINE first == Over(x, y, m, n)
           second == Over(m, n, x, y)
           third == Just(<<x = m, y = n,
                                Len(x) = Len(m), Len(y) = Len(n)>>)
           loop == AvoidedCut("m", "y") \/ AvoidedCut("x", "n")
           flags == {k \in 1..3 : \/ k = 1 /\ ~AvoidedCut("m", "y")
                                  \/ k = 2 /\ ~AvoidedCut("x", "n")
                                  \/ k = 3 /\ CanEq(x = m) /\ CanEq(y = n)}
           options == [k \in flags |-> <<first, second, third>>[k]]
<1>1. /\ OfConcats
      /\ \/ SplitType = 0 /\ Split(When(~Cut("m", "y"), MCutsY), Cut("m", "y"))
         \/ SplitType = 1 /\ Implies(<<x = m, y = n>>)
         \/ SplitType = 2 /\ Split(When(~Cut("x", "n"), XCutsN), Cut("x", "n"))
         \/ SplitType = -1 /\ Split(options, loop)
    BY DEF ProcessConcatEqType_1, isConcatEqType_1, Over, Cat
<1> HIDE DEF first, second, third, loop, flags, options
<1>2. CASE SplitType = 0 /\ Split(When(~Cut("m", "y"), MCutsY), Cut("m", "y"))
    <2> DEFINE cut == Cut("m", "y")
               free == ~Cut("m", "y")
    <2>1. Split(When(free, MCutsY), cut)
        BY <1>2
    <2>2. /\ Holds /\ ~cut => free /\ Solves(MCutsY, Fresh)
          /\ ~Holds => ~Solves(MCutsY, Overlaps)
        BY <1>1, <1>2, MCutsYIsRight, Zenon
    <2> HIDE DEF cut, free
    <2> QED BY <2>1, <2>2, OneOption, Zenon
<1>3. CASE SplitType = 1 /\ Implies(<<x = m, y = n>>)
    BY <1>1, <1>3, TypeOfSplit, AgreeIsRight, Zenon
<1>4. CASE SplitType = 2 /\ Split(When(~Cut("x", "n"), XCutsN), Cut("x", "n"))
    <2> DEFINE cut == Cut("x", "n")
               free == ~Cut("x", "n")
    <2>1. Split(When(free, XCutsN), cut)
        BY <1>4
    <2>2. /\ Holds /\ ~cut => free /\ Solves(XCutsN, Fresh)
          /\ ~Holds => ~Solves(XCutsN, Overlaps)
        BY <1>1, <1>4, XCutsNIsRight, Zenon
    <2> HIDE DEF cut, free
    <2> QED BY <2>1, <2>2, OneOption, Zenon
<1>5. CASE SplitType = -1 /\ Split(options, loop)
    <2>1. /\ x \in Seq(Chars) /\ y \in Seq(Chars) /\ m \in Seq(Chars) /\ n \in Seq(Chars)
          /\ Holds <=> Cat(x, y) = Cat(m, n)
          /\ \A j \in 0..Len(x) : After(x, j) \in Overlaps
          /\ \A j \in 0..Len(m) : After(m, j) \in Overlaps
        BY <1>1, FourParts
    <2>2. /\ DOMAIN options = flags /\ flags \subseteq {1, 2, 3}
          /\ \A k \in flags : /\ k = 1 => options[k] = first
                              /\ k = 2 => options[k] = second
                              /\ k = 3 => options[k] = third
        BY DEF options, flags
    <2>3. /\ ~loop => 1 \in flags /\ 2 \in flags
          /\ x = m /\ y = n => 3 \in flags
        BY DEF flags, loop, CanEq
    <2>4. /\ Holds /\ Len(x) < Len(m) => Solves(first, Fresh)
          /\ Holds /\ Len(m) <= Len(x) => Misses(first, Fresh)
          /\ ~Holds => ~Solves(first, Overlaps)
        BY <2>1, OverSays DEF first
    <2>5. /\ Holds /\ Len(m) < Len(x) => Solves(second, Fresh)
          /\ Holds /\ Len(x) <= Len(m) => Misses(second, Fresh)
          /\ ~Holds => ~Solves(second, Overlaps)
        <3>1. Holds <=> Cat(m, n) = Cat(x, y)
            BY <2>1
        <3> QED BY <2>1, <3>1, OverSays DEF second
    <2>6. /\ x = m /\ y = n => Solves(third, Fresh)
          /\ Holds /\ Len(x) # Len(m) => Misses(third, Fresh)
          /\ ~Holds => ~Solves(third, Overlaps)
        BY <1>1, ThirdSays DEF third
    <2>7. /\ Len(x) \in Nat /\ Len(m) \in Nat
          /\ Holds /\ Len(x) = Len(m) => x = m /\ y = n
        BY <2>1, CatCancel
    <2>8. ASSUME Holds, ~loop
          PROVE  \E k \in DOMAIN options : /\ Solves(options[k], Fresh)
                                           /\ \A l \in DOMAIN options \ {k} : Misses(options[l], Fresh)
        <3>1. CASE Len(x) < Len(m)
            <4>1. /\ Solves(options[1], Fresh) /\ 1 \in DOMAIN options
                  /\ \A l \in DOMAIN options \ {1} : Misses(options[l], Fresh)
                BY <2>2, <2>3, <2>4, <2>5, <2>6, <2>7, <2>8, <3>1
            <4> QED BY <4>1, Zenon
        <3>2. CASE Len(m) < Len(x)
            <4>1. Solves(options[2], Fresh) /\ 2 \in DOMAIN options
                BY <2>2, <2>3, <2>5, <2>8, <3>2
            <4>2. Misses(first, Fresh) /\ Misses(third, Fresh)
                BY <2>4, <2>6, <2>7, <2>8, <3>2
            <4>3. \A l \in DOMAIN options \ {2} : Misses(options[l], Fresh)
                BY <2>2, <4>2
            <4> QED BY <4>1, <4>3, Zenon
        <3>3. CASE Len(x) = Len(m)
            <4>1. /\ Solves(options[3], Fresh) /\ 3 \in DOMAIN options
                  /\ \A l \in DOMAIN options \ {3} : Misses(options[l], Fresh)
                BY <2>2, <2>3, <2>4, <2>5, <2>6, <2>7, <2>8, <3>3
            <4> QED BY <4>1, Zenon
        <3> QED BY <2>7, <3>1, <3>2, <3>3
    <2>9. ~Holds => \A k \in DOMAIN options : ~Solves(options[k], Overlaps)
        BY <2>2, <2>4, <2>5, <2>6
    <2> QED BY <1>5, <2>8, <2>9, SplitIsRight, Zenon
<1> QED BY <1>1, <1>2, <1>3, <1>4, <1>5

-----------------------------------------------------------------------------
(* A part that is a constant.                                              *)

\* The option of an overlap.
Cuts3(u, w, p, q) == [t \in Overlaps |-> <<p = Cat(u, t), w = Cat(t, q), Len(p) = Len(u) + Len(t)>>]

LEMMA CutsSays ==
    ASSUME CallOK,
           NEW u \in Seq(Chars), NEW w \in Seq(Chars), NEW p \in Seq(Chars), NEW q \in Seq(Chars)
    PROVE  /\ Cat(u, w) = Cat(p, q) /\ Len(u) < Len(p)
                  /\ (\A j \in 0..Len(p) : After(p, j) \in Overlaps)
              => Solves(Cuts3(u, w, p, q), Fresh)
           /\ Cat(u, w) = Cat(p, q) /\ Len(p) <= Len(u) => Misses(Cuts3(u, w, p, q), Fresh)
           /\ Cat(u, w) # Cat(p, q) => ~Solves(Cuts3(u, w, p, q), Overlaps)
<1> DEFINE option == Cuts3(u, w, p, q)
<1>1. ASSUME NEW t \in Overlaps
      PROVE  /\ All(option[t]) <=>
                    p = Cat(u, t) /\ w = Cat(t, q) /\ Len(p) = Len(u) + Len(t)
             /\ None(option[t]) <=>
                    p # Cat(u, t) /\ w # Cat(t, q) /\ Len(p) # Len(u) + Len(t)
    <2>1. option[t] = <<p = Cat(u, t), w = Cat(t, q), Len(p) = Len(u) + Len(t)>>
        BY DEF Cuts3
    <2> HIDE DEF option
    <2> QED BY <2>1, Equations3, Zenon
<1> HIDE DEF option
<1>2. ASSUME Cat(u, w) = Cat(p, q), Len(u) < Len(p),
             \A j \in 0..Len(p) : After(p, j) \in Overlaps
      PROVE  Solves(option, Fresh)
    <2>1. PICK t \in Fresh : /\ t \in Overlaps /\ p = Cat(u, t) /\ w = Cat(t, q) /\ t # <<>>
                             /\ Len(t) \in Nat /\ Len(t) = Len(p) - Len(u) /\ t \in Seq(Chars)
                             /\ Len(w) = Len(t) + Len(q)
        BY <1>2, FreshOverlap
    <2>2. Len(p) = Len(u) + Len(t)
        <3>1. Len(u) \in Nat /\ Len(p) \in Nat
            OBVIOUS
        <3> QED BY <2>1, <3>1
    <2> QED BY <1>1, <2>1, <2>2 DEF Solves
<1>3. ASSUME Cat(u, w) = Cat(p, q), Len(p) <= Len(u) PROVE Misses(option, Fresh)
    <2>1. PICK t \in Fresh : t \in Overlaps /\ t \in Seq(Chars)
        BY SomeFresh
    <2>2. p # Cat(u, t) /\ w # Cat(t, q) /\ Len(p) # Len(u) + Len(t)
        BY <1>3, <2>1, NoCut
    <2> QED BY <1>1, <2>1, <2>2 DEF Misses
<1>4. ASSUME Cat(u, w) # Cat(p, q), Solves(option, Overlaps) PROVE FALSE
    <2>1. PICK t \in Overlaps : p = Cat(u, t) /\ w = Cat(t, q)
        BY <1>1, <1>4 DEF Solves
    <2>2. t \in Seq(Chars)
        BY StringsAssumption DEF CallOK
    <2> QED BY <1>4, <2>1, <2>2, Joined
<1> QED BY <1>2, <1>3, <1>4 DEF option

\* The boundary of u . w is in q, or in p, at some place.
AtSecond(u, w, p, q, i) ==
    <<u = Cat(p, First(q, i)), w = After(q, i), Len(w) = Len(q) - i>>

LEMMA CutSecond ==
    ASSUME NEW p \in Seq(Chars), NEW q \in Seq(Chars),
           NEW i \in 0..Len(q)
    PROVE  /\ Cat(p, First(q, i)) \in Seq(Chars) /\ After(q, i) \in Seq(Chars)
           /\ Cat(Cat(p, First(q, i)), After(q, i)) = Cat(p, q)
           /\ Len(Cat(p, First(q, i))) = Len(p) + i
<1> DEFINE f == First(q, i)
           a == After(q, i)
<1>1. f \in Seq(Chars) /\ Len(f) = i /\ a \in Seq(Chars) /\ Len(a) = Len(q) - i /\ Cat(f, a) = q
    BY CatParts
<1> HIDE DEF f, a
<1>2. Cat(p, f) \in Seq(Chars) /\ Len(Cat(p, f)) = Len(p) + i
    BY <1>1, CatFacts
<1>3. Cat(Cat(p, f), a) = Cat(p, q)
    BY <1>1, CatAssoc
<1> QED BY <1>1, <1>2, <1>3 DEF f, a

LEMMA PlaceInSecond ==
    ASSUME NEW u \in Seq(Chars), NEW w \in Seq(Chars), NEW p \in Seq(Chars), NEW q \in Seq(Chars),
           NEW i \in 0..Len(q)
    PROVE  /\ Cat(u, w) = Cat(p, q) /\ Len(u) = Len(p) + i => All(AtSecond(u, w, p, q, i))
           /\ Cat(u, w) = Cat(p, q) /\ Len(u) # Len(p) + i => None(AtSecond(u, w, p, q, i))
           /\ Cat(u, w) # Cat(p, q) => ~All(AtSecond(u, w, p, q, i))
<1> DEFINE f == First(q, i)
           a == After(q, i)
<1>1. f \in Seq(Chars) /\ Len(f) = i /\ a \in Seq(Chars) /\ Len(a) = Len(q) - i /\ Cat(f, a) = q
    BY CatParts
<1> HIDE DEF f, a
<1>2. Cat(p, f) \in Seq(Chars) /\ Len(Cat(p, f)) = Len(p) + i
    BY <1>1, CatFacts
<1>3. Cat(Cat(p, f), a) = Cat(p, q)
    BY <1>1, CatAssoc
<1>4. Cat(u, w) = Cat(p, q) /\ Len(u) = Len(p) + i => u = Cat(p, f) /\ w = a
    BY <1>1, <1>2, <1>3, CatCancel
<1>5. ASSUME Cat(u, w) = Cat(p, q), Len(u) # Len(p) + i
      PROVE  u # Cat(p, f) /\ w # a /\ Len(w) # Len(q) - i
    <2>1. Len(u) + Len(w) = Len(p) + Len(q) /\ Len(u) \in Nat /\ Len(w) \in Nat
          /\ Len(p) \in Nat /\ Len(q) \in Nat
        BY <1>5, LensAgree
    <2>2. Len(w) # Len(q) - i
        BY <1>5, <2>1
    <2> QED BY <1>1, <1>2, <1>5, <2>2
<1>6. /\ All(<<u = Cat(p, f), w = a, Len(w) = Len(q) - i>>) <=>
             u = Cat(p, f) /\ w = a /\ Len(w) = Len(q) - i
      /\ None(<<u = Cat(p, f), w = a, Len(w) = Len(q) - i>>) <=>
             u # Cat(p, f) /\ w # a /\ Len(w) # Len(q) - i
    BY Equations3, Zenon
<1>7. AtSecond(u, w, p, q, i) = <<u = Cat(p, f), w = a, Len(w) = Len(q) - i>>
    BY DEF AtSecond, f, a
<1>8. /\ All(AtSecond(u, w, p, q, i)) <=> u = Cat(p, f) /\ w = a /\ Len(w) = Len(q) - i
      /\ None(AtSecond(u, w, p, q, i)) <=> u # Cat(p, f) /\ w # a /\ Len(w) # Len(q) - i
    BY <1>6, <1>7, Zenon
<1>9. /\ Cat(u, w) = Cat(p, q) /\ Len(u) = Len(p) + i => All(AtSecond(u, w, p, q, i))
      /\ Cat(u, w) = Cat(p, q) /\ Len(u) # Len(p) + i => None(AtSecond(u, w, p, q, i))
      /\ Cat(u, w) # Cat(p, q) => ~All(AtSecond(u, w, p, q, i))
    BY <1>1, <1>2, <1>3, <1>4, <1>5, <1>8
<1> QED BY <1>9 DEF f, a

AtFirst(u, w, p, q, i) ==
    <<u = First(p, i), w = Cat(After(p, i), q), Len(u) = i>>

LEMMA CutFirst ==
    ASSUME NEW p \in Seq(Chars), NEW q \in Seq(Chars),
           NEW i \in 0..Len(p)
    PROVE  /\ First(p, i) \in Seq(Chars) /\ Cat(After(p, i), q) \in Seq(Chars)
           /\ Cat(First(p, i), Cat(After(p, i), q)) = Cat(p, q)
           /\ Len(First(p, i)) = i
<1> DEFINE f == First(p, i)
           a == After(p, i)
<1>1. f \in Seq(Chars) /\ Len(f) = i /\ a \in Seq(Chars) /\ Len(a) = Len(p) - i /\ Cat(f, a) = p
    BY CatParts
<1> HIDE DEF f, a
<1>2. Cat(a, q) \in Seq(Chars) /\ Len(Cat(a, q)) = Len(p) - i + Len(q)
    <2>1. Cat(a, q) \in Seq(Chars) /\ Len(Cat(a, q)) = Len(a) + Len(q)
        BY <1>1, CatFacts
    <2> QED BY <1>1, <2>1
<1>3. Cat(f, Cat(a, q)) = Cat(p, q)
    BY <1>1, CatAssoc
<1> QED BY <1>1, <1>2, <1>3 DEF f, a

LEMMA PlaceInFirst ==
    ASSUME NEW u \in Seq(Chars), NEW w \in Seq(Chars), NEW p \in Seq(Chars), NEW q \in Seq(Chars),
           NEW i \in 0..Len(p)
    PROVE  /\ Cat(u, w) = Cat(p, q) /\ Len(u) = i => All(AtFirst(u, w, p, q, i))
           /\ Cat(u, w) = Cat(p, q) /\ Len(u) # i => None(AtFirst(u, w, p, q, i))
           /\ Cat(u, w) # Cat(p, q) => ~All(AtFirst(u, w, p, q, i))
<1> DEFINE f == First(p, i)
           a == After(p, i)
<1>1. f \in Seq(Chars) /\ Len(f) = i /\ a \in Seq(Chars) /\ Len(a) = Len(p) - i /\ Cat(f, a) = p
    BY CatParts
<1> HIDE DEF f, a
<1>2. Cat(a, q) \in Seq(Chars) /\ Len(Cat(a, q)) = Len(p) - i + Len(q)
    <2>1. Cat(a, q) \in Seq(Chars) /\ Len(Cat(a, q)) = Len(a) + Len(q)
        BY <1>1, CatFacts
    <2> QED BY <1>1, <2>1
<1>3. Cat(f, Cat(a, q)) = Cat(p, q)
    BY <1>1, CatAssoc
<1>4. Cat(u, w) = Cat(p, q) /\ Len(u) = i => u = f /\ w = Cat(a, q)
    BY <1>1, <1>2, <1>3, CatCancel
<1>5. ASSUME Cat(u, w) = Cat(p, q), Len(u) # i PROVE u # f /\ w # Cat(a, q)
    <2>1. Len(u) + Len(w) = Len(p) + Len(q) /\ Len(u) \in Nat /\ Len(w) \in Nat
          /\ Len(p) \in Nat /\ Len(q) \in Nat
        BY <1>5, LensAgree
    <2>2. Len(w) # Len(p) - i + Len(q)
        BY <1>5, <2>1
    <2> QED BY <1>1, <1>2, <1>5, <2>2
<1>6. /\ All(<<u = f, w = Cat(a, q), Len(u) = i>>) <=> u = f /\ w = Cat(a, q) /\ Len(u) = i
      /\ None(<<u = f, w = Cat(a, q), Len(u) = i>>) <=> u # f /\ w # Cat(a, q) /\ Len(u) # i
    BY Equations3, Zenon
<1>7. AtFirst(u, w, p, q, i) = <<u = f, w = Cat(a, q), Len(u) = i>>
    BY DEF AtFirst, f, a
<1>8. /\ All(AtFirst(u, w, p, q, i)) <=> u = f /\ w = Cat(a, q) /\ Len(u) = i
      /\ None(AtFirst(u, w, p, q, i)) <=> u # f /\ w # Cat(a, q) /\ Len(u) # i
    BY <1>6, <1>7, Zenon
<1>9. /\ Cat(u, w) = Cat(p, q) /\ Len(u) = i => All(AtFirst(u, w, p, q, i))
      /\ Cat(u, w) = Cat(p, q) /\ Len(u) # i => None(AtFirst(u, w, p, q, i))
      /\ Cat(u, w) # Cat(p, q) => ~All(AtFirst(u, w, p, q, i))
    BY <1>1, <1>2, <1>3, <1>4, <1>5, <1>8
<1> QED BY <1>9 DEF f, a

\* Options without an overlap.
LEMMA JustSays ==
    ASSUME CallOK, NEW equations
    PROVE  /\ All(equations) => Solves(Just(equations), Fresh)
           /\ None(equations) => Misses(Just(equations), Fresh)
           /\ ~All(equations) => ~Solves(Just(equations), Overlaps)
<1>1. \A t \in Overlaps : Just(equations)[t] = equations
    BY DEF Just
<1>2. PICK t \in Fresh : t \in Overlaps
    BY SomeFresh
<1> QED BY <1>1, <1>2, Zenon DEF Solves, Misses

LEMMA LenDelta ==
    ASSUME CallOK, OfConcats
    PROVE  /\ SplitType = 2 => -Delta \in Nat
           /\ SplitType = 0 => Delta \in Nat
<1>1. /\ Len(x) \in Nat /\ Len(y) \in Nat /\ Len(m) \in Nat /\ Len(n) \in Nat
    BY FourParts
<1>2. CASE LenKnown(1) /\ LenKnown(3)
    BY <1>1, <1>2 DEF SplitType, Delta
<1>3. CASE ~(LenKnown(1) /\ LenKnown(3))
    BY <1>1, <1>3 DEF SplitType, Delta
<1> QED BY <1>2, <1>3

\* Of options for places one is right: the one of the overlap, or of a place.
LEMMA PlacesAreRight ==
    ASSUME NEW options, NEW loop, Split(options, loop),
           NEW N \in Nat, DOMAIN options \subseteq -1..N,
           NEW place, Holds => place \in -1..N,
           Holds /\ ~loop => place \in DOMAIN options,
           \A k \in DOMAIN options : /\ Holds /\ k = place => Solves(options[k], Fresh)
                                     /\ Holds /\ k # place => Misses(options[k], Fresh)
                                     /\ ~Holds => ~Solves(options[k], Overlaps)
    PROVE  Answered
<1>1. Holds /\ ~loop =>
          \E k \in DOMAIN options : /\ Solves(options[k], Fresh)
                                    /\ \A l \in DOMAIN options \ {k} : Misses(options[l], Fresh)
    BY Zenon
<1>2. ~Holds => \A k \in DOMAIN options : ~Solves(options[k], Overlaps)
    BY Zenon
<1> QED BY <1>1, <1>2, SplitIsRight, Zenon

\* Equations for the place that lengths tell.
LEMMA KnownPlaceIsRight ==
    ASSUME CallOK, x \in Seq(Chars), y \in Seq(Chars),
           NEW f \in Seq(Chars), NEW a \in Seq(Chars),
           Holds <=> Cat(x, y) = Cat(f, a), Holds => Len(x) = Len(f),
           IF CanEq(x = f) /\ CanEq(y = a)
           THEN Implies(<<x = f, y = a>>) ELSE Negate
    PROVE  Answered
<1>1. Holds => x = f /\ y = a
    BY CatCancel
<1>2. x = f /\ y = a => Holds
    OBVIOUS
<1>3. CASE Implies(<<x = f, y = a>>)
    <2>1. All(<<x = f, y = a>>) <=> x = f /\ y = a
        BY Equations2, Zenon
    <2>2. Holds <=> All(<<x = f, y = a>>)
        BY <1>1, <1>2, <2>1, Zenon
    <2> QED BY <1>3, <2>2, ImpliesIsRight, Zenon
<1>4. CASE ~(CanEq(x = f) /\ CanEq(y = a)) /\ Negate
    <2>1. ~Holds
        BY <1>1, <1>4 DEF CanEq
    <2> QED BY <1>4, <2>1, NegateIsRight
<1> QED BY <1>3, <1>4

LEMMA Type2IsRight ==
    ASSUME CallOK, ProcessConcatEqType_2
    PROVE  Answered
<1> DEFINE canCut == CanEq(\E t \in Overlaps : y = Cat(t, n))
           cut == canCut /\ AvoidedCut("m", "y")
           free == canCut /\ ~cut
           first == Cuts3(x, y, m, n)
           at(i) == Just(AtSecond(x, y, m, n, i))
           flags == {i \in -1..Len(n) :
                        IF i = -1 THEN canCut /\ ~cut
                        ELSE CanEq(x = Cat(m, First(n, i))) /\ CanEq(y = After(n, i))}
           options == [i \in flags |-> IF i = -1 THEN first ELSE at(i)]
           prefix == First(n, -Delta)
           crop == After(n, -Delta)
<1>1. /\ OfConcats
      /\ \/ SplitType = 0 /\ Split(When(free, MCutsY), cut)
         \/ SplitType = 1 /\ Implies(<<x = m, y = n>>)
         \/ SplitType = 2 /\ -Delta > Len(n) /\ OutOfRange
         \/ /\ SplitType = 2 /\ -Delta <= Len(n)
            /\ IF CanEq(x = Cat(m, prefix)) /\ CanEq(y = crop)
               THEN Implies(<<x = Cat(m, prefix), y = crop>>) ELSE Negate
         \/ SplitType = -1 /\ Split(options, cut)
    BY DEF ProcessConcatEqType_2, isConcatEqType_2, Cuts3, Cat, AtSecond
<1>2. /\ x \in Seq(Chars) /\ y \in Seq(Chars) /\ m \in Seq(Chars) /\ n \in Seq(Chars)
      /\ Holds <=> Cat(x, y) = Cat(m, n)
      /\ \A j \in 0..Len(m) : After(m, j) \in Overlaps
    BY <1>1, FourParts
<1>3. Len(x) \in Nat /\ Len(y) \in Nat /\ Len(m) \in Nat /\ Len(n) \in Nat
    BY <1>2
<1>4. ASSUME Holds, Len(x) < Len(m) PROVE canCut
    <2>1. \E t \in Overlaps : y = Cat(t, n)
        BY <1>2, <1>4, FreshOverlap
    <2> QED BY <2>1 DEF CanEq
<1>5. /\ DOMAIN options = flags /\ flags \subseteq -1..Len(n)
      /\ -1 \in flags => options[-1] = first
      /\ \A i \in flags \ {-1} : options[i] = at(i)
    OBVIOUS
<1>6. canCut /\ ~cut => -1 \in flags
    <2>1. -1 \in -1..Len(n)
        BY <1>3
    <2> HIDE DEF canCut, cut
    <2> QED BY <2>1
<1>7. \A i \in 0..Len(n) : x = Cat(m, First(n, i)) /\ y = After(n, i) => i \in flags
    BY <1>3 DEF CanEq
<1>8. CASE SplitType = 0 /\ Split(When(free, MCutsY), cut)
    <2>1. /\ Holds /\ ~cut => free /\ Solves(MCutsY, Fresh)
          /\ ~Holds => ~Solves(MCutsY, Overlaps)
        <3>1. Holds /\ ~cut => free
            BY <1>1, <1>4, <1>8, TypeOfSplit
        <3> QED BY <1>1, <1>8, <3>1, MCutsYIsRight, Zenon
    <2> HIDE DEF cut, free
    <2> QED BY <1>8, <2>1, OneOption, Zenon
<1>9. CASE SplitType = 1 /\ Implies(<<x = m, y = n>>)
    BY <1>1, <1>9, TypeOfSplit, AgreeIsRight, Zenon
<1>10. CASE SplitType = 2 /\ -Delta > Len(n) /\ OutOfRange
    <2>1. ~Holds
        BY <1>1, <1>3, <1>10, TypeOfSplit, LenDelta
    <2> QED BY <1>10, <2>1 DEF OutOfRange, Answered
<1>11. CASE /\ SplitType = 2 /\ -Delta <= Len(n)
            /\ IF CanEq(x = Cat(m, prefix)) /\ CanEq(y = crop)
               THEN Implies(<<x = Cat(m, prefix), y = crop>>) ELSE Negate
    <2> DEFINE f == Cat(m, prefix)
    <2>1. -Delta \in 0..Len(n)
        BY <1>1, <1>3, <1>11, LenDelta
    <2>2. /\ f \in Seq(Chars) /\ crop \in Seq(Chars)
          /\ Cat(f, crop) = Cat(m, n) /\ Len(f) = Len(m) + -Delta
        BY <1>2, <2>1, CutSecond, CatParts
    <2>3. Cat(x, y) = Cat(m, n) => Len(x) = Len(f)
        <3>1. Holds => -Delta = Len(x) - Len(m)
            BY <1>1, <1>11, TypeOfSplit
        <3> QED BY <1>2, <1>3, <2>2, <3>1
    <2>4. /\ x \in Seq(Chars) /\ y \in Seq(Chars)
          /\ Holds <=> Cat(x, y) = Cat(f, crop)
          /\ Holds => Len(x) = Len(f)
          /\ IF CanEq(x = f) /\ CanEq(y = crop)
             THEN Implies(<<x = f, y = crop>>) ELSE Negate
        BY <1>2, <1>11, <2>2, <2>3, Zenon
    <2> HIDE DEF f, prefix, crop
    <2> QED BY <2>2, <2>4, KnownPlaceIsRight, Zenon
<1>12. CASE SplitType = -1 /\ Split(options, cut)
    <2> DEFINE place == IF Len(x) < Len(m) THEN -1 ELSE Len(x) - Len(m)
    <2> HIDE DEF free, options, flags, first
    <2>1. Holds => place \in -1..Len(n)
        BY <1>2, <1>3, LensAgree
    <2>2. Holds /\ ~cut => place \in DOMAIN options
        <3>1. CASE Holds /\ ~cut /\ Len(x) < Len(m)
            BY <1>4, <1>5, <1>6, <3>1
        <3>2. CASE Holds /\ ~cut /\ ~(Len(x) < Len(m))
            <4>1. place \in 0..Len(n) /\ Len(x) = Len(m) + place
                BY <1>3, <2>1, <3>2
            <4> HIDE DEF place
            <4>2. /\ First(n, place) \in Seq(Chars) /\ After(n, place) \in Seq(Chars)
                  /\ Cat(m, First(n, place)) \in Seq(Chars)
                  /\ Len(Cat(m, First(n, place))) = Len(m) + place
                  /\ Cat(Cat(m, First(n, place)), After(n, place)) = Cat(m, n)
                BY <1>2, <4>1, CutSecond, CatParts
            <4>3. x = Cat(m, First(n, place)) /\ y = After(n, place)
                BY <1>2, <3>2, <4>1, <4>2, CatCancel
            <4> QED BY <1>5, <1>7, <4>1, <4>3
        <3> QED BY <3>1, <3>2
    <2>3. ASSUME NEW k \in DOMAIN options
          PROVE  /\ Holds /\ k = place => Solves(options[k], Fresh)
                 /\ Holds /\ k # place => Misses(options[k], Fresh)
                 /\ ~Holds => ~Solves(options[k], Overlaps)
        <3>1. CASE k = -1
            <4>1. options[k] = first
                BY <1>5, <2>3, <3>1
            <4>2. /\ Holds /\ Len(x) < Len(m) => Solves(first, Fresh)
                  /\ Holds /\ Len(m) <= Len(x) => Misses(first, Fresh)
                  /\ ~Holds => ~Solves(first, Overlaps)
                BY <1>2, CutsSays DEF first
            <4> QED BY <1>3, <3>1, <4>1, <4>2
        <3>2. CASE k # -1
            <4>1. k \in 0..Len(n) /\ options[k] = Just(AtSecond(x, y, m, n, k))
                <5>1. k \in flags /\ k \in -1..Len(n)
                    BY <1>5, <2>3
                <5>2. k \in 0..Len(n)
                    BY <1>3, <3>2, <5>1
                <5>3. options[k] = at(k)
                    BY <1>5, <3>2, <5>1
                <5> QED BY <5>2, <5>3 DEF at
            <4> DEFINE E == AtSecond(x, y, m, n, k)
            <4>2. /\ Cat(x, y) = Cat(m, n) /\ Len(x) = Len(m) + k => All(E)
                  /\ Cat(x, y) = Cat(m, n) /\ Len(x) # Len(m) + k => None(E)
                  /\ Cat(x, y) # Cat(m, n) => ~All(E)
                BY <1>2, <4>1, PlaceInSecond
            <4>3. options[k] = Just(E)
                BY <4>1
            <4> HIDE DEF E
            <4>4. /\ All(E) => Solves(Just(E), Fresh)
                  /\ None(E) => Misses(Just(E), Fresh)
                  /\ ~All(E) => ~Solves(Just(E), Overlaps)
                BY JustSays
            <4>5. k = place <=> Len(x) = Len(m) + k
                <5>1. k \in Nat
                    BY <1>3, <4>1
                <5> QED BY <1>3, <5>1
            <4> QED BY <1>2, <4>2, <4>3, <4>4, <4>5
        <3> QED BY <3>1, <3>2
    <2> HIDE DEF place, cut
    <2> QED BY <1>3, <1>5, <1>12, <2>1, <2>2, <2>3, PlacesAreRight, Zenon
<1> QED BY <1>1, <1>8, <1>9, <1>10, <1>11, <1>12

LEMMA AllOf ==
    ASSUME NEW w \in Seq(Chars)
    PROVE  First(w, Len(w)) = w /\ After(w, Len(w) - Len(w)) = w
<1>1. Len(w) \in Nat /\ Len(w) - Len(w) = 0
    OBVIOUS
<1>2. /\ First(w, Len(w)) \in Seq(Chars) /\ Len(First(w, Len(w))) = Len(w)
      /\ \A i \in 1..Len(w) : First(w, Len(w))[i] = w[i]
    BY <1>1 DEF First
<1>3. /\ After(w, 0) \in Seq(Chars) /\ Len(After(w, 0)) = Len(w)
      /\ \A i \in 1..Len(w) : After(w, 0)[i] = w[i]
    BY <1>1 DEF After
<1> QED BY <1>1, <1>2, <1>3, SameString

\* When the shorter of two first parts, or of two last parts, is a constant.
LEMMA InFront ==
    ASSUME NEW u \in Seq(Chars), NEW v \in Seq(Chars), NEW p \in Seq(Chars), NEW q \in Seq(Chars),
           Len(u) <= Len(p)
    PROVE  Cat(u, v) = Cat(p, q) <=> /\ First(p, Len(u)) = u
                                     /\ v = Cat(After(p, Len(u)), q)
<1> DEFINE f == First(p, Len(u))
           a == After(p, Len(u))
<1>1. Len(u) \in 0..Len(p)
    BY CatFacts
<1>2. f \in Seq(Chars) /\ Len(f) = Len(u) /\ a \in Seq(Chars) /\ Cat(f, a) = p
    BY <1>1, CatParts
<1> HIDE DEF f, a
<1>3. Cat(a, q) \in Seq(Chars) /\ Cat(f, Cat(a, q)) = Cat(p, q)
    BY <1>2, CatFacts, CatAssoc
<1>4. Cat(u, v) = Cat(p, q) => f = u /\ v = Cat(a, q)
    BY <1>2, <1>3, CatCancel
<1> QED BY <1>3, <1>4 DEF f, a

LEMMA AtEnd ==
    ASSUME NEW u \in Seq(Chars), NEW v \in Seq(Chars), NEW p \in Seq(Chars), NEW q \in Seq(Chars),
           Len(v) <= Len(q)
    PROVE  Cat(u, v) = Cat(p, q) <=> /\ After(q, Len(q) - Len(v)) = v
                                     /\ u = Cat(p, First(q, Len(q) - Len(v)))
<1> DEFINE i == Len(q) - Len(v)
           f == First(q, i)
           a == After(q, i)
<1>1. i \in 0..Len(q) /\ Len(q) - i = Len(v) /\ Len(q) \in Nat /\ Len(v) \in Nat /\ i \in Nat
      /\ Len(u) \in Nat /\ Len(p) \in Nat
    BY CatFacts
<1> HIDE DEF i
<1>2. f \in Seq(Chars) /\ Len(f) = i /\ a \in Seq(Chars) /\ Len(a) = Len(v) /\ Cat(f, a) = q
    BY <1>1, CatParts
<1> HIDE DEF f, a
<1>3. Cat(p, f) \in Seq(Chars) /\ Cat(Cat(p, f), a) = Cat(p, q) /\ Len(Cat(p, f)) = Len(p) + i
    <2>1. Cat(p, f) \in Seq(Chars) /\ Len(Cat(p, f)) = Len(p) + Len(f)
        BY <1>2, CatFacts
    <2>2. Cat(Cat(p, f), a) = Cat(p, Cat(f, a))
        BY <1>2, CatAssoc
    <2> QED BY <1>2, <2>1, <2>2
<1>4. ASSUME Cat(u, v) = Cat(p, q) PROVE a = v /\ u = Cat(p, f)
    <2>1. Len(u) + Len(v) = Len(p) + Len(q)
        BY <1>4, LensAgree
    <2>2. Len(u) = Len(Cat(p, f))
        BY <1>1, <1>3, <2>1
    <2> QED BY <1>2, <1>3, <1>4, <2>2, CatCancel
<1> QED BY <1>3, <1>4 DEF f, a, i

LEMMA Type3IsRight ==
    ASSUME CallOK, ProcessConcatEqType_3
    PROVE  Answered
<1> DEFINE canCut == CanEq(\E t \in Overlaps : x = Cat(m, t))
           cut == canCut /\ AvoidedCut("x", "n")
           free == canCut /\ ~cut
           last == Cuts3(m, n, x, y)
           at(i) == Just(AtFirst(x, y, m, n, i))
           flags == {i \in -1..Len(m) :
                        IF i = -1 THEN canCut /\ ~cut
                        ELSE CanEq(x = First(m, i)) /\ CanEq(y = Cat(After(m, i), n))}
           options == [i \in flags |-> IF i = -1 THEN last ELSE at(i)]
           prefixLen == Len(m) - Delta
           prefix == First(m, prefixLen)
           rest == Cat(After(m, prefixLen), n)
<1>1. /\ OfConcats
      /\ \/ SplitType = 0 /\ prefixLen < 0 /\ OutOfRange
         \/ /\ SplitType = 0 /\ prefixLen >= 0
            /\ IF CanEq(x = prefix) /\ CanEq(y = rest)
               THEN Implies(<<x = prefix, y = rest>>) ELSE Negate
         \/ SplitType = 1 /\ Implies(<<x = m, y = n>>)
         \/ SplitType = 2 /\ Split(When(free, XCutsN), cut)
         \/ SplitType = -1 /\ Split(options, cut)
    BY DEF ProcessConcatEqType_3, isConcatEqType_3, Cuts3, Cat, AtFirst
<1>2. /\ x \in Seq(Chars) /\ y \in Seq(Chars) /\ m \in Seq(Chars) /\ n \in Seq(Chars)
      /\ Holds <=> Cat(x, y) = Cat(m, n)
      /\ Holds <=> Cat(m, n) = Cat(x, y)
      /\ \A j \in 0..Len(x) : After(x, j) \in Overlaps
    BY <1>1, FourParts
<1>3. Len(x) \in Nat /\ Len(y) \in Nat /\ Len(m) \in Nat /\ Len(n) \in Nat
    BY <1>2
<1>4. ASSUME Holds, Len(m) < Len(x) PROVE canCut
    <2>1. \E t \in Overlaps : x = Cat(m, t)
        BY <1>2, <1>4, FreshOverlap
    <2> QED BY <2>1 DEF CanEq
<1>5. /\ DOMAIN options = flags /\ flags \subseteq -1..Len(m)
      /\ -1 \in flags => options[-1] = last
      /\ \A i \in flags \ {-1} : options[i] = at(i)
    OBVIOUS
<1>6. canCut /\ ~cut => -1 \in flags
    <2>1. -1 \in -1..Len(m)
        BY <1>3
    <2> HIDE DEF canCut, cut
    <2> QED BY <2>1
<1>7. \A i \in 0..Len(m) : x = First(m, i) /\ y = Cat(After(m, i), n) => i \in flags
    BY <1>3 DEF CanEq
<1>8. CASE SplitType = 2 /\ Split(When(free, XCutsN), cut)
    <2>1. /\ Holds /\ ~cut => free /\ Solves(XCutsN, Fresh)
          /\ ~Holds => ~Solves(XCutsN, Overlaps)
        <3>1. Holds /\ ~cut => free
            BY <1>1, <1>4, <1>8, TypeOfSplit
        <3> QED BY <1>1, <1>8, <3>1, XCutsNIsRight, Zenon
    <2> HIDE DEF cut, free
    <2> QED BY <1>8, <2>1, OneOption, Zenon
<1>9. CASE SplitType = 1 /\ Implies(<<x = m, y = n>>)
    BY <1>1, <1>9, TypeOfSplit, AgreeIsRight, Zenon
<1>10. CASE SplitType = 0 /\ prefixLen < 0 /\ OutOfRange
    <2>1. ~Holds
        BY <1>1, <1>3, <1>10, TypeOfSplit, LenDelta
    <2> QED BY <1>10, <2>1 DEF OutOfRange, Answered
<1>11. CASE /\ SplitType = 0 /\ prefixLen >= 0
            /\ IF CanEq(x = prefix) /\ CanEq(y = rest)
               THEN Implies(<<x = prefix, y = rest>>) ELSE Negate
    <2>1. prefixLen \in 0..Len(m)
        BY <1>1, <1>3, <1>11, LenDelta
    <2>2. Holds => Len(x) = prefixLen
        <3>1. Holds => Delta = Len(m) - Len(x)
            BY <1>1, <1>11, TypeOfSplit
        <3> QED BY <1>3, <3>1
    <2> HIDE DEF prefixLen
    <2>3. prefix \in Seq(Chars) /\ rest \in Seq(Chars)
          /\ Cat(prefix, rest) = Cat(m, n) /\ Len(prefix) = prefixLen
        BY <1>2, <2>1, CutFirst
    <2>4. /\ x \in Seq(Chars) /\ y \in Seq(Chars)
          /\ Holds <=> Cat(x, y) = Cat(prefix, rest)
          /\ Holds => Len(x) = Len(prefix)
          /\ IF CanEq(x = prefix) /\ CanEq(y = rest)
             THEN Implies(<<x = prefix, y = rest>>) ELSE Negate
        BY <1>2, <1>11, <2>2, <2>3, Zenon
    <2> HIDE DEF prefix, rest
    <2> QED BY <2>3, <2>4, KnownPlaceIsRight, Zenon
<1>12. CASE SplitType = -1 /\ Split(options, cut)
    <2> DEFINE place == IF Len(m) < Len(x) THEN -1 ELSE Len(x)
    <2> HIDE DEF free, options, flags, last
    <2>1. Holds => place \in -1..Len(m)
        BY <1>3
    <2>2. Holds /\ ~cut => place \in DOMAIN options
        <3>1. CASE Holds /\ ~cut /\ Len(m) < Len(x)
            BY <1>4, <1>5, <1>6, <3>1
        <3>2. CASE Holds /\ ~cut /\ ~(Len(m) < Len(x))
            <4>1. place \in 0..Len(m) /\ Len(x) = place
                BY <1>3, <3>2
            <4> HIDE DEF place
            <4>2. /\ First(m, place) \in Seq(Chars) /\ Cat(After(m, place), n) \in Seq(Chars)
                  /\ Len(First(m, place)) = place
                  /\ Cat(First(m, place), Cat(After(m, place), n)) = Cat(m, n)
                BY <1>2, <4>1, CutFirst
            <4>3. x = First(m, place) /\ y = Cat(After(m, place), n)
                BY <1>2, <3>2, <4>1, <4>2, CatCancel
            <4> QED BY <1>5, <1>7, <4>1, <4>3
        <3> QED BY <3>1, <3>2
    <2>3. ASSUME NEW k \in DOMAIN options
          PROVE  /\ Holds /\ k = place => Solves(options[k], Fresh)
                 /\ Holds /\ k # place => Misses(options[k], Fresh)
                 /\ ~Holds => ~Solves(options[k], Overlaps)
        <3>1. CASE k = -1
            <4>1. options[k] = last
                BY <1>5, <2>3, <3>1
            <4>2. /\ Holds /\ Len(m) < Len(x) => Solves(last, Fresh)
                  /\ Holds /\ Len(x) <= Len(m) => Misses(last, Fresh)
                  /\ ~Holds => ~Solves(last, Overlaps)
                BY <1>2, CutsSays DEF last
            <4> QED BY <1>3, <3>1, <4>1, <4>2
        <3>2. CASE k # -1
            <4>1. k \in 0..Len(m) /\ options[k] = Just(AtFirst(x, y, m, n, k))
                <5>1. k \in flags /\ k \in -1..Len(m)
                    BY <1>5, <2>3
                <5>2. k \in 0..Len(m)
                    BY <1>3, <3>2, <5>1
                <5>3. options[k] = at(k)
                    BY <1>5, <3>2, <5>1
                <5> QED BY <5>2, <5>3 DEF at
            <4> DEFINE E == AtFirst(x, y, m, n, k)
            <4>2. /\ Cat(x, y) = Cat(m, n) /\ Len(x) = k => All(E)
                  /\ Cat(x, y) = Cat(m, n) /\ Len(x) # k => None(E)
                  /\ Cat(x, y) # Cat(m, n) => ~All(E)
                BY <1>2, <4>1, PlaceInFirst
            <4>3. options[k] = Just(E)
                BY <4>1
            <4> HIDE DEF E
            <4>4. /\ All(E) => Solves(Just(E), Fresh)
                  /\ None(E) => Misses(Just(E), Fresh)
                  /\ ~All(E) => ~Solves(Just(E), Overlaps)
                BY JustSays
            <4>5. k = place <=> Len(x) = k
                <5>1. k \in Nat /\ k <= Len(m)
                    BY <1>3, <4>1
                <5> QED BY <1>3, <5>1
            <4> QED BY <1>2, <4>2, <4>3, <4>4, <4>5
        <3> QED BY <3>1, <3>2
    <2> HIDE DEF place, cut
    <2> QED BY <1>3, <1>5, <1>12, <2>1, <2>2, <2>3, PlacesAreRight, Zenon
<1> QED BY <1>1, <1>8, <1>9, <1>10, <1>11, <1>12

LEMMA LensOf ==
    ASSUME CallOK, OfConcats
    PROVE  /\ x \in Seq(Chars) /\ y \in Seq(Chars) /\ m \in Seq(Chars) /\ n \in Seq(Chars)
           /\ Len(x) \in Nat /\ Len(y) \in Nat /\ Len(m) \in Nat /\ Len(n) \in Nat
    BY FourParts

\* One equation, for the constants of both sides, which lie over each other.
LEMMA RestIsRight ==
    ASSUME CallOK, NEW fits \in BOOLEAN, NEW rest \in BOOLEAN, Holds <=> fits /\ rest,
           IF ~fits THEN Negate
           ELSE IF InSameEqc("rest", rest) THEN Skip ELSE Implies(<<rest>>)
    PROVE  Answered
<1>1. CASE ~fits /\ Negate
    BY <1>1, NegateIsRight
<1>2. CASE Skip
    BY <1>2, SkipIsRight
<1>3. CASE fits /\ Implies(<<rest>>)
    <2>1. All(<<rest>>) <=> rest
        BY Equations1, Zenon
    <2>2. Holds <=> All(<<rest>>)
        BY <1>3, <2>1, Zenon
    <2> QED BY <1>3, <2>2, ImpliesIsRight, Zenon
<1> QED BY <1>1, <1>2, <1>3

LEMMA Type4IsRight ==
    ASSUME CallOK, ProcessConcatEqType_4
    PROVE  Answered
<1> DEFINE common == IF Len(x) > Len(m) THEN Len(m) ELSE Len(x)
           fits == First(x, common) = First(m, common)
           rest == IF Len(x) > Len(m) THEN n = Cat(After(x, Len(m)), y)
                   ELSE y = Cat(After(m, Len(x)), n)
<1>1. /\ OfConcats
      /\ IF ~fits THEN Negate
         ELSE IF InSameEqc("rest", rest) THEN Skip ELSE Implies(<<rest>>)
    BY DEF ProcessConcatEqType_4, isConcatEqType_4, Cat
<1>2. /\ x \in Seq(Chars) /\ y \in Seq(Chars) /\ m \in Seq(Chars) /\ n \in Seq(Chars)
      /\ Holds <=> Cat(x, y) = Cat(m, n)
      /\ Len(x) \in Nat /\ Len(m) \in Nat
    BY <1>1, FourParts
<1>3. Holds <=> fits /\ rest
    <2>1. CASE Len(x) > Len(m)
        <3> DEFINE a == After(x, Len(m))
        <3>1. /\ Cat(m, n) = Cat(x, y) <=> First(x, Len(m)) = m /\ n = Cat(a, y)
            BY <1>2, <2>1, InFront
        <3>2. First(m, Len(m)) = m
            BY <1>2, AllOf
        <3> QED BY <1>2, <2>1, <3>1, <3>2
    <2>2. CASE ~(Len(x) > Len(m))
        <3> DEFINE a == After(m, Len(x))
        <3>1. Cat(x, y) = Cat(m, n) <=> First(m, Len(x)) = x /\ y = Cat(a, n)
            BY <1>2, <2>2, InFront
        <3>2. First(x, Len(x)) = x
            BY <1>2, AllOf
        <3> QED BY <1>2, <2>2, <3>1, <3>2
    <2> QED BY <2>1, <2>2
<1>4. fits \in BOOLEAN /\ rest \in BOOLEAN
    OBVIOUS
<1> HIDE DEF fits, rest
<1> QED BY <1>1, <1>3, <1>4, RestIsRight, Zenon

LEMMA Type5IsRight ==
    ASSUME CallOK, ProcessConcatEqType_5
    PROVE  Answered
<1> DEFINE common == IF Len(y) > Len(n) THEN Len(n) ELSE Len(y)
           fits == After(y, Len(y) - common) = After(n, Len(n) - common)
           rest == IF Len(y) > Len(n) THEN m = Cat(x, First(y, Len(y) - Len(n)))
                   ELSE x = Cat(m, First(n, Len(n) - Len(y)))
<1>1. /\ OfConcats
      /\ IF ~fits THEN Negate
         ELSE IF InSameEqc("rest", rest) THEN Skip ELSE Implies(<<rest>>)
    BY DEF ProcessConcatEqType_5, isConcatEqType_5, Cat
<1>2. /\ x \in Seq(Chars) /\ y \in Seq(Chars) /\ m \in Seq(Chars) /\ n \in Seq(Chars)
      /\ Holds <=> Cat(x, y) = Cat(m, n)
      /\ Len(y) \in Nat /\ Len(n) \in Nat
    BY <1>1, FourParts
<1>3. Holds <=> fits /\ rest
    <2>1. CASE Len(y) > Len(n)
        <3>1. Cat(m, n) = Cat(x, y) <=> /\ After(y, Len(y) - Len(n)) = n
                                        /\ m = Cat(x, First(y, Len(y) - Len(n)))
            BY <1>2, <2>1, AtEnd
        <3>2. After(n, Len(n) - Len(n)) = n
            BY <1>2, AllOf
        <3> QED BY <1>2, <2>1, <3>1, <3>2
    <2>2. CASE ~(Len(y) > Len(n))
        <3>1. Cat(x, y) = Cat(m, n) <=> /\ After(n, Len(n) - Len(y)) = y
                                        /\ x = Cat(m, First(n, Len(n) - Len(y)))
            BY <1>2, <2>2, AtEnd
        <3>2. After(y, Len(y) - Len(y)) = y
            BY <1>2, AllOf
        <3> QED BY <1>2, <2>2, <3>1, <3>2
    <2> QED BY <2>1, <2>2
<1>4. fits \in BOOLEAN /\ rest \in BOOLEAN
    OBVIOUS
<1> HIDE DEF fits, rest
<1> QED BY <1>1, <1>3, <1>4, RestIsRight, Zenon

\* Two constants, x and n: the last i places of x are the first of n.
Over6(u, w, p, q, i) ==
    <<p = First(u, Len(u) - i), Len(p) = Len(First(u, Len(u) - i)),
      w = After(q, i), Len(w) = Len(After(q, i))>>

LEMMA OtherLength ==
    ASSUME NEW u \in Seq(Chars), NEW w \in Seq(Chars), NEW p \in Seq(Chars), NEW q \in Seq(Chars),
           NEW i \in Nat, Len(u) + Len(w) = Len(p) + Len(q), Len(u) # Len(p) + i
    PROVE  Len(w) # Len(q) - i
    OBVIOUS

LEMMA PlaceInBoth ==
    ASSUME NEW u \in Seq(Chars), NEW w \in Seq(Chars), NEW p \in Seq(Chars), NEW q \in Seq(Chars),
           NEW i \in 0..Len(u), i <= Len(q), After(u, Len(u) - i) = First(q, i)
    PROVE  /\ Cat(u, w) = Cat(p, q) /\ Len(u) = Len(p) + i => All(Over6(u, w, p, q, i))
           /\ Cat(u, w) = Cat(p, q) /\ Len(u) # Len(p) + i => None(Over6(u, w, p, q, i))
           /\ Cat(u, w) # Cat(p, q) => ~All(Over6(u, w, p, q, i))
<1> DEFINE j == Len(u) - i
           f == First(u, j)
           t == After(u, j)
           a == After(q, i)
<1>1. j \in 0..Len(u) /\ i \in 0..Len(q) /\ Len(u) \in Nat /\ Len(q) \in Nat /\ i \in Nat /\ j \in Nat
      /\ Len(p) \in Nat /\ Len(w) \in Nat /\ Len(u) = j + i /\ Len(u) - j = i
    BY CatFacts
<1> HIDE DEF j
<1>2. f \in Seq(Chars) /\ Len(f) = j /\ t \in Seq(Chars) /\ Len(t) = i /\ Cat(f, t) = u
    BY <1>1, CatParts
<1>3. a \in Seq(Chars) /\ Len(a) = Len(q) - i /\ Cat(t, a) = q
    <2>1. First(q, i) = t
        BY DEF j
    <2> QED BY <1>1, <2>1, CatParts
<1> HIDE DEF f, t, a
<1>4. Cat(f, q) = Cat(u, a)
    BY <1>2, <1>3, CatAssoc
<1>5. Cat(u, w) = Cat(p, q) => Len(u) + Len(w) = Len(p) + Len(q)
    BY LensAgree
<1>6. ASSUME Cat(u, w) = Cat(p, q), Len(p) = j PROVE p = f /\ w = a
    <2>1. Cat(p, q) = Cat(f, Cat(t, w))
        BY <1>2, <1>6, CatAssoc
    <2>2. Cat(t, w) \in Seq(Chars)
        BY <1>2, CatFacts
    <2>3. p = f /\ q = Cat(t, w)
        BY <1>2, <1>6, <2>1, <2>2, CatCancel
    <2>4. Cat(t, a) = Cat(t, w)
        BY <1>3, <2>3
    <2>5. a = w
        BY <1>2, <1>3, <2>4, CatCancel
    <2> QED BY <2>3, <2>5
<1>7. /\ All(<<p = f, Len(p) = Len(f), w = a, Len(w) = Len(a)>>) <=>
             p = f /\ Len(p) = Len(f) /\ w = a /\ Len(w) = Len(a)
      /\ None(<<p = f, Len(p) = Len(f), w = a, Len(w) = Len(a)>>) <=>
             p # f /\ Len(p) # Len(f) /\ w # a /\ Len(w) # Len(a)
    BY Equations4, Zenon
<1>8. Over6(u, w, p, q, i) = <<p = f, Len(p) = Len(f), w = a, Len(w) = Len(a)>>
    BY DEF Over6, f, a, j
<1>9. /\ All(Over6(u, w, p, q, i)) <=> p = f /\ Len(p) = Len(f) /\ w = a /\ Len(w) = Len(a)
      /\ None(Over6(u, w, p, q, i)) <=> p # f /\ Len(p) # Len(f) /\ w # a /\ Len(w) # Len(a)
    BY <1>7, <1>8, Zenon
<1>10. ASSUME Cat(u, w) = Cat(p, q), Len(u) # Len(p) + i
       PROVE  Len(p) # Len(f) /\ Len(w) # Len(a)
    <2>1. Len(p) # j
        BY <1>1, <1>10
    <2>2. Len(w) # Len(q) - i
        BY <1>1, <1>5, <1>10, OtherLength
    <2> QED BY <1>2, <1>3, <2>1, <2>2
<1>11. ASSUME Cat(u, w) = Cat(p, q), Len(u) = Len(p) + i
       PROVE  p = f /\ w = a
    <2>1. Len(p) = j
        BY <1>1, <1>11
    <2> QED BY <1>6, <1>11, <2>1
<1>12. p = f /\ w = a => Cat(u, w) = Cat(p, q)
    BY <1>4
<1> QED BY <1>9, <1>10, <1>11, <1>12

\* What x has over m lies in front of n.
LEMMA BothOverlap ==
    ASSUME NEW u \in Seq(Chars), NEW v \in Seq(Chars), NEW p \in Seq(Chars), NEW q \in Seq(Chars),
           Cat(u, v) = Cat(p, q), Len(u) <= Len(p)
    PROVE  LET i == Len(p) - Len(u)
           IN  i \in 0..Len(p) /\ i <= Len(v) /\ After(p, Len(p) - i) = First(v, i)
<1>1. /\ Len(u) + Len(v) = Len(p) + Len(q)
      /\ Len(u) \in Nat /\ Len(v) \in Nat /\ Len(p) \in Nat /\ Len(q) \in Nat
    BY LensAgree
<1> DEFINE i == Len(p) - Len(u)
           t == After(p, Len(u))
<1>2. t \in Seq(Chars) /\ Len(t) = Len(p) - Len(u) /\ v = Cat(t, q)
    BY <1>1, Overlap
<1> HIDE DEF t
<1>3. i \in 0..Len(p) /\ i <= Len(v) /\ Len(p) - i = Len(u)
    BY <1>1
<1>4. First(v, i) = t
    BY <1>2, PartsOfCat
<1> HIDE DEF i
<1>5. i \in 0..Len(p) /\ i <= Len(v) /\ After(p, Len(p) - i) = First(v, i)
    BY <1>3, <1>4 DEF t
<1> QED BY <1>5 DEF i

LEMMA Type6IsRight ==
    ASSUME CallOK, ProcessConcatEqType_6
    PROVE  Answered
<1> DEFINE cut == AvoidedCut("m", "y")
           more == Cuts3(x, y, m, n)
           at(i) == Just(Over6(x, y, m, n, i))
           flags == {i \in -1..Len(x) :
                        IF i = -1 THEN ~cut
                        ELSE i <= Len(n) /\ After(x, Len(x) - i) = First(n, i)}
           options == [i \in flags |-> IF i = -1 THEN more ELSE at(i)]
<1>1. OfConcats /\ Split(options, cut)
    BY DEF ProcessConcatEqType_6, isConcatEqType_6, Cuts3, Cat, Over6
<1>2. /\ x \in Seq(Chars) /\ y \in Seq(Chars) /\ m \in Seq(Chars) /\ n \in Seq(Chars)
      /\ Holds <=> Cat(x, y) = Cat(m, n)
      /\ \A j \in 0..Len(m) : After(m, j) \in Overlaps
    BY <1>1, FourParts
<1>3. Len(x) \in Nat /\ Len(y) \in Nat /\ Len(m) \in Nat /\ Len(n) \in Nat
    BY <1>2
<1>4. /\ DOMAIN options = flags /\ flags \subseteq -1..Len(x)
      /\ -1 \in flags => options[-1] = more
      /\ \A i \in flags \ {-1} : options[i] = at(i)
    OBVIOUS
<1>5. ~cut => -1 \in flags
    <2>1. -1 \in -1..Len(x)
        BY <1>3
    <2> HIDE DEF cut
    <2> QED BY <2>1
<1>6. \A i \in 0..Len(x) :
          i <= Len(n) /\ After(x, Len(x) - i) = First(n, i) <=> i \in flags
    BY <1>3
<1> DEFINE place == IF Len(x) < Len(m) THEN -1 ELSE Len(x) - Len(m)
<1> HIDE DEF options, flags, more
<1>7. Holds => place \in -1..Len(x)
    BY <1>3
<1>8. Holds /\ ~cut => place \in DOMAIN options
    <2>1. CASE ~cut /\ Len(x) < Len(m)
        BY <1>4, <1>5, <2>1
    <2>2. CASE Holds /\ ~(Len(x) < Len(m))
        <3>1. place = Len(x) - Len(m) /\ Len(m) <= Len(x)
            BY <1>3, <2>2
        <3> HIDE DEF place
        <3>2. /\ place \in 0..Len(x) /\ place <= Len(n)
              /\ After(x, Len(x) - place) = First(n, place)
            BY <1>2, <2>2, <3>1, BothOverlap DEF place
        <3> QED BY <1>4, <1>6, <3>2
    <2> QED BY <2>1, <2>2
<1>9. ASSUME NEW k \in DOMAIN options
      PROVE  /\ Holds /\ k = place => Solves(options[k], Fresh)
             /\ Holds /\ k # place => Misses(options[k], Fresh)
             /\ ~Holds => ~Solves(options[k], Overlaps)
    <2>1. CASE k = -1
        <3>1. options[k] = more
            BY <1>4, <1>9, <2>1
        <3>2. /\ Holds /\ Len(x) < Len(m) => Solves(more, Fresh)
              /\ Holds /\ Len(m) <= Len(x) => Misses(more, Fresh)
              /\ ~Holds => ~Solves(more, Overlaps)
            BY <1>2, CutsSays DEF more
        <3> QED BY <1>3, <2>1, <3>1, <3>2
    <2>2. CASE k # -1
        <3>1. k \in 0..Len(x) /\ k \in flags /\ options[k] = Just(Over6(x, y, m, n, k))
            <4>1. k \in flags /\ k \in -1..Len(x)
                BY <1>4, <1>9
            <4>2. k \in 0..Len(x)
                BY <1>3, <2>2, <4>1
            <4>3. options[k] = at(k)
                BY <1>4, <2>2, <4>1
            <4> QED BY <4>1, <4>2, <4>3 DEF at
        <3>2. k <= Len(n) /\ After(x, Len(x) - k) = First(n, k)
            BY <1>6, <3>1
        <3> DEFINE E == Over6(x, y, m, n, k)
        <3>3. /\ Cat(x, y) = Cat(m, n) /\ Len(x) = Len(m) + k => All(E)
              /\ Cat(x, y) = Cat(m, n) /\ Len(x) # Len(m) + k => None(E)
              /\ Cat(x, y) # Cat(m, n) => ~All(E)
            BY <1>2, <3>1, <3>2, PlaceInBoth
        <3>4. options[k] = Just(E)
            BY <3>1
        <3> HIDE DEF E
        <3>5. /\ All(E) => Solves(Just(E), Fresh)
              /\ None(E) => Misses(Just(E), Fresh)
              /\ ~All(E) => ~Solves(Just(E), Overlaps)
            BY JustSays
        <3>6. k = place <=> Len(x) = Len(m) + k
            <4>1. k \in Nat
                BY <1>3, <3>1
            <4> QED BY <1>3, <4>1
        <3> QED BY <1>2, <3>3, <3>4, <3>5, <3>6
    <2> QED BY <2>1, <2>2
<1> HIDE DEF place, cut
<1> QED BY <1>1, <1>3, <1>4, <1>7, <1>8, <1>9, PlacesAreRight, Zenon

-----------------------------------------------------------------------------
(* Parts that are equal, or as long.                                       *)

LEMMA EqualPartsIsRight ==
    ASSUME CallOK, EqualParts
    PROVE  Answered
<1>1. OfConcats /\ SamePart
    BY DEF EqualParts
<1>2. /\ x \in Seq(Chars) /\ y \in Seq(Chars) /\ m \in Seq(Chars) /\ n \in Seq(Chars)
      /\ Holds <=> Cat(x, y) = Cat(m, n)
    BY <1>1, FourParts
<1>3. CASE Skip
    BY <1>3, SkipIsRight
<1>4. CASE InSameEqc("x, m", x = m)
           /\ Implies(<<y = n, Len(y) = Len(n)>>)
    <2>1. x = m
        BY <1>4 DEF InSameEqc
    <2>2. Holds <=> y = n
        BY <1>2, <2>1, CatCancel
    <2>3. All(<<y = n, Len(y) = Len(n)>>) <=>
              y = n /\ Len(y) = Len(n)
        BY Equations2, Zenon
    <2>4. y = n => Len(y) = Len(n)
        OBVIOUS
    <2>5. Holds <=> All(<<y = n, Len(y) = Len(n)>>)
        BY <2>2, <2>3, <2>4, Zenon
    <2> QED BY <1>4, <2>5, ImpliesIsRight, Zenon
<1>5. CASE InSameEqc("y, n", y = n)
           /\ Implies(<<x = m, Len(x) = Len(m)>>)
    <2>1. y = n
        BY <1>5 DEF InSameEqc
    <2>2. Holds <=> x = m
        <3>1. ASSUME Holds PROVE Len(x) = Len(m)
            <4>1. Len(x) + Len(y) = Len(m) + Len(n)
                  /\ Len(x) \in Nat /\ Len(y) \in Nat /\ Len(m) \in Nat
                BY <1>2, <3>1, LensAgree
            <4> QED BY <2>1, <4>1
        <3> QED BY <1>2, <2>1, <3>1, CatCancel
    <2>3. All(<<x = m, Len(x) = Len(m)>>) <=>
              x = m /\ Len(x) = Len(m)
        BY Equations2, Zenon
    <2>4. x = m => Len(x) = Len(m)
        OBVIOUS
    <2>5. Holds <=> All(<<x = m, Len(x) = Len(m)>>)
        BY <2>2, <2>3, <2>4, Zenon
    <2> QED BY <1>5, <2>5, ImpliesIsRight, Zenon
<1> QED BY <1>3, <1>4, <1>5, Zenon DEF EqualParts, SamePart

LEMMA EqualLengthsIsRight ==
    ASSUME CallOK, EqualLengths
    PROVE  Answered
<1>1. OfConcats /\ Implies(<<x = m, y = n>>)
      /\ (Len(x) = Len(m) \/ Len(y) = Len(n))
    BY DEF EqualLengths, SameLen, SameLenBefore
<1>2. /\ x \in Seq(Chars) /\ y \in Seq(Chars) /\ m \in Seq(Chars) /\ n \in Seq(Chars)
      /\ Holds <=> Cat(x, y) = Cat(m, n)
    BY <1>1, FourParts
<1>3. ASSUME Holds PROVE x = m /\ y = n
    <2>1. Len(x) + Len(y) = Len(m) + Len(n)
          /\ Len(x) \in Nat /\ Len(y) \in Nat /\ Len(m) \in Nat /\ Len(n) \in Nat
        BY <1>2, <1>3, LensAgree
    <2>2. Len(x) = Len(m)
        BY <1>1, <2>1
    <2> QED BY <1>2, <1>3, <2>2, CatCancel
<1> QED BY <1>1, <1>3, AgreeIsRight, Zenon

LEMMA UnequalIsRight ==
    ASSUME CallOK, Unequal
    PROVE  Answered
<1>1. Negate /\ ~Holds
    BY DEF Unequal, CanEq, Holds
<1> QED BY <1>1, NegateIsRight

-----------------------------------------------------------------------------
(* A concatenation and a constant.                                         *)

At(u, w, v, i) == <<u = First(v, i), w = After(v, i)>>

LEMMA PlaceInWhole ==
    ASSUME NEW u \in Seq(Chars), NEW w \in Seq(Chars), NEW v \in Seq(Chars), NEW i \in 0..Len(v)
    PROVE  /\ Cat(u, w) = v /\ Len(u) = i => u = First(v, i) /\ w = After(v, i)
           /\ Cat(u, w) = v /\ Len(u) = i => All(At(u, w, v, i))
           /\ Cat(u, w) = v /\ Len(u) # i => None(At(u, w, v, i))
           /\ Cat(u, w) # v => ~All(At(u, w, v, i))
<1> DEFINE f == First(v, i)
           a == After(v, i)
<1>1. f \in Seq(Chars) /\ Len(f) = i /\ a \in Seq(Chars) /\ Len(a) = Len(v) - i /\ Cat(f, a) = v
    BY CatParts
<1> HIDE DEF f, a
<1>2. Cat(u, w) = v /\ Len(u) = i => u = f /\ w = a
    BY <1>1, CatCancel
<1>3. ASSUME Cat(u, w) = v, Len(u) # i PROVE u # f /\ w # a
    <2>1. Len(u) + Len(w) = Len(v) /\ Len(u) \in Nat /\ Len(w) \in Nat /\ Len(v) \in Nat
        BY <1>3, CatFacts
    <2>2. Len(w) # Len(v) - i
        BY <1>3, <2>1
    <2> QED BY <1>1, <1>3, <2>2
<1>4. /\ All(<<u = f, w = a>>) <=> u = f /\ w = a
      /\ None(<<u = f, w = a>>) <=> u # f /\ w # a
    BY Equations2, Zenon
<1>5. At(u, w, v, i) = <<u = f, w = a>>
    BY DEF At, f, a
<1>6. /\ All(At(u, w, v, i)) <=> u = f /\ w = a
      /\ None(At(u, w, v, i)) <=> u # f /\ w # a
    BY <1>4, <1>5, Zenon
<1> QED BY <1>1, <1>2, <1>3, <1>6 DEF f, a

LEMMA LensOfWhole ==
    ASSUME CallOK, ~OfConcats
    PROVE  /\ x \in Seq(Chars) /\ y \in Seq(Chars) /\ s \in Seq(Chars)
           /\ Len(x) \in Nat /\ Len(y) \in Nat /\ Len(s) \in Nat
           /\ Holds <=> Cat(x, y) = s
           /\ Holds => Len(x) + Len(y) = Len(s)
<1>1. /\ x \in Seq(Chars) /\ y \in Seq(Chars) /\ s \in Seq(Chars)
      /\ Holds <=> Cat(x, y) = s
    BY ThreeParts
<1> QED BY <1>1, CatFacts

\* One equation, when the other part is a constant.
LEMMA OneEquation ==
    ASSUME CallOK, NEW equation \in BOOLEAN, Implies(<<equation>>), Holds <=> equation
    PROVE  Answered
<1>1. All(<<equation>>) <=> equation
    BY Equations1, Zenon
<1>2. Holds <=> All(<<equation>>)
    BY <1>1, Zenon
<1> QED BY <1>2, ImpliesIsRight, Zenon

LEMMA EmptyIsRight ==
    ASSUME CallOK, ~OfConcats, s = <<>>, Implies(<<x = s, y = s>>)
    PROVE  Answered
<1>1. Holds <=> x = <<>> /\ y = <<>>
    <2>1. /\ Len(x) = 0 <=> x = <<>>
          /\ Len(y) = 0 <=> y = <<>>
          /\ Len(s) = 0
        BY LensOfWhole
    <2>2. Holds => x = <<>> /\ y = <<>>
        BY <2>1, LensOfWhole
    <2>3. x = <<>> /\ y = <<>> => Holds
        BY LensOfWhole DEF Cat
    <2> QED BY <2>2, <2>3
<1>2. All(<<x = s, y = s>>) <=> x = s /\ y = s
    BY Equations2, Zenon
<1>3. Holds <=> All(<<x = s, y = s>>)
    BY <1>1, <1>2, Zenon
<1> QED BY <1>3, ImpliesIsRight, Zenon

\* y is a constant, and then x is.
LEMMA SecondConstantIsRight ==
    ASSUME CallOK, ~OfConcats,
           LET rest == Len(s) - Len(y)
           IN  IF rest < 0 \/ (rest >= 0 /\ After(s, rest) # y) THEN Negate
               ELSE Implies(<<x = First(s, rest)>>)
    PROVE  Answered
<1> DEFINE rest == Len(s) - Len(y)
           first == First(s, rest)
           second == After(s, rest)
<1>1. rest \in Int /\ (Holds => rest >= 0 /\ Len(x) = rest)
    BY LensOfWhole
<1>2. rest >= 0 => rest \in 0..Len(s)
    BY LensOfWhole
<1>3. Holds => rest >= 0 /\ x = first /\ y = second
    <2> HIDE DEF rest
    <2> QED BY <1>1, <1>2, LensOfWhole, PlaceInWhole
<1>4. rest >= 0 /\ x = first /\ y = second => Holds
    <2> HIDE DEF rest
    <2> QED BY <1>2, LensOfWhole, CatParts
<1> HIDE DEF rest, first, second
<1>5. CASE (rest < 0 \/ (rest >= 0 /\ second # y)) /\ Negate
    <2>1. ~Holds
        BY <1>1, <1>3, <1>5
    <2> QED BY <1>5, <2>1, NegateIsRight
<1>6. CASE ~(rest < 0 \/ (rest >= 0 /\ second # y)) /\ Implies(<<x = first>>)
    <2>1. Holds <=> x = first
        BY <1>1, <1>3, <1>4, <1>6
    <2> QED BY <1>6, <2>1, OneEquation, Zenon
<1> QED BY <1>5, <1>6 DEF rest, first, second

LEMMA FirstConstantIsRight ==
    ASSUME CallOK, ~OfConcats,
           IF Len(s) < Len(x) \/ First(s, Len(x)) # x THEN Negate
           ELSE Implies(<<y = After(s, Len(x))>>)
    PROVE  Answered
<1> DEFINE i == Len(x)
           first == First(s, i)
           second == After(s, i)
<1>1. i \in Nat /\ Len(s) \in Nat /\ (Holds => i <= Len(s))
    BY LensOfWhole
<1>2. i <= Len(s) => i \in 0..Len(s)
    BY <1>1
<1>3. Holds => i <= Len(s) /\ x = first /\ y = second
    BY <1>1, <1>2, LensOfWhole, PlaceInWhole
<1>4. i <= Len(s) /\ x = first /\ y = second => Holds
    <2>1. i <= Len(s) => Cat(first, second) = s
        BY <1>2, LensOfWhole, CatParts
    <2> HIDE DEF i, first, second
    <2> QED BY <2>1, LensOfWhole
<1> HIDE DEF i, first, second
<1>5. CASE (Len(s) < i \/ first # x) /\ Negate
    <2>1. ~Holds
        BY <1>1, <1>3, <1>5
    <2> QED BY <1>5, <2>1, NegateIsRight
<1>6. CASE ~(Len(s) < i \/ first # x) /\ Implies(<<y = second>>)
    <2>1. Holds <=> y = second
        BY <1>1, <1>3, <1>4, <1>6
    <2> QED BY <1>6, <2>1, OneEquation, Zenon
<1> QED BY <1>5, <1>6 DEF i, first, second

LEMMA ByLengthIsRight ==
    ASSUME CallOK, ~OfConcats, SolveByLength
    PROVE  Answered
<1> DEFINE known == IF LenKnown(1) THEN x ELSE y
           boundary == IF LenKnown(1) THEN Len(x) ELSE Len(s) - Len(y)
           prefix == First(s, boundary)
           suffix == After(s, boundary)
           other == IF LenKnown(1) THEN Len(y) = Len(suffix) ELSE Len(x) = Len(prefix)
<1>1. IF Len(known) > Len(s) THEN Implies(<<Len(known) <= Len(s)>>)
      ELSE IF ~CanEq(x = prefix) \/ ~CanEq(y = suffix) THEN Negate
      ELSE Implies(IF LenKnown(1) /\ LenKnown(2) THEN <<x = prefix, y = suffix>>
                        ELSE <<x = prefix, y = suffix, other>>)
    BY DEF SolveByLength
<1>2. /\ Len(known) \in Nat /\ Len(s) \in Nat
      /\ Holds => Len(known) <= Len(s) /\ Len(x) = boundary
      /\ Len(known) <= Len(s) => boundary \in 0..Len(s)
    BY LensOfWhole
<1> HIDE DEF known, boundary
<1>3. Holds => x = prefix /\ y = suffix
    BY <1>2, LensOfWhole, PlaceInWhole
<1>4. Len(known) <= Len(s) /\ x = prefix /\ y = suffix => Holds
    <2>1. Len(known) <= Len(s) => Cat(prefix, suffix) = s
        BY <1>2, LensOfWhole, CatParts
    <2> HIDE DEF prefix, suffix
    <2> QED BY <2>1, LensOfWhole
<1>5. x = prefix /\ y = suffix => other
    <2> HIDE DEF prefix, suffix
    <2> QED OBVIOUS
<1>6. other \in BOOLEAN
    OBVIOUS
<1> HIDE DEF prefix, suffix, other
<1>7. CASE Len(known) > Len(s) /\ Implies(<<Len(known) <= Len(s)>>)
    <2> DEFINE short == Len(known) <= Len(s)
    <2>1. short \in BOOLEAN /\ Implies(<<short>>)
        BY <1>7
    <2>2. ~Holds /\ ~short
        BY <1>2, <1>7
    <2> HIDE DEF short
    <2> QED BY <2>1, <2>2, OneEquation, Zenon
<1>8. CASE /\ ~(Len(known) > Len(s))
           /\ (~CanEq(x = prefix) \/ ~CanEq(y = suffix)) /\ Negate
    <2>1. ~Holds
        BY <1>3, <1>8 DEF CanEq
    <2> QED BY <1>8, <2>1, NegateIsRight
<1>9. CASE /\ ~(Len(known) > Len(s))
           /\ Implies(<<x = prefix, y = suffix>>)
    <2>1. All(<<x = prefix, y = suffix>>) <=> x = prefix /\ y = suffix
        BY Equations2, Zenon
    <2>2. Holds <=> x = prefix /\ y = suffix
        BY <1>2, <1>3, <1>4, <1>9
    <2>3. Holds <=> All(<<x = prefix, y = suffix>>)
        BY <2>1, <2>2, Zenon
    <2> QED BY <1>9, <2>3, ImpliesIsRight, Zenon
<1>10. CASE /\ ~(Len(known) > Len(s))
            /\ Implies(<<x = prefix, y = suffix, other>>)
    <2>1. All(<<x = prefix, y = suffix, other>>) <=>
              x = prefix /\ y = suffix /\ other
        BY <1>6, Equations3, Zenon
    <2>2. Holds <=> x = prefix /\ y = suffix /\ other
        BY <1>2, <1>3, <1>4, <1>5, <1>10
    <2>3. Holds <=> All(<<x = prefix, y = suffix, other>>)
        BY <2>1, <2>2, Zenon
    <2> QED BY <1>10, <2>3, ImpliesIsRight, Zenon
<1> QED BY <1>1, <1>7, <1>8, <1>9, <1>10, Zenon

LEMMA BoundariesAreRight ==
    ASSUME CallOK, ~OfConcats,
           IF DOMAIN Boundaries = {} THEN Negate ELSE Split(Boundaries, FALSE)
    PROVE  Answered
<1> DEFINE flags == {i \in 0..Len(s) : CanEq(x = First(s, i)) /\ CanEq(y = After(s, i))}
           options == [i \in flags |-> Just(At(x, y, s, i))]
           loop == FALSE
<1>1. Boundaries = options
    BY DEF Boundaries, At
<1>2. /\ x \in Seq(Chars) /\ y \in Seq(Chars) /\ s \in Seq(Chars)
      /\ Len(x) \in Nat /\ Len(y) \in Nat /\ Len(s) \in Nat
      /\ Holds <=> Cat(x, y) = s
      /\ Holds => Len(x) + Len(y) = Len(s)
    BY LensOfWhole
<1>3. Holds => Len(x) \in DOMAIN options
    <2>1. Holds => Len(x) \in 0..Len(s)
        BY <1>2
    <2>2. Holds => x = First(s, Len(x)) /\ y = After(s, Len(x))
        BY <1>2, <2>1, PlaceInWhole
    <2> QED BY <2>1, <2>2 DEF CanEq
<1>4. /\ DOMAIN options = flags /\ flags \subseteq 0..Len(s)
      /\ \A k \in DOMAIN options : options[k] = Just(At(x, y, s, k))
    OBVIOUS
<1> HIDE DEF options, flags
<1>5. ASSUME NEW k \in DOMAIN options
      PROVE  /\ Holds /\ k = Len(x) => Solves(options[k], Fresh)
             /\ Holds /\ k # Len(x) => Misses(options[k], Fresh)
             /\ ~Holds => ~Solves(options[k], Overlaps)
    <2> DEFINE E == At(x, y, s, k)
    <2>1. k \in 0..Len(s) /\ options[k] = Just(E)
        BY <1>4, <1>5
    <2>2. /\ Cat(x, y) = s /\ Len(x) = k => All(E)
          /\ Cat(x, y) = s /\ Len(x) # k => None(E)
          /\ Cat(x, y) # s => ~All(E)
        BY <1>2, <2>1, PlaceInWhole
    <2> HIDE DEF E
    <2>3. /\ All(E) => Solves(Just(E), Fresh)
          /\ None(E) => Misses(Just(E), Fresh)
          /\ ~All(E) => ~Solves(Just(E), Overlaps)
        BY JustSays
    <2> QED BY <1>2, <2>1, <2>2, <2>3
<1>6. CASE DOMAIN options = {} /\ Negate
    <2>1. ~Holds
        BY <1>3, <1>6
    <2> QED BY <1>6, <2>1, NegateIsRight
<1>7. CASE Split(options, FALSE)
    <2> DEFINE place == Len(x)
    <2>1. /\ DOMAIN options \subseteq -1..Len(s)
          /\ Holds => place \in -1..Len(s)
          /\ Holds /\ ~loop => place \in DOMAIN options
        BY <1>2, <1>3, <1>4
    <2>2. Split(options, loop)
        BY <1>7
    <2>3. \A k \in DOMAIN options : /\ Holds /\ k = place => Solves(options[k], Fresh)
                                    /\ Holds /\ k # place => Misses(options[k], Fresh)
                                    /\ ~Holds => ~Solves(options[k], Overlaps)
        BY <1>5
    <2> HIDE DEF place, loop
    <2> QED BY <1>2, <2>1, <2>2, <2>3, PlacesAreRight, Zenon
<1> QED BY <1>1, <1>6, <1>7

LEMMA SolveIsRight ==
    ASSUME CallOK, SolveConcatEqStr
    PROVE  Answered
<1>1. ~OfConcats
    BY DEF SolveConcatEqStr
<1>2. CASE s = <<>> /\ Implies(<<x = s, y = s>>)
    BY <1>1, <1>2, EmptyIsRight, Zenon
<1>3. CASE IF x \o y = s THEN Skip ELSE Negate
    <2>1. Holds <=> x \o y = s
        BY <1>1 DEF Holds
    <2> QED BY <1>3, <2>1, SkipIsRight, NegateIsRight, Zenon
<1>4. CASE LET rest == Len(s) - Len(y)
           IN  IF rest < 0 \/ (rest >= 0 /\ After(s, rest) # y) THEN Negate
               ELSE Implies(<<x = First(s, rest)>>)
    BY <1>1, <1>4, SecondConstantIsRight, Zenon
<1>5. CASE IF Len(s) < Len(x) \/ First(s, Len(x)) # x THEN Negate
           ELSE Implies(<<y = After(s, Len(x))>>)
    BY <1>1, <1>5, FirstConstantIsRight, Zenon
<1>6. CASE SolveByLength
    BY <1>1, <1>6, ByLengthIsRight, Zenon
<1>7. CASE IF DOMAIN Boundaries = {} THEN Negate ELSE Split(Boundaries, FALSE)
    BY <1>1, <1>7, BoundariesAreRight, Zenon
<1> QED BY <1>2, <1>3, <1>4, <1>5, <1>6, <1>7, Zenon DEF SolveConcatEqStr

-----------------------------------------------------------------------------
\* Whatever the strings, the calls and what the solver knows, a call answers
\* as the equation is (SplitIsExact): no axiom of simplifyConcatEq or
\* solve_concat_eq_str loses a solution, unless as a loop, or admits a value
\* that solves nothing.
THEOREM SplitsAreExact == CallSpec => []SplitIsExact
<1> DEFINE CallInv == call.values \in Values /\ SplitIsExact
<1>1. CallInit => CallInv
    BY DEF CallInit, SplitIsExact
<1>2. CallInv /\ [CallNext]_callVars => CallInv'
    <2> SUFFICES ASSUME CallInv, [CallNext]_callVars PROVE CallInv'
        OBVIOUS
    <2>1. CallOK
        BY StringsAssumption DEF CallOK
    <2>2. call' = call
        BY DEF CallNext, callVars
    <2>3. Holds' <=> Holds
        BY <2>2 DEF Holds, OfConcats, x, y, m, n, s, Part
    <2>4. Answered => SplitIsExact'
        BY <2>3 DEF Answered, SplitIsExact
    <2>5. UNCHANGED <<loopDetected, outcome>> => SplitIsExact'
        BY <2>3 DEF SplitIsExact
    <2>6. CASE UNCHANGED callVars
        BY <2>2, <2>5, <2>6 DEF callVars
    <2>7. CASE Returned
        BY <2>2, <2>5, <2>7 DEF Returned
    <2>8. CASE EqualParts
        BY <2>1, <2>2, <2>4, <2>8, EqualPartsIsRight
    <2>9. CASE EqualLengths
        BY <2>1, <2>2, <2>4, <2>9, EqualLengthsIsRight
    <2>10. CASE Unequal
        BY <2>1, <2>2, <2>4, <2>10, UnequalIsRight
    <2>11. CASE ProcessConcatEq
        <3>1. Answered
            BY <2>1, <2>11, Type1IsRight, Type2IsRight, Type3IsRight, Type4IsRight, Type5IsRight,
               Type6IsRight DEF ProcessConcatEq
        <3> QED BY <2>2, <2>4, <3>1
    <2>12. CASE SolveConcatEqStr
        BY <2>1, <2>2, <2>4, <2>12, SolveIsRight
    <2> QED BY <2>6, <2>7, <2>8, <2>9, <2>10, <2>11, <2>12 DEF CallNext
<1>3. CallInv => SplitIsExact
    OBVIOUS
<1> QED BY <1>1, <1>2, <1>3, PTL DEF CallSpec

=============================================================================
