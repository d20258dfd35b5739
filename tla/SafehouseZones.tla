--------------------------- MODULE SafehouseZones ---------------------------
(***************************************************************************)
(* The geometry of SafeHouse zones, and the look-ups made on the server's  *)
(* list of houses.  A house is a rectangle of tiles with an owner; title   *)
(* and members travel with it and decide nothing here.  The list is a set: *)
(* its order is the game's own and is not known after a reload, so where   *)
(* the code takes "the first" of several houses any of them is possible.   *)
(***************************************************************************)
EXTENDS Integers

CONSTANTS
    Rects,      \* the rectangles [x, y, w, h] commands may name
    Players,    \* user names
    NoOwner,    \* the owner argument of a command that carries none
    Restricted  \* rectangles addSafeHouse refuses (it returns nil)

ASSUME RectsAssumption ==
    Rects \subseteq [x : Int, y : Int, w : Nat \ {0}, h : Nat \ {0}]

ASSUME NoOwnerAssumption == NoOwner \notin Players

House == [rect : Rects, owner : Players]

(***************************************************************************)
(* rectsOverlap of the mod: open intervals, so zones may share an edge.    *)
(***************************************************************************)
RectsOverlap(a, b) ==
    /\ a.x < b.x + b.w /\ a.x + a.w > b.x
    /\ a.y < b.y + b.h /\ a.y + a.h > b.y

(***************************************************************************)
(* rects_overlap of the panel: the negation of "one lies beside the other".*)
(***************************************************************************)
PanelRectsOverlap(a, b) ==
    ~ \/ a.x + a.w <= b.x
      \/ b.x + b.w <= a.x
      \/ a.y + a.h <= b.y
      \/ b.y + b.h <= a.y

Overlapping(r, houses) == {h \in houses : RectsOverlap(r, h.rect)}

FindExact(r, houses) == {h \in houses : h.rect = r}

(***************************************************************************)
(* findOverlapping: among several hits a house of the named owner goes     *)
(* first; without one (or without a name) it is the first of the list.     *)
(***************************************************************************)
FindOverlapping(r, o, houses) ==
    LET hits == Overlapping(r, houses)
        own  == {h \in hits : h.owner = o}
    IN  IF own # {} THEN own ELSE hits

\* The houses findHouse may return; none when the set is empty.
FindHouse(r, o, houses) ==
    IF FindExact(r, houses) # {}
    THEN FindExact(r, houses)
    ELSE FindOverlapping(r, o, houses)

Disjoint(houses) ==
    \A g, h \in houses : g # h => ~ RectsOverlap(g.rect, h.rect)
=============================================================================
