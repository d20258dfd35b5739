------------------------- MODULE SafehouseRegistry -------------------------
(***************************************************************************)
(* What the dedicated server promises about its zones, whoever asks: a     *)
(* zone appears only where it meets no other, changes hands without        *)
(* moving, disappears, or goes back with the whole world to the last save. *)
(* No command, file or panel exists at this level.                         *)
(***************************************************************************)
EXTENDS SafehouseZones

VARIABLES
    houses,  \* the zones of the running world
    saved    \* the zones of the world's last save

vars == <<houses, saved>>

Init == houses = {} /\ saved = {}

Settle(h) ==
    /\ Overlapping(h.rect, houses) = {}
    /\ houses' = houses \cup {h}
    /\ UNCHANGED saved

HandOver(h, o) ==
    /\ h \in houses
    /\ houses' = (houses \ {h}) \cup {[h EXCEPT !.owner = o]}
    /\ UNCHANGED saved

Vacate(h) ==
    /\ h \in houses
    /\ houses' = houses \ {h}
    /\ UNCHANGED saved

Save ==
    /\ saved' = houses
    /\ UNCHANGED houses

Revert ==
    /\ houses' = saved
    /\ UNCHANGED saved

Next ==
    \/ \E h \in House : Settle(h) \/ Vacate(h)
    \/ \E h \in House, o \in Players : HandOver(h, o)
    \/ Save
    \/ Revert

Spec == Init /\ [][Next]_vars
=============================================================================
