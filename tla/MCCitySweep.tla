---------------------------- MODULE MCCitySweep ----------------------------
(***************************************************************************)
(* Instances of CitySweep for TLC: a city of 4 by 2 tiles, and one that is *)
(* a single column, on two floors.  No tick's budget divides a city.       *)
(***************************************************************************)
EXTENDS CitySweep

MCBoxes == {[x1 |-> 4, y1 |-> 0, x2 |-> 7, y2 |-> 1],
            [x1 |-> -1, y1 |-> 2, x2 |-> -1, y2 |-> 3]}
MCLevels == <<0, 1>>
=============================================================================
