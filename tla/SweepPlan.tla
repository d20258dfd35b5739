----------------------------- MODULE SweepPlan -----------------------------
(***************************************************************************)
(* What a city wipe promises: the cities are swept one after the other in  *)
(* the order they were asked for; of the first one every tick handles some *)
(* tiles that were not handled before, and no more than a tick may; a city *)
(* is done when no tile is left.  Which tiles go first is not said.        *)
(***************************************************************************)
EXTENDS Integers, Sequences, FiniteSets

CONSTANTS
    Boxes,   \* the cities: boxes of tiles, both corners included
    Levels,  \* the floors that are swept
    Budget   \* tiles of one tick

VARIABLE plan  \* the cities asked for, each with its tiles still to handle

Tiles(b) == (b.x1 .. b.x2) \X (b.y1 .. b.y2) \X Levels

Init == plan = <<>>

Ask(b) == plan' = Append(plan, [city |-> b, left |-> Tiles(b)])

\* The last tiles of the first city.
Finish ==
    /\ plan # <<>>
    /\ Cardinality(Head(plan).left) <= Budget
    /\ plan' = Tail(plan)

\* Some of its tiles, but not the last.
Continue ==
    /\ plan # <<>> /\ plan' # <<>>
    /\ Tail(plan') = Tail(plan) /\ Head(plan').city = Head(plan).city
    /\ LET done == Head(plan).left \ Head(plan').left
       IN  /\ done # {} /\ Cardinality(done) <= Budget
           /\ Head(plan').left = Head(plan).left \ done
           /\ Head(plan').left # {}

Forget == plan' = <<>>

Next == (\E b \in Boxes : Ask(b)) \/ Finish \/ Continue \/ Forget

Spec == Init /\ [][Next]_plan
=============================================================================
