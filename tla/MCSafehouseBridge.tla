------------------------- MODULE MCSafehouseBridge -------------------------
(***************************************************************************)
(* Instances of SafehouseBridge for TLC.  North and South share an edge,   *)
(* Middle overlaps both: a release of Middle without an exact house has    *)
(* two zones to fall back to.  The origin lies within North, and so does   *)
(* what is left of South and Middle when the line y= loses its last digit: *)
(* a torn command for either may touch North.  A name may be cut to bob's. *)
(***************************************************************************)
EXTENDS SafehouseBridge

CONSTANTS bob, bobby

North == [x |-> -1, y |-> -1, w |-> 12, h |-> 12]
South == [x |-> 5, y |-> 11, w |-> 12, h |-> 12]
Middle == [x |-> 6, y |-> 10, w |-> 12, h |-> 12]

MCRects == {North, South, Middle}
MCPlayers == {bob, bobby}
MCTwoRects == {North, Middle}
MCOnePlayer == {bob}
MCRestricted == {}
MCClipped == [p \in Players |-> IF p = bobby THEN {bob} ELSE {}]

CreateNorth == [op |-> "create", rect |-> North, owner |-> bob]
CreateMiddle == [op |-> "create", rect |-> Middle, owner |-> bob]
UpdateMiddle == [op |-> "update", rect |-> Middle, owner |-> bobby]
TouchNorth == [op |-> "update", rect |-> North, owner |-> NoOwner]
ReleaseMiddle == [op |-> "release", rect |-> Middle, owner |-> NoOwner]
ReleaseNorth == [op |-> "release", rect |-> North, owner |-> NoOwner]

MCCmds == {CreateNorth, CreateMiddle, ReleaseNorth}
MCUpdates == {CreateNorth, UpdateMiddle, TouchNorth, ReleaseMiddle}
MCCreates == {CreateNorth, CreateMiddle}
=============================================================================
