-------------------------- MODULE MCServerProfiles --------------------------
(* ServerProfiles for TLC: ids that are listed in this order. *)
EXTENDS ServerProfiles

CONSTANTS east, north, west

MCNames == <<east, north, west>>
=============================================================================
