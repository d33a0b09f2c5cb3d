--------------------------------- MODULE MCFleet ---------------------------------
(* Two slots, three calls of launch and two of shutdown. *)
EXTENDS Fleet
=============================================================================
