------------------------------ MODULE MC_Grabbers -----------------------------
(* Constants for model checking Grabbers: as in the default configuration, *)
(* the V4L2 grabber goes before the screen grabbers.                       *)
EXTENDS Grabbers

MCPriorities == {1, 2, 3, 4}
MCDevices    == <<"d1", "d2">>

==============================================================================
