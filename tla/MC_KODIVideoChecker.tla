------------------------- MODULE MC_KODIVideoChecker --------------------------
(* Constants for model checking KODIVideoChecker: a configuration that     *)
(* grabs in four modes and not in the other two.                           *)
EXTENDS KODIVideoChecker

MCGrabConfigurations == {{"VIDEO", "AUDIO", "PAUSE", "MENU"}}

==============================================================================
