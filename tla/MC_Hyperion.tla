----------------------------- MODULE MC_Hyperion -----------------------------
(* Constants for model checking Hyperion with Lowest = 3.                  *)
EXTENDS Hyperion

(* Channel 4 lies behind the lowest priority, as the default priorities    *)
(* 700, 710 and 900 of the UDP listener, boblight and the grabber do.      *)
MCPriorities == {1, 2, 4}

MCComponents == {COMP_COLOR, COMP_INVALID}
MCTimeouts   == {0, 1, 2}

==============================================================================
