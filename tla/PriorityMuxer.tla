---------------------------- MODULE PriorityMuxer ----------------------------
(***************************************************************************)
(* The priority muxer of libsrc/hyperion/PriorityMuxer.cpp: a map from     *)
(* priority channels to the last input written to them, and the cached     *)
(* number of the current (lowest numbered) channel.                        *)
(*                                                                         *)
(* The muxer has no thread and no event of its own: Hyperion calls it from *)
(* inside its handlers.  It is therefore modelled by operators from muxer  *)
(* to muxer that HyperionCore applies, one per method, and the value of a  *)
(* muxer is a record [inputs, current]: inputs is _activeInputs, a         *)
(* function whose domain is the set of channels in use, and current is     *)
(* _currentPriority.                                                       *)
(***************************************************************************)
EXTENDS Integers, FiniteSetsExt, Functions

CONSTANTS
    Lowest,      \* LOWEST_PRIORITY, 255 in the code
    Priorities,  \* the channels that clients write to
    Colors,      \* what a channel shows, other than black
    Black        \* the colour of the lowest channel

COMP_COLOR   == "color"
COMP_EFFECT  == "effect"
COMP_INVALID == "invalid"
COMP_GRABBER == "grabber"

(* The components that write to channels; COMP_GRABBER stands for every    *)
(* other one than the first three.                                         *)
Components == {COMP_COLOR, COMP_EFFECT, COMP_INVALID, COMP_GRABBER}

ASSUME LowestIsNat     == Lowest \in Nat
ASSUME PrioritiesAreNat == Priorities \subseteq Nat
ASSUME BlackIsNoColor  == Black \notin Colors

Endless  == -1
Channels == Priorities \cup {Lowest}

InputInfo == [timeout : Int, color : Colors \cup {Black}, comp : Components]

IsMuxer(m) ==
    /\ m = [inputs |-> m.inputs, current |-> m.current]
    /\ m.inputs \in [DOMAIN m.inputs -> InputInfo]
    /\ DOMAIN m.inputs \subseteq Channels
    /\ m.current \in Channels

(* The lowest channel is black and endless.  Its component is never set by *)
(* the code nor read by it; COMP_INVALID stands for whatever is there.     *)
LowestPriorityInfo == [timeout |-> Endless, color |-> Black, comp |-> COMP_INVALID]

NewMuxer == [inputs |-> [p \in {Lowest} |-> LowestPriorityInfo], current |-> Lowest]

HasPriority(m, p) == p = Lowest \/ p \in DOMAIN m.inputs

Expired(info, now) == info.timeout # Endless /\ info.timeout <= now

SetInput(m, p, info) ==
    [inputs  |-> [q \in DOMAIN m.inputs \cup {p} |-> IF q = p THEN info ELSE m.inputs[q]],
     current |-> Min({m.current, p})]

(* Seeded fault: the cached current priority is not looked up again.       *)
ClearInputOnly(m, p) ==
    IF p >= Lowest THEN m
    ELSE [m EXCEPT !.inputs = Restrict(@, DOMAIN @ \ {p})]

ClearInput(m, p) ==
    IF p >= Lowest THEN m
    ELSE LET left == DOMAIN m.inputs \ {p}
         IN [inputs  |-> Restrict(m.inputs, left),
             current |-> IF m.current = p THEN Min(left) ELSE m.current]

ClearAllInputs == NewMuxer

SetCurrentTime(m, now) ==
    LET left == {p \in DOMAIN m.inputs : ~Expired(m.inputs[p], now)}
    IN [inputs |-> Restrict(m.inputs, left), current |-> Min(left \cup {Lowest})]

==============================================================================
