--------------------------- MODULE ChannelArbiter ----------------------------
(***************************************************************************)
(* What Hyperion promises its clients, without clocks, timers or cached    *)
(* values: channels hold contents, timed channels may go by themselves,    *)
(* and under automatic selection the display shows, after every step, the  *)
(* lowest numbered channel there is.  Under manual selection the display   *)
(* only promises to keep what it shows or to show a channel there is.      *)
(***************************************************************************)
EXTENDS Integers, FiniteSetsExt, Functions

CONSTANTS Lowest, Priorities, Colors, Black

VARIABLES
    channels,   \* function from the channels in use to what they hold
    automatic,  \* TRUE under automatic selection
    display     \* the channel shown and its colour

vars == <<channels, automatic, display>>

Off == [timed |-> FALSE, color |-> Black]

OnlyLowest == [p \in {Lowest} |-> Off]

Shows(chans, p) == [channel |-> p, color |-> chans[p].color]

Init ==
    /\ channels = OnlyLowest
    /\ automatic = TRUE
    /\ display = Shows(OnlyLowest, Lowest)

(* Every step leaves edited channels, of which timed ones may be gone.     *)
Settle(edited, auto) ==
    \E gone \in SUBSET {p \in DOMAIN edited : edited[p].timed} :
        /\ channels' = Restrict(edited, DOMAIN edited \ gone)
        /\ automatic' = auto
        /\ IF auto
             THEN display' = Shows(channels', Min(DOMAIN channels'))
             ELSE display' \in {display} \cup {Shows(channels', p) : p \in DOMAIN channels'}

Write(p, info) ==
    Settle([q \in DOMAIN channels \cup {p} |-> IF q = p THEN info ELSE channels[q]], automatic)

ClearChannel(p) ==
    \E auto \in {automatic, TRUE} : Settle(Restrict(channels, DOMAIN channels \ {p}), auto)

ClearEverything == Settle(OnlyLowest, TRUE)

Select == Settle(channels, FALSE)

SelectAutomatically == Settle(channels, TRUE)

Refresh == Settle(channels, automatic)

Next ==
    \/ \E p \in Priorities, info \in [timed : BOOLEAN, color : Colors] : Write(p, info)
    \/ \E p \in Priorities : ClearChannel(p)
    \/ ClearEverything
    \/ Select
    \/ SelectAutomatically
    \/ Refresh

Spec == Init /\ [][Next]_vars

==============================================================================
