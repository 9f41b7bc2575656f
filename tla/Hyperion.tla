------------------------------- MODULE Hyperion ------------------------------
(***************************************************************************)
(* The Hyperion core as clients drive it: the JSON, Proto, boblight and    *)
(* UDP servers and the grabbers call its slots from the main thread's      *)
(* event loop, its timer fires when the visible channel should have timed  *)
(* out, and time passes in between.  Two clocks run: the wall clock that   *)
(* the deadlines are taken from, which may be set, and the monotonic clock *)
(* of the timer, which may not.  Effects are added by EffectEngine.        *)
(***************************************************************************)
EXTENDS HyperionCore

CONSTANTS
    ClientComponents, \* the components clients write as
    Timeouts,  \* the timeout_ms values clients send; 0 stands for none
    MaxTime,   \* bound: the last value of the wall clock
    MaxSteps   \* bound: how often the wall clock is set

ASSUME ClientsAreComponents == ClientComponents \subseteq Components
ASSUME TimeoutsAreNat == Timeouts \subseteq Nat
ASSUME BoundsAreNat   == MaxTime \in Nat /\ MaxSteps \in Nat

VARIABLES
    core,   \* the state of the Hyperion object
    now,    \* QDateTime::currentMSecsSinceEpoch()
    steps   \* how often the wall clock has been set

vars == <<core, now, steps>>

TypeOK ==
    /\ IsCore(core)
    /\ now \in 0 .. MaxTime
    /\ steps \in 0 .. MaxSteps

Init ==
    /\ core = NewCore
    /\ now = 0
    /\ steps = 0

Running == core.status = "running"

ClientSetsColors(p, color, timeout, comp) ==
    /\ Running
    /\ now + timeout <= MaxTime
    /\ core' = SetColors(core, p, color, timeout, comp, now)
    /\ UNCHANGED <<now, steps>>

ClientClears(p) ==
    /\ Running
    /\ core' = Clear(core, p, now)
    /\ UNCHANGED <<now, steps>>

ClientClearsAll ==
    /\ Running
    /\ core' = ClearAll(core, now)
    /\ UNCHANGED <<now, steps>>

(* handleSourceSelectCommand with "auto" and with "priority".              *)
ClientSelectsAuto ==
    /\ Running
    /\ core' = SetSourceAutoSelectEnabled(core, now)
    /\ UNCHANGED <<now, steps>>

ClientSelects(p) ==
    /\ Running
    /\ core' = SetCurrentSourcePriority(core, p)
    /\ UNCHANGED <<now, steps>>

AdjustmentsUpdated ==
    /\ Running
    /\ core' = Update(core, now)
    /\ UNCHANGED <<now, steps>>

TimerFires ==
    /\ Running
    /\ TimerDue(core)
    /\ core' = Timeout(core, now)
    /\ UNCHANGED <<now, steps>>

Shutdown ==
    /\ Running
    /\ core' = FreeObjects(core, now)
    /\ UNCHANGED <<now, steps>>

(* Time passes; the event loop may be late, so a due timer stays due.      *)
Tick ==
    /\ now < MaxTime \/ core.timer > 0
    /\ now' = Min({now + 1, MaxTime})
    /\ core' = Elapse(core)
    /\ UNCHANGED steps

(* The user, or NTP, sets the wall clock.                                  *)
SetClock(time) ==
    /\ steps < MaxSteps
    /\ steps' = steps + 1
    /\ now' = time
    /\ UNCHANGED core

Next ==
    \/ \E p \in Priorities, color \in Colors, timeout \in Timeouts, comp \in ClientComponents :
           ClientSetsColors(p, color, timeout, comp)
    \/ \E p \in Priorities : ClientClears(p)
    \/ ClientClearsAll
    \/ ClientSelectsAuto
    \/ \E p \in Channels : ClientSelects(p)
    \/ AdjustmentsUpdated
    \/ TimerFires
    \/ Shutdown
    \/ Tick
    \/ \E time \in 0 .. MaxTime : SetClock(time)

Spec == Init /\ [][Next]_vars

(* Time goes on and the event loop serves a due timer.  No client has to   *)
(* do anything.                                                            *)
Fairness == WF_vars(Tick) /\ WF_vars(TimerFires)

FairSpec == Spec /\ Fairness

-----------------------------------------------------------------------------
(* PriorityMuxer.h calls _currentPriority the "lowest value in             *)
(* _activeInputs", and getInputInfo relies on it: the cached number is     *)
(* that of a channel in use, and no channel in use has a lower one.        *)
CurrentIsLowest ==
    Running => /\ core.mux.current \in DOMAIN core.mux.inputs
               /\ \A p \in DOMAIN core.mux.inputs : core.mux.current <= p

(* setColors and clear call update() only under a condition.  In automatic *)
(* selection they never skip an update that was needed: the LEDs show what *)
(* the lowest channel now holds.                                           *)
LedsShowCurrent ==
    (Running /\ core.auto) =>
        /\ core.leds.channel = core.mux.current
        /\ core.leds.color = core.mux.inputs[core.mux.current].color

(* In automatic selection a channel with a timeout is never shown without  *)
(* a running timer, and while the wall clock has not been set the timer    *)
(* fires no later than the channel's deadline.                             *)
TimerCoversShown ==
    LET shown == core.mux.inputs[core.mux.current]
    IN (Running /\ core.auto /\ shown.timeout # Endless) =>
           /\ core.timer # TimerOff
           /\ steps = 0 => (core.timer <= shown.timeout - now \/ TimerDue(core))

(* update() recomputes the backlight flag only when the component changed  *)
(* since the last visible frame.  The cache is never stale: whenever the   *)
(* LEDs show a channel in automatic selection, images have a backlight and *)
(* colours and effects have none.                                          *)
BacklightFollowsComponent ==
    (Running /\ core.auto /\ core.leds.channel < Lowest) =>
        core.leds.backlight = WantsBacklight(core.mux.inputs[core.leds.channel].comp)

(* A channel past its deadline does not stay on the LEDs (Hyperion.h: the  *)
(* LEDs are set "for the given time"), whatever clients do or do not do,   *)
(* and also when the wall clock has been set.                              *)
ShownExpired ==
    /\ Running
    /\ core.auto
    /\ core.leds.channel \in DOMAIN core.mux.inputs
    /\ Expired(core.mux.inputs[core.leds.channel], now)

ExpiredLeavesLeds == ShownExpired ~> ~ShownExpired

(* Hyperion implements the arbiter: with the deadlines forgotten, every    *)
(* slot is one step of it, whatever it expires on the way.                 *)
Arbiter == INSTANCE ChannelArbiter WITH
    channels  <- [p \in DOMAIN core.mux.inputs |->
                     [timed |-> core.mux.inputs[p].timeout # Endless,
                      color |-> core.mux.inputs[p].color]],
    automatic <- core.auto,
    display   <- [channel |-> core.leds.channel, color |-> core.leds.color]

ImplementsArbiter == Arbiter!Spec

==============================================================================
