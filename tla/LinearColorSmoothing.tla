------------------------- MODULE LinearColorSmoothing ------------------------
(***************************************************************************)
(* The smoothing filter between Hyperion::update and the LED device        *)
(* (libsrc/hyperion/LinearColorSmoothing.cpp), for one colour component of *)
(* one LED: all of them are treated alike and share the clocks.            *)
(*                                                                         *)
(* write sets a target to be reached after the settling time; a periodic   *)
(* timer moves the value towards it and hands frames to the device, some   *)
(* frames late.  The code keeps absolute times but only uses their         *)
(* distance from now, so the model keeps the distances:                    *)
(*    left  = _targetTime - now        since = now - _previousTime         *)
(***************************************************************************)
EXTENDS Integers, Sequences, FiniteSetsExt

CONSTANTS
    MaxColor,      \* 255 in the code
    Settling,      \* _settlingTime
    Interval,      \* _updateInterval, of the monotonic timer
    OutputDelay,   \* _outputDelay
    Continuous,    \* the values of _continuousOutput to consider
    MaxLate,       \* bound: how late the event loop serves the timer
    ClockSteps,    \* by how much the wall clock may be set
    MaxSteps       \* bound: how often it is set

ASSUME NumbersAreNat ==
    /\ MaxColor \in Nat /\ Settling \in Nat /\ Interval \in Nat \ {0}
    /\ OutputDelay \in Nat /\ MaxLate \in Nat /\ MaxSteps \in Nat
ASSUME SetsAreTyped ==
    Continuous \subseteq BOOLEAN /\ ClockSteps \subseteq Int /\ IsFiniteSet(ClockSteps)

VARIABLES
    enabled,      \* _enabled
    continuous,   \* _continuousOutput
    previous,     \* _previousValues, or Empty
    target,       \* _targetValues
    left,         \* time left to the target time
    since,        \* time since the previous value was computed
    timer,        \* time to the next timeout(), negative if late, or TimerOff
    writeToLeds,  \* _writeToLedsEnable
    output,       \* _outputQueue, oldest first
    device,       \* the frame the LED device was given last
    frame,        \* history: the frame update() wrote last
    steps         \* how often the wall clock has been set

filter == <<previous, target, left, since, timer, writeToLeds, output>>
vars == <<enabled, continuous, previous, target, left, since, timer, writeToLeds, output,
          device, frame, steps>>

ColorValues == 0 .. MaxColor
Empty       == -1
TimerOff    == Interval + 1
ClockReach  == IF ClockSteps = {} THEN 0 ELSE MaxSteps * Max({Max({s, -s}) : s \in ClockSteps})

TypeOK ==
    /\ enabled \in BOOLEAN
    /\ continuous \in Continuous
    /\ previous \in ColorValues \cup {Empty}
    /\ target \in ColorValues
    /\ left \in -1 .. Settling + ClockReach
    /\ since \in -ClockReach .. Interval + MaxLate + ClockReach
    /\ timer \in -MaxLate .. TimerOff
    /\ writeToLeds \in BOOLEAN
    /\ output \in Seq(ColorValues)
    /\ device \in ColorValues
    /\ frame \in ColorValues
    /\ steps \in 0 .. MaxSteps

(* Hyperion enables or disables the filter as configured; the LEDs are     *)
(* black until the first update().                                         *)
Init ==
    /\ enabled \in BOOLEAN
    /\ continuous \in Continuous
    /\ previous = Empty
    /\ target = 0
    /\ left = -1
    /\ since = 0
    /\ timer = TimerOff
    /\ writeToLeds = TRUE
    /\ output = <<>>
    /\ device = 0
    /\ frame = 0
    /\ steps = 0

Running == timer # TimerOff

-----------------------------------------------------------------------------
(* The end of Hyperion::update: to the filter if it is enabled, else to    *)
(* the device itself.  The first write after an enable sets everything.    *)
Write(color) ==
    /\ frame' = color
    /\ IF enabled
         THEN /\ target' = color
              /\ left' = Settling
              /\ IF previous = Empty
                   THEN previous' = color /\ since' = 0 /\ timer' = Interval
                   ELSE UNCHANGED <<previous, since, timer>>
              /\ UNCHANGED <<writeToLeds, output, device>>
         ELSE /\ device' = color
              /\ UNCHANGED filter
    /\ UNCHANGED <<enabled, continuous, steps>>

(* setComponentState(COMP_SMOOTHING, enable); update() is not called.      *)
SetEnable(enable) ==
    /\ enabled' = enable
    /\ IF enable
         THEN UNCHANGED <<timer, previous>>
         ELSE timer' = TimerOff /\ previous' = Empty
    /\ UNCHANGED <<continuous, target, left, since, writeToLeds, output, device, frame, steps>>

(* Seeded fault: one frame more than the delay is kept.                    *)
QueueColorsLate(color, toLeds) ==
    IF OutputDelay = 0
      THEN /\ device' = IF toLeds THEN color ELSE device
           /\ output' = output
      ELSE LET pushed == IF toLeds THEN Append(output, color) ELSE output
           IN IF pushed # <<>> /\ (Len(pushed) > OutputDelay + 1 \/ ~toLeds)
                THEN device' = Head(pushed) /\ output' = Tail(pushed)
                ELSE output' = pushed /\ UNCHANGED device

(* queueColors with the flag it reads: with a delay the oldest frame goes  *)
(* out when the queue is longer than the delay or nothing new comes in.    *)
QueueColors(color, toLeds) ==
    IF OutputDelay = 0
      THEN /\ device' = IF toLeds THEN color ELSE device
           /\ output' = output
      ELSE LET pushed == IF toLeds THEN Append(output, color) ELSE output
           IN IF pushed # <<>> /\ (Len(pushed) > OutputDelay \/ ~toLeds)
                THEN device' = Head(pushed) /\ output' = Tail(pushed)
                ELSE output' = pushed /\ UNCHANGED device

(* Seeded faults: the step is rounded down, and always rounded one up.     *)
FloorDiv(a, b) == IF b > 0 THEN a \div b ELSE (-a) \div (-b)

FloorDivPlusOne(a, b) == FloorDiv(a, b) + 1

CeilDiv(a, b) == IF b > 0 THEN -((-a) \div b) ELSE -(a \div (-b))

(* Seeded fault: the new value does not wrap.                              *)
InterpolatedUnbounded ==
    LET difference == target - previous
        step       == CeilDiv(since * Max({difference, -difference}), left + since)
    IN IF left + since = 0 THEN ColorValues
       ELSE {previous + (IF difference < 0 THEN -step ELSE step)}

(* prev += +-ceil(k * |target - prev|) with k = since / (left + since), in *)
(* eight bits.  k is exact here where the code rounds it to a float.  A    *)
(* division by zero makes the conversion to an integer undefined.          *)
Interpolated ==
    LET difference == target - previous
        step       == CeilDiv(since * Max({difference, -difference}), left + since)
    IN IF left + since = 0 THEN ColorValues
       ELSE {(previous + (IF difference < 0 THEN -step ELSE step)) % (MaxColor + 1)}

(* updateLeds past the target time ...                                     *)
SettledTick ==
    /\ left < 0
    /\ previous' = target
    /\ QueueColors(target, writeToLeds)
    /\ writeToLeds' = continuous

(* ... and on the way to it.                                               *)
MovingTick ==
    /\ left >= 0
    /\ previous' \in Interpolated
    /\ QueueColors(previous', TRUE)
    /\ writeToLeds' = TRUE

UpdateLeds ==
    /\ Running
    /\ timer <= 0
    /\ SettledTick \/ MovingTick
    /\ since' = 0
    /\ timer' = Interval
    /\ UNCHANGED <<enabled, continuous, target, left, frame, steps>>

(* Time passes; how far the target time lies in the past does not matter.  *)
Elapsed(time) == left' = Max({left - time, -1})

Tick ==
    /\ Running
    /\ timer > -MaxLate
    /\ timer' = timer - 1
    /\ since' = since + 1
    /\ Elapsed(1)
    /\ UNCHANGED <<enabled, continuous, previous, target, writeToLeds, output, device, frame, steps>>

(* The wall clock is set while the filter has not settled.                 *)
SetClock(time) ==
    /\ Running
    /\ left >= 0
    /\ steps < MaxSteps
    /\ steps' = steps + 1
    /\ since' = since + time
    /\ Elapsed(time)
    /\ UNCHANGED <<enabled, continuous, previous, target, timer, writeToLeds, output, device, frame>>

Next ==
    \/ \E color \in ColorValues : Write(color)
    \/ \E enable \in BOOLEAN : SetEnable(enable)
    \/ UpdateLeds
    \/ Tick
    \/ \E time \in ClockSteps : SetClock(time)

Spec == Init /\ [][Next]_vars

(* Time goes on and the event loop serves the timer.                       *)
Fairness == WF_vars(Tick) /\ WF_vars(UpdateLeds)

FairSpec == Spec /\ Fairness

-----------------------------------------------------------------------------
(* queueColors pushes and pops once per tick: the delay line never holds   *)
(* more frames than the configured delay, whatever is enabled, disabled or *)
(* settled in between.                                                     *)
DelayLineBounded == Len(output) <= OutputDelay

(* As long as the clock has not been set, a tick moves the value towards   *)
(* the target and never past it, for every late or early tick and every    *)
(* target set in between.                                                  *)
Distance(value) == Max({target - value, value - target})

ApproachesTarget ==
    [][(UpdateLeds /\ steps = 0) =>
           /\ Distance(previous') + Max({previous' - previous, previous - previous'})
                  = Distance(previous)
           /\ left <= 0 => previous' = target]_vars

(* What update() wrote last reaches the device, also when the same frame   *)
(* is written again and again before it has settled, ticks are late, or    *)
(* the wall clock is set: rounding up makes every tick move.  Without      *)
(* continuous output only a tick before the target time lets a frame out,  *)
(* and setting the clock can take that one away.                           *)
FilterShows(color) ==
    enabled /\ frame = color /\ previous # Empty /\ (continuous \/ steps = 0)

FrameReachesDevice ==
    \A color \in ColorValues : FilterShows(color) ~> (device = color \/ ~FilterShows(color))

==============================================================================
