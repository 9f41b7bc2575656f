---------------------------- MODULE HyperionCore -----------------------------
(***************************************************************************)
(* The state and the slots of the class Hyperion                           *)
(* (libsrc/hyperion/Hyperion.cpp) that decide which channel the LEDs show. *)
(*                                                                         *)
(* Every slot runs to completion on the main thread, and the servers, the  *)
(* effect engine and the timers call several of them.  The slots are       *)
(* therefore operators from the core's state to its next state, which the  *)
(* modules that have variables apply as a whole.  A core is the record     *)
(*   mux        _muxer                                                     *)
(*   auto       _sourceAutoSelectEnabled                                   *)
(*   source     _currentSourcePriority (no value before the first select)  *)
(*   timer      remaining time of the single-shot _timer, or TimerOff      *)
(*   prevComp   _prevCompId                                                *)
(*   backlight  the flag MultiColorAdjustment keeps                        *)
(*   leds       the last frame update() wrote, with the channel it is of   *)
(*   status     "running", "closed" by freeObjects, or "terminated" by an  *)
(*              exception that leaves a slot                               *)
(***************************************************************************)
EXTENDS PriorityMuxer

TimerOff == -1

Frame == [channel : Channels, color : Colors \cup {Black}, backlight : BOOLEAN]

IsCore(h) ==
    /\ h \in [mux       : {h.mux},
             auto      : BOOLEAN,
             source    : Channels,
             timer     : Nat \cup {TimerOff},
             prevComp  : Components,
             backlight : BOOLEAN,
             leds      : Frame,
             status    : {"running", "closed", "terminated"}]
    /\ IsMuxer(h.mux)

(* Black-level lifting applies to images only, not to colours and effects. *)
WantsBacklight(comp) == comp \notin {COMP_COLOR, COMP_EFFECT}

VisibleChannel(h, mux) ==
    IF h.auto \/ ~HasPriority(mux, h.source) THEN mux.current ELSE h.source

(* Seeded faults: the timer is started with the deadline instead of the    *)
(* time that is left, it is never started, and it is started for endless   *)
(* channels too, as if -1 were a deadline.                                 *)
TimerForDeadline(info, now) == IF info.timeout = Endless THEN TimerOff ELSE info.timeout

TimerForNothing(info, now) == TimerOff

TimerForEndless(info, now) == info.timeout - now

(* The time the channel still has, or TimerOff when it has no timeout.     *)
TimerFor(info, now) ==
    IF info.timeout = Endless THEN TimerOff ELSE Max({0, info.timeout - now})

(* Seeded fault: the black of the lowest channel counts as a component.    *)
ShowAnyComponent(h, mux, p, now) ==
    LET info      == mux.inputs[p]
        adjusted  == p < Lowest
        backlight == IF adjusted /\ info.comp # h.prevComp
                       THEN WantsBacklight(info.comp) ELSE h.backlight
    IN [h EXCEPT !.mux       = mux,
                 !.prevComp  = info.comp,
                 !.backlight = backlight,
                 !.leds      = [channel   |-> p,
                                color     |-> info.color,
                                backlight |-> adjusted /\ backlight],
                 !.timer     = TimerFor(info, now)]

(* The body of update() once the visible channel has been looked up.       *)
Show(h, mux, p, now) ==
    LET info      == mux.inputs[p]
        adjusted  == p < Lowest
        backlight == IF adjusted /\ info.comp # h.prevComp
                       THEN WantsBacklight(info.comp) ELSE h.backlight
    IN [h EXCEPT !.mux       = mux,
                 !.prevComp  = IF adjusted THEN info.comp ELSE @,
                 !.backlight = backlight,
                 !.leds      = [channel   |-> p,
                                color     |-> info.color,
                                backlight |-> adjusted /\ backlight],
                 !.timer     = TimerFor(info, now)]

(* getInputInfo throws when the channel does not exist.                    *)
Update(h, now) ==
    LET mux == SetCurrentTime(h.mux, now)
        p   == VisibleChannel(h, mux)
    IN IF p \in DOMAIN mux.inputs
         THEN Show(h, mux, p, now)
         ELSE [h EXCEPT !.mux = mux, !.status = "terminated"]

(* currentMSecsSinceEpoch() + timeout_ms, where a timeout that is not      *)
(* positive means endless.                                                 *)
Deadline(timeout, now) == IF timeout > 0 THEN now + timeout ELSE Endless

(* Seeded fault: the current priority is read before the input is set.     *)
SetColorsReadingFirst(h, p, color, timeout, comp, now) ==
    LET info    == [timeout |-> Deadline(timeout, now), color |-> color, comp |-> comp]
        written == [h EXCEPT !.mux = SetInput(@, p, info)]
    IN IF ~written.auto \/ p = h.mux.current
         THEN Update(written, now) ELSE written

(* setColors without its call of channelCleared, which only concerns the   *)
(* effect engine.                                                          *)
SetColors(h, p, color, timeout, comp, now) ==
    LET info    == [timeout |-> Deadline(timeout, now), color |-> color, comp |-> comp]
        written == [h EXCEPT !.mux = SetInput(@, p, info)]
    IN IF ~written.auto \/ p = written.mux.current
         THEN Update(written, now) ELSE written

SetSourceAutoSelectEnabled(h, now) == Update([h EXCEPT !.auto = TRUE], now)

SetCurrentSourcePriority(h, p) ==
    IF HasPriority(h.mux, p) THEN [h EXCEPT !.auto = FALSE, !.source = p] ELSE h

(* clear, again without channelCleared.                                    *)
Clear(h, p, now) ==
    IF ~HasPriority(h.mux, p) THEN h
    ELSE LET cleared  == [h EXCEPT !.mux = ClearInput(@, p)]
             selected == IF ~cleared.auto /\ cleared.source = p
                           THEN SetSourceAutoSelectEnabled(cleared, now) ELSE cleared
         IN IF p < selected.mux.current THEN Update(selected, now) ELSE selected

(* Seeded fault: the manual selection survives clearall.                   *)
ClearAllKeepingSource(h, now) == Update([h EXCEPT !.mux = ClearAllInputs], now)

(* clearall, without allChannelsCleared.                                   *)
ClearAll(h, now) ==
    Update(SetSourceAutoSelectEnabled([h EXCEPT !.mux = ClearAllInputs], now), now)

(* freeObjects: everything is cleared, then the device is switched off.    *)
FreeObjects(h, now) == [ClearAll(h, now) EXCEPT !.status = "closed"]

(* The constructor ends with update() on a new muxer.                      *)
NewCore ==
    [mux       |-> NewMuxer,
     auto      |-> TRUE,
     source    |-> Lowest,
     timer     |-> TimerOff,
     prevComp  |-> COMP_INVALID,
     backlight |-> TRUE,
     leds      |-> [channel |-> Lowest, color |-> Black, backlight |-> FALSE],
     status    |-> "running"]

(* Time passing for the single-shot timer.                                 *)
Elapse(h) == [h EXCEPT !.timer = IF @ > 0 THEN @ - 1 ELSE @]

TimerDue(h) == h.timer = 0

(* timeout(): a single-shot timer is off before the slot runs.             *)
Timeout(h, now) == Update([h EXCEPT !.timer = TimerOff], now)

==============================================================================
