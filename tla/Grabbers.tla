------------------------------- MODULE Grabbers -------------------------------
(***************************************************************************)
(* The grabbers as hyperiond creates them: the wrappers around the screen  *)
(* grabber of the configured type (libsrc/hyperion/GrabberWrapper.cpp and  *)
(* libsrc/grabber) and the V4L2 wrapper with its V4L2Grabber, which looks  *)
(* twice a second whether a source with a higher priority is active and    *)
(* does not capture while one is.  Both write to the core, and both are    *)
(* started and stopped by the user, by Kodi's grabbing mode and by errors  *)
(* of their devices.                                                       *)
(*                                                                         *)
(* The grabbers' state is the record                                       *)
(*   core        the Hyperion object                                       *)
(*   names       the names in the priority register                        *)
(*   components  what the component register says of the two components    *)
(*   screens     per kind of screen grabber that was created, whether its  *)
(*               timer runs and, for X11, whether Setup has succeeded      *)
(*   video       the V4L2 wrapper: its timer, and the fields of its        *)
(*               grabber (notifier is "none" before the device is open)    *)
(***************************************************************************)
EXTENDS HyperionCore, SequencesExt

CONSTANTS
    ScreenTypes,       \* the types of screen grabber to choose from
    ScreenPriority,    \* the channel of the screen grabber
    ScreenTimeout,     \* twice its update interval
    VideoPriority,     \* the channel of the V4L2 grabber
    VideoTimeout,      \* _timeout_ms of the V4L2 wrapper
    Devices,           \* the video devices, in the order they are found
    FrameDecimation,   \* frameDecimation of the configuration
    SignalThreshold,   \* _noSignalCounterThreshold
    UseKodiChecker,    \* useKodiChecker of the V4L2 configuration
    OtherPriority,     \* the channel of another source
    MaxTime,           \* bound: the last time
    MaxEvents          \* bound: how often the user, Kodi, another source or a device acts

ASSUME GrabberChannelsAreChannels ==
    {ScreenPriority - 1, ScreenPriority, VideoPriority, OtherPriority} \subseteq Channels
ASSUME GrabberNumbersAreNat ==
    {ScreenTimeout, VideoTimeout, FrameDecimation, SignalThreshold, MaxTime, MaxEvents} \subseteq Nat

VARIABLES
    grabbers,  \* the state of the grabbers and the core, as above
    env,       \* whether a screen can be grabbed, and what each device does
    now,       \* the wall clock
    count      \* how many of the bounded events have happened

vars == <<grabbers, env, now, count>>

VideoName == "V4L2"

(* Besides the configured grabber, amlogic has the framebuffer's.          *)
Kinds(type) == IF type = "amlogic" THEN <<"amlogic", "framebuffer">> ELSE <<type>>

PriorityOf(kind) == IF kind = "amlogic" THEN ScreenPriority - 1 ELSE ScreenPriority

Running == grabbers.core.status = "running"

-----------------------------------------------------------------------------
(* X11 is set up once: if that fails, it is not tried again.               *)
StartX11(screen, e) ==
    LET setUp == IF screen.setUp # "no" THEN screen.setUp
                 ELSE IF e.grabbable THEN "done" ELSE "failed"
    IN [timer |-> screen.timer \/ setUp = "done", setUp |-> setUp]

StartScreen(screen, kind, e) ==
    IF kind = "x11" THEN StartX11(screen, e) ELSE [screen EXCEPT !.timer = TRUE]

StopScreen(screen) == [screen EXCEPT !.timer = FALSE]

(* GrabberWrapper: the timer and the register go together.                 *)
WithScreens(g, screens) ==
    [g EXCEPT !.screens = screens,
              !.names = (@ \cap {VideoName}) \cup {k \in DOMAIN screens : screens[k].timer}]

StartScreens(g, kinds, e) ==
    WithScreens(g, [k \in DOMAIN g.screens |->
        IF k \in kinds THEN StartScreen(g.screens[k], k, e) ELSE g.screens[k]])

StopScreens(g, kinds) ==
    WithScreens(g, [k \in DOMAIN g.screens |->
        IF k \in kinds THEN StopScreen(g.screens[k]) ELSE g.screens[k]])

(* action(): X11 without a window and amlogic without a video have nothing *)
(* to show, the others show what they have grabbed last.                   *)
GrabFails(kind, e) == kind \in {"x11", "amlogic"} /\ ~e.grabbable

ScreenColors(g, kind, time) ==
    [g EXCEPT !.core = SetColors(@, PriorityOf(kind), CHOOSE c \in Colors : TRUE,
                                 ScreenTimeout, COMP_GRABBER, time)]

ScreenAction(g, kind, e, time) ==
    IF GrabFails(kind, e) THEN g ELSE ScreenColors(g, kind, time)

-----------------------------------------------------------------------------
(* V4L2Grabber.  A device can be opened and initialised if it is there and *)
(* has a usable format; one that is busy fails when it has to stream.      *)
Usable(e, device) == e.devices[device] \in {"ok", "busy"}

Open(v, device, e) ==
    IF Usable(e, device)
      THEN [v EXCEPT !.device = device, !.initialized = TRUE, !.notifier = "off"]
      ELSE [v EXCEPT !.device = device]

(* "auto" tries one device after the other, and is forgotten: without a    *)
(* usable one, the last device is the one to try from then on.             *)
InitGrabber(v, e) ==
    IF v.initialized THEN v
    ELSE IF v.device # "auto" THEN Open(v, v.device, e)
    ELSE LET usable == SelectSeq(Devices, LAMBDA d : Usable(e, d))
         IN Open(v, IF usable # <<>> THEN Head(usable) ELSE Last(Devices), e)

(* A device that was lost cannot stream again: it is not opened anew.      *)
CanStream(v, e) == ~v.lost /\ e.devices[v.device] = "ok"

(* The notifier is enabled before capturing starts, which may fail.        *)
GrabberStarts(v, e) ==
    LET opened == InitGrabber(v, e)
    IN IF ~opened.initialized \/ opened.notifier = "on" THEN [video |-> opened, ok |-> FALSE]
       ELSE [video |-> [opened EXCEPT !.notifier = "on", !.streaming = CanStream(opened, e)],
             ok    |-> CanStream(opened, e)]

GrabberStop(v) ==
    IF v.notifier # "on" THEN v ELSE [v EXCEPT !.notifier = "off", !.streaming = FALSE]

-----------------------------------------------------------------------------
(* V4L2Wrapper.                                                            *)
StartVideo(g, e) ==
    LET started == GrabberStarts(g.video, e)
        next    == [g EXCEPT !.video = started.video]
    IN IF started.ok THEN [next EXCEPT !.video.timer = TRUE, !.names = @ \cup {VideoName}]
       ELSE next

(* Seeded fault: only the wrapper is stopped.                              *)
StopVideoWrapper(g) == [g EXCEPT !.video.timer = FALSE, !.names = @ \ {VideoName}]

StopVideo(g) ==
    [g EXCEPT !.video = [GrabberStop(@) EXCEPT !.timer = FALSE], !.names = @ \ {VideoName}]

HigherSource(g) == \E p \in DOMAIN g.core.mux.inputs : p < VideoPriority

(* Seeded fault: only the channel that is shown counts.                    *)
CheckSourcesShown(g, e) ==
    IF g.core.leds.channel = VideoPriority THEN [g EXCEPT !.video = GrabberStarts(@, e).video]
    ELSE [g EXCEPT !.video = GrabberStop(@)]

(* Seeded fault: the grabber is stopped and never started again.           *)
CheckSourcesOnce(g, e) ==
    IF HigherSource(g) THEN [g EXCEPT !.video = GrabberStop(@)] ELSE g

CheckSources(g, e) ==
    IF HigherSource(g) THEN [g EXCEPT !.video = GrabberStop(@)]
    ELSE [g EXCEPT !.video = GrabberStarts(@, e).video]

NewFrame(g, time) ==
    [g EXCEPT !.core = SetColors(@, VideoPriority, CHOOSE c \in Colors : TRUE, VideoTimeout,
                                 COMP_GRABBER, time)]

(* process_image: every FrameDecimation-th frame counts, and after         *)
(* SignalThreshold dark ones no more are shown until one is not dark.  One *)
(* that is not whole (too small) is passed over and the next one counts.   *)
ProcessImage(g, whole, dark, time) ==
    LET v     == g.video
        darks == IF dark THEN Min({v.dark + 1, SignalThreshold + 1}) ELSE 0
        next  == [g EXCEPT !.video.frame = 0, !.video.dark = darks]
    IN IF v.frame + 1 < FrameDecimation THEN [g EXCEPT !.video.frame = @ + 1]
       ELSE IF ~whole THEN g
       ELSE IF darks < SignalThreshold THEN NewFrame(next, time) ELSE next

(* read_frame after an error of the device.                                *)
ReadError(g) == StopVideo(g)

-----------------------------------------------------------------------------
(* What all grabbers do.                                                   *)
SetGrabbingMode(g, mode, e) ==
    LET videoSet == IF ~UseKodiChecker THEN g
                    ELSE IF mode = "OFF" THEN StopVideo(g) ELSE StartVideo(g, e)
    IN IF mode = "OFF" THEN StopScreens(videoSet, DOMAIN g.screens)
       ELSE StartScreens(videoSet, DOMAIN g.screens, e)

(* componentStateChanged tells the register what became of the request.    *)
(* (Two kinds of grabbers cannot differ in that: only X11 fails to start.) *)
GrabberStateChanged(g, enable, e) ==
    LET others   == {k \in DOMAIN g.screens : g.screens[k].timer # enable}
        switched == IF enable THEN StartScreens(g, others, e) ELSE StopScreens(g, others)
    IN [switched EXCEPT !.components.GRABBER =
           \A k \in DOMAIN switched.screens : switched.screens[k].timer]

V4LStateChanged(g, enable, e) ==
    LET switched == IF g.video.timer = enable THEN g
                    ELSE IF enable THEN StartVideo(g, e) ELSE StopVideo(g)
    IN [switched EXCEPT !.components.V4L = switched.video.timer]

-----------------------------------------------------------------------------
(* hyperiond: the V4L2 grabber is created first and started if enabled;    *)
(* the screen grabbers are started in any case and then switched.          *)
CreateGrabberV4L2(g, enable, e) ==
    LET started == IF enable THEN StartVideo(g, e) ELSE g
    IN [started EXCEPT !.components.V4L = started.video.timer]

CreateSystemFrameGrabber(g, type, enable, e) ==
    LET kinds   == Kinds(type)
        created == [g EXCEPT !.screens = [k \in ToSet(kinds) |-> [timer |-> FALSE, setUp |-> "no"]]]
    IN GrabberStateChanged(StartScreens(created, ToSet(kinds), e), enable, e)

NewGrabbers ==
    [core       |-> NewCore,
     names      |-> {},
     components |-> [GRABBER |-> FALSE, V4L |-> FALSE],
     screens    |-> [k \in {} |-> {}],
     video      |-> [timer |-> FALSE, device |-> "auto", initialized |-> FALSE,
                     notifier |-> "none", streaming |-> FALSE, lost |-> FALSE,
                     frame |-> 0, dark |-> 0]]

Init ==
    /\ \E devices \in [ToSet(Devices) -> {"ok", "absent"}], grabbable \in BOOLEAN :
           env = [grabbable |-> grabbable, devices |-> devices]
    /\ \E type \in ScreenTypes, screen, video \in BOOLEAN :
           grabbers = CreateSystemFrameGrabber(
                          CreateGrabberV4L2(NewGrabbers, video, env), type, screen, env)
    /\ now = 0
    /\ count = 0

Counts == count < MaxEvents /\ count' = count + 1

-----------------------------------------------------------------------------
ScreenTimerFires(kind) ==
    /\ Running
    /\ kind \in DOMAIN grabbers.screens
    /\ grabbers.screens[kind].timer
    /\ now + ScreenTimeout <= MaxTime
    /\ grabbers' = ScreenAction(grabbers, kind, env, now)
    /\ UNCHANGED <<env, now, count>>

VideoTimerFires ==
    /\ Running
    /\ grabbers.video.timer
    /\ grabbers' = CheckSources(grabbers, env)
    /\ UNCHANGED <<env, now, count>>

FrameArrives(whole, dark) ==
    /\ Running
    /\ grabbers.video.streaming
    /\ env.devices[grabbers.video.device] = "ok"
    /\ now + VideoTimeout <= MaxTime
    /\ grabbers' = ProcessImage(grabbers, whole, dark, now)
    /\ UNCHANGED <<env, now, count>>

(* The notifier is activated by a device that cannot deliver, too.         *)
ReadFails ==
    /\ Running
    /\ grabbers.video.notifier = "on"
    /\ ~grabbers.video.streaming \/ env.devices[grabbers.video.device] # "ok"
    /\ grabbers' = ReadError(grabbers)
    /\ UNCHANGED <<env, now, count>>

KodiSetsGrabbingMode(mode) ==
    /\ Running
    /\ Counts
    /\ grabbers' = SetGrabbingMode(grabbers, mode, env)
    /\ UNCHANGED <<env, now>>

UserSwitchesGrabber(enable) ==
    /\ Running
    /\ Counts
    /\ grabbers' = GrabberStateChanged(grabbers, enable, env)
    /\ UNCHANGED <<env, now>>

UserSwitchesV4L(enable) ==
    /\ Running
    /\ Counts
    /\ grabbers' = V4LStateChanged(grabbers, enable, env)
    /\ UNCHANGED <<env, now>>

UserSelects(p) ==
    /\ Running
    /\ Counts
    /\ grabbers' = [grabbers EXCEPT !.core = SetCurrentSourcePriority(@, p)]
    /\ UNCHANGED <<env, now>>

OtherSourceSets ==
    /\ Running
    /\ Counts
    /\ grabbers' = [grabbers EXCEPT !.core =
           SetColors(@, OtherPriority, CHOOSE c \in Colors : TRUE, 0, COMP_COLOR, now)]
    /\ UNCHANGED <<env, now>>

OtherSourceClears ==
    /\ Running
    /\ grabbers' = [grabbers EXCEPT !.core = Clear(@, OtherPriority, now)]
    /\ UNCHANGED <<env, now, count>>

ScreenChanges ==
    /\ Counts
    /\ env' = [env EXCEPT !.grabbable = ~@]
    /\ UNCHANGED <<grabbers, now>>

(* A device that goes away is lost to the grabber that has opened it.      *)
DeviceChanges(device, state) ==
    /\ Counts
    /\ env.devices[device] # state
    /\ env' = [env EXCEPT !.devices[device] = state]
    /\ grabbers' = [grabbers EXCEPT !.video.lost =
           @ \/ (state = "absent" /\ grabbers.video.initialized /\ grabbers.video.device = device)]
    /\ UNCHANGED now

TimerFires ==
    /\ Running
    /\ TimerDue(grabbers.core)
    /\ grabbers' = [grabbers EXCEPT !.core = Timeout(@, now)]
    /\ UNCHANGED <<env, now, count>>

Tick ==
    /\ now < MaxTime
    /\ ~TimerDue(grabbers.core)
    /\ now' = now + 1
    /\ grabbers' = [grabbers EXCEPT !.core = Elapse(@)]
    /\ UNCHANGED <<env, count>>

Next ==
    \/ \E kind \in UNION {ToSet(Kinds(type)) : type \in ScreenTypes} : ScreenTimerFires(kind)
    \/ VideoTimerFires
    \/ \E whole, dark \in BOOLEAN : FrameArrives(whole, dark)
    \/ ReadFails
    \/ \E mode \in {"OFF", "VIDEO"} : KodiSetsGrabbingMode(mode)
    \/ \E enable \in BOOLEAN : UserSwitchesGrabber(enable) \/ UserSwitchesV4L(enable)
    \/ \E p \in Channels : UserSelects(p)
    \/ OtherSourceSets
    \/ OtherSourceClears
    \/ ScreenChanges
    \/ \E device \in ToSet(Devices), state \in {"ok", "absent", "busy"} :
           DeviceChanges(device, state)
    \/ TimerFires
    \/ Tick

Spec == Init /\ [][Next]_vars

(* The event loop runs the wrapper's timer and the device's notifier.      *)
Fairness == WF_vars(VideoTimerFires) /\ WF_vars(ReadFails)

FairSpec == Spec /\ Fairness

-----------------------------------------------------------------------------
Higher == HigherSource(grabbers)

(* While the user has switched the V4L2 grabber off, or an error of the    *)
(* device or Kodi has, nothing of it captures: no way to stop it leaves    *)
(* the device streaming, where nobody would look for higher sources.       *)
OffIsNotStreaming == ~grabbers.video.timer => ~grabbers.video.streaming

(* A higher source, even one that is not shown because the user selected   *)
(* another, makes the V4L2 grabber stop capturing.                         *)
VideoYields == Higher ~> (~grabbers.video.streaming \/ ~Higher)

(* Once no higher source is left, the V4L2 grabber captures again, unless  *)
(* it is switched off or its device fails.                                 *)
VideoResumes ==
    (grabbers.video.timer /\ ~Higher)
        ~> (grabbers.video.streaming \/ ~grabbers.video.timer \/ Higher)

==============================================================================
