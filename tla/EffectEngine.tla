----------------------------- MODULE EffectEngine ----------------------------
(***************************************************************************)
(* Effects: Python scripts that run on threads of their own and draw on a  *)
(* priority channel, the engine that starts and aborts them on the main    *)
(* thread (libsrc/effectengine), and the core they draw on.                *)
(*                                                                         *)
(* An effect's thread never touches the core.  Its setColors signal and    *)
(* its finished signal are connected to objects of the main thread, so     *)
(* both are posted to the main thread's event queue and served there in    *)
(* the order they were posted, arbitrarily later.  In the other direction  *)
(* the main thread sets the effect's abort flag, which the thread looks at *)
(* when its script calls into the hyperion module.                         *)
(*                                                                         *)
(* The content of a channel names the one who drew it: an effect draws in  *)
(* its own colour.  Source selection is automatic throughout (Hyperion     *)
(* has the manual one).                                                    *)
(***************************************************************************)
EXTENDS HyperionCore, Sequences, SequencesExt

CONSTANTS
    Effects,        \* the Effect objects a run may create
    Names,          \* the names of effect scripts
    EffectTimeouts, \* the timeout_ms values of effects; 0 stands for none
    ClientColor,    \* the colour clients write
    ClientTimeouts, \* the timeout_ms values of clients
    Foregrounds,    \* what the daemon may show on start: "none", "color" or "effect"
    Backgrounds,    \* and what below everything else
    MaxTime,        \* bound: the last value of the clock
    MaxQueue        \* bound: the frames that wait in the event queue

ASSUME EffectsDraw    == Colors = Effects \cup {ClientColor} /\ ClientColor \notin Effects
ASSUME NamesExist     == Names # {}
ASSUME StartsShow     == Foregrounds \cup Backgrounds \subseteq {"none", "color", "effect"}
ASSUME StartChannels  == /\ Lowest > 1 /\ 0 \in Priorities
                         /\ Backgrounds \subseteq {"none"} \/ Lowest - 1 \in Priorities
ASSUME TimeoutsAreNat == EffectTimeouts \subseteq Nat /\ ClientTimeouts \subseteq Nat
ASSUME BoundsAreNat   == MaxTime \in Nat /\ MaxQueue \in Nat

VARIABLES
    core,      \* the Hyperion object
    effects,   \* the Effect objects
    queue,     \* the main thread's event queue, oldest first
    register,  \* _priorityRegister: names of input sources to channels
    now,       \* the wall clock
    owner      \* history: who was last asked to use each channel

vars == <<core, effects, queue, register, now, owner>>

Nobody == "nobody"
Client == "client"

(* The life of an Effect: not created, its thread about to start, in the   *)
(* script, between the checks of a drawing call and its emit, returned     *)
(* from run() with its finished signal posted, and deleted.                *)
Phases == {"new", "starting", "script", "emitting", "returned", "deleted"}

EffectState ==
    [phase : Phases, priority : Channels, name : Names, timeout : Nat,
     endTime : Nat, abort : BOOLEAN, remaining : Nat]

FrameEvents    == [kind : {"setColors"}, effect : Effects, priority : Channels, timeout : Nat]
FinishedEvents == [kind : {"finished"}, effect : Effects]

TypeOK ==
    /\ IsCore(core)
    /\ effects \in [Effects -> EffectState]
    /\ queue \in Seq(FrameEvents \cup FinishedEvents)
    /\ DOMAIN register \subseteq Names
    /\ \A name \in DOMAIN register : register[name] \in Channels
    /\ now \in 0 .. MaxTime
    /\ owner \in [Priorities -> Effects \cup {Client, Nobody}]

Idle ==
    [phase |-> "new", priority |-> Lowest, name |-> CHOOSE name \in Names : TRUE,
     timeout |-> 0, endTime |-> 0, abort |-> FALSE, remaining |-> 0]

NewEffect(name, p, timeout) ==
    [phase |-> "starting", priority |-> p, name |-> name, timeout |-> timeout,
     endTime |-> 0, abort |-> FALSE, remaining |-> 0]

(* emplace does not replace an entry, erase takes it away.                 *)
RegisterPriority(reg, name, p) ==
    IF name \in DOMAIN reg THEN reg
    ELSE [n \in DOMAIN reg \cup {name} |-> IF n = name THEN p ELSE reg[n]]

UnRegisterPriority(reg, name) == Restrict(reg, DOMAIN reg \ {name})

(* startInitialEffect: the daemon blanks the LEDs for 100 ms on channel 0, *)
(* shows its foreground there, which must end, and its background on the   *)
(* last channel.  The client's colour stands for that of the daemon.       *)
Foreground  == 0
Background  == Lowest - 1
ShortTime   == 1

ForegroundTime(timeout) == IF timeout = 0 THEN ShortTime ELSE timeout

InitialCore(front, back, timeout) ==
    LET color(h, p, t) == SetColors(h, p, ClientColor, t, COMP_COLOR, 0)
        blank    == color(NewCore, Foreground, ShortTime)
        fronted  == IF front = "color" THEN color(blank, Foreground, timeout) ELSE blank
    IN IF back = "color" THEN color(fronted, Background, 0) ELSE fronted

InitialRegister(front, back, name) ==
    LET none    == [n \in {} |-> Lowest]
        fronted == IF front = "effect" THEN RegisterPriority(none, name, Foreground) ELSE none
    IN IF back = "effect" THEN RegisterPriority(fronted, name, Background) ELSE fronted

InitialOwner(front, back, f, b) ==
    [p \in Priorities |->
        CASE p = Foreground -> IF front = "effect" THEN f ELSE Client
          [] p = Background /\ back # "none" -> IF back = "effect" THEN b ELSE Client
          [] OTHER -> Nobody]

Init ==
    \E front \in Foregrounds, back \in Backgrounds, name \in Names,
       timeout \in {ForegroundTime(t) : t \in EffectTimeouts} :
        \E f \in Effects, b \in Effects :
            /\ f # b
            /\ core = InitialCore(front, back, timeout)
            /\ effects = [e \in Effects |->
                   CASE e = f /\ front = "effect" -> NewEffect(name, Foreground, timeout)
                     [] e = b /\ back = "effect"  -> NewEffect(name, Background, 0)
                     [] OTHER                     -> Idle]
            /\ queue = <<>>
            /\ register = InitialRegister(front, back, name)
            /\ now = 0
            /\ owner = InitialOwner(front, back, f, b)

(* _activeEffects: from runEffectScript to effectFinished.                 *)
Active(e) == effects[e].phase \notin {"new", "deleted"}

ActiveOn(p) == {e \in Effects : Active(e) /\ effects[e].priority = p}

Abort(fx, victims) == [e \in Effects |-> IF e \in victims THEN [fx[e] EXCEPT !.abort = TRUE] ELSE fx[e]]

ChannelCleared(p) == Abort(effects, ActiveOn(p))

AllChannelsCleared == Abort(effects, {e \in Effects : Active(e)})

-----------------------------------------------------------------------------
(* The main thread.                                                        *)

RunEffect(e, name, p, timeout) ==
    /\ effects[e].phase = "new"
    /\ now + timeout < MaxTime
    /\ effects' = [ChannelCleared(p) EXCEPT ![e] = NewEffect(name, p, timeout)]
    /\ register' = RegisterPriority(register, name, p)
    /\ owner' = [owner EXCEPT ![p] = e]
    /\ UNCHANGED <<core, queue, now>>

(* setColors with clearEffects.                                            *)
ClientSetsColors(p, timeout) ==
    /\ now + timeout <= MaxTime
    /\ effects' = ChannelCleared(p)
    /\ core' = SetColors(core, p, ClientColor, timeout, COMP_COLOR, now)
    /\ owner' = [owner EXCEPT ![p] = Client]
    /\ UNCHANGED <<queue, register, now>>

(* Seeded fault: an effect that has not drawn yet is not aborted.          *)
ClientClearsIfInUse(p) ==
    /\ core' = Clear(core, p, now)
    /\ effects' = IF HasPriority(core.mux, p) THEN ChannelCleared(p) ELSE effects
    /\ owner' = [owner EXCEPT ![p] = Nobody]
    /\ UNCHANGED <<queue, register, now>>

ClientClears(p) ==
    /\ core' = Clear(core, p, now)
    /\ effects' = ChannelCleared(p)
    /\ owner' = [owner EXCEPT ![p] = Nobody]
    /\ UNCHANGED <<queue, register, now>>

ClientClearsAll ==
    /\ core' = ClearAll(core, now)
    /\ effects' = AllChannelsCleared
    /\ owner' = [p \in Priorities |-> Nobody]
    /\ UNCHANGED <<queue, register, now>>

(* A queued setColors arrives: clearEffects is FALSE, and nothing in the   *)
(* event says whether its effect is still wanted.                          *)
DeliverFrame ==
    /\ queue # <<>>
    /\ Head(queue).kind = "setColors"
    /\ LET event == Head(queue)
       IN core' = SetColors(core, event.priority, event.effect, event.timeout, COMP_EFFECT, now)
    /\ queue' = Tail(queue)
    /\ UNCHANGED <<effects, register, now, owner>>

(* effectFinished(e): an effect that was not aborted clears its channel.   *)
Retire(fx, e) == [fx EXCEPT ![e].phase = "deleted"]

FinishedClears(e) == ~effects[e].abort

DeliverFinished ==
    /\ queue # <<>>
    /\ Head(queue).kind = "finished"
    /\ LET e == Head(queue).effect
           p == effects[e].priority
       IN /\ IF FinishedClears(e)
               THEN /\ core' = Clear(core, p, now)
                    /\ effects' = Retire(ChannelCleared(p), e)
                    /\ owner' = [owner EXCEPT ![p] = Nobody]
               ELSE /\ effects' = Retire(effects, e)
                    /\ UNCHANGED <<core, owner>>
          /\ register' = UnRegisterPriority(register, effects[e].name)
    /\ queue' = Tail(queue)
    /\ UNCHANGED now

TimerFires ==
    /\ TimerDue(core)
    /\ core' = Timeout(core, now)
    /\ UNCHANGED <<effects, queue, register, now, owner>>

-----------------------------------------------------------------------------
(* The thread of an effect.                                                *)

(* run() up to the script.                                                 *)
ThreadStarts(e) ==
    /\ effects[e].phase = "starting"
    /\ effects' = [effects EXCEPT ![e].phase   = "script",
                                  ![e].endTime = IF effects[e].timeout > 0
                                                   THEN now + effects[e].timeout ELSE 0]
    /\ UNCHANGED <<core, queue, register, now, owner>>

TimeLeft(e) == effects[e].endTime - now

(* Seeded fault: the last millisecond counts, and 0 is passed on.          *)
InTimeOrAtEnd(e) == effects[e].timeout > 0 => TimeLeft(e) >= 0

InTime(e) == effects[e].timeout > 0 => TimeLeft(e) > 0

(* The checks of wrapSetColor and wrapSetImage.                            *)
MaySetColor(e) == ~effects[e].abort /\ InTime(e)

(* wrapImageShow does not look at the abort flag.                          *)
MayShowImage(e) == InTime(e)

ThreadDraws(e, may) ==
    /\ effects[e].phase = "script"
    /\ may
    /\ effects' = [effects EXCEPT ![e].phase = "emitting",
                                  ![e].remaining = IF effects[e].timeout > 0
                                                     THEN TimeLeft(e) ELSE 0]
    /\ UNCHANGED <<core, queue, register, now, owner>>

ThreadSetsColor(e) == ThreadDraws(e, MaySetColor(e))

ThreadShowsImage(e) == ThreadDraws(e, MayShowImage(e))

ThreadEmits(e) ==
    /\ effects[e].phase = "emitting"
    /\ Len(queue) < MaxQueue
    /\ queue' = Append(queue, [kind |-> "setColors", effect |-> e,
                               priority |-> effects[e].priority,
                               timeout |-> effects[e].remaining])
    /\ effects' = [effects EXCEPT ![e].phase = "script", ![e].remaining = 0]
    /\ UNCHANGED <<core, register, now, owner>>

(* Seeded fault: the comparison with the end time is reversed.             *)
ThreadPollsAbortEarly(e) ==
    /\ effects[e].phase = "script"
    /\ effects[e].timeout > 0 /\ now < effects[e].endTime
    /\ effects' = [effects EXCEPT ![e].abort = TRUE]
    /\ UNCHANGED <<core, queue, register, now, owner>>

(* hyperion.abort() in the script.                                         *)
ThreadPollsAbort(e) ==
    /\ effects[e].phase = "script"
    /\ effects[e].timeout > 0 /\ now > effects[e].endTime
    /\ effects' = [effects EXCEPT ![e].abort = TRUE]
    /\ UNCHANGED <<core, queue, register, now, owner>>

(* Seeded faults: the finished signal overtakes the frames, and an aborted *)
(* effect does not send it.                                                *)
ThreadReturnsFirst(e) ==
    /\ effects[e].phase = "script"
    /\ effects' = [effects EXCEPT ![e].phase = "returned"]
    /\ queue' = <<[kind |-> "finished", effect |-> e]>> \o queue
    /\ UNCHANGED <<core, register, now, owner>>

ThreadReturnsSilently(e) ==
    /\ effects[e].phase = "script"
    /\ effects' = [effects EXCEPT ![e].phase = "returned"]
    /\ queue' = IF effects[e].abort THEN queue
                ELSE Append(queue, [kind |-> "finished", effect |-> e])
    /\ UNCHANGED <<core, register, now, owner>>

(* The script ends, by itself or because it saw the abort flag.            *)
ThreadReturns(e) ==
    /\ effects[e].phase = "script"
    /\ effects' = [effects EXCEPT ![e].phase = "returned"]
    /\ queue' = Append(queue, [kind |-> "finished", effect |-> e])
    /\ UNCHANGED <<core, register, now, owner>>

(* Bound: a thread starts in time for its end to be within MaxTime.        *)
StartsInTime ==
    \A e \in Effects : effects[e].phase = "starting" => now + 1 + effects[e].timeout < MaxTime

Tick ==
    /\ \/ now < MaxTime /\ StartsInTime
       \/ now = MaxTime /\ core.timer > 0
    /\ now' = Min({now + 1, MaxTime})
    /\ core' = Elapse(core)
    /\ UNCHANGED <<effects, queue, register, owner>>

MainThread ==
    \/ \E e \in Effects, name \in Names, p \in Priorities, timeout \in EffectTimeouts :
           RunEffect(e, name, p, timeout)
    \/ \E p \in Priorities, timeout \in ClientTimeouts : ClientSetsColors(p, timeout)
    \/ \E p \in Priorities : ClientClears(p)
    \/ ClientClearsAll
    \/ DeliverFrame
    \/ DeliverFinished
    \/ TimerFires

EffectThread(e) ==
    \/ ThreadStarts(e)
    \/ ThreadSetsColor(e)
    \/ ThreadShowsImage(e)
    \/ ThreadEmits(e)
    \/ ThreadPollsAbort(e)
    \/ ThreadReturns(e)

Next ==
    \/ MainThread
    \/ \E e \in Effects : EffectThread(e)
    \/ Tick

Spec == Init /\ [][Next]_vars

(* The scheduler runs every thread, the main thread serves its events, and *)
(* scripts draw and poll abort() until it says that they should end, as    *)
(* every script in effects/ does.  A script may stop by itself or not.     *)
Fairness ==
    /\ WF_vars(DeliverFrame \/ DeliverFinished)
    /\ WF_vars(TimerFires) /\ WF_vars(Tick)
    /\ \A e \in Effects :
           /\ WF_vars(ThreadStarts(e))
           /\ SF_vars(ThreadEmits(e))
           /\ SF_vars(ThreadPollsAbort(e))
           /\ SF_vars(effects[e].abort /\ ThreadReturns(e))

FairSpec == Spec /\ Fairness

-----------------------------------------------------------------------------
(* An effect that ends by itself clears its channel.  It never clears one  *)
(* that has been given to another effect or a client since it started,     *)
(* however long its finished signal waited in the queue.                   *)
FinishClearsOwnChannel ==
    \A e \in Effects : (Active(e) /\ ~effects[e].abort) => owner[effects[e].priority] = e

(* The timeout a drawing call passes on is the time its effect has left,   *)
(* and setColors takes 0 for endless.  A frame of an effect with a timeout *)
(* therefore never makes its channel endless.                              *)
TimedEffectsTimeOut ==
    \A p \in DOMAIN core.mux.inputs :
        LET info == core.mux.inputs[p]
        IN (info.color \in Effects /\ effects[info.color].timeout > 0)
               => info.timeout # Endless

(* effectFinished deletes the Effect.  No event of it is left in the queue *)
(* then, and none follows its finished signal.                             *)
NothingAfterFinished ==
    \A i \in DOMAIN queue :
        /\ Active(queue[i].effect)
        /\ queue[i].kind = "setColors" =>
               \A j \in 1 .. i : queue[j] # [kind |-> "finished", effect |-> queue[i].effect]

(* An effect that was asked to end is deleted at some time, also when it   *)
(* was aborted before its thread started.                                  *)
AbortedEffectsEnd ==
    \A e \in Effects : (Active(e) /\ effects[e].abort) ~> effects[e].phase = "deleted"

(* Hyperion.h:243: "after the timout, the effect will be cleared".         *)
TimedEffectsEnd ==
    \A e \in Effects : (Active(e) /\ effects[e].timeout > 0) ~> effects[e].phase = "deleted"

-----------------------------------------------------------------------------
(* Hyperion.h:228: clear(priority) "Clears the given priority channel",    *)
(* and Hyperion.h:189: setColors "Writes the given colors to all leds for  *)
(* the given time and priority".  A channel that was cleared and not asked *)
(* for since should stay out of use, and one a client wrote to should hold *)
(* the client's colours until the next request for it.                     *)
QueueRespectsOwner ==
    \A p \in Priorities \cap DOMAIN core.mux.inputs :
        /\ owner[p] # Nobody
        /\ owner[p] = Client => core.mux.inputs[p].color = ClientColor

==============================================================================
