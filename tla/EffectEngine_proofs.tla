-------------------------- MODULE EffectEngine_proofs -------------------------
(***************************************************************************)
(* The effect engine keeps its promises for every number of effects,       *)
(* channels and timeouts, however long the main thread's queue grows and   *)
(* however long its events wait there.                                     *)
(***************************************************************************)
EXTENDS EffectEngine, HyperionCore_proofs

(* An effect that nobody asked to end owns its channel.                    *)
Owned ==
    \A e \in Effects : Active(e) =>
        /\ effects[e].priority \in Priorities
        /\ ~effects[e].abort => owner[effects[e].priority] = e

Events == FrameEvents \cup FinishedEvents

(* What waits in the event queue q, given the effects: the events are of   *)
(* effects there are, nothing follows the finished signal of an effect,    *)
(* and its frames have a timeout if it has one.                            *)
QueueInv(q, fx) ==
    \A i \in 1 .. Len(q) :
        /\ fx[q[i].effect].phase \notin {"new", "deleted"}
        /\ q[i].kind = "finished" =>
               /\ fx[q[i].effect].phase = "returned"
               /\ \A j \in 1 .. Len(q) : j > i => q[j].effect # q[i].effect
        /\ q[i].kind = "setColors" =>
               /\ q[i].priority \in Priorities
               /\ fx[q[i].effect].timeout > 0 => q[i].timeout > 0

(* An effect with a timeout has time left while it emits a frame.          *)
EmitsInTime ==
    \A e \in Effects :
        (effects[e].phase = "emitting" /\ effects[e].timeout > 0) => effects[e].remaining > 0

(* What effects have drawn on the channels, given the effects.             *)
Drawn(chans, fx) ==
    \A p \in DOMAIN chans : chans[p].color \in Effects =>
        /\ fx[chans[p].color].phase # "new"
        /\ fx[chans[p].color].timeout > 0 => chans[p].timed

IInv ==
    /\ TypeOK
    /\ Base(core)
    /\ UpToDate(core)
    /\ Owned
    /\ QueueInv(queue, effects)
    /\ EmitsInTime
    /\ Drawn(Contents(core.mux), effects)


-----------------------------------------------------------------------------
(* Channels that go, and clients and effects that draw, keep Drawn.        *)
LEMMA DrawnKept ==
  ASSUME NEW chans, NEW fx, Drawn(chans, fx), NEW m, Keeps(m, chans)
  PROVE  Drawn(Contents(m), fx)
<1>1. DOMAIN Contents(m) \subseteq DOMAIN chans
      /\ \A p \in DOMAIN Contents(m) : Contents(m)[p] = chans[p]
  BY DEF Keeps, Contents
<1>2. QED
  BY <1>1 DEF Drawn

LEMMA DrawnWithout ==
  ASSUME NEW chans, NEW fx, Drawn(chans, fx), NEW p
  PROVE  Drawn(Without(chans, p), fx)
BY DEF Drawn, Without

LEMMA DrawnWritten ==
  ASSUME NEW chans, NEW fx, Drawn(chans, fx), NEW p, NEW content,
         content.color \in Effects =>
             /\ fx[content.color].phase # "new"
             /\ fx[content.color].timeout > 0 => content.timed
  PROVE  Drawn(WithContent(chans, p, content), fx)
BY DEF Drawn, WithContent

(* Effects that keep their timeouts and stay created keep Drawn.           *)
LEMMA DrawnByAnyPhase ==
  ASSUME NEW chans, NEW fx, NEW gx, Drawn(chans, fx),
         \A e \in Effects : fx[e].phase # "new" =>
             gx[e].phase # "new" /\ gx[e].timeout = fx[e].timeout
  PROVE  Drawn(chans, gx)
BY DEF Drawn

LEMMA NewIsDrawn == ASSUME NEW fx PROVE Drawn(Contents(NewMuxer), fx)
<1>1. \A p \in DOMAIN Contents(NewMuxer) : Contents(NewMuxer)[p].color = Black
  BY DEF Contents, Content, NewMuxer, LowestPriorityInfo
<1>2. Black \notin Effects
  BY BlackIsNoColor, EffectsDraw
<1>3. QED
  BY <1>1, <1>2 DEF Drawn

-----------------------------------------------------------------------------
(* What the slots of the core keep of what effects have drawn.             *)
CoreInv(h, fx) ==
    /\ Base(h)
    /\ UpToDate(h)
    /\ Drawn(Contents(h.mux), fx)

LEMMA SetColorsCore ==
  ASSUME Lowest \notin Priorities, NEW h, NEW fx, CoreInv(h, fx), NEW time \in Nat,
         NEW p \in Priorities, NEW color \in Colors, NEW timeout \in Nat,
         NEW comp \in Components,
         color \in Effects => /\ fx[color].phase # "new"
                              /\ fx[color].timeout > 0 => timeout > 0
  PROVE  CoreInv(SetColors(h, p, color, timeout, comp, time), fx)
<1> DEFINE g       == SetColors(h, p, color, timeout, comp, time)
           content == [timed |-> timeout > 0, color |-> color]
<1>1. Kept(g, h, time)
  BY SetColorsInv DEF CoreInv
<1>2. Keeps(g.mux, WithContent(Contents(h.mux), p, content))
  BY SetColorsKeeps DEF CoreInv
<1>3. content.color = color /\ content.timed = (timeout > 0)
  OBVIOUS
<1> HIDE DEF g, content
<1>4. Drawn(WithContent(Contents(h.mux), p, content), fx)
  BY <1>3, DrawnWritten DEF CoreInv
<1>5. QED
  BY <1>1, <1>2, <1>4, DrawnKept DEF CoreInv, Kept, g

LEMMA ClearCore ==
  ASSUME NEW h, NEW fx, CoreInv(h, fx), NEW time \in Nat, NEW p \in Channels
  PROVE  CoreInv(Clear(h, p, time), fx)
<1> DEFINE g == Clear(h, p, time)
<1>1. Kept(g, h, time)
  BY ClearInv DEF CoreInv
<1>2. Keeps(g.mux, Without(Contents(h.mux), p)) \/ Keeps(g.mux, Contents(h.mux))
  <2>1. p < Lowest \/ p >= Lowest
    BY LowestIsNat, PrioritiesAreNat DEF Channels
  <2>2. QED
    BY <2>1, ClearKeeps DEF CoreInv
<1> HIDE DEF g
<1>3. QED
  BY <1>1, <1>2, DrawnWithout, DrawnKept DEF CoreInv, Kept, g

LEMMA ClearAllCore ==
  ASSUME NEW h, NEW fx, CoreInv(h, fx), NEW time \in Nat
  PROVE  CoreInv(ClearAll(h, time), fx)
BY ClearAllInv, ClearAllKeeps, NewIsDrawn, DrawnKept DEF CoreInv

LEMMA TimeoutCore ==
  ASSUME NEW h, NEW fx, CoreInv(h, fx), NEW time \in Nat
  PROVE  CoreInv(Timeout(h, time), fx)
<1> DEFINE off == [h EXCEPT !.timer = TimerOff]
<1>1. Base(off) /\ off.mux = h.mux
  BY DEF CoreInv, Base, IsCore
<1> HIDE DEF off
<1>2. Timeout(h, time) = Update(off, time)
  BY DEF Timeout, off
<1>3. QED
  BY <1>1, <1>2, UpdateInv, UpdateKeeps, DrawnKept DEF CoreInv

LEMMA ElapseCore ==
  ASSUME NEW h, NEW fx, CoreInv(h, fx)
  PROVE  CoreInv(Elapse(h), fx)
<1> DEFINE g == Elapse(h)
<1>1. /\ g.mux = h.mux /\ g.auto = h.auto /\ g.leds = h.leds /\ g.status = h.status
      /\ g.backlight = h.backlight /\ g.prevComp = h.prevComp /\ g.source = h.source
      /\ g.timer \in Nat \cup {TimerOff}
      /\ h.timer # TimerOff => g.timer # TimerOff
      /\ g = [h EXCEPT !.timer = g.timer]
  BY DEF CoreInv, Base, IsCore, Elapse, TimerOff
<1>2. IsCore(g)
  BY <1>1 DEF CoreInv, Base, IsCore
<1>3. QED
  BY <1>1, <1>2 DEF CoreInv, Base, UpToDate

-----------------------------------------------------------------------------
(* The daemon starts: at most two writes to a new core, and two effects.   *)
LEMMA NewCoreCore == ASSUME NEW fx PROVE CoreInv(NewCore, fx)
BY NewCoreInv, NewIsDrawn DEF CoreInv, NewCore

LEMMA InitialCoreInv ==
  ASSUME Lowest \notin Priorities, NEW fx, NEW front \in Foregrounds, NEW back \in Backgrounds,
         NEW timeout \in Nat
  PROVE  CoreInv(InitialCore(front, back, timeout), fx)
<1> DEFINE color(h, p, t) == SetColors(h, p, ClientColor, t, COMP_COLOR, 0)
           blank          == color(NewCore, Foreground, ShortTime)
           fronted        == IF front = "color" THEN color(blank, Foreground, timeout) ELSE blank
<1>1. /\ Foreground \in Priorities /\ (back = "color" => Background \in Priorities)
      /\ ClientColor \in Colors /\ ClientColor \notin Effects
      /\ COMP_COLOR \in Components /\ ShortTime \in Nat
  BY StartChannels, EffectsDraw DEF Foreground, Background, Components, ShortTime
<1>2. ASSUME NEW h, CoreInv(h, fx), NEW p \in Priorities, NEW t \in Nat
      PROVE  CoreInv(color(h, p, t), fx)
  BY <1>1, <1>2, SetColorsCore
<1>3. InitialCore(front, back, timeout) =
          IF back = "color" THEN color(fronted, Background, 0) ELSE fronted
  BY DEF InitialCore
<1>4. CoreInv(blank, fx)
  BY <1>1, <1>2, NewCoreCore
<1> HIDE DEF color, blank
<1>5. CoreInv(fronted, fx)
  BY <1>1, <1>2, <1>4
<1> HIDE DEF fronted
<1>6. QED
  BY <1>1, <1>2, <1>3, <1>5

LEMMA InitInv == ASSUME Lowest \notin Priorities, Init PROVE IInv
<1>1. PICK front \in Foregrounds, back \in Backgrounds, name \in Names,
           timeout \in {ForegroundTime(t) : t \in EffectTimeouts},
           f \in Effects, b \in Effects :
          /\ f # b
          /\ core = InitialCore(front, back, timeout)
          /\ effects = [e \in Effects |->
                 CASE e = f /\ front = "effect" -> NewEffect(name, Foreground, timeout)
                   [] e = b /\ back = "effect"  -> NewEffect(name, Background, 0)
                   [] OTHER                     -> Idle]
          /\ queue = <<>>
          /\ register = InitialRegister(front, back, name)
          /\ now = 0
          /\ owner = InitialOwner(front, back, f, b)
  BY DEF Init
<1>2. timeout \in Nat
  BY TimeoutsAreNat DEF ForegroundTime, ShortTime
<1>3. /\ 0 \in Priorities /\ Background # 0 /\ (back # "none" => Background \in Priorities)
      /\ front \in {"none", "color", "effect"} /\ back \in {"none", "color", "effect"}
      /\ Foreground = 0
  BY StartChannels, StartsShow, LowestIsNat DEF Background, Foreground
<1>4. CoreInv(core, effects)
  BY <1>1, <1>2, InitialCoreInv
<1>5. /\ effects \in [Effects -> EffectState]
      /\ \A e \in Effects :
             /\ effects[e].phase \in {"new", "starting"}
             /\ effects[e].phase = "starting" =>
                    \/ e = f /\ front = "effect" /\ effects[e].priority = Foreground
                    \/ e = b /\ back = "effect" /\ effects[e].priority = Background
  <2>1. (CHOOSE n \in Names : TRUE) \in Names
    OBVIOUS
  <2>2. Idle \in EffectState /\ Idle.phase = "new"
    BY <2>1 DEF Idle, EffectState, Phases, Channels
  <2>3. /\ front = "effect" => NewEffect(name, Foreground, timeout) \in EffectState
        /\ back = "effect" => NewEffect(name, Background, 0) \in EffectState
    BY <1>2, <1>3 DEF NewEffect, EffectState, Phases, Channels
  <2>4. ASSUME NEW e \in Effects
        PROVE  \/ effects[e] = Idle
               \/ e = f /\ front = "effect" /\ effects[e] = NewEffect(name, Foreground, timeout)
               \/ e = b /\ back = "effect" /\ effects[e] = NewEffect(name, Background, 0)
    BY <1>1
  <2>5. effects \in [Effects -> EffectState]
    <3>1. \A e \in Effects : effects[e] \in EffectState
      BY <2>2, <2>3, <2>4
    <3>2. effects = [e \in Effects |-> effects[e]]
      BY <1>1
    <3>3. QED
      BY <3>1, <3>2
  <2>6. QED
    BY <2>2, <2>4, <2>5 DEF NewEffect
<1>6. /\ owner \in [Priorities -> Effects \cup {Client, Nobody}]
      /\ front = "effect" => owner[Foreground] = f
      /\ back = "effect" => owner[Background] = b
  BY <1>1, <1>3 DEF InitialOwner
<1>7. /\ DOMAIN register \subseteq Names
      /\ \A n \in DOMAIN register : register[n] \in Channels
  BY <1>1, <1>3 DEF InitialRegister, RegisterPriority, Channels
<1>8. Owned
  BY <1>3, <1>5, <1>6 DEF Owned, Active
<1>9. Len(queue) = 0 /\ queue \in Seq(FrameEvents \cup FinishedEvents)
  BY <1>1
<1>10. QED
  BY <1>1, <1>4, <1>5, <1>6, <1>7, <1>8, <1>9, BoundsAreNat
  DEF IInv, TypeOK, CoreInv, Base, QueueInv, EmitsInTime

-----------------------------------------------------------------------------
(* Aborting effects sets their flag and changes nothing else of them.      *)
LEMMA AbortFields ==
  ASSUME effects \in [Effects -> EffectState], NEW victims
  PROVE  LET fx == Abort(effects, victims)
         IN /\ fx \in [Effects -> EffectState]
            /\ \A e \in Effects :
                   /\ fx[e].phase = effects[e].phase
                   /\ fx[e].priority = effects[e].priority
                   /\ fx[e].timeout = effects[e].timeout
                   /\ fx[e].remaining = effects[e].remaining
                   /\ e \notin victims => fx[e].abort = effects[e].abort
                   /\ e \in victims => fx[e].abort = TRUE
<1> DEFINE fx == Abort(effects, victims)
<1>1. \A e \in Effects : fx[e] = IF e \in victims THEN [effects[e] EXCEPT !.abort = TRUE] ELSE effects[e]
  BY DEF Abort
<1>2. \A e \in Effects : effects[e] \in EffectState
  OBVIOUS
<1>3. fx = [e \in Effects |-> fx[e]]
  BY DEF Abort
<1> HIDE DEF fx
<1>4. \A e \in Effects :
          /\ fx[e] \in EffectState
          /\ fx[e].phase = effects[e].phase
          /\ fx[e].priority = effects[e].priority
          /\ fx[e].timeout = effects[e].timeout
          /\ fx[e].remaining = effects[e].remaining
          /\ e \notin victims => fx[e].abort = effects[e].abort
          /\ e \in victims => fx[e].abort = TRUE
  BY <1>1, <1>2 DEF EffectState
<1>5. QED
  BY <1>3, <1>4 DEF fx

LEMMA QueueTail ==
  ASSUME NEW q \in Seq(Events), NEW fx, QueueInv(q, fx), q # <<>>
  PROVE  /\ Head(q) = q[1] /\ q[1] \in Events
         /\ Tail(q) \in Seq(Events) /\ QueueInv(Tail(q), fx)
         /\ q[1].kind = "finished" =>
                /\ fx[q[1].effect].phase = "returned"
                /\ \A i \in 1 .. Len(Tail(q)) : Tail(q)[i].effect # q[1].effect
         /\ q[1].kind = "setColors" =>
                /\ q[1].priority \in Priorities
                /\ fx[q[1].effect].phase # "new"
                /\ fx[q[1].effect].timeout > 0 => q[1].timeout > 0
<1>1. /\ Len(q) \in Nat /\ 1 \in 1 .. Len(q) /\ Head(q) = q[1] /\ q[1] \in Events
      /\ Tail(q) \in Seq(Events) /\ Len(Tail(q)) = Len(q) - 1
      /\ \A i \in 1 .. Len(Tail(q)) : Tail(q)[i] = q[i + 1] /\ i + 1 \in 2 .. Len(q)
  OBVIOUS
<1>2. ASSUME NEW i \in 1 .. Len(Tail(q)), q[i + 1].kind = "finished",
             NEW j \in 1 .. Len(Tail(q)), j > i
      PROVE  q[j + 1].effect # q[i + 1].effect
  <2>1. i + 1 \in 1 .. Len(q) /\ j + 1 \in 1 .. Len(q) /\ j + 1 > i + 1
    BY <1>1, <1>2
  <2>2. QED
    BY <1>2, <2>1 DEF QueueInv
<1>3. QueueInv(Tail(q), fx)
  <2>1. SUFFICES ASSUME NEW i \in 1 .. Len(Tail(q))
                 PROVE  /\ fx[q[i + 1].effect].phase \notin {"new", "deleted"}
                        /\ q[i + 1].kind = "finished" => fx[q[i + 1].effect].phase = "returned"
                        /\ q[i + 1].kind = "setColors" =>
                               /\ q[i + 1].priority \in Priorities
                               /\ fx[q[i + 1].effect].timeout > 0 => q[i + 1].timeout > 0
    BY <1>1, <1>2 DEF QueueInv
  <2>2. i + 1 \in 1 .. Len(q)
    BY <1>1
  <2>3. QED
    BY <2>2 DEF QueueInv
<1>4. ASSUME q[1].kind = "finished", NEW i \in 1 .. Len(Tail(q))
      PROVE  Tail(q)[i].effect # q[1].effect
  <2>1. i + 1 \in 1 .. Len(q) /\ i + 1 > 1
    BY <1>1
  <2>2. QED
    BY <1>1, <1>4, <2>1 DEF QueueInv
<1>5. QED
  BY <1>1, <1>3, <1>4 DEF QueueInv

LEMMA QueueByPhase ==
  ASSUME NEW q, NEW fx, NEW gx, QueueInv(q, fx),
         \A i \in 1 .. Len(q) : /\ gx[q[i].effect].phase = fx[q[i].effect].phase
                                /\ gx[q[i].effect].timeout = fx[q[i].effect].timeout
  PROVE  QueueInv(q, gx)
BY DEF QueueInv

LEMMA QueueAppend ==
  ASSUME NEW q \in Seq(Events), NEW fx, QueueInv(q, fx), NEW event \in Events,
         fx[event.effect].phase \notin {"new", "deleted"},
         \A i \in 1 .. Len(q) : q[i].kind = "finished" => q[i].effect # event.effect,
         event.kind = "finished" => fx[event.effect].phase = "returned",
         event.kind = "setColors" => /\ event.priority \in Priorities
                                     /\ fx[event.effect].timeout > 0 => event.timeout > 0
  PROVE  Append(q, event) \in Seq(Events) /\ QueueInv(Append(q, event), fx)
<1> DEFINE r == Append(q, event)
<1>1. /\ r \in Seq(Events) /\ Len(r) = Len(q) + 1 /\ Len(q) \in Nat
      /\ r[Len(q) + 1] = event
      /\ \A i \in 1 .. Len(q) : r[i] = q[i]
  OBVIOUS
<1> HIDE DEF r
<1>2. ASSUME NEW i \in 1 .. Len(r)
      PROVE  /\ fx[r[i].effect].phase \notin {"new", "deleted"}
             /\ r[i].kind = "finished" =>
                    /\ fx[r[i].effect].phase = "returned"
                    /\ \A j \in 1 .. Len(r) : j > i => r[j].effect # r[i].effect
             /\ r[i].kind = "setColors" =>
                    /\ r[i].priority \in Priorities
                    /\ fx[r[i].effect].timeout > 0 => r[i].timeout > 0
  <2>1. CASE i = Len(q) + 1
    BY <1>1, <2>1
  <2>2. CASE i \in 1 .. Len(q)
    <3>1. ASSUME r[i].kind = "finished", NEW j \in 1 .. Len(r), j > i
          PROVE  r[j].effect # r[i].effect
      <4>1. CASE j = Len(q) + 1
        BY <1>1, <2>2, <3>1, <4>1
      <4>2. CASE j \in 1 .. Len(q)
        BY <1>1, <2>2, <3>1, <4>2 DEF QueueInv
      <4>3. QED
        BY <1>1, <4>1, <4>2
    <3>2. QED
      BY <1>1, <2>2, <3>1 DEF QueueInv
  <2>3. QED
    BY <1>1, <2>1, <2>2
<1>3. QED
  BY <1>1, <1>2 DEF QueueInv, r

(* What a client's request for channel p does: the effects on it are asked *)
(* to end, and the core takes the request.                                 *)
LEMMA RequestInv ==
  ASSUME IInv, NEW p \in Priorities, NEW who \in {Client, Nobody},
         effects' = ChannelCleared(p), owner' = [owner EXCEPT ![p] = who],
         CoreInv(core', effects), UNCHANGED <<queue, register, now>>
  PROVE  IInv'
<1>1. /\ effects' \in [Effects -> EffectState]
      /\ \A e \in Effects :
             /\ effects'[e].phase = effects[e].phase
             /\ effects'[e].priority = effects[e].priority
             /\ effects'[e].timeout = effects[e].timeout
             /\ effects'[e].remaining = effects[e].remaining
             /\ e \notin ActiveOn(p) => effects'[e].abort = effects[e].abort
             /\ e \in ActiveOn(p) => effects'[e].abort = TRUE
  BY AbortFields DEF IInv, TypeOK, ChannelCleared
<1>2. owner' \in [Priorities -> Effects \cup {Client, Nobody}]
      /\ \A q \in Priorities : q # p => owner'[q] = owner[q]
  BY DEF IInv, TypeOK
<1>3. Owned'
  BY <1>1, <1>2 DEF IInv, Owned, Active, ActiveOn
<1>4. TypeOK'
  BY <1>1, <1>2 DEF IInv, TypeOK, CoreInv, Base
<1>5. \A i \in 1 .. Len(queue) : queue[i].effect \in Effects
  BY DEF IInv, TypeOK, FrameEvents, FinishedEvents
<1>6. QueueInv(queue', effects') /\ EmitsInTime'
  BY <1>1, <1>5, QueueByPhase DEF IInv, EmitsInTime
<1>7. Drawn(Contents(core'.mux), effects')
  BY <1>1, DrawnByAnyPhase DEF CoreInv
<1>8. QED
  BY <1>3, <1>4, <1>6, <1>7 DEF IInv, CoreInv

LEMMA ClientSetsColorsInv ==
  ASSUME Lowest \notin Priorities, IInv, NEW p \in Priorities, NEW timeout \in ClientTimeouts,
         ClientSetsColors(p, timeout)
  PROVE  IInv'
<1>1. /\ ClientColor \in Colors /\ ClientColor \notin Effects
      /\ COMP_COLOR \in Components /\ timeout \in Nat /\ now \in Nat
      /\ CoreInv(core, effects)
  BY EffectsDraw, TimeoutsAreNat, BoundsAreNat DEF Components, IInv, TypeOK, CoreInv
<1>2. CoreInv(core', effects)
  BY <1>1, SetColorsCore DEF ClientSetsColors
<1>3. QED
  BY <1>2, RequestInv DEF ClientSetsColors

LEMMA ClientClearsInv ==
  ASSUME IInv, NEW p \in Priorities, ClientClears(p)
  PROVE  IInv'
<1>1. now \in Nat /\ CoreInv(core, effects) /\ p \in Channels
  BY BoundsAreNat DEF IInv, TypeOK, CoreInv, Channels
<1>2. CoreInv(core', effects)
  BY <1>1, ClearCore DEF ClientClears
<1>3. QED
  BY <1>2, RequestInv DEF ClientClears

LEMMA ClientClearsAllInv ==
  ASSUME IInv, ClientClearsAll
  PROVE  IInv'
<1>1. now \in Nat /\ CoreInv(core, effects)
  BY BoundsAreNat DEF IInv, TypeOK, CoreInv
<1>2. CoreInv(core', effects)
  BY <1>1, ClearAllCore DEF ClientClearsAll
<1>3. /\ effects' \in [Effects -> EffectState]
      /\ \A e \in Effects :
             /\ effects'[e].phase = effects[e].phase
             /\ effects'[e].priority = effects[e].priority
             /\ effects'[e].timeout = effects[e].timeout
             /\ effects'[e].remaining = effects[e].remaining
             /\ Active(e) => effects'[e].abort = TRUE
  BY AbortFields DEF IInv, TypeOK, ClientClearsAll, AllChannelsCleared
<1>4. TypeOK'
  BY <1>2, <1>3 DEF IInv, TypeOK, CoreInv, Base, ClientClearsAll
<1>5. \A i \in 1 .. Len(queue) : queue[i].effect \in Effects
  BY DEF IInv, TypeOK, FrameEvents, FinishedEvents
<1>6. Owned' /\ EmitsInTime'
  BY <1>3 DEF IInv, Owned, EmitsInTime, Active
<1>7. QueueInv(queue', effects')
  BY <1>3, <1>5, QueueByPhase DEF IInv, ClientClearsAll
<1>8. Drawn(Contents(core'.mux), effects')
  BY <1>2, <1>3, DrawnByAnyPhase DEF CoreInv
<1>9. QED
  BY <1>2, <1>4, <1>6, <1>7, <1>8 DEF IInv, CoreInv

LEMMA RunEffectInv ==
  ASSUME IInv, NEW e \in Effects, NEW name \in Names, NEW p \in Priorities,
         NEW timeout \in EffectTimeouts, RunEffect(e, name, p, timeout)
  PROVE  IInv'
<1> DEFINE fx == ChannelCleared(p)
<1>1. /\ fx \in [Effects -> EffectState]
      /\ \A d \in Effects :
             /\ fx[d].phase = effects[d].phase
             /\ fx[d].priority = effects[d].priority
             /\ fx[d].timeout = effects[d].timeout
             /\ fx[d].remaining = effects[d].remaining
             /\ d \notin ActiveOn(p) => fx[d].abort = effects[d].abort
             /\ d \in ActiveOn(p) => fx[d].abort = TRUE
  BY AbortFields DEF IInv, TypeOK, ChannelCleared
<1>2. NewEffect(name, p, timeout) \in EffectState
  BY TimeoutsAreNat DEF NewEffect, EffectState, Phases, Channels
<1> HIDE DEF fx
<1>3. /\ effects' \in [Effects -> EffectState]
      /\ effects'[e] = NewEffect(name, p, timeout)
      /\ \A d \in Effects : d # e => effects'[d] = fx[d]
  BY <1>1, <1>2 DEF RunEffect, fx
<1>4. effects[e].phase = "new" /\ UNCHANGED <<core, queue, now>>
  BY DEF RunEffect
<1>5. /\ owner' \in [Priorities -> Effects \cup {Client, Nobody}]
      /\ owner'[p] = e
      /\ \A q \in Priorities : q # p => owner'[q] = owner[q]
  BY DEF IInv, TypeOK, RunEffect
<1>6. /\ DOMAIN register' \subseteq Names
      /\ \A n \in DOMAIN register' : register'[n] \in Channels
  BY DEF IInv, TypeOK, RunEffect, RegisterPriority, Channels
<1>7. TypeOK'
  BY <1>3, <1>4, <1>5, <1>6 DEF IInv, TypeOK
<1>8. Owned'
  BY <1>1, <1>3, <1>5 DEF IInv, Owned, Active, ActiveOn, NewEffect
<1>9. \A i \in 1 .. Len(queue) : queue[i].effect \in Effects \ {e}
  BY <1>4 DEF IInv, TypeOK, FrameEvents, FinishedEvents, QueueInv
<1>10. QueueInv(queue', effects')
  BY <1>1, <1>3, <1>4, <1>9, QueueByPhase DEF IInv
<1>11. EmitsInTime'
  BY <1>1, <1>3 DEF IInv, EmitsInTime, NewEffect
<1>12. Drawn(Contents(core'.mux), effects')
  <2>1. \A d \in Effects : effects[d].phase # "new" =>
            effects'[d].phase # "new" /\ effects'[d].timeout = effects[d].timeout
    BY <1>1, <1>3, <1>4
  <2>2. QED
    BY <1>4, <2>1, DrawnByAnyPhase DEF IInv
<1>13. QED
  BY <1>4, <1>7, <1>8, <1>10, <1>11, <1>12 DEF IInv

LEMMA DeliverFrameInv ==
  ASSUME Lowest \notin Priorities, IInv, DeliverFrame
  PROVE  IInv'
<1> DEFINE event == queue[1]
<1>1. /\ Head(queue) = event /\ event \in Events /\ event.kind = "setColors"
      /\ queue' \in Seq(Events) /\ QueueInv(queue', effects)
      /\ event.priority \in Priorities
      /\ effects[event.effect].phase # "new"
      /\ effects[event.effect].timeout > 0 => event.timeout > 0
  BY QueueTail DEF DeliverFrame, IInv, TypeOK, Events
<1>2. /\ core' = SetColors(core, event.priority, event.effect, event.timeout, COMP_EFFECT, now)
      /\ UNCHANGED <<effects, register, now, owner>>
  BY <1>1 DEF DeliverFrame
<1>3. event.effect \in Effects /\ event.timeout \in Nat
  BY <1>1 DEF Events, FrameEvents, FinishedEvents
<1>4. CoreInv(core', effects)
  <2>1. /\ event.effect \in Colors /\ COMP_EFFECT \in Components /\ now \in Nat
        /\ CoreInv(core, effects)
    BY <1>3, EffectsDraw, BoundsAreNat DEF Components, IInv, TypeOK, CoreInv
  <2>2. QED
    BY <1>1, <1>2, <1>3, <2>1, SetColorsCore
<1> HIDE DEF event
<1>5. TypeOK'
  BY <1>1, <1>2, <1>4 DEF IInv, TypeOK, CoreInv, Base, Events
<1>6. Owned' /\ EmitsInTime'
  BY <1>2 DEF IInv, Owned, Active, EmitsInTime
<1>7. QED
  BY <1>1, <1>2, <1>4, <1>5, <1>6 DEF IInv, CoreInv

LEMMA DeliverFinishedInv ==
  ASSUME IInv, DeliverFinished
  PROVE  IInv'
<1> DEFINE e  == queue[1].effect
           p  == effects[e].priority
           fx == IF FinishedClears(e) THEN ChannelCleared(p) ELSE effects
<1>1. /\ Head(queue) = queue[1] /\ queue[1] \in Events
      /\ queue' \in Seq(Events) /\ QueueInv(queue', effects)
      /\ effects[e].phase = "returned"
      /\ \A i \in 1 .. Len(queue') : queue'[i].effect # e
  BY QueueTail DEF DeliverFinished, IInv, TypeOK, Events
<1>2. e \in Effects /\ Active(e) /\ p \in Priorities
  BY <1>1 DEF Active, IInv, Owned, Events, FinishedEvents, FrameEvents
<1>3. \A i \in 1 .. Len(queue') : queue'[i].effect \in Effects \ {e}
  BY <1>1 DEF Events, FrameEvents, FinishedEvents
<1>4. /\ effects' = Retire(fx, e)
      /\ FinishedClears(e) =>
             core' = Clear(core, p, now) /\ owner' = [owner EXCEPT ![p] = Nobody]
      /\ ~FinishedClears(e) => UNCHANGED <<core, owner>>
      /\ register' = UnRegisterPriority(register, effects[e].name)
      /\ now' = now
  BY <1>1 DEF DeliverFinished
<1>5. /\ fx \in [Effects -> EffectState]
      /\ \A d \in Effects :
             /\ fx[d].phase = effects[d].phase
             /\ fx[d].priority = effects[d].priority
             /\ fx[d].timeout = effects[d].timeout
             /\ fx[d].remaining = effects[d].remaining
             /\ effects[d].abort => fx[d].abort
             /\ (FinishedClears(e) /\ d \in ActiveOn(p)) => fx[d].abort
  <2>1. CASE FinishedClears(e)
    <3>1. fx = Abort(effects, ActiveOn(p))
      BY <2>1 DEF ChannelCleared
    <3>2. effects \in [Effects -> EffectState]
      BY DEF IInv, TypeOK
    <3> HIDE DEF fx, e, p
    <3>3. QED
      BY <2>1, <3>1, <3>2, AbortFields
  <2>2. CASE ~FinishedClears(e)
    BY <2>2 DEF IInv, TypeOK
  <2>3. QED
    BY <2>1, <2>2
<1> HIDE DEF fx
<1>6. /\ effects' \in [Effects -> EffectState]
      /\ effects'[e].phase = "deleted" /\ effects'[e].timeout = fx[e].timeout
      /\ \A d \in Effects : d # e => effects'[d] = fx[d]
  BY <1>2, <1>4, <1>5 DEF Retire, EffectState, Phases
<1>7. CoreInv(core', effects)
  <2>1. CoreInv(core, effects) /\ now \in Nat /\ p \in Channels
    BY <1>2, BoundsAreNat DEF IInv, TypeOK, CoreInv, Channels
  <2>2. QED
    BY <1>4, <2>1, ClearCore
<1>8. /\ owner' \in [Priorities -> Effects \cup {Client, Nobody}]
      /\ \A q \in Priorities : owner'[q] = owner[q] \/ (q = p /\ FinishedClears(e))
  BY <1>2, <1>4 DEF IInv, TypeOK
<1> HIDE DEF e, p
<1>9. TypeOK'
  <2>1. DOMAIN register' \subseteq DOMAIN register
        /\ \A name \in DOMAIN register' : register'[name] = register[name]
    BY <1>4 DEF UnRegisterPriority, Restrict
  <2>2. QED
    BY <1>1, <1>4, <1>6, <1>7, <1>8, <2>1 DEF IInv, TypeOK, CoreInv, Base, Events
<1>10. Owned'
  <2>1. SUFFICES ASSUME NEW d \in Effects, Active(d)'
                 PROVE  /\ effects'[d].priority \in Priorities
                        /\ ~effects'[d].abort => owner'[effects'[d].priority] = d
    BY DEF Owned
  <2>2. d # e /\ effects'[d] = fx[d] /\ Active(d)
    BY <1>5, <1>6, <2>1 DEF Active
  <2>3. effects[d].priority \in Priorities
    BY <2>2 DEF IInv, Owned
  <2>4. ASSUME ~effects'[d].abort PROVE owner'[effects[d].priority] = d
    <3>1. owner[effects[d].priority] = d
      BY <1>5, <2>2, <2>4 DEF IInv, Owned
    <3>2. ~(effects[d].priority = p /\ FinishedClears(e))
      BY <1>5, <2>2, <2>4 DEF ActiveOn
    <3>3. QED
      BY <1>8, <2>3, <3>1, <3>2
  <2>5. QED
    BY <1>5, <2>2, <2>3, <2>4
<1>11. QueueInv(queue', effects')
  BY <1>1, <1>3, <1>5, <1>6, QueueByPhase
<1>12. EmitsInTime'
  BY <1>5, <1>6 DEF IInv, EmitsInTime
<1>13. Drawn(Contents(core'.mux), effects')
  <2>1. \A d \in Effects : effects[d].phase # "new" =>
            effects'[d].phase # "new" /\ effects'[d].timeout = effects[d].timeout
    BY <1>5, <1>6
  <2>2. QED
    BY <1>7, <2>1, DrawnByAnyPhase DEF CoreInv
<1>14. QED
  BY <1>7, <1>9, <1>10, <1>11, <1>12, <1>13 DEF IInv, CoreInv

LEMMA TimerFiresInv ==
  ASSUME IInv, TimerFires
  PROVE  IInv'
<1>1. CoreInv(core', effects)
  <2>1. CoreInv(core, effects) /\ now \in Nat
    BY BoundsAreNat DEF IInv, TypeOK, CoreInv
  <2>2. QED
    BY <2>1, TimeoutCore DEF TimerFires
<1>2. QED
  BY <1>1 DEF TimerFires, IInv, TypeOK, CoreInv, Base, Owned, EmitsInTime, Active

LEMMA TickInv ==
  ASSUME IInv, Tick
  PROVE  IInv'
<1>1. CoreInv(core', effects)
  BY ElapseCore DEF Tick, IInv, CoreInv
<1>2. now' \in 0 .. MaxTime
  <2>1. now + 1 \in Nat /\ MaxTime \in Nat
    BY BoundsAreNat DEF IInv, TypeOK
  <2>2. Min({now + 1, MaxTime}) \in {now + 1, MaxTime}
        /\ Min({now + 1, MaxTime}) <= MaxTime
    BY <2>1, MinOfNats
  <2>3. QED
    BY <2>1, <2>2 DEF Tick
<1>3. QED
  BY <1>1, <1>2 DEF Tick, IInv, TypeOK, CoreInv, Base, Owned, EmitsInTime, Active

-----------------------------------------------------------------------------
(* A step of an effect's thread changes the phase of its own effect only;  *)
(* what is left to show is what it does to the queue.                      *)
LEMMA ThreadInv ==
  ASSUME IInv, NEW e \in Effects, Active(e),
         effects' = [effects EXCEPT ![e] = effects'[e]], effects'[e] \in EffectState,
         effects'[e].phase \in {"script", "emitting", "returned"},
         effects'[e].timeout = effects[e].timeout,
         effects'[e].priority = effects[e].priority,
         effects[e].abort => effects'[e].abort,
         (effects'[e].phase = "emitting" /\ effects'[e].timeout > 0)
             => effects'[e].remaining > 0,
         UNCHANGED <<core, register, now, owner>>,
         queue' \in Seq(Events), QueueInv(queue', effects')
  PROVE  IInv'
<1>1. /\ effects' \in [Effects -> EffectState]
      /\ \A d \in Effects : d # e => effects'[d] = effects[d]
  BY DEF IInv, TypeOK
<1>2. TypeOK'
  BY <1>1 DEF IInv, TypeOK, Events
<1>3. Owned' /\ EmitsInTime'
  BY <1>1 DEF IInv, Owned, EmitsInTime, Active
<1>4. Drawn(Contents(core'.mux), effects')
  <2>1. \A d \in Effects : effects[d].phase # "new" =>
            effects'[d].phase # "new" /\ effects'[d].timeout = effects[d].timeout
    BY <1>1
  <2>2. QED
    BY <2>1, DrawnByAnyPhase DEF IInv
<1>5. QED
  BY <1>2, <1>3, <1>4 DEF IInv

(* An effect whose thread has not returned has no finished signal queued.  *)
LEMMA NotFinished ==
  ASSUME IInv, NEW e \in Effects, effects[e].phase # "returned"
  PROVE  \A i \in 1 .. Len(queue) : queue[i].kind = "finished" => queue[i].effect # e
BY DEF IInv, QueueInv

(* The queue does not mind an effect that goes on.                         *)
LEMMA ThreadQueue ==
  ASSUME IInv, NEW e \in Effects, effects[e].phase # "returned",
         effects' = [effects EXCEPT ![e] = effects'[e]],
         effects'[e].phase \in {"script", "emitting", "returned"},
         effects'[e].timeout = effects[e].timeout
  PROVE  QueueInv(queue, effects')
<1>1. \A d \in Effects : d # e => effects'[d] = effects[d]
  BY DEF IInv, TypeOK
<1>2. effects'[e].phase \notin {"new", "deleted"}
  OBVIOUS
<1>3. \A i \in 1 .. Len(queue) : queue[i].effect \in Effects
  BY DEF IInv, TypeOK, FrameEvents, FinishedEvents
<1>4. QED
  BY <1>1, <1>2, <1>3, NotFinished DEF IInv, QueueInv

LEMMA ThreadStartsInv ==
  ASSUME IInv, NEW e \in Effects, ThreadStarts(e)
  PROVE  IInv'
<1>1. effects[e] \in EffectState /\ effects[e].phase = "starting" /\ now \in Nat
  BY BoundsAreNat DEF IInv, TypeOK, ThreadStarts
<1>2. /\ effects' = [effects EXCEPT ![e] = effects'[e]]
      /\ effects'[e] \in EffectState
      /\ effects'[e].phase = "script"
      /\ effects'[e].timeout = effects[e].timeout
      /\ effects'[e].priority = effects[e].priority
      /\ effects'[e].abort = effects[e].abort
  <2> DEFINE end == IF effects[e].timeout > 0 THEN now + effects[e].timeout ELSE 0
  <2>1. end \in Nat
    BY <1>1 DEF EffectState
  <2>2. effects' = [effects EXCEPT ![e].phase = "script", ![e].endTime = end]
    BY DEF ThreadStarts
  <2> HIDE DEF end
  <2>3. effects'[e] = [effects[e] EXCEPT !.phase = "script", !.endTime = end]
    BY <2>2 DEF IInv, TypeOK
  <2>4. effects' = [effects EXCEPT ![e] = effects'[e]]
    BY <2>2, <2>3
  <2>5. QED
    BY <1>1, <2>1, <2>3, <2>4 DEF EffectState, Phases
<1>3. QueueInv(queue', effects') /\ queue' \in Seq(Events)
  BY <1>1, <1>2, ThreadQueue DEF ThreadStarts, IInv, TypeOK, Events
<1>4. QED
  BY <1>1, <1>2, <1>3, ThreadInv DEF ThreadStarts, Active

LEMMA ThreadDrawsInv ==
  ASSUME IInv, NEW e \in Effects, NEW may, may => InTime(e), ThreadDraws(e, may)
  PROVE  IInv'
<1>1. /\ effects[e] \in EffectState /\ effects[e].phase = "script" /\ now \in Nat
      /\ effects[e].timeout > 0 => TimeLeft(e) \in Nat /\ TimeLeft(e) > 0
  BY BoundsAreNat DEF IInv, TypeOK, ThreadDraws, InTime, TimeLeft, EffectState
<1>2. /\ effects' = [effects EXCEPT ![e] = effects'[e]]
      /\ effects'[e] \in EffectState
      /\ effects'[e].phase = "emitting"
      /\ effects'[e].timeout = effects[e].timeout
      /\ effects'[e].priority = effects[e].priority
      /\ effects'[e].abort = effects[e].abort
      /\ effects[e].timeout > 0 => effects'[e].remaining = TimeLeft(e)
  BY <1>1 DEF IInv, TypeOK, ThreadDraws, EffectState, Phases
<1>3. QueueInv(queue', effects') /\ queue' \in Seq(Events)
  BY <1>1, <1>2, ThreadQueue DEF ThreadDraws, IInv, TypeOK, Events
<1>4. QED
  BY <1>1, <1>2, <1>3, ThreadInv DEF ThreadDraws, Active

LEMMA ThreadEmitsInv ==
  ASSUME IInv, NEW e \in Effects, ThreadEmits(e)
  PROVE  IInv'
<1> DEFINE event == [kind |-> "setColors", effect |-> e, priority |-> effects[e].priority,
                     timeout |-> effects[e].remaining]
<1>1. /\ effects[e] \in EffectState /\ effects[e].phase = "emitting" /\ Active(e)
      /\ effects[e].priority \in Priorities
      /\ effects[e].timeout > 0 => effects[e].remaining > 0
  BY DEF IInv, TypeOK, ThreadEmits, Owned, EmitsInTime, Active
<1>2. /\ effects' = [effects EXCEPT ![e] = effects'[e]]
      /\ effects'[e] \in EffectState
      /\ effects'[e].phase = "script"
      /\ effects'[e].timeout = effects[e].timeout
      /\ effects'[e].priority = effects[e].priority
      /\ effects'[e].abort = effects[e].abort
  BY <1>1 DEF IInv, TypeOK, ThreadEmits, EffectState, Phases
<1>3. event \in Events
  BY <1>1 DEF Events, FrameEvents, EffectState
<1>4. QueueInv(queue, effects')
  BY <1>1, <1>2, ThreadQueue
<1>5. queue' = Append(queue, event) /\ queue \in Seq(Events)
  BY DEF ThreadEmits, IInv, TypeOK, Events
<1>6. QueueInv(queue', effects') /\ queue' \in Seq(Events)
  <2>1. \A i \in 1 .. Len(queue) : queue[i].kind = "finished" => queue[i].effect # e
    BY <1>1, NotFinished
  <2>2. /\ event.effect = e /\ event.kind = "setColors"
        /\ event.priority \in Priorities /\ event.timeout = effects[e].remaining
    BY <1>1
  <2> HIDE DEF event
  <2>3. QED
    BY <1>1, <1>2, <1>3, <1>4, <1>5, <2>1, <2>2, QueueAppend
<1>7. QED
  BY <1>1, <1>2, <1>6, ThreadInv DEF ThreadEmits

LEMMA ThreadPollsAbortInv ==
  ASSUME IInv, NEW e \in Effects, ThreadPollsAbort(e)
  PROVE  IInv'
<1>1. effects[e] \in EffectState /\ effects[e].phase = "script"
  BY DEF IInv, TypeOK, ThreadPollsAbort
<1>2. /\ effects' = [effects EXCEPT ![e] = effects'[e]]
      /\ effects'[e] \in EffectState
      /\ effects'[e].phase = "script"
      /\ effects'[e].timeout = effects[e].timeout
      /\ effects'[e].priority = effects[e].priority
      /\ effects'[e].abort = TRUE
  BY <1>1 DEF IInv, TypeOK, ThreadPollsAbort, EffectState
<1>3. QueueInv(queue', effects') /\ queue' \in Seq(Events)
  BY <1>1, <1>2, ThreadQueue DEF ThreadPollsAbort, IInv, TypeOK, Events
<1>4. QED
  BY <1>1, <1>2, <1>3, ThreadInv DEF ThreadPollsAbort, Active

LEMMA ThreadReturnsInv ==
  ASSUME IInv, NEW e \in Effects, ThreadReturns(e)
  PROVE  IInv'
<1> DEFINE event == [kind |-> "finished", effect |-> e]
<1>1. effects[e] \in EffectState /\ effects[e].phase = "script"
  BY DEF IInv, TypeOK, ThreadReturns
<1>2. /\ effects' = [effects EXCEPT ![e] = effects'[e]]
      /\ effects'[e] \in EffectState
      /\ effects'[e].phase = "returned"
      /\ effects'[e].timeout = effects[e].timeout
      /\ effects'[e].priority = effects[e].priority
      /\ effects'[e].abort = effects[e].abort
  BY <1>1 DEF IInv, TypeOK, ThreadReturns, EffectState, Phases
<1>3. QueueInv(queue, effects')
  BY <1>1, <1>2, ThreadQueue
<1>4. /\ queue' = Append(queue, event) /\ queue \in Seq(Events)
      /\ event \in Events /\ event.effect = e /\ event.kind = "finished"
  BY DEF ThreadReturns, IInv, TypeOK, Events, FinishedEvents
<1> HIDE DEF event
<1>5. \A i \in 1 .. Len(queue) : queue[i].kind = "finished" => queue[i].effect # e
  BY <1>1, NotFinished
<1>6. QueueInv(queue', effects') /\ queue' \in Seq(Events)
  BY <1>2, <1>3, <1>4, <1>5, QueueAppend
<1>7. QED
  BY <1>1, <1>2, <1>6, ThreadInv DEF ThreadReturns, Active

-----------------------------------------------------------------------------
LEMMA NextInv ==
  ASSUME Lowest \notin Priorities, IInv, [Next]_vars
  PROVE  IInv'
<1>1. CASE MainThread
  BY <1>1, RunEffectInv, ClientSetsColorsInv, ClientClearsInv, ClientClearsAllInv,
     DeliverFrameInv, DeliverFinishedInv, TimerFiresInv DEF MainThread
<1>2. ASSUME NEW e \in Effects, EffectThread(e) PROVE IInv'
  <2>1. CASE ThreadSetsColor(e)
    BY <2>1, ThreadDrawsInv DEF ThreadSetsColor, MaySetColor
  <2>2. CASE ThreadShowsImage(e)
    BY <2>2, ThreadDrawsInv DEF ThreadShowsImage, MayShowImage
  <2>3. QED
    BY <1>2, <2>1, <2>2, ThreadStartsInv, ThreadEmitsInv, ThreadPollsAbortInv, ThreadReturnsInv
    DEF EffectThread
<1>3. CASE UNCHANGED vars
  BY <1>3 DEF vars, IInv, TypeOK, Owned, EmitsInTime, Active
<1>4. QED
  BY <1>1, <1>2, <1>3, TickInv DEF Next

(* The effects, their threads, the events that wait for the main thread    *)
(* and the owners of the channels always satisfy the inductive invariant.  *)
THEOREM EffectsInv == ASSUME Lowest \notin Priorities PROVE Spec => []IInv
<1>1. Init => IInv
  BY InitInv
<1>2. IInv /\ [Next]_vars => IInv'
  BY NextInv
<1>3. QED
  BY <1>1, <1>2, PTL DEF Spec

(* The core, the effects, the event queue and the register keep their      *)
(* types, and no slot of the core throws.                                  *)
THEOREM TypeCorrect ==
  ASSUME Lowest \notin Priorities PROVE Spec => [](TypeOK /\ core.status # "terminated")
<1>1. IInv => TypeOK /\ core.status # "terminated"
  BY DEF IInv, Base
<1>2. QED
  BY <1>1, EffectsInv, PTL

(* effectFinished clears the channel of an effect that ended by itself:    *)
(* whatever was asked of that channel since the effect started has set its *)
(* abort flag, so the channel is still its own.                            *)
THEOREM FinishClearsOnlyOwn ==
  ASSUME Lowest \notin Priorities PROVE Spec => []FinishClearsOwnChannel
<1>1. IInv => FinishClearsOwnChannel
  BY DEF IInv, Owned, FinishClearsOwnChannel
<1>2. QED
  BY <1>1, EffectsInv, PTL

(* The time left that a drawing call passes on is never the 0 that         *)
(* setColors takes for endless, however long the frame waits in the queue. *)
THEOREM TimedEffectsDoTimeOut ==
  ASSUME Lowest \notin Priorities PROVE Spec => []TimedEffectsTimeOut
<1>1. IInv => TimedEffectsTimeOut
  BY DEF IInv, Drawn, Contents, Content, TimedEffectsTimeOut
<1>2. QED
  BY <1>1, EffectsInv, PTL

(* effectFinished deletes the Effect: no event of it is left in the queue. *)
THEOREM NothingIsAfterFinished ==
  ASSUME Lowest \notin Priorities PROVE Spec => []NothingAfterFinished
<1>1. IInv => NothingAfterFinished
  <2>1. SUFFICES ASSUME IInv, NEW i \in DOMAIN queue
                 PROVE  /\ Active(queue[i].effect)
                        /\ queue[i].kind = "setColors" =>
                               \A j \in 1 .. i :
                                   queue[j] # [kind |-> "finished", effect |-> queue[i].effect]
    BY DEF NothingAfterFinished
  <2>2. i \in 1 .. Len(queue) /\ Len(queue) \in Nat
    BY <2>1 DEF IInv, TypeOK
  <2>3. Active(queue[i].effect)
    BY <2>1, <2>2 DEF IInv, QueueInv, Active
  <2>4. ASSUME queue[i].kind = "setColors", NEW j \in 1 .. i,
               queue[j] = [kind |-> "finished", effect |-> queue[i].effect]
        PROVE  FALSE
    <3>1. queue[j].kind = "finished" /\ queue[j].effect = queue[i].effect
      BY <2>4
    <3>2. j \in 1 .. Len(queue) /\ j < i
      BY <2>2, <2>4, <3>1
    <3>3. QED
      BY <2>1, <2>2, <3>1, <3>2 DEF IInv, QueueInv
  <2>5. QED
    BY <2>3, <2>4
<1>2. QED
  BY <1>1, EffectsInv, PTL

==============================================================================
