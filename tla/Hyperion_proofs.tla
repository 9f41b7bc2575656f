--------------------------- MODULE Hyperion_proofs ---------------------------
(***************************************************************************)
(* Proofs about the Hyperion core for every set of channels and colours,   *)
(* every set of timeouts and every bound on time.  The only assumption     *)
(* beyond those of the modules is LowestStays: nobody writes to the lowest *)
(* channel with a duration.  The schema of the JSON server sees to that    *)
(* (schema-color.json: maximum 253), the other servers do not, and when it *)
(* happens the channel expires and the next lookup throws.                 *)
(***************************************************************************)
EXTENDS Hyperion, HyperionCore_proofs

-----------------------------------------------------------------------------
(* The inductive invariant of the specification.                           *)
IInv ==
    /\ now \in 0 .. MaxTime
    /\ steps \in 0 .. MaxSteps
    /\ Base(core)
    /\ UpToDate(core)
    /\ steps = 0 => OnTime(core, now)

(* The lowest channel has no deadline.                                     *)
LowestStays ==
    Lowest \in DOMAIN core.mux.inputs /\ core.mux.inputs[Lowest].timeout = Endless

LEMMA InitInv == Init => IInv
<1> SUFFICES ASSUME Init PROVE IInv
  OBVIOUS
<1>1. QED
  BY NewCoreInv, BoundsAreNat DEF Init, IInv

(* Time passing keeps a running timer running and on time.                 *)
LEMMA TickInv == IInv /\ Tick => IInv'
<1> SUFFICES ASSUME IInv, Tick PROVE IInv'
  OBVIOUS
<1> DEFINE left == core.mux.inputs[core.mux.current].timeout
<1>1. core' = [core EXCEPT !.timer = IF core.timer > 0 THEN core.timer - 1 ELSE core.timer]
  BY DEF Tick, Elapse
<1>2. core.timer \in Nat \cup {TimerOff} /\ left \in Int
  BY DEF IInv, Base, IsCore, MuxerInv, IsMuxer, InputInfo
<1>3. /\ core'.timer = IF core.timer > 0 THEN core.timer - 1 ELSE core.timer
      /\ core'.mux = core.mux /\ core'.auto = core.auto /\ core'.leds = core.leds
      /\ core'.backlight = core.backlight /\ core'.prevComp = core.prevComp
  BY <1>1 DEF IInv, Base, IsCore
<1>4. core'.timer \in Nat \cup {TimerOff} /\ (core.timer # TimerOff => core'.timer # TimerOff)
  BY <1>2, <1>3 DEF TimerOff
<1>5. Base(core)'
  BY <1>1, <1>3, <1>4 DEF IInv, Base, IsCore
<1>6. UpToDate(core)'
  BY <1>3, <1>4 DEF IInv, UpToDate
<1>7. now' \in 0 .. MaxTime /\ now' <= now + 1 /\ (now' = now \/ now' = now + 1)
  <2>1. now + 1 \in Nat /\ MaxTime \in Nat
    BY BoundsAreNat DEF IInv
  <2>2. now' \in {now + 1, MaxTime} /\ now' <= now + 1 /\ now' <= MaxTime
    BY <2>1, MinOfNats DEF Tick
  <2>3. QED
    BY <2>1, <2>2 DEF IInv
<1>8. steps' = steps
  BY DEF Tick
<1>9. ASSUME steps = 0 PROVE OnTime(core, now)'
  <2>1. OnTime(core, now)
    BY <1>9 DEF IInv
  <2>2. now \in Int /\ core.timer \in Int /\ core'.timer \in Int
    BY <1>2, <1>4 DEF IInv, TimerOff
  <2>3. /\ core.timer <= left - now => (core'.timer <= left - now' \/ core'.timer <= 0)
        /\ core.timer = 0 => core'.timer = 0
    BY <1>2, <1>3, <1>7, <2>2 DEF TimerOff
  <2>4. core'.mux.inputs[core'.mux.current].timeout = left
    BY <1>3
  <2>5. core'.auto /\ left # Endless => core'.timer # TimerOff
    BY <1>6, <2>4 DEF UpToDate
  <2>6. core'.timer <= 0 /\ core'.timer # TimerOff => core'.timer = 0
    BY <1>4 DEF TimerOff
  <2>7. QED
    BY <1>3, <2>1, <2>3, <2>4, <2>5, <2>6 DEF OnTime, TimerDue
<1>10. QED
  BY <1>5, <1>6, <1>7, <1>8, <1>9 DEF IInv

(* A client that writes to the lowest channel with a duration gives it a   *)
(* deadline.                                                               *)
LEMMA DeadlineStays ==
  ASSUME NEW h, Base(h), NEW time \in Nat, NEW color \in Colors,
         NEW timeout \in Nat \ {0}, NEW comp \in Components,
         LET m == SetColors(h, Lowest, color, timeout, comp, time).mux
         IN Lowest \in DOMAIN m.inputs /\ m.inputs[Lowest].timeout = Endless
  PROVE  FALSE
<1> DEFINE info    == [timeout |-> Deadline(timeout, time), color |-> color, comp |-> comp]
           written == [h EXCEPT !.mux = SetInput(@, Lowest, info)]
           left(m) == {p \in DOMAIN m.inputs : ~Expired(m.inputs[p], time)}
           g       == SetColors(h, Lowest, color, timeout, comp, time)
<1>1. info.timeout = time + timeout /\ info.timeout # Endless
  BY DEF Deadline, Endless
<1>2. written.mux.inputs[Lowest] = info
  BY DEF SetInput, Base, IsCore
<1> HIDE DEF info, written
<1>3. g = written \/ g = Update(written, time)
  BY DEF SetColors, info, written
<1>4. ~Expired(info, time)
  BY <1>1 DEF Expired
<1>5. CASE g = written
  BY <1>1, <1>2, <1>5
<1>6. CASE g = Update(written, time)
  <2>1. written = [written EXCEPT !.mux = written.mux]
    BY DEF written, Base, IsCore
  <2>2. g.mux = SetCurrentTime(written.mux, time)
    BY <1>6, <2>1 DEF Update, Show, written, Base, IsCore
  <2>3. g.mux.inputs[Lowest] = written.mux.inputs[Lowest]
    BY <2>2 DEF SetCurrentTime, Restrict
  <2>4. QED
    BY <1>1, <1>2, <2>3
<1>7. QED
  BY <1>3, <1>5, <1>6

LEMMA NextInv == IInv /\ LowestStays' /\ [Next]_vars => IInv'
<1> SUFFICES ASSUME IInv, LowestStays', [Next]_vars PROVE IInv'
  OBVIOUS
<1>0. now \in Nat /\ Base(core) /\ UpToDate(core)
  BY DEF IInv
<1> DEFINE Slot == /\ Kept(core', core, now)
                   /\ UNCHANGED <<now, steps>>
<1>1. ASSUME Slot PROVE IInv'
  BY <1>1 DEF IInv, Kept
<1>2. ASSUME NEW p \in Priorities, NEW color \in Colors, NEW timeout \in Timeouts,
             NEW comp \in ClientComponents, ClientSetsColors(p, color, timeout, comp)
      PROVE  IInv'
  <2>1. timeout \in Nat /\ comp \in Components
    BY TimeoutsAreNat, ClientsAreComponents
  <2>2. p = Lowest => timeout = 0
    BY <1>0, <1>2, <2>1, DeadlineStays DEF ClientSetsColors, LowestStays
  <2>3. Slot
    BY <1>0, <1>2, <2>1, <2>2, SetColorsInv DEF ClientSetsColors
  <2>4. QED
    BY <1>1, <2>3
<1>3. ASSUME NEW p \in Priorities, ClientClears(p) PROVE IInv'
  BY <1>0, <1>1, <1>3, ClearInv DEF ClientClears, Channels
<1>4. CASE ClientClearsAll
  BY <1>0, <1>1, <1>4, ClearAllInv DEF ClientClearsAll, Kept
<1>5. CASE ClientSelectsAuto
  BY <1>0, <1>1, <1>5, SelectAutoInv DEF ClientSelectsAuto, Kept
<1>6. ASSUME NEW p \in Channels, ClientSelects(p) PROVE IInv'
  BY <1>0, <1>1, <1>6, SelectInv DEF ClientSelects
<1>7. CASE AdjustmentsUpdated
  BY <1>0, <1>1, <1>7, UpdateInv DEF AdjustmentsUpdated, Kept
<1>8. CASE TimerFires
  <2>1. Base([core EXCEPT !.timer = TimerOff])
    BY <1>0 DEF Base, IsCore
  <2>2. QED
    BY <1>0, <1>1, <1>8, <2>1, UpdateInv DEF TimerFires, Timeout, Kept
<1>9. CASE Shutdown
  BY <1>0, <1>1, <1>9, FreeObjectsInv DEF Shutdown, Kept
<1>10. CASE Tick
  BY <1>10, TickInv
<1>11. ASSUME NEW time \in 0 .. MaxTime, SetClock(time) PROVE IInv'
  BY <1>11, BoundsAreNat DEF SetClock, IInv
<1>12. CASE UNCHANGED vars
  BY <1>12 DEF vars, IInv, OnTime, TimerDue
<1>13. QED
  BY <1>2, <1>3, <1>4, <1>5, <1>6, <1>7, <1>8, <1>9, <1>10, <1>11, <1>12 DEF Next

LEMMA Invariance == Spec => ([]LowestStays => []IInv)
<1>1. Init => IInv
  BY InitInv
<1>2. IInv /\ LowestStays' /\ [Next]_vars => IInv'
  BY NextInv
<1>3. QED
  BY <1>1, <1>2, PTL DEF Spec

(* Every state the core reaches is well typed, for every set of channels,  *)
(* as long as nobody gives the lowest one a deadline.                      *)
THEOREM TypeCorrect == Spec => ([]LowestStays => []TypeOK)
<1>1. IInv => TypeOK
  BY DEF IInv, Base, TypeOK
<1>2. QED
  BY <1>1, Invariance, PTL

(* As long as nobody gives the lowest channel a deadline the cached        *)
(* current priority is that of the lowest channel in use, and update()     *)
(* never looks up a channel that does not exist.                           *)
THEOREM CurrentPriorityCorrect ==
  Spec => ([]LowestStays => [](CurrentIsLowest /\ core.status # "terminated"))
<1>1. IInv => CurrentIsLowest /\ core.status # "terminated"
  BY DEF IInv, Base, MuxerInv, CurrentIsLowest
<1>2. QED
  BY <1>1, Invariance, PTL

(* In automatic selection the LEDs show what the lowest channel holds: the *)
(* conditional updates of setColors and clear are enough.                  *)
THEOREM ArbitrationCorrect == Spec => ([]LowestStays => []LedsShowCurrent)
<1>1. IInv => LedsShowCurrent
  BY DEF IInv, UpToDate, LedsShowCurrent
<1>2. QED
  BY <1>1, Invariance, PTL

(* A shown channel that times out has a running timer that is not late.    *)
THEOREM TimerCorrect == Spec => ([]LowestStays => []TimerCoversShown)
<1>1. IInv => TimerCoversShown
  BY DEF IInv, UpToDate, OnTime, TimerCoversShown
<1>2. QED
  BY <1>1, Invariance, PTL

(* The cached component never leaves the backlight in the wrong state.     *)
THEOREM BacklightCorrect == Spec => ([]LowestStays => []BacklightFollowsComponent)
<1>1. IInv => BacklightFollowsComponent
  BY DEF IInv, Base, UpToDate, BacklightFollowsComponent
<1>2. QED
  BY <1>1, Invariance, PTL

-----------------------------------------------------------------------------
(* The refinement of ChannelArbiter.  A slot that leaves the edited        *)
(* channels, but for timed ones that are gone, and one of them on the LEDs *)
(* is a Settle of the arbiter.                                             *)
LEMMA LowestShown ==
  ASSUME NEW h, Base(h), UpToDate(h), h.auto
  PROVE  /\ h.leds.channel = Min(DOMAIN h.mux.inputs)
         /\ h.leds.channel \in DOMAIN h.mux.inputs
         /\ h.leds.color = h.mux.inputs[h.leds.channel].color
<1>1. DOMAIN h.mux.inputs \in SUBSET Nat
  BY LowestIsNat, PrioritiesAreNat DEF Base, MuxerInv, IsMuxer, Channels
<1>2. /\ h.mux.current \in DOMAIN h.mux.inputs
      /\ \A p \in DOMAIN h.mux.inputs : h.mux.current <= p
  BY DEF Base, MuxerInv
<1>3. h.mux.current = Min(DOMAIN h.mux.inputs)
  BY <1>1, <1>2, MinOfNats
<1>4. QED
  BY <1>2, <1>3 DEF UpToDate

(* What the mapping of the instance makes of a core.                       *)
Display(h) == [channel |-> h.leds.channel, color |-> h.leds.color]

Settled(edited, auto, before, chans, display) ==
    \E gone \in SUBSET {p \in DOMAIN edited : edited[p].timed} :
        /\ chans = Arbiter!Restrict(edited, DOMAIN edited \ gone)
        /\ IF auto
             THEN display = Arbiter!Shows(chans, Arbiter!Min(DOMAIN chans))
             ELSE display \in {before} \cup {Arbiter!Shows(chans, p) : p \in DOMAIN chans}

LEMMA Settles ==
  ASSUME NEW h, NEW g, Base(g), UpToDate(g),
         NEW edited, edited = [p \in DOMAIN edited |-> edited[p]],
         Keeps(g.mux, edited), KeepsLeds(g, h)
  PROVE  Settled(edited, g.auto, Display(h), Contents(g.mux), Display(g))
<1> DEFINE gone  == DOMAIN edited \ DOMAIN g.mux.inputs
           chans == Contents(g.mux)
<1>1. gone \in SUBSET {p \in DOMAIN edited : edited[p].timed}
  BY DEF Keeps
<1>2. chans = Arbiter!Restrict(edited, DOMAIN edited \ gone)
  <2>1. DOMAIN edited \ gone = DOMAIN g.mux.inputs
    BY DEF Keeps
  <2>2. \A p \in DOMAIN g.mux.inputs : chans[p] = edited[p]
    BY DEF Keeps, Contents
  <2>3. QED
    BY <2>1, <2>2 DEF Arbiter!Restrict, Contents
<1>3. DOMAIN chans = DOMAIN g.mux.inputs
      /\ \A p \in DOMAIN chans : chans[p].color = g.mux.inputs[p].color
  BY DEF Contents, Content
<1> HIDE DEF gone, chans
<1>4. CASE g.auto
  <2>1. /\ g.leds.channel = Min(DOMAIN chans)
        /\ g.leds.channel \in DOMAIN chans
        /\ g.leds.color = chans[g.leds.channel].color
    BY <1>3, <1>4, LowestShown
  <2>2. Display(g) = Arbiter!Shows(chans, Arbiter!Min(DOMAIN chans))
    BY <2>1 DEF Display, Arbiter!Shows, Arbiter!Min, Min
  <2>3. QED
    BY <1>1, <1>2, <1>4, <2>2 DEF Settled, chans
<1>5. CASE ~g.auto
  <2>1. Display(g) = Display(h)
        \/ \E p \in DOMAIN chans : Display(g) = Arbiter!Shows(chans, p)
    BY <1>3 DEF KeepsLeds, ShowsSome, Display, Arbiter!Shows
  <2>2. QED
    BY <1>1, <1>2, <1>5, <2>1 DEF Settled, chans
<1>6. QED
  BY <1>4, <1>5

LEMMA InitRefines == Init => Arbiter!Init
<1> SUFFICES ASSUME Init PROVE Arbiter!Init
  OBVIOUS
<1>1. /\ core.mux.inputs = [p \in {Lowest} |-> LowestPriorityInfo]
      /\ core.auto = TRUE
      /\ core.leds.channel = Lowest /\ core.leds.color = Black
  BY DEF Init, NewCore, NewMuxer
<1>2. LowestPriorityInfo.timeout = Endless /\ LowestPriorityInfo.color = Black
  BY DEF LowestPriorityInfo
<1>3. [p \in DOMAIN core.mux.inputs |->
          [timed |-> core.mux.inputs[p].timeout # Endless, color |-> core.mux.inputs[p].color]]
      = [p \in {Lowest} |-> Arbiter!Off]
  <2>1. /\ DOMAIN core.mux.inputs = {Lowest}
        /\ core.mux.inputs[Lowest] = LowestPriorityInfo
    BY <1>1
  <2>2. [timed |-> LowestPriorityInfo.timeout # Endless, color |-> LowestPriorityInfo.color]
        = Arbiter!Off
    <3>1. (LowestPriorityInfo.timeout # Endless) = FALSE
      BY <1>2
    <3>2. QED
      BY <1>2, <3>1 DEF Arbiter!Off
  <2>3. \A p \in {Lowest} :
            [timed |-> core.mux.inputs[p].timeout # Endless, color |-> core.mux.inputs[p].color]
            = Arbiter!Off
    BY <2>1, <2>2
  <2>4. QED
    BY <2>1, <2>3
<1>4. Arbiter!Shows(Arbiter!OnlyLowest, Lowest) = [channel |-> Lowest, color |-> Black]
  BY DEF Arbiter!Shows, Arbiter!OnlyLowest, Arbiter!Off
<1>5. QED
  BY <1>1, <1>3, <1>4 DEF Arbiter!Init, Arbiter!OnlyLowest

LEMMA NextRefines ==
  ASSUME IInv, IInv', LowestStays', [Next]_vars
  PROVE  [Arbiter!Next]_(Arbiter!vars)
<1> DEFINE chans == [p \in DOMAIN core.mux.inputs |->
                        [timed |-> core.mux.inputs[p].timeout # Endless,
                         color |-> core.mux.inputs[p].color]]
<1>0. /\ now \in Nat /\ Base(core) /\ core.auto \in BOOLEAN
      /\ Contents(core.mux) = chans
      /\ \A p \in Priorities : p \in Channels /\ p \in Nat
      /\ Lowest \in Nat
  BY LowestIsNat, PrioritiesAreNat DEF IInv, Base, IsCore, Contents, Content, Channels
<1>a. ASSUME NEW edited, edited = [p \in DOMAIN edited |-> edited[p]],
             Keeps(core'.mux, edited), KeepsLeds(core', core)
      PROVE  Settled(edited, core'.auto, Display(core), chans', Display(core'))
  <2>1. Base(core') /\ UpToDate(core')
    BY DEF IInv
  <2>2. Settled(edited, core'.auto, Display(core), Contents(core'.mux), Display(core'))
    BY <1>a, <2>1, Settles
  <2>3. Contents(core'.mux) = chans'
    BY DEF Contents, Content
  <2>4. QED
    BY <2>2, <2>3
<1>b. chans = [p \in DOMAIN chans |-> chans[p]]
  OBVIOUS
(* Slots that only call update().                                          *)
<1>1. ASSUME Keeps(core'.mux, chans), KeepsLeds(core', core),
             core'.auto \in {core.auto, TRUE}
      PROVE  Arbiter!Next
  <2>1. Settled(chans, core'.auto, Display(core), chans', Display(core'))
    BY <1>1, <1>a, <1>b
  <2>2. CASE core'.auto = core.auto
    <3>1. Arbiter!Refresh
      BY <2>1, <2>2 DEF Arbiter!Refresh, Arbiter!Settle, Settled, Display
    <3>2. QED
      BY <3>1 DEF Arbiter!Next
  <2>3. CASE core'.auto = TRUE
    <3>1. Arbiter!SelectAutomatically
      BY <2>1, <2>3 DEF Arbiter!SelectAutomatically, Arbiter!Settle, Settled, Display
    <3>2. QED
      BY <3>1 DEF Arbiter!Next
  <2>4. QED
    BY <1>1, <2>2, <2>3
<1>2. ASSUME Keeps(core'.mux, Contents(NewMuxer)), KeepsLeds(core', core), core'.auto
      PROVE  Arbiter!Next
  <2>1. Contents(NewMuxer) = Arbiter!OnlyLowest
    BY DEF Contents, Content, NewMuxer, LowestPriorityInfo, Arbiter!OnlyLowest, Arbiter!Off
  <2>2. Arbiter!OnlyLowest = [p \in DOMAIN Arbiter!OnlyLowest |-> Arbiter!OnlyLowest[p]]
    BY DEF Arbiter!OnlyLowest
  <2>3. core'.auto = TRUE
    BY <1>2 DEF IInv, Base, IsCore
  <2>4. Settled(Arbiter!OnlyLowest, TRUE, Display(core), chans', Display(core'))
    BY <1>2, <1>a, <2>1, <2>2, <2>3
  <2>5. Arbiter!ClearEverything
    BY <2>3, <2>4 DEF Arbiter!ClearEverything, Arbiter!Settle, Settled, Display
  <2>6. QED
    BY <2>5 DEF Arbiter!Next
<1>3. ASSUME NEW p \in Priorities, NEW color \in Colors, NEW timeout \in Timeouts,
             NEW comp \in ClientComponents, ClientSetsColors(p, color, timeout, comp)
      PROVE  Arbiter!Next
  <2> DEFINE content == [timed |-> timeout > 0, color |-> color]
             edited  == WithContent(chans, p, content)
  <2>1. timeout \in Nat /\ comp \in Components
    BY TimeoutsAreNat, ClientsAreComponents
  <2>a. p = Lowest => timeout = 0
    BY <1>0, <1>3, <2>1, DeadlineStays DEF ClientSetsColors, LowestStays
  <2>2. /\ Keeps(core'.mux, edited)
        /\ KeepsLeds(core', core)
        /\ core'.auto = core.auto
    BY <1>0, <1>3, <2>1, <2>a, SetColorsKeeps DEF ClientSetsColors
  <2>3. edited = [q \in DOMAIN edited |-> edited[q]]
    BY DEF WithContent
  <2>4. content \in [timed : BOOLEAN, color : Colors]
    BY <2>1
  <2> HIDE DEF content
  <2>5. Settled(edited, core.auto, Display(core), chans', Display(core'))
    BY <1>a, <2>2, <2>3
  <2>6. Arbiter!Write(p, content)
    BY <2>2, <2>5 DEF Arbiter!Write, Arbiter!Settle, Settled, Display, WithContent
  <2>7. QED
    BY <2>4, <2>6 DEF Arbiter!Next
<1>4. ASSUME NEW p \in Priorities, ClientClears(p)
      PROVE  Arbiter!Next
  <2>1. /\ p < Lowest  => Keeps(core'.mux, Without(chans, p))
        /\ p >= Lowest => Keeps(core'.mux, chans)
        /\ KeepsLeds(core', core)
        /\ core'.auto \in {core.auto, TRUE}
    BY <1>0, <1>4, ClearKeeps DEF ClientClears
  <2>2. CASE p >= Lowest
    BY <1>1, <2>1, <2>2
  <2>3. CASE p < Lowest
    <3> DEFINE edited == Without(chans, p)
    <3>1. edited = [q \in DOMAIN edited |-> edited[q]]
      BY DEF Without
    <3>2. edited = Arbiter!Restrict(chans, DOMAIN chans \ {p})
      BY DEF Without, Arbiter!Restrict
    <3>3. Settled(edited, core'.auto, Display(core), chans', Display(core'))
      BY <1>a, <2>1, <2>3, <3>1
    <3>4. Settled(Arbiter!Restrict(chans, DOMAIN chans \ {p}), core'.auto,
                  Display(core), chans', Display(core'))
      BY <3>2, <3>3
    <3>5. Arbiter!ClearChannel(p)
      BY <2>1, <3>4 DEF Arbiter!ClearChannel, Arbiter!Settle, Settled, Display
    <3>6. QED
      BY <3>5 DEF Arbiter!Next
  <2>4. QED
    BY <1>0, <2>2, <2>3
<1>5. CASE ClientClearsAll
  BY <1>0, <1>2, <1>5, ClearAllKeeps DEF ClientClearsAll, KeepsLeds
<1>6. CASE ClientSelectsAuto
  BY <1>0, <1>1, <1>6, SelectAutoKeeps DEF ClientSelectsAuto, KeepsLeds
<1>7. ASSUME NEW p \in Channels, ClientSelects(p)
      PROVE  [Arbiter!Next]_(Arbiter!vars)
  <2>1. CASE HasPriority(core.mux, p)
    <3>1. core'.auto = FALSE /\ core'.mux = core.mux /\ core'.leds = core.leds
      BY <1>7, <2>1 DEF ClientSelects, SetCurrentSourcePriority, IInv, Base, IsCore
    <3>2. Keeps(core'.mux, chans) /\ KeepsLeds(core', core)
      BY <1>0, <3>1, KeepsItself DEF KeepsLeds
    <3>3. Settled(chans, FALSE, Display(core), chans', Display(core'))
      BY <1>a, <1>b, <3>1, <3>2
    <3>4. Arbiter!Select
      BY <3>1, <3>3 DEF Arbiter!Select, Arbiter!Settle, Settled, Display
    <3>5. QED
      BY <3>4 DEF Arbiter!Next
  <2>2. CASE ~HasPriority(core.mux, p)
    BY <1>7, <2>2 DEF ClientSelects, SetCurrentSourcePriority, Arbiter!vars
  <2>3. QED
    BY <2>1, <2>2
<1>8. CASE AdjustmentsUpdated
  BY <1>0, <1>1, <1>8, UpdateKeeps, UpdateInv DEF AdjustmentsUpdated, KeepsLeds
<1>9. CASE TimerFires
  <2> DEFINE off == [core EXCEPT !.timer = TimerOff]
  <2>1. Base(off) /\ off.mux = core.mux /\ off.auto = core.auto
    BY <1>0 DEF Base, IsCore
  <2>2. core' = Update(off, now)
    BY <1>9 DEF TimerFires, Timeout
  <2> HIDE DEF off
  <2>3. QED
    BY <1>0, <1>1, <2>1, <2>2, UpdateKeeps, UpdateInv DEF KeepsLeds
<1>10. CASE Shutdown
  <2> DEFINE g == ClearAll(core, now)
  <2>1. /\ Keeps(g.mux, Contents(NewMuxer)) /\ ShowsSome(g) /\ g.auto = TRUE
        /\ Base(g)
    BY <1>0, ClearAllKeeps, ClearAllInv
  <2>2. core' = [g EXCEPT !.status = "closed"]
    BY <1>10 DEF Shutdown, FreeObjects
  <2> HIDE DEF g
  <2>3. core'.mux = g.mux /\ core'.leds = g.leds /\ core'.auto = g.auto
    BY <2>1, <2>2 DEF Base, IsCore
  <2>4. QED
    BY <1>2, <2>1, <2>3 DEF KeepsLeds, ShowsSome
<1>11. CASE Tick
  <2>1. core'.mux = core.mux /\ core'.leds = core.leds /\ core'.auto = core.auto
    BY <1>0, <1>11 DEF Tick, Elapse, Base, IsCore
  <2>2. QED
    BY <2>1 DEF Arbiter!vars
<1>12. ASSUME NEW time \in 0 .. MaxTime, SetClock(time)
       PROVE  UNCHANGED Arbiter!vars
  BY <1>12 DEF SetClock, Arbiter!vars
<1>13. CASE UNCHANGED vars
  BY <1>13 DEF vars, Arbiter!vars
<1>14. QED
  BY <1>3, <1>4, <1>5, <1>6, <1>7, <1>8, <1>9, <1>10, <1>11, <1>12, <1>13 DEF Next

(* Hyperion does what ChannelArbiter promises: after every slot the LEDs   *)
(* show the lowest channel there is under automatic selection, and one     *)
(* there is, or what they showed before, under manual selection - as long  *)
(* as nobody gives the lowest channel a deadline.                          *)
THEOREM ArbiterImplemented == Spec => ([]LowestStays => ImplementsArbiter)
<1>1. Init => Arbiter!Init
  BY InitRefines
<1>2. IInv /\ IInv' /\ LowestStays' /\ [Next]_vars => [Arbiter!Next]_(Arbiter!vars)
  BY NextRefines
<1>3. QED
  BY <1>1, <1>2, Invariance, PTL DEF Spec, ImplementsArbiter, Arbiter!Spec

-----------------------------------------------------------------------------
(* The grabbers, which write to the same core.  However the V4L2 grabber   *)
(* is switched off - by the user, by Kodi or by an error of its device -   *)
(* its device stops streaming, for every choice of grabbers, priorities,   *)
(* devices and bounds.                                                     *)
CONSTANTS
    ScreenTypes, ScreenPriority, ScreenTimeout, VideoPriority, VideoTimeout, Devices,
    FrameDecimation, SignalThreshold, UseKodiChecker, OtherPriority, MaxEvents

VARIABLES grabbers, env, count

Grabbing == INSTANCE Grabbers

(* The fields of the V4L2 wrapper.  A device that streams has been opened, *)
(* and its notifier is enabled: stop() leaves a device alone whose         *)
(* notifier is not, and without this would leave it streaming.             *)
VideoShape(v) ==
    /\ v \in [timer : BOOLEAN, device : {v.device}, initialized : BOOLEAN,
              notifier : {"none", "off", "on"}, streaming : BOOLEAN, lost : BOOLEAN,
              frame : {v.frame}, dark : {v.dark}]
    /\ v.streaming => v.notifier = "on"
    /\ v.notifier = "on" => v.initialized

VideoInv(v) == VideoShape(v) /\ (v.streaming => v.timer)

GrabbersInv(g) ==
    /\ g \in [core : {g.core}, names : {g.names}, components : {g.components},
              screens : {g.screens}, video : {g.video}]
    /\ VideoInv(g.video)

GrabberIInv == GrabbersInv(grabbers)

(* Handlers that leave the V4L2 wrapper alone.                             *)
LEMMA OtherFieldsInv ==
  ASSUME NEW g, GrabbersInv(g), NEW x
  PROVE  /\ GrabbersInv([g EXCEPT !.core = x])
         /\ GrabbersInv([g EXCEPT !.screens = x])
         /\ GrabbersInv([g EXCEPT !.components.V4L = x])
         /\ GrabbersInv([g EXCEPT !.components.GRABBER = x])
BY DEF GrabbersInv

LEMMA VideoFieldInv ==
  ASSUME NEW g, GrabbersInv(g), NEW v, VideoInv(v)
  PROVE  GrabbersInv([g EXCEPT !.video = v])
BY DEF GrabbersInv

LEMMA WithScreensInv ==
  ASSUME NEW g, GrabbersInv(g), NEW screens
  PROVE  GrabbersInv(Grabbing!WithScreens(g, screens))
BY DEF GrabbersInv, Grabbing!WithScreens

LEMMA ScreensInv ==
  ASSUME NEW g, GrabbersInv(g), NEW kinds, NEW e
  PROVE  GrabbersInv(Grabbing!StartScreens(g, kinds, e)) /\ GrabbersInv(Grabbing!StopScreens(g, kinds))
BY WithScreensInv DEF Grabbing!StartScreens, Grabbing!StopScreens

-----------------------------------------------------------------------------
(* The V4L2 grabber: start() streams only if it says so, stop() always     *)
(* ends the stream.                                                        *)
LEMMA InitGrabberShape ==
  ASSUME NEW v, VideoShape(v), NEW e
  PROVE  /\ VideoShape(Grabbing!InitGrabber(v, e))
         /\ Grabbing!InitGrabber(v, e).timer = v.timer
         /\ Grabbing!InitGrabber(v, e).streaming = v.streaming
<1>1. ASSUME NEW d, ~v.initialized
      PROVE  /\ VideoShape(Grabbing!Open(v, d, e))
             /\ Grabbing!Open(v, d, e).timer = v.timer
             /\ Grabbing!Open(v, d, e).streaming = v.streaming
  BY <1>1 DEF VideoShape, Grabbing!Open
<1>2. QED
  BY <1>1 DEF Grabbing!InitGrabber

LEMMA GrabberStartsShape ==
  ASSUME NEW v, VideoShape(v), NEW e
  PROVE  LET started == Grabbing!GrabberStarts(v, e)
         IN /\ VideoShape(started.video)
            /\ started.video.timer = v.timer
            /\ started.ok \in BOOLEAN
            /\ started.video.streaming => started.ok \/ v.streaming
<1> DEFINE opened == Grabbing!InitGrabber(v, e)
<1>1. VideoShape(opened) /\ opened.timer = v.timer /\ opened.streaming = v.streaming
  BY InitGrabberShape
<1>2. Grabbing!CanStream(opened, e) \in BOOLEAN
  BY DEF Grabbing!CanStream
<1> HIDE DEF opened
<1>3. Grabbing!GrabberStarts(v, e)
        = IF ~opened.initialized \/ opened.notifier = "on" THEN [video |-> opened, ok |-> FALSE]
          ELSE [video |-> [opened EXCEPT !.notifier = "on",
                                         !.streaming = Grabbing!CanStream(opened, e)],
                ok    |-> Grabbing!CanStream(opened, e)]
  BY DEF Grabbing!GrabberStarts, opened
<1>4. CASE ~opened.initialized \/ opened.notifier = "on"
  <2>1. Grabbing!GrabberStarts(v, e).video = opened /\ Grabbing!GrabberStarts(v, e).ok = FALSE
    BY <1>3, <1>4
  <2>2. QED
    BY <1>1, <2>1
<1>5. CASE opened.initialized /\ opened.notifier # "on"
  <2> DEFINE ok == Grabbing!CanStream(opened, e)
  <2>1. ok \in BOOLEAN
    BY <1>2
  <2>2. /\ Grabbing!GrabberStarts(v, e).video = [opened EXCEPT !.notifier = "on", !.streaming = ok]
        /\ Grabbing!GrabberStarts(v, e).ok = ok
    BY <1>3, <1>5
  <2> HIDE DEF ok
  <2>3. QED
    BY <1>1, <1>5, <2>1, <2>2 DEF VideoShape
<1>6. QED
  BY <1>4, <1>5

LEMMA GrabberStopShape ==
  ASSUME NEW v, VideoShape(v)
  PROVE  /\ VideoShape(Grabbing!GrabberStop(v))
         /\ Grabbing!GrabberStop(v).timer = v.timer
         /\ ~Grabbing!GrabberStop(v).streaming
BY DEF Grabbing!GrabberStop, VideoShape

LEMMA StartVideoInv ==
  ASSUME NEW g, GrabbersInv(g), NEW e
  PROVE  GrabbersInv(Grabbing!StartVideo(g, e))
<1> DEFINE started == Grabbing!GrabberStarts(g.video, e)
           on      == [started.video EXCEPT !.timer = TRUE]
<1>1. /\ VideoShape(started.video)
      /\ started.video.timer = g.video.timer
      /\ started.video.streaming => started.ok \/ g.video.streaming
  BY GrabberStartsShape DEF GrabbersInv, VideoInv
<1>2. Grabbing!StartVideo(g, e)
        = IF started.ok
          THEN [[g EXCEPT !.video = started.video] EXCEPT !.video.timer = TRUE,
                                                          !.names = @ \cup {Grabbing!VideoName}]
          ELSE [g EXCEPT !.video = started.video]
  BY DEF Grabbing!StartVideo
<1> HIDE DEF started
<1>3. CASE started.ok
  <2>1. VideoInv(on)
    BY <1>1 DEF VideoInv, VideoShape
  <2>2. /\ Grabbing!StartVideo(g, e) = [Grabbing!StartVideo(g, e) EXCEPT !.video = on]
        /\ DOMAIN Grabbing!StartVideo(g, e) = DOMAIN g
    BY <1>2, <1>3 DEF GrabbersInv
  <2> HIDE DEF on
  <2>3. QED
    BY <2>1, <2>2 DEF GrabbersInv
<1>4. CASE ~started.ok
  <2>1. VideoInv(started.video)
    BY <1>1, <1>4 DEF GrabbersInv, VideoInv
  <2>2. Grabbing!StartVideo(g, e) = [g EXCEPT !.video = started.video]
    BY <1>2, <1>4
  <2>3. QED
    BY <2>1, <2>2, VideoFieldInv
<1>5. QED
  BY <1>3, <1>4

LEMMA StopVideoInv ==
  ASSUME NEW g, GrabbersInv(g)
  PROVE  GrabbersInv(Grabbing!StopVideo(g))
<1> DEFINE stopped == Grabbing!GrabberStop(g.video)
           off     == [stopped EXCEPT !.timer = FALSE]
           names   == g.names \ {Grabbing!VideoName}
<1>1. VideoShape(stopped) /\ ~stopped.streaming
  BY GrabberStopShape DEF GrabbersInv, VideoInv
<1>2. Grabbing!StopVideo(g) = [g EXCEPT !.video = off, !.names = names]
  BY DEF Grabbing!StopVideo
<1> HIDE DEF stopped
<1>3. VideoInv(off)
  BY <1>1 DEF VideoInv, VideoShape
<1> HIDE DEF off, names
<1>4. QED
  BY <1>2, <1>3 DEF GrabbersInv

-----------------------------------------------------------------------------
(* The half-second timer starts the device only while it runs itself.      *)
LEMMA CheckSourcesInv ==
  ASSUME NEW g, GrabbersInv(g), g.video.timer, NEW e
  PROVE  GrabbersInv(Grabbing!CheckSources(g, e))
<1>1. VideoInv(Grabbing!GrabberStop(g.video))
  BY GrabberStopShape DEF GrabbersInv, VideoInv
<1>2. VideoInv(Grabbing!GrabberStarts(g.video, e).video)
  BY GrabberStartsShape DEF GrabbersInv, VideoInv
<1>3. QED
  BY <1>1, <1>2, VideoFieldInv DEF Grabbing!CheckSources

LEMMA ProcessImageInv ==
  ASSUME NEW g, GrabbersInv(g), NEW whole, NEW dark, NEW time
  PROVE  GrabbersInv(Grabbing!ProcessImage(g, whole, dark, time))
<1>1. ASSUME NEW x, NEW y
      PROVE  /\ GrabbersInv([g EXCEPT !.video.frame = x, !.video.dark = y])
             /\ GrabbersInv([g EXCEPT !.video.frame = x])
  BY DEF GrabbersInv, VideoInv, VideoShape
<1>2. ASSUME NEW s, GrabbersInv(s)
      PROVE  GrabbersInv(Grabbing!NewFrame(s, time))
  BY <1>2, OtherFieldsInv DEF Grabbing!NewFrame
<1>3. QED
  BY <1>1, <1>2 DEF Grabbing!ProcessImage

LEMMA ScreenActionInv ==
  ASSUME NEW g, GrabbersInv(g), NEW kind, NEW e, NEW time
  PROVE  GrabbersInv(Grabbing!ScreenAction(g, kind, e, time))
BY OtherFieldsInv DEF Grabbing!ScreenAction, Grabbing!ScreenColors

LEMMA SetGrabbingModeInv ==
  ASSUME NEW g, GrabbersInv(g), NEW mode, NEW e
  PROVE  GrabbersInv(Grabbing!SetGrabbingMode(g, mode, e))
BY StartVideoInv, StopVideoInv, ScreensInv DEF Grabbing!SetGrabbingMode

LEMMA GrabberStateChangedInv ==
  ASSUME NEW g, GrabbersInv(g), NEW enable, NEW e
  PROVE  GrabbersInv(Grabbing!GrabberStateChanged(g, enable, e))
BY ScreensInv, OtherFieldsInv DEF Grabbing!GrabberStateChanged

LEMMA V4LStateChangedInv ==
  ASSUME NEW g, GrabbersInv(g), NEW enable, NEW e
  PROVE  GrabbersInv(Grabbing!V4LStateChanged(g, enable, e))
BY StartVideoInv, StopVideoInv, OtherFieldsInv DEF Grabbing!V4LStateChanged

-----------------------------------------------------------------------------
LEMMA GrabberInitInv == Grabbing!Init => GrabberIInv
<1>1. GrabbersInv(Grabbing!NewGrabbers)
  BY DEF Grabbing!NewGrabbers, GrabbersInv, VideoInv, VideoShape
<1>2. ASSUME NEW enable \in BOOLEAN, NEW e
      PROVE  GrabbersInv(Grabbing!CreateGrabberV4L2(Grabbing!NewGrabbers, enable, e))
  BY <1>1, StartVideoInv, OtherFieldsInv DEF Grabbing!CreateGrabberV4L2
<1>3. ASSUME NEW g, GrabbersInv(g), NEW type, NEW enable, NEW e
      PROVE  GrabbersInv(Grabbing!CreateSystemFrameGrabber(g, type, enable, e))
  BY <1>3, OtherFieldsInv, ScreensInv, GrabberStateChangedInv DEF Grabbing!CreateSystemFrameGrabber
<1>4. QED
  BY <1>2, <1>3 DEF Grabbing!Init, GrabberIInv

LEMMA DeviceChangesInv ==
  ASSUME GrabberIInv, NEW device, NEW state, Grabbing!DeviceChanges(device, state)
  PROVE  GrabberIInv'
<1>1. ASSUME NEW lost \in BOOLEAN
      PROVE  GrabbersInv([grabbers EXCEPT !.video.lost = lost])
  BY DEF GrabberIInv, GrabbersInv, VideoInv, VideoShape
<1>2. QED
  BY <1>1 DEF Grabbing!DeviceChanges, GrabberIInv, GrabbersInv, VideoInv, VideoShape

LEMMA GrabberStepInv == GrabberIInv /\ [Grabbing!Next]_(Grabbing!vars) => GrabberIInv'
<1> SUFFICES ASSUME GrabberIInv, [Grabbing!Next]_(Grabbing!vars)
             PROVE  GrabberIInv'
  OBVIOUS
<1>1. ASSUME NEW kind, Grabbing!ScreenTimerFires(kind)
      PROVE  GrabberIInv'
  BY <1>1, ScreenActionInv DEF Grabbing!ScreenTimerFires, GrabberIInv
<1>2. CASE Grabbing!VideoTimerFires
  BY <1>2, CheckSourcesInv DEF Grabbing!VideoTimerFires, GrabberIInv
<1>3. ASSUME NEW whole, NEW dark, Grabbing!FrameArrives(whole, dark)
      PROVE  GrabberIInv'
  BY <1>3, ProcessImageInv DEF Grabbing!FrameArrives, GrabberIInv
<1>4. CASE Grabbing!ReadFails
  BY <1>4, StopVideoInv DEF Grabbing!ReadFails, Grabbing!ReadError, GrabberIInv
<1>5. ASSUME NEW mode, Grabbing!KodiSetsGrabbingMode(mode)
      PROVE  GrabberIInv'
  BY <1>5, SetGrabbingModeInv DEF Grabbing!KodiSetsGrabbingMode, GrabberIInv
<1>6. ASSUME NEW enable, Grabbing!UserSwitchesGrabber(enable) \/ Grabbing!UserSwitchesV4L(enable)
      PROVE  GrabberIInv'
  BY <1>6, GrabberStateChangedInv, V4LStateChangedInv
     DEF Grabbing!UserSwitchesGrabber, Grabbing!UserSwitchesV4L, GrabberIInv
<1>7. ASSUME NEW p, Grabbing!UserSelects(p)
      PROVE  GrabberIInv'
  <2>1. grabbers' = [grabbers EXCEPT !.core = Grabbing!SetCurrentSourcePriority(@, p)]
    BY <1>7, Zenon DEF Grabbing!UserSelects
  <2>2. QED
    BY <2>1 DEF GrabberIInv, GrabbersInv
<1>8. CASE Grabbing!OtherSourceSets \/ Grabbing!OtherSourceClears
  <2>1. PICK k : grabbers' = [grabbers EXCEPT !.core = k]
    BY <1>8, Zenon DEF Grabbing!OtherSourceSets, Grabbing!OtherSourceClears
  <2>2. QED
    BY <2>1 DEF GrabberIInv, GrabbersInv
<1>9. CASE Grabbing!ScreenChanges
  BY <1>9 DEF Grabbing!ScreenChanges, GrabberIInv
<1>10. ASSUME NEW device, NEW state, Grabbing!DeviceChanges(device, state)
       PROVE  GrabberIInv'
  BY <1>10, DeviceChangesInv
<1>11. CASE Grabbing!TimerFires \/ Grabbing!Tick
  <2>1. PICK k : grabbers' = [grabbers EXCEPT !.core = k]
    BY <1>11, Zenon DEF Grabbing!TimerFires, Grabbing!Tick
  <2>2. QED
    BY <2>1 DEF GrabberIInv, GrabbersInv
<1>12. CASE UNCHANGED Grabbing!vars
  BY <1>12 DEF Grabbing!vars, GrabberIInv
<1>13. QED
  BY <1>1, <1>2, <1>3, <1>4, <1>5, <1>6, <1>7, <1>8, <1>9, <1>10, <1>11, <1>12 DEF Grabbing!Next

(* While the device streams it is open, its notifier is enabled and the    *)
(* wrapper's timer runs, whatever start() and stop() were called in.       *)
THEOREM GrabbersInvariant == Grabbing!Spec => []GrabberIInv
<1>1. QED
  BY GrabberInitInv, GrabberStepInv, PTL DEF Grabbing!Spec

(* No way to switch the V4L2 grabber off leaves its device streaming,      *)
(* whatever failed before: V4L2Wrapper::stop(), which V4L2Grabber calls by *)
(* readError() too, always ends the stream.                                *)
THEOREM OffCorrect == Grabbing!Spec => []Grabbing!OffIsNotStreaming
<1>1. GrabberIInv => Grabbing!OffIsNotStreaming
  BY DEF GrabberIInv, GrabbersInv, VideoInv, Grabbing!OffIsNotStreaming
<1>2. QED
  BY <1>1, GrabbersInvariant, PTL

-----------------------------------------------------------------------------
(* The LED devices (LedDevices), to which the core writes its frames.      *)
CONSTANTS Setups, MaxTimers, MaxPacket, DMX_MAX, ChunkSize, StripLength, WhiteAlgorithm,
          GpioMap, OrbIds

VARIABLES phase, setup, plugged, unplugs, source, device, hue, sent

Leds == INSTANCE LedDevices

(* A device that is blocked has a delay running that unblocks it.          *)
DeviceInv(d) ==
    /\ d \in [ready : {d.ready}, handle : {d.handle}, named : {d.named}, blocked : BOOLEAN,
              timers : Nat, waiting : {d.waiting}, lastError : {d.lastError},
              queued : {d.queued}, written : {d.written}, expected : {d.expected},
              refreshing : {d.refreshing}, values : {d.values}, packs : {d.packs}]
    /\ d.blocked => d.timers > 0

(* Edits of the other fields keep it, and so does blocking with a delay.   *)
LEMMA EditsKeepDelay ==
  ASSUME NEW d, DeviceInv(d), NEW v
  PROVE  /\ DeviceInv([d EXCEPT !.ready = v])
         /\ DeviceInv([d EXCEPT !.handle = v])
         /\ DeviceInv([d EXCEPT !.named = v])
         /\ DeviceInv([d EXCEPT !.waiting = v])
         /\ DeviceInv([d EXCEPT !.lastError = v])
         /\ DeviceInv([d EXCEPT !.queued = v])
         /\ DeviceInv([d EXCEPT !.written = v])
         /\ DeviceInv([d EXCEPT !.expected = v])
         /\ DeviceInv([d EXCEPT !.refreshing = v])
         /\ DeviceInv([d EXCEPT !.values = v])
         /\ DeviceInv([d EXCEPT !.packs = v])
         /\ DeviceInv([d EXCEPT !.blocked = FALSE])
         /\ DeviceInv([d EXCEPT !.blocked = TRUE, !.timers = d.timers + 1])
<1>1. /\ DeviceInv([d EXCEPT !.ready = v])
      /\ DeviceInv([d EXCEPT !.handle = v])
      /\ DeviceInv([d EXCEPT !.named = v])
  BY DEF DeviceInv
<1>2. /\ DeviceInv([d EXCEPT !.waiting = v])
      /\ DeviceInv([d EXCEPT !.lastError = v])
      /\ DeviceInv([d EXCEPT !.queued = v])
  BY DEF DeviceInv
<1>3. /\ DeviceInv([d EXCEPT !.written = v])
      /\ DeviceInv([d EXCEPT !.expected = v])
      /\ DeviceInv([d EXCEPT !.refreshing = v])
  BY DEF DeviceInv
<1>4. /\ DeviceInv([d EXCEPT !.values = v])
      /\ DeviceInv([d EXCEPT !.packs = v])
  BY DEF DeviceInv
<1>5. DeviceInv([d EXCEPT !.blocked = FALSE])
  BY DEF DeviceInv
<1>6. DeviceInv([d EXCEPT !.blocked = TRUE, !.timers = d.timers + 1])
  <2>1. d.timers + 1 \in Nat /\ d.timers + 1 > 0
    BY DEF DeviceInv
  <2> QED
    BY <2>1 DEF DeviceInv
<1> QED
  BY <1>1, <1>2, <1>3, <1>4, <1>5, <1>6

LEMMA DelayEnds ==
  ASSUME NEW d, DeviceInv(d), d.timers > 0
  PROVE  DeviceInv([d EXCEPT !.timers = @ - 1, !.blocked = FALSE])
<1>1. d.timers - 1 \in Nat
  BY DEF DeviceInv
<1> QED
  BY <1>1 DEF DeviceInv

LEMMA BlockForKeeps ==
  ASSUME NEW d, DeviceInv(d), NEW v
  PROVE  /\ DeviceInv(Leds!BlockFor(d))
         /\ DeviceInv([Leds!BlockFor(d) EXCEPT !.expected = v])
BY EditsKeepDelay DEF Leds!BlockFor

LEMMA OpenedKeeps ==
  ASSUME NEW d, DeviceInv(d), NEW delay
  PROVE  DeviceInv(Leds!Opened(d, delay))
<1> DEFINE open == [d EXCEPT !.handle = "open", !.named = TRUE, !.waiting = FALSE]
<1>1. DeviceInv(open)
  BY DEF DeviceInv
<1> QED
  BY <1>1, BlockForKeeps DEF Leds!Opened

LEMMA PortErrorKeeps ==
  ASSUME NEW d, DeviceInv(d), NEW error
  PROVE  DeviceInv(Leds!PortError(d, error))
BY DEF DeviceInv, Leds!PortError

LEMMA TryOpenKeeps ==
  ASSUME NEW d, DeviceInv(d), NEW delay, Leds!TryOpen(d, delay)
  PROVE  DeviceInv(device')
<1>1. DeviceInv([d EXCEPT !.waiting = TRUE]) /\ DeviceInv([d EXCEPT !.named = TRUE])
  BY EditsKeepDelay
<1> QED
  BY <1>1, OpenedKeeps, PortErrorKeeps DEF Leds!TryOpen

LEMMA WriteRs232Keeps ==
  ASSUME NEW d, DeviceInv(d), NEW leds, Leds!WriteRs232(d, leds)
  PROVE  DeviceInv(device')
<1>1. DeviceInv(Leds!FailedWrite(d))
  BY BlockForKeeps DEF Leds!FailedWrite
<1>2. DeviceInv([Leds!BlockFor(d) EXCEPT !.expected = 2, !.queued = Leds!Min({4, @ + 2})])
  <2>1. DeviceInv(Leds!BlockFor(d))
    BY BlockForKeeps
  <2> QED
    BY <2>1 DEF DeviceInv
<1> QED
  BY <1>1, <1>2, TryOpenKeeps DEF Leds!WriteRs232

LEMMA WriteHidKeeps ==
  ASSUME NEW d, DeviceInv(d), NEW leds, Leds!WriteHid(d, leds)
  PROVE  DeviceInv(device')
<1>1. DeviceInv([d EXCEPT !.handle = "closed"])
  BY EditsKeepDelay
<1> QED
  BY <1>1, OpenedKeeps, BlockForKeeps DEF Leds!WriteHid, Leds!HidOpen

LEMMA WriteBytesKeeps ==
  ASSUME NEW d, DeviceInv(d), NEW leds, Leds!WriteBytes(d, leds)
  PROVE  DeviceInv(device')
<1>0. DeviceInv([d EXCEPT !.handle = "open"]) /\ DeviceInv([d EXCEPT !.handle = "closed"])
  BY EditsKeepDelay
<1>1. CASE Leds!WriteRs232(d, leds)
  BY <1>1, WriteRs232Keeps
<1>2. CASE Leds!WriteHid(d, leds)
  BY <1>2, WriteHidKeeps
<1>3. CASE Leds!WriteOpc(d, leds)
  BY <1>0, <1>3 DEF Leds!WriteOpc
<1>4. CASE Leds!WritePipe(d, leds)
  <2> DEFINE h == IF Leds!PiBlaster(Leds!n, leds) = <<>> THEN d.handle ELSE "closed"
  <2>1. DeviceInv([d EXCEPT !.handle = h])
    BY EditsKeepDelay
  <2> QED
    BY <1>0, <1>4, <2>1 DEF Leds!WritePipe
<1>5. CASE Leds!WriteSpi(d, leds) \/ Leds!WritePlain(d, leds)
  BY <1>5 DEF Leds!WriteSpi, Leds!WritePlain
<1> QED
  BY <1>1, <1>2, <1>3, <1>4, <1>5 DEF Leds!WriteBytes

LEMMA AnyWriteKeeps ==
  ASSUME NEW d, DeviceInv(d), NEW leds, Leds!AnyWrite(d, leds)
  PROVE  DeviceInv(device')
BY WriteBytesKeeps DEF Leds!AnyWrite, Leds!Write, Leds!WriteHue

LEMMA SetLedValuesKeeps ==
  ASSUME DeviceInv(device), NEW leds, Leds!SetLedValues(leds)
  PROVE  DeviceInv(device')
<1> DEFINE d == [device EXCEPT !.values = leds, !.refreshing = Leds!Refreshes]
<1>1. DeviceInv(d)
  BY DEF DeviceInv
<1>2. CASE device.ready
  BY <1>1, <1>2, AnyWriteKeeps DEF Leds!SetLedValues
<1>3. CASE ~device.ready
  BY <1>3 DEF Leds!SetLedValues
<1> QED
  BY <1>2, <1>3

LEMMA DeviceInitInv == Leds!Init => DeviceInv(device)
BY DEF Leds!Init, DeviceInv

LEMMA OpenKeeps ==
  ASSUME DeviceInv(device), Leds!Open
  PROVE  DeviceInv(device')
<1>1. CASE Leds!Type \in Leds!Rs232 /\ Leds!TryOpen(device, setup.delay)
  BY <1>1, TryOpenKeeps
<1>2. CASE Leds!HidOpen(device) \/ device' = device
  BY <1>2, OpenedKeeps DEF Leds!HidOpen
<1>3. ASSUME NEW h, NEW packs, device' = [device EXCEPT !.handle = h, !.packs = packs]
      PROVE  DeviceInv(device')
  BY <1>3 DEF DeviceInv
<1>4. ASSUME NEW h, device' = [device EXCEPT !.handle = h]
      PROVE  DeviceInv(device')
  BY <1>4, EditsKeepDelay
<1> QED
  BY <1>1, <1>2, <1>3, <1>4 DEF Leds!Open

LEMMA BytesWrittenKeeps ==
  ASSUME DeviceInv(device), NEW parts, Leds!BytesWritten(parts)
  PROVE  DeviceInv(device')
<1> DEFINE d == [device EXCEPT !.queued = @ - parts, !.written = Leds!Min({2, @ + parts})]
<1>1. DeviceInv(d) /\ DeviceInv([d EXCEPT !.expected = 0, !.blocked = FALSE])
  BY DEF DeviceInv
<1> QED
  BY <1>1 DEF Leds!BytesWritten

LEMMA DeviceNextKeeps ==
  ASSUME DeviceInv(device), [Leds!Next]_Leds!vars
  PROVE  DeviceInv(device')
<1>1. CASE Leds!Open
  BY <1>1, OpenKeeps
<1>2. ASSUME NEW src \in Leds!Sources, Leds!Update(src)
      PROVE  DeviceInv(device')
  BY <1>2, SetLedValuesKeeps DEF Leds!Update
<1>3. CASE Leds!RewriteLeds
  BY <1>3, AnyWriteKeeps DEF Leds!RewriteLeds
<1>4. CASE Leds!WriteAgain
  BY <1>4, SetLedValuesKeeps DEF Leds!WriteAgain
<1>5. CASE Leds!SwitchOff
  BY <1>5, WriteBytesKeeps DEF Leds!SwitchOff
<1>6. CASE Leds!UnblockAfterDelay
  BY <1>6, DelayEnds DEF Leds!UnblockAfterDelay
<1>7. CASE Leds!PreOpenDelayEnds
  BY <1>7, EditsKeepDelay DEF Leds!PreOpenDelayEnds
<1>8. ASSUME NEW parts \in 1 .. 2, Leds!BytesWritten(parts)
      PROVE  DeviceInv(device')
  BY <1>8, BytesWrittenKeeps
<1>9. CASE Leds!LinkLost
  <2>1. DeviceInv([device EXCEPT !.handle = "closed"])
    BY EditsKeepDelay
  <2> QED
    BY <1>9, <2>1, PortErrorKeeps DEF Leds!LinkLost
<1>10. CASE Leds!HueReply \/ Leds!HueTimeout
  BY <1>10 DEF Leds!HueReply, Leds!HueTimeout
<1>11. CASE Leds!Unplug
  BY <1>11, EditsKeepDelay DEF Leds!Unplug
<1>12. CASE Leds!Plug \/ UNCHANGED Leds!vars
  BY <1>12 DEF Leds!Plug, Leds!vars
<1> QED
  BY <1>1, <1>2, <1>3, <1>4, <1>5, <1>6, <1>7, <1>8, <1>9, <1>10, <1>11, <1>12 DEF Leds!Next

(* No order of writes, failed writes, reconnects and notifications leaves  *)
(* a serial or HID device blocked without a delay that will unblock it     *)
(* (ProviderRs232 and ProviderHID), whatever the setups are.               *)
THEOREM DelayCorrect == Leds!Spec => []Leds!BlockedHasTimer
<1>1. Leds!Init => DeviceInv(device)
  BY DeviceInitInv
<1>2. DeviceInv(device) /\ [Leds!Next]_Leds!vars => DeviceInv(device)'
  BY DeviceNextKeeps
<1>3. DeviceInv(device) => Leds!BlockedHasTimer
  BY DEF DeviceInv, Leds!BlockedHasTimer
<1> QED
  BY <1>1, <1>2, <1>3, PTL DEF Leds!Spec
=============================================================================
