-------------------------- MODULE HyperionCore_proofs -------------------------
(***************************************************************************)
(* What the methods of the priority muxer and the slots of the core keep,  *)
(* for every set of channels and colours: the facts that the proofs about  *)
(* Hyperion and about the components that call its slots rest on.          *)
(***************************************************************************)
EXTENDS HyperionCore, WellFoundedInduction, TLAPS

-----------------------------------------------------------------------------
(* The minimum of a set of natural numbers is in it and below the others.  *)
LEMMA MinOfNats ==
  ASSUME NEW S \in SUBSET Nat, S # {}
  PROVE  /\ Min(S) \in S
         /\ \A y \in S : Min(S) <= y
<1>1. \E x \in S : \A y \in S : ~(<<y, x>> \in OpToRel(<, Nat))
  BY NatLessThanWellFounded, WFMin
<1>2. \E x \in S : \A y \in S : x <= y
  <2>1. PICK x \in S : \A y \in S : ~(<<y, x>> \in OpToRel(<, Nat))
    BY <1>1
  <2>2. ASSUME NEW y \in S PROVE x <= y
    <3>1. <<y, x>> \notin OpToRel(<, Nat)
      BY <2>1
    <3>2. ~(y < x)
      BY <3>1, <<y, x>> \in Nat \X Nat DEF OpToRel
    <3>3. QED
      BY <3>2
  <2>3. QED
    BY <2>2
<1>3. QED
  BY <1>2 DEF Min

(* The inductive invariant of a muxer.                                     *)
MuxerInv(m) ==
    /\ IsMuxer(m)
    /\ Lowest \in DOMAIN m.inputs
    /\ m.inputs[Lowest].timeout = Endless
    /\ m.current \in DOMAIN m.inputs
    /\ \A p \in DOMAIN m.inputs : m.current <= p

LEMMA NewMuxerInv == MuxerInv(NewMuxer)
BY LowestIsNat DEF MuxerInv, IsMuxer, NewMuxer, LowestPriorityInfo, InputInfo, Channels,
   Components, Endless, COMP_COLOR, COMP_EFFECT, COMP_INVALID, COMP_GRABBER

(* Writing keeps the invariant, unless it gives the lowest channel a       *)
(* deadline.                                                               *)
LEMMA SetInputInv ==
  ASSUME NEW m, MuxerInv(m), NEW p \in Priorities, NEW info \in InputInfo,
         p = Lowest => info.timeout = Endless
  PROVE  MuxerInv(SetInput(m, p, info))
<1> DEFINE n == SetInput(m, p, info)
<1>1. m.current \in Nat /\ p \in Nat
  BY LowestIsNat, PrioritiesAreNat DEF MuxerInv, IsMuxer, Channels
<1>2. n.current \in {m.current, p} /\ n.current <= m.current /\ n.current <= p
  BY <1>1, MinOfNats DEF SetInput
<1>3. n.inputs \in [DOMAIN m.inputs \cup {p} -> InputInfo] /\ DOMAIN n.inputs = DOMAIN m.inputs \cup {p}
  BY DEF SetInput, MuxerInv, IsMuxer
<1>4. n.inputs[Lowest] = IF p = Lowest THEN info ELSE m.inputs[Lowest]
  BY DEF SetInput, MuxerInv
<1>5. n.inputs[Lowest].timeout = Endless
  BY <1>4 DEF MuxerInv
<1>6. \A q \in DOMAIN n.inputs : n.current <= q
  BY <1>1, <1>2, <1>3, LowestIsNat, PrioritiesAreNat DEF MuxerInv, IsMuxer, Channels
<1>7. n = [inputs |-> n.inputs, current |-> n.current]
  BY DEF SetInput
<1>8. QED
  BY <1>2, <1>3, <1>5, <1>6, <1>7 DEF MuxerInv, IsMuxer, Channels

(* Restricting the inputs to a set that keeps the lowest channel, with its *)
(* minimum as the current one, keeps the invariant.                        *)
LEMMA RestrictInv ==
  ASSUME NEW m, MuxerInv(m), NEW left \in SUBSET DOMAIN m.inputs, Lowest \in left
  PROVE  MuxerInv([inputs |-> Restrict(m.inputs, left), current |-> Min(left)])
<1>1. left \in SUBSET Nat /\ left # {}
  BY LowestIsNat, PrioritiesAreNat DEF MuxerInv, IsMuxer, Channels
<1>2. Min(left) \in left /\ \A y \in left : Min(left) <= y
  BY <1>1, MinOfNats
<1>3. QED
  BY <1>2 DEF MuxerInv, IsMuxer, Restrict

LEMMA ClearInputInv ==
  ASSUME NEW m, MuxerInv(m), NEW p \in Channels
  PROVE  MuxerInv(ClearInput(m, p))
<1> DEFINE left == DOMAIN m.inputs \ {p}
<1>0. CASE p >= Lowest
  BY <1>0 DEF ClearInput
<1>1. CASE ~(p >= Lowest)
  <2>1. Lowest \in left
    BY <1>1, LowestIsNat DEF MuxerInv
  <2>2. CASE m.current = p
    BY <1>1, <2>1, <2>2, RestrictInv DEF ClearInput
  <2>3. CASE m.current # p
    BY <1>1, <2>1, <2>3 DEF ClearInput, MuxerInv, IsMuxer, Restrict
  <2>4. QED
    BY <2>2, <2>3
<1>2. QED
  BY <1>0, <1>1

LEMMA SetCurrentTimeInv ==
  ASSUME NEW m, MuxerInv(m), NEW time
  PROVE  MuxerInv(SetCurrentTime(m, time))
<1> DEFINE left == {p \in DOMAIN m.inputs : ~Expired(m.inputs[p], time)}
<1>1. Lowest \in left
  BY DEF MuxerInv, Expired
<1>2. left \cup {Lowest} = left
  BY <1>1
<1>3. QED
  BY <1>1, <1>2, RestrictInv DEF SetCurrentTime

-----------------------------------------------------------------------------
(* What every slot may rely on, also in the middle of another slot.        *)
Base(h) ==
    /\ IsCore(h)
    /\ MuxerInv(h.mux)
    /\ h.status # "terminated"
    /\ h.backlight = WantsBacklight(h.prevComp)

(* The LEDs are up to date with the muxer, as of the last update().        *)
UpToDate(h) ==
    h.auto =>
        LET shown == h.mux.inputs[h.mux.current]
        IN /\ h.leds.channel = h.mux.current
           /\ h.leds.color = shown.color
           /\ h.mux.current < Lowest =>
                  h.leds.backlight = h.backlight /\ h.prevComp = shown.comp
           /\ shown.timeout # Endless => h.timer # TimerOff

OnTime(h, time) ==
    LET shown == h.mux.inputs[h.mux.current]
    IN (h.auto /\ shown.timeout # Endless) =>
           (h.timer <= shown.timeout - time \/ TimerDue(h))

LEMMA TimerForInv ==
  ASSUME NEW info \in InputInfo, NEW time \in Nat
  PROVE  /\ TimerFor(info, time) \in Nat \cup {TimerOff}
         /\ info.timeout # Endless =>
                /\ TimerFor(info, time) # TimerOff
                /\ TimerFor(info, time) = info.timeout - time \/ TimerFor(info, time) = 0
<1>1. CASE info.timeout = Endless
  BY <1>1 DEF TimerFor
<1>2. CASE info.timeout # Endless
  <2>1. info.timeout - time \in Int
    BY DEF InputInfo
  <2>2. \A n \in Int : Max({0, n}) \in Nat /\ Max({0, n}) \in {0, n}
    <3>1. SUFFICES ASSUME NEW n \in Int PROVE Max({0, n}) \in Nat /\ Max({0, n}) \in {0, n}
      OBVIOUS
    <3>2. \E x \in {0, n} : \A y \in {0, n} : x >= y
      OBVIOUS
    <3>3. Max({0, n}) \in {0, n} /\ \A y \in {0, n} : Max({0, n}) >= y
      BY <3>2 DEF Max
    <3>4. QED
      BY <3>3
  <2>3. QED
    BY <1>2, <2>1, <2>2 DEF TimerFor, TimerOff
<1>3. QED
  BY <1>1, <1>2

LEMMA NewCoreInv == Base(NewCore) /\ UpToDate(NewCore) /\ OnTime(NewCore, 0)
<1>1. MuxerInv(NewCore.mux)
  BY NewMuxerInv DEF NewCore
<1>2. NewCore.leds \in Frame
  BY DEF NewCore, Frame, Channels
<1>3. IsCore(NewCore)
  BY <1>1, <1>2 DEF NewCore, IsCore, MuxerInv, Channels, TimerOff, Components,
     COMP_COLOR, COMP_EFFECT, COMP_INVALID, COMP_GRABBER
<1>4. Base(NewCore)
  BY <1>1, <1>3 DEF NewCore, Base, WantsBacklight, COMP_COLOR, COMP_EFFECT, COMP_INVALID
<1>5. UpToDate(NewCore) /\ OnTime(NewCore, 0)
  <2>1. /\ NewCore.mux.current = Lowest
        /\ NewCore.mux.inputs[Lowest] = LowestPriorityInfo
        /\ NewCore.leds.channel = Lowest /\ NewCore.leds.color = Black
    BY DEF NewCore, NewMuxer
  <2>2. LowestPriorityInfo.timeout = Endless /\ LowestPriorityInfo.color = Black
    BY DEF LowestPriorityInfo
  <2>3. ~(Lowest < Lowest)
    BY LowestIsNat
  <2>4. QED
    BY <2>1, <2>2, <2>3 DEF UpToDate, OnTime
<1>6. QED
  BY <1>4, <1>5

LEMMA ShowInv ==
  ASSUME NEW h, Base(h), NEW mux, MuxerInv(mux), NEW time \in Nat,
         NEW p \in DOMAIN mux.inputs, h.auto => p = mux.current
  PROVE  LET g == Show(h, mux, p, time)
         IN /\ Base(g)
            /\ UpToDate(g)
            /\ OnTime(g, time)
            /\ g.auto = h.auto /\ g.source = h.source /\ g.status = h.status
<1> DEFINE g    == Show(h, mux, p, time)
           info == mux.inputs[p]
<1>1. info \in InputInfo /\ p \in Channels
  BY DEF MuxerInv, IsMuxer
<1>2. /\ info.color \in Colors \cup {Black}
      /\ info.comp \in Components
  BY <1>1 DEF InputInfo
<1>3. TimerFor(info, time) \in Nat \cup {TimerOff}
  BY <1>1, TimerForInv
<1>4. IsCore(g)
  <2>1. g.leds \in Frame
    BY <1>1, <1>2 DEF Show, IsCore, Base, Frame, WantsBacklight
  <2>2. QED
    BY <1>1, <1>2, <1>3, <2>1 DEF Show, IsCore, Base, WantsBacklight, MuxerInv
<1>5. g.mux = mux /\ g.auto = h.auto /\ g.source = h.source /\ g.status = h.status
  BY DEF Show, Base, IsCore
<1>6. g.backlight = WantsBacklight(g.prevComp)
  BY DEF Show, Base, IsCore, WantsBacklight
<1>7. /\ g.leds.channel = p
      /\ g.leds.color = info.color
      /\ p < Lowest => g.leds.backlight = g.backlight /\ g.prevComp = info.comp
      /\ g.timer = TimerFor(info, time)
  <2>1. g.leds = [channel   |-> p,
                  color     |-> info.color,
                  backlight |-> p < Lowest /\ g.backlight]
    BY DEF Show, Base, IsCore
  <2>2. g.backlight \in BOOLEAN
    BY <1>4 DEF IsCore
  <2>3. g.timer = TimerFor(info, time) /\ (p < Lowest => g.prevComp = info.comp)
    BY DEF Show, Base, IsCore
  <2>4. QED
    BY <2>1, <2>2, <2>3
<1>8. UpToDate(g) /\ OnTime(g, time)
  <2>1. SUFFICES ASSUME h.auto PROVE UpToDate(g) /\ OnTime(g, time)
    BY <1>5 DEF UpToDate, OnTime
  <2>2. p = mux.current
    BY <2>1
  <2>3. info.timeout # Endless => g.timer # TimerOff
                                  /\ (g.timer <= info.timeout - time \/ g.timer = 0)
    BY <1>1, <1>7, TimerForInv DEF InputInfo
  <2>4. QED
    BY <1>5, <1>7, <2>2, <2>3 DEF UpToDate, OnTime, TimerDue
<1>9. QED
  BY <1>4, <1>5, <1>6, <1>8 DEF Base

LEMMA UpdateInv ==
  ASSUME NEW h, Base(h), NEW time \in Nat
  PROVE  LET g == Update(h, time)
         IN /\ Base(g)
            /\ UpToDate(g)
            /\ OnTime(g, time)
            /\ g.auto = h.auto /\ g.source = h.source /\ g.status = h.status
<1> DEFINE mux == SetCurrentTime(h.mux, time)
           p   == VisibleChannel(h, mux)
<1>1. MuxerInv(mux)
  BY SetCurrentTimeInv DEF Base
<1>2. p \in DOMAIN mux.inputs /\ (h.auto => p = mux.current)
  BY <1>1 DEF VisibleChannel, HasPriority, MuxerInv
<1>3. Update(h, time) = Show(h, mux, p, time)
  BY <1>2 DEF Update
<1>4. QED
  BY <1>1, <1>2, <1>3, ShowInv

-----------------------------------------------------------------------------
(* What a slot leaves behind: it keeps Base and UpToDate, and it keeps the *)
(* timer on time if it was.                                                *)
Kept(g, h, time) ==
    /\ Base(g)
    /\ UpToDate(g)
    /\ OnTime(h, time) => OnTime(g, time)

LEMMA SetColorsInv ==
  ASSUME NEW h, Base(h), UpToDate(h), NEW time \in Nat,
         NEW p \in Priorities, NEW color \in Colors, NEW timeout \in Nat,
         NEW comp \in Components,
         p = Lowest => timeout = 0
  PROVE  Kept(SetColors(h, p, color, timeout, comp, time), h, time)
<1> DEFINE info    == [timeout |-> Deadline(timeout, time), color |-> color, comp |-> comp]
           written == [h EXCEPT !.mux = SetInput(@, p, info)]
<1>1. info \in InputInfo
  BY DEF InputInfo, Deadline, Endless
<1>2. MuxerInv(SetInput(h.mux, p, info))
  <2>1. p = Lowest => info.timeout = Endless
    BY DEF Deadline
  <2>2. QED
    BY <1>1, <2>1, SetInputInv DEF Base
<1>3. /\ written.mux = SetInput(h.mux, p, info)
      /\ written.auto = h.auto /\ written.timer = h.timer
      /\ written.leds = h.leds /\ written.backlight = h.backlight
      /\ written.prevComp = h.prevComp
  BY DEF Base, IsCore
<1>4. Base(written)
  BY <1>2 DEF Base, IsCore, MuxerInv
<1>5. CASE ~written.auto \/ p = written.mux.current
  <2>1. SetColors(h, p, color, timeout, comp, time) = Update(written, time)
    BY <1>5 DEF SetColors
  <2>2. QED
    BY <1>4, <2>1, UpdateInv DEF Kept
<1>6. CASE written.auto /\ p # written.mux.current
  <2>1. SetColors(h, p, color, timeout, comp, time) = written
    BY <1>6 DEF SetColors
  <2>2. Min({h.mux.current, p}) \in {h.mux.current, p}
    BY MinOfNats, LowestIsNat, PrioritiesAreNat DEF Base, MuxerInv, IsMuxer, Channels
  <2>3. /\ written.mux.current = h.mux.current
        /\ written.mux.inputs[h.mux.current] = h.mux.inputs[h.mux.current]
    BY <1>3, <1>6, <2>2 DEF SetInput, Base, MuxerInv
  <2>4. UpToDate(written) /\ (OnTime(h, time) => OnTime(written, time))
    BY <1>3, <2>3 DEF UpToDate, OnTime, TimerDue
  <2>5. QED
    BY <1>4, <2>1, <2>4 DEF Kept
<1>7. QED
  BY <1>5, <1>6

LEMMA SelectAutoInv ==
  ASSUME NEW h, Base(h), NEW time \in Nat
  PROVE  LET g == SetSourceAutoSelectEnabled(h, time)
         IN Base(g) /\ UpToDate(g) /\ OnTime(g, time)
<1>1. Base([h EXCEPT !.auto = TRUE])
  BY DEF Base, IsCore
<1>2. QED
  BY <1>1, UpdateInv DEF SetSourceAutoSelectEnabled

LEMMA SelectInv ==
  ASSUME NEW h, Base(h), UpToDate(h), NEW time \in Nat, NEW p \in Channels
  PROVE  Kept(SetCurrentSourcePriority(h, p), h, time)
<1>1. CASE HasPriority(h.mux, p)
  <2> DEFINE g == [h EXCEPT !.auto = FALSE, !.source = p]
  <2>1. SetCurrentSourcePriority(h, p) = g
    BY <1>1 DEF SetCurrentSourcePriority
  <2>2. Base(g) /\ ~g.auto
    BY DEF Base, IsCore
  <2>3. QED
    BY <2>1, <2>2 DEF Kept, UpToDate, OnTime
<1>2. CASE ~HasPriority(h.mux, p)
  BY <1>2 DEF SetCurrentSourcePriority, Kept
<1>3. QED
  BY <1>1, <1>2

(* When the lowest channel is cleared the new one has a higher number, so  *)
(* the condition under which clear calls update() misses nothing.          *)
LEMMA ClearInputCurrent ==
  ASSUME NEW m, MuxerInv(m), NEW p \in Channels, ~(p < ClearInput(m, p).current)
  PROVE  LET n == ClearInput(m, p)
         IN n.current = m.current /\ n.inputs[m.current] = m.inputs[m.current]
<1> DEFINE left == DOMAIN m.inputs \ {p}
<1>1. CASE p >= Lowest
  BY <1>1 DEF ClearInput
<1>2. CASE ~(p >= Lowest)
  <2>1. left \in SUBSET Nat /\ left # {} /\ p \in Nat /\ m.current \in Nat
    BY <1>2, LowestIsNat, PrioritiesAreNat DEF MuxerInv, IsMuxer, Channels
  <2>2. m.current # p
    <3>1. SUFFICES ASSUME m.current = p PROVE FALSE
      OBVIOUS
    <3>2. ClearInput(m, p).current = Min(left)
      BY <1>2, <3>1 DEF ClearInput
    <3>3. Min(left) \in left
      BY <2>1, MinOfNats
    <3>4. p < Min(left)
      BY <2>1, <3>1, <3>3 DEF MuxerInv
    <3>5. QED
      BY <3>2, <3>4
  <2>3. QED
    BY <1>2, <2>2 DEF ClearInput, Restrict, MuxerInv
<1>3. QED
  BY <1>1, <1>2

LEMMA ClearInv ==
  ASSUME NEW h, Base(h), UpToDate(h), NEW time \in Nat, NEW p \in Channels
  PROVE  Kept(Clear(h, p, time), h, time)
<1> DEFINE cleared  == [h EXCEPT !.mux = ClearInput(@, p)]
           selected == IF ~cleared.auto /\ cleared.source = p
                         THEN SetSourceAutoSelectEnabled(cleared, time) ELSE cleared
<1>1. CASE ~HasPriority(h.mux, p)
  BY <1>1 DEF Clear, Kept
<1>2. CASE HasPriority(h.mux, p)
  <2>1. MuxerInv(ClearInput(h.mux, p))
    BY ClearInputInv DEF Base
  <2>2. /\ cleared.mux = ClearInput(h.mux, p)
        /\ cleared.auto = h.auto /\ cleared.timer = h.timer
        /\ cleared.leds = h.leds /\ cleared.backlight = h.backlight
        /\ cleared.prevComp = h.prevComp /\ cleared.source = h.source
    BY DEF Base, IsCore
  <2>3. Base(cleared)
    BY <2>1 DEF Base, IsCore, MuxerInv
  <2>4. Base(selected)
    BY <2>3, SelectAutoInv
  <2>5. CASE p < selected.mux.current
    <3>1. Clear(h, p, time) = Update(selected, time)
      BY <1>2, <2>5 DEF Clear
    <3>2. QED
      BY <2>4, <3>1, UpdateInv DEF Kept
  <2>6. CASE ~(p < selected.mux.current)
    <3>1. Clear(h, p, time) = selected
      BY <1>2, <2>6 DEF Clear
    <3>2. CASE ~cleared.auto /\ cleared.source = p
      BY <2>3, <3>1, <3>2, SelectAutoInv DEF Kept
    <3>3. CASE ~(~cleared.auto /\ cleared.source = p)
      <4>1. selected = cleared
        BY <3>3
      <4>2. /\ cleared.mux.current = h.mux.current
            /\ cleared.mux.inputs[h.mux.current] = h.mux.inputs[h.mux.current]
        BY <2>2, <2>6, <4>1, ClearInputCurrent, ZenonT(30) DEF Base
      <4>3. UpToDate(cleared) /\ (OnTime(h, time) => OnTime(cleared, time))
        BY <2>2, <4>2 DEF UpToDate, OnTime, TimerDue
      <4>4. QED
        BY <2>3, <3>1, <4>1, <4>3 DEF Kept
    <3>4. QED
      BY <3>2, <3>3
  <2>7. QED
    BY <2>5, <2>6
<1>3. QED
  BY <1>1, <1>2

LEMMA ClearAllInv ==
  ASSUME NEW h, Base(h), NEW time \in Nat
  PROVE  LET g == ClearAll(h, time) IN Base(g) /\ UpToDate(g) /\ OnTime(g, time)
<1> DEFINE emptied == [h EXCEPT !.mux = ClearAllInputs]
<1>1. Base(emptied)
  BY NewMuxerInv DEF Base, IsCore, ClearAllInputs, MuxerInv
<1>2. Base(SetSourceAutoSelectEnabled(emptied, time))
  BY <1>1, SelectAutoInv
<1>3. QED
  BY <1>2, UpdateInv DEF ClearAll

LEMMA FreeObjectsInv ==
  ASSUME NEW h, Base(h), NEW time \in Nat
  PROVE  LET g == FreeObjects(h, time) IN Base(g) /\ UpToDate(g) /\ OnTime(g, time)
<1> DEFINE g == ClearAll(h, time)
<1>1. Base(g) /\ UpToDate(g) /\ OnTime(g, time)
  BY ClearAllInv
<1>2. QED
  BY <1>1 DEF FreeObjects, Base, IsCore, UpToDate, OnTime, TimerDue

-----------------------------------------------------------------------------
(* The channels of a core with the deadlines forgotten, which is what      *)
(* ChannelArbiter knows of them.                                           *)
Content(info) == [timed |-> info.timeout # Endless, color |-> info.color]

Contents(m) == [p \in DOMAIN m.inputs |-> Content(m.inputs[p])]

(* m has the channels of chans, but for timed ones that may have gone.     *)
Keeps(m, chans) ==
    /\ DOMAIN m.inputs \subseteq DOMAIN chans
    /\ \A p \in DOMAIN m.inputs : Content(m.inputs[p]) = chans[p]
    /\ \A p \in DOMAIN chans \ DOMAIN m.inputs : chans[p].timed

(* The LEDs show one of the channels, whichever.                           *)
ShowsSome(h) ==
    \E p \in DOMAIN h.mux.inputs :
        h.leds.channel = p /\ h.leds.color = h.mux.inputs[p].color

KeepsLeds(g, h) == g.leds = h.leds \/ ShowsSome(g)

LEMMA KeepsItself == ASSUME NEW m PROVE Keeps(m, Contents(m))
BY DEF Keeps, Contents

(* Once more going is going.                                               *)
LEMMA KeepsTransitive ==
  ASSUME NEW m, NEW n, NEW chans, Keeps(n, chans), Keeps(m, Contents(n))
  PROVE  Keeps(m, chans)
BY DEF Keeps, Contents

LEMMA SetCurrentTimeKeeps ==
  ASSUME NEW m, NEW time
  PROVE  Keeps(SetCurrentTime(m, time), Contents(m))
BY DEF Keeps, Contents, Content, SetCurrentTime, Restrict, Expired

(* update() only lets channels expire, and shows one of those left.        *)
LEMMA UpdateKeeps ==
  ASSUME NEW h, Base(h), NEW time \in Nat
  PROVE  /\ Keeps(Update(h, time).mux, Contents(h.mux))
         /\ ShowsSome(Update(h, time))
<1> DEFINE mux == SetCurrentTime(h.mux, time)
           p   == VisibleChannel(h, mux)
<1>1. MuxerInv(mux)
  BY SetCurrentTimeInv DEF Base
<1>2. p \in DOMAIN mux.inputs
  BY <1>1 DEF VisibleChannel, HasPriority, MuxerInv
<1>3. Update(h, time) = Show(h, mux, p, time)
  BY <1>2 DEF Update
<1> HIDE DEF mux, p
<1>4. /\ Show(h, mux, p, time).mux = mux
      /\ Show(h, mux, p, time).leds.channel = p
      /\ Show(h, mux, p, time).leds.color = mux.inputs[p].color
  BY DEF Show, Base, IsCore
<1>5. QED
  BY <1>2, <1>3, <1>4, SetCurrentTimeKeeps DEF ShowsSome, mux

LEMMA SelectAutoKeeps ==
  ASSUME NEW h, Base(h), NEW time \in Nat
  PROVE  LET g == SetSourceAutoSelectEnabled(h, time)
         IN /\ Keeps(g.mux, Contents(h.mux))
            /\ ShowsSome(g)
            /\ g.auto = TRUE
<1> DEFINE auto == [h EXCEPT !.auto = TRUE]
<1>1. Base(auto) /\ auto.mux = h.mux /\ auto.auto = TRUE
  BY DEF Base, IsCore
<1> HIDE DEF auto
<1>2. QED
  BY <1>1, UpdateKeeps, UpdateInv DEF SetSourceAutoSelectEnabled, auto

(* chans after a write to channel p, and without it.                       *)
WithContent(chans, p, content) ==
    [q \in DOMAIN chans \cup {p} |-> IF q = p THEN content ELSE chans[q]]

Without(chans, p) == [q \in DOMAIN chans \ {p} |-> chans[q]]

LEMMA SetColorsKeeps ==
  ASSUME NEW h, Base(h), NEW time \in Nat,
         NEW p \in Priorities, NEW color \in Colors, NEW timeout \in Nat,
         NEW comp \in Components,
         p = Lowest => timeout = 0
  PROVE  LET g       == SetColors(h, p, color, timeout, comp, time)
             content == [timed |-> timeout > 0, color |-> color]
         IN /\ Keeps(g.mux, WithContent(Contents(h.mux), p, content))
            /\ KeepsLeds(g, h)
            /\ g.auto = h.auto
<1> DEFINE info    == [timeout |-> Deadline(timeout, time), color |-> color, comp |-> comp]
           content == [timed |-> timeout > 0, color |-> color]
           written == [h EXCEPT !.mux = SetInput(@, p, info)]
           g       == SetColors(h, p, color, timeout, comp, time)
<1>1. info \in InputInfo /\ Content(info) = content
  BY DEF InputInfo, Deadline, Endless, Content
<1>2. MuxerInv(SetInput(h.mux, p, info))
  <2>1. p = Lowest => info.timeout = Endless
    BY DEF Deadline
  <2>2. QED
    BY <1>1, <2>1, SetInputInv DEF Base
<1>3. /\ written.mux = SetInput(h.mux, p, info)
      /\ written.auto = h.auto /\ written.leds = h.leds
  BY DEF Base, IsCore
<1>4. Base(written)
  BY <1>2 DEF Base, IsCore, MuxerInv
<1> HIDE DEF info
<1>5. Contents(written.mux) = WithContent(Contents(h.mux), p, content)
  BY <1>1, <1>3 DEF Contents, WithContent, SetInput
<1>6. g = written \/ g = Update(written, time)
  BY DEF SetColors, info
<1> HIDE DEF written, g
<1>7. CASE g = written
  BY <1>3, <1>5, <1>7, KeepsItself DEF KeepsLeds, g
<1>8. CASE g = Update(written, time)
  BY <1>3, <1>4, <1>5, <1>8, UpdateKeeps, UpdateInv DEF KeepsLeds, g
<1>9. QED
  BY <1>6, <1>7, <1>8

LEMMA ClearKeeps ==
  ASSUME NEW h, Base(h), NEW time \in Nat, NEW p \in Channels
  PROVE  LET g == Clear(h, p, time)
         IN /\ p < Lowest  => Keeps(g.mux, Without(Contents(h.mux), p))
            /\ p >= Lowest => Keeps(g.mux, Contents(h.mux))
            /\ KeepsLeds(g, h)
            /\ g.auto \in {h.auto, TRUE}
<1> DEFINE cleared  == [h EXCEPT !.mux = ClearInput(@, p)]
           selected == IF ~cleared.auto /\ cleared.source = p
                         THEN SetSourceAutoSelectEnabled(cleared, time) ELSE cleared
           g        == Clear(h, p, time)
           edited   == IF p < Lowest THEN Without(Contents(h.mux), p) ELSE Contents(h.mux)
<1>1. p \in Nat /\ Lowest \in Nat
  BY LowestIsNat, PrioritiesAreNat DEF Channels
<1>2. CASE ~HasPriority(h.mux, p)
  <2>1. p # Lowest /\ p \notin DOMAIN h.mux.inputs /\ g = h
    BY <1>2 DEF HasPriority, Clear
  <2>2. Contents(h.mux) = Without(Contents(h.mux), p)
    BY <2>1 DEF Contents, Without
  <2>3. QED
    BY <2>1, <2>2, KeepsItself DEF KeepsLeds
<1>3. CASE HasPriority(h.mux, p)
  <2>1. MuxerInv(ClearInput(h.mux, p))
    BY ClearInputInv DEF Base
  <2>2. /\ cleared.mux = ClearInput(h.mux, p)
        /\ cleared.auto = h.auto /\ cleared.leds = h.leds /\ cleared.source = h.source
    BY DEF Base, IsCore
  <2>3. Base(cleared)
    BY <2>1 DEF Base, IsCore, MuxerInv
  <2>4. Contents(cleared.mux) = edited
    <3>1. CASE p >= Lowest
      BY <1>1, <2>2, <3>1 DEF ClearInput
    <3>2. CASE ~(p >= Lowest)
      <4>1. cleared.mux.inputs = Restrict(h.mux.inputs, DOMAIN h.mux.inputs \ {p})
        BY <2>2, <3>2 DEF ClearInput
      <4>2. QED
        BY <1>1, <3>2, <4>1 DEF Contents, Without, Restrict
    <3>3. QED
      BY <3>1, <3>2
  <2>5. g = selected \/ g = Update(selected, time)
    BY <1>3 DEF Clear
  <2> HIDE DEF cleared, g, edited
  <2>6. /\ Base(selected)
        /\ Keeps(selected.mux, edited)
        /\ selected.auto \in {h.auto, TRUE}
        /\ KeepsLeds(selected, h)
    BY <2>2, <2>3, <2>4, SelectAutoKeeps, SelectAutoInv, KeepsItself DEF KeepsLeds
  <2> HIDE DEF selected
  <2>7. Keeps(g.mux, edited) /\ KeepsLeds(g, h) /\ g.auto \in {h.auto, TRUE}
    <3>1. CASE g = selected
      BY <2>6, <3>1
    <3>2. CASE g = Update(selected, time)
      <4>1. Keeps(g.mux, Contents(selected.mux)) /\ ShowsSome(g) /\ g.auto = selected.auto
        BY <2>6, <3>2, UpdateKeeps, UpdateInv
      <4>2. Keeps(g.mux, edited)
        BY <2>6, <4>1, KeepsTransitive
      <4>3. QED
        BY <2>6, <4>1, <4>2 DEF KeepsLeds
    <3>3. QED
      BY <2>5, <3>1, <3>2
  <2>8. /\ p < Lowest  => edited = Without(Contents(h.mux), p)
        /\ p >= Lowest => edited = Contents(h.mux)
    BY <1>1 DEF edited
  <2>9. QED
    BY <2>7, <2>8 DEF g
<1>4. QED
  BY <1>2, <1>3

LEMMA ClearAllKeeps ==
  ASSUME NEW h, Base(h), NEW time \in Nat
  PROVE  LET g == ClearAll(h, time)
         IN /\ Keeps(g.mux, Contents(NewMuxer))
            /\ ShowsSome(g)
            /\ g.auto = TRUE
<1> DEFINE emptied  == [h EXCEPT !.mux = ClearAllInputs]
           selected == SetSourceAutoSelectEnabled(emptied, time)
<1>1. Base(emptied) /\ emptied.mux = NewMuxer
  BY NewMuxerInv DEF Base, IsCore, ClearAllInputs, MuxerInv
<1> HIDE DEF emptied
<1>2. Base(selected) /\ Keeps(selected.mux, Contents(NewMuxer)) /\ selected.auto = TRUE
  BY <1>1, SelectAutoInv, SelectAutoKeeps
<1>3. ClearAll(h, time) = Update(selected, time)
  BY DEF ClearAll, emptied
<1> HIDE DEF selected
<1>4. /\ Keeps(Update(selected, time).mux, Contents(selected.mux))
      /\ ShowsSome(Update(selected, time))
      /\ Update(selected, time).auto = TRUE
  BY <1>2, UpdateKeeps, UpdateInv
<1>5. QED
  BY <1>2, <1>3, <1>4, KeepsTransitive

-----------------------------------------------------------------------------
(* Which channels there can be after a slot.  This needs no more of a core *)
(* than its fields: it holds for whatever clients write, also to the       *)
(* lowest channel, and when a slot throws.                                 *)
CoreShape(h) ==
    /\ h \in [mux : {h.mux}, auto : {h.auto}, source : {h.source}, timer : {h.timer},
              prevComp : {h.prevComp}, backlight : {h.backlight}, leds : {h.leds},
              status : {h.status}]
    /\ h.mux = [inputs |-> h.mux.inputs, current |-> h.mux.current]

Used(h) == DOMAIN h.mux.inputs

LEMMA NewCoreUses == CoreShape(NewCore) /\ Used(NewCore) = {Lowest}
BY DEF CoreShape, Used, NewCore, NewMuxer

LEMMA MuxUses ==
  ASSUME NEW h, CoreShape(h), NEW m, m = [inputs |-> m.inputs, current |-> m.current]
  PROVE  LET g == [h EXCEPT !.mux = m]
         IN CoreShape(g) /\ Used(g) = DOMAIN m.inputs /\ g.auto = h.auto /\ g.source = h.source
BY DEF CoreShape, Used

LEMMA AutoUses ==
  ASSUME NEW h, CoreShape(h), NEW auto
  PROVE  CoreShape([h EXCEPT !.auto = auto]) /\ Used([h EXCEPT !.auto = auto]) = Used(h)
BY DEF CoreShape, Used

LEMMA UpdateUses ==
  ASSUME NEW h, CoreShape(h), NEW time
  PROVE  CoreShape(Update(h, time)) /\ Used(Update(h, time)) \subseteq Used(h)
<1> DEFINE mux == SetCurrentTime(h.mux, time)
           p   == VisibleChannel(h, mux)
<1>1. mux = [inputs |-> mux.inputs, current |-> mux.current]
      /\ DOMAIN mux.inputs \subseteq DOMAIN h.mux.inputs
  BY DEF SetCurrentTime, Restrict
<1> HIDE DEF mux
<1>2. CoreShape(Show(h, mux, p, time)) /\ Show(h, mux, p, time).mux = mux
  <2> DEFINE info  == mux.inputs[p]
             prev  == IF p < Lowest THEN info.comp ELSE h.prevComp
             back  == IF p < Lowest /\ info.comp # h.prevComp
                        THEN WantsBacklight(info.comp) ELSE h.backlight
             leds  == [channel |-> p, color |-> info.color, backlight |-> p < Lowest /\ back]
             timer == TimerFor(info, time)
  <2>1. Show(h, mux, p, time) = [h EXCEPT !.mux = mux, !.prevComp = prev, !.backlight = back,
                                          !.leds = leds, !.timer = timer]
    BY DEF Show
  <2> HIDE DEF prev, back, leds, timer
  <2>2. QED
    BY <1>1, <2>1 DEF CoreShape
<1> HIDE DEF p
<1>3. CoreShape([h EXCEPT !.mux = mux, !.status = "terminated"])
      /\ [h EXCEPT !.mux = mux, !.status = "terminated"].mux = mux
  <2> DEFINE g == [h EXCEPT !.mux = mux, !.status = "terminated"]
  <2>1. g \in [mux : {mux}, auto : {h.auto}, source : {h.source}, timer : {h.timer},
               prevComp : {h.prevComp}, backlight : {h.backlight}, leds : {h.leds},
               status : {"terminated"}]
    BY DEF CoreShape
  <2>2. QED
    BY <1>1, <2>1 DEF CoreShape
<1>4. Update(h, time) \in
          {Show(h, mux, p, time), [h EXCEPT !.mux = mux, !.status = "terminated"]}
  BY DEF Update, mux, p
<1>5. QED
  BY <1>1, <1>2, <1>3, <1>4 DEF Used

LEMMA SetColorsUses ==
  ASSUME NEW h, CoreShape(h), NEW p, NEW color, NEW timeout, NEW comp, NEW time
  PROVE  LET g == SetColors(h, p, color, timeout, comp, time)
         IN CoreShape(g) /\ Used(g) \subseteq Used(h) \cup {p}
<1> DEFINE info    == [timeout |-> Deadline(timeout, time), color |-> color, comp |-> comp]
           written == [h EXCEPT !.mux = SetInput(@, p, info)]
<1>1. \/ SetColors(h, p, color, timeout, comp, time) = written
      \/ SetColors(h, p, color, timeout, comp, time) = Update(written, time)
  BY DEF SetColors
<1> HIDE DEF info
<1>2. CoreShape(written) /\ Used(written) = Used(h) \cup {p}
  <2> DEFINE m == SetInput(h.mux, p, info)
  <2>1. m = [inputs |-> m.inputs, current |-> m.current]
    BY DEF SetInput
  <2>2. DOMAIN m.inputs = Used(h) \cup {p}
    BY DEF SetInput, Used
  <2>3. written = [h EXCEPT !.mux = m]
    OBVIOUS
  <2> HIDE DEF m, written
  <2>4. QED
    BY <2>1, <2>2, <2>3, MuxUses
<1> HIDE DEF written
<1>3. QED
  BY <1>1, <1>2, UpdateUses

LEMMA ClearUses ==
  ASSUME NEW h, CoreShape(h), NEW p, NEW time
  PROVE  /\ CoreShape(Clear(h, p, time))
         /\ Used(Clear(h, p, time)) \subseteq Used(h)
         /\ ~(p >= Lowest) => p \notin Used(Clear(h, p, time))
<1> DEFINE cleared  == [h EXCEPT !.mux = ClearInput(@, p)]
           selected == IF ~cleared.auto /\ cleared.source = p
                         THEN SetSourceAutoSelectEnabled(cleared, time) ELSE cleared
<1>1. CASE ~HasPriority(h.mux, p)
  BY <1>1 DEF Clear, HasPriority, Used
<1>2. CASE HasPriority(h.mux, p)
  <2>1. /\ CoreShape(cleared) /\ Used(cleared) \subseteq Used(h)
        /\ ~(p >= Lowest) => p \notin Used(cleared)
    BY DEF CoreShape, Used, ClearInput, Restrict
  <2>2. Clear(h, p, time) \in {selected, Update(selected, time)}
    BY <1>2 DEF Clear
  <2> HIDE DEF cleared
  <2>3. CoreShape(selected) /\ Used(selected) \subseteq Used(cleared)
    <3> DEFINE auto == [cleared EXCEPT !.auto = TRUE]
    <3>1. CoreShape(auto) /\ Used(auto) = Used(cleared)
      BY <2>1, AutoUses
    <3> HIDE DEF auto
    <3>2. SetSourceAutoSelectEnabled(cleared, time) = Update(auto, time)
      BY DEF SetSourceAutoSelectEnabled, auto
    <3>3. QED
      BY <2>1, <3>1, <3>2, UpdateUses
  <2> HIDE DEF selected
  <2>4. QED
    BY <2>1, <2>2, <2>3, UpdateUses
<1>3. QED
  BY <1>1, <1>2

LEMMA ClearAllUses ==
  ASSUME NEW h, CoreShape(h), NEW time
  PROVE  CoreShape(ClearAll(h, time)) /\ Used(ClearAll(h, time)) \subseteq {Lowest}
<1> DEFINE emptied == [h EXCEPT !.mux = ClearAllInputs]
           auto    == [emptied EXCEPT !.auto = TRUE]
<1>1. ClearAll(h, time) = Update(Update(auto, time), time)
  BY DEF ClearAll, SetSourceAutoSelectEnabled
<1>2. CoreShape(auto) /\ Used(auto) = {Lowest}
  <2>1. /\ ClearAllInputs = [inputs |-> ClearAllInputs.inputs, current |-> ClearAllInputs.current]
        /\ DOMAIN ClearAllInputs.inputs = {Lowest}
    BY DEF ClearAllInputs, NewMuxer
  <2>2. CoreShape(emptied) /\ Used(emptied) = {Lowest}
    BY <2>1, MuxUses
  <2> HIDE DEF emptied
  <2>3. QED
    BY <2>2, AutoUses
<1> HIDE DEF auto
<1>3. CoreShape(Update(auto, time)) /\ Used(Update(auto, time)) \subseteq {Lowest}
  BY <1>2, UpdateUses
<1>4. QED
  BY <1>1, <1>3, UpdateUses

LEMMA TimerUses ==
  ASSUME NEW h, CoreShape(h), NEW time
  PROVE  /\ CoreShape(Timeout(h, time)) /\ Used(Timeout(h, time)) \subseteq Used(h)
         /\ CoreShape(Elapse(h)) /\ Used(Elapse(h)) = Used(h)
         /\ Elapse(h).status = h.status
<1> DEFINE off == [h EXCEPT !.timer = TimerOff]
<1>1. CoreShape(off) /\ Used(off) = Used(h)
  BY DEF CoreShape, Used
<1> HIDE DEF off
<1>2. Timeout(h, time) = Update(off, time)
  BY DEF Timeout, off
<1>3. CoreShape(Elapse(h)) /\ Elapse(h).mux = h.mux /\ Elapse(h).status = h.status
  BY DEF CoreShape, Elapse
<1>4. QED
  BY <1>1, <1>2, <1>3, UpdateUses DEF Used

==============================================================================
