------------------------ MODULE ImageProcessor_proofs -------------------------
(***************************************************************************)
(* Proofs about the image processor, for every set of image sizes, every   *)
(* detection mode and all configured counts.                               *)
(***************************************************************************)
EXTENDS ImageProcessor, TLAPS

NatBorders == [horizontal : Nat, vertical : Nat]

LEMMA MaxOfTwo ==
  ASSUME NEW a \in Nat, NEW b \in Nat
  PROVE  Max({a, b}) \in Nat /\ Max({a, b}) >= a /\ Max({a, b}) >= b
<1>1. \E x \in {a, b} : \A y \in {a, b} : x >= y
  <2>1. CASE a >= b
    BY <2>1
  <2>2. CASE b >= a
    BY <2>2
  <2>3. QED
    BY <2>1, <2>2
<1>2. Max({a, b}) \in {a, b} /\ \A y \in {a, b} : Max({a, b}) >= y
  BY <1>1 DEF Max
<1>3. QED
  BY <1>2

(* The counters' bound lies above both configured counts.                  *)
LEMMA CapBounds ==
  /\ CountCap \in Nat
  /\ \A border : SwitchCnt(border) \in Nat /\ SwitchCnt(border) < CountCap
  /\ RunCap \in Nat
BY MaxOfTwo, CountsAreNat DEF CountCap, RunCap, SwitchCnt

LEMMA MaxIsOne ==
  ASSUME NEW a \in Nat, NEW b \in Nat
  PROVE  Max({a, b}) \in {a, b}
<1>1. \E x \in {a, b} : \A y \in {a, b} : x >= y
  <2>1. a >= b \/ b >= a
    OBVIOUS
  <2>2. QED
    BY <2>1
<1>2. QED
  BY <1>1 DEF Max

LEMMA CountBounds ==
  ASSUME NEW cap \in Nat, NEW n \in Nat, n <= cap
  PROVE  /\ Count(n, cap) \in 0 .. cap
         /\ Count(n, cap) >= n
         /\ Count(n, cap) <= n + 1
         /\ n < cap => Count(n, cap) = n + 1
BY DEF Count

(* A detected border is unknown or has natural sizes.                      *)
LEMMA DetectableBorders ==
  ASSUME NEW size \in Sizes
  PROVE  /\ Detectable(size) \subseteq NatBorders \cup {Unknown}
         /\ Detectable(size) \subseteq Borders
         /\ Unknown \in Borders
<1> DEFINE w == size.width \div 3
           h == size.height \div 3
           sizes(third) == IF Mode = "classic" THEN 0 .. Min({third, Max({w, h}) - 1})
                                               ELSE 0 .. third - 1
<1>1. ASSUME NEW third, NEW n \in sizes(third) PROVE Blurred(n) \in Nat
  <2>1. n \in Nat
    BY <1>1
  <2>2. QED
    BY <2>1, CountsAreNat DEF Blurred
<1>2. \A y \in sizes(h), x \in sizes(w) : Border(Blurred(y), Blurred(x)) \in NatBorders
  BY <1>1 DEF Border, NatBorders
<1>3. Detectable(size) = {Border(Blurred(y), Blurred(x)) : y \in sizes(h), x \in sizes(w)} \cup {Unknown}
  BY DEF Detectable
<1>4. Detectable(size) \subseteq NatBorders \cup {Unknown}
  <2> HIDE DEF sizes
  <2>1. QED
    BY <1>2, <1>3
<1>5. Unknown \in Detectable(size)
  BY <1>3
<1>6. Detectable(size) \subseteq Borders
  BY DEF Borders
<1>7. QED
  BY <1>4, <1>5, <1>6

LEMMA BordersAreTyped == Borders \subseteq NatBorders \cup {Unknown}
BY DetectableBorders DEF Borders


-----------------------------------------------------------------------------
(* The part of the invariant about the tracker alone: a border that was    *)
(* counted up to its number is the current one, unless that was reset.     *)
Reached ==
    tracker.consistent >= SwitchCnt(tracker.previous)
        => tracker.current \in {tracker.previous, Unknown}

(* A run of the watched border is covered by the inconsistent images while *)
(* another border is the previous one, and by the consistent ones then.    *)
RunCounted ==
    /\ ~enabled => run = 0
    /\ (run > 0 /\ tracker.previous # watched) =>
           run <= tracker.inconsistent /\ tracker.inconsistent <= MaxInconsistentCnt
    /\ (run > 0 /\ tracker.previous = watched) =>
           /\ run <= tracker.consistent + MaxInconsistentCnt + 1
           /\ tracker.consistent >= SwitchCnt(watched) => tracker.current = watched

(* A candidate has been seen once more often than it was counted.          *)
HitsCounted ==
    tracker.previous = watched =>
        /\ misses <= tracker.inconsistent
        /\ tracker.current \notin {watched, Unknown} => hits > tracker.consistent

IInv == TypeOK /\ Reached /\ RunCounted /\ HitsCounted /\ MappingNotStale


Trackers == [current      : Borders,
             previous     : Borders,
             consistent   : 0 .. CountCap,
             inconsistent : 0 .. Max({FirstInconsistentCnt, MaxInconsistentCnt + 1})]

(* What updateBorder does with an image that it discards ...               *)
LEMMA DiscardedImage ==
  ASSUME NEW t \in Trackers, NEW border \in Borders, ~Accepts(t, border)
  PROVE  LET u == UpdateBorder(t, border)
         IN /\ u \in Trackers
            /\ border # t.previous
            /\ t.inconsistent < MaxInconsistentCnt
            /\ u = [t EXCEPT !.inconsistent = t.inconsistent + 1]
<1> DEFINE top == Max({FirstInconsistentCnt, MaxInconsistentCnt + 1})
<1>1. top \in Nat /\ top >= MaxInconsistentCnt + 1
  BY MaxOfTwo, CountsAreNat
<1>2. t.inconsistent \in 0 .. top /\ t.inconsistent < MaxInconsistentCnt /\ border # t.previous
  BY CountsAreNat DEF Trackers, Accepts
<1>3. Count(t.inconsistent, MaxInconsistentCnt + 1) = t.inconsistent + 1
  BY <1>2, CountsAreNat DEF Count
<1>4. UpdateBorder(t, border) = [t EXCEPT !.inconsistent = t.inconsistent + 1]
  BY <1>2, <1>3 DEF UpdateBorder, Counted
<1>5. [t EXCEPT !.inconsistent = t.inconsistent + 1] \in Trackers
  <2>1. t.inconsistent + 1 \in 0 .. top
    BY <1>1, <1>2, CountsAreNat
  <2> HIDE DEF top
  <2>2. QED
    BY <2>1 DEF Trackers, top
<1>6. QED
  BY <1>2, <1>4, <1>5

(* ... and with one that it accepts.                                       *)
LEMMA AcceptedImage ==
  ASSUME NEW t \in Trackers, NEW border \in Borders, Accepts(t, border)
  PROVE  LET u == UpdateBorder(t, border)
         IN /\ u \in Trackers
            /\ u.previous = border
            /\ u.consistent = IF border = t.previous THEN Count(t.consistent, CountCap) ELSE 0
            /\ u.current \in {t.current, border}
            /\ (u.current = border \/ ~IsStable([t EXCEPT !.consistent = u.consistent], border))
            /\ u.current # t.current =>
                   u.consistent = SwitchCnt(border) \/ t.current = Unknown
<1> DEFINE top == Max({FirstInconsistentCnt, MaxInconsistentCnt + 1})
           c   == Counted(t, border)
           u   == UpdateBorder(t, border)
<1>1. top \in Nat /\ top >= MaxInconsistentCnt + 1
  BY MaxOfTwo, CountsAreNat
<1>2. t.inconsistent \in 0 .. top /\ t.consistent \in 0 .. CountCap
  BY DEF Trackers
<1>3. Count(t.inconsistent, MaxInconsistentCnt + 1) \in 0 .. top
  BY <1>1, <1>2, CountsAreNat DEF Count
<1>4. Count(t.consistent, CountCap) \in 0 .. CountCap
  BY <1>2, CapBounds DEF Count
<1> HIDE DEF top
<1>5. /\ c \in Trackers
      /\ c.previous = border
      /\ c.current = t.current
      /\ c.consistent = IF border = t.previous THEN Count(t.consistent, CountCap) ELSE 0
  <2>1. CASE border = t.previous
    <3>1. c = [t EXCEPT !.consistent = Count(t.consistent, CountCap), !.inconsistent = 0]
      BY <2>1 DEF Counted
    <3>2. 0 \in 0 .. top
      BY <1>1 DEF top
    <3>3. QED
      BY <2>1, <3>1, <3>2, <1>4 DEF Trackers, top
  <2>2. CASE border # t.previous
    <3>1. c = [t EXCEPT !.inconsistent = Count(t.inconsistent, MaxInconsistentCnt + 1),
                        !.previous = border, !.consistent = 0]
      BY <2>2 DEF Counted, Trackers
    <3>2. 0 \in 0 .. CountCap
      BY CapBounds
    <3>3. QED
      BY <2>2, <3>1, <3>2, <1>3 DEF Trackers, top
  <2>3. QED
    BY <2>1, <2>2
<1> HIDE DEF c
<1>6. IsStable(c, border) <=> IsStable([t EXCEPT !.consistent = c.consistent], border)
  BY <1>5 DEF IsStable, Trackers
<1>7. CASE border = t.current
  <2>1. u = [c EXCEPT !.inconsistent = 0]
    BY <1>7, <1>5 DEF UpdateBorder, c
  <2>2. 0 \in 0 .. top
    BY <1>1 DEF top
  <2>3. QED
    BY <1>7, <1>5, <2>1, <2>2 DEF Trackers, top
<1>8. CASE border # t.current /\ IsStable(c, border)
  <2>1. u = [c EXCEPT !.current = border]
    BY <1>8 DEF UpdateBorder, c
  <2>2. QED
    BY <1>8, <1>5, <2>1 DEF Trackers, IsStable
<1>9. CASE border # t.current /\ ~IsStable(c, border)
  <2>1. u = c
    BY <1>9 DEF UpdateBorder, c
  <2>2. QED
    BY <1>9, <1>5, <1>6, <2>1
<1>10. QED
  BY <1>7, <1>8, <1>9


-----------------------------------------------------------------------------
LEMMA InitInv == Init => IInv
<1> SUFFICES ASSUME Init PROVE IInv
  OBVIOUS
<1>1. Unknown \in Borders
  BY DetectableBorders DEF Init, Borders
<1>2. FirstInconsistentCnt \in 0 .. Max({FirstInconsistentCnt, MaxInconsistentCnt + 1})
  BY MaxOfTwo, CountsAreNat
<1>3. TypeOK
  BY <1>1, <1>2, CapBounds, CountsAreNat DEF Init, TypeOK
<1>4. Reached /\ RunCounted /\ HitsCounted
  BY CountsAreNat DEF Init, Reached, RunCounted, HitsCounted
<1>5. MappingNotStale
  BY DEF Init, MappingNotStale, NoMapping
<1>6. QED
  BY <1>3, <1>4, <1>5 DEF IInv

(* A mapping is well typed, and never for a border that is not current.    *)
LEMMA MappingForTyped ==
  ASSUME NEW size \in Sizes, NEW border \in Borders
  PROVE  /\ MappingFor(size, border) \in [width : Nat, height : Nat, border : NatBorders]
         /\ MappingFor(size, border).border # NoBorder => MappingFor(size, border).border = border
BY BordersAreTyped, SizesAreSizes DEF MappingFor, NoBorder, Border, NatBorders

LEMMA ResizedTyped ==
  ASSUME TypeOK, NEW size \in Sizes
  PROVE  /\ Resized(size) \in [width : Nat, height : Nat, border : NatBorders]
         /\ Resized(size).border \in {mapping.border, NoBorder}
<1>1. MappingFor(size, NoBorder) \in [width : Nat, height : Nat, border : NatBorders]
      /\ MappingFor(size, NoBorder).border = NoBorder
  BY SizesAreSizes DEF MappingFor, NoBorder, Border, NatBorders
<1>2. mapping \in [width : Nat, height : Nat, border : NatBorders]
  BY DEF TypeOK, NoMapping, NoBorder, Border, NatBorders
<1>3. QED
  BY <1>1, <1>2 DEF Resized

(* The history stays typed while an image is watched.                      *)
LEMMA WatchTyped ==
  ASSUME TypeOK, NEW border, Watch(border)
  PROVE  run' \in 0 .. RunCap /\ hits' \in 0 .. CountCap /\ misses' \in 0 .. MaxInconsistentCnt + 1
<1>1. run \in 0 .. RunCap /\ hits \in 0 .. CountCap /\ misses \in 0 .. MaxInconsistentCnt + 1
  BY DEF TypeOK
<1>2. /\ Count(run, RunCap) \in 0 .. RunCap
      /\ Count(hits, CountCap) \in 0 .. CountCap
      /\ Count(misses, MaxInconsistentCnt + 1) \in 0 .. MaxInconsistentCnt + 1
  BY <1>1, CapBounds, CountsAreNat DEF Count
<1>3. QED
  BY <1>1, <1>2, CapBounds, CountsAreNat DEF Watch

(* An image that is discarded.                                             *)
LEMMA DiscardStep ==
  ASSUME IInv, NEW size \in Sizes, NEW border \in Detectable(size), ~Accepts(tracker, border),
         VerifyWhileEnabled(size, border), Watch(border), UNCHANGED <<enabled, watched>>
  PROVE  IInv' /\ tracker'.current = tracker.current
<1>1. tracker \in Trackers /\ border \in Borders
  BY DetectableBorders DEF IInv, TypeOK, Trackers
<1>2. /\ tracker' \in Trackers
      /\ border # tracker.previous
      /\ tracker.inconsistent < MaxInconsistentCnt
      /\ tracker' = [tracker EXCEPT !.inconsistent = tracker.inconsistent + 1]
  BY <1>1, DiscardedImage DEF VerifyWhileEnabled
<1>3. /\ tracker'.current = tracker.current
      /\ tracker'.previous = tracker.previous
      /\ tracker'.consistent = tracker.consistent
      /\ tracker'.inconsistent = tracker.inconsistent + 1
      /\ tracker.inconsistent \in Nat /\ tracker.consistent \in Nat
  BY <1>1, <1>2, CapBounds, MaxOfTwo, CountsAreNat DEF Trackers
<1>4. mapping' = Resized(size)
  BY <1>1, <1>3 DEF VerifyWhileEnabled, BorderUpdated
<1>5. TypeOK'
  BY <1>2, <1>4, ResizedTyped, WatchTyped DEF IInv, TypeOK, Trackers, NatBorders
<1>6. Reached'
  BY <1>3 DEF IInv, Reached, SwitchCnt
<1>7. RunCounted'
  <2>1. CASE border = watched
    <3>1. run' = Count(run, RunCap) /\ tracker.previous # watched /\ enabled
      BY <2>1, <1>2 DEF Watch, VerifyWhileEnabled
    <3>2. run \in Nat /\ run' <= run + 1
      BY <3>1, CapBounds DEF IInv, TypeOK, Count
    <3>3. run' <= tracker.inconsistent + 1
      BY <3>1, <3>2, <1>3, CapBounds DEF IInv, RunCounted, Count
    <3>4. QED
      BY <3>1, <3>3, <1>2, <1>3, CountsAreNat DEF RunCounted
  <2>2. CASE border # watched
    BY <2>2, WatchTyped DEF Watch, RunCounted
  <2>3. QED
    BY <2>1, <2>2
<1>8. HitsCounted'
  <2> SUFFICES ASSUME tracker.previous = watched
               PROVE  /\ misses' <= tracker.inconsistent + 1
                      /\ tracker.current \notin {watched, Unknown} => hits' > tracker.consistent
    BY <1>3 DEF HitsCounted
  <2>1. border # watched /\ misses' = Count(misses, MaxInconsistentCnt + 1)
    BY <1>2 DEF Watch
  <2>2. misses \in Nat /\ misses <= tracker.inconsistent
    BY CountsAreNat DEF IInv, TypeOK, HitsCounted
  <2>3. misses' <= tracker.inconsistent + 1 /\ misses' <= MaxInconsistentCnt
    BY <2>1, <2>2, <1>2, <1>3, CountsAreNat DEF Count
  <2>4. hits' = hits
    BY <2>1, <2>3, <1>3, CountsAreNat, WatchTyped DEF Watch, IInv
  <2>5. QED
    BY <2>3, <2>4 DEF IInv, HitsCounted
<1>9. MappingNotStale'
  BY <1>3, <1>4, ResizedTyped DEF IInv, MappingNotStale
<1>10. QED
  BY <1>3, <1>5, <1>6, <1>7, <1>8, <1>9 DEF IInv


(* An image that is accepted.  The second fact is the one that the action  *)
(* property needs.                                                         *)
LEMMA AcceptStep ==
  ASSUME IInv, NEW size \in Sizes, NEW border \in Detectable(size), Accepts(tracker, border),
         VerifyWhileEnabled(size, border), Watch(border), UNCHANGED <<enabled, watched>>
  PROVE  /\ IInv'
         /\ (tracker.current # Unknown /\ tracker'.current # tracker.current
                 /\ tracker'.current = watched) => hits >= SwitchCnt(watched)
<1>1. tracker \in Trackers /\ border \in Borders
  BY DetectableBorders DEF IInv, TypeOK, Trackers
<1> DEFINE counted == [tracker EXCEPT !.consistent = tracker'.consistent]
<1>2. /\ tracker' \in Trackers
      /\ tracker'.previous = border
      /\ tracker'.consistent = IF border = tracker.previous
                                 THEN Count(tracker.consistent, CountCap) ELSE 0
      /\ tracker'.current \in {tracker.current, border}
      /\ tracker'.current = border \/ ~IsStable(counted, border)
      /\ tracker'.current # tracker.current =>
             tracker'.consistent = SwitchCnt(border) \/ tracker.current = Unknown
  BY <1>1, AcceptedImage DEF VerifyWhileEnabled
<1>3. /\ tracker.consistent \in 0 .. CountCap
      /\ tracker'.consistent \in 0 .. CountCap
      /\ tracker'.inconsistent \in Nat
      /\ CountCap \in Nat /\ SwitchCnt(border) \in Nat /\ SwitchCnt(border) < CountCap
  BY <1>1, <1>2, CapBounds, MaxOfTwo, CountsAreNat DEF Trackers
<1>4. counted.consistent = tracker'.consistent /\ counted.current = tracker.current
  BY <1>1 DEF Trackers
(* Whatever was counted up to its number is current now.                   *)
<1>5. tracker'.consistent >= SwitchCnt(border) => tracker'.current = border
  <2> SUFFICES ASSUME tracker'.consistent >= SwitchCnt(border), tracker'.current # border
               PROVE  FALSE
    OBVIOUS
  <2>1. /\ tracker'.current = tracker.current
        /\ tracker'.consistent # SwitchCnt(border)
        /\ border = Unknown \/ tracker.current # Unknown
    BY <1>2, <1>4 DEF IsStable
  <2>2. border = tracker.previous /\ tracker.consistent >= SwitchCnt(border)
    BY <2>1, <1>2, <1>3 DEF Count
  <2>3. QED
    BY <2>1, <2>2 DEF IInv, Reached
<1>6. mapping' = IF tracker'.current # tracker.current
                   THEN MappingFor(size, tracker'.current) ELSE Resized(size)
  BY DEF VerifyWhileEnabled, BorderUpdated
<1>7. TypeOK'
  <2>1. mapping' \in [width : Nat, height : Nat, border : NatBorders]
    BY <1>1, <1>2, <1>6, MappingForTyped, ResizedTyped DEF IInv
  <2>2. QED
    BY <2>1, <1>2, WatchTyped DEF IInv, TypeOK, Trackers, NatBorders
<1>8. Reached'
  BY <1>2, <1>5 DEF Reached, SwitchCnt
<1>9. RunCounted'
  <2>1. CASE border = watched
    <3>1. run' = Count(run, RunCap) /\ run \in Nat /\ run <= RunCap /\ run' \in Nat
      BY <2>1, CapBounds, WatchTyped DEF Watch, IInv, TypeOK
    <3>2. run' <= run + 1 /\ run' <= RunCap /\ RunCap = MaxInconsistentCnt + CountCap
      BY <3>1, CapBounds DEF Count, RunCap
    <3>3. run' <= tracker'.consistent + MaxInconsistentCnt + 1
      <4>1. CASE border = tracker.previous
        <5>1. run <= tracker.consistent + MaxInconsistentCnt + 1
          BY <4>1, <2>1, <1>3, <3>1, CountsAreNat DEF IInv, RunCounted
        <5>2. QED
          BY <4>1, <5>1, <3>1, <3>2, <1>2, <1>3, CountsAreNat DEF Count
      <4>2. CASE border # tracker.previous
        <5>1. run <= MaxInconsistentCnt
          <6>1. tracker.inconsistent \in Nat
            BY <1>1, MaxOfTwo, CountsAreNat DEF Trackers
          <6>2. QED
            BY <4>2, <2>1, <3>1, <6>1, CountsAreNat DEF IInv, RunCounted
        <5>2. tracker'.consistent = 0
          BY <4>2, <1>2
        <5>3. QED
          BY <5>1, <5>2, <3>1, <3>2, CountsAreNat
      <4>3. QED
        BY <4>1, <4>2
    <3>4. QED
      BY <2>1, <3>3, <1>2, <1>5 DEF RunCounted, VerifyWhileEnabled
  <2>2. CASE border # watched
    BY <2>2, WatchTyped DEF Watch, RunCounted
  <2>3. QED
    BY <2>1, <2>2
<1>10. ASSUME border = watched, border = tracker.previous, tracker.current \notin {watched, Unknown}
       PROVE  hits > tracker.consistent /\ tracker.consistent < SwitchCnt(border)
  BY <1>10, <1>3 DEF IInv, HitsCounted, Reached
<1>11. hits \in 0 .. CountCap
  BY DEF IInv, TypeOK
<1>12. HitsCounted'
  <2> SUFFICES ASSUME border = watched
               PROVE  /\ misses' = 0
                      /\ tracker'.current \notin {watched, Unknown} => hits' > tracker'.consistent
    BY <1>2, <1>3 DEF HitsCounted
  <2>1. misses' = 0
    BY DEF Watch
  <2>2. ASSUME tracker'.current \notin {watched, Unknown} PROVE hits' > tracker'.consistent
    <3>1. tracker'.current = tracker.current /\ hits' = Count(hits, CountCap)
      BY <2>1, <2>2, <1>2, CountsAreNat DEF Watch
    <3>2. CASE border = tracker.previous
      BY <3>1, <3>2, <2>2, <1>2, <1>3, <1>10, <1>11 DEF Count
    <3>3. CASE border # tracker.previous
      BY <3>1, <3>3, <1>2, <1>3, <1>11 DEF Count
    <3>4. QED
      BY <3>2, <3>3
  <2>3. QED
    BY <2>1, <2>2
<1>13. MappingNotStale'
  BY <1>1, <1>2, <1>6, MappingForTyped, ResizedTyped DEF IInv, MappingNotStale
<1>14. ASSUME tracker.current # Unknown, tracker'.current # tracker.current,
              tracker'.current = watched
       PROVE  hits >= SwitchCnt(watched)
  <2>1. border = watched /\ tracker'.consistent = SwitchCnt(border)
    BY <1>14, <1>2
  <2>2. CASE border = tracker.previous
    BY <2>1, <2>2, <1>14, <1>2, <1>3, <1>10, <1>11 DEF Count
  <2>3. CASE border # tracker.previous
    BY <2>1, <2>3, <1>2, <1>11
  <2>4. QED
    BY <2>2, <2>3
<1>15. QED
  BY <1>7, <1>8, <1>9, <1>12, <1>13, <1>14 DEF IInv


LEMMA DisabledStep ==
  ASSUME IInv, NEW size \in Sizes, VerifyWhileDisabled(size),
         UNCHANGED <<run, hits, misses, enabled, watched>>
  PROVE  IInv'
<1>1. NoBorder \in NatBorders /\ Unknown \in Borders /\ NoBorder # Unknown
  BY DetectableBorders DEF NoBorder, Unknown, Border, NatBorders
<1>2. /\ Resized(size) \in [width : Nat, height : Nat, border : NatBorders]
      /\ MappingFor(size, NoBorder) \in [width : Nat, height : Nat, border : NatBorders]
      /\ MappingFor(size, NoBorder).border = NoBorder
  BY <1>1, ResizedTyped, SizesAreSizes DEF IInv, MappingFor
<1>3. run = 0 /\ run' = 0
  BY DEF IInv, RunCounted, VerifyWhileDisabled
<1>4. CASE Resized(size).border # NoBorder
  <2>1. /\ tracker' = [tracker EXCEPT !.current = Unknown]
        /\ mapping' = MappingFor(size, NoBorder)
    BY <1>4 DEF VerifyWhileDisabled
  <2>2. /\ tracker'.current = Unknown
        /\ tracker'.previous = tracker.previous
        /\ tracker'.consistent = tracker.consistent
        /\ tracker'.inconsistent = tracker.inconsistent
    BY <2>1 DEF IInv, TypeOK
  <2>3. TypeOK'
    BY <2>1, <1>1, <1>2 DEF IInv, TypeOK, NatBorders
  <2>4. QED
    BY <2>1, <2>2, <2>3, <1>2, <1>3
       DEF IInv, Reached, RunCounted, HitsCounted, MappingNotStale, SwitchCnt
<1>5. CASE Resized(size).border = NoBorder
  <2>1. UNCHANGED tracker /\ mapping' = Resized(size)
    BY <1>5 DEF VerifyWhileDisabled
  <2>2. TypeOK'
    BY <2>1, <1>2 DEF IInv, TypeOK, NatBorders
  <2>3. QED
    BY <2>1, <2>2, <1>3, <1>5
       DEF IInv, Reached, RunCounted, HitsCounted, MappingNotStale, SwitchCnt
<1>6. QED
  BY <1>4, <1>5

LEMMA SetSizeStep ==
  ASSUME IInv, NEW size \in Sizes, SetSize(size)
  PROVE  IInv'
<1>1. /\ mapping' \in [width : Nat, height : Nat, border : NatBorders]
      /\ mapping'.border \in {mapping.border, NoBorder}
  BY ResizedTyped DEF SetSize, IInv
<1>2. QED
  BY <1>1 DEF SetSize, IInv, TypeOK, Reached, RunCounted, HitsCounted, MappingNotStale,
     SwitchCnt, NatBorders

LEMMA SetEnabledStep ==
  ASSUME IInv, NEW enable \in BOOLEAN, SetEnabled(enable)
  PROVE  IInv'
BY CapBounds DEF SetEnabled, IInv, TypeOK, Reached, RunCounted, HitsCounted, MappingNotStale,
   SwitchCnt

(* Every step keeps the invariant, and switches known borders only after   *)
(* enough images.                                                          *)
SwitchStep ==
    (tracker.current # Unknown /\ tracker'.current # tracker.current
            /\ watched # Unknown /\ tracker'.current = watched)
           => hits >= BorderSwitchCnt

LEMMA NextInv == IInv /\ [Next]_vars => IInv' /\ SwitchStep
<1> SUFFICES ASSUME IInv, [Next]_vars PROVE IInv' /\ SwitchStep
  OBVIOUS
<1>1. ASSUME NEW size \in Sizes, NEW border \in Detectable(size), ProcessImage(size, border)
      PROVE  IInv' /\ SwitchStep
  <2>1. CASE VerifyWhileEnabled(size, border) /\ Watch(border) /\ Accepts(tracker, border)
    BY <1>1, <2>1, AcceptStep DEF ProcessImage, SwitchStep, SwitchCnt
  <2>2. CASE VerifyWhileEnabled(size, border) /\ Watch(border) /\ ~Accepts(tracker, border)
    BY <1>1, <2>2, DiscardStep DEF ProcessImage, SwitchStep
  <2>3. CASE VerifyWhileDisabled(size) /\ UNCHANGED history
    <3>1. IInv'
      BY <1>1, <2>3, DisabledStep DEF ProcessImage, history
    <3>2. tracker'.current \in {tracker.current, Unknown}
      BY <2>3 DEF VerifyWhileDisabled, IInv, TypeOK
    <3>3. QED
      BY <3>1, <3>2, <1>1 DEF SwitchStep, ProcessImage
  <2>4. QED
    BY <1>1, <2>1, <2>2, <2>3 DEF ProcessImage
<1>2. ASSUME NEW size \in Sizes, SetSize(size) PROVE IInv' /\ SwitchStep
  BY <1>2, SetSizeStep DEF SetSize, SwitchStep
<1>3. ASSUME NEW enable \in BOOLEAN, SetEnabled(enable) PROVE IInv' /\ SwitchStep
  BY <1>3, SetEnabledStep DEF SetEnabled, SwitchStep
<1>4. CASE UNCHANGED vars
  BY <1>4 DEF vars, IInv, TypeOK, Reached, RunCounted, HitsCounted, MappingNotStale, SwitchCnt,
     SwitchStep
<1>5. QED
  BY <1>1, <1>2, <1>3, <1>4 DEF Next

LEMMA Invariance == Spec => []IInv
<1>1. Init => IInv
  BY InitInv
<1>2. IInv /\ [Next]_vars => IInv'
  BY NextInv
<1>3. QED
  BY <1>1, <1>2, PTL DEF Spec

-----------------------------------------------------------------------------
(* Every state is well typed; no border is negative in a mapping.          *)
THEOREM TypeCorrect == Spec => []TypeOK
<1>1. IInv => TypeOK
  BY DEF IInv
<1>2. QED
  BY <1>1, Invariance, PTL

(* A border that is detected in enough images in a row becomes the current *)
(* one, whatever the counters had counted before.                          *)
THEOREM ConsistentBorderCorrect == Spec => []ConsistentBorderWins
<1>1. IInv => ConsistentBorderWins
  <2> SUFFICES ASSUME IInv, run > MaxInconsistentCnt + SwitchCnt(watched)
               PROVE  tracker.current = watched
    BY DEF ConsistentBorderWins
  <2>1. /\ run \in Nat /\ SwitchCnt(watched) \in Nat
        /\ tracker.consistent \in Nat /\ tracker.inconsistent \in Nat
    BY CapBounds, MaxOfTwo, CountsAreNat DEF IInv, TypeOK
  <2>2. tracker.previous = watched
    BY <2>1, CountsAreNat DEF IInv, RunCounted
  <2>3. tracker.consistent >= SwitchCnt(watched)
    BY <2>1, <2>2, CountsAreNat DEF IInv, RunCounted
  <2>4. QED
    BY <2>1, <2>2, <2>3, CountsAreNat DEF IInv, RunCounted
<1>2. QED
  BY <1>1, Invariance, PTL

(* A known border is never replaced by one that was not detected in more   *)
(* images than configured.                                                 *)
THEOREM SwitchCorrect == Spec => SwitchNeedsFrames
<1>1. IInv /\ [Next]_vars => [SwitchStep]_vars
  BY NextInv
<1>2. QED
  BY <1>1, Invariance, PTL DEF Spec, SwitchNeedsFrames, SwitchStep

(* The mapping is never built for a border that is not current.            *)
THEOREM MappingCorrect == Spec => []MappingNotStale
<1>1. IInv => MappingNotStale
  BY DEF IInv
<1>2. QED
  BY <1>1, Invariance, PTL

-----------------------------------------------------------------------------
(* The borders of an image: with the blur added they leave a part of it,   *)
(* if the thickest one does.                                               *)
Fits(m) ==
    /\ HasRoom(m.width, m.height) => m.width > 2 * m.border.vertical
    /\ HasRoom(m.height, m.width) => m.height > 2 * m.border.horizontal

LEMMA MinOfTwo ==
  ASSUME NEW a \in Int, NEW b \in Int
  PROVE  Min({a, b}) \in Int /\ Min({a, b}) <= a /\ Min({a, b}) <= b
<1>1. \E x \in {a, b} : \A y \in {a, b} : x <= y
  <2>1. CASE a <= b
    BY <2>1
  <2>2. CASE b <= a
    BY <2>2
  <2>3. QED
    BY <2>1, <2>2
<1>2. Min({a, b}) \in {a, b} /\ \A y \in {a, b} : Min({a, b}) <= y
  BY <1>1 DEF Min
<1>3. QED
  BY <1>2

(* No border that is found is thicker than Thickest.                       *)
LEMMA ThickestBounds ==
  ASSUME NEW third \in Nat, NEW other \in Nat,
         NEW n \in IF Mode = "classic" THEN 0 .. Min({third, Max({third, other}) - 1})
                                      ELSE 0 .. third - 1
  PROVE  n \in Nat /\ n <= Thickest(third, other)
<1>1. Max({third, other}) \in {third, other}
  BY MaxIsOne
<1>2. CASE Mode = "classic"
  <2> DEFINE longest == Max({third, other})
             top     == longest - 1
  <2>1. longest \in Nat /\ top \in Int
    BY MaxOfTwo
  <2> HIDE DEF top
  <2>2. Min({third, top}) \in Int /\ Min({third, top}) <= third /\ Min({third, top}) <= top
    BY <2>1, MinOfTwo
  <2> USE DEF top
  <2> HIDE DEF longest
  <2>3. n \in Nat /\ n <= third /\ n <= longest - 1
    BY <1>2, <2>1, <2>2 DEF longest
  <2>4. CASE other > third
    BY <1>2, <2>3, <2>4 DEF Thickest
  <2>5. CASE ~(other > third)
    <3>1. longest <= third
      BY <1>1, <2>5 DEF longest
    <3>2. n <= third - 1
      BY <2>1, <2>3, <3>1
    <3>3. QED
      BY <2>3, <2>5, <3>2 DEF Thickest
  <2>6. QED
    BY <2>4, <2>5
<1>3. CASE Mode # "classic"
  BY <1>3 DEF Thickest
<1>4. QED
  BY <1>2, <1>3

LEMMA DetectableFits ==
  ASSUME NEW size \in Sizes, NEW border \in Detectable(size), border # Unknown
  PROVE  Fits(MappingFor(size, border))
<1> DEFINE w == size.width \div 3
           h == size.height \div 3
           sizes(third) == IF Mode = "classic" THEN 0 .. Min({third, Max({w, h}) - 1})
                                               ELSE 0 .. third - 1
<1>1. size.width \in Nat \ {0} /\ size.height \in Nat \ {0} /\ BlurRemoveCnt \in Nat
  BY SizesAreSizes, CountsAreNat
<1>2. w \in Nat /\ h \in Nat
  BY <1>1
<1>3. border \in {Border(Blurred(y), Blurred(x)) : y \in sizes(h), x \in sizes(w)}
  <2>1. Detectable(size) = {Border(Blurred(y), Blurred(x)) : y \in sizes(h), x \in sizes(w)} \cup {Unknown}
    BY DEF Detectable
  <2> HIDE DEF sizes
  <2>2. QED
    BY <2>1
<1>4. \A x \in sizes(w) : x \in Nat /\ x <= Thickest(w, h)
  BY <1>2, ThickestBounds
<1>5. \A y \in sizes(h) : y \in Nat /\ y <= Thickest(h, w)
  <2>1. {w, h} = {h, w}
    OBVIOUS
  <2>2. QED
    BY <1>2, <2>1, ThickestBounds
<1>6. Thickest(w, h) \in Int /\ Thickest(h, w) \in Int
  BY <1>2 DEF Thickest
<1>7. /\ HasRoom(size.width, size.height) => size.width > 2 * (Thickest(w, h) + BlurRemoveCnt)
      /\ HasRoom(size.height, size.width) => size.height > 2 * (Thickest(h, w) + BlurRemoveCnt)
  BY DEF HasRoom
<1> HIDE DEF sizes, w, h
<1>8. PICK y \in sizes(h), x \in sizes(w) : border = Border(Blurred(y), Blurred(x))
  BY <1>3
<1>9. /\ Blurred(y) \in Nat /\ Blurred(y) <= Thickest(h, w) + BlurRemoveCnt
      /\ Blurred(x) \in Nat /\ Blurred(x) <= Thickest(w, h) + BlurRemoveCnt
  BY <1>1, <1>4, <1>5, <1>6 DEF Blurred
<1>10. /\ HasRoom(size.width, size.height) => size.width > 2 * Blurred(x)
       /\ HasRoom(size.height, size.width) => size.height > 2 * Blurred(y)
  BY <1>1, <1>6, <1>7, <1>9
<1>11. QED
  BY <1>8, <1>10 DEF Fits, MappingFor, Border

LEMMA NoBorderFits ==
  ASSUME NEW size \in Sizes
  PROVE  Fits(MappingFor(size, NoBorder)) /\ Fits(MappingFor(size, Unknown))
BY SizesAreSizes DEF Fits, MappingFor, NoBorder, Unknown, Border

(* The assertions of ImageToLedsMap's constructor hold in each direction   *)
(* in which the thickest border of an image of the mapping's size leaves a *)
(* part of it, for all sets of sizes, small ones included: no mapping has  *)
(* the border of another size.                                             *)
THEOREM BorderFitsCorrect == Spec => []BorderFits
<1>1. Init => BorderFits
  BY DEF Init, BorderFits
<1>2. IInv /\ BorderFits /\ [Next]_vars => BorderFits'
  <2> SUFFICES ASSUME IInv, BorderFits, [Next]_vars PROVE BorderFits'
    OBVIOUS
  <2>1. ASSUME NEW size \in Sizes
        PROVE  Resized(size) # NoMapping => Fits(Resized(size))
    BY NoBorderFits DEF Resized, BorderFits, Fits
  <2>2. ASSUME NEW size \in Sizes, NEW border \in Detectable(size), ProcessImage(size, border)
        PROVE  BorderFits'
    <3>1. CASE VerifyWhileEnabled(size, border)
      <4>1. tracker'.current \in {tracker.current, border}
        <5>1. tracker \in Trackers /\ border \in Borders
          BY DetectableBorders DEF IInv, TypeOK, Trackers
        <5>2. tracker' = UpdateBorder(tracker, border)
          BY <3>1 DEF VerifyWhileEnabled
        <5>3. CASE Accepts(tracker, border)
          BY <5>1, <5>2, <5>3, AcceptedImage
        <5>4. CASE ~Accepts(tracker, border)
          BY <5>1, <5>2, <5>4, DiscardedImage DEF Trackers
        <5>5. QED
          BY <5>3, <5>4
      <4>2. CASE tracker'.current # tracker.current
        <5>1. mapping' = MappingFor(size, border)
          BY <3>1, <4>1, <4>2 DEF VerifyWhileEnabled, BorderUpdated
        <5>2. Fits(MappingFor(size, border))
          BY DetectableFits, NoBorderFits
        <5>3. QED
          BY <5>1, <5>2 DEF BorderFits, Fits
      <4>3. CASE tracker'.current = tracker.current
        <5>1. mapping' = Resized(size)
          BY <3>1, <4>3 DEF VerifyWhileEnabled, BorderUpdated
        <5>2. QED
          BY <2>1, <5>1 DEF BorderFits, Fits
      <4>4. QED
        BY <4>2, <4>3
    <3>2. CASE VerifyWhileDisabled(size)
      BY <2>1, <3>2, NoBorderFits DEF VerifyWhileDisabled, BorderFits, Fits
    <3>3. QED
      BY <2>2, <3>1, <3>2 DEF ProcessImage
  <2>3. ASSUME NEW size \in Sizes, SetSize(size) PROVE BorderFits'
    BY <2>1, <2>3 DEF SetSize, BorderFits, Fits
  <2>4. CASE UNCHANGED mapping
    BY <2>4 DEF BorderFits
  <2>5. QED
    BY <2>2, <2>3, <2>4 DEF Next, SetEnabled, vars
<1>3. QED
  BY <1>1, <1>2, Invariance, PTL DEF Spec

==============================================================================
