---------------------- MODULE LinearColorSmoothing_proofs ---------------------
(***************************************************************************)
(* Proofs about the smoothing filter, for every number of colours, every   *)
(* settling time, interval and delay, and however late ticks are.          *)
(***************************************************************************)
EXTENDS LinearColorSmoothing, FiniteSetTheorems, WellFoundedInduction, TLAPS

LEMMA MaxOfTwo ==
  ASSUME NEW a \in Int, NEW b \in Int
  PROVE  Max({a, b}) = IF a >= b THEN a ELSE b
<1>1. \E x \in {a, b} : \A y \in {a, b} : x >= y
  <2>1. CASE a >= b
    BY <2>1
  <2>2. CASE b >= a
    BY <2>2
  <2>3. QED
    BY <2>1, <2>2
<1>2. Max({a, b}) \in {a, b} /\ \A y \in {a, b} : Max({a, b}) >= y
  BY <1>1 DEF Max
<1>3. QED
  BY <1>2

(* The size of a difference, as the filter and Distance compute it.        *)
LEMMA AbsoluteValue ==
  ASSUME NEW d \in Int
  PROVE  Max({d, -d}) = IF d >= 0 THEN d ELSE -d
BY MaxOfTwo

LEMMA CeilDivIsInt ==
  ASSUME NEW a \in Int, NEW b \in Int, b # 0
  PROVE  CeilDiv(a, b) \in Int
BY DEF CeilDiv

(* A quotient is determined by its bounds.                                 *)
LEMMA DivBounds ==
  ASSUME NEW a \in Int, NEW b \in Nat \ {0}
  PROVE  /\ a \div b \in Int
         /\ b * (a \div b) <= a
         /\ a < b * (a \div b) + b
OBVIOUS

(* The part s/(l+s) of a distance d, rounded up, is at most d, and all of  *)
(* d when no time is left.                                                 *)
LEMMA StepBounds ==
  ASSUME NEW s \in Nat \ {0}, NEW l \in Nat, NEW d \in Nat
  PROVE  /\ CeilDiv(s * d, l + s) \in 0 .. d
         /\ l = 0 => CeilDiv(s * d, l + s) = d
<1> DEFINE a == s * d
           b == l + s
           q == (-a) \div b
<1>1. a \in Nat /\ b \in Nat \ {0} /\ CeilDiv(a, b) = -q
  BY DEF CeilDiv
<1>2. q \in Int /\ b * q <= -a /\ -a < b * q + b
  <2>1. -a \in Int
    BY <1>1
  <2>2. QED
    BY <1>1, <2>1, DivBounds
<1>3. a <= b * d
  OBVIOUS
<1>4. q <= 0
  <2> SUFFICES ASSUME q >= 1 PROVE FALSE
    BY <1>2
  <2> HIDE DEF q, a, b
  <2>1. b * q >= b
    BY <1>1, <1>2
  <2>2. QED
    BY <1>1, <1>2, <2>1
<1>5. q >= -d
  <2> SUFFICES ASSUME q + 1 <= -d PROVE FALSE
    BY <1>2
  <2> HIDE DEF q, a, b
  <2>1. b * (q + 1) <= b * (-d)
    BY <1>1, <1>2
  <2>2. b * (q + 1) = b * q + b /\ b * (-d) = -(b * d)
    BY <1>1, <1>2
  <2>3. QED
    BY <1>1, <1>2, <1>3, <2>1, <2>2
<1>6. l = 0 => q <= -d
  <2> SUFFICES ASSUME l = 0, q >= 1 - d PROVE FALSE
    BY <1>2
  <2>1. a = b * d
    OBVIOUS
  <2> HIDE DEF q, a, b
  <2>2. b * q >= b * (1 - d)
    BY <1>1, <1>2
  <2>3. b * (1 - d) = b - b * d
    BY <1>1
  <2>4. QED
    BY <1>1, <1>2, <2>1, <2>2, <2>3
<1>7. CeilDiv(s * d, l + s) = -q /\ q \in Int
  BY <1>1, <1>2
<1> HIDE DEF q, a, b
<1>8. QED
  BY <1>4, <1>5, <1>6, <1>7

-----------------------------------------------------------------------------
(* The inductive invariant: types, a filter that runs has a value, and as  *)
(* long as the clock has not been set, the time since the last tick is     *)
(* what the timer has counted down.                                        *)
Base ==
    /\ previous \in ColorValues \cup {Empty}
    /\ target \in ColorValues
    /\ left \in Int /\ left >= -1
    /\ since \in Int
    /\ timer \in Int
    /\ output \in Seq(ColorValues)
    /\ steps \in Nat

RunningHasValue == Running => previous \in ColorValues

ClocksAgree == (Running /\ steps = 0) => since = Interval - timer

IInv == Base /\ RunningHasValue /\ ClocksAgree /\ DelayLineBounded

LEMMA InitInv == Init => IInv
<1> SUFFICES ASSUME Init PROVE IInv
  OBVIOUS
<1>1. Base
  BY NumbersAreNat DEF Init, Base, ColorValues, TimerOff
<1>2. RunningHasValue /\ ClocksAgree
  BY DEF Init, RunningHasValue, ClocksAgree, Running
<1>3. DelayLineBounded
  BY NumbersAreNat DEF Init, DelayLineBounded
<1>4. QED
  BY <1>1, <1>2, <1>3 DEF IInv

LEMMA ElapsedBounds ==
  ASSUME left \in Int, NEW time \in Int, Elapsed(time)
  PROVE  left' \in Int /\ left' >= -1
<1>1. left - time \in Int /\ -1 \in Int
  OBVIOUS
<1>2. QED
  BY <1>1, MaxOfTwo DEF Elapsed

(* queueColors keeps the delay line a sequence of at most OutputDelay.     *)
LEMMA QueueBounded ==
  ASSUME output \in Seq(ColorValues), DelayLineBounded,
         NEW color \in ColorValues, NEW toLeds, QueueColors(color, toLeds)
  PROVE  output' \in Seq(ColorValues) /\ DelayLineBounded'
<1>1. CASE OutputDelay = 0
  BY <1>1 DEF QueueColors, DelayLineBounded
<1>2. CASE OutputDelay # 0
  <2> DEFINE pushed == IF toLeds THEN Append(output, color) ELSE output
  <2>1. /\ pushed \in Seq(ColorValues)
        /\ Len(pushed) <= OutputDelay + 1
        /\ ~toLeds => Len(pushed) <= OutputDelay
    BY NumbersAreNat DEF DelayLineBounded
  <2> HIDE DEF pushed
  <2>2. CASE pushed # <<>> /\ (Len(pushed) > OutputDelay \/ ~toLeds)
    <3>1. output' = Tail(pushed)
      BY <1>2, <2>2 DEF QueueColors, pushed
    <3>2. Tail(pushed) \in Seq(ColorValues) /\ Len(Tail(pushed)) = Len(pushed) - 1
      BY <2>1, <2>2
    <3>3. QED
      BY <2>1, <3>1, <3>2, NumbersAreNat DEF DelayLineBounded
  <2>3. CASE ~(pushed # <<>> /\ (Len(pushed) > OutputDelay \/ ~toLeds))
    <3>1. output' = pushed
      BY <1>2, <2>3 DEF QueueColors, pushed
    <3>2. Len(pushed) <= OutputDelay
      BY <2>1, <2>3, NumbersAreNat
    <3>3. QED
      BY <2>1, <3>1, <3>2 DEF DelayLineBounded
  <2>4. QED
    BY <2>2, <2>3
<1>3. QED
  BY <1>1, <1>2

(* The sum wraps to the width of a colour, whatever the clocks say.        *)
LEMMA InterpolatedIsColor ==
  ASSUME previous \in ColorValues, target \in ColorValues, left \in Int, since \in Int
  PROVE  Interpolated \subseteq ColorValues
<1> DEFINE difference == target - previous
           size       == Max({difference, -difference})
           step       == CeilDiv(since * size, left + since)
<1>1. difference \in Int
  BY NumbersAreNat DEF ColorValues
<1>2. size \in Int
  BY <1>1, AbsoluteValue
<1>3. CASE left + since = 0
  BY <1>3 DEF Interpolated
<1>4. CASE left + since # 0
  <2> HIDE DEF size
  <2>1. since * size \in Int /\ left + since \in Int
    BY <1>2
  <2>2. step \in Int
    BY <1>4, <2>1, CeilDivIsInt
  <2> DEFINE value == previous + (IF difference < 0 THEN -step ELSE step)
  <2>3. Interpolated = {value % (MaxColor + 1)}
    BY <1>4 DEF Interpolated, size
  <2> HIDE DEF step, difference
  <2>4. value \in Int
    BY <1>1, <2>2, NumbersAreNat DEF ColorValues
  <2> HIDE DEF value
  <2>5. MaxColor + 1 \in Nat \ {0}
    BY NumbersAreNat
  <2>6. value % (MaxColor + 1) \in ColorValues
    BY <2>4, <2>5, NumbersAreNat DEF ColorValues
  <2>7. QED
    BY <2>3, <2>6
<1>5. QED
  BY <1>3, <1>4

-----------------------------------------------------------------------------
(* One lemma for each action.                                              *)
LEMMA WriteInv ==
  ASSUME IInv, NEW color \in ColorValues, Write(color)
  PROVE  IInv'
<1>1. Base'
  BY NumbersAreNat DEF IInv, Base, Write, filter
<1>2. RunningHasValue'
  BY DEF IInv, RunningHasValue, Running, Write, filter
<1>3. ClocksAgree'
  BY NumbersAreNat DEF IInv, ClocksAgree, Running, Write, filter
<1>4. DelayLineBounded'
  BY DEF IInv, DelayLineBounded, Write, filter
<1>5. QED
  BY <1>1, <1>2, <1>3, <1>4 DEF IInv

LEMMA SetEnableInv ==
  ASSUME IInv, NEW enable \in BOOLEAN, SetEnable(enable)
  PROVE  IInv'
<1>1. Base'
  BY NumbersAreNat DEF IInv, Base, SetEnable, TimerOff
<1>2. RunningHasValue' /\ ClocksAgree'
  BY DEF IInv, RunningHasValue, ClocksAgree, Running, SetEnable
<1>3. DelayLineBounded'
  BY DEF IInv, DelayLineBounded, SetEnable
<1>4. QED
  BY <1>1, <1>2, <1>3 DEF IInv

LEMMA UpdateLedsInv ==
  ASSUME IInv, UpdateLeds
  PROVE  IInv'
<1>1. /\ previous' \in ColorValues
      /\ output' \in Seq(ColorValues)
      /\ DelayLineBounded'
  <2>1. CASE SettledTick
    BY <2>1, QueueBounded DEF SettledTick, IInv, Base
  <2>2. CASE MovingTick
    <3>1. previous' \in ColorValues
      BY <2>2, InterpolatedIsColor DEF MovingTick, UpdateLeds, IInv, Base, RunningHasValue
    <3>2. QED
      BY <2>2, <3>1, QueueBounded DEF MovingTick, IInv, Base
  <2>3. QED
    BY <2>1, <2>2 DEF UpdateLeds
<1>2. Base'
  BY <1>1, NumbersAreNat DEF IInv, Base, UpdateLeds
<1>3. RunningHasValue' /\ ClocksAgree'
  BY <1>1, NumbersAreNat DEF UpdateLeds, RunningHasValue, ClocksAgree
<1>4. QED
  BY <1>1, <1>2, <1>3 DEF IInv

LEMMA TickInv ==
  ASSUME IInv, Tick
  PROVE  IInv'
<1>1. left' \in Int /\ left' >= -1
  BY ElapsedBounds DEF IInv, Base, Tick
<1>2. Base'
  BY <1>1 DEF IInv, Base, Tick
<1>3. RunningHasValue'
  BY DEF IInv, RunningHasValue, Tick
<1>4. ClocksAgree'
  BY NumbersAreNat DEF IInv, Base, ClocksAgree, Tick
<1>5. DelayLineBounded'
  BY DEF IInv, DelayLineBounded, Tick
<1>6. QED
  BY <1>2, <1>3, <1>4, <1>5 DEF IInv

LEMMA SetClockInv ==
  ASSUME IInv, NEW time \in ClockSteps, SetClock(time)
  PROVE  IInv'
<1>1. time \in Int
  BY SetsAreTyped
<1>2. left' \in Int /\ left' >= -1
  BY <1>1, ElapsedBounds DEF IInv, Base, SetClock
<1>3. Base'
  BY <1>1, <1>2 DEF IInv, Base, SetClock
<1>4. RunningHasValue'
  BY DEF IInv, RunningHasValue, Running, SetClock
<1>5. ClocksAgree'
  BY DEF IInv, Base, ClocksAgree, SetClock
<1>6. DelayLineBounded'
  BY DEF IInv, DelayLineBounded, SetClock
<1>7. QED
  BY <1>3, <1>4, <1>5, <1>6 DEF IInv

LEMMA NextInv == IInv /\ [Next]_vars => IInv'
<1> SUFFICES ASSUME IInv, [Next]_vars PROVE IInv'
  OBVIOUS
<1>1. ASSUME NEW color \in ColorValues, Write(color) PROVE IInv'
  BY <1>1, WriteInv
<1>2. ASSUME NEW enable \in BOOLEAN, SetEnable(enable) PROVE IInv'
  BY <1>2, SetEnableInv
<1>3. CASE UpdateLeds
  BY <1>3, UpdateLedsInv
<1>4. CASE Tick
  BY <1>4, TickInv
<1>5. ASSUME NEW time \in ClockSteps, SetClock(time) PROVE IInv'
  BY <1>5, SetClockInv
<1>6. CASE UNCHANGED vars
  BY <1>6 DEF vars, IInv, Base, RunningHasValue, ClocksAgree, Running, DelayLineBounded
<1>7. QED
  BY <1>1, <1>2, <1>3, <1>4, <1>5, <1>6 DEF Next

LEMMA Invariance == Spec => []IInv
<1>1. QED
  BY InitInv, NextInv, PTL DEF Spec

-----------------------------------------------------------------------------
(* No sequence of writes, ticks and switches lets the delay line grow.     *)
THEOREM DelayLineCorrect == Spec => []DelayLineBounded
<1>1. IInv => DelayLineBounded
  BY DEF IInv
<1>2. QED
  BY <1>1, Invariance, PTL

Approach ==
    /\ Distance(previous') + Max({previous' - previous, previous - previous'})
           = Distance(previous)
    /\ left <= 0 => previous' = target

(* From a value a to a target t by a step of at most their distance.       *)
LEMMA BetweenAdds ==
  ASSUME NEW t \in Int, NEW a \in Int, NEW b \in Int,
         (a <= b /\ b <= t) \/ (t <= b /\ b <= a)
  PROVE  Max({t - b, b - t}) + Max({b - a, a - b}) = Max({t - a, a - t})
<1>1. /\ t - b \in Int /\ b - t \in Int /\ b - a \in Int
      /\ a - b \in Int /\ t - a \in Int /\ a - t \in Int
  OBVIOUS
<1>2. QED
  BY <1>1, MaxOfTwo

(* While the clock has not been set, the time since the last tick is at    *)
(* least the interval, and k lies between 0 and 1.                         *)
LEMMA MovingApproaches ==
  ASSUME IInv, UpdateLeds, MovingTick, steps = 0
  PROVE  Approach
<1> DEFINE difference == target - previous
           size       == Max({difference, -difference})
           step       == CeilDiv(since * size, left + since)
<1>1. /\ previous \in 0 .. MaxColor /\ target \in 0 .. MaxColor
      /\ left \in Nat /\ since \in Nat \ {0} /\ MaxColor \in Nat
  BY NumbersAreNat DEF IInv, Base, RunningHasValue, ClocksAgree, UpdateLeds, MovingTick,
     ColorValues
<1>2. difference \in Int /\ size = IF difference >= 0 THEN difference ELSE -difference
  BY <1>1, AbsoluteValue
<1>3. size \in Nat
  BY <1>2
<1> HIDE DEF size
<1>4. step \in 0 .. size /\ (left = 0 => step = size)
  BY <1>1, <1>3, StepBounds
<1> DEFINE value == previous + (IF difference < 0 THEN -step ELSE step)
<1>5. previous' = value % (MaxColor + 1)
  BY <1>1 DEF MovingTick, Interpolated, size
<1> HIDE DEF step
<1>6. value \in 0 .. MaxColor
  BY <1>1, <1>2, <1>4
<1>7. /\ (previous <= value /\ value <= target) \/ (target <= value /\ value <= previous)
      /\ left = 0 => value = target
  BY <1>1, <1>2, <1>4
<1> HIDE DEF value
<1>8. previous' = value
  BY <1>1, <1>5, <1>6
<1> HIDE DEF difference
<1>9. previous \in Int /\ target \in Int /\ value \in Int
  BY <1>1, <1>6
<1>10. Max({target - value, value - target}) + Max({value - previous, previous - value})
           = Max({target - previous, previous - target})
  BY <1>7, <1>9, BetweenAdds
<1>11. left <= 0 => value = target
  BY <1>1, <1>7
<1>12. QED
  BY <1>8, <1>10, <1>11 DEF Approach, Distance

LEMMA SettledApproaches ==
  ASSUME IInv, UpdateLeds, SettledTick
  PROVE  Approach
<1>1. previous \in Int /\ target \in Int /\ previous' = target
  BY NumbersAreNat DEF IInv, Base, RunningHasValue, UpdateLeds, SettledTick, ColorValues
<1>2. (previous <= previous' /\ previous' <= target) \/ (target <= previous' /\ previous' <= previous)
  BY <1>1
<1>3. QED
  BY <1>1, <1>2, BetweenAdds DEF Approach, Distance

(* While the clock has not been set, every tick goes towards the target    *)
(* and not beyond, and reaches it when the settling time is over.          *)
THEOREM ApproachCorrect == Spec => ApproachesTarget
<1>1. IInv /\ [Next]_vars => [(UpdateLeds /\ steps = 0) => Approach]_vars
  <2> SUFFICES ASSUME IInv, UpdateLeds, steps = 0 PROVE Approach
    OBVIOUS
  <2>1. QED
    BY MovingApproaches, SettledApproaches DEF UpdateLeds
<1>2. QED
  BY <1>1, Invariance, PTL DEF Spec, ApproachesTarget, Approach

-----------------------------------------------------------------------------
(* A finite set of numbers has a largest one.                              *)
LEMMA LeastNat ==
  ASSUME NEW S \in SUBSET Nat, S # {}
  PROVE  \E x \in S : \A y \in S : x <= y
<1>1. PICK x \in S : \A y \in S : ~(<<y, x>> \in OpToRel(<, Nat))
  BY NatLessThanWellFounded, WFMin
<1>2. ASSUME NEW y \in S PROVE x <= y
  <2>1. <<y, x>> \in Nat \X Nat /\ <<y, x>> \notin OpToRel(<, Nat)
    BY <1>1
  <2>2. ~(y < x)
    BY <2>1 DEF OpToRel
  <2>3. QED
    BY <2>2
<1>3. QED
  BY <1>2

LEMMA MaxOfFinite ==
  ASSUME NEW S \in SUBSET Int, IsFiniteSet(S), S # {}
  PROVE  Max(S) \in S /\ \A y \in S : Max(S) >= y
<1> DEFINE n == Cardinality(S)
<1>1. n \in Nat /\ ExistsBijection(1 .. n, S)
  BY FS_CardinalityType
<1>2. PICK f \in [1 .. n -> S] : \A x \in S : \E i \in 1 .. n : f[i] = x
  BY <1>1 DEF ExistsBijection, Bijection, Surjection
<1> HIDE DEF n
<1> DEFINE top(k, i) == i \in 1 .. k /\ \A j \in 1 .. k : f[i] >= f[j]
           bad == {k \in 1 .. n : \A i \in 1 .. n : ~top(k, i)}
<1>3. \A i \in 1 .. n : f[i] \in Int
  BY <1>2
<1>4. ASSUME bad # {} PROVE FALSE
  <2>1. bad \in SUBSET Nat
    BY <1>1
  <2> HIDE DEF bad
  <2>2. PICK k \in bad : \A l \in bad : k <= l
    BY <1>4, <2>1, LeastNat
  <2>3. k \in 1 .. n /\ k \in Nat /\ \A i \in 1 .. n : ~top(k, i)
    BY <1>1, <2>2 DEF bad
  <2>4. CASE k = 1
    <3>1. top(1, 1) /\ 1 \in 1 .. n
      BY <1>1, <1>3, <2>3, <2>4
    <3>2. QED
      BY <2>3, <2>4, <3>1
  <2>5. CASE k # 1
    <3>1. k - 1 \in 1 .. n /\ ~(k <= k - 1)
      BY <1>1, <2>3, <2>5
    <3>2. k - 1 \notin bad
      BY <2>2, <3>1
    <3>3. PICK i \in 1 .. n : top(k - 1, i)
      BY <3>1, <3>2 DEF bad
    <3>4. i \in 1 .. k /\ \A j \in 1 .. k : j \in 1 .. n /\ (j = k \/ f[i] >= f[j])
      BY <1>1, <2>3, <3>1, <3>3
    <3>5. f[i] \in Int /\ f[k] \in Int /\ \A j \in 1 .. k : f[j] \in Int
      BY <1>3, <2>3, <3>4
    <3>6. CASE f[i] >= f[k]
      <4>1. top(k, i)
        BY <3>4, <3>6
      <4>2. QED
        BY <2>3, <4>1
    <3>7. CASE ~(f[i] >= f[k])
      <4>1. ASSUME NEW j \in 1 .. k PROVE f[k] >= f[j]
        <5>1. f[j] \in Int /\ (j = k \/ f[i] >= f[j])
          BY <3>4, <3>5
        <5>2. QED
          BY <3>5, <3>7, <5>1
      <4>2. QED
        BY <1>1, <2>3, <4>1
    <3>8. QED
      BY <3>6, <3>7
  <2>6. QED
    BY <2>4, <2>5
<1>5. n \in 1 .. n
  <2>1. PICK x \in S : TRUE
    OBVIOUS
  <2>2. \E i \in 1 .. n : f[i] = x
    BY <1>2
  <2>3. QED
    BY <1>1, <2>2
<1>6. PICK i \in 1 .. n : top(n, i)
  BY <1>4, <1>5
<1>7. f[i] \in S /\ \A y \in S : f[i] >= y
  BY <1>2, <1>6
<1>8. QED
  BY <1>7 DEF Max

(* By how much the clock may be set, once.                                 *)
Reach == IF ClockSteps = {} THEN 0 ELSE Max({Max({s, -s}) : s \in ClockSteps})

LEMMA ReachBounds ==
  /\ Reach \in Nat
  /\ \A time \in ClockSteps : time <= Reach /\ -time <= Reach
  /\ ClockReach = MaxSteps * Reach
<1> DEFINE sizes == {Max({s, -s}) : s \in ClockSteps}
<1>1. CASE ClockSteps = {}
  BY <1>1, NumbersAreNat DEF Reach, ClockReach
<1>2. CASE ClockSteps # {}
  <2>1. \A s \in ClockSteps :
            Max({s, -s}) \in Nat /\ Max({s, -s}) >= s /\ Max({s, -s}) >= -s
    BY SetsAreTyped, AbsoluteValue
  <2>2. sizes \in SUBSET Int /\ sizes # {} /\ IsFiniteSet(sizes)
    <3> DEFINE g == [s \in ClockSteps |-> Max({s, -s})]
    <3>1. g \in Surjection(ClockSteps, sizes)
      BY DEF Surjection
    <3>2. IsFiniteSet(sizes)
      BY <3>1, SetsAreTyped, FS_Surjection
    <3>3. sizes # {}
      BY <1>2
    <3>4. ASSUME NEW x \in sizes PROVE x \in Int
      <4>1. PICK s \in ClockSteps : x = Max({s, -s})
        OBVIOUS
      <4>2. QED
        BY <2>1, <4>1
    <3>5. QED
      BY <3>2, <3>3, <3>4
  <2>3. Max(sizes) \in sizes /\ \A y \in sizes : Max(sizes) >= y
    BY <2>2, MaxOfFinite
  <2>4. \A s \in ClockSteps : Max({s, -s}) \in sizes
    OBVIOUS
  <2>5. Reach = Max(sizes) /\ ClockReach = MaxSteps * Max(sizes)
    BY <1>2 DEF Reach, ClockReach
  <2>6. Max(sizes) \in Nat
    BY <2>1, <2>3
  <2> HIDE DEF sizes
  <2>7. ASSUME NEW time \in ClockSteps PROVE time <= Reach /\ -time <= Reach
    <3> DEFINE x == Max({time, -time})
    <3>1. x \in Nat /\ x >= time /\ x >= -time /\ time \in Int
      BY <2>1, SetsAreTyped
    <3>2. Max(sizes) >= x
      BY <2>3, <2>4
    <3> HIDE DEF x
    <3>3. QED
      BY <2>5, <2>6, <3>1, <3>2
  <2>8. QED
    BY <2>5, <2>6, <2>7
<1>3. QED
  BY <1>1, <1>2

-----------------------------------------------------------------------------
(* The ranges of the clocks.  While the filter runs, what is left of the   *)
(* timer's interval and the time since the last tick differ by as much as  *)
(* the clock has been set; a filter that is disabled keeps its clocks.     *)
ClocksBounded ==
    /\ left <= Settling + steps * Reach
    /\ Running => /\ timer >= -MaxLate /\ timer <= Interval
                  /\ since + timer - Interval <= steps * Reach
                  /\ since + timer - Interval >= -(steps * Reach)
    /\ ~Running => /\ since <= Interval + MaxLate + steps * Reach
                   /\ since >= -(steps * Reach)

Others ==
    /\ enabled \in BOOLEAN
    /\ continuous \in Continuous
    /\ writeToLeds \in BOOLEAN
    /\ device \in ColorValues
    /\ frame \in ColorValues
    /\ steps \in 0 .. MaxSteps

(* Setting the clock once more moves the bounds by Reach.                  *)
LEMMA ReachSteps ==
  ASSUME steps \in 0 .. MaxSteps
  PROVE  /\ steps * Reach \in Nat /\ (steps + 1) * Reach = steps * Reach + Reach
         /\ steps * Reach <= ClockReach /\ ClockReach \in Nat
<1>1. Reach \in Nat /\ ClockReach = MaxSteps * Reach /\ MaxSteps \in Nat /\ steps \in Nat
      /\ steps <= MaxSteps
  BY ReachBounds, NumbersAreNat
<1>2. \A m, n, r \in Nat : m <= n => m * r <= n * r
  OBVIOUS
<1>3. QED
  BY <1>1, <1>2

LEMMA ElapsedIs ==
  ASSUME left \in Int, NEW time \in Int, Elapsed(time)
  PROVE  left' = IF left - time >= -1 THEN left - time ELSE -1
<1>1. left - time \in Int /\ -1 \in Int
  OBVIOUS
<1>2. QED
  BY <1>1, MaxOfTwo DEF Elapsed

(* The frames of the delay line are colours, so is what leaves it.         *)
LEMMA QueueShowsColors ==
  ASSUME output \in Seq(ColorValues), device \in ColorValues,
         NEW color \in ColorValues, NEW toLeds \in BOOLEAN, QueueColors(color, toLeds)
  PROVE  device' \in ColorValues
<1>1. CASE OutputDelay = 0
  BY <1>1 DEF QueueColors
<1>2. CASE OutputDelay # 0
  <2> DEFINE pushed == IF toLeds THEN Append(output, color) ELSE output
  <2>1. pushed \in Seq(ColorValues)
    OBVIOUS
  <2> HIDE DEF pushed
  <2>2. device' = device \/ (pushed # <<>> /\ device' = Head(pushed))
    BY <1>2 DEF QueueColors, pushed
  <2>3. QED
    BY <2>1, <2>2
<1>3. QED
  BY <1>1, <1>2

LEMMA ClocksInit == Init => ClocksBounded /\ Others
<1> SUFFICES ASSUME Init PROVE ClocksBounded /\ Others
  OBVIOUS
<1>1. Others
  BY NumbersAreNat DEF Init, Others, ColorValues
<1>2. steps * Reach = 0
  BY ReachBounds DEF Init
<1>3. ClocksBounded
  BY <1>2, NumbersAreNat DEF Init, ClocksBounded, Running
<1>4. QED
  BY <1>1, <1>3

LEMMA OthersNext == IInv /\ Others /\ [Next]_vars => Others'
<1> SUFFICES ASSUME IInv, Others, [Next]_vars PROVE Others'
  OBVIOUS
<1>1. ASSUME NEW color \in ColorValues, Write(color) PROVE Others'
  BY <1>1 DEF Others, Write, filter
<1>2. ASSUME NEW enable \in BOOLEAN, SetEnable(enable) PROVE Others'
  BY <1>2 DEF Others, SetEnable
<1>3. CASE UpdateLeds
  <2>1. writeToLeds' \in BOOLEAN /\ device' \in ColorValues
    <3>1. CASE SettledTick
      BY <3>1, QueueShowsColors, SetsAreTyped DEF SettledTick, Others, IInv, Base
    <3>2. CASE MovingTick
      <4>1. previous' \in ColorValues
        BY <1>3, <3>2, InterpolatedIsColor DEF MovingTick, UpdateLeds, IInv, Base, RunningHasValue
      <4>2. QED
        BY <3>2, <4>1, QueueShowsColors DEF MovingTick, Others, IInv, Base
    <3>3. QED
      BY <1>3, <3>1, <3>2 DEF UpdateLeds
  <2>2. QED
    BY <1>3, <2>1 DEF Others, UpdateLeds
<1>4. CASE Tick
  BY <1>4 DEF Others, Tick
<1>5. ASSUME NEW time \in ClockSteps, SetClock(time) PROVE Others'
  BY <1>5, NumbersAreNat DEF Others, SetClock
<1>6. CASE UNCHANGED vars
  BY <1>6 DEF vars, Others
<1>7. QED
  BY <1>1, <1>2, <1>3, <1>4, <1>5, <1>6 DEF Next

LEMMA ClocksNext == IInv /\ Others /\ ClocksBounded /\ [Next]_vars => ClocksBounded'
<1> SUFFICES ASSUME IInv, Others, ClocksBounded, [Next]_vars PROVE ClocksBounded'
  OBVIOUS
<1> DEFINE r == steps * Reach
<1>1. r \in Nat /\ (steps + 1) * Reach = r + Reach /\ Reach \in Nat
  BY ReachSteps, ReachBounds DEF Others
<1>2. steps' = steps => steps' * Reach = r
  OBVIOUS
<1> HIDE DEF r
<1>3. /\ left \in Int /\ left >= -1 /\ since \in Int /\ timer \in Int
      /\ Settling \in Nat /\ Interval \in Nat \ {0} /\ MaxLate \in Nat /\ TimerOff = Interval + 1
  BY NumbersAreNat DEF IInv, Base, TimerOff
<1>4. /\ left <= Settling + r
      /\ Running => /\ timer >= -MaxLate /\ timer <= Interval
                    /\ since + timer - Interval <= r /\ since + timer - Interval >= -r
      /\ ~Running => since <= Interval + MaxLate + r /\ since >= -r
  BY DEF ClocksBounded, r
<1>5. ASSUME NEW color \in ColorValues, Write(color) PROVE ClocksBounded'
  <2>1. steps' * Reach = r
    BY <1>2, <1>5 DEF Write
  <2>2. QED
    BY <1>1, <1>3, <1>4, <1>5, <2>1 DEF Write, filter, ClocksBounded, Running
<1>6. ASSUME NEW enable \in BOOLEAN, SetEnable(enable) PROVE ClocksBounded'
  <2>1. steps' * Reach = r
    BY <1>2, <1>6 DEF SetEnable
  <2>2. QED
    BY <1>1, <1>3, <1>4, <1>6, <2>1 DEF SetEnable, ClocksBounded, Running
<1>7. CASE UpdateLeds
  <2>1. steps' * Reach = r
    BY <1>2, <1>7 DEF UpdateLeds
  <2>2. QED
    BY <1>1, <1>3, <1>4, <1>7, <2>1 DEF UpdateLeds, ClocksBounded, Running
<1>8. CASE Tick
  <2>1. steps' * Reach = r
    BY <1>2, <1>8 DEF Tick
  <2>2. left' = IF left - 1 >= -1 THEN left - 1 ELSE -1
    BY <1>3, <1>8, ElapsedIs DEF Tick
  <2>3. QED
    BY <1>1, <1>3, <1>4, <1>8, <2>1, <2>2 DEF Tick, ClocksBounded, Running
<1>9. ASSUME NEW time \in ClockSteps, SetClock(time) PROVE ClocksBounded'
  <2>1. steps' * Reach = r + Reach
    BY <1>1, <1>9 DEF SetClock
  <2>2. time \in Int /\ time <= Reach /\ -time <= Reach
    BY SetsAreTyped, ReachBounds
  <2>3. left' = IF left - time >= -1 THEN left - time ELSE -1
    BY <1>3, <1>9, <2>2, ElapsedIs DEF SetClock
  <2>4. QED
    BY <1>1, <1>3, <1>4, <1>9, <2>1, <2>2, <2>3 DEF SetClock, ClocksBounded, Running
<1>10. CASE UNCHANGED vars
  BY <1>10 DEF vars, ClocksBounded, Running
<1>11. QED
  BY <1>5, <1>6, <1>7, <1>8, <1>9, <1>10 DEF Next

(* Every state is well typed: a value stays a colour although it wraps,    *)
(* and however late ticks are and however the wall clock is set, the       *)
(* filter's clocks stay within a bound that only the settings determine.   *)
THEOREM TypeCorrect == Spec => []TypeOK
<1>1. IInv /\ Others /\ ClocksBounded => TypeOK
  <2> SUFFICES ASSUME IInv, Others, ClocksBounded PROVE TypeOK
    OBVIOUS
  <2>1. steps * Reach \in Nat /\ steps * Reach <= ClockReach /\ ClockReach \in Nat
    BY ReachSteps DEF Others
  <2> DEFINE r == steps * Reach
  <2> HIDE DEF r
  <2>2. r \in Nat /\ r <= ClockReach /\ ClockReach \in Nat
    BY <2>1 DEF r
  <2>3. /\ left \in Int /\ left >= -1 /\ since \in Int /\ timer \in Int
        /\ Settling \in Nat /\ Interval \in Nat \ {0} /\ MaxLate \in Nat
        /\ TimerOff = Interval + 1
    BY NumbersAreNat DEF IInv, Base, TimerOff
  <2>4. /\ left <= Settling + r
        /\ Running => /\ timer >= -MaxLate /\ timer <= Interval
                      /\ since + timer - Interval <= r /\ since + timer - Interval >= -r
        /\ ~Running => since <= Interval + MaxLate + r /\ since >= -r
    BY DEF ClocksBounded, r
  <2>5. /\ left \in -1 .. Settling + ClockReach
        /\ since \in -ClockReach .. Interval + MaxLate + ClockReach
        /\ timer \in -MaxLate .. TimerOff
    BY <2>2, <2>3, <2>4 DEF Running
  <2>6. QED
    BY <2>5 DEF TypeOK, IInv, Base, Others
<1>2. QED
  BY <1>1, ClocksInit, OthersNext, ClocksNext, Invariance, PTL DEF Spec

==============================================================================
