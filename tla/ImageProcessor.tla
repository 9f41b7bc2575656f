---------------------------- MODULE ImageProcessor ----------------------------
(***************************************************************************)
(* The image processor that every grabber and every client connection owns *)
(* (include/hyperion/ImageProcessor.h), with its black border processor    *)
(* (libsrc/blackborder/BlackBorderProcessor.cpp): from image to image it   *)
(* decides which part of the image is mapped to the LEDs.                  *)
(*                                                                         *)
(* An image is its size and the border the detector finds in it.  Which    *)
(* pixels are black is left open: an image can have every border that the  *)
(* detection mode can return for its size.  A border of the tracker is     *)
(* compared by operator==, for which all unknown borders are equal.        *)
(***************************************************************************)
EXTENDS Integers, FiniteSetsExt

CONSTANTS
    Sizes,               \* the sizes of images
    Mode,                \* _detectionMode
    BlurRemoveCnt,       \* _blurRemoveCnt, 1 by default
    UnknownSwitchCnt,    \* _unknownSwitchCnt, 600 by default
    BorderSwitchCnt,     \* _borderSwitchCnt, 50 by default
    MaxInconsistentCnt,  \* _maxInconsistentCnt, 10 by default
    FirstInconsistentCnt \* what _inconsistentCnt starts with, 10 in the code

ASSUME SizesAreSizes == Sizes \subseteq [width : Nat \ {0}, height : Nat \ {0}]
ASSUME ModeIsMode    == Mode \in {"default", "classic", "osd"}
ASSUME CountsAreNat  ==
    /\ BlurRemoveCnt \in Nat /\ UnknownSwitchCnt \in Nat /\ BorderSwitchCnt \in Nat
    /\ MaxInconsistentCnt \in Nat /\ FirstInconsistentCnt \in Nat

VARIABLES
    enabled,  \* _enabled
    tracker,  \* the current and the previously detected border, and the counts
    mapping,  \* the size and the border _imageToLeds was built for, or NoMapping
    watched,  \* history: a border, the same one in all of a behaviour
    run,      \* history: how many images in a row had the watched border
    hits,     \* history: how many images had it since the current border changed
    misses    \* history: how many images since then had it not

vars == <<enabled, tracker, mapping, watched, run, hits, misses>>
history == <<run, hits, misses>>

Border(horizontal, vertical) == [horizontal |-> horizontal, vertical |-> vertical]

Unknown   == Border(-1, -1)
NoBorder  == Border(0, 0)
NoMapping == [width |-> 0, height |-> 0, border |-> NoBorder]

(* Seeded fault: the blur is removed twice.                                *)
BlurredTwice(n) == IF n > 0 THEN n + 2 * BlurRemoveCnt ELSE n

Blurred(n) == IF n > 0 THEN n + BlurRemoveCnt ELSE n

(* process and process_osd look at the outer thirds of the image.  The     *)
(* diagonal of process_classic goes on to the end of the longer third, at  *)
(* the end of the shorter one, and may come back to any smaller border.    *)
Detectable(size) ==
    LET w == size.width \div 3
        h == size.height \div 3
        sizes(third) == IF Mode = "classic" THEN 0 .. Min({third, Max({w, h}) - 1})
                                            ELSE 0 .. third - 1
    IN {Border(Blurred(y), Blurred(x)) : y \in sizes(h), x \in sizes(w)} \cup {Unknown}

Borders == UNION {Detectable(size) : size \in Sizes}

(* Counts are only compared with the configured numbers, so they stop one  *)
(* above the largest number they are compared with.                        *)
CountCap == Max({UnknownSwitchCnt, BorderSwitchCnt}) + 1
RunCap   == MaxInconsistentCnt + CountCap
Count(n, cap) == IF n < cap THEN n + 1 ELSE n

TypeOK ==
    /\ enabled \in BOOLEAN
    /\ tracker \in [current      : Borders,
                    previous     : Borders,
                    consistent   : 0 .. CountCap,
                    inconsistent : 0 .. Max({FirstInconsistentCnt, MaxInconsistentCnt + 1})]
    /\ mapping = NoMapping \/ mapping \in
           [width : Nat, height : Nat, border : [horizontal : Nat, vertical : Nat]]
    /\ watched \in Borders
    /\ run \in 0 .. RunCap
    /\ hits \in 0 .. CountCap
    /\ misses \in 0 .. MaxInconsistentCnt + 1

Init ==
    /\ enabled \in BOOLEAN
    /\ tracker = [current |-> Unknown, previous |-> Unknown,
                  consistent |-> 0, inconsistent |-> FirstInconsistentCnt]
    /\ mapping = NoMapping
    /\ watched \in Borders
    /\ run = 0
    /\ hits = 0
    /\ misses = 0

-----------------------------------------------------------------------------

(* A few images with another border than the previous one are discarded.   *)
Accepts(t, border) == border = t.previous \/ t.inconsistent >= MaxInconsistentCnt

(* Seeded fault: a new border inherits the count of the previous one.      *)
CountedOn(t, border) ==
    IF border = t.previous
      THEN [t EXCEPT !.consistent = Count(@, CountCap), !.inconsistent = 0]
      ELSE LET counted == [t EXCEPT !.inconsistent = Count(@, MaxInconsistentCnt + 1)]
           IN IF Accepts(t, border) THEN [counted EXCEPT !.previous = border] ELSE counted

Counted(t, border) ==
    IF border = t.previous
      THEN [t EXCEPT !.consistent = Count(@, CountCap), !.inconsistent = 0]
      ELSE LET counted == [t EXCEPT !.inconsistent = Count(@, MaxInconsistentCnt + 1)]
           IN IF Accepts(t, border)
                THEN [counted EXCEPT !.previous = border, !.consistent = 0]
                ELSE counted

SwitchCnt(border) == IF border = Unknown THEN UnknownSwitchCnt ELSE BorderSwitchCnt

(* Seeded fault: one image more than configured is waited for.             *)
IsStableLater(t, border) ==
    \/ t.consistent = SwitchCnt(border) + 1
    \/ t.current = Unknown /\ border # Unknown

IsStable(t, border) ==
    \/ t.consistent = SwitchCnt(border)
    \/ t.current = Unknown /\ border # Unknown

UpdateBorder(t, border) ==
    LET counted == Counted(t, border)
    IN IF ~Accepts(t, border)          THEN counted
       ELSE IF border = t.current      THEN [counted EXCEPT !.inconsistent = 0]
       ELSE IF IsStable(counted, border) THEN [counted EXCEPT !.current = border]
       ELSE counted

(* Seeded fault: a change to the unknown border is not reported.           *)
BorderUpdatedIfKnown(t, border) ==
    border # Unknown /\ UpdateBorder(t, border).current # t.current

(* What updateBorder returns.                                              *)
BorderUpdated(t, border) == UpdateBorder(t, border).current # t.current

(* Seeded fault: the sizes of an unknown border are taken for numbers.     *)
MappingForUnknown(size, border) ==
    [width |-> size.width, height |-> size.height, border |-> border]

MappingFor(size, border) ==
    [width  |-> size.width,
     height |-> size.height,
     border |-> IF border = Unknown THEN NoBorder ELSE border]

(* setSize keeps the mapping of an image of the same size.                 *)
Resized(size) ==
    IF mapping.width = size.width /\ mapping.height = size.height
      THEN mapping ELSE MappingFor(size, NoBorder)

(* verifyBorder for an image of that size, with that border.               *)
VerifyWhileEnabled(size, border) ==
    /\ enabled
    /\ tracker' = UpdateBorder(tracker, border)
    /\ mapping' = IF BorderUpdated(tracker, border)
                    THEN MappingFor(size, tracker'.current) ELSE Resized(size)

VerifyWhileDisabled(size) ==
    /\ ~enabled
    /\ IF Resized(size).border # NoBorder
         THEN /\ tracker' = [tracker EXCEPT !.current = Unknown]
              /\ mapping' = MappingFor(size, NoBorder)
         ELSE /\ UNCHANGED tracker
              /\ mapping' = Resized(size)

(* The history of the watched border.  A border is not seen any more after *)
(* MaxInconsistentCnt + 1 images without it.                               *)
Watch(border) ==
    /\ run' = IF border = watched THEN Count(run, RunCap) ELSE 0
    /\ misses' = IF border = watched THEN 0 ELSE Count(misses, MaxInconsistentCnt + 1)
    /\ hits' = IF tracker'.current # tracker.current \/ misses' > MaxInconsistentCnt THEN 0
               ELSE IF border = watched THEN Count(hits, CountCap) ELSE hits

ProcessImage(size, border) ==
    /\ \/ VerifyWhileEnabled(size, border) /\ Watch(border)
       \/ VerifyWhileDisabled(size) /\ UNCHANGED history
    /\ UNCHANGED <<enabled, watched>>

(* The wrappers of the grabbers also call setSize on its own.              *)
SetSize(size) ==
    /\ mapping' = Resized(size)
    /\ UNCHANGED <<enabled, tracker, watched, run, hits, misses>>

(* enableBlackBorderDetector.                                              *)
SetEnabled(enable) ==
    /\ enabled' = enable
    /\ run' = 0
    /\ UNCHANGED <<tracker, mapping, watched, hits, misses>>

Next ==
    \/ \E size \in Sizes : \E border \in Detectable(size) : ProcessImage(size, border)
    \/ \E size \in Sizes : SetSize(size)
    \/ \E enable \in BOOLEAN : SetEnabled(enable)

Spec == Init /\ [][Next]_vars

-----------------------------------------------------------------------------
(* A border that stays becomes the current one: after the discarded images *)
(* and the configured count of consistent ones at the latest, from every   *)
(* state of the counters, also when the detector was disabled in between   *)
(* (test/TestBlackBorderProcessor.cpp checks one such sequence).           *)
ConsistentBorderWins ==
    run > MaxInconsistentCnt + SwitchCnt(watched) => tracker.current = watched

(* The comment in updateBorder: it "will only switch to a new border if it *)
(* is realy detected stable".  A known border is replaced by another known *)
(* one only after more than the configured number of images with it, none  *)
(* of them separated by more discarded images than configured.             *)
SwitchNeedsFrames ==
    [][(tracker.current # Unknown /\ tracker'.current # tracker.current
            /\ watched # Unknown /\ tracker'.current = watched)
           => hits >= BorderSwitchCnt]_vars

(* The mapping never cuts a border off that is not the current one any     *)
(* more, whatever was resized, enabled or disabled since it was built.     *)
MappingNotStale == mapping.border # NoBorder => mapping.border = tracker.current

(* What the detection takes off one side at most: it stops before the end  *)
(* of the third, or at it, in classic mode, along a longer other third.    *)
Thickest(third, other) == IF Mode = "classic" /\ other > third THEN third ELSE third - 1

HasRoom(length, other) ==
    length > 2 * (Thickest(length \div 3, other \div 3) + BlurRemoveCnt)

(* The assertions of ImageToLedsMap.cpp:24-25, that something is left      *)
(* between the borders: they hold in each direction in which the thickest  *)
(* border that can be found in such an image leaves a part of it when the  *)
(* blur is added.  The code has no check of its own, so they fail where    *)
(* this is not so, with images that are small for the configured blur; a   *)
(* mapping must also never get the border of an image of another size.     *)
BorderFits ==
    mapping # NoMapping =>
        /\ HasRoom(mapping.width, mapping.height) =>
               mapping.width > 2 * mapping.border.vertical
        /\ HasRoom(mapping.height, mapping.width) =>
               mapping.height > 2 * mapping.border.horizontal

==============================================================================
