------------------------------- MODULE LedOutput -------------------------------
(***************************************************************************)
(* From the colors of a channel to the frame for the LED device: the LED   *)
(* string of the configuration with its clones, the part of an image each  *)
(* LED shows, the color adjustment, and the order of the color bytes       *)
(* (libsrc/hyperion/Hyperion.cpp, MultiColorAdjustment.cpp and             *)
(* ImageToLedsMap.cpp, libsrc/utils/RgbTransform.cpp).                     *)
(*                                                                         *)
(* A layout is what the configuration says of the LEDs:                    *)
(*   leds      sequence of [index, clone, order, hscan, vscan]             *)
(*   order     the color order of the device, for LEDs without one         *)
(*   ledCount  the LEDs the hardware has                                   *)
(* A member the configuration leaves out is "none", -1 for a clone and 0   *)
(* for ledCount; the fractions of the image are in thousandths.            *)
(***************************************************************************)
EXTENDS Integers, FiniteSets, SequencesExt

Color(r, g, b) == [red |-> r, green |-> g, blue |-> b]
BLACK    == Color(0, 0, 0)
Channel3 == DOMAIN BLACK
SumOf(c) == c.red + c.green + c.blue

-----------------------------------------------------------------------------
(* The LED string.  A clone index out of range is ignored.                 *)
CloneOf(layout, led) ==
    IF led.clone \in 0 .. Len(layout.leds) - 1 THEN led.clone ELSE -1

ScanRange(scan) ==
    LET Clamp(v) == Max({0, Min({1000, v})})
    IN <<Min({Clamp(scan[1]), Clamp(scan[2])}), Max({Clamp(scan[1]), Clamp(scan[2])})>>

OrderOf(layout, led) == IF led.order = "none" THEN layout.order ELSE led.order

ByIndex(leds) == SortSeq(leds, LAMBDA a, b : a.index < b.index)

LedString(layout) ==
    LET own == SelectSeq(layout.leds, LAMBDA led : CloneOf(layout, led) = -1)
    IN ByIndex([i \in DOMAIN own |->
           [index |-> own[i].index, order |-> OrderOf(layout, own[i]),
            x     |-> ScanRange(own[i].hscan), y |-> ScanRange(own[i].vscan)]])

LedStringClone(layout) ==
    LET clones == SelectSeq(layout.leds, LAMBDA led : CloneOf(layout, led) # -1)
    IN ByIndex([i \in DOMAIN clones |->
           [index |-> clones[i].index, order |-> OrderOf(layout, clones[i]),
            clone |-> CloneOf(layout, clones[i])]])

LedCount(layout) == Len(LedString(layout))

HwLedCount(layout) ==
    Max({LedCount(layout), layout.ledCount})

(* The grid of the LEDs: the different middles of their parts.             *)
LedLayoutGridSize(layout) ==
    LET leds       == ToSet(LedString(layout))
        Middles(c) == Cardinality({(led[c][1] + led[c][2]) \div 2 : led \in leds})
    IN [width |-> Middles("x"), height |-> Middles("y")]

-----------------------------------------------------------------------------
(* The part of an image (a function from its pixels) a LED shows, with the *)
(* borders cut off.                                                        *)
Rounded(size, frac) == (2 * size * frac + 1000) \div 2000

Axis(border, size, range) ==
    LET first == Min({border + Rounded(size, range[1]), border + size - 1})
        last  == border + Rounded(size, range[2])
        end   == IF first = last THEN first + 1 ELSE last
    IN {i \in first .. end - 1 : i < border + size}

PixelsOf(led, size, horizontal, vertical) ==
    IF led.x[1] = led.x[2] \/ led.y[1] = led.y[2] THEN {}
    ELSE Axis(vertical, size.width - 2 * vertical, led.x)
             \X Axis(horizontal, size.height - 2 * horizontal, led.y)

MeanOf(image, pixels) ==
    LET Mean(ch) == FoldSet(LAMBDA p, sum : sum + image[p][ch], 0, pixels)
                        \div Cardinality(pixels)
    IN IF pixels = {} THEN BLACK ELSE [ch \in Channel3 |-> Mean(ch)]

(* The colors of the LEDs: each shows its part, or all the whole image.    *)
LedColorsOf(layout, image, size, horizontal, vertical) ==
    LET leds == LedString(layout)
    IN [i \in DOMAIN leds |-> MeanOf(image, PixelsOf(leds[i], size, horizontal, vertical))]

UniLedColorsOf(layout, image) ==
    [i \in DOMAIN LedString(layout) |-> MeanOf(image, DOMAIN image)]

-----------------------------------------------------------------------------
(* Color adjustment.  Brightness and threshold are in halves, gamma is a   *)
(* whole number, and a corner is the color shown for one of the eight      *)
(* corners of the color cube.                                              *)
Corners == [black   |-> {},               red  |-> {"red"},
            green   |-> {"green"},        blue |-> {"blue"},
            cyan    |-> {"green", "blue"}, magenta |-> {"red", "blue"},
            yellow  |-> {"red", "green"}, white |-> Channel3]

DefaultCorner(name) == [ch \in Channel3 |-> IF ch \in Corners[name] THEN 255 ELSE 0]

(* An adjustment takes the default for each corner it leaves out.          *)
ColorAdjustment(config) ==
    [config EXCEPT !.corners = [name \in DOMAIN Corners |->
         IF name \in DOMAIN @ THEN @[name] ELSE DefaultCorner(name)]]

(* Of the adjustments for a LED, the last one counts; one LED without any  *)
(* stops the program at its start.                                         *)
AdjustmentOf(adjustments, led) ==
    LET for == {k \in DOMAIN adjustments : led \in adjustments[k].leds}
    IN IF for = {} THEN "none" ELSE ColorAdjustment(adjustments[Max(for)])

Verified(adjustment) ==
    IF adjustment.brightness <= adjustment.threshold
    THEN [adjustment EXCEPT !.threshold = 0, !.brightness = 1] ELSE adjustment

SumBrightness(halves) == 255 * (2 ^ halves - 1)

(* The table of red is used for all three channels.                        *)
Gamma(gamma, c) == [ch \in Channel3 |-> (c[ch] ^ gamma) \div (255 ^ (gamma - 1))]

Backlight(adjustment, c) ==
    LET low    == SumBrightness(adjustment.threshold)
        lit    == IF c = BLACK THEN Color(1, 1, 1) ELSE c
        factor == Min({low \div SumOf(lit), 255})
        gray   == Min({low \div 3, 255})
    IN IF adjustment.colored THEN [ch \in Channel3 |-> (lit[ch] * factor) % 256]
       ELSE Color(gray, gray, gray)

Transform(adjustment, backlight, c) ==
    LET g    == Gamma(adjustment.gamma, c)
        high == SumBrightness(adjustment.brightness)
    IN IF high > 0 /\ SumOf(g) > high THEN [ch \in Channel3 |-> (g[ch] * high) \div SumOf(g)]
       ELSE IF backlight /\ SumOf(g) < SumBrightness(adjustment.threshold)
         THEN Backlight(adjustment, g)
       ELSE g

(* The weight of a corner: how near the color is to it.                    *)
Weight(c, name) ==
    LET Near(ch) == IF ch \in Corners[name] THEN c[ch] ELSE 255 - c[ch]
    IN (Near("red") * Near("green") * Near("blue")) \div 65025

Mixed(adjustment, c) ==
    LET Part(name, ch) == (Weight(c, name) * adjustment.corners[name][ch]) \div 255
    IN [ch \in Channel3 |->
           FoldSet(LAMBDA name, sum : (sum + Part(name, ch)) % 256, 0, DOMAIN Corners)]

ApplyAdjustment(adjustments, backlight, colors) ==
    [i \in DOMAIN colors |->
        LET adjustment == Verified(AdjustmentOf(adjustments, i - 1))
        IN Mixed(adjustment, Transform(adjustment, backlight, colors[i]))]

-----------------------------------------------------------------------------
(* The rest of Hyperion::update().  The orders of the LEDs are those of    *)
(* the LED string with the clones put in at their places ...               *)
LedStringColorOrder(layout) ==
    FoldLeft(LAMBDA orders, clone : InsertAt(orders, clone.index + 1, clone.order),
             [i \in 1 .. LedCount(layout) |-> LedString(layout)[i].order],
             LedStringClone(layout))

(* Seeded fault: a clone is put behind its place.                          *)
InsertClonesBehind(layout, colors) ==
    FoldLeft(LAMBDA buffer, clone : InsertAt(buffer, clone.index, buffer[clone.clone + 1]),
             colors, LedStringClone(layout))

(* ... and so are the colors, each clone with the color that is at the     *)
(* place it names at that moment.                                          *)
InsertClones(layout, colors) ==
    FoldLeft(LAMBDA buffer, clone : InsertAt(buffer, clone.index + 1, buffer[clone.clone + 1]),
             colors, LedStringClone(layout))

Reordered(order, c) ==
    CASE order = "rgb" -> c
      [] order = "bgr" -> Color(c.blue, c.green, c.red)
      [] order = "rbg" -> Color(c.red, c.blue, c.green)
      [] order = "grb" -> Color(c.green, c.red, c.blue)
      [] order = "gbr" -> Color(c.green, c.blue, c.red)
      [] order = "brg" -> Color(c.blue, c.red, c.green)

(* The hardware's LEDs that are not configured stay black.                 *)
Resized(layout, frame) ==
    frame \o [i \in 1 .. Max({0, HwLedCount(layout) - Len(frame)}) |-> BLACK]

OutputOf(layout, colors) ==
    LET buffer == InsertClones(layout, colors)
        orders == LedStringColorOrder(layout)
    IN Resized(layout, [i \in DOMAIN buffer |-> Reordered(orders[i], buffer[i])])

==============================================================================
