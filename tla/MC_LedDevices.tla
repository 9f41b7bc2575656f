---------------------------- MODULE MC_LedDevices ----------------------------
(* Two LEDs (with a clone and a dark one in some setups, five for Atmo) on  *)
(* every device, and longer stories for one device of each provider.        *)
EXTENDS LedDevices

Led(index, clone, order, from) ==
    [index |-> index, clone |-> clone, order |-> order,
     hscan |-> <<from, from + 500>>, vscan |-> <<0, 400>>]

Plain == [leds |-> <<Led(1, -1, "none", 500), Led(0, -1, "none", 0)>>, order |-> "rgb", ledCount |-> 0]
Five  == [leds |-> [i \in 1 .. 5 |-> Led(i - 1, -1, "none", 100 * i)], order |-> "rgb", ledCount |-> 0]
Cloned(orders, more) ==
    [leds |-> <<Led(0, -1, orders[1], 0), Led(2, 0, orders[2], 0), Led(1, -1, orders[3], 490)>>,
     order |-> "bgr", ledCount |-> 3 + more]

Image == [p \in (0 .. 4) \X (0 .. 3) |-> Color(40 * p[1], 60 * p[2], 128)]
ImageWith(border) ==
    [kind |-> "image", image |-> Image, size |-> [width |-> 5, height |-> 4], border |-> border]
Blue       == [kind |-> "color", color |-> Color(0, 120, 255)]
AllSources == {Off, Blue, [kind |-> "uni", image |-> Image], ImageWith(0), ImageWith(1)}

NoCorners == [name \in {} |-> BLACK]
Adjust(leds, brightness, threshold, gamma, colored, corners) ==
    [leds |-> leds, brightness |-> brightness, threshold |-> threshold, gamma |-> gamma,
     colored |-> colored, corners |-> corners]
Neutral == <<Adjust(0 .. 9, 2, 0, 1, FALSE, NoCorners)>>
Varied  == <<Adjust(0 .. 9, 2, 1, 1, FALSE, NoCorners),
             Adjust({1}, 1, 0, 2, TRUE, [name \in {"red"} |-> Color(200, 20, 0)])>>

Basic == [type |-> "file", valid |-> TRUE, layout |-> Plain, adjustments |-> Neutral,
          refresh |-> FALSE, continuous |-> FALSE, delay |-> FALSE, auto |-> FALSE,
          bus |-> <<>>, serial |-> "", ids |-> TRUE,
          sources |-> {Blue, ImageWith(1)}, unplugs |-> 0]
Story == [Basic EXCEPT !.unplugs = 2]

UsbDevice(product, serial, access) == [product |-> product, serial |-> serial, access |-> access]
Packs == <<UsbDevice("lightpack", "B", "busy"), UsbDevice("lightpack", "A", "usable"),
           UsbDevice("lightpack", "C", "locked"), UsbDevice("lightpack", "D", "usable")>>

Setups_ ==
    (* every device *)
    {[Basic EXCEPT !.type = t, !.layout = IF t = "atmo" THEN Five ELSE Plain,
                   !.bus = IF t = "hyperionusbasp" THEN <<UsbDevice("usbasp", "", "usable")>> ELSE Packs] :
         t \in Registered}
    (* what cannot be used *)
    \cup {[Basic EXCEPT !.type = "udpraw", !.valid = FALSE], [Basic EXCEPT !.type = "unknown"],
          [Basic EXCEPT !.type = "atmo"],
          [Basic EXCEPT !.type = "hyperionusbasp",
                        !.bus = <<UsbDevice("usbasp", "", "locked"), UsbDevice("usbasp", "", "usable")>>],
          [Basic EXCEPT !.type = "hyperionusbasp", !.bus = <<UsbDevice("usbasp", "", "busy")>>],
          [Basic EXCEPT !.type = "lightpack", !.bus = Packs, !.serial = "B"]}
    (* clones, orders, adjustments and LEDs without a place *)
    \cup {[Basic EXCEPT !.type = t, !.layout = Cloned(orders, more), !.adjustments = Varied,
                   !.bus = Packs, !.sources = AllSources] :
              t \in {"udpraw", "adalight", "fadecandy", "multilightpack"},
              orders \in {<<"none", "rbg", "grb">>, <<"gbr", "brg", "rgb">>}, more \in {0, 1}}
    (* one of each provider, with refresh or continuous output *)
    \cup {[Story EXCEPT !.type = "adalight", !.refresh = TRUE, !.auto = TRUE, !.delay = TRUE],
          [Story EXCEPT !.type = "tpm2", !.refresh = TRUE, !.unplugs = 1]}
    \cup {[Story EXCEPT !.type = t, !.refresh = TRUE] : t \in {"paintpack", "piblaster", "udpraw"}}
    \cup {[Story EXCEPT !.type = "rawhid", !.continuous = TRUE, !.delay = TRUE],
          [Story EXCEPT !.type = "fadecandy", !.continuous = TRUE],
          [Story EXCEPT !.type = "philipshue", !.ids = FALSE]}

GpioMap_ == <<[gpio |-> 4, led |-> 0, color |-> "r"], [gpio |-> 17, led |-> 1, color |-> "w"],
              [gpio |-> 18, led |-> 7, color |-> "g"]>>
OrbIds_  == <<2, 1>>

==============================================================================
