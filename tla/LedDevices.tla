------------------------------ MODULE LedDevices ------------------------------
(***************************************************************************)
(* The LED device (libsrc/leddevice): its construction, the frames that    *)
(* Hyperion::update() hands to it, the refresh timer, and how each kind of *)
(* device opens, writes, blocks and opens again when the hardware behind   *)
(* it comes and goes.                                                      *)
(*                                                                         *)
(* A setup is a configuration:                                             *)
(*   type, valid      the device, and whether its construct() throws       *)
(*   layout, adjustments   of LedOutput                                    *)
(*   refresh          rewriteTime is set                                   *)
(*   continuous       smoothing writes all the time                        *)
(*   delay            delayAfterConnect is set                             *)
(*   auto             the serial device has to be found                    *)
(*   bus              the USB devices, each [product, serial, access]      *)
(*   serial           the serial number asked for                          *)
(*   ids              whether the lamps of the bridge are configured       *)
(* and, as bounds, what the shown channel may hold (sources, see Colors)   *)
(* and how often the hardware may go away (unplugs).                       *)
(* All handlers run on one thread.  Only a request to the Hue bridge lets  *)
(* others run in the middle of a handler.                                  *)
(***************************************************************************)
EXTENDS DeviceFrames

CONSTANTS
    Setups,      \* the configurations
    MaxTimers    \* bound: the delays running at a time

ASSUME HueIsNotRewritten == \A s \in Setups : s.type = "philipshue" => ~s.refresh

VARIABLES
    phase,       \* "start", "running", "off" (deleted) or "crashed"
    setup,       \* the configuration
    plugged,     \* the hardware, or the server, is there
    unplugs,     \* how often it went away
    source,      \* what was written last
    device,      \* the LedDevice object and its provider
    hue,         \* the state of LedDevicePhilipsHue
    sent         \* the last frame that reached the hardware

vars == <<phase, setup, plugged, unplugs, source, device, hue, sent>>

Rs232 == {"adalight", "adalight_apa102", "sedu", "dmx", "dmx_mccrypt", "tpm2", "atmo"}
Hid   == {"rawhid", "paintpack"}
Spi   == {"apa102", "lpd6803", "lpd8806", "p9813", "ws2801", "ws2812spi", "sk6812spi",
          "sk6822spi"}
Usb   == {"hyperionusbasp", "lightpack", "multilightpack", "tinkerforge"}
Udp   == {"tpm2net", "udpe131", "udph801", "udpraw", "atmoorb"}
Registered == Rs232 \cup Hid \cup Spi \cup Usb \cup Udp
                  \cup {"ws281x", "fadecandy", "piblaster", "philipshue", "file"}

(* A device that is unknown or that cannot be built is a dummy.            *)
Type == IF setup.type \in Registered /\ setup.valid THEN setup.type ELSE "file"
n    == LedCount(setup.layout)

(* What init() answers.                                                    *)
Ready(type) ==
    CASE type = "atmo"      -> n = 5
      [] type = "sedu"      -> 3 * n <= 3072
      [] type = "fadecandy" -> n <= 10000
      [] OTHER              -> TRUE

(* A color for a lamp: its share of x and y and its brightness.  The gamma *)
(* curve and the gamut are left out, as all that counts is which colors    *)
(* are equal and which are black.                                          *)
Ci(c) ==
    LET X == (650 * c.red) + (103 * c.green) + (197 * c.blue)
        Y == (234 * c.red) + (743 * c.green) + (23 * c.blue)
        Z == (53 * c.green) + (1036 * c.blue)
    IN IF c = BLACK THEN <<0, 0, 0>>
       ELSE <<(1000 * X) \div (X + Y + Z), (1000 * Y) \div (X + Y + Z), Y>>

(* The interval of the refresh timer; three devices do not read it.        *)
Refreshes == setup.refresh /\ Type \notin {"fadecandy", "atmoorb"}

Init ==
    /\ setup \in Setups
    /\ plugged \in BOOLEAN
    /\ phase = "start"
    /\ unplugs = 0
    /\ source = [kind |-> "none"]
    /\ device = [ready |-> Ready(Type), handle |-> "closed", named |-> ~setup.auto,
                 blocked |-> FALSE, timers |-> 0, waiting |-> FALSE, lastError |-> "none",
                 queued |-> 0, written |-> 0, expected |-> 0,
                 refreshing |-> FALSE, values |-> <<>>, packs |-> 0]
    /\ hue = [lights |-> <<>>, job |-> "idle", idx |-> 0, nested |-> 0, timer |-> FALSE,
              lamps |-> [i \in 1 .. n |-> Ci(BLACK)]]
    /\ sent = <<>>

-----------------------------------------------------------------------------
(* The frame for a source: the colors of the LEDs, adjusted unless nothing *)
(* but the lowest channel is left, and put in the order of the hardware.   *)
Colors(src) ==
    CASE src.kind = "off"   -> [i \in 1 .. n |-> BLACK]
      [] src.kind = "color" -> [i \in 1 .. n |-> src.color]
      [] src.kind = "uni"   -> UniLedColorsOf(setup.layout, src.image)
      [] src.kind = "image" ->
            LedColorsOf(setup.layout, src.image, src.size, src.border, src.border)

Off == [kind |-> "off"]

FrameOf(src) ==
    LET colors == Colors(src)
    IN OutputOf(setup.layout,
                IF src.kind = "off" THEN colors
                ELSE ApplyAdjustment(setup.adjustments, src.kind # "color", colors))

-----------------------------------------------------------------------------
(* Writing.  An action Write...(d) starts with the object in state d.      *)
Reaches(leds) == sent' = leds

Keeps == UNCHANGED sent

BlockFor(d) == [d EXCEPT !.blocked = TRUE, !.timers = @ + 1]

(* ProviderRs232::tryOpen(), with or without a delay afterwards.           *)
Named(d) == d.named \/ plugged

Opened(d, delay) ==
    LET open == [d EXCEPT !.handle = "open", !.named = TRUE, !.waiting = FALSE]
    IN IF delay THEN BlockFor(open) ELSE open

(* error(): the same error twice in a row is ignored.  PermissionError     *)
(* stands for every error that disables the device, DeviceNotFoundError    *)
(* for those of open() that do not.                                        *)
PortError(d, error) ==
    IF d.lastError = error THEN d
    ELSE [d EXCEPT !.lastError = error, !.handle = "closed", !.queued = 0,
                   !.ready = @ /\ error # "PermissionError"]

(* A device that is there is found at the second time at the latest.       *)
TryOpen(d, delay) ==
    \/ ~Named(d) /\ device' = d
    \/ Named(d) /\ ~plugged /\ device' = [d EXCEPT !.waiting = TRUE]
    \/ plugged /\ d.waiting /\ device' = [d EXCEPT !.named = TRUE]
    \/ plugged /\ ~d.waiting /\ device' = PortError([d EXCEPT !.named = TRUE], "PermissionError")
    \/ /\ plugged /\ ~d.waiting /\ d.lastError # "DeviceNotFoundError"
       /\ device' = PortError([d EXCEPT !.named = TRUE], "DeviceNotFoundError")
    \/ plugged /\ ~d.waiting /\ device' = Opened(d, delay)

(* Seeded fault: nothing unblocks the port after a failed write.           *)
FailedWriteNoTimer(d) == [d EXCEPT !.blocked = TRUE, !.expected = 2]

FailedWrite(d) == [BlockFor(d) EXCEPT !.expected = 2]

(* ProviderRs232::writeBytes().  A port takes what is written as long as   *)
(* its device is there, and writes a frame in up to two parts;             *)
(* _bytesWritten is never set back.                                        *)
WriteRs232(d, leds) ==
    \/ /\ d.blocked
       /\ device' = d /\ Keeps
    \/ /\ ~d.blocked /\ d.handle = "closed"
       /\ TryOpen(d, TRUE) /\ Keeps
    \/ /\ ~d.blocked /\ d.handle = "stale"
       /\ device' = FailedWrite(d) /\ Keeps
    \/ /\ ~d.blocked /\ d.handle # "closed"
       /\ device' = [BlockFor(d) EXCEPT !.expected = 2, !.queued = Min({4, @ + 2})]
       /\ IF d.handle = "open" THEN Reaches(leds) ELSE Keeps

(* ProviderHID::open() and writeBytes(): a write is tried twice.           *)
HidOpen(d) == plugged /\ device' = Opened(d, setup.delay)

(* Seeded fault: the device is not closed when it cannot be written.       *)
WriteHidKeeping(d, leds) ==
    \/ d.blocked /\ device' = d /\ Keeps
    \/ /\ ~d.blocked /\ d.handle = "closed" /\ Keeps
       /\ HidOpen(d) \/ (~plugged /\ device' = BlockFor(d))
    \/ ~d.blocked /\ d.handle = "stale" /\ device' = d /\ Keeps
    \/ ~d.blocked /\ d.handle = "open" /\ device' = d /\ Reaches(leds)

WriteHid(d, leds) ==
    \/ d.blocked /\ device' = d /\ Keeps
    \/ /\ ~d.blocked /\ d.handle = "closed" /\ Keeps
       /\ HidOpen(d) \/ (~plugged /\ device' = BlockFor(d))
    \/ /\ ~d.blocked /\ d.handle = "stale"
       /\ device' = [d EXCEPT !.handle = "closed"] /\ Keeps
    \/ /\ ~d.blocked /\ d.handle = "open"
       /\ device' = d /\ Reaches(leds)

(* LedDeviceFadeCandy::transferData(): connects when it has to.            *)
WriteOpc(d, leds) ==
    \/ d.handle = "closed" /\ ~plugged /\ device' = d /\ Keeps
    \/ /\ d.handle = "open" \/ (d.handle = "closed" /\ plugged)
       /\ device' = [d EXCEPT !.handle = "open"] /\ Reaches(leds)
    \/ d.handle = "stale" /\ device' = d /\ Keeps

(* LedDevicePiBlaster: opens the pipe, and closes it when it cannot write. *)
WritePipe(d, leds) ==
    \/ d.handle = "closed" /\ ~plugged /\ device' = d /\ Keeps
    \/ /\ d.handle = "open" \/ (d.handle = "closed" /\ plugged)
       /\ device' = [d EXCEPT !.handle = "open"] /\ Reaches(leds)
    \/ d.handle = "stale" /\ Keeps
           /\ device' = [d EXCEPT !.handle = IF PiBlaster(n, leds) = <<>> THEN @ ELSE "closed"]

(* SPI and USB are opened once.                                            *)
WriteSpi(d, leds) ==
    device' = d /\ IF d.handle = "open" THEN Reaches(leds) ELSE Keeps

(* Datagrams, files and the PWM.                                           *)
WritePlain(d, leds) ==
    device' = d /\ IF plugged \/ Type \in {"file", "ws281x"} THEN Reaches(leds) ELSE Keeps

WriteBytes(d, leds) ==
    \/ Type \in Rs232 /\ WriteRs232(d, leds)
    \/ Type \in Hid /\ WriteHid(d, leds)
    \/ Type = "fadecandy" /\ WriteOpc(d, leds)
    \/ Type = "piblaster" /\ WritePipe(d, leds)
    \/ Type \in Spi \cup Usb /\ WriteSpi(d, leds)
    \/ Type \in Udp \cup {"ws281x", "file"} /\ WritePlain(d, leds)

(* The devices that copy the whole frame into a buffer for n LEDs.  What   *)
(* is written behind it may do no harm or end the program, and so may a    *)
(* USB device that was never opened.                                       *)
CopiesAll == {"adalight", "p9813", "ws2812spi", "sk6812spi", "sk6822spi", "paintpack",
              "tinkerforge"}

Overruns(leds) ==
    \/ Type \in CopiesAll /\ Len(leds) > n
    \/ Type = "sedu" /\ Len(Sedu(n, leds)[1]) < 3 * Len(leds) + 2

NeverOpened(d) == Type \in Usb \ {"multilightpack"} /\ d.handle = "closed"

Write(d, leds) ==
    \/ /\ Overruns(leds) \/ NeverOpened(d)
       /\ phase' = "crashed" /\ device' = d /\ Keeps /\ UNCHANGED hue
    \/ /\ Type # "philipshue" /\ ~NeverOpened(d)
       /\ WriteBytes(d, leds) /\ UNCHANGED <<phase, hue>>

-----------------------------------------------------------------------------
(* Opening, by LedDeviceFactory.  A USB device is usable if it can be      *)
(* claimed, "busy" if only its strings can be read, "locked" if not even   *)
(* they can.                                                               *)
UsbNamed(product) == SelectSeq(setup.bus, LAMBDA u : u.product = product)

(* LedDeviceHyperionUsbasp: the first that opens.  Reading the name of a   *)
(* locked one on the way throws, and nothing catches that.                 *)
OpenUsbasp ==
    LET tried == UsbNamed("usbasp")
        Those(access) == {k \in DOMAIN tried : tried[k].access = access}
        lockedBefore(k) == \E j \in Those("locked") : j < k
    IN IF \E k \in Those("usable") : ~lockedBefore(k) THEN "open"
       ELSE IF Those("locked") # {} THEN "crashed"
       ELSE "closed"

(* LedDeviceLightpack: the first that has the serial number, if one is     *)
(* asked for, and opens; a locked one has none.                            *)
SerialOf(u) == IF u.access = "locked" THEN "" ELSE u.serial

OpensLightpack(serial) ==
    \E k \in DOMAIN UsbNamed("lightpack") :
        LET u == UsbNamed("lightpack")[k]
        IN u.access = "usable" /\ (serial = "" \/ SerialOf(u) = serial)

(* LedDeviceMultiLightpack: one for each serial number that can be read.   *)
LightpackSerials ==
    LET packs == SelectSeq(UsbNamed("lightpack"), LAMBDA u : u.access # "locked")
    IN [k \in DOMAIN packs |-> packs[k].serial]

OpenedLightpacks == SelectSeq(LightpackSerials, OpensLightpack)

UsbState ==
    CASE Type = "hyperionusbasp" -> OpenUsbasp
      [] Type = "lightpack"      -> IF OpensLightpack(setup.serial) THEN "open" ELSE "closed"
      [] Type = "multilightpack" -> IF OpenedLightpacks # <<>> THEN "open" ELSE "closed"
      [] Type = "tinkerforge"    -> IF plugged THEN "open" ELSE "closed"

Open ==
    /\ phase = "start"
    /\ \/ /\ Type \in Rs232 /\ TryOpen(device, setup.delay)
          /\ phase' = "running"
       \/ /\ Type \in Hid /\ (HidOpen(device) \/ (~plugged /\ device' = device))
          /\ phase' = "running"
       \/ /\ Type \in Usb
          /\ device' = [device EXCEPT !.handle = IF UsbState = "open" THEN "open" ELSE "closed",
                                      !.packs  = Len(OpenedLightpacks)]
          /\ phase' = IF UsbState = "crashed" THEN "crashed" ELSE "running"
       \/ /\ Type \notin Rs232 \cup Hid \cup Usb
          /\ device' = [device EXCEPT !.handle =
                            IF plugged /\ Type \in Spi \cup {"piblaster"} THEN "open" ELSE @]
          /\ phase' = "running"
    /\ UNCHANGED <<setup, plugged, unplugs, source, hue, sent>>

-----------------------------------------------------------------------------
(* LedDevicePhilipsHue: the lamps whose states are saved (lights, with the *)
(* color each was sent), the colors the lamps show, and the job that waits *)
(* for an answer of the bridge: "list", "get", "on", "write" or "restore". *)
(* Meanwhile the timer may restore the states in the middle of the job     *)
(* (nested).                                                               *)
(* What goes on at LED i of write(): lamps that have their color are       *)
(* passed over, the next one is sent its color, and at the end the timer   *)
(* starts.                                                                 *)
WriteLampsFrom(h, i, leds) ==
    LET changed == {k \in i .. Len(leds) : k > Len(h.lights) \/ Ci(leds[k]) # h.lights[k]}
        k       == Min(changed)
    IN IF changed = {}
       THEN hue' = [h EXCEPT !.job = "idle", !.idx = 0, !.timer = TRUE] /\ UNCHANGED phase
       ELSE IF k > Len(h.lights)
       THEN hue' = h /\ phase' = "crashed"
       ELSE hue' = [h EXCEPT !.job = "write", !.idx = k, !.lamps[k] = Ci(leds[k])]
                /\ UNCHANGED phase

(* A job for each saved lamp; without any it is over at once.              *)
Lamps(h, job) ==
    IF h.lights = <<>> THEN [h EXCEPT !.job = "idle", !.idx = 0]
    ELSE [h EXCEPT !.job = job, !.idx = 1]

WriteHue(d, leds) ==
    /\ Type = "philipshue" /\ hue.job = "idle"
    /\ device' = d /\ sent' = leds
    /\ IF hue.lights = <<>>
       THEN /\ hue' = [hue EXCEPT !.job = IF setup.ids THEN "get" ELSE "list", !.idx = 1]
            /\ UNCHANGED phase
       ELSE WriteLampsFrom(hue, 1, leds)

(* The answers.  An answer may be none, which ends the program when the    *)
(* lamps are not known, and the saving of the states otherwise.            *)
ListReply(good) ==
    /\ hue.job = "list"
    /\ IF good THEN hue' = [hue EXCEPT !.job = "get"] /\ UNCHANGED phase
       ELSE phase' = "crashed" /\ UNCHANGED hue

GetReply(good) ==
    LET saved == IF good THEN [hue EXCEPT !.lights = Append(@, Ci(BLACK))] ELSE hue
    IN /\ hue.job = "get"
       /\ hue' = IF good /\ hue.idx < n THEN [saved EXCEPT !.idx = @ + 1] ELSE Lamps(saved, "on")
       /\ UNCHANGED phase

OnReply ==
    /\ hue.job = "on"
    /\ IF hue.idx < Len(hue.lights)
       THEN hue' = [hue EXCEPT !.idx = @ + 1] /\ UNCHANGED phase
       ELSE IF Len(hue.lights) # n
       THEN hue' = Lamps(hue, "restore") /\ UNCHANGED phase
       ELSE WriteLampsFrom(hue, 1, sent)

(* After a nested restoring the lamp that was written is gone; the color   *)
(* goes to where it was.                                                   *)
WriteReply ==
    /\ hue.job = "write" /\ hue.nested = 0
    /\ WriteLampsFrom(IF hue.idx > Len(hue.lights) THEN hue
                      ELSE [hue EXCEPT !.lights[hue.idx] = Ci(sent[hue.idx])],
                      hue.idx + 1, sent)

RestoreReply ==
    /\ hue.job = "restore" \/ hue.nested > 0
    /\ LET at == IF hue.nested > 0 THEN hue.nested ELSE hue.idx
           on == [hue EXCEPT !.nested = IF hue.nested > 0 THEN @ + 1 ELSE @,
                             !.idx    = IF hue.nested > 0 THEN @ ELSE @ + 1]
           done == [hue EXCEPT !.lights = <<>>, !.nested = 0,
                               !.job = IF hue.nested > 0 THEN @ ELSE "idle"]
       IN hue' = IF at < Len(hue.lights) THEN on ELSE done
    /\ UNCHANGED phase

HueReply ==
    /\ phase \in {"running", "off"} /\ hue.job # "idle"
    /\ \/ \E good \in BOOLEAN : ListReply(good) \/ GetReply(good)
       \/ OnReply \/ WriteReply \/ RestoreReply
    /\ UNCHANGED <<setup, plugged, unplugs, source, device, sent>>

(* The timer of three seconds: restoreStates().  The state it sends is the *)
(* empty one that saveStates() takes from the model's name, which changes  *)
(* nothing at the lamp.                                                    *)
HueTimeout ==
    /\ phase = "running" /\ hue.timer
    /\ hue' = IF hue.job = "idle" THEN [Lamps(hue, "restore") EXCEPT !.timer = FALSE]
              ELSE [hue EXCEPT !.timer = FALSE,
                               !.nested = IF hue.lights = <<>> THEN 0 ELSE 1]
    /\ UNCHANGED <<phase, setup, plugged, unplugs, source, device, sent>>

-----------------------------------------------------------------------------
(* LedDevice::setLedValues(), rewriteLeds() and switchOff().               *)
AnyWrite(d, leds) == Write(d, leds) \/ WriteHue(d, leds)

(* Seeded fault: the timer runs with the values of its first start.        *)
SetLedValuesOnce(leds) ==
    LET d == IF device.refreshing THEN device
             ELSE [device EXCEPT !.values = leds, !.refreshing = Refreshes]
    IN IF device.ready THEN AnyWrite(d, leds)
       ELSE UNCHANGED <<phase, device, hue, sent>>

SetLedValues(leds) ==
    LET d == [device EXCEPT !.values = leds, !.refreshing = Refreshes]
    IN IF device.ready THEN AnyWrite(d, leds)
       ELSE UNCHANGED <<phase, device, hue, sent>>

(* The bounds: no more than MaxTimers delays run at a time, and no frame   *)
(* comes while the Hue bridge is asked.                                    *)
Bounded == device.timers < MaxTimers

Update(src) ==
    /\ phase = "running" /\ Bounded
    /\ Type = "philipshue" => hue.job = "idle"
    /\ source' = src
    /\ SetLedValues(FrameOf(src))
    /\ UNCHANGED <<setup, plugged, unplugs>>

RewriteLeds ==
    /\ phase = "running" /\ Bounded /\ device.refreshing
    /\ AnyWrite(device, device.values)
    /\ UNCHANGED <<setup, plugged, unplugs, source>>

(* With continuous output smoothing writes its values again and again.     *)
WriteAgain ==
    /\ phase = "running" /\ Bounded /\ setup.continuous /\ device.values # <<>>
    /\ SetLedValues(device.values)
    /\ UNCHANGED <<setup, plugged, unplugs, source>>

(* The constructor of Hyperion writes the first frame, a dark one.         *)
Sources == IF source.kind = "none" THEN {Off} ELSE setup.sources

(* Three devices have a command of their own, with the same effect.        *)
SwitchOff ==
    /\ phase = "running" /\ Bounded /\ hue.job = "idle"
    /\ \/ /\ Type = "philipshue"
          /\ phase' = "off" /\ hue' = [Lamps(hue, "restore") EXCEPT !.timer = FALSE]
          /\ UNCHANGED <<device, sent>>
       \/ /\ Type \in {"atmoorb", "lightpack", "multilightpack"}
          /\ phase' = IF NeverOpened(device) THEN "crashed" ELSE "off"
          /\ IF device.handle = "open" \/ (Type = "atmoorb" /\ plugged)
             THEN Reaches([i \in 1 .. n |-> BLACK]) ELSE Keeps
          /\ UNCHANGED <<device, hue>>
       \/ /\ Type \notin {"philipshue", "atmoorb", "lightpack", "multilightpack"}
          /\ UNCHANGED hue
          /\ IF ~device.ready THEN phase' = "off" /\ UNCHANGED <<device, sent>>
             ELSE IF NeverOpened(device) THEN phase' = "crashed" /\ UNCHANGED <<device, sent>>
             ELSE phase' = "off" /\ WriteBytes(device, [i \in 1 .. n |-> BLACK])
    /\ UNCHANGED <<setup, plugged, unplugs, source>>

-----------------------------------------------------------------------------
(* Timers, the port's notifications, and the hardware.                     *)
UnblockAfterDelay ==
    /\ phase = "running" /\ device.timers > 0
    /\ device' = [device EXCEPT !.timers = @ - 1, !.blocked = FALSE]
    /\ UNCHANGED <<phase, setup, plugged, unplugs, source, hue, sent>>

PreOpenDelayEnds ==
    /\ phase = "running" /\ device.waiting
    /\ device' = [device EXCEPT !.waiting = FALSE]
    /\ UNCHANGED <<phase, setup, plugged, unplugs, source, hue, sent>>

BytesWritten(parts) ==
    /\ phase = "running" /\ device.handle = "open" /\ parts <= device.queued
    /\ LET d    == [device EXCEPT !.queued = @ - parts, !.written = Min({2, @ + parts})]
       IN device' = IF d.written >= d.expected THEN [d EXCEPT !.expected = 0, !.blocked = FALSE]
                    ELSE d
    /\ UNCHANGED <<phase, setup, plugged, unplugs, source, hue, sent>>

(* The port reports that the device is gone, the socket that the server is.*)
LinkLost ==
    /\ phase = "running" /\ device.handle = "stale"
    /\ \/ Type \in Rs232 /\ device' = PortError(device, "ResourceError")
       \/ Type = "fadecandy" /\ device' = [device EXCEPT !.handle = "closed"]
    /\ UNCHANGED <<phase, setup, plugged, unplugs, source, hue, sent>>

Unplug ==
    /\ phase = "running" /\ plugged /\ unplugs < setup.unplugs
    /\ plugged' = FALSE /\ unplugs' = unplugs + 1
    /\ device' = [device EXCEPT !.handle = IF @ = "open" THEN "stale" ELSE @]
    /\ UNCHANGED <<phase, setup, source, hue, sent>>

Plug ==
    /\ phase = "running" /\ ~plugged
    /\ plugged' = TRUE
    /\ UNCHANGED <<phase, setup, unplugs, source, device, hue, sent>>

Next ==
    \/ Open
    \/ \E src \in Sources : Update(src)
    \/ RewriteLeds
    \/ WriteAgain
    \/ SwitchOff
    \/ UnblockAfterDelay
    \/ PreOpenDelayEnds
    \/ \E parts \in 1 .. 2 : BytesWritten(parts)
    \/ LinkLost
    \/ HueReply
    \/ HueTimeout
    \/ Unplug
    \/ Plug

(* Timers fire, lost links are noticed, the bridge answers or the request  *)
(* fails, and with continuous output smoothing writes again and again.     *)
Fairness ==
    /\ WF_vars(Open)
    /\ WF_vars(RewriteLeds)
    /\ WF_vars(WriteAgain)
    /\ WF_vars(UnblockAfterDelay)
    /\ WF_vars(PreOpenDelayEnds)
    /\ WF_vars(LinkLost)
    /\ WF_vars(HueReply)

Spec     == Init /\ [][Next]_vars
FairSpec == Spec /\ Fairness

-----------------------------------------------------------------------------
(* What the hardware makes of the packets: the colors of its LEDs, read as *)
(* each protocol defines it, count colors from a byte on.                  *)
At(p, from, stride, count, channels) ==
    [i \in 1 .. count |->
        LET Byte(k) == p[from + ((i - 1) * stride) + channels[k]]
        IN Color(Byte(1), Byte(2), Byte(3))]

Triples(p, from, bytes) == At(p, from, 3, bytes \div 3, <<0, 1, 2>>)
Length(p, at)           == (256 * p[at]) + p[at + 1]

(* A value that was sent as four bytes, each for two bits.                 *)
Decoded(codes, p, at) ==
    LET Bits(k) == (CHOOSE c \in 1 .. 4 : codes[c] = p[at + k]) - 1
    IN (64 * Bits(0)) + (16 * Bits(1)) + (4 * Bits(2)) + Bits(3)

Coded(codes, p, stride, white) ==
    [i \in 1 .. n |->
        LET at == ((i - 1) * stride) + 1
            w  == IF white THEN Decoded(codes, p, at + 12) ELSE 0
        IN Color(Decoded(codes, p, at) + w, Decoded(codes, p, at + 4) + w,
                 Decoded(codes, p, at + 8) + w)]

Received(packets) ==
    LET p == packets[1]
        Joined(Part(_)) == FlattenSeq([k \in DOMAIN packets |-> Part(packets[k])])
    IN CASE Type = "adalight"         -> At(p, 7, 3, Length(p, 4) + 1, <<0, 1, 2>>)
         [] Type = "adalight_apa102"  -> At(p, 11, 4, Length(p, 4), <<1, 2, 3>>)
         [] Type = "sedu"             -> Triples(p, 3, 3 * n)
         [] Type = "dmx"              -> Triples(p, 2, Len(p) - 1)
         [] Type = "dmx_mccrypt"      -> At(p, 2, 4, (Len(p) - 1) \div 4, <<0, 1, 2>>)
         [] Type = "tpm2"             -> Triples(p, 5, Length(p, 3))
         [] Type = "atmo"             -> Triples(p, 5, 15)
         [] Type = "apa102"           -> At(p, 5, 4, n, <<1, 2, 3>>)
         [] Type = "p9813"            -> At(p, 1, 4, n, <<3, 2, 1>>)
         [] Type = "lpd6803"          ->
                [i \in 1 .. n |->
                    LET v == (256 * (p[2 * i + 3] - 128)) + p[2 * i + 4]
                    IN Color(8 * (v \div 1024), 8 * ((v \div 32) % 32), 8 * (v % 32))]
         [] Type = "lpd8806"          ->
                [i \in 1 .. n |-> [ch \in Channel3 |->
                    2 * (At(p, 1, 3, n, <<0, 1, 2>>)[i][ch] - 128)]]
         [] Type = "ws2812spi"        -> Coded(Ws2812Codes, p, 12, FALSE)
         [] Type = "sk6812spi"        -> Coded(Ws2812Codes, p, 16, TRUE)
         [] Type = "sk6822spi"        -> Coded(Sk6822Codes, p, 15, FALSE)
         [] Type = "ws281x"           ->
                [i \in 1 .. n |-> [ch \in Channel3 |->
                    At(p, 1, 4, n, <<0, 1, 2>>)[i][ch] + p[4 * i]]]
         [] Type = "fadecandy"        -> Triples(p, 5, Length(p, 3))
         [] Type = "tpm2net"          ->
                Triples(Joined(LAMBDA q : SubSeq(q, 7, 6 + Length(q, 3))), 1, 3 * n)
         [] Type = "udpe131"          ->
                Triples(Joined(LAMBDA q : SubSeq(q, 5, 3 + Length(q, 2))), 1, 3 * n)
         [] Type = "udph801"          -> Triples(p, 3, 3)
         [] Type \in {"udpraw", "ws2801", "hyperionusbasp", "file"} -> Triples(p, 1, 3 * n)
         [] Type = "rawhid"           -> Triples(p, 2, Len(p) - 1)
         [] Type = "paintpack"        -> Triples(p, 4, 3 * n)
         [] Type \in {"lightpack", "multilightpack"} -> At(p, 2, 6, 10, <<0, 1, 2>>)
         [] Type = "tinkerforge"      ->
                Joined(LAMBDA q : At(q, 2, 1, (Len(q) - 1) \div 3,
                                     [k \in 1 .. 3 |-> (k - 1) * ((Len(q) - 1) \div 3)]))

(* How many of the LEDs the hardware has at most, and how fine its colors. *)
Visible ==
    CASE Type = "dmx" -> Min({n, 170}) [] Type = "dmx_mccrypt" -> Min({n, 128})
      [] Type = "udph801" -> 1 [] Type \in {"lightpack", "multilightpack"} -> Min({n, 10})
      [] OTHER -> n

Coarse(c) ==
    LET step == CASE Type = "lpd6803" -> 8 [] Type = "lpd8806" -> 2 [] OTHER -> 1
    IN [ch \in Channel3 |-> step * (c[ch] \div step)]

(* The orbs, pins and lamps, which get a packet or a request each.  A lamp *)
(* that was black before it was first sent a color keeps its own.          *)
OrbsShow(packets) ==
    \A k \in DOMAIN packets : RGB(sent[packets[k][5]]) = SubSeq(packets[k], 6, 8)

PinsShow(packets) ==
    \A k \in DOMAIN packets : \E pin \in ToSet(GpioMap) :
        LET c == sent[pin.led + 1]
        IN /\ pin.gpio = packets[k][1]
           /\ packets[k][2] \in {3 * c[ch] : ch \in Channel3} \cup {SumOf(c)}

LampsShow == hue.job = "idle" /\ hue.lights # <<>> =>
                 \A i \in 1 .. n : sent[i] # BLACK => hue.lamps[i] = Ci(sent[i])

-----------------------------------------------------------------------------
(* Properties.                                                             *)

(* The packets of the last frame.                                          *)
Packets == Encoded(Type, n, device.packs, sent)

(* The limit of a LED's brightness, which the adjustment must keep.        *)
LimitOf(k) == SumBrightness(Verified(AdjustmentOf(setup.adjustments, k)).brightness)

(* The pixels whose middle is in the part of a LED.                        *)
Middles(size, border, range) ==
    {i \in border .. size - border - 1 :
        LET middle == 1000 * ((2 * (i - border)) + 1)
        IN middle > 2 * (size - 2 * border) * range[1] /\ middle <= 2 * (size - 2 * border) * range[2]}

PartOf(led, src) == Middles(src.size.width, src.border, led.x)
                        \X Middles(src.size.height, src.border, led.y)

(* A color below the limit, above the backlight and without corners of its *)
(* own comes out as it was, but for the rounding of eight corners.         *)
Untouched(k, c, backlight) ==
    LET a == AdjustmentOf(setup.adjustments, k)
    IN /\ a.gamma = 1 /\ SumOf(c) <= LimitOf(k)
       /\ \A name \in DOMAIN Corners : a.corners[name] = DefaultCorner(name)
       /\ backlight => SumOf(c) >= SumBrightness(Verified(a).threshold)

Near(c, d) == \A ch \in Channel3 : c[ch] - d[ch] \in 0 .. 8

OwnLedsShowTheirPart(src) ==
    LET leds  == LedString(setup.layout)
        frame == FrameOf(src)
    IN \A k \in DOMAIN leds :
        LET c    == frame[leds[k].index + 1]
            want == CASE src.kind = "off"   -> BLACK
                      [] src.kind = "color" -> src.color
                      [] src.kind = "uni"   -> MeanOf(src.image, DOMAIN src.image)
                      [] src.kind = "image" -> MeanOf(src.image, PartOf(leds[k], src))
        IN /\ src.kind = "off" => c = BLACK
           /\ src.kind # "off" => SumOf(c) <= LimitOf(k - 1)
           /\ (/\ src.kind # "off" /\ Untouched(k - 1, want, src.kind # "color")
               /\ src.kind = "image" => PartOf(leds[k], src) # {})
                 => Near(Reordered(leds[k].order, want), c)

Back(order) == CASE order = "gbr" -> "brg" [] order = "brg" -> "gbr" [] OTHER -> order

ClonesShowTheirLed(src) ==
    LET frame       == FrameOf(src)
        Shows(led)  == Reordered(Back(OrderOf(setup.layout, led)), frame[led.index + 1])
        leds        == ToSet(setup.layout.leds)
    IN \A led \in leds : CloneOf(setup.layout, led) # -1 /\ led.clone < led.index =>
           \A other \in leds : other.index = led.clone => Shows(led) = Shows(other)

(* For every source the frame shows each LED its part of the image or its  *)
(* color within the limit of its brightness, a clone the color of the LED  *)
(* it names (when that comes before it), each in its order of the bytes,   *)
(* and the LEDs that are not configured stay dark.                         *)
FrameMatchesLayout ==
    source.kind # "none" =>
        /\ OwnLedsShowTheirPart(source)
        /\ ClonesShowTheirLed(source)
        /\ \A p \in DOMAIN FrameOf(source) :
               p > Len(setup.layout.leds) => FrameOf(source)[p] = BLACK

(* Read by its protocol, what a device has been sent last are the colors   *)
(* of the frame, for each device of libsrc/leddevice and whatever was      *)
(* dropped before.  (A frame longer than Fadecandy announces spoils its    *)
(* stream.)                                                                *)
DeviceShowsFrame ==
    sent # <<>> =>
        CASE Type = "atmoorb"    -> OrbsShow(Packets)
          [] Type = "piblaster"  -> PinsShow(Packets)
          [] Type = "philipshue" -> LampsShow
          [] Type = "fadecandy" /\ Len(sent) > n -> TRUE
          [] OTHER -> \A i \in 1 .. Visible : Received(Packets)[i] = Coarse(sent[i])

(* A blocked serial or HID device always has a delay running that will     *)
(* unblock it: no order of writes, failures, reconnects and notifications  *)
(* leaves it blocked for ever.                                             *)
BlockedHasTimer == device.blocked => device.timers > 0

(* The port waits for an error that ProviderRs232::error() ignores because *)
(* it is the same as the last one.                                         *)
Stuck == Type \in Rs232 /\ device.handle = "stale" /\ device.lastError = "ResourceError"

KeepsWriting == phase = "running" /\ plugged
                    /\ (device.refreshing \/ (setup.continuous /\ device.values # <<>>))

GivesUp == phase # "running" \/ ~plugged \/ ~device.ready \/ Stuck

Reopening == Rs232 \cup Hid \cup {"fadecandy", "piblaster"}

(* A device of the kinds that can is opened again when its hardware comes  *)
(* back, as long as frames are written, by the refresh timer or by         *)
(* smoothing.                                                              *)
Reopens ==
    (Type \in Reopening /\ KeepsWriting /\ device.handle # "open")
        ~> (device.handle = "open" \/ GivesUp)

Dirty == device.values # <<>> /\ sent # device.values

(* A frame that was dropped while the device was blocked or closed is      *)
(* written later: in the end the hardware shows the last one.              *)
LastFrameShown ==
    (Type \in Reopening \cup Udp /\ KeepsWriting /\ Dirty) ~> (~Dirty \/ GivesUp)

==============================================================================
