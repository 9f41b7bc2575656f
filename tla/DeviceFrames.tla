----------------------------- MODULE DeviceFrames -----------------------------
(***************************************************************************)
(* What each LED device (libsrc/leddevice) sends for a frame: a sequence   *)
(* of packets, each a sequence of bytes, as its init() lays the buffer out *)
(* and its write() fills it.  n is LedDevice::_ledCount, for which the     *)
(* buffers are made; the frame has more LEDs if there are clones or if     *)
(* the hardware has more.  What a write puts behind the end of a buffer    *)
(* is not sent.                                                            *)
(***************************************************************************)
EXTENDS LedOutput

CONSTANTS
    MaxPacket,       \* max-packet of tpm2net
    DMX_MAX,         \* the slots of an E1.31 packet
    ChunkSize,       \* MAX_NUM_LEDS_SETTABLE of Tinkerforge
    StripLength,     \* leds of ws281x
    WhiteAlgorithm,  \* white_algorithm of the devices with white LEDs
    GpioMap,         \* gpiomap of the pi-blaster: sequence of [gpio, led, color]
    OrbIds           \* orbIds of AtmoOrb, in their order

ASSUME PacketSizesArePositive ==
    {MaxPacket, DMX_MAX, ChunkSize, StripLength} \subseteq Nat \ {0}

Zeros(k)       == [i \in 1 .. k |-> 0]
Word(k)        == <<(k \div 256) % 256, k % 256>>
First(n, leds) == SubSeq(leds, 1, Min({n, Len(leds)}))
Each(leds, Enc(_)) == FlattenSeq([i \in DOMAIN leds |-> Enc(leds[i])])
RGB(c)         == <<c.red, c.green, c.blue>>
Bytes(leds)    == Each(leds, RGB)

(* The buffer with the data written over it from an offset on.             *)
Overlay(buffer, offset, data) ==
    SubSeq(buffer, 1, offset) \o SubSeq(data, 1, Min({Len(data), Len(buffer) - offset}))
        \o SubSeq(buffer, offset + Len(data) + 1, Len(buffer))

(* The data in packets of at most size bytes.                              *)
Split(data, size) ==
    [p \in 1 .. (Len(data) + size - 1) \div size |->
        SubSeq(data, (p - 1) * size + 1, Min({p * size, Len(data)}))]

-----------------------------------------------------------------------------
(* Serial devices.  The exclusive or of two bytes has the bits they differ *)
(* in.                                                                     *)
Xor(a, b) == SumSet({bit \in {2 ^ k : k \in 0 .. 7} : (a \div bit) % 2 # (b \div bit) % 2})

AdalightHeader(k) ==
    LET count == Word(k)
    IN <<65, 100, 97>> \o count \o <<Xor(Xor(count[1], count[2]), 85)>>

Adalight(n, leds) == <<Overlay(AdalightHeader(n - 1) \o Zeros(3 * n), 6, Bytes(leds))>>

EndFrame(n) == Max({(n + 15) \div 16, 4})

AdalightAPA102(n, leds) ==
    <<AdalightHeader(n) \o Zeros(4) \o Each(First(n, leds), LAMBDA c : <<255>> \o RGB(c))
          \o Zeros(EndFrame(n))>>

SeduFrames == <<<<161, 256>>, <<162, 512>>, <<176, 768>>, <<177, 1536>>, <<178, 3072>>>>

Sedu(n, leds) ==
    LET spec == SelectSeq(SeduFrames, LAMBDA s : 3 * n <= s[2])[1]
    IN <<Overlay(<<90, spec[1]>> \o Zeros(spec[2]) \o <<165>>, 2, Bytes(leds))>>

DMXRaw(n, leds) == <<<<0>> \o Bytes(First(Min({n, 170}), leds))>>

DMXMcCrypt(n, leds) ==
    <<<<0>> \o Each(First(Min({n, 128}), leds), LAMBDA c : RGB(c) \o <<255>>)>>

Tpm2(n, leds) == <<<<201, 218>> \o Word(3 * n) \o Bytes(First(n, leds)) \o <<54>>>>

Atmo(n, leds) == <<<<255, 0, 0, 15>> \o Bytes(First(n, leds))>>

-----------------------------------------------------------------------------
(* SPI devices and the PWM of the Raspberry Pi.                            *)
APA102(n, leds) ==
    <<Zeros(4) \o Each(First(n, leds), LAMBDA c : <<255>> \o RGB(c))
          \o [i \in 1 .. EndFrame(n) |-> 255]>>

Lpd6803(n, leds) ==
    LET Bits15(c) == <<128 + (c.red \div 8) * 4 + c.green \div 64,
                       (((c.green \div 8) % 8) * 32) + c.blue \div 8>>
    IN <<Zeros(4) \o Each(First(n, leds), Bits15) \o Zeros(n \div 8 + 1)>>

Lpd8806(n, leds) ==
    LET Bits7(c) == <<128 + c.red \div 2, 128 + c.green \div 2, 128 + c.blue \div 2>>
    IN <<Each(First(n, leds), Bits7) \o Zeros(n \div 32 + 1)>>

P9813(n, leds) ==
    LET Not2(v) == 3 - v \div 64
        Checked(c) == <<192 + Not2(c.blue) * 16 + Not2(c.green) * 4 + Not2(c.red),
                        c.blue, c.green, c.red>>
    IN <<Overlay(Zeros(4 * n + 8), 0, Each(leds, Checked))>>

Ws2801(n, leds) == <<Bytes(First(n, leds))>>

(* Each pair of bits is sent as a byte.                                    *)
BitPairs(codes, v) ==
    [i \in 1 .. 4 |-> codes[((v \div 4 ^ (4 - i)) % 4) + 1]]

Ws2812Codes == <<136, 140, 200, 204>>
Sk6822Codes == <<136, 142, 232, 238>>

Ws2812SPI(n, leds) ==
    <<Overlay(Zeros(12 * n + 3), 0,
              Each(leds, LAMBDA c : Each(RGB(c), LAMBDA v : BitPairs(Ws2812Codes, v)))
                  \o Zeros(3))>>

Rgb_to_Rgbw(c) ==
    LET white == IF WhiteAlgorithm = "subtract_minimum" THEN Min({c.red, c.green, c.blue}) ELSE 0
    IN <<c.red - white, c.green - white, c.blue - white, white>>

Sk6812SPI(n, leds) ==
    <<Overlay(Zeros(16 * n + 3), 0,
              Each(leds, LAMBDA c : Each(Rgb_to_Rgbw(c), LAMBDA v : BitPairs(Ws2812Codes, v)))
                  \o Zeros(3))>>

Sk6822SPI(n, leds) ==
    <<Overlay(Zeros(15 * n + 13), 0,
              Each(leds, LAMBDA c : Each(RGB(c), LAMBDA v : BitPairs(Sk6822Codes, v)) \o Zeros(3)))>>

(* The strip has its own length, and LEDs without a color are dark.        *)
WS281x(n, leds) ==
    <<Overlay(Zeros(4 * StripLength), 0, Each(leds, Rgb_to_Rgbw))>>

-----------------------------------------------------------------------------
(* Network devices.  The buffer of Fadecandy grows with the frame.         *)
FadeCandy(n, leds) == <<<<0, 0>> \o Word(3 * n) \o Bytes(leds)>>

(* Seeded fault: every packet starts with the first LED again.             *)
Tpm2netAgain(n, leds) ==
    LET parts == Split(Bytes(First(n, leds)), MaxPacket)
    IN [p \in DOMAIN parts |-> <<156, 218>> \o Word(Len(parts[p]))
            \o <<p, 2>> \o SubSeq(parts[1], 1, Len(parts[p])) \o <<54>>]

Tpm2net(n, leds) ==
    LET parts == Split(Bytes(First(n, leds)), MaxPacket)
    IN [p \in DOMAIN parts |-> <<156, 218>> \o Word(Len(parts[p]))
            \o <<p % 256, (1 + ((3 * n) \div MaxPacket)) % 256>> \o parts[p] \o <<54>>]

(* The universe, the number of values, the start code and the values.      *)
UdpE131(n, leds) ==
    LET parts == Split(Bytes(First(n, leds)), DMX_MAX)
    IN [p \in DOMAIN parts |-> <<p>> \o Word(1 + Len(parts[p])) \o <<0>> \o parts[p]]

UdpH801(n, leds) == <<<<251, 235>> \o RGB(leds[1]) \o Zeros(3)>>

UdpRaw(n, leds) == <<Bytes(First(n, leds))>>

(* An orb is sent the color of the LED whose number, from 1, is its id.    *)
AtmoOrb(n, leds) ==
    LET Orb(i) == [j \in DOMAIN SelectSeq(OrbIds, LAMBDA id : id = i) |->
                      <<192, 255, 238, 4, i>> \o RGB(leds[i])]
    IN FlattenSeq([i \in DOMAIN leds |-> Orb(i)])

-----------------------------------------------------------------------------
(* USB devices and files.                                                  *)
RawHID(n, leds) == <<<<0>> \o Bytes(First(n, leds))>>

Paintpack(n, leds) == <<<<0>> \o Overlay(<<3, 0>> \o Zeros(3 * n), 2, Bytes(leds))>>

HyperionUsbasp(n, leds) == <<SubSeq(Bytes(leds), 1, (3 * n) % 65536)>>

(* A Lightpack has ten LEDs with 12 bits, of which 8 are set.              *)
Lightpack(n, leds) ==
    <<Overlay(<<1>> \o Zeros(60), 1, Each(First(Min({10, n}), leds),
                                           LAMBDA c : RGB(c) \o Zeros(3)))>>

(* Each Lightpack says that it has all LEDs, so that the first takes the   *)
(* data of n of them, and the next ones what is left; what a Lightpack     *)
(* reads behind the end of the frame is left dark here.                    *)
MultiLightpack(n, packs, leds) ==
    FlattenSeq([k \in 1 .. packs |->
        LET rest == SubSeq(leds, (k - 1) * n + 1, Len(leds))
        IN IF rest = <<>> THEN <<>> ELSE Lightpack(n, rest)])

(* The index of the first LED, and the values of up to ChunkSize LEDs.     *)
Tinkerforge(n, leds) ==
    LET chunks == Split(First(n, leds), ChunkSize)
        Values(chunk, ch) == [i \in DOMAIN chunk |-> chunk[i][ch]]
    IN [p \in DOMAIN chunks |-> <<(p - 1) * ChunkSize>> \o Values(chunks[p], "red")
            \o Values(chunks[p], "green") \o Values(chunks[p], "blue")]

(* A pin and its duty cycle, in 765ths; a pin of no LED is left out.       *)
PiBlaster(n, leds) ==
    LET Duty(c, color) ==
            CASE color = "r" -> 3 * c.red [] color = "g" -> 3 * c.green
              [] color = "b" -> 3 * c.blue [] color = "w" -> SumOf(c)
        pins == SelectSeq(GpioMap, LAMBDA pin : pin.led < n /\ pin.color \in {"r", "g", "b", "w"})
    IN [i \in DOMAIN pins |-> <<pins[i].gpio, Duty(leds[pins[i].led + 1], pins[i].color)>>]

File(n, leds) == <<Bytes(leds)>>

-----------------------------------------------------------------------------
(* What write() sends, by the type of the device; packs is the number of   *)
(* Lightpacks that multilightpack has opened.                              *)
Encoded(type, n, packs, leds) ==
    CASE type = "adalight"        -> Adalight(n, leds)
      [] type = "adalight_apa102" -> AdalightAPA102(n, leds)
      [] type = "sedu"            -> Sedu(n, leds)
      [] type = "dmx"             -> DMXRaw(n, leds)
      [] type = "dmx_mccrypt"     -> DMXMcCrypt(n, leds)
      [] type = "tpm2"            -> Tpm2(n, leds)
      [] type = "atmo"            -> Atmo(n, leds)
      [] type = "apa102"          -> APA102(n, leds)
      [] type = "lpd6803"         -> Lpd6803(n, leds)
      [] type = "lpd8806"         -> Lpd8806(n, leds)
      [] type = "p9813"           -> P9813(n, leds)
      [] type = "ws2801"          -> Ws2801(n, leds)
      [] type = "ws2812spi"       -> Ws2812SPI(n, leds)
      [] type = "sk6812spi"       -> Sk6812SPI(n, leds)
      [] type = "sk6822spi"       -> Sk6822SPI(n, leds)
      [] type = "ws281x"          -> WS281x(n, leds)
      [] type = "fadecandy"       -> FadeCandy(n, leds)
      [] type = "tpm2net"         -> Tpm2net(n, leds)
      [] type = "udpe131"         -> UdpE131(n, leds)
      [] type = "udph801"         -> UdpH801(n, leds)
      [] type = "udpraw"          -> UdpRaw(n, leds)
      [] type = "atmoorb"         -> AtmoOrb(n, leds)
      [] type = "rawhid"          -> RawHID(n, leds)
      [] type = "paintpack"       -> Paintpack(n, leds)
      [] type = "hyperionusbasp"  -> HyperionUsbasp(n, leds)
      [] type = "lightpack"       -> Lightpack(n, leds)
      [] type = "multilightpack"  -> MultiLightpack(n, packs, leds)
      [] type = "tinkerforge"     -> Tinkerforge(n, leds)
      [] type = "piblaster"       -> PiBlaster(n, leds)
      [] OTHER                    -> File(n, leds)

==============================================================================
