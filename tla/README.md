# A formal model of Hyperion

Hyperion drives LEDs around a screen. Clients, grabbers and effects write
colours or images to numbered *priority channels*; the daemon shows the channel
with the lowest number (or the one a user selects) on the LEDs, smoothed, until
the channel is cleared or times out.

This directory holds TLA+ modules of the daemon, the TLC configurations that
check them on small instances, and proofs that hold for all instances.
`PROJECT.json` says which lines of the source every definition models, which
property every run checks, and which change of the code each property would
catch.

## Inventory

| component | source (below `src/`) | state | operations | what is hard |
|---|---|---|---|---|
| priority muxer | `libsrc/hyperion/PriorityMuxer.cpp` | inputs by channel, cached current priority | set, clear, clear all, expire | the cache; channel 255; channels above 255 |
| Hyperion core | `libsrc/hyperion/Hyperion.cpp` | muxer, source selection, timeout timer, backlight cache, register of input sources | setColors, clear, clearall, select, update, timer, freeObjects | conditional updates, two clocks, nested slots |
| effect engine | `libsrc/effectengine/` | effects with thread, abort flag and end time; files | run, abort, draw, finish; read, create, delete | threads and the event queue; overriding files |
| smoothing | `libsrc/hyperion/LinearColorSmoothing.cpp` | target, previous values, delay line, timer | write, tick, enable | timing, rounding, frames kept back |
| image processor, black borders | `libsrc/hyperion/ImageProcessor.cpp`, `libsrc/blackborder/` | current and previous border, two counts, the mapping | process, setSize, enable | counters, a cached mapping |
| LED map, LED string, colours | `libsrc/hyperion/ImageToLedsMap.cpp`, `LedString.cpp`, `MultiColorAdjustment.cpp`, `libsrc/utils/Rgb*.cpp` | configuration | pure functions | clones, rounding, index arithmetic |
| LED devices | `libsrc/leddevice/` | ready flag, last values, handle, delays, the Hue bridge's lamps | construct, open, write, block, refresh | timers that outlive their reason; reopening; 30 protocols |
| grabber wrappers | `libsrc/hyperion/GrabberWrapper.cpp`, `libsrc/grabber/*/*Wrapper.cpp` | timer, component register | start, stop, mode, higher sources | several writers of one state |
| grabbers | `libsrc/grabber/`, `libsrc/utils/ImageResampler.cpp` | device, screen, the image kept between grabs | open, capture, crop, resize | errors; an image of an earlier size |
| JSON server | `libsrc/jsonserver/`, `libsrc/utils/jsonschema/` | connections with buffer and streams | read, check, handle, stream, close | framing, streams beside replies |
| Proto, boblight, UDP servers | `libsrc/protoserver/`, `boblightserver/`, `udplistener/` | connections with buffers and channels | read, handle, close, reconnect | framing, channel hand-over |
| Kodi checker | `libsrc/kodivideochecker/` | playback state, modes | requests, replies, notifications | order of answers, reconnects |
| daemon | `src/hyperiond/` | all objects | start, stop | what the first effects and grabbers find |
| clients | `src/hyperion-remote/`, `src/hyperion-*/` | - | requests | - |
| web configuration, bonjour, command line | `libsrc/webconfig/`, ... | none of the LED system's | I/O | - |

How they interact: the servers, the grabber wrappers and the timers live on the
main thread and call the slots of `Hyperion` directly; every slot runs to
completion. `Hyperion::update` picks the channel, applies colour adjustments and
writes to the smoothing filter, or to the device if smoothing is off. Effects
run on threads of their own; their frames and finished signals are *posted* to
the main thread, and the main thread sets their abort flags. Each effect, grabber
and connection has an image processor of its own, which turns an image into
LED colours before `setColors` is called. The Kodi checker tells the grabbers
when to grab, and them and the Proto clients in which video mode.

What makes each part correct:

- core: the LEDs show the lowest channel in use, or the selected one; a channel
  goes when it is cleared or its time is over and not before; nothing that is
  cached is stale.
- effect engine: no effect harms the next owner of its channel, aborted and
  timed effects end.
- smoothing: what was written arrives, on a way that leads there; memory is
  bounded.
- image processor: a stable border is cut off, an unstable one is not, and the
  mapping fits the image.
- LED devices: the hardware shows the frame, each LED its part of it; a device
  that comes back shows the last frame again.
- grabbers: a grabber captures exactly while it should; an image is of the last
  grab.
- servers: every complete message is handled once and in order; a connection
  clears its own channel and no other; a stopped stream is silent.
- Kodi checker: the modes are those of what Kodi does.

## Modules

| module | models | kind |
|---|---|---|
| `PriorityMuxer` | the muxer's methods as operators from muxer to muxer | operators |
| `HyperionCore` | the slots of `Hyperion` as operators from core to core | operators |
| `Hyperion` | the core with clients, its timer and two clocks | state machine |
| `ChannelArbiter` | what the core promises, without clocks, timers and caches | abstract specification |
| `EffectEngine` | effects, their threads, the event queue, with the core | state machine |
| `LinearColorSmoothing` | the filter for one colour component | state machine |
| `ImageProcessor` | border tracking and mapping | state machine |
| `LedOutput` | from what a channel holds to the frame: LED string, mapping, adjustments, clones, orders | operators |
| `DeviceFrames` | from the frame to each device's bytes | operators |
| `LedDevices` | the devices, their providers and timers, and hardware that comes and goes | state machine |
| `Grabbers` | the wrappers and the V4L2 device, with the core and the component register | state machine |
| `FrameGrabbers` | from the screen to the image | state machine |
| `KODIVideoChecker` | the checker and Kodi | state machine |
| `StreamServers` | Proto server and clients, boblight server, UDP listener, with the core | state machine |
| `JsonValues` | JSON values; the schema checker is its parameter | operators |
| `JsonSchema` | the schema checker | operators |
| `JsonRequests` | the requests clients send and which of them the schemas accept | operators |
| `EffectFiles` | effect definitions and schemas on the disk | operators |
| `JsonServer` | connections, commands and streams, with the core and the effects' files | state machine |
| `HyperionCore_proofs` | lemmas on what each operation of the core does to its channels | proofs |
| `Hyperion_proofs` | theorems on `Hyperion`, `ChannelArbiter`, `Grabbers` and `LedDevices` | proofs |
| `FrameGrabbers_proofs` | theorems on `FrameGrabbers` and `KODIVideoChecker` | proofs |
| `EffectEngine_proofs`, `StreamServers_proofs`, `ImageProcessor_proofs`, `LinearColorSmoothing_proofs`, `JsonServer_proofs` | theorems on the module of that name | proofs |
| `MC_*` | constants for TLC | model checking |

`HyperionCore` is shared: `Hyperion`, `EffectEngine`, `Grabbers`,
`StreamServers` and `JsonServer` extend it and apply its operators in their
actions, so that all talk about the same code. `LedDevices` extends
`DeviceFrames`, which extends `LedOutput`; `JsonServer` extends `JsonRequests`
(which extends `JsonValues`) and `EffectFiles`. The parameter `IsValid` of
`JsonValues` is the checker, `CheckJson` of `JsonSchema`, in all runs; the proofs
take any checker that accepts the stream commands of the schema.

### PriorityMuxer, HyperionCore, Hyperion

A muxer is a record of `_activeInputs` (`inputs`) and `_currentPriority`
(`current`). A core is a record of the muxer, `_sourceAutoSelectEnabled`
(`auto`), `_currentSourcePriority` (`source`), the remaining time of `_timer`,
`_prevCompId`, the backlight flag of the adjustments, and the last frame written
(`leds`). A slot that calls other slots, as `clear` calls
`setSourceAutoSelectEnabled` which calls `update`, is the composition of their
operators, so that an action is the whole slot with everything it calls.
`getInputInfo` throws when the channel is missing; the exception leaves the slot
and the event loop, which is the status `terminated`.

What is abstracted: the colours of a channel are one value; the component of a
channel is one of four classes; adjustment, clone LEDs and colour order do not
affect which channel is shown (they are in `LedOutput`).
`_currentSourcePriority` is not initialised by the constructor; it is only read
after a selection has set it, and starts here as the lowest priority. Time:
`now` is the wall clock, which `SetClock` may set to any value; `core.timer`
counts down with `Tick` and does not follow `SetClock`. The event loop may serve
a due timer arbitrarily late.

`ChannelArbiter` keeps the channels, whether selection is automatic, and what is
displayed. Each of its steps edits the channels, drops any timed ones, and under
automatic selection shows the lowest that is left. `Hyperion!Arbiter` maps the
core to it by forgetting the deadlines.

### EffectEngine

Each `Effect` goes through `new`, `starting`, `script`, `emitting`, `returned`
and `deleted`. `emitting` lies between the checks at the start of a drawing call
and the emission of its frame, which the main thread may interrupt. The queue
holds frames and finished signals in the order they were posted. A script may
draw, poll `abort()` and end in any order. The system starts as
`HyperionDaemon::startInitialEffect` leaves it: with nothing, a colour or an
effect in the foreground and in the background. `owner` is a history variable:
who last asked for each channel.

### LinearColorSmoothing

The code keeps absolute times and uses their differences; the model keeps the
differences `left` (to the target time) and `since` (the previous tick). The
factor `k` is exact where the code rounds it to a float, and the addition wraps
to the width of a colour. `frame` is a history variable: what `update` wrote
last.

### ImageProcessor

Which pixels are black is left open: each image has a size and any border that
the detection mode can return for it. The counts stop one above the numbers they
are compared with. `watched`, `run`, `hits` and `misses` are history variables
that follow one arbitrary border.

### LedOutput, DeviceFrames, LedDevices

A setup is a configuration: the device's type, the LED string with clones and
orders, adjustments, and the options that change control. `Update(src)` is the
end of `Hyperion::update`: the frame of a source (`FrameOf`), written to the
device or, with continuous output, left for smoothing to write again and again.
`device` is the `LedDevice` with its provider: the handle is `none`, `open`,
`stale` (unplugged and not noticed) or closed; `timers` counts the delays that
are running. What a device is sent is `Encoded`, in bytes, as
`LedDevice*::write` puts them together; `Received` in the properties reads them
as the protocol defines. Of floating point, gammas 1 and 2 with brightness and
threshold levels that keep integers remain. Requests to the Hue bridge run a
nested event loop: `HueReply` and `HueTimeout` are the steps in it. USB devices
are found on a bus of devices that may be busy or locked.

### Grabbers, FrameGrabbers

`Grabbers` has the wrappers with their timers, the component register, the
errors of the X11 display and the life of the V4L2 device: search, open,
configure, stream, no signal, read errors. A `GrabberWrapper` writes to its
channel and to the core. `FrameGrabbers` has one grabber and its image: a pixel
is the place on the screen it came from, `Old` when it was not written by the
last grab, or `Blank`. The screen changes its size and Kodi the video mode
between grabs; a grab may fail. `fault` ends the behaviour when the code would
write outside an image.

### KODIVideoChecker

The TCP connection is two sequences, `toKodi` and `toChecker`. Kodi answers in
order and notifies by itself, and each answer holds the state at the time it was
written. A socket that closes, a refused connection and a restarted Kodi are
actions. Messages that arrive together or in parts cannot be parsed and are
dropped (`ReceiveUnparsable`).

### StreamServers

A Proto message, and a reply, is two pieces on its way; each side reads any
number of pieces and handles one message per read, as the code does. A message
that could not be parsed is refused and then handled as far as it was read
(`ParseMessage`); one that lacks its extension is refused. `ConnectToHost`,
`Accepted`, `Refused` and `ProtoConnectionLost` are the client's connection. A
client that does not skip replies ends with the first refusal it reads
(`ParseReply`, which throws), and its socket is then closed
(`ProtoClientCloses`). A client's buffer outlives its connection: a first piece
that is left in it makes every later reply unparsable (`StartsWithReply`).
`Crash` and `Restart` are the server's end (an exception in the core included)
and a service manager. The boblight server is switched on only if its port can be
bound: otherwise `start()` throws, which the handler of the JSON command catches.
When the daemon starts, the ports of all servers are taken to be free: an
exception there ends `HyperionDaemon::run` half way. `writer` is a history
variable: who wrote a channel last.

### JsonValues, JsonSchema, JsonRequests, EffectFiles, JsonServer

A request is a value of constructors that follow hyperion-remote's
(`ColorRequest`, ...); `Text` gives the JSON it is sent as, and `IsAccepted`
validates that against the schemas with a translation of `QJsonSchemaChecker`.
Pieces of requests, of websocket frames and of handshakes are on the wire; the
server reads some of what has arrived. A raw client sends up to two requests
without waiting for the answers, and so does a web client, as `ledsim.js:46` and
`hyperion.js:149` do. On a websocket one frame is handled for all that a read
brings (`HandleWebSocketFrame`): what is behind it is lost, a text frame of which
only a part has arrived is answered with an error, the rest of it is then read as
the header of some frame (`AsRead` with the choice `misread`), a ping stays in the
buffer and hides all that follows, and a close or a fragment closes the connection.
The first part of a frame holds its whole header, and a handshake is in one read.
`whole` is a history variable: whether every read of a websocket was exactly one
frame. `ReadEffects` gives the effects from a disk of
directories, with the user's ones overriding and disabled ones left out; a
reload reads them again and closes every connection. `asked` and `wants` are
history variables: what a client waits for, and the streams it has on.

## Runs

| run | expected | what it shows |
|---|---|---|
| `Hyperion` | pass | caches, LEDs, timer and backlight are consistent after every sequence of calls, expired channels leave the LEDs, and the core implements `ChannelArbiter` |
| `EffectEngine_safety` | pass | ownership, ordering and deletion of effects in every interleaving |
| `EffectEngine_live` | pass | aborted and timed effects end and are deleted |
| `EffectEngine_owner` | violation | a frame of an aborted effect takes a rewritten channel back |
| `LinearColorSmoothing` | pass | bounded delay line, approach without overshoot, and a written frame reaches the device |
| `ImageProcessor` | pass | stable borders win, unstable ones do not, mappings are current and fit wherever the image has room |
| `LedDevices` | pass | the frame matches the configuration, each device's bytes are the frame, blocked devices unblock, unplugged ones reopen and show the last frame |
| `Grabbers` | pass | the V4L2 grabber captures only while it is on and no higher source is active, and resumes |
| `FrameGrabbers` | pass | a 2D image is wholly of the last grab, a 3D one of one eye |
| `KODIVideoChecker` | pass | the grabbing mode follows Kodi, and the connection comes back |
| `StreamServers` | pass | no channel of a closed boblight source stays, no message is left behind, the register is true, clients that a refusal has not ended reconnect |
| `JsonServer` | pass | streams end with their stop however frames are cut or lost, images are sent once, no request is forgotten on a raw socket, nor on a websocket while every read is one frame |

The violation is a disagreement between the code and what its own headers say;
`PROJECT.json` quotes both sides under `findings`. Every property of a passing
run has a seeded fault in its module (a comment "Seeded fault" marks it), a
change of the code that makes the run fail.

### Bounds

- **Hyperion**: `Lowest` is 3 instead of 255. Two channels before it are enough
  for a current one, a shown one and a selected one that differ; channel 4
  stands for those behind it. Timeouts 0 (endless), 1 and 2 and times up to 2
  make one channel expire while another has time left; the wall clock is set
  once, to any time. The two components are those whose backlight differs.
  Nobody writes to the lowest channel itself in the runs; the proofs are about
  endless writes to it too.
- **EffectEngine**: two effects of the same name are enough for an old and a new
  one on a channel; two channels, those of the foreground and of the background,
  let them miss each other. The queue holds two frames besides finished signals.
  Time ends at 3 (2 for liveness); effects start only if their end lies within
  it, so that none is cut off. Liveness uses one channel and one queued frame.
  Symmetry of effects is used for safety only.
- **LinearColorSmoothing**: four colours of which differences up to 3 need
  rounding; settling over two ticks, a delay of two frames, ticks up to one unit
  late, one change of the clock back beyond the settling time or forward, with
  continuous output and without.
- **ImageProcessor**: images of 9 by 6 and 7 by 12, with 9 and 12 borders. In
  classic mode a border may be as long as the third of the shorter side, so its
  borders include those of the modes `default` and `osd`. The numbers of images
  are 3, 2 and 1 instead of 600, 50 and 10: all different, and discarded images
  occur. `blurRemoveCnt` is 1, the default. With it six rows have no room for the
  thickest border and seven columns just enough, so that `BorderFits` is checked
  on both sides of its edge.
- **LedDevices**: every registered device with two LEDs (five for Atmo, which
  takes no other number); four of them also with a clone, colour orders, two
  adjustments and a LED more than is configured; and longer stories with two
  losses of the hardware for a device of each provider. Three delays at a time
  would add no case: two already outlive each other. Packets, DMX and strips are
  so short that two LEDs need more than one of them.
- **Grabbers**: two kinds of screen grabbers, two video devices, a channel each
  and another source before the V4L2 grabber's; two events decided by people
  or devices, between any number of frames, timers and polls.
- **FrameGrabbers**: screens up to 12 by 8, with decimations 1 and 2 so that sizes
  that divide and that do not occur, crops on one side and on both, both chroma
  layouts. There is no bound on the number of grabs.
- **KODIVideoChecker**: three changes of Kodi, of the component or of the
  connection, in all three media and both stereo modes.
- **StreamServers**: one Proto client, which checks its replies or skips them, and
  two boblight clients, two channels, three messages or events; every message and
  every reply is in two pieces. Two messages and one loss are enough for a reply
  that is cut by the loss and one that follows it.
- **JsonServer**: two clients, three requests and two connections, on raw sockets
  or websockets; one unread message of a stream. Every line and every frame is in
  two pieces, of which a read takes any number: a frame in parts, two frames at
  once and a part behind a whole one all occur. Over a websocket the requests of
  `MCWebRequests` are sent: the streams, a colour and a ping. The disk holds what
  `MC_JsonServer` describes.

Deadlock is not checked where the system may really stop: after `freeObjects`, an
exception, or the deletion of a device nothing more is called, and where bounded
events are all used nothing has to happen. It is checked for the filter and for
the image processor.

### Fairness

- `Hyperion`: time passes and the event loop serves a due timer. No client, no
  user and no clock change is ever required.
- `EffectEngine`: in addition the main thread serves its queue and every effect's
  thread is scheduled. A script polls `abort()` again and again (strong fairness:
  drawing calls come in between) and ends when the answer is true; every script
  below `src/effects/` is written that way. Emission is strongly fair because the
  bound of the queue may disable it for a while.
- `LinearColorSmoothing`: time passes and the periodic timer is served.
- `LedDevices`: timers fire, a lost link is noticed, the bridge answers or the
  request fails, smoothing writes where its output is continuous. Hardware is
  never required to come back: the properties start when it has.
- `Grabbers`: the V4L2 wrapper's half-second timer fires and a device that fails
  is read.
- `KODIVideoChecker`: its timers fire, a closing socket closes, and a Kodi that
  runs accepts a connection (strongly fair: a timer of an earlier try may come in
  between two tries).
- `StreamServers`: the clients' endless reconnect timer fires, the network
  answers, and a service manager restarts a server that died. Nothing restarts a
  client that has ended: `Reconnects` leaves it out.

## Proofs

Each theorem follows the same outline: an inductive invariant `IInv` that holds
initially, that one lemma per action shows to be preserved, and that implies the
property. What is assumed of the constants are the named `ASSUME`s of the modules,
which TLC evaluates in every run, and what a theorem's own `ASSUME` says.

**The core.** `HyperionCore_proofs` has the lemmas that three of the modules below
rest on: what a channel holds after each method of the muxer and the core, that
no method changes the other channels but for removing those whose time is over
(`Keeps`), and that every result has the fields of a core (`CoreShape`).

`Hyperion_proofs` proves, for all channels, colours, timeouts and bounds:

- `TypeCorrect`, `CurrentPriorityCorrect`, `ArbitrationCorrect`, `TimerCorrect`
  and `BacklightCorrect`: `TypeOK`, `CurrentIsLowest` (and that no exception
  leaves a slot), `LedsShowCurrent`, `TimerCoversShown` and
  `BacklightFollowsComponent` are invariants.
- `ArbiterImplemented`: every behaviour of the core is one of `ChannelArbiter`.

All of them are about behaviours in which `LowestStays` is always true: nobody
gives the lowest channel, 255, a deadline. Clients may write to it without a
duration. A write with one is possible, by Proto, UDP or a grabber, though not
by JSON, whose schema stops at 253; the channel then expires, and the next
`update()` looks up a channel that is not there and throws (see "Observed").
`DeadlineStays` shows that such a write is the only way to break `LowestStays`.
The inductive invariant is the conjunction of `Base` (types, the lowest channel is always in
use and endless, the cached priority is the lowest one), `UpToDate` (under
automatic selection the LEDs, the last component and the backlight are those of
the current channel) and `OnTime` (the timer covers the deadline of the shown
channel). `CurrentIsLowest` alone is not inductive: that a minimum is left after
an expiry needs the endless lowest channel. The argument follows the code: first
a lemma for each method of the muxer, then one for `update`, which establishes
everything from `Base` alone, then one for each slot, in which the skipped
updates are the interesting cases. For the refinement, a step of the core leaves
the channels as its caller edited them but for timed ones that have gone
(`Keeps`), and shows the lowest of what is left (`Settled`); `Settles` makes an
arbiter's step of any such step, and each slot is shown to be one or a stutter.

**The effect engine.** `EffectEngine_proofs` proves, for all numbers of effects,
channels, names, timeouts and lengths of the event queue, provided nobody writes
to the lowest channel (`Lowest \notin Priorities`):

- `TypeCorrect`: the types of all variables (`EffectsInv`), so that no slot throws
  in any interleaving of effect threads and event loop.
- `FinishClearsOnlyOwn`, `TimedEffectsDoTimeOut` and `NothingIsAfterFinished`:
  `FinishClearsOwnChannel`, `TimedEffectsTimeOut` and `NothingAfterFinished`.

None of the three is inductive. What makes them so is `Owned`: an effect that is
active and was not told to abort is the one its channel belongs to. Every way to
take a channel over goes through `channelCleared` or `allChannelsCleared`, which
set the flag in the same slot, and the flag is what the finished slot looks at.
`QueueInv` carries the rest through the queue: the events are of effects that
exist, nothing follows a finished signal of the same effect, and a frame of an
effect with a timeout has one. `EmitsInTime` says the same of a thread that has
read its time left and not emitted yet. The constants are assumed to have the
form the code gives them: there is a name for an effect, a start-up effect is
"none", a colour or an effect, and its channel, 0 or `Lowest - 1`, is a channel.

**The servers for streams.** `StreamServers_proofs` proves, for all numbers of
clients, sets of messages and ways to cut them to pieces, and with nothing assumed
about who writes to the lowest channel:

- `BoblightClearsUp`, `MessagesAreHandled` and `RegisterCorrect`:
  `BoblightLeavesNothing`, `LastMessageHandled` and `RegisteredIsOpen`.

A connection is open at both ends or at none, but for a client that a refusal has
ended, whose socket the server has yet to see closed. The inductive invariant has `InOrder` for each client (what was handled, then what
is in the buffer, then what is on its way, is what was sent: `LastMessageHandled`
is what remains of it when the last two are empty), `Registered` and `LitInv`
(a channel that Boblight wrote last is one of an open connection; a connection
that moves or closes clears the old one). The channels of the two servers and of
the messages are assumed to be channels, and the number of connections finite,
since `BoblightServer` counts them.

**The Kodi checker.** `FrameGrabbers_proofs` proves `CheckerFollowsKodi`
(`GrabbingModeFollowsKodi`), for all configurations and numbers of messages. The
property speaks only of the moment at which nothing is on its way; its inductive
form `Follows` has to say what is true while requests, replies and notifications
cross: what a reply on its way tells is still so, or a notification of the change
is behind it (`AllStillSo`); the mode is right, or something that will decide it
is on its way (`ModeFollows`); and likewise for what is playing and the player
(`PlayingFollows`, `PlayerNoticed`). `CheckerInv` is that invariant with types and
the state of the connection.

**The JSON server.** `JsonServer_proofs` proves, for all numbers of clients, requests
and connections, all requests, disks and schemas (whatever a checker accepts beyond
the stream commands, which `StreamsAreAccepted` names), however requests and frames
are cut to pieces, put together or misread, and however much is left unread:

- `StreamsStopCorrect`, `NoRequestForgottenCorrect` and `ImageSentOnceCorrect`:
  `StreamsStop`, `NoRequestForgotten` and the action property `ImageSentOnce`.

`JsonInvariant` is the inductive invariant. For each open connection it says

- `Accounted`: for each request that is no websocket frame, the answers that lie in
  the socket and the ends of requests that lie in the buffer or on the wire are
  together no more than the client waits for. They are exactly as many while the
  program runs, on a raw socket, and on a websocket as long as every read was
  exactly one frame (`Exact`); the code loses requests otherwise, and the theorems
  say no more. `NoRequestForgotten` is what it says of a connection with nothing on
  its way in either direction. `StreamsStop` rests on the half that needs no such
  proviso.
- `Good`: every update of a stream in the socket, and every stream that is on, is one
  the client still wants when it comes to read it: behind an answer that stops the
  stream there is one that starts it (`Covered`). `StreamsStop` says that of the first
  message only, and would not survive the read of an answer before it.
- `Arriving`: what may lie in the buffer and on the wire between two events. On a
  raw socket the buffer has no complete line, since `readData` takes all of them;
  on a websocket it is empty, or has a ping or another frame that is never taken
  out at its head; the pieces on the wire come in pairs, of which a websocket may
  have read the first one; and a handshake is alone.

Handling the lines of a buffer (`HandleLines`) and sending an image once per
connection of the slot (`ImageEmitted`) are recursive functions of a number; what
they do is proved by the least number for which it would be wrong. Every request has a lemma that says which answer it
appends and which streams it turns on or off, and that it leaves other
connections alone; an update appends messages of streams that are on.

**The grabbers.** `Hyperion_proofs` also proves `OffCorrect` (`OffIsNotStreaming` of
`Grabbers`, which it instantiates), for all grabbers, devices, priorities and
bounds. `GrabbersInvariant` adds that a device that streams has its notifier
enabled, and is initialised if the notifier is: `stop()` leaves a device alone
whose notifier is disabled, and would leave it streaming otherwise.

**The images.** `FrameGrabbers_proofs` proves, for all sets of setups and screens,
and with no bound on sizes, decimations, crops or grabs:

- `SnapshotIsWholeCorrect` and `OneEyeCorrect`: `SnapshotIsWhole` and `OneEye`.

At the base is the arithmetic of rows and columns. `StepInPlace` says where the
n-th step of a resampler comes from and that it is in place, `RenderInPlace` the
same of XRender's scale, and `HalfOf` what a 3D mode leaves of a length. On it
rest the lemmas about images: `FillIs`, that after a grab each pixel is a new one
at its place or as old as before, and `ResampleIs`, what `processImage` makes of an
image. The solver does not decide products and quotients of sizes that are all
variable, so each lemma names the product it needs and its bounds. The inductive
invariant `GrabbersInv` is about the buffer that a grabber keeps: it has the
configured size (amlogic, dispmanx, framebuffer, osx), or the size that the
resampler makes of the part of the screen in one of the modes (X11), so that every
grab either writes all of it or resizes it first. V4L2 makes a new image for each
frame. The theorems hold under the conditions their properties state, `Mappable`,
`KeptFrom3D` and `Centred`. The first attempt at `SnapshotIsWhole` failed for
XRender with a decimation of 3 or more and a crop that is no multiple of it: a
column then comes from two away from its place, which TLC confirmed with such a
setup. `Mappable` now asks for multiples, and the run has a setup with an
uneven crop that is one.

**The LED devices.** `Hyperion_proofs` proves `DelayCorrect` (`BlockedHasTimer` of
`LedDevices`), for all setups. The inductive invariant `DeviceInv` says of the
device what the property does, and that it keeps the fields of a device. Each
handler is a chain of edits of the device, and the lemmas follow the chain: one
for the plain edits, one for each operator that writes, fails, opens, blocks or
unblocks (`OpenedKeeps`, `PortErrorKeeps` and so on), then one for each action.
What they say is that the code blocks only where it starts a delay, and that the
end of any delay unblocks, even that of another one.

**The image processor.** `ImageProcessor_proofs` proves, for all sizes, modes and
numbers of images:

- `TypeCorrect`, `ConsistentBorderCorrect`, `SwitchCorrect` and `MappingCorrect`:
  `TypeOK`, `ConsistentBorderWins`, `SwitchNeedsFrames` and `MappingNotStale`.
- `BorderFitsCorrect`: `BorderFits`. The property says for each direction of an
  image that it has room for what was detected in it, if it has room for the
  thickest border that could be (`HasRoom`). That condition is part of the
  property because the code has none: the schema sets no maximum for
  `blurRemoveCnt` and nothing checks the size of an image, so that in a small one
  the blur added to a border reaches past the middle. What is proved is that
  nothing else makes the assertions of `ImageToLedsMap` fail.

The inductive invariant adds to these: `Reached` (a count that has reached its
number has switched the border, which is why comparing with `==` is enough),
`RunCounted` (a run of the watched border is counted by the tracker, but for the
images that were discarded) and `HitsCounted` (the tracker's count is covered by
images that really had the border).

**Smoothing.** `LinearColorSmoothing_proofs` proves, for all colours, settling
times, intervals, delays and lateness:

- `TypeCorrect`, `DelayLineCorrect` and `ApproachCorrect`: `TypeOK`,
  `DelayLineBounded` and `ApproachesTarget`.

The inductive invariant adds to the types and the bound `RunningHasValue` (a
running filter has a value to start from) and `ClocksAgree` (while the clock has
not been set, the time since the last tick is what the timer has counted down, so
that a timeout finds a positive time and the divisor is not zero). The lemma that
matters is `StepBounds`: the part `since / (left + since)` of a distance, rounded
up, is between 0 and the distance, and all of it when no time is left. With it a
value stays between the old one and the target, and the eight bits do not wrap.
For `TypeOK` there is `ClocksBounded` as well: however late ticks are and however
often the clock is set, the times stay within what the settings allow.

**Only model-checked.**

- `LedDevices`: `FrameMatchesLayout` and `DeviceShowsFrame`. What a frame and its
  bytes are is computed by folds over LEDs and over a protocol's packets, and
  what a fold computes for every input takes induction over data.
- Everything under fairness, which is out of the proof system's reach:
  `ExpiredLeavesLeds`, `AbortedEffectsEnd`, `TimedEffectsEnd`,
  `FrameReachesDevice`, `Reconnects`, `VideoYields`, `VideoResumes`, `Reopens` and
  `LastFrameShown`.

## Not modelled

Whole components: the web configuration (static files over HTTP), bonjour (an
external library), option parsing, screenshots and the main loops of the
stand-alone programs. They keep no state of the LED system.

Within the modelled ones: the images and LED values emitted to clients other
than JSON ones, `LinearColorSmoothing::switchOff` (never called), the effects'
drawing operations and script errors, the destruction of the effect engine while
threads run, pixel formats' bits and the detection of black pixels, the contents
of `serverinfo`, `sysinfo` and `getconfig`, the settings that `setconfig` writes,
frames for the Hue bridge that arrive while one is being sent, AtmoOrb's own
smoothing commands, and the Lightpack-hidapi driver, which the build leaves out.

## Observed, not checked

What the code does, as modelled, and a reader may not expect. No text of the
repository promises otherwise, or no room was left for a run of its own; the
properties are worded so that they leave these cases out.

- **Core.** A selected channel is shown only when something calls `update()`
  (`Hyperion.cpp:546`), with endless channels possibly never. Channel 255 written
  with a duration expires although `hasPriority` answers true
  (`PriorityMuxer.cpp:38`), and `getInputInfo` then throws out of the slot. `clear` of a channel that is shown but no longer
  selected leaves its colours (`Hyperion.cpp:632`). A name in the register keeps
  its first channel and goes with the first of two effects of that name that ends
  (`Hyperion.cpp:517`). `setSize` of an image processor drops a known border until
  it changes (`ImageProcessor.cpp:47`). In an image too small for the configured
  blur the borders overlap, six rows in classic mode with the default for example;
  `ImageToLedsMap.cpp:24` asserts that they do not, and without assertions the
  difference of unsigned numbers wraps. With a settling time shorter than the
  interval and without continuous output the filter never hands out an update
  (`LinearColorSmoothing.cpp:89`); disabling it in a transition leaves an
  intermediate colour.
- **LED output.** A clone of a later LED takes the wrong LED or throws
  (`Hyperion.cpp:747`); frames have more LEDs than `_ledCount` when there are
  clones; `switchOff` darkens only `_ledCount` of them. `RgbTransform::transform`
  uses `_mappingR` for all three colours; a coloured backlight can wrap.
- **LED devices.** Only serial, HID, fadecandy and pi-blaster devices are opened
  again after a loss. A serial error that repeats is ignored, since `_lastError`
  is never reset (`ProviderRs232.cpp:84`). A delay that was started earlier
  unblocks a later one. tpm2net announces one packet too many when the bytes are
  a multiple of the packet size. MultiLightpack's first pack takes all LEDs. The
  Hue driver's restore timer may run in the event loop of a request and clear the
  lamps that the write is going through (`LedDevicePhilipsHue.cpp:280`), and a
  lamp that was black before keeps its own colour. Tinkerforge's and others'
  errors become true in `_deviceReady`.
- **Grabbers.** Kodi starts a grabber that the user has switched off, and the
  register is not told. A device that is unplugged is not opened again; a read
  error stops the timer for good; a channel that is not shown keeps the V4L2
  grabber stopped. The resampler resizes an image only when both sides differ
  (`ImageResampler.cpp:67`), so that in 3D a half of the image keeps older pixels;
  framebuffer and osx write beyond the image when the screen is not a multiple of
  the configured size; XRender uses one scale for both directions and divides the crop by the
  decimation rounding down, so that the picture is shifted
  (`X11Grabber.cpp:170`); a crop larger
  than the screen is ignored for the size but not for the offset.
- **Kodi checker.** A new configuration stops it, and the restart names no slot
  (`KODIVideoChecker.cpp:103`). Messages that arrive together or in parts are
  dropped. `enable3DDetection` is stored and never read. The player with number 0
  counts as none.
- **JSON.** The schema type "integer" accepts any value that is no number, and
  "bool" is not checked. An unknown adjustment gets no reply. On a websocket a ping
  leaves the buffer never, the second of two frames in one read is lost, and a
  partial one is handled as complete, although the repository's own web client
  sends requests back to back. Stopping the log stream needs the Debug message
  of its start (`JsonClientConnection.cpp:1176`). hyperion-remote's `setconfig` is
  refused by the schema. Creating an effect reports success though the file could
  not be written. Deleting a user's effect brings back the one it overrode, and
  one with a disabled name is written but never listed.
- **Proto, boblight, UDP.** One Proto message is handled per read on both sides;
  a reply that cannot be parsed, for example because a lost connection has left a
  part of another before it, blocks the client's buffer for ever. A refused message
  ends a client that does not skip replies (`ProtoConnection.cpp:216`); a message
  that cannot be parsed is handled after it was refused. When its port is taken,
  starting the boblight server throws (`BoblightServer.cpp:36`). A `CLEAR` on another
  channel registers that one. A video mode message sets the grabbing mode
  (`ProtoClientConnection.cpp:107`). Boblight connections share the default
  channel, which goes with the first of them. The UDP listener registers as on
  though it could not bind.

## Plan

Done, in this order: muxer and core, the arbiter and its refinement, the
effects on top of the core, smoothing, the image processor, proofs for the core,
the image processor and smoothing; then the LED devices and their frames, the grabbers and
their images, the Kodi checker, the stream servers, and the JSON server with
schemas, requests and the effects' files; then proofs of the refinement and for
the effects, the stream servers, the Kodi checker, the grabbers, the JSON server,
the delays of the LED devices and the images of the grabbers. What is left, the
most important first:

1. The invariants of the screens and of the register in `Grabbers`, and of the
   channels that Proto and UDP clients leave in `StreamServers`.
2. Shutdown of the daemon with effect threads still running.
3. Single protocols of `DeviceFrames`, whose frames have a fixed layout, without
   the folds.
