----------------------------- MODULE JsonServer ------------------------------
(***************************************************************************)
(* The JSON server (libsrc/jsonserver) and its clients: hyperion-remote    *)
(* and other programs on a raw socket, the web configuration on a          *)
(* websocket.  A connection has a receive buffer that fills in pieces, a   *)
(* handler per command, and three streams (LED colours, images, log) that  *)
(* write to the same socket as the replies do.  The commands act on the    *)
(* core of HyperionCore; durations are the subject of module Hyperion.     *)
(*                                                                         *)
(* Everything on the server runs on the main thread.  A slot is an         *)
(* operator from the server's state to its next state; that state is the   *)
(* record                                                                  *)
(*   core      the Hyperion object                                         *)
(*   disk      the files of effects (module EffectFiles)                   *)
(*   effects   the effects the engine has found there                      *)
(*   slave     whether a request was forwarded to the JSON slaves          *)
(*   conn      the JsonClientConnection of every client, or Closed         *)
(* and a connection is the record                                          *)
(*   webSocket _webSocketHandshakeDone                                     *)
(*   buffer    _receiveBuffer, as the pieces that are in it                *)
(*   forwarder _forwarder_enabled                                          *)
(*   leds      whether _timer_ledcolors runs                               *)
(*   images    how many times emitImage is connected to setImage           *)
(*   ready     whether 250 ms have passed since the last image             *)
(*   logs      how many times newLogMessage is connected                   *)
(*   logging   _streaming_logging_activated                                *)
(*   out       what has been written to the socket and not been read       *)
(***************************************************************************)
EXTENDS HyperionCore, JsonRequests, EffectFiles

CONSTANTS
    Clients,       \* the clients, each with one connection at a time
    InitialDisk,   \* the files of effects at the start
    Requests,      \* the requests that clients send
    WebRequests,   \* those that clients send on a websocket, and its frames
    LogsDebug,     \* whether the log level lets Debug messages through
    MaxRequests,   \* bound: how many requests are sent
    MaxUnread,     \* bound: no stream writes to a client with so much unread
    MaxOpens       \* bound: how often a client connects

ASSUME LogsDebugIsBoolean == LogsDebug \in BOOLEAN
ASSUME JsonBoundsAreNat == {MaxRequests, MaxUnread, MaxOpens} \subseteq Nat

Streams == {"leds", "images", "log"}

VARIABLES
    server,   \* the state of the server, as above
    wire,     \* per client: the pieces on their way to the server
    asked,    \* per client: the requests it has no reply to yet
    wants,    \* per client: the streams it has asked for
    whole,    \* per client: whether every read of its websocket was one frame
    sent,     \* how many requests have been sent
    opened    \* how many connections have been made

vars == <<server, wire, asked, wants, whole, sent, opened>>

-----------------------------------------------------------------------------
(* A piece is a part of what a client sends: of a raw request, the last    *)
(* part with the end of line, or of a frame of a websocket, whose first    *)
(* part has the frame's header.                                            *)
Piece(r, last) == [request |-> r, last |-> last]

(* What the surroundings of the server decide while it handles data:       *)
(*   restarts   whether a reload replaces the process                      *)
(*   removable  whether the file of an effect may be deleted               *)
(*   misread    what the rest of a frame looks like where the server       *)
(*              expects the beginning of one                               *)
Misreadings == {PingFrame, CloseFrame, FragmentFrame, OtherFrame, GarbageRequest}

Environments == [restarts : BOOLEAN, removable : BOOLEAN, misread : Misreadings]

-----------------------------------------------------------------------------
(* Connections and what they write.                                        *)
Closed == [open |-> FALSE]

NewJsonClientConnection ==
    [open      |-> TRUE,  webSocket |-> FALSE, buffer |-> <<>>,
     forwarder |-> TRUE,  leds      |-> FALSE, images |-> 0,
     ready     |-> TRUE,  logs      |-> 0,     logging |-> FALSE,
     out       |-> <<>>]

NewConnection(s, c) == [s EXCEPT !.conn[c] = NewJsonClientConnection]

IsOpen(s, c) == s.conn[c].open

SendMessage(s, c, m) == [s EXCEPT !.conn[c].out = Append(@, m)]

Reply(r, success) == [kind |-> "reply", to |-> r, success |-> success]
StreamUpdate(stream)    == [kind |-> stream]

SendSuccessReply(s, c, r) == SendMessage(s, c, Reply(r, TRUE))
SendErrorReply(s, c, r)   == SendMessage(s, c, Reply(r, FALSE))

(* The slaves get the message if this connection's forwarder is on.        *)
ForwardJsonMessage(s, c, r) ==
    IF s.conn[c].forwarder THEN [s EXCEPT !.slave = TRUE] ELSE s

(* A log message reaches every connected slot; the first one a connection  *)
(* gets is replaced by the whole log buffer, and activates the stream.     *)
IncommingLogMessage(conn) ==
    [conn EXCEPT !.logging = TRUE,
                 !.out = @ \o [i \in 1 .. conn.logs |-> StreamUpdate("log")]]

LogMessage(s) ==
    [s EXCEPT !.conn = [c \in Clients |->
        IF IsOpen(s, c) /\ s.conn[c].logs > 0
          THEN IncommingLogMessage(s.conn[c]) ELSE s.conn[c]]]

DebugMessage(s) == IF LogsDebug THEN LogMessage(s) ELSE s

-----------------------------------------------------------------------------
(* The handlers, one per command.                                          *)
HandleColorCommand(s, c, r) ==
    LET f == ForwardJsonMessage(s, c, r)
    IN SendSuccessReply([f EXCEPT !.core =
           SetColors(@, r.priority, r.option, 0, COMP_COLOR, 0)], c, r)

(* The component is left out of the call, and is therefore COMP_INVALID.   *)
HandleImageCommand(s, c, r) ==
    LET f == ForwardJsonMessage(s, c, r)
    IN IF r.option \notin Colors THEN SendErrorReply(f, c, r)
       ELSE SendSuccessReply([f EXCEPT !.core =
                SetColors(@, r.priority, r.option, 0, COMP_INVALID, 0)], c, r)

(* The effect runs later, in a thread of its own; whether it exists is not *)
(* told.                                                                   *)
HandleEffectCommand(s, c, r) == SendSuccessReply(ForwardJsonMessage(s, c, r), c, r)

ReloadEffects(s) == [s EXCEPT !.effects = AvailableEffects(s.disk)]

(* Whether the file could be written is not looked at.                     *)
HandleCreateEffectCommand(s, c, r) ==
    LET message == Arguments(r)
    IN IF MayCreateEffect(s.disk, s.effects, message)
         THEN SendSuccessReply(
                  ReloadEffects([s EXCEPT !.disk = FileWritten(@, s.effects, message)]), c, r)
         ELSE SendErrorReply(s, c, r)

(* The permissions of the file are not known before it is deleted.         *)
HandleDeleteEffectCommand(s, c, r, env) ==
    IF MayDeleteEffect(s.disk, s.effects, r.option) /\ env.removable
      THEN SendSuccessReply(
               ReloadEffects([s EXCEPT !.disk = FileRemoved(@, s.effects[r.option])]), c, r)
      ELSE SendErrorReply(s, c, r)

HandleServerInfoCommand(s, c, r) == SendSuccessReply(s, c, r)

HandleClearCommand(s, c, r) ==
    LET f == ForwardJsonMessage(s, c, r)
    IN SendSuccessReply([f EXCEPT !.core = Clear(@, r.priority, 0)], c, r)

HandleClearallCommand(s, c, r) ==
    LET f == ForwardJsonMessage(s, c, r)
    IN SendSuccessReply([f EXCEPT !.core = ClearAll(@, 0)], c, r)

(* An unknown adjustment is logged, and not answered.                      *)
HandleAdjustmentCommand(s, c, r) ==
    IF r.option = "unknown" THEN s
    ELSE SendSuccessReply([s EXCEPT !.core = Update(@, 0)], c, r)

HandleSourceSelectCommand(s, c, r) ==
    IF r.option = "auto"
      THEN SendSuccessReply([s EXCEPT !.core = SetSourceAutoSelectEnabled(@, 0)], c, r)
    ELSE IF HasPriority(s.core.mux, r.priority)
      THEN SendSuccessReply([s EXCEPT !.core = SetCurrentSourcePriority(@, r.priority)], c, r)
      ELSE SendErrorReply(s, c, r)

(* Reloading frees the objects of the core and replaces the process.  What *)
(* follows a reload that did not replace it is not modelled.               *)
HandleConfigCommand(s, c, r, env) ==
    IF r.option \in {"getschema", "getconfig"} THEN SendSuccessReply(s, c, r)
    ELSE IF ~env.restarts THEN SendErrorReply([s EXCEPT !.core = FreeObjects(@, 0)], c, r)
    ELSE [s EXCEPT !.core = NewCore, !.conn = [d \in Clients |-> Closed]]

HandleComponentStateCommand(s, c, r) ==
    IF r.option \notin {"on", "off"} THEN SendErrorReply(s, c, r)
    ELSE LET on == r.option = "on"
         IN SendSuccessReply(
                [s EXCEPT !.conn = [d \in Clients |->
                              IF IsOpen(s, d) THEN [s.conn[d] EXCEPT !.forwarder = on]
                              ELSE Closed]], c, r)

(* Seeded fault: the stop of the images stops the LED timer.               *)
HandleLedColorsMixed(s, c, r) ==
    LET conn == s.conn[c]
        set  == CASE r.option = "ledstream-start"   -> [conn EXCEPT !.leds = TRUE]
                  [] r.option = "imagestream-start" -> [conn EXCEPT !.images = @ + 1]
                  [] OTHER                          -> [conn EXCEPT !.leds = FALSE]
    IN SendSuccessReply([s EXCEPT !.conn[c] = set], c, r)

(* The schemas of these two commands have an option more than the handlers *)
(* know.                                                                   *)
HandleLedColorsCommand(s, c, r) ==
    LET conn == s.conn[c]
        set  == CASE r.option = "ledstream-start"   -> [conn EXCEPT !.leds = TRUE]
                  [] r.option = "ledstream-stop"    -> [conn EXCEPT !.leds = FALSE]
                  [] r.option = "imagestream-start" -> [conn EXCEPT !.images = @ + 1]
                  [] r.option = "imagestream-stop"  -> [conn EXCEPT !.images = 0]
                  [] OTHER                          -> conn
    IN IF r.option \in {"ledstream-start", "ledstream-stop", "imagestream-start", "imagestream-stop"}
         THEN SendSuccessReply([s EXCEPT !.conn[c] = set], c, r)
         ELSE SendErrorReply(s, c, r)

HandleLoggingCommand(s, c, r) ==
    LET conn == s.conn[c]
        set  == CASE r.option = "start" /\ ~conn.logging ->
                       DebugMessage([s EXCEPT !.conn[c].logs = @ + 1])
                  [] r.option = "stop" /\ conn.logging ->
                       DebugMessage([s EXCEPT !.conn[c].logs = 0, !.conn[c].logging = FALSE])
                  [] OTHER -> s
    IN IF r.option \in {"start", "stop"} THEN SendSuccessReply(set, c, r)
       ELSE SendErrorReply(s, c, r)

HandleProcessingCommand(s, c, r) == SendSuccessReply(s, c, r)

(* Which requests the two checks refuse does not depend on the state.      *)
RefusedRequests == {r \in Requests : ~IsAccepted(r)}

HandleMessage(s, c, r, env) ==
    IF ~IsOpen(s, c) \/ s.core.status # "running" THEN s
    ELSE IF r \in RefusedRequests THEN SendErrorReply(s, c, r)
    ELSE CASE r.command = "color"     -> HandleColorCommand(s, c, r)
      [] r.command = "image"          -> HandleImageCommand(s, c, r)
      [] r.command = "effect"         -> HandleEffectCommand(s, c, r)
      [] r.command = "create-effect"  -> HandleCreateEffectCommand(s, c, r)
      [] r.command = "delete-effect"  -> HandleDeleteEffectCommand(s, c, r, env)
      [] r.command = "serverinfo"     -> HandleServerInfoCommand(s, c, r)
      [] r.command = "clear"          -> HandleClearCommand(s, c, r)
      [] r.command = "clearall"       -> HandleClearallCommand(s, c, r)
      [] r.command = "adjustment"     -> HandleAdjustmentCommand(s, c, r)
      [] r.command = "sourceselect"   -> HandleSourceSelectCommand(s, c, r)
      [] r.command = "config"         -> HandleConfigCommand(s, c, r, env)
      [] r.command = "componentstate" -> HandleComponentStateCommand(s, c, r)
      [] r.command = "ledcolors"      -> HandleLedColorsCommand(s, c, r)
      [] r.command = "logging"        -> HandleLoggingCommand(s, c, r)
      [] r.command = "processing"     -> HandleProcessingCommand(s, c, r)
      [] OTHER                        -> SendErrorReply(s, c, r)

-----------------------------------------------------------------------------
(* The socket's data.  A raw connection takes every complete line out of   *)
(* its buffer.  A websocket handles one frame for all that has arrived,    *)
(* and takes a frame of which a part has arrived for a whole one: a text   *)
(* clears the buffer, with what is behind it, and if it is cut it is no    *)
(* JSON and is answered with an error that names no request; every other   *)
(* frame stays at the head of the buffer, and is handled again at every    *)
(* later read, so that nothing behind it is looked at.                     *)
DoWebSocketHandshake(s, c) ==
    SendMessage([s EXCEPT !.conn[c].webSocket = TRUE, !.conn[c].buffer = <<>>],
                c, [kind |-> "handshake"])

(* Rest(buffer) is what follows the complete lines.                        *)
LastLine(buffer) == Max({0} \cup {i \in DOMAIN buffer : buffer[i].last})

Rest(buffer) == SubSeq(buffer, LastLine(buffer) + 1, Len(buffer))

(* Seeded fault: one line is taken from the buffer, as the Proto server    *)
(* takes one message.                                                      *)
HandleLine(s, c, env) ==
    LET buffer == s.conn[c].buffer
        first  == Min({i \in DOMAIN buffer : buffer[i].last})
    IN IF LastLine(buffer) = 0 THEN s
       ELSE HandleMessage([s EXCEPT !.conn[c].buffer = SubSeq(@, first + 1, Len(@))],
                          c, buffer[first].request, env)

HandleLines(s, c, env) ==
    LET buffer == s.conn[c].buffer
        after[i \in 0 .. Len(buffer)] ==
            IF i = 0 THEN [s EXCEPT !.conn[c].buffer = Rest(buffer)]
            ELSE IF buffer[i].last
              THEN HandleMessage(after[i - 1], c, buffer[i].request, env)
              ELSE after[i - 1]
    IN after[Len(buffer)]

(* The rest of a frame is read as the header of another one.               *)
AsRead(buffer, env) ==
    IF buffer[1].last THEN [buffer EXCEPT ![1] = Piece(env.misread, FALSE)] ELSE buffer

IsWhole(buffer) == Len(buffer) > 1 /\ buffer[2].last

HandleWebSocketFrame(s, c, env) ==
    LET buffer  == AsRead(s.conn[c].buffer, env)
        frame   == buffer[1].request
        kept    == [s EXCEPT !.conn[c].buffer = <<buffer[1]>>]
        cleared == [s EXCEPT !.conn[c].buffer = <<>>]
    IN CASE frame.command = "ping"                   -> SendMessage(kept, c, [kind |-> "pong"])
         [] frame.command = "other"                  -> kept
         [] frame.command \in {"close", "fragment"}  -> [s EXCEPT !.conn[c] = Closed]
         [] OTHER -> IF IsWhole(buffer) THEN HandleMessage(cleared, c, frame, env)
                     ELSE SendMessage(cleared, c, [kind |-> "error"])

ReadData(s, c, pieces, env) ==
    LET read == [s EXCEPT !.conn[c].buffer = @ \o pieces]
    IN IF read.conn[c].webSocket THEN HandleWebSocketFrame(read, c, env)
       ELSE IF \E i \in DOMAIN read.conn[c].buffer :
                   read.conn[c].buffer[i].request = UpgradeRequest
         THEN DoWebSocketHandshake(read, c)
         ELSE HandleLines(read, c, env)

-----------------------------------------------------------------------------
(* The streams.                                                            *)
StreamLedcolorsUpdate(s, c) == SendMessage(s, c, StreamUpdate("leds"))

(* Seeded fault: the time of the last image is not kept.                   *)
SetImageAlways(conn) ==
    IF conn.ready THEN [conn EXCEPT !.out = Append(@, StreamUpdate("images"))] ELSE conn

SetImage(conn) ==
    IF conn.ready
      THEN [conn EXCEPT !.ready = FALSE, !.out = Append(@, StreamUpdate("images"))]
      ELSE conn

(* emitImage runs setImage once for each time it is connected.             *)
ImageEmitted(conn) ==
    LET after[i \in 0 .. conn.images] == IF i = 0 THEN conn ELSE SetImage(after[i - 1])
    IN after[conn.images]

EmitImage(s) ==
    [s EXCEPT !.conn = [c \in Clients |->
        IF IsOpen(s, c) THEN ImageEmitted(s.conn[c]) ELSE Closed]]

-----------------------------------------------------------------------------
Init ==
    /\ server = [core |-> NewCore, disk |-> InitialDisk, effects |-> AvailableEffects(InitialDisk),
                 slave |-> FALSE, conn |-> [c \in Clients |-> Closed]]
    /\ wire  = [c \in Clients |-> <<>>]
    /\ asked = [c \in Clients |-> <<>>]
    /\ wants = [c \in Clients |-> {}]
    /\ whole = [c \in Clients |-> TRUE]
    /\ sent = 0
    /\ opened = 0

Running == server.core.status = "running"

Unread(c) == IF IsOpen(server, c) THEN Len(server.conn[c].out) ELSE 0

ClientConnects(c) ==
    /\ Running
    /\ opened < MaxOpens
    /\ ~IsOpen(server, c) /\ asked[c] = <<>> /\ wants[c] = {} /\ wire[c] = <<>>
    /\ server' = NewConnection(server, c)
    /\ whole' = [whole EXCEPT ![c] = TRUE]
    /\ opened' = opened + 1
    /\ UNCHANGED <<wire, asked, wants, sent>>

(* A browser sends nothing else before the answer to its handshake, which  *)
(* arrives in one piece.                                                   *)
ClientUpgrades(c) ==
    /\ IsOpen(server, c) /\ ~server.conn[c].webSocket
    /\ asked[c] = <<>> /\ wire[c] = <<>> /\ server.conn[c].buffer = <<>>
    /\ wire' = [wire EXCEPT ![c] = <<Piece(UpgradeRequest, TRUE)>>]
    /\ asked' = [asked EXCEPT ![c] = <<UpgradeRequest>>]
    /\ UNCHANGED <<server, wants, whole, sent, opened>>

Starts(r) ==
    CASE r.command = "ledcolors" /\ r.option = "ledstream-start"   -> {"leds"}
      [] r.command = "ledcolors" /\ r.option = "imagestream-start" -> {"images"}
      [] r.command = "logging" /\ r.option = "start"               -> {"log"}
      [] OTHER                                                     -> {}

Stops(r) ==
    CASE r.command = "ledcolors" /\ r.option = "ledstream-stop"   -> {"leds"}
      [] r.command = "ledcolors" /\ r.option = "imagestream-stop" -> {"images"}
      [] r.command = "logging" /\ r.option = "stop"               -> {"log"}
      [] OTHER                                                    -> {}

ASSUME UpgradeIsNoRequest == UpgradeRequest \notin Requests

(* The schemas accept every start and stop of a stream.                    *)
ASSUME StreamsAreAccepted ==
    \A r \in Requests : Starts(r) \cup Stops(r) # {} => IsAccepted(r)

Ask(c, r) ==
    /\ asked' = [asked EXCEPT ![c] = Append(@, r)]
    /\ wants' = [wants EXCEPT ![c] = @ \cup Starts(r)]

(* A raw client may send its second request before the first is answered,  *)
(* and a line may arrive in two pieces.                                    *)
RawClientSends(c, r) ==
    /\ sent < MaxRequests
    /\ IsOpen(server, c) /\ ~server.conn[c].webSocket
    /\ ~IsFrame(r)
    /\ Len(asked[c]) < 2 /\ ~Contains(asked[c], UpgradeRequest)
    /\ wire' = [wire EXCEPT ![c] = @ \o <<Piece(r, FALSE), Piece(r, TRUE)>>]
    /\ Ask(c, r)
    /\ sent' = sent + 1
    /\ UNCHANGED <<server, whole, opened>>

(* The web configuration sends a request whenever something asks for it,   *)
(* whether or not those before it are answered.                            *)
WebSocketClientSends(c, r) ==
    /\ sent < MaxRequests
    /\ IsOpen(server, c) /\ server.conn[c].webSocket
    /\ r \in WebRequests
    /\ Len(asked[c]) < 2
    /\ wire' = [wire EXCEPT ![c] = @ \o <<Piece(r, FALSE), Piece(r, TRUE)>>]
    /\ IF IsFrame(r) THEN UNCHANGED <<asked, wants>> ELSE Ask(c, r)
    /\ sent' = sent + 1
    /\ UNCHANGED <<server, whole, opened>>

IsOneFrame(buffer, pieces) == buffer = <<>> /\ Len(pieces) = 2 /\ pieces[2].last

(* Whatever has arrived is read.  The surroundings have a choice only      *)
(* where it matters.                                                       *)
ServerReads(c, n, env) ==
    /\ Running
    /\ IsOpen(server, c)
    /\ LET conn   == server.conn[c]
           pieces == SubSeq(wire[c], 1, n)
       IN /\ env.restarts => \E i \in 1 .. n : pieces[i].request = ConfigRequest("reload")
          /\ ~env.removable => \E i \in 1 .. n : pieces[i].request.command = "delete-effect"
          /\ env.misread # PingFrame => conn.webSocket /\ (conn.buffer \o pieces)[1].last
          /\ server' = ReadData(server, c, pieces, env)
          /\ whole' = [whole EXCEPT ![c] =
                           @ /\ (conn.webSocket => IsOneFrame(conn.buffer, pieces))]
    /\ wire' = [wire EXCEPT ![c] = SubSeq(@, n + 1, Len(@))]
    /\ UNCHANGED <<asked, wants, sent, opened>>

(* The answer to a request is known by its command and its tan.            *)
ClientReads(c) ==
    /\ Unread(c) > 0
    /\ LET m    == Head(server.conn[c].out)
           to   == IF m.kind = "handshake" THEN UpgradeRequest ELSE m.to
           left == RemoveFirst(asked[c], to)
       IN IF m.kind \in {"reply", "handshake"}
            THEN /\ asked' = [asked EXCEPT ![c] = left]
                 /\ wants' = [wants EXCEPT ![c] = {w \in @ :
                        w \in Stops(to) => \E i \in DOMAIN left : w \in Starts(left[i])}]
            ELSE UNCHANGED <<asked, wants>>
    /\ server' = [server EXCEPT !.conn[c].out = Tail(@)]
    /\ UNCHANGED <<wire, whole, sent, opened>>

Forget(c) ==
    /\ wire'  = [wire EXCEPT ![c] = <<>>]
    /\ asked' = [asked EXCEPT ![c] = <<>>]
    /\ wants' = [wants EXCEPT ![c] = {}]

ClientCloses(c) ==
    /\ Running
    /\ IsOpen(server, c)
    /\ server' = [server EXCEPT !.conn[c] = Closed]
    /\ Forget(c)
    /\ UNCHANGED <<whole, sent, opened>>

(* The client finds its connection closed by the server.                   *)
ConnectionLost(c) ==
    /\ ~IsOpen(server, c)
    /\ asked[c] # <<>> \/ wants[c] # {} \/ wire[c] # <<>>
    /\ Forget(c)
    /\ UNCHANGED <<server, whole, sent, opened>>

LedTimerFires(c) ==
    /\ Running
    /\ IsOpen(server, c) /\ server.conn[c].leds
    /\ Unread(c) < MaxUnread
    /\ server' = StreamLedcolorsUpdate(server, c)
    /\ UNCHANGED <<wire, asked, wants, whole, sent, opened>>

GrabberSetsImage ==
    /\ Running
    /\ \A c \in Clients : Unread(c) < MaxUnread
    /\ \E c \in Clients : IsOpen(server, c) /\ server.conn[c].images > 0 /\ server.conn[c].ready
    /\ server' = EmitImage(server)
    /\ UNCHANGED <<wire, asked, wants, whole, sent, opened>>

(* A quarter of a second has passed since the last image.                  *)
QuarterSecondPasses(c) ==
    /\ IsOpen(server, c) /\ ~server.conn[c].ready
    /\ server' = [server EXCEPT !.conn[c].ready = TRUE]
    /\ UNCHANGED <<wire, asked, wants, whole, sent, opened>>

(* Some part of the program logs something that the log level lets pass.   *)
SomethingIsLogged ==
    /\ Running
    /\ \A c \in Clients : Unread(c) < MaxUnread
    /\ \E c \in Clients : IsOpen(server, c) /\ server.conn[c].logs > 0
    /\ server' = LogMessage(server)
    /\ UNCHANGED <<wire, asked, wants, whole, sent, opened>>

Next ==
    \/ \E c \in Clients :
           \/ ClientConnects(c)
           \/ ClientUpgrades(c)
           \/ \E r \in Requests : RawClientSends(c, r) \/ WebSocketClientSends(c, r)
           \/ \E n \in 1 .. Len(wire[c]), env \in Environments : ServerReads(c, n, env)
           \/ ClientReads(c)
           \/ ClientCloses(c)
           \/ ConnectionLost(c)
           \/ LedTimerFires(c)
           \/ QuarterSecondPasses(c)
    \/ GrabberSetsImage
    \/ SomethingIsLogged

Spec == Init /\ [][Next]_vars

-----------------------------------------------------------------------------
(* Streams share the socket with the replies, start and stop are handled   *)
(* between other events, and emitImage and newLogMessage may be connected  *)
(* more than once: still no update of a stream reaches a client that has   *)
(* read the answer to its stop.  The log only stops when the Debug message *)
(* of its start was let through (JsonClientConnection.cpp:1176).           *)
StreamsStop ==
    \A c \in Clients : Unread(c) > 0 =>
        LET kind == Head(server.conn[c].out).kind
        IN kind \in Streams /\ (kind = "log" => LogsDebug) => kind \in wants[c]

(* However often a client starts the image stream, one image is sent to it *)
(* once: the slot that is connected twice is throttled.                    *)
Images(out) == Cardinality({i \in DOMAIN out : out[i].kind = "images"})

ImageSentOnce ==
    [][GrabberSetsImage =>
           \A c \in Clients : IsOpen(server, c) =>
               Images(server'.conn[c].out) <= Images(server.conn[c].out) + 1]_vars

(* Whatever pieces the lines of a raw client arrive in, and however many   *)
(* arrive at once, no request is forgotten: while a client waits for an    *)
(* answer, something of it is still on its way.  An unknown adjustment is  *)
(* the exception.  For a websocket this holds as long as every read found  *)
(* exactly one frame; the code loses a request that arrives in parts, or   *)
(* together with a part of another one, or behind a ping, which is never   *)
(* taken out of the buffer (JsonClientConnection.cpp:114).                 *)
Unanswered(r) == r.command = "adjustment" /\ r.option = "unknown"

Waiting(c) == \E i \in DOMAIN asked[c] : ~Unanswered(asked[c][i])

NoRequestForgotten ==
    \A c \in Clients : (Running /\ IsOpen(server, c) /\ whole[c] /\ Waiting(c)) =>
        wire[c] # <<>> \/ Unread(c) > 0

==============================================================================
