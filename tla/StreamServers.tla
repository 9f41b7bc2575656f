---------------------------- MODULE StreamServers ----------------------------
(***************************************************************************)
(* The servers for sources that send frame after frame, and the core they  *)
(* write to: the Proto server with its clients (libsrc/protoserver, also   *)
(* used by the stand-alone grabbers and by the forwarder), the boblight    *)
(* server (libsrc/boblightserver) and the UDP listener                     *)
(* (libsrc/udplistener), with the register of who uses which channel.      *)
(*                                                                         *)
(* The server's state is the record                                        *)
(*   core      the Hyperion object                                         *)
(*   register  _priorityRegister, a function from names to channels        *)
(*   proto     per client, its ProtoClientConnection, or NoConnection      *)
(*   lights    per client, the channel of its BoblightClientConnection, or *)
(*             NoConnection                                                *)
(*   boblight, udp  _isActive of the boblight server and the UDP listener  *)
(* A ProtoClientConnection has its _priority, its _receiveBuffer as pieces *)
(* of messages, the pieces it has written to its socket (out), and the     *)
(* last message it has handled.  A client reads them into a buffer of its  *)
(* own, and ends if it checks its replies and is refused.  The copies of   *)
(* messages that go to other computers (newMessage) leave this system and  *)
(* are not modelled here.                                                  *)
(***************************************************************************)
EXTENDS HyperionCore, SequencesExt

CONSTANTS
    ProtoClients,      \* programs with a ProtoConnection, on one computer
    BoblightClients,   \* boblight clients
    Messages,          \* the messages Proto clients send
    BoblightPriority,  \* the channel of the boblight server's configuration
    UdpPriority,       \* the channel of the UDP listener's configuration
    UdpTimeout,        \* its timeout
    MaxTime,           \* bound: the last time
    MaxEvents          \* bound: how many messages are sent, modes changed, boblight
                       \* connections made, components switched and servers lost

(* What is read of a HyperionRequest, and whether all of it could be       *)
(* parsed.  An image of a wrong size and a command without its extension   *)
(* are commands of their own.                                              *)
Commands == {"COLOR", "IMAGE", "BADIMAGE", "CLEAR", "CLEARALL", "INCOMPLETE"}

ASSUME StreamChannels == {BoblightPriority, UdpPriority} \subseteq Channels
ASSUME StreamMessages ==
    \A m \in Messages :
        /\ m \in [command : Commands, priority : Int, parsed : BOOLEAN]
        /\ m.command \in {"COLOR", "IMAGE"} => m.priority \in Channels
ASSUME FewConnections == IsFiniteSet(BoblightClients)
ASSUME StreamBoundsAreNat ==
    {UdpTimeout, MaxTime, MaxEvents} \subseteq Nat

VARIABLES
    server,    \* the state of the server, as above
    up,        \* whether hyperiond runs
    client,    \* per Proto client, its ProtoConnection
    wire,      \* per Proto client, the pieces on their way to the server
    modes,     \* the modes that Kodi has last asked for
    now,       \* the wall clock
    writer,    \* per channel, which kind of client wrote to it last
    count      \* how many of the bounded events have happened

vars == <<server, up, client, wire, modes, now, writer, count>>

-----------------------------------------------------------------------------
(* Messages and their pieces.                                              *)
Message(command, priority) ==
    [command |-> command, priority |-> priority, parsed |-> TRUE]

(* A message is parsed as far as it goes, and is handled all the same.     *)
Unparsable(m) == [m EXCEPT !.parsed = FALSE]

NoMessage == Message("none", -1)

Piece(m, last) == [message |-> m, last |-> last]

Pieces(m) == <<Piece(m, FALSE), Piece(m, TRUE)>>

NoConnection == [open |-> FALSE]

NewProtoClientConnection ==
    [open |-> TRUE, priority |-> -1, buffer |-> <<>>, out |-> <<>>, handled |-> NoMessage]

IsOpen(s, c) == s.proto[c].open

(* All clients are on one computer, whose address makes their name.        *)
ProtoName == "proto@address"

-----------------------------------------------------------------------------
(* The priority register: emplace leaves a name that is there as it is.    *)
RegisterPriority(s, name, p) ==
    [s EXCEPT !.register =
        [n \in DOMAIN @ \cup {name} |-> IF n \in DOMAIN @ THEN @[n] ELSE p]]

UnRegisterPriority(s, name) ==
    [s EXCEPT !.register = Restrict(@, DOMAIN @ \ {name})]

-----------------------------------------------------------------------------
(* ProtoClientConnection.                                                  *)
Reply(success) == [type |-> "REPLY", value |-> success]

SendReply(s, c, success) == [s EXCEPT !.proto[c].out = @ \o Pieces(Reply(success))]

HandleColorCommand(s, c, m, time) ==
    SendReply([s EXCEPT
        !.proto[c].priority = m.priority,
        !.core = SetColors(@, m.priority, CHOOSE color \in Colors : TRUE, 0, COMP_COLOR, time)],
        c, TRUE)

(* The channel is remembered even if the image's size is wrong.            *)
HandleImageCommand(s, c, m, time) ==
    SendReply([s EXCEPT
        !.proto[c].priority = m.priority,
        !.core = SetColors(@, m.priority, CHOOSE color \in Colors : TRUE, 0, COMP_INVALID, time)],
        c, TRUE)

HandleBadImageCommand(s, c, m) ==
    SendReply([s EXCEPT !.proto[c].priority = m.priority], c, FALSE)

HandleClearCommand(s, c, m, time) ==
    SendReply(UnRegisterPriority([s EXCEPT
        !.proto[c].priority = m.priority, !.core = Clear(@, m.priority, time)], ProtoName), c, TRUE)

HandleClearallCommand(s, c, time) ==
    SendReply([s EXCEPT !.core = ClearAll(@, time)], c, TRUE)

(* A command without its extension, and one that is not implemented.       *)
HandleNotImplemented(s, c) == SendReply(s, c, FALSE)

(* A connection whose channel has changed registers again.                 *)
HandleMessage(s, c, m, time) ==
    LET done == CASE m.command = "COLOR"    -> HandleColorCommand(s, c, m, time)
                  [] m.command = "IMAGE"    -> HandleImageCommand(s, c, m, time)
                  [] m.command = "BADIMAGE" -> HandleBadImageCommand(s, c, m)
                  [] m.command = "CLEAR"    -> HandleClearCommand(s, c, m, time)
                  [] m.command = "CLEARALL" -> HandleClearallCommand(s, c, time)
                  [] OTHER                  -> HandleNotImplemented(s, c)
        told == [done EXCEPT !.proto[c].handled = m]
    IN IF told.proto[c].priority = s.proto[c].priority THEN told
       ELSE RegisterPriority(told, ProtoName, told.proto[c].priority)

(* A message that could not be parsed is refused and then handled.         *)
ParseMessage(s, c, m, time) ==
    HandleMessage(IF m.parsed THEN s ELSE SendReply(s, c, FALSE), c, m, time)

HasMessage(buffer) == \E i \in DOMAIN buffer : buffer[i].last

FirstEnd(buffer) == Min({i \in DOMAIN buffer : buffer[i].last})

AfterFirst(buffer) == SubSeq(buffer, FirstEnd(buffer) + 1, Len(buffer))

(* Seeded fault: the whole buffer is cleared after a message.              *)
ReadDataClearing(s, c, pieces, time) ==
    LET read   == [s EXCEPT !.proto[c].buffer = @ \o pieces]
        buffer == read.proto[c].buffer
    IN IF ~HasMessage(buffer) THEN read
       ELSE ParseMessage([read EXCEPT !.proto[c].buffer = <<>>],
                         c, buffer[FirstEnd(buffer)].message, time)

(* Every time data arrives one message is taken from the buffer.           *)
ReadData(s, c, pieces, time) ==
    LET read   == [s EXCEPT !.proto[c].buffer = @ \o pieces]
        buffer == read.proto[c].buffer
    IN IF ~HasMessage(buffer) THEN read
       ELSE ParseMessage([read EXCEPT !.proto[c].buffer = AfterFirst(@)],
                         c, buffer[FirstEnd(buffer)].message, time)

(* Seeded fault: a closed connection stays registered.                     *)
SocketClosedOnly(s, c) == [s EXCEPT !.proto[c] = NoConnection]

SocketClosed(s, c) == UnRegisterPriority([s EXCEPT !.proto[c] = NoConnection], ProtoName)

(* The signals of the Kodi checker go to every connection.  The video mode *)
(* is written to the field of the grabbing mode.                           *)
SendToAll(s, m) ==
    [s EXCEPT !.proto = [c \in ProtoClients |->
        IF IsOpen(s, c) THEN [s.proto[c] EXCEPT !.out = @ \o Pieces(m)] ELSE NoConnection]]

SetGrabbingMode(s, mode) == SendToAll(s, [type |-> "GRABBING", value |-> mode])

SetVideoMode(s, mode) == SendToAll(s, [type |-> "VIDEO"])

-----------------------------------------------------------------------------
(* BoblightServer and BoblightClientConnection.                            *)
IsLit(s, b) == s.lights[b] # NoConnection

(* The destructor and socketClosed clear the channel p, if it is one.      *)
ClearLights(h, p, time) == IF p < Lowest THEN Clear(h, p, time) ELSE h

CloseLights(s, b, time) ==
    [s EXCEPT !.core = ClearLights(@, s.lights[b].priority, time), !.lights[b] = NoConnection]

(* A port that cannot be bound is thrown as an error, which the handler of *)
(* the JSON message that has switched the component catches.               *)
StartBoblight(s, bound) ==
    IF s.boblight \/ ~bound THEN s
    ELSE RegisterPriority([s EXCEPT !.boblight = TRUE], "Boblight", BoblightPriority)

(* Every connection is deleted, one after the other.                       *)
StopBoblight(s, time) ==
    IF ~s.boblight THEN s
    ELSE LET lit == SetToSeq({b \in BoblightClients : IsLit(s, b)})
             after[i \in 0 .. Len(lit)] ==
                 IF i = 0 THEN s.core
                 ELSE ClearLights(after[i - 1], s.lights[lit[i]].priority, time)
         IN UnRegisterPriority(
                [s EXCEPT !.core     = after[Len(lit)],
                          !.lights   = [b \in BoblightClients |-> NoConnection],
                          !.boblight = FALSE], "Boblight")

(* Seeded fault: the old channel is left as it is.                         *)
SetLightsPriorityOnly(s, b, p, time) == [s EXCEPT !.lights[b].priority = p]

(* "set priority": the old channel is cleared if it is another one.        *)
SetLightsPriority(s, b, p, time) ==
    IF p = s.lights[b].priority THEN s
    ELSE [s EXCEPT !.core = ClearLights(@, s.lights[b].priority, time),
                   !.lights[b].priority = p]

(* "sync", and "set light" for the last one.  The component is passed for  *)
(* clearEffects and is therefore COMP_INVALID.                             *)
Sync(s, b, time) ==
    IF s.lights[b].priority < Lowest
      THEN [s EXCEPT !.core = SetColors(@, s.lights[b].priority,
                CHOOSE color \in Colors : TRUE, 0, COMP_INVALID, time)]
      ELSE s

-----------------------------------------------------------------------------
(* UDPListener.                                                            *)
ProcessTheDatagram(s, time) ==
    [s EXCEPT !.core = SetColors(@, UdpPriority, CHOOSE color \in Colors : TRUE,
                                 UdpTimeout, COMP_GRABBER, time)]

(* What runs when hyperiond has started: the UDP listener registers in its *)
(* constructor, and both servers have bound their ports.                   *)
NewServer ==
    [core     |-> NewCore,
     register |-> [n \in {"Off", "UDPLISTENER", "Boblight"} |->
                      CASE n = "Off"         -> Lowest
                        [] n = "UDPLISTENER" -> UdpPriority
                        [] n = "Boblight"    -> BoblightPriority],
     proto    |-> [c \in ProtoClients |-> NoConnection],
     lights   |-> [b \in BoblightClients |-> NoConnection],
     boblight |-> TRUE,
     udp      |-> TRUE]

-----------------------------------------------------------------------------
(* skip is _skipReply, an option of the stand-alone grabbers, which the    *)
(* forwarder always sets.                                                  *)
NewProtoConnection(skip) ==
    [socket |-> "unconnected", buffer |-> <<>>, grabbing |-> "on", video |-> "2D",
     last |-> NoMessage, skip |-> skip]

Init ==
    /\ server = NewServer
    /\ up = TRUE
    /\ client \in [ProtoClients -> {NewProtoConnection(skip) : skip \in BOOLEAN}]
    /\ wire = [c \in ProtoClients |-> <<>>]
    /\ modes = [grabbing |-> "on", video |-> "2D"]
    /\ now = 0
    /\ writer = [p \in Channels |-> "none"]
    /\ count = 0

Counts == count < MaxEvents /\ count' = count + 1

Running == up /\ server.core.status = "running"

Connected(c) == client[c].socket = "connected"

Ended(c) == client[c].socket = "ended"

(* The channels that m, once handled, has been written to.                 *)
Written(m) == IF m.command \in {"COLOR", "IMAGE"} THEN {m.priority} ELSE {}

-----------------------------------------------------------------------------
(* Seeded fault: a client that waits for a reply does not try again.       *)
ConnectToHostIdle(c) ==
    /\ client[c].socket = "unconnected"
    /\ client[c].buffer = <<>>
    /\ client' = [client EXCEPT ![c].socket = "connecting"]
    /\ UNCHANGED <<server, up, wire, modes, now, writer, count>>

(* Every five seconds a ProtoConnection without a connection tries again,  *)
(* and while hyperiond runs it is accepted.                                *)
ConnectToHost(c) ==
    /\ client[c].socket = "unconnected"
    /\ client' = [client EXCEPT ![c].socket = "connecting"]
    /\ UNCHANGED <<server, up, wire, modes, now, writer, count>>

(* _receiveBuffer keeps what it had from the last connection.              *)
Accepted(c) ==
    /\ Running
    /\ client[c].socket = "connecting"
    /\ client' = [client EXCEPT ![c].socket = "connected", ![c].last = NoMessage]
    /\ server' = [server EXCEPT !.proto[c] = NewProtoClientConnection]
    /\ UNCHANGED <<up, wire, modes, now, writer, count>>

Refused(c) ==
    /\ ~up
    /\ client[c].socket = "connecting"
    /\ client' = [client EXCEPT ![c].socket = "unconnected"]
    /\ UNCHANGED <<server, up, wire, modes, now, writer, count>>

(* Without a connection a message is dropped; nothing waits for replies.   *)
ProtoClientSends(c, m) ==
    /\ Connected(c)
    /\ Counts
    /\ wire' = [wire EXCEPT ![c] = @ \o Pieces(m)]
    /\ client' = [client EXCEPT ![c].last = m]
    /\ UNCHANGED <<server, up, modes, now, writer>>

ProtoServerReads(c, n) ==
    /\ Running
    /\ IsOpen(server, c)
    /\ LET read == ReadData(server, c, SubSeq(wire[c], 1, n), now)
           m    == IF HasMessage(server.proto[c].buffer \o SubSeq(wire[c], 1, n))
                     THEN read.proto[c].handled ELSE NoMessage
       IN /\ server' = read
          /\ writer' = [p \in Channels |-> IF p \in Written(m) THEN "proto" ELSE writer[p]]
    /\ wire' = [wire EXCEPT ![c] = SubSeq(@, n + 1, Len(@))]
    /\ UNCHANGED <<up, client, modes, now, count>>

(* A refusal is thrown as an error, which ends the program.  The others    *)
(* are VIDEO messages; they have no field video, which stands for 2D.      *)
ParseReply(conn, m) ==
    CASE m.type = "REPLY"    -> IF conn.skip \/ m.value THEN conn
                                ELSE [conn EXCEPT !.socket = "ended"]
      [] m.type = "GRABBING" -> [conn EXCEPT !.grabbing = m.value]
      [] OTHER               -> [conn EXCEPT !.video = "2D"]

(* The size at the start of the buffer is that of a message of which all   *)
(* has arrived.  What is left of a reply when a connection ends is not: it *)
(* makes what the next connection brings too short, or unparsable.         *)
StartsWithReply(buffer) == Len(buffer) > 1 /\ buffer[2].last

(* One message is taken from the buffer here too; one that is too short or *)
(* cannot be parsed stays in it.                                           *)
ReadReply(conn, pieces) ==
    LET buffer == conn.buffer \o pieces
    IN IF StartsWithReply(buffer)
         THEN ParseReply([conn EXCEPT !.buffer = SubSeq(buffer, 3, Len(buffer))],
                         buffer[1].message)
         ELSE [conn EXCEPT !.buffer = buffer]

ProtoClientReads(c, n) ==
    /\ Connected(c)
    /\ IsOpen(server, c)
    /\ client' = [client EXCEPT ![c] = ReadReply(@, SubSeq(server.proto[c].out, 1, n))]
    /\ server' = [server EXCEPT !.proto[c].out = SubSeq(@, n + 1, Len(@))]
    /\ UNCHANGED <<up, wire, modes, now, writer, count>>

(* The socket of a program that has ended is closed, and what the server   *)
(* has not read by then may be lost.                                       *)
ProtoClientCloses(c) ==
    /\ Ended(c)
    /\ IsOpen(server, c)
    /\ server' = SocketClosed(server, c)
    /\ wire' = [wire EXCEPT ![c] = <<>>]
    /\ UNCHANGED <<up, client, modes, now, writer, count>>

ProtoConnectionLost(c) ==
    /\ Running
    /\ Connected(c)
    /\ IsOpen(server, c)
    /\ Counts
    /\ server' = SocketClosed(server, c)
    /\ client' = [client EXCEPT ![c].socket = "unconnected"]
    /\ wire' = [wire EXCEPT ![c] = <<>>]
    /\ UNCHANGED <<up, modes, now, writer>>

KodiSetsGrabbingMode(mode) ==
    /\ Running
    /\ mode # modes.grabbing
    /\ Counts
    /\ modes' = [modes EXCEPT !.grabbing = mode]
    /\ server' = SetGrabbingMode(server, mode)
    /\ UNCHANGED <<up, client, wire, now, writer>>

KodiSetsVideoMode(mode) ==
    /\ Running
    /\ mode # modes.video
    /\ Counts
    /\ modes' = [modes EXCEPT !.video = mode]
    /\ server' = SetVideoMode(server, mode)
    /\ UNCHANGED <<up, client, wire, now, writer>>

-----------------------------------------------------------------------------
BoblightConnects(b) ==
    /\ Running
    /\ server.boblight
    /\ ~IsLit(server, b)
    /\ Counts
    /\ server' = [server EXCEPT !.lights[b] = [priority |-> BoblightPriority]]
    /\ UNCHANGED <<up, client, wire, modes, now, writer>>

BoblightSetsPriority(b, p) ==
    /\ Running
    /\ IsLit(server, b)
    /\ server' = SetLightsPriority(server, b, p, now)
    /\ UNCHANGED <<up, client, wire, modes, now, writer, count>>

BoblightSyncs(b) ==
    /\ Running
    /\ IsLit(server, b)
    /\ server' = Sync(server, b, now)
    /\ writer' = IF server.lights[b].priority < Lowest
                   THEN [writer EXCEPT ![server.lights[b].priority] = "boblight"] ELSE writer
    /\ UNCHANGED <<up, client, wire, modes, now, count>>

BoblightCloses(b) ==
    /\ Running
    /\ IsLit(server, b)
    /\ server' = CloseLights(server, b, now)
    /\ UNCHANGED <<up, client, wire, modes, now, writer, count>>

(* componentStateChanged of the boblight server and of the UDP listener,   *)
(* whose sockets may be taken when they are started again.                 *)
BoblightEnabled(enable) ==
    /\ Running
    /\ Counts
    /\ \E bound \in BOOLEAN :
           server' = IF enable THEN StartBoblight(server, bound) ELSE StopBoblight(server, now)
    /\ UNCHANGED <<up, client, wire, modes, now, writer>>

UdpEnabled(enable) ==
    /\ Running
    /\ Counts
    /\ \E bound \in BOOLEAN :
           server' = [server EXCEPT !.udp = enable /\ (@ \/ bound)]
    /\ UNCHANGED <<up, client, wire, modes, now, writer>>

UdpReceives ==
    /\ Running
    /\ server.udp
    /\ now + UdpTimeout <= MaxTime
    /\ server' = ProcessTheDatagram(server, now)
    /\ writer' = [writer EXCEPT ![UdpPriority] = "udp"]
    /\ UNCHANGED <<up, client, wire, modes, now, count>>

TimerFires ==
    /\ Running
    /\ TimerDue(server.core)
    /\ server' = [server EXCEPT !.core = Timeout(@, now)]
    /\ UNCHANGED <<up, client, wire, modes, now, writer, count>>

Tick ==
    /\ now < MaxTime
    /\ now' = now + 1
    /\ server' = [server EXCEPT !.core = Elapse(@)]
    /\ UNCHANGED <<up, client, wire, modes, writer, count>>

(* The server dies with all its connections, and is started again.         *)
Crash ==
    /\ Running
    /\ Counts
    /\ up' = FALSE
    /\ server' = [server EXCEPT !.proto = [c \in ProtoClients |-> NoConnection]]
    /\ client' = [c \in ProtoClients |->
                     [client[c] EXCEPT !.socket = IF @ = "connected" THEN "unconnected" ELSE @]]
    /\ wire' = [c \in ProtoClients |-> <<>>]
    /\ UNCHANGED <<modes, now, writer>>

Restart ==
    /\ ~up
    /\ up' = TRUE
    /\ server' = NewServer
    /\ writer' = [p \in Channels |-> "none"]
    /\ modes' = [grabbing |-> "on", video |-> "2D"]
    /\ UNCHANGED <<client, wire, now, count>>

Next ==
    \/ \E c \in ProtoClients :
           \/ ConnectToHost(c)
           \/ Accepted(c)
           \/ Refused(c)
           \/ \E m \in Messages : ProtoClientSends(c, m)
           \/ \E n \in 1 .. Len(wire[c]) : ProtoServerReads(c, n)
           \/ IsOpen(server, c) /\ \E n \in 1 .. Len(server.proto[c].out) : ProtoClientReads(c, n)
           \/ ProtoClientCloses(c)
           \/ ProtoConnectionLost(c)
    \/ \E mode \in {"on", "off"} : KodiSetsGrabbingMode(mode)
    \/ \E mode \in {"2D", "3D"} : KodiSetsVideoMode(mode)
    \/ \E b \in BoblightClients :
           \/ BoblightConnects(b)
           \/ \E p \in Channels : BoblightSetsPriority(b, p)
           \/ BoblightSyncs(b)
           \/ BoblightCloses(b)
    \/ \E enable \in BOOLEAN : BoblightEnabled(enable) \/ UdpEnabled(enable)
    \/ UdpReceives
    \/ TimerFires
    \/ Tick
    \/ Crash
    \/ Restart

Spec == Init /\ [][Next]_vars

(* The reconnect timer of a client runs for ever, the network answers, and *)
(* the service manager starts a server that has died.                      *)
Fairness ==
    /\ \A c \in ProtoClients :
           WF_vars(ConnectToHost(c)) /\ WF_vars(Accepted(c)) /\ WF_vars(Refused(c))
    /\ WF_vars(Restart)

FairSpec == Spec /\ Fairness

-----------------------------------------------------------------------------
(* Boblight connections change their channel while it is shown, share the  *)
(* default channel, are closed by their client or by the server: whatever  *)
(* boblight wrote last is the channel of a connection that is still open.  *)
BoblightLeavesNothing ==
    Running => \A p \in DOMAIN server.core.mux.inputs \ {Lowest} :
        writer[p] = "boblight" =>
            \E b \in BoblightClients : IsLit(server, b) /\ server.lights[b].priority = p

(* Every message takes effect in the order sent, in however many pieces it *)
(* arrives: once nothing is on its way or in the buffer, the last message  *)
(* the server has handled is the last one the client has sent.             *)
LastMessageHandled ==
    \A c \in ProtoClients :
        (Running /\ IsOpen(server, c) /\ wire[c] = <<>> /\ server.proto[c].buffer = <<>>)
            => server.proto[c].handled = client[c].last

(* The register names no source that is gone: a Proto name only while a    *)
(* connection is open, boblight exactly while its server is.               *)
RegisteredIsOpen ==
    Running =>
        /\ ProtoName \in DOMAIN server.register => \E c \in ProtoClients : IsOpen(server, c)
        /\ "Boblight" \in DOMAIN server.register <=> server.boblight

(* A client that has lost its server, whatever is left of its last reply,  *)
(* is connected again once there is one, unless a refusal has ended it.    *)
Reconnects ==
    \A c \in ProtoClients :
        (~Connected(c) /\ ~Ended(c)) ~> (Connected(c) \/ ~Running)

==============================================================================
