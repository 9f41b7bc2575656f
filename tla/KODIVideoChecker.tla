--------------------------- MODULE KODIVideoChecker ---------------------------
(***************************************************************************)
(* The Kodi checker (libsrc/kodivideochecker) and the media centre it      *)
(* watches over a TCP connection.  Kodi answers the checker's requests in  *)
(* the order they come and sends notifications of what its player does, so *)
(* that every answer tells the state in which it was written.  The checker *)
(* turns both into the grabbing mode and the video mode that the grabbers  *)
(* and the clients of the Proto server get.                                *)
(*                                                                         *)
(* checker is the KODIVideoChecker with its fields under shorter names, a  *)
(* number of pending timers, and the modes it has emitted last (grabbed    *)
(* and shown).  kodi is the state of Kodi's player.                        *)
(***************************************************************************)
EXTENDS Integers, Sequences, SequencesExt, FiniteSets

CONSTANTS
    GrabConfigurations,  \* sets of modes in which the configuration grabs
    StereoModes,         \* the video modes of what Kodi plays
    MaxEvents            \* bound: how often Kodi's player changes, the component is
                         \* switched, a connection is lost or a message is dropped

ASSUME KodiBoundIsNat == MaxEvents \in Nat
ASSUME KodiModesAreModes == StereoModes \subseteq {"2D", "3DSBS", "3DTAB"}

VARIABLES
    checker,    \* the checker
    toKodi,     \* requests that Kodi has not read yet
    toChecker,  \* replies and notifications the checker has not read yet
    kodi,       \* Kodi's player, screen saver and version
    dropped,    \* whether a message was dropped since the checker has connected
    count       \* how many of the bounded events have happened

vars == <<checker, toKodi, toChecker, kodi, dropped, count>>

Media == {"VIDEO", "PHOTO", "AUDIO"}

(* Kodi's numbers of its players; the checker takes 0 for none.            *)
PlayerOf(media) == CASE media = "AUDIO" -> 0 [] media = "VIDEO" -> 1 [] OTHER -> 2

-----------------------------------------------------------------------------
(* The checker.  A handler is a function from a checker to a checker, and  *)
(* what it writes to the socket is collected in out.                       *)
Write(c, request) == [c EXCEPT !.out = Append(@, request)]

Wanted(c, mode) == IF mode \in c.grabs THEN mode ELSE "OFF"

SetGrabbingMode(c, mode) ==
    LET new == Wanted(c, mode) IN
    IF new = c.previousGrabbing THEN c
    ELSE [c EXCEPT !.previousGrabbing = new, !.grabbed = new]

SetVideoMode(c, mode) ==
    IF mode = c.previousVideo THEN c
    ELSE [c EXCEPT !.previousVideo = mode, !.shown = mode]

(* 666, Player.GetActivePlayers: 2D is emitted whatever was set before.    *)
ActivePlayer(c, media) ==
    LET told == [c EXCEPT !.shown = "2D", !.player = PlayerOf(media)]
        set  == SetGrabbingMode(told, IF c.playing THEN media ELSE "PAUSE")
    IN IF ~c.initialized /\ c.player = 0 /\ told.player # 0
         THEN Write([told EXCEPT !.initialized = TRUE], "speed")
         ELSE IF media = "VIDEO" THEN Write(set, "item") ELSE set

ReplyActivePlayers(c, m) ==
    IF m.media = "none" THEN SetGrabbingMode(c, "MENU") ELSE ActivePlayer(c, m.media)

(* 667, Player.GetItem: from version 13 on Kodi is asked for its mode.     *)
ReplyItem(c, m) ==
    IF c.version >= 13 THEN Write(c, "stereo")
    ELSE IF m.media = "none" THEN SetGrabbingMode(c, "MENU")
    ELSE SetVideoMode(c, m.stereo)

(* 668, XBMC.GetInfoBooleans.                                              *)
ReplyScreensaver(c, m) ==
    LET next == IF m.on THEN SetGrabbingMode(c, "SCREENSAVER") ELSE Write(c, "players")
    IN IF c.version = 0 THEN Write(next, "version") ELSE next

(* 669, GUI.GetProperties: a mode that is not split says nothing.          *)
ReplyStereo(c, m) == IF m.stereo = "2D" THEN c ELSE SetVideoMode(c, m.stereo)

(* 670, Application.GetProperties.                                         *)
ReplyVersion(c, m) == [c EXCEPT !.version = m.version]

(* 671, Player.GetProperties.                                              *)
ReplySpeed(c, m) ==
    IF m.media = "none" THEN SetGrabbingMode(c, "MENU") ELSE [c EXCEPT !.playing = m.playing]

Plays(c, playing) == [c EXCEPT !.initialized = TRUE, !.playing = playing]

(* Seeded fault: a pause does not change the playback state.               *)
PausesModeOnly(c) == SetGrabbingMode(c, "PAUSE")

Pauses(c) == SetGrabbingMode(Plays(c, FALSE), "PAUSE")

Notifies(c, m) ==
    CASE m.method = "OnPlay"  -> Write(Plays(c, TRUE), "players")
      [] m.method = "OnPause" -> Pauses(c)
      [] m.method = "OnStop"  -> SetVideoMode(SetGrabbingMode(c, "MENU"), "2D")
      [] m.method = "ScreensaverActivated"   -> SetGrabbingMode(c, "SCREENSAVER")
      [] m.method = "ScreensaverDeactivated" -> Write(c, "players")
      [] m.method = "OnAdd"   -> SetGrabbingMode(c, "PHOTO")
      [] m.method = "OnInputFinished" ->
             LET asked == Write(Write(c, "players"), "screensaver")
             IN IF c.player # 0 THEN Write(asked, "speed") ELSE asked

Handle(c, m) ==
    CASE m.id = "players"      -> ReplyActivePlayers(c, m)
      [] m.id = "item"         -> ReplyItem(c, m)
      [] m.id = "screensaver"  -> ReplyScreensaver(c, m)
      [] m.id = "stereo"       -> ReplyStereo(c, m)
      [] m.id = "version"      -> ReplyVersion(c, m)
      [] m.id = "speed"        -> ReplySpeed(c, m)
      [] m.id = "notification" -> Notifies(c, m)

-----------------------------------------------------------------------------
(* The connection.  A timer that is to reconnect is pending once more.     *)
StartTimer(c) == [c EXCEPT !.timers = @ + 1]

(* A connection that is not made is given up, and tried again later.       *)
Reconnect(c) ==
    IF c.socket = "connected" \/ ~c.active THEN c
    ELSE CASE c.socket = "connecting"  -> StartTimer([c EXCEPT !.socket = "unconnected"])
           [] c.socket = "unconnected" -> StartTimer([c EXCEPT !.socket = "connecting"])
           [] c.socket = "closing"     -> StartTimer(c)

OnConnected(c) == Write(Write([c EXCEPT !.initialized = FALSE, !.socket = "connected"],
                              "players"), "screensaver")

(* Seeded fault: nothing tries again after the connection was lost.        *)
OnDisconnectedOnly(c) ==
    [c EXCEPT !.socket = "unconnected", !.previousGrabbing = "INVALID",
              !.previousVideo = "2D", !.version = 0]

OnDisconnected(c) ==
    Reconnect([c EXCEPT !.socket = "unconnected", !.previousGrabbing = "INVALID",
                        !.previousVideo = "2D", !.version = 0])

Start(c) == Reconnect([c EXCEPT !.active = TRUE])

(* Closing takes a while if not everything has been sent.                  *)
Stops(c) ==
    {[c EXCEPT !.active = FALSE, !.socket = s] :
        s \in IF c.socket = "connected" THEN {"closing", "unconnected"} ELSE {"unconnected"}}

-----------------------------------------------------------------------------
(* Kodi.  Its player has the media it shows, and for a video the mode.     *)
NewKodi(version) ==
    [up |-> TRUE, media |-> "none", playing |-> FALSE, stereo |-> "2D", saver |-> FALSE,
     version |-> version]

Note(method) == [id |-> "notification", method |-> method]

Answer(request) ==
    CASE request \in {"players", "item"} ->
             [id |-> request, media |-> kodi.media, stereo |-> kodi.stereo]
      [] request = "screensaver" -> [id |-> request, on |-> kodi.saver]
      [] request = "stereo"      -> [id |-> request, stereo |-> kodi.stereo]
      [] request = "version"     -> [id |-> request, version |-> kodi.version]
      [] request = "speed"       ->
             [id |-> request, media |-> kodi.media, playing |-> kodi.playing]

Init ==
    /\ \E grabs \in GrabConfigurations :
           checker = Start([active |-> FALSE, socket |-> "unconnected", grabs |-> grabs,
                            previousGrabbing |-> "INVALID", previousVideo |-> "2D",
                            playing |-> FALSE, player |-> 0, version |-> 0,
                            initialized |-> FALSE, timers |-> 0, out |-> <<>>,
                            grabbed |-> "INVALID", shown |-> "2D"])
    /\ toKodi = <<>>
    /\ toChecker = <<>>
    /\ \E version \in {12, 17} : kodi = NewKodi(version)
    /\ dropped = FALSE
    /\ count = 0

Connected == checker.socket = "connected"

Counts == count < MaxEvents /\ count' = count + 1

(* The checker becomes c, and what it wrote is on its way.                 *)
Becomes(c) ==
    /\ checker' = [c EXCEPT !.out = <<>>]
    /\ toKodi' = IF c.socket = "connected" THEN toKodi \o c.out ELSE <<>>

Drops == toChecker' = <<>>

-----------------------------------------------------------------------------
ReconnectTimerFires ==
    /\ checker.timers > 0
    /\ Becomes(Reconnect([checker EXCEPT !.timers = @ - 1]))
    /\ UNCHANGED <<toChecker, kodi, dropped, count>>

KodiAccepts ==
    /\ kodi.up
    /\ checker.socket = "connecting"
    /\ Becomes(OnConnected(checker))
    /\ dropped' = FALSE
    /\ UNCHANGED <<toChecker, kodi, count>>

(* connectionError closes the socket; the timer is still pending.          *)
ConnectionError ==
    /\ ~kodi.up
    /\ checker.socket = "connecting"
    /\ Becomes([checker EXCEPT !.socket = "unconnected"])
    /\ UNCHANGED <<toChecker, kodi, dropped, count>>

ConnectionLost ==
    /\ Connected
    /\ Counts
    /\ Becomes(OnDisconnected(checker))
    /\ Drops
    /\ kodi' \in {kodi, [kodi EXCEPT !.up = FALSE]}
    /\ UNCHANGED dropped

SocketClosed ==
    /\ checker.socket = "closing"
    /\ Becomes(OnDisconnected(checker))
    /\ UNCHANGED <<toChecker, kodi, dropped, count>>

KodiStarts ==
    /\ ~kodi.up
    /\ kodi' = NewKodi(kodi.version)
    /\ UNCHANGED <<checker, toKodi, toChecker, dropped, count>>

(* The component is switched: start, or stop, which closes the socket and  *)
(* may come back as a disconnection.                                       *)
ComponentStateChanged ==
    /\ Counts
    /\ \/ ~checker.active /\ Becomes(Start(checker)) /\ UNCHANGED toChecker
       \/ /\ checker.active
          /\ \E c \in Stops(checker) :
                 Becomes(IF Connected /\ c.socket = "unconnected" THEN OnDisconnected(c) ELSE c)
          /\ Drops
    /\ UNCHANGED <<kodi, dropped>>

ReceiveReply ==
    /\ Connected
    /\ toChecker # <<>>
    /\ Becomes(Handle(checker, Head(toChecker)))
    /\ toChecker' = Tail(toChecker)
    /\ UNCHANGED <<kodi, dropped, count>>

(* What has arrived is parsed as one document: two messages, or a part of  *)
(* one, are none, and are dropped.                                         *)
ReceiveUnparsable(n) ==
    /\ Connected
    /\ Counts
    /\ toChecker' = SubSeq(toChecker, n + 1, Len(toChecker))
    /\ dropped' = TRUE
    /\ UNCHANGED <<checker, toKodi, kodi>>

KodiAnswers ==
    /\ kodi.up
    /\ Connected
    /\ toKodi # <<>>
    /\ toChecker' = Append(toChecker, Answer(Head(toKodi)))
    /\ toKodi' = Tail(toKodi)
    /\ UNCHANGED <<checker, kodi, dropped, count>>

(* Notifications go to whoever is connected.                               *)
Tells(notes) ==
    toChecker' = IF Connected THEN toChecker \o notes ELSE toChecker

PlayerChanges == kodi.up /\ ~kodi.saver /\ Counts

KodiPlays(media, stereo) ==
    /\ PlayerChanges
    /\ ~(kodi.media = media /\ kodi.playing)
    /\ stereo = "2D" \/ media = "VIDEO"
    /\ kodi.media = media => stereo = kodi.stereo
    /\ kodi' = [kodi EXCEPT !.media = media, !.playing = TRUE, !.stereo = stereo]
    /\ Tells((IF media = "PHOTO" THEN <<Note("OnAdd")>> ELSE <<>>) \o <<Note("OnPlay")>>)
    /\ UNCHANGED <<checker, toKodi, dropped>>

KodiPauses ==
    /\ PlayerChanges
    /\ kodi.playing
    /\ kodi' = [kodi EXCEPT !.playing = FALSE]
    /\ Tells(<<Note("OnPause")>>)
    /\ UNCHANGED <<checker, toKodi, dropped>>

KodiStops ==
    /\ PlayerChanges
    /\ kodi.media # "none"
    /\ kodi' = [kodi EXCEPT !.media = "none", !.playing = FALSE, !.stereo = "2D"]
    /\ Tells(<<Note("OnStop")>>)
    /\ UNCHANGED <<checker, toKodi, dropped>>

KodiSaver ==
    /\ kodi.up
    /\ kodi.media # "VIDEO" \/ ~kodi.playing
    /\ Counts
    /\ kodi' = [kodi EXCEPT !.saver = ~@]
    /\ Tells(<<Note(IF kodi.saver THEN "ScreensaverDeactivated" ELSE "ScreensaverActivated")>>)
    /\ UNCHANGED <<checker, toKodi, dropped>>

KodiInput ==
    /\ PlayerChanges
    /\ Tells(<<Note("OnInputFinished")>>)
    /\ UNCHANGED <<checker, toKodi, kodi, dropped>>

Next ==
    \/ ReconnectTimerFires
    \/ KodiAccepts
    \/ ConnectionError
    \/ ConnectionLost
    \/ SocketClosed
    \/ KodiStarts
    \/ ComponentStateChanged
    \/ ReceiveReply
    \/ \E n \in 1 .. Len(toChecker) : ReceiveUnparsable(n)
    \/ KodiAnswers
    \/ \E media \in Media, stereo \in StereoModes : KodiPlays(media, stereo)
    \/ KodiPauses
    \/ KodiStops
    \/ KodiSaver
    \/ KodiInput

Spec == Init /\ [][Next]_vars

(* Timers fire, closing a socket ends, and a Kodi that runs accepts: the   *)
(* answer takes less than the ten seconds between two tries, but a timer   *)
(* of an earlier try may come in between, hence strong fairness.           *)
Fairness ==
    /\ WF_vars(ReconnectTimerFires)
    /\ WF_vars(SocketClosed)
    /\ SF_vars(KodiAccepts)

FairSpec == Spec /\ Fairness

-----------------------------------------------------------------------------
Quiet == Connected /\ toKodi = <<>> /\ toChecker = <<>> /\ ~dropped

(* Answers and notifications may overtake each other's causes, the modes   *)
(* of Kodi change while a request is on its way, and the connection comes  *)
(* and goes: once everything has been read and nothing was dropped, and    *)
(* the checker has learnt whether Kodi plays, the grabbing mode is the one *)
(* that is configured for what Kodi does.                                  *)
GrabbingModeFollowsKodi ==
    Quiet /\ checker.initialized /\ ~kodi.saver =>
        checker.grabbed = Wanted(checker,
            CASE kodi.media = "none" -> "MENU"
              [] kodi.media # "none" /\ kodi.playing  -> kodi.media
              [] kodi.media # "none" /\ ~kodi.playing -> "PAUSE")

(* While the component is on and Kodi runs, the checker gets its           *)
(* connection, whatever timers are pending and whatever was lost.          *)
Reconnects == (checker.active /\ kodi.up) ~> (Connected \/ ~checker.active \/ ~kodi.up)

==============================================================================
