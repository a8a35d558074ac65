------------------------------- MODULE GuestPage -------------------------------
(***************************************************************************)
(* The page of one guest (web/src/islands/devicecheck.js): the device      *)
(* check, the entry, the reconnecting signalling session (rtc/session.js), *)
(* the watchdog for networks that carry no media (rtc/connectivity.js) and *)
(* the screenshare, against what the server does with the guest's socket   *)
(* (internal/web/ws.go) and its screenshare (internal/signaling).  Prompts,*)
(* requests, timers and sockets settle whenever they like; frames of one   *)
(* socket arrive in order and die with it.                                 *)
(*                                                                         *)
(* Left out: which devices are picked, chat, raised hands, meters, the     *)
(* live share of others, and everything of the mesh but that its           *)
(* connections count for the watchdog.                                     *)
(***************************************************************************)
EXTENDS Integers, Sequences, FiniteSets

CONSTANTS
    Host,           \* the host's greenroom page
    Others,         \* other guests who may watch the guest's screen
    MaxFailedOpens, \* MAX_FAILED_OPENS
    MaxPeers,       \* bound on the connections the watchdog counts at a time
    MaxDrops,       \* bound on the sockets that are lost
    MaxQueue        \* bound on the frames in flight each way

Viewers == {Host} \cup Others

ASSUME GuestPageAssumption ==
    /\ Host \notin Others
    /\ MaxPeers \in Nat /\ MaxFailedOpens \in Nat \ {0} /\ MaxDrops \in Nat /\ MaxQueue \in Nat \ {0}

VARIABLES
    page,   \* the guest's page, its devices, its session and its watchdog; raced is a
            \* history: viewers answered on an offer of their own since the last roster
    sock,   \* the page's current socket: how far the server is with it, and its frames
    room,   \* what the server holds of the guest
    drops   \* sockets lost so far, up to MaxDrops

vars == <<page, sock, room, drops>>

Phases == {"idle", "requesting", "preview", "entering", "entered", "error"}
Shares == {"", "backstage", "live"}
Entries == [canScreen : BOOLEAN, locked : BOOLEAN, share : Shares]
NoEntry == [canScreen |-> FALSE, locked |-> FALSE, share |-> ""]

RosterFrame(e) == [t |-> "roster", me |-> e]
\* own is a history: the offer went through because its sender was the live sharer itself.
OfferFrame(v, own) == [t |-> "offer", from |-> v, own |-> own]
TerminateFrame(final) == [t |-> "terminate", final |-> final]
Closed == [stage |-> "none", up |-> <<>>, down |-> <<>>]

-----------------------------------------------------------------------------
(* The page: what its handlers do to it *)

\* stopScreenCapture: the capture, its publisher and a deferred decision about it.
StopCapture(p) ==
    [p EXCEPT !.capture = FALSE, !.viewers = {}, !.raced = {}, !.reconcile = FALSE]

\* teardown: everything that was built on the socket; the screen capture is kept.
Teardown(p) ==
    [p EXCEPT !.viewers = {}, !.raced = {}, !.pcs = 0, !.timer = FALSE, !.blocked = FALSE]

\* _connect and setup: a new socket, and a new watchdog.
Connecting(p) == [Teardown(p) EXCEPT !.session = "connecting"]

\* startPublishing: a new session.
Published(p) == [Connecting(p) EXCEPT !.phase = "entered", !.failed = 0]

\* ReconnectingSession.close.
CloseSession(p) == [Teardown(p) EXCEPT !.session = "none"]

\* onTerminal.
Terminal(p) ==
    [StopCapture(CloseSession(p)) EXCEPT !.terminated = TRUE, !.camera = FALSE]

\* Mutant: an attempt that never opened is not counted.
RetriedUncounted(p, opened) == [Teardown(p) EXCEPT !.session = "waiting"]
\* onClose without a terminal reason: back off, unless too many attempts in a row
\* never opened.
Retried(p, opened) ==
    LET failed == IF opened THEN p.failed ELSE p.failed + 1
    IN  IF ~opened /\ failed >= MaxFailedOpens THEN Terminal(p)
        ELSE [Teardown(p) EXCEPT !.session = "waiting", !.failed = failed]

SessionLive(p) == p.session = "live"

CanStartShare(p) ==
    /\ SessionLive(p) /\ ~p.gone /\ ~p.terminated
    /\ p.seen.canScreen /\ ~p.seen.locked

\* Mutant: the viewers are only dropped once the share has ended.
PrunedWhenCleared(p) ==
    IF p.capture /\ p.seen.share = "" THEN [p EXCEPT !.viewers = @ \cap {Host}] ELSE p
\* A screen that is not live is for the host only.
Pruned(p) ==
    IF p.capture /\ p.seen.share # "live" THEN [p EXCEPT !.viewers = @ \cap {Host}] ELSE p

\* The guest's share is not in the pool while the capture still runs.
Cleared(p) == p.capture /\ p.seen.share = ""

\* Mutant: a share the guest may not start again is left running.
ReconciledNever(p) ==
    IF Cleared(p) /\ p.seen.locked THEN StopCapture(p) ELSE [p EXCEPT !.reconcile = FALSE]
\* Locked: stop.  Not eligible: decide a little later, a fresher roster may come.
Reconciled(p) ==
    IF Cleared(p) /\ p.seen.locked THEN StopCapture(p)
    ELSE [p EXCEPT !.reconcile = Cleared(p) /\ ~CanStartShare(p)]

\* The guest's own entry of a roster.
Rostered(p, me) == Pruned(Reconciled([p EXCEPT !.seen = me, !.raced = {}]))
\* ... and whether the page asks to be taken into the pool again.
Reasserts(p, me) ==
    LET q == [p EXCEPT !.seen = me] IN Cleared(q) /\ CanStartShare(q)

-----------------------------------------------------------------------------
(* The server: what it holds of the guest and tells it *)

Member == sock.stage \in {"seeding", "joined"} \/ room.ghost
ShareState(r) == IF r.selected THEN "live" ELSE IF r.pooled THEN "backstage" ELSE ""
Entry(r) == [canScreen |-> r.canScreen, locked |-> r.locked, share |-> ShareState(r)]
Pulled(r) == [r EXCEPT !.pooled = FALSE, !.selected = FALSE]

\* screenStart's conditions.
Admits(r) == r.canScreen /\ ~r.locked

\* A frame to the page; the buffer of a socket that is gone takes nothing.
Push(s, f) ==
    IF s.stage \in {"seeding", "joined"} THEN [s EXCEPT !.down = Append(@, f)] ELSE s
CanPush(n) == Len(sock.down) + n <= MaxQueue
\* A roster after every change of the guest's entry.
Announce(r) == /\ CanPush(1)
               /\ room' = r
               /\ sock' = Push(sock, RosterFrame(Entry(r)))

\* The socket is gone: the room notices later.
Lost(s) == [room EXCEPT !.ghost = @ \/ s.stage \in {"seeding", "joined"}]
\* A frame to the server, which reads nothing more once it closed the socket.  The
\* same frame twice in a row does what one does, and is kept once.
Send(s, f) ==
    IF s.stage = "closing" \/ (s.up # <<>> /\ s.up[Len(s.up)] = f) THEN s
    ELSE [s EXCEPT !.up = Append(@, f)]
CanSend(f) == Len(Send(sock, f).up) <= MaxQueue

-----------------------------------------------------------------------------
Init ==
    /\ page = [phase |-> "idle", left |-> FALSE, leaving |-> FALSE,
               terminated |-> FALSE, gone |-> FALSE, netBlocked |-> FALSE,
               camera |-> FALSE, asking |-> "none", capture |-> FALSE,
               picker |-> FALSE, reconcile |-> FALSE, session |-> "none",
               failed |-> 0, everConnected |-> FALSE, timer |-> FALSE,
               blocked |-> FALSE, pcs |-> 0, viewers |-> {}, raced |-> {},
               seen |-> NoEntry]
    /\ sock = Closed
    /\ room \in [ghost : {FALSE}, row : BOOLEAN, canScreen : {FALSE}, locked : {FALSE},
                 pooled : {FALSE}, selected : {FALSE}, barred : {FALSE}]
    /\ drops = 0

-----------------------------------------------------------------------------
(* The device check *)

\* What the guest has in front of it: the screens in their order of precedence.
AtPhase(ph) == /\ ~page.gone /\ ~page.left /\ ~page.terminated /\ ~page.netBlocked
               /\ page.phase = ph
Idle == page.asking = "none"

Requesting(p) == [p EXCEPT !.phase = "requesting", !.camera = FALSE, !.asking = "check"]

StartCheck ==
    /\ \E ph \in {"idle", "error"} : AtPhase(ph)
    /\ Idle
    /\ page' = Requesting(page)
    /\ UNCHANGED <<sock, room, drops>>

\* The stream of a prompt answered after the page is gone is released at once.
Installed(p) ==
    IF p.gone THEN [p EXCEPT !.asking = "none"]
    ELSE [p EXCEPT !.camera = TRUE, !.asking = "none", !.phase = "preview"]

\* getUserMedia of a check or of a device switch.
Granted ==
    /\ ~Idle
    /\ page' = Installed(page)
    /\ UNCHANGED <<sock, room, drops>>

\* A failed check shows the error; a failed switch keeps the preview there is.
Denied ==
    /\ ~Idle
    /\ page' = [page EXCEPT !.asking = "none",
                            !.phase = IF page.asking = "switch" /\ page.camera THEN @ ELSE "error"]
    /\ UNCHANGED <<sock, room, drops>>

SwitchDevice ==
    /\ AtPhase("preview") /\ Idle
    /\ page' = [page EXCEPT !.asking = "switch"]
    /\ UNCHANGED <<sock, room, drops>>

\* The picker and the button are held while a switch is in flight.
Enter ==
    /\ AtPhase("preview") /\ Idle
    /\ page' = [page EXCEPT !.phase = "entering"]
    /\ UNCHANGED <<sock, room, drops>>

\* The answer to POST /enter.
Entered ==
    /\ page.phase = "entering"
    /\ IF page.gone
       THEN page' = [page EXCEPT !.camera = FALSE, !.phase = "error"] /\ UNCHANGED sock
       ELSE page' = Published(page) /\ sock' = [Closed EXCEPT !.stage = "opening"]
    /\ UNCHANGED <<room, drops>>

EnterFailed ==
    /\ page.phase = "entering"
    /\ page' = [page EXCEPT !.camera = FALSE, !.phase = "error"]
    /\ UNCHANGED <<sock, room, drops>>

-----------------------------------------------------------------------------
(* The session *)

\* The socket opens; the server has not joined the guest yet.
Opened ==
    /\ sock.stage = "opening" /\ ~room.barred
    /\ sock' = [sock EXCEPT !.stage = "opened"]
    /\ page' = [page EXCEPT !.session = "live", !.failed = 0]
    /\ UNCHANGED <<room, drops>>

\* The handshake is refused: the pass is revoked, or the server is away.
OpenFails ==
    /\ sock.stage = "opening"
    /\ room.barred \/ drops < MaxDrops
    /\ drops' = IF room.barred THEN drops ELSE drops + 1
    /\ page' = Retried(page, FALSE)
    /\ sock' = Closed
    /\ UNCHANGED room

\* The socket drops, or the server refuses the guest after all with a transient
\* reason.
Drop ==
    /\ page.session = "live" /\ drops < MaxDrops
    /\ drops' = drops + 1
    /\ page' = Retried(page, TRUE)
    /\ room' = Lost(sock)
    /\ sock' = Closed

Backoff ==
    /\ page.session = "waiting"
    /\ page' = Connecting(page)
    /\ sock' = [Closed EXCEPT !.stage = "opening"]
    /\ UNCHANGED <<room, drops>>

\* Leave the greenroom, or retry on another network, or leave the page: the session
\* is closed and the screen capture released.
Leave ==
    /\ AtPhase("entered")
    /\ page' = [StopCapture(CloseSession(page)) EXCEPT
                    !.camera = FALSE, !.left = TRUE, !.leaving = TRUE]
    /\ room' = Lost(sock) /\ sock' = Closed
    /\ UNCHANGED drops

LeaveSettles ==
    /\ page.leaving
    /\ page' = [page EXCEPT !.leaving = FALSE]
    /\ UNCHANGED <<sock, room, drops>>

Rejoin ==
    /\ page.left /\ ~page.leaving /\ ~page.gone /\ Idle
    /\ page' = [Requesting(page) EXCEPT !.left = FALSE]
    /\ UNCHANGED <<sock, room, drops>>

RetryNetwork ==
    /\ page.netBlocked /\ ~page.left /\ ~page.terminated /\ ~page.gone
    /\ page' = [StopCapture(CloseSession(page)) EXCEPT !.netBlocked = FALSE, !.phase = "preview"]
    /\ room' = Lost(sock) /\ sock' = Closed
    /\ UNCHANGED drops

Unmount ==
    /\ ~page.gone
    /\ page' = [StopCapture(CloseSession(page)) EXCEPT !.gone = TRUE, !.camera = FALSE]
    /\ room' = Lost(sock) /\ sock' = Closed
    /\ UNCHANGED drops

-----------------------------------------------------------------------------
(* The watchdog *)

\* A consumer or a peer begins to connect: the first one arms the watchdog, which only
\* asks how many there are.
PeerTries ==
    /\ SessionLive(page) /\ page.pcs < MaxPeers
    /\ page' = [page EXCEPT !.pcs = @ + 1, !.timer = @ \/ ~page.everConnected]
    /\ UNCHANGED <<sock, room, drops>>

\* Mutant: a peer that leaves takes the watchdog with it.
UntrackedDisarms(p) == [p EXCEPT !.pcs = @ - 1, !.timer = FALSE]
Untracked(p) == [p EXCEPT !.pcs = @ - 1]

PeerGone ==
    /\ page.pcs > 0
    /\ page' = Untracked(page)
    /\ UNCHANGED <<sock, room, drops>>

PeerConnects ==
    /\ page.pcs > 0
    /\ page' = [page EXCEPT !.everConnected = TRUE, !.timer = FALSE, !.blocked = FALSE,
                            !.netBlocked = @ /\ ~page.blocked]
    /\ UNCHANGED <<sock, room, drops>>

\* stopScreenShare: tell the server when there is a socket, and release the capture.
StopShare(p) ==
    /\ page' = StopCapture(p)
    /\ IF SessionLive(page) THEN CanSend("screen-stop") /\ sock' = Send(sock, "screen-stop")
                            ELSE UNCHANGED sock

\* Nobody was reached in time.
WatchFires ==
    /\ page.timer
    /\ IF page.everConnected \/ page.blocked \/ page.pcs = 0
       THEN page' = [page EXCEPT !.timer = FALSE] /\ UNCHANGED sock
       ELSE StopShare([page EXCEPT !.timer = FALSE, !.blocked = TRUE, !.netBlocked = TRUE])
    /\ UNCHANGED <<room, drops>>

-----------------------------------------------------------------------------
(* The screenshare *)

\* toggleScreen, up to the browser's picker.
OpenPicker ==
    /\ AtPhase("entered") /\ ~page.capture /\ ~page.picker /\ CanStartShare(page)
    /\ page' = [page EXCEPT !.picker = TRUE]
    /\ UNCHANGED <<sock, room, drops>>

\* Mutant: what was allowed when the picker opened is taken to be so still.
StillAllowedAlways(p) == ~p.capture
StillAllowed(p) == ~p.capture /\ CanStartShare(p)

\* The picker is answered, perhaps long after it was opened.  A send that throws,
\* because the socket is about to close, releases the capture as a cancel does.
Pick ==
    /\ page.picker
    /\ IF StillAllowed(page)
       THEN /\ CanSend("screen-start")
            /\ page' = [page EXCEPT !.picker = FALSE, !.capture = TRUE]
            /\ sock' = Send(sock, "screen-start")
       ELSE page' = [page EXCEPT !.picker = FALSE] /\ UNCHANGED sock
    /\ UNCHANGED <<room, drops>>

CancelPick ==
    /\ page.picker
    /\ page' = [page EXCEPT !.picker = FALSE]
    /\ UNCHANGED <<sock, room, drops>>

\* The guest's own button, or the browser's "Stop sharing".
StopSharing ==
    /\ page.capture
    /\ StopShare(page)
    /\ UNCHANGED <<room, drops>>

\* The deferred decision about a capture that is not in the pool.
ReconcileFires ==
    /\ page.reconcile
    /\ page' = IF CanStartShare(page) THEN [page EXCEPT !.reconcile = FALSE]
                                      ELSE StopCapture(page)
    /\ UNCHANGED <<sock, room, drops>>

-----------------------------------------------------------------------------
(* The page reads a frame *)

Frame(t) == sock.down # <<>> /\ Head(sock.down).t = t
Taken == [sock EXCEPT !.down = Tail(@)]

ReadRoster ==
    /\ Frame("roster")
    /\ LET me == Head(sock.down).me
       IN  /\ page' = Rostered(page, me)
           /\ IF Reasserts(page, me) THEN CanSend("screen-start") /\ sock' = Send(Taken, "screen-start")
                                     ELSE sock' = Taken
    /\ UNCHANGED <<room, drops>>

\* A viewer of the screen: only a running publisher answers it, and it asks nothing more.
Answered(p, f) == [p EXCEPT !.viewers = @ \cup {f.from},
                            !.raced = IF f.own THEN @ \cup {f.from} ELSE @]
ReadOffer ==
    /\ Frame("offer")
    /\ page' = IF page.capture THEN Answered(page, Head(sock.down)) ELSE page
    /\ sock' = Taken
    /\ UNCHANGED <<room, drops>>

\* The server closes the socket after it.
ReadTerminate ==
    /\ Frame("terminate")
    /\ page' = IF Head(sock.down).final THEN Terminal(page) ELSE Retried(page, TRUE)
    /\ sock' = Closed
    /\ UNCHANGED <<room, drops>>

-----------------------------------------------------------------------------
(* The server *)

\* Join, while the binding lock is held: a reconnect that comes before the old socket
\* was noticed keeps the share and loses the eligibility.
Join ==
    /\ sock.stage = "opened"
    /\ room' = [room EXCEPT !.ghost = FALSE, !.canScreen = FALSE]
    /\ sock' = [sock EXCEPT !.stage = "seeding", !.down = <<RosterFrame(Entry(room'))>>]
    /\ UNCHANGED <<page, drops>>

\* SetScreenEligible, still under the lock.
Seed ==
    /\ sock.stage = "seeding"
    /\ IF room.row /\ ~room.canScreen
       THEN LET r == [room EXCEPT !.canScreen = TRUE]
            IN  /\ CanPush(1)
                /\ room' = r
                /\ sock' = [sock EXCEPT !.stage = "joined",
                                        !.down = Append(@, RosterFrame(Entry(r)))]
       ELSE sock' = [sock EXCEPT !.stage = "joined"] /\ UNCHANGED room
    /\ UNCHANGED <<page, drops>>

\* The room notices that the old socket is gone.
GhostLeaves ==
    /\ room.ghost
    /\ room' = [Pulled(room) EXCEPT !.ghost = FALSE, !.canScreen = FALSE]
    /\ UNCHANGED <<page, sock, drops>>

\* The reader loop starts once the guest is joined and seeded.
ReadUp ==
    /\ sock.stage = "joined" /\ sock.up # <<>>
    /\ LET s == [sock EXCEPT !.up = Tail(@)]
           r == CASE Head(sock.up) = "screen-start" /\ Admits(room)
                       -> [room EXCEPT !.pooled = TRUE]
                  [] Head(sock.up) = "screen-stop" -> Pulled(room)
                  [] OTHER -> room
       IN  IF r = room THEN sock' = s /\ UNCHANGED room
           ELSE /\ CanPush(1)
                /\ room' = r
                /\ sock' = Push(s, RosterFrame(Entry(r)))
    /\ UNCHANGED <<page, drops>>

\* The host changes the eligibility: the pass first, then the room, under the lock.
SetCanScreen(can) ==
    /\ sock.stage # "seeding"
    /\ IF Member
       THEN Announce(IF can THEN [room EXCEPT !.row = TRUE, !.canScreen = TRUE, !.locked = FALSE]
                     ELSE [Pulled(room) EXCEPT !.row = FALSE, !.canScreen = FALSE, !.locked = TRUE])
       ELSE room' = [room EXCEPT !.row = can] /\ UNCHANGED sock
    /\ UNCHANGED <<page, drops>>

ForceNoShare ==
    /\ Member /\ ~room.locked
    /\ Announce([Pulled(room) EXCEPT !.locked = TRUE])
    /\ UNCHANGED <<page, drops>>

ReleaseShare ==
    /\ Member /\ room.locked
    /\ Announce([room EXCEPT !.locked = FALSE])
    /\ UNCHANGED <<page, drops>>

\* The host takes the guest's screen live, or off, perhaps for another's.
Select(on) ==
    /\ room.selected # on
    /\ on => room.pooled
    /\ Announce([room EXCEPT !.selected = on])
    /\ UNCHANGED <<page, drops>>

\* screenSignalAllowed, for an offer to the guest.  Whatever touches the live sharer goes
\* through, also what it sends (own) to somebody backstage: while the guest itself is not
\* live, any other guest may be.
Relays(v, own) == IF own THEN v # Host /\ ~room.selected
                  ELSE room.selected \/ (room.pooled /\ v = Host)
Watch(v, own) ==
    /\ sock.stage \in {"seeding", "joined"} /\ CanPush(1) /\ Relays(v, own)
    /\ sock' = Push(sock, OfferFrame(v, own))
    /\ UNCHANGED <<page, room, drops>>

\* The host removes the guest for good, or the room drains.
Terminate(final) ==
    /\ sock.stage = "joined" /\ CanPush(1)
    /\ final \/ drops < MaxDrops
    /\ drops' = IF final THEN drops ELSE drops + 1
    /\ room' = [Pulled(room) EXCEPT !.barred = @ \/ final, !.canScreen = FALSE]
    /\ sock' = [sock EXCEPT !.stage = "closing", !.down = Append(@, TerminateFrame(final))]
    /\ UNCHANGED page

\* The pass is revoked while the guest is away: the handshake is refused from now on.
Revoke ==
    /\ sock.stage \in {"none", "opening"} /\ page.session # "none" /\ ~room.barred
    /\ room' = [Pulled(room) EXCEPT !.barred = TRUE, !.ghost = FALSE, !.canScreen = FALSE]
    /\ UNCHANGED <<page, sock, drops>>

-----------------------------------------------------------------------------
DeviceNext == StartCheck \/ Granted \/ Denied \/ SwitchDevice \/ Enter \/ Entered \/ EnterFailed
SessionNext == Opened \/ OpenFails \/ Drop \/ Backoff \/ Leave \/ LeaveSettles \/ Rejoin
               \/ RetryNetwork \/ Unmount
WatchNext == WatchFires \/ PeerTries \/ PeerGone \/ PeerConnects
ShareNext == OpenPicker \/ Pick \/ CancelPick \/ StopSharing \/ ReconcileFires
FrameNext == ReadRoster \/ ReadOffer \/ ReadTerminate
ServerNext == \/ Join \/ Seed \/ GhostLeaves \/ Revoke \/ ReadUp \/ ForceNoShare \/ ReleaseShare
              \/ \E b \in BOOLEAN : SetCanScreen(b) \/ Select(b) \/ Terminate(b)
              \/ \E v \in Viewers, own \in BOOLEAN : Watch(v, own)
Next == DeviceNext \/ SessionNext \/ WatchNext \/ ShareNext \/ FrameNext \/ ServerNext

Spec == Init /\ [][Next]_vars

\* Timers fire, sockets open or fail, frames are read, the server gets on with its
\* work.  Nothing is assumed of the guest, of the host, or of a prompt.  Strong
\* fairness is for what a full queue holds up, which only the bound can do for long.
FairSpec ==
    /\ Spec
    /\ WF_vars(Opened \/ OpenFails) /\ WF_vars(Backoff)
    /\ SF_vars(WatchFires) /\ WF_vars(ReconcileFires) /\ WF_vars(FrameNext)
    /\ WF_vars(Join) /\ SF_vars(Seed) /\ WF_vars(GhostLeaves) /\ SF_vars(ReadUp)

-----------------------------------------------------------------------------
(* Properties *)

\* Every value has its type, and what is built on a socket only exists with one: the
\* watchdog's connections and the screen's viewers go with the session
\* (ReconnectingSession's teardown).
GuestTypeOK ==
    /\ page.phase \in Phases /\ page.asking \in {"none", "check", "switch"}
    /\ page.session \in {"none", "connecting", "live", "waiting"}
    /\ page.failed \in 0..MaxFailedOpens
    /\ \A f \in {page.left, page.leaving, page.terminated, page.gone, page.netBlocked,
                 page.camera, page.capture, page.picker, page.reconcile,
                 page.everConnected, page.timer, page.blocked} : f \in BOOLEAN
    /\ page.seen \in Entries
    /\ page.pcs \in 0..MaxPeers
    /\ page.viewers \subseteq Viewers /\ page.raced \subseteq Viewers
    /\ page.session # "live" => page.pcs = 0 /\ page.viewers = {}
    /\ sock.stage \in {"none", "opening", "opened", "seeding", "joined", "closing"}
    /\ Len(sock.up) <= MaxQueue /\ Len(sock.down) <= MaxQueue
    /\ page.session \in {"none", "waiting"} <=> sock.stage = "none"
    /\ drops \in 0..MaxDrops

\* A guest who left, was removed, or closed the page is not recorded any more,
\* whatever prompt, request or picker was pending then and is answered later: the
\* camera and the screen are released (startCheck, enter, toggleScreen, onTerminal,
\* leave and the unmount effect).
DevicesReleased ==
    page.left \/ page.terminated \/ page.gone => ~page.camera /\ ~page.capture

\* A screen that the guest was told is backstage is received by the host only: the
\* relay's check holds new viewers off and the roster's handler drops the old ones
\* (pruneScreenConsumersToHost, screenSignalAllowed).  The one exception is the residual
\* the relay admits: whoever has the live slot may have its own offer answered, and
\* keeps what it received until the guest reads its next roster.
BackstageForHostOnly ==
    page.capture /\ page.seen.share # "live" => page.viewers \subseteq {Host} \cup page.raced

\* A screen capture the pool does not hold is taken into the pool again or released:
\* the guest never goes on recording its screen for nobody (the roster's handler and
\* its deferred decision).
StrandedShareEnds ==
    page.capture /\ ~room.pooled ~> ~page.capture \/ room.pooled

\* A guest never sits on the reconnecting overlay forever: a session that is not
\* connected gets there, or ends, even when every handshake is refused
\* (MAX_FAILED_OPENS).
ReconnectEnds ==
    page.session \in {"connecting", "waiting"} ~> page.session \in {"live", "none"}

\* A guest whose connections never form is told so: while somebody tries to connect
\* and nobody ever did, the watchdog is armed until it says the network is blocked
\* (ConnectivityWatch).
DeadNetworkIsTold ==
    (page.session = "live" /\ page.pcs > 0 /\ ~page.everConnected)
        ~> \/ page.netBlocked \/ page.everConnected
           \/ page.session # "live" \/ page.pcs = 0

\* A guest that ever reached anyone is not shown the blocked network screen
\* (connectivity.js).
BlockedIsUnproven == page.netBlocked => ~page.everConnected
================================================================================
