------------------------------- MODULE HostCapture -------------------------------
(***************************************************************************)
(* The host's own camera: the control room of the host (web/src/islands/   *)
(* greenroom.js) opens it on demand and publishes it, the room             *)
(* (internal/signaling) binds the "host" slot to it, and the OBS source    *)
(* page of that slot (web/src/obs/obs.js) links to the publisher.          *)
(*                                                                         *)
(* The host may have the control room open in several tabs; the room knows *)
(* one connection of the host, the latest.  The source page is there all   *)
(* the time; its offer is answered over the signalling of the room.        *)
(***************************************************************************)
EXTENDS Naturals, Sequences

CONSTANTS
    Tabs,
    Nobody,
    MaxAsks,    \* how often the camera is asked for
    MaxFaults   \* lost connections and paths

ASSUME HostCaptureAssumption ==
    /\ Nobody \notin Tabs \cup {"none", "offered", "mute", "dead"}
    /\ Tabs \cap {"none", "offered", "mute", "dead"} = {}
    /\ MaxAsks \in Nat /\ MaxFaults \in Nat

VARIABLES
    page,      \* closed, open, over (a terminal screen) or gone
    conn,      \* its connection: none, live, lost and not noticed, evicted by another
    host,      \* the tab whose connection is the room's connection of the host
    told,      \* host-media frames on the connection, not read
    late,      \* those of a connection the tab has lost
    ask,       \* its getUserMedia request: none, current or superseded
    camera,    \* hostStreamRef: the camera is on
    publisher, \* hostPublisherRef: there is a publisher that answers
    hostSlot,  \* the room has the host slot bound to the host
    link,      \* the source page's link: none, offered, mute (no answer will come), dead
               \* (its publisher is closed), or the tab whose publisher it has
    carried,   \* the binding is due to a connection that is not the one in force
    asks,
    faults

roomVars == <<host, hostSlot, link, carried>>
captureVars == <<page, conn, roomVars, told, late, ask, camera, publisher, asks, faults>>

Connected(t) == conn[t] = "live"
\* The link of the source page is to a publisher of the tab that closes.
Cut(t) == IF link = t THEN "dead" ELSE link

-----------------------------------------------------------------------------
(* The room *)

\* setHostMedia: binding the slot anew makes the source page open a link and offer.
Media(active) ==
    CASE active /\ ~hostSlot -> [slot |-> TRUE, link |-> "offered"]
      [] ~active             -> [slot |-> FALSE, link |-> "none"]
      [] OTHER               -> [slot |-> hostSlot, link |-> link]

SetHostMedia(active, stale) ==
    IF host = Nobody THEN UNCHANGED <<hostSlot, link, carried>>
    ELSE /\ hostSlot' = Media(active).slot
         /\ link' = Media(active).link
         /\ carried' = (stale \/ (carried /\ hostSlot /\ active))

ReadsMedia(t) ==
    /\ conn[t] \in {"live", "evicted"} /\ told[t] # << >>
    /\ told' = [told EXCEPT ![t] = Tail(@)]
    /\ SetHostMedia(Head(told[t]), host # t)
    /\ UNCHANGED <<page, conn, host, late, ask, camera, publisher, asks, faults>>

\* The reader of a lost connection has frames left to read, or fails.
ReadsLate(t) ==
    /\ late[t] # << >>
    /\ late' = [late EXCEPT ![t] = Tail(@)]
    /\ SetHostMedia(Head(late[t]), TRUE)
    /\ UNCHANGED <<page, conn, host, told, ask, camera, publisher, asks, faults>>

LateFails(t) ==
    /\ late[t] # << >> /\ late' = [late EXCEPT ![t] = << >>]
    /\ UNCHANGED <<page, conn, roomVars, told, ask, camera, publisher, asks, faults>>

\* leave: only cam slots are held for the one who is gone.
\* Mutant: the host slot is held as well.
HoldsHostSlot == hostSlot
AfterLeave == FALSE

\* Leave of the connection in force vacates the host slot; that of another is ignored.
RoomNotices(t) ==
    /\ conn[t] = "lost"
    /\ conn' = [conn EXCEPT ![t] = "none"]
    /\ late' = [late EXCEPT ![t] = << >>]
    /\ IF host = t
       THEN /\ host' = Nobody /\ hostSlot' = AfterLeave /\ carried' = FALSE
            /\ link' = IF AfterLeave THEN link ELSE "none"
       ELSE UNCHANGED roomVars
    /\ UNCHANGED <<page, told, ask, camera, publisher, asks, faults>>

-----------------------------------------------------------------------------
(* The tab *)

\* releaseHostCapture, and the unmount: a request under way is superseded.
Released(t) ==
    /\ ask' = [ask EXCEPT ![t] = IF @ = "current" THEN "superseded" ELSE @]
    /\ camera' = [camera EXCEPT ![t] = FALSE]
    /\ publisher' = [publisher EXCEPT ![t] = FALSE]

OpensTab(t) ==
    /\ page[t] = "closed" /\ page' = [page EXCEPT ![t] = "open"]
    /\ UNCHANGED <<conn, roomVars, told, late, ask, camera, publisher, asks, faults>>

\* setup publishes the capture that outlived the last connection.
\* Mutant: only a new capture is published.
RepublishesNever(t) == FALSE
Republishes(t) == camera[t]

\* setup, then Join, which evicts without a leave.
Joins(t) ==
    /\ page[t] = "open" /\ conn[t] \in {"none", "lost"}
    /\ conn' = [u \in Tabs |-> IF u = t THEN "live"
                               ELSE IF u = host /\ conn[u] = "live" THEN "evicted" ELSE conn[u]]
    /\ host' = t
    /\ publisher' = [publisher EXCEPT ![t] = Republishes(t)]
    /\ told' = [told EXCEPT ![t] = IF Republishes(t) THEN <<TRUE>> ELSE << >>]
    /\ carried' = (host # Nobody)
    /\ UNCHANGED <<page, late, ask, camera, hostSlot, link, asks, faults>>

\* A transient drop: teardown closes the publisher and keeps the camera.
Drops(t) ==
    /\ Connected(t) /\ page[t] = "open" /\ faults < MaxFaults /\ faults' = faults + 1
    /\ conn' = [conn EXCEPT ![t] = "lost"]
    /\ late' = [late EXCEPT ![t] = told[t]] /\ told' = [told EXCEPT ![t] = << >>]
    /\ publisher' = [publisher EXCEPT ![t] = FALSE] /\ link' = Cut(t)
    /\ UNCHANGED <<page, host, hostSlot, carried, ask, camera, asks>>

\* The terminate frame of an eviction, then the close: teardown and onTerminal.  What
\* the tab says now goes nowhere.
Displaced(t) ==
    /\ conn[t] = "evicted"
    /\ page' = [page EXCEPT ![t] = IF @ = "open" THEN "over" ELSE @]
    /\ conn' = [conn EXCEPT ![t] = "none"]
    /\ late' = [late EXCEPT ![t] = told[t]] /\ told' = [told EXCEPT ![t] = << >>]
    /\ Released(t) /\ link' = Cut(t)
    /\ UNCHANGED <<host, hostSlot, carried, asks, faults>>

\* TerminateSession: the room is gone and its tab learns that the session has ended.
SessionEnds(t) ==
    /\ Connected(t) /\ host = t
    /\ page' = [page EXCEPT ![t] = IF @ = "open" THEN "over" ELSE @]
    /\ conn' = [conn EXCEPT ![t] = "none"]
    /\ told' = [u \in Tabs |-> << >>] /\ late' = [u \in Tabs |-> << >>]
    /\ host' = Nobody /\ hostSlot' = FALSE /\ link' = "none" /\ carried' = FALSE
    /\ Released(t)
    /\ UNCHANGED <<asks, faults>>

\* MAX_FAILED_OPENS attempts in a row did not reach the server.
GivesUp(t) ==
    /\ page[t] = "open" /\ conn[t] \in {"none", "lost"}
    /\ page' = [page EXCEPT ![t] = "over"] /\ Released(t)
    /\ UNCHANGED <<conn, roomVars, told, late, asks, faults>>

\* The host leaves the control room.
Unmounts(t) ==
    /\ page[t] \in {"open", "over"}
    /\ page' = [page EXCEPT ![t] = "gone"]
    /\ conn' = [conn EXCEPT ![t] = IF @ = "live" THEN "lost" ELSE @]
    /\ late' = [late EXCEPT ![t] = IF conn[t] = "live" THEN told[t] ELSE @]
    /\ told' = [told EXCEPT ![t] = IF conn[t] = "live" THEN << >> ELSE @]
    /\ Released(t) /\ link' = Cut(t)
    /\ UNCHANGED <<host, hostSlot, carried, asks, faults>>

\* startHostSetup, up to its await; a second press waits for the first.
Asks(t) ==
    /\ page[t] = "open" /\ ask[t] = "none"
    /\ asks < MaxAsks /\ asks' = asks + 1
    /\ ask' = [ask EXCEPT ![t] = "current"]
    /\ UNCHANGED <<page, conn, roomVars, told, late, camera, publisher, faults>>

\* Mutant: whatever stream arrives is published.
WantedAlways(t) == TRUE
Wanted(t) == ask[t] = "current"

\* getUserMedia resolves: a stream nobody waits for is stopped, another one replaces
\* the capture and its publisher.
Granted(t) ==
    /\ ask[t] # "none" /\ ask' = [ask EXCEPT ![t] = "none"]
    /\ IF Wanted(t)
       THEN /\ camera' = [camera EXCEPT ![t] = TRUE]
            /\ publisher' = [publisher EXCEPT ![t] = TRUE]
            /\ link' = Cut(t)
            /\ told' = [told EXCEPT ![t] = IF ~Connected(t) THEN @
                                           ELSE @ \o IF camera[t] THEN <<FALSE, TRUE>> ELSE <<TRUE>>]
       ELSE UNCHANGED <<camera, publisher, link, told>>
    /\ UNCHANGED <<page, conn, host, hostSlot, carried, late, asks, faults>>

Refused(t) ==
    /\ ask[t] # "none" /\ ask' = [ask EXCEPT ![t] = "none"]
    /\ UNCHANGED <<page, conn, roomVars, told, late, camera, publisher, asks, faults>>

-----------------------------------------------------------------------------
(* The link of the source page *)

\* Publisher.onSignal: a publisher that is not closed answers an offer.
Answers(t) == Connected(t) /\ publisher[t]

\* relaySignal: the offer reaches the connection in force, if anything answers there.
Offered ==
    /\ link = "offered"
    /\ link' = IF host # Nobody /\ Answers(host) THEN host ELSE "mute"
    /\ UNCHANGED <<page, conn, host, hostSlot, carried, told, late, ask, camera, publisher,
                   asks, faults>>

\* A link that worked and does not any more is offered anew, once.
IceFails ==
    /\ link = "dead" /\ link' = "offered"
    /\ UNCHANGED <<page, conn, host, hostSlot, carried, told, late, ask, camera, publisher,
                   asks, faults>>

PathFails ==
    /\ link \in Tabs /\ faults < MaxFaults /\ faults' = faults + 1
    /\ link' = "dead"
    /\ UNCHANGED <<page, conn, host, hostSlot, carried, told, late, ask, camera, publisher, asks>>

-----------------------------------------------------------------------------
CaptureInit ==
    /\ page = [t \in Tabs |-> "closed"] /\ conn = [t \in Tabs |-> "none"]
    /\ host = Nobody /\ hostSlot = FALSE /\ link = "none" /\ carried = FALSE
    /\ told = [t \in Tabs |-> << >>] /\ late = [t \in Tabs |-> << >>]
    /\ ask = [t \in Tabs |-> "none"] /\ camera = [t \in Tabs |-> FALSE]
    /\ publisher = [t \in Tabs |-> FALSE]
    /\ asks = 0 /\ faults = 0

CaptureNext ==
    \/ \E t \in Tabs :
          \/ OpensTab(t) \/ Joins(t) \/ Drops(t) \/ Displaced(t) \/ SessionEnds(t)
          \/ GivesUp(t) \/ Unmounts(t) \/ Asks(t) \/ Granted(t) \/ Refused(t)
          \/ ReadsMedia(t) \/ ReadsLate(t) \/ LateFails(t) \/ RoomNotices(t)
    \/ Offered \/ IceFails \/ PathFails

\* A frame is read, an offer arrives or is lost, a dead connection is found out.
CaptureProgress ==
    \/ \E t \in Tabs : ReadsMedia(t) \/ ReadsLate(t)
    \/ Offered \/ IceFails

CaptureSpec == CaptureInit /\ [][CaptureNext]_captureVars /\ WF_captureVars(CaptureProgress)

CaptureTypeOK ==
    /\ page \in [Tabs -> {"closed", "open", "over", "gone"}]
    /\ conn \in [Tabs -> {"none", "live", "lost", "evicted"}]
    /\ host \in Tabs \cup {Nobody}
    /\ told \in [Tabs -> Seq(BOOLEAN)] /\ late \in [Tabs -> Seq(BOOLEAN)]
    /\ ask \in [Tabs -> {"none", "current", "superseded"}]
    /\ camera \in [Tabs -> BOOLEAN] /\ publisher \in [Tabs -> BOOLEAN]
    /\ hostSlot \in BOOLEAN /\ carried \in BOOLEAN
    /\ link \in Tabs \cup {"none", "offered", "mute", "dead"}
    /\ asks \in Nat /\ faults \in Nat

-----------------------------------------------------------------------------
(* Properties *)

\* releaseHostCapture, hostSetupRef: a tab that shows a terminal screen or is gone has
\* no camera on, whenever the permission prompt is answered.
CaptureReleased == \A t \in Tabs : page[t] \in {"over", "gone"} => ~camera[t]

Publishes(t) == page[t] = "open" /\ camera[t] /\ Connected(t) /\ host = t

\* All that was said has been read.
Settled ==
    /\ \A t \in Tabs : told[t] = << >> /\ late[t] = << >> /\ conn[t] \in {"none", "live"}

\* setHostMedia: what is bound to the host slot is the camera of the connected host,
\* once all that was said has been read, except for a binding that a connection took
\* over from one the room had not seen leave.
HostSlotFollows ==
    Settled /\ ~carried => (hostSlot <=> \E t \in Tabs : Publishes(t))

\* setHostMedia's comment: the host slot is bound only while the host publishes.
BoundOnlyWhilePublishing == Settled /\ hostSlot => \E t \in Tabs : Publishes(t)

\* publishHostMedia, restartIce: a host who keeps publishing comes to be on the source
\* page, whatever connections and paths were lost, unless its connection took over.
HostComesOn ==
    \A t \in Tabs : <>[]Publishes(t) => <>[](link = t \/ carried)
==================================================================================
