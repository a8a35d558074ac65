---------------------------------- MODULE Mesh ----------------------------------
(***************************************************************************)
(* The backstage link of two guests: one connection per pair over which    *)
(* each page shows the other (web/src/rtc/mesh.js, driven by               *)
(* web/src/islands/devicecheck.js), negotiated through the room            *)
(* (internal/signaling).                                                   *)
(*                                                                         *)
(* The page with the lower id offers, the other one answers.  A page loses *)
(* its socket before the room notices, and may be back before it does.     *)
(* Candidates travel with the descriptions.  A description in flight, or   *)
(* applied, is fresh as long as both ends still negotiate with what it     *)
(* describes: a link carries media when the descriptions at both ends are. *)
(***************************************************************************)
EXTENDS Naturals, Sequences

CONSTANTS
    Lo, Hi,     \* the two guests by peer id: Lo offers
    MaxFaults,  \* drops of a page, failures of the path and manual reconnects
    Cap         \* frames waiting beyond which the host locks nobody

ASSUME MeshAssumption == Lo # Hi /\ MaxFaults \in Nat /\ Cap \in Nat

VARIABLES
    page,      \* the page has an open session: up or down
    sock,      \* its connection in the room: none, live, or dead and not noticed
    out,       \* what the page has sent on its socket and the room has not read
    late,      \* what it had sent on the socket it lost
    inbox,     \* what the room has sent it
    locked,    \* the room has the camera of the guest locked
    there,     \* peersRef: the page has the other guest in its roster
    link,      \* its MeshPeer for the other guest
    barred,    \* MeshManager._locked: the other guest is locked
    enabled,   \* the track of the other guest is enabled
    overtook,  \* Hi came back unnoticed since Lo opened its link or had an answer
    faults

netVars == <<out, late, inbox>>
viewVars == <<there, link, barred, enabled>>
vars == <<page, sock, netVars, locked, viewVars, overtook, faults>>

Pages == {Lo, Hi}
Other(p) == IF p = Lo THEN Hi ELSE Lo

\* A MeshPeer: its signalling state, an offer in the making, and whether the remote
\* description it has is fresh.
Closed == [open |-> FALSE, sig |-> "new", making |-> FALSE, fresh |-> FALSE]
Roster(is, lock) == [t |-> "roster", there |-> is, locked |-> lock]
Signal(kind, fresh) == [t |-> kind, fresh |-> fresh]

Up(p) == page[p] = "up"
Member(p) == sock[p] # "none"

Linked == \A p \in Pages : link[p].open /\ link[p].sig = "stable" /\ link[p].fresh

\* What is in flight of these kinds describes a negotiation that is over.
Outdated(boxes, kinds) ==
    [p \in Pages |-> [i \in DOMAIN boxes[p] |->
        IF boxes[p][i].t \in kinds THEN [boxes[p][i] EXCEPT !.fresh = FALSE] ELSE boxes[p][i]]]

\* A frame of the room reaches a page over a live connection only.
Deliver(boxes, p, frames) ==
    IF sock[p] = "live" THEN [boxes EXCEPT ![p] = @ \o frames] ELSE boxes

-----------------------------------------------------------------------------
(* Connections *)

\* New descriptions at one end make those that answer the old ones stale: any new
\* one of Lo all of them, a new one of Hi its answers.
Ended(p) == IF p = Lo THEN {"offer", "answer"} ELSE {"answer"}
StaleEnds(links, p) ==
    IF p = Lo THEN [q \in Pages |-> [links[q] EXCEPT !.fresh = FALSE]]
    ELSE [links EXCEPT ![Lo].fresh = FALSE]

\* The socket closes: teardown closes the mesh.
PageDrops(p) ==
    /\ Up(p) /\ faults < MaxFaults /\ faults' = faults + 1
    /\ page' = [page EXCEPT ![p] = "down"] /\ sock' = [sock EXCEPT ![p] = "dead"]
    /\ link' = [StaleEnds(link, p) EXCEPT ![p] = Closed]
    /\ there' = [there EXCEPT ![p] = FALSE] /\ barred' = [barred EXCEPT ![p] = FALSE]
    /\ enabled' = [enabled EXCEPT ![p] = FALSE]
    /\ out' = [Outdated(out, Ended(p)) EXCEPT ![p] = << >>]
    /\ late' = Outdated([late EXCEPT ![p] = out[p]], Ended(p))
    /\ inbox' = [Outdated(inbox, Ended(p)) EXCEPT ![p] = << >>]
    /\ UNCHANGED <<locked, overtook>>

\* The reader of the dead socket ends: leave.
RoomNotices(p) ==
    /\ sock[p] = "dead" /\ ~Up(p)
    /\ sock' = [sock EXCEPT ![p] = "none"]
    /\ late' = [late EXCEPT ![p] = << >>]
    /\ inbox' = Deliver(inbox, Other(p), << [t |-> "left"] >>)
    /\ UNCHANGED <<page, out, locked, viewVars, overtook, faults>>

\* Join: its roster, and the announcement of one who was not there.
PageJoins(p) ==
    /\ ~Up(p)
    /\ page' = [page EXCEPT ![p] = "up"] /\ sock' = [sock EXCEPT ![p] = "live"]
    /\ LET told == IF Member(p) THEN inbox
                   ELSE Deliver(inbox, Other(p), << [t |-> "joined", locked |-> locked[p]] >>)
       IN inbox' = [told EXCEPT ![p] = << Roster(Member(Other(p)), locked[Other(p)]) >>]
    /\ overtook' = (overtook \/ (p = Hi /\ Member(p)))
    /\ UNCHANGED <<out, late, locked, viewVars, faults>>

\* relaySignal: to a peer who is there.
Relay(p) ==
    /\ sock[p] = "live" /\ out[p] # << >>
    /\ inbox' = Deliver(inbox, Other(p), << Head(out[p]) >>)
    /\ out' = [out EXCEPT ![p] = Tail(@)]
    /\ UNCHANGED <<page, sock, late, locked, viewVars, overtook, faults>>

\* The reader of a socket that is lost, or displaced, has frames left to read, or fails.
RelayLate(p) ==
    /\ late[p] # << >>
    /\ inbox' = Deliver(inbox, Other(p), << Head(late[p]) >>)
    /\ late' = [late EXCEPT ![p] = Tail(@)]
    /\ UNCHANGED <<page, sock, out, locked, viewVars, overtook, faults>>

LateEnds(p) ==
    /\ late[p] # << >> /\ late' = [late EXCEPT ![p] = << >>]
    /\ UNCHANGED <<page, sock, out, inbox, locked, viewVars, overtook, faults>>

\* force and release: the roster goes to everybody.
Lock(p) ==
    /\ Member(p) /\ \A q \in Pages : Len(inbox[q]) < Cap
    /\ locked' = [locked EXCEPT ![p] = ~@]
    /\ inbox' = [q \in Pages |-> Deliver(inbox, q, << Roster(Member(Other(q)), locked'[Other(q)]) >>)[q]]
    /\ UNCHANGED <<page, sock, out, late, viewVars, overtook, faults>>

-----------------------------------------------------------------------------
(* The page *)

\* _ensure: the link that is there is kept.
\* Mutant: it is opened anew with every roster.
OpenedAnew(p) == TRUE
Opens(p) == ~link[p].open
Opened(p) == [Closed EXCEPT !.open = TRUE, !.making = (p = Lo)]

\* sync with the other guest in the roster, then setLocks.
Present(p, lock) ==
    /\ there' = [there EXCEPT ![p] = TRUE] /\ barred' = [barred EXCEPT ![p] = lock]
    /\ enabled' = [enabled EXCEPT ![p] = ~lock]
    /\ IF Opens(p)
       THEN /\ link' = [StaleEnds(link, p) EXCEPT ![p] = Opened(p)]
            /\ out' = Outdated(out, Ended(p)) /\ late' = Outdated(late, Ended(p))
            /\ inbox' = [Outdated(inbox, Ended(p)) EXCEPT ![p] = Tail(@)]
            /\ overtook' = (overtook /\ p # Lo)
       ELSE inbox' = [inbox EXCEPT ![p] = Tail(@)] /\ UNCHANGED <<link, out, late, overtook>>

\* sync without it: _drop.
Absent(p) ==
    /\ there' = [there EXCEPT ![p] = FALSE] /\ barred' = [barred EXCEPT ![p] = FALSE]
    /\ enabled' = [enabled EXCEPT ![p] = FALSE]
    /\ link' = [StaleEnds(link, p) EXCEPT ![p] = Closed]
    /\ out' = Outdated(out, Ended(p)) /\ late' = Outdated(late, Ended(p))
    /\ inbox' = [Outdated(inbox, Ended(p)) EXCEPT ![p] = Tail(@)]
    /\ UNCHANGED overtook

Reading(p, kind) == Up(p) /\ inbox[p] # << >> /\ Head(inbox[p]).t = kind
Aside == UNCHANGED <<page, sock, locked, faults>>

ReadRoster(p) ==
    /\ Reading(p, "roster") /\ Aside
    /\ IF Head(inbox[p]).there THEN Present(p, Head(inbox[p]).locked) ELSE Absent(p)

ReadJoined(p) == Reading(p, "joined") /\ Aside /\ Present(p, Head(inbox[p]).locked)
ReadLeft(p) == Reading(p, "left") /\ Aside /\ Absent(p)

\* ontrack: the lock in force is asserted on the track that arrives.
\* Mutant: a track arrives enabled.
ArrivesEnabled(p) == TRUE
Arrives(p) == ~barred[p]

\* onSignal of the answerer: the offer is applied now and answered in ReadyAnswer.
\* Without a link the signal is not the mesh's.
ReadOffer(p) ==
    /\ Reading(p, "offer") /\ Aside
    /\ IF link[p].open
       THEN /\ link' = [StaleEnds(link, Hi) EXCEPT
                          ![p].sig = "got", ![p].fresh = Head(inbox[p]).fresh]
            /\ enabled' = [enabled EXCEPT ![p] = IF link[p].sig = "new" THEN Arrives(p) ELSE @]
            /\ out' = Outdated(out, {"answer"}) /\ late' = Outdated(late, {"answer"})
            /\ inbox' = [Outdated(inbox, {"answer"}) EXCEPT ![p] = Tail(@)]
       ELSE inbox' = [inbox EXCEPT ![p] = Tail(@)] /\ UNCHANGED <<out, late, link, enabled>>
    /\ UNCHANGED <<there, barred, overtook>>

Answer ==
    /\ link[Hi].open /\ link[Hi].sig = "got"
    /\ link' = [link EXCEPT ![Hi].sig = "stable"]
    /\ out' = [out EXCEPT ![Hi] = Append(@, Signal("answer", link[Hi].fresh))]
    /\ UNCHANGED <<page, sock, late, inbox, locked, there, barred, enabled, overtook, faults>>

\* onSignal of the offerer: an answer when none is awaited is refused.
ReadAnswer(p) ==
    /\ Reading(p, "answer") /\ Aside
    /\ inbox' = [inbox EXCEPT ![p] = Tail(@)]
    /\ IF link[p].open /\ link[p].sig = "offered"
       THEN /\ link' = [link EXCEPT ![p].sig = "stable", ![p].fresh = Head(inbox[p]).fresh]
            /\ overtook' = FALSE
       ELSE UNCHANGED <<link, overtook>>
    /\ UNCHANGED <<out, late, there, barred, enabled>>

\* _negotiate: the offer is made, set and sent.
Offer ==
    /\ link[Lo].open /\ link[Lo].making
    /\ link' = [StaleEnds(link, Lo) EXCEPT ![Lo].sig = "offered", ![Lo].making = FALSE]
    /\ late' = Outdated(late, Ended(Lo)) /\ inbox' = Outdated(inbox, Ended(Lo))
    /\ out' = [Outdated(out, Ended(Lo)) EXCEPT ![Lo] = Append(@, Signal("offer", TRUE))]
    /\ UNCHANGED <<page, sock, locked, there, barred, enabled, overtook, faults>>

\* oniceconnectionstatechange: with a description that does not fit, or no more, the
\* connection fails, and the offerer restarts it.
\* Mutant: whoever fails waits for the other end.
RestartsNever(l) == l
Restarts(l) == [l EXCEPT !.making = TRUE]

IceFails ==
    /\ link[Lo].open /\ link[Lo].sig = "stable" /\ ~link[Lo].making /\ ~Linked
    /\ link' = [link EXCEPT ![Lo] = Restarts(link[Lo])]
    /\ UNCHANGED <<page, sock, netVars, locked, there, barred, enabled, overtook, faults>>

PathFails ==
    /\ Linked /\ faults < MaxFaults /\ faults' = faults + 1
    /\ link' = [link EXCEPT ![Lo].fresh = FALSE]
    /\ UNCHANGED <<page, sock, netVars, locked, there, barred, enabled, overtook>>

\* reconnect, from the tile; it does nothing at the answering end.
Reconnect ==
    /\ link[Lo].open /\ faults < MaxFaults /\ faults' = faults + 1
    /\ link' = [link EXCEPT ![Lo].making = TRUE]
    /\ UNCHANGED <<page, sock, netVars, locked, there, barred, enabled, overtook>>

-----------------------------------------------------------------------------
Init ==
    /\ page = [p \in Pages |-> "down"] /\ sock = [p \in Pages |-> "none"]
    /\ out = [p \in Pages |-> << >>] /\ late = [p \in Pages |-> << >>]
    /\ inbox = [p \in Pages |-> << >>]
    /\ locked = [p \in Pages |-> FALSE] /\ there = [p \in Pages |-> FALSE]
    /\ link = [p \in Pages |-> Closed] /\ barred = [p \in Pages |-> FALSE]
    /\ enabled = [p \in Pages |-> FALSE]
    /\ overtook = FALSE /\ faults = 0

Read(p) ==
    ReadRoster(p) \/ ReadJoined(p) \/ ReadLeft(p) \/ ReadOffer(p) \/ ReadAnswer(p)

Next ==
    \/ \E p \in Pages :
          \/ PageDrops(p) \/ RoomNotices(p) \/ PageJoins(p)
          \/ Relay(p) \/ RelayLate(p) \/ LateEnds(p) \/ Lock(p) \/ Read(p)
    \/ Answer \/ Offer \/ IceFails \/ PathFails \/ Reconnect

\* Frames are relayed and read, promises are settled and a connection that cannot
\* work is found out.
Fairness ==
    /\ \A p \in Pages : WF_vars(Relay(p)) /\ WF_vars(Read(p))
                        /\ WF_vars(RelayLate(p) \/ LateEnds(p))
    /\ WF_vars(Answer) /\ WF_vars(Offer) /\ WF_vars(IceFails)

Spec == Init /\ [][Next]_vars /\ Fairness

-----------------------------------------------------------------------------
(* Properties *)

\* No description is on its way, nor news of who is there.
Settled ==
    /\ \A p \in Pages : Up(p) /\ out[p] = << >> /\ late[p] = << >>
    /\ \A p \in Pages : \A i \in DOMAIN inbox[p] : inbox[p][i].t = "roster"
                             /\ inbox[p][i].there = there[p]

\* An offer that nobody is going to answer: Lo has no remote description, so the
\* connection never fails and nothing makes it offer again.
Stranded == Settled /\ link[Lo].open /\ link[Lo].sig = "offered" /\ ~link[Lo].making
                  /\ ~(link[Hi].open /\ link[Hi].sig = "got")

\* No description is on its way or to be answered; a connection times out after that.
Idle ==
    /\ link[Hi].sig # "got"
    /\ \A p \in Pages :
          /\ \A i \in DOMAIN out[p] : out[p][i].t \notin {"offer", "answer"}
          /\ \A i \in DOMAIN inbox[p] : inbox[p][i].t \notin {"offer", "answer"}
TimelySignals == <>[][IceFails => Idle]_vars

\* onSignal, restartIce: two guests who stay come to see each other, whatever answers
\* of earlier connections and late frames they were sent, unless an offer was stranded.
LinkForms ==
    (<>[](\A p \in Pages : Up(p)) /\ TimelySignals) => <>[](Linked \/ Stranded)

\* An offer is stranded only when Hi came back before the room had noticed that it was
\* gone: then nobody is told, and Lo keeps waiting for the page that is no more.
StrandedOnlyByReturn == Stranded => overtook

\* setLocks, _applyLocks: once a page has read all it was sent, it shows nothing of a
\* guest whose camera is locked, although the track arrives later than the lock.
LockedIsHidden ==
    \A p \in Pages :
       Up(p) /\ inbox[p] = << >> /\ link[p].open /\ locked[Other(p)] => ~enabled[p]
================================================================================
