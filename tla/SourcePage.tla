------------------------------ MODULE SourcePage ------------------------------
(***************************************************************************)
(* The OBS source pages (web/src/obs) at the end of the room's sockets.    *)
(* The room, module Room, tells a page of every change of its slot; the    *)
(* page follows with a peer-to-peer link to the occupant it was told.      *)
(* Between the two are the send buffer of the connection, which drops what *)
(* does not fit, and sockets that close long before the room notices.      *)
(*                                                                         *)
(* The guests' side is what the WebSocket handler and putPassSlot do to    *)
(* the bindings: a join replays the binding that is persisted, the host    *)
(* moves guests with or without persisting it.                             *)
(***************************************************************************)
EXTENDS Room, Sequences

CONSTANTS
    Overflow,    \* TRUE when the send buffer of a page may be full
    MaxWire      \* bound on the frames that a page has yet to read

ASSUME PageAssumption ==
    Overflow \in BOOLEAN /\ MaxWire \in Nat \ {0}

VARIABLES
    page,       \* slot -> what its page shows
    wire,       \* slot -> the frames sent to the page and not read yet
    missed,     \* the slots whose page lost a frame since it connected
    row,        \* guest -> passes.slot_id
    replaying,  \* the guest whose join holds the binding lock, or None
    refused     \* the guests whose slot was live to another when they rejoined

pageVars == <<page, wire, missed>>
guestVars == <<row, replaying, refused>>
allVars == <<vars, pageVars, guestVars>>

\* A slot-rebind names the occupant, a slot-unbound nobody.
Frames == [occupant : People \cup {None}, epoch : Nat]

\* linked while the page's offer reached the connection that the occupant has now;
\* epoch is -1 until the first frame of a socket.
Pages == [open : BOOLEAN, occupant : People \cup {None}, epoch : Nat \cup {-1},
          linked : BOOLEAN]
Closed == [open |-> FALSE, occupant |-> None, epoch |-> -1, linked |-> FALSE]

-----------------------------------------------------------------------------
(* From the room to the page *)

\* bindSlot and vacateSlot tell the page of the slot, if one is attached, of every
\* bump of the epoch; rename repeats the binding.
\* Mutant: an unbinding goes untold.
ToldBound(s) == /\ slots'[s].epoch # slots[s].epoch /\ slots'[s].source # None
                /\ slots'[s].occupant # None
Told(s) == slots'[s].epoch # slots[s].epoch /\ slots'[s].source # None

\* bindingFrame.
FrameOf(s) == [occupant |-> slots'[s].occupant, epoch |-> slots'[s].epoch]

\* deliver: a frame that finds the buffer full is dropped.
Deliver(tell) ==
    \E lost \in SUBSET tell :
        /\ lost # {} => Overflow
        /\ \A s \in tell \ lost : Len(wire[s]) < MaxWire
        /\ wire' = [s \in Slots |-> IF s \in tell \ lost /\ page[s].open
                                    THEN Append(wire[s], FrameOf(s)) ELSE wire[s]]
        /\ missed' = missed \cup lost
        /\ UNCHANGED page

Tell == Deliver({s \in Slots : Told(s)})

-----------------------------------------------------------------------------
(* The page *)

\* What an offer of the page of s reaches: the room relays it to nobody but the
\* occupant of the slot.
Reaches(s, p) == slots[s].occupant = p /\ InRoom(p)

\* Mutant: the page keeps its link to a guest that it shows already.
FollowOccupant(s, f) ==
    LET pg == page[s]
    IN  IF f.epoch < pg.epoch THEN pg
        ELSE IF f.occupant = None
             THEN [pg EXCEPT !.occupant = None, !.epoch = f.epoch, !.linked = FALSE]
        ELSE IF pg.occupant = f.occupant THEN [pg EXCEPT !.epoch = f.epoch]
        ELSE [pg EXCEPT !.occupant = f.occupant, !.epoch = f.epoch,
                        !.linked = Reaches(s, f.occupant)]
\* A frame of an older epoch is a straggler; the binding the page has already is a
\* new name; anything else is linked anew.
Follow(s, f) ==
    LET pg == page[s]
    IN  IF f.epoch < pg.epoch THEN pg
        ELSE IF f.occupant = None
             THEN [pg EXCEPT !.occupant = None, !.epoch = f.epoch, !.linked = FALSE]
        ELSE IF pg.occupant = f.occupant /\ pg.epoch = f.epoch THEN pg
        ELSE [pg EXCEPT !.occupant = f.occupant, !.epoch = f.epoch,
                        !.linked = Reaches(s, f.occupant)]

PageReads(s) ==
    /\ page[s].open /\ wire[s] # <<>>
    /\ page' = [page EXCEPT ![s] = Follow(s, Head(wire[s]))]
    /\ wire' = [wire EXCEPT ![s] = Tail(@)]
    /\ UNCHANGED <<vars, missed, guestVars>>

\* onClose: nothing of the old socket counts any more.
\* Mutant: the epoch of the old socket does.
ForgetLinkOnly(s) == [Closed EXCEPT !.epoch = page[s].epoch]
Forget(s) == Closed

PageDrops(s) ==
    /\ page[s].open
    /\ page' = [page EXCEPT ![s] = Forget(s)]
    /\ wire' = [wire EXCEPT ![s] = <<>>]
    /\ UNCHANGED <<vars, missed, guestVars>>

\* The page (re)connects: attachSource tells it the binding through an empty
\* buffer, whether or not the room noticed that its last socket closed.
PageConnects(s) ==
    /\ ~page[s].open
    /\ JoinSource(s)
    /\ page' = [page EXCEPT ![s].open = TRUE]
    /\ wire' = [wire EXCEPT ![s] = <<FrameOf(s)>>]
    /\ missed' = missed \ {s}
    /\ UNCHANGED guestVars

\* The room notices that the socket of a page closed.
PageLeaves(s) ==
    /\ ~page[s].open
    /\ Leave(SourceOf[s])
    /\ UNCHANGED <<pageVars, guestVars>>

\* The token is rotated: the page stops, a page with the new token may come.
PageRotated(s) ==
    /\ RotateSource(s)
    /\ page' = [page EXCEPT ![s] = Closed]
    /\ wire' = [wire EXCEPT ![s] = <<>>]
    /\ UNCHANGED <<missed, guestVars>>

-----------------------------------------------------------------------------
(* The guests and the host *)

\* The join half of the handler, over a connection that no page is linked to yet;
\* the lock is held until the replay is posted.
GuestJoins(g) ==
    /\ replaying = None
    /\ Join(g)
    /\ replaying' = g
    /\ page' = [s \in Slots |-> [page[s] EXCEPT !.linked = @ /\ page[s].occupant # g]]
    /\ UNCHANGED <<wire, missed, row, refused>>

\* The replay half: the persisted binding is resumed unless its slot is live to
\* another guest; a guest without one gives up what it still holds.
Refused(g) == row[g] # None /\ slots[row[g]].occupant \notin {None, g}
Replay(g) ==
    /\ replaying = g
    /\ IF row[g] # None /\ ~Refused(g) /\ InRoom(g) THEN ResumeBind(row[g], g) /\ Tell
       ELSE IF row[g] = None /\ \E s \in CamSlots : slots[s].occupant = g
            THEN VacateOccupant(g) /\ Tell
       ELSE UNCHANGED <<vars, pageVars>>
    /\ refused' = IF Refused(g) THEN refused \cup {g} ELSE refused \ {g}
    /\ replaying' = None
    /\ UNCHANGED row

GuestLeaves(g) ==
    /\ Leave(g)
    /\ Tell
    /\ UNCHANGED guestVars

GraceEnds ==
    /\ \E t \in timers : ExpireGrace(t)
    /\ Tell
    /\ UNCHANGED guestVars

\* putPassSlot and the host's own frames.
Assign(g, s) ==
    /\ replaying = None
    /\ RebindOrVacate(s, g) /\ Tell
    /\ row' = [h \in Guests |-> IF h = g THEN s ELSE IF row[h] = s THEN None ELSE row[h]]
    /\ refused' = refused \ {g}
    /\ UNCHANGED replaying

Unassign(g) ==
    /\ replaying = None /\ row[g] # None
    /\ row' = [row EXCEPT ![g] = None]
    /\ IF \E s \in CamSlots : slots[s].occupant = g
       THEN VacateOccupant(g) /\ Tell ELSE UNCHANGED <<vars, pageVars>>
    /\ UNCHANGED <<replaying, refused>>

HostRebinds(s, g) ==
    /\ Rebind(s, g) /\ Tell
    /\ refused' = refused \ {g}
    /\ UNCHANGED <<row, replaying>>

HostUnbinds(s) ==
    /\ Unbind(s) /\ Tell
    /\ UNCHANGED guestVars

\* A revoked or deleted pass, a kick.
Evicted(g) ==
    /\ InRoom(g) \/ \E s \in CamSlots : slots[s].occupant = g
    /\ EvictPeers({g}) /\ Tell
    /\ UNCHANGED guestVars

\* setName: the binding is repeated under its epoch, with the new name.
Renamed(g) ==
    /\ InRoom(g)
    /\ UNCHANGED <<vars, guestVars>>
    /\ Deliver({s \in Slots : slots[s].occupant = g /\ slots[s].source # None})

\* The actor dies and with it every socket; the next one starts its epochs anew.
RoomRestarts ==
    /\ Respawn
    /\ page' = [s \in Slots |-> IF page[s].open THEN Forget(s) ELSE page[s]]
    /\ wire' = [s \in Slots |-> <<>>]
    /\ missed' = {}
    /\ replaying' = None /\ refused' = {}
    /\ UNCHANGED row

-----------------------------------------------------------------------------
PageInit ==
    /\ Init
    /\ page = [s \in Slots |-> Closed]
    /\ wire = [s \in Slots |-> <<>>]
    /\ missed = {}
    /\ row = [g \in Guests |-> None]
    /\ replaying = None /\ refused = {}

PageSteps(S) ==
    \E s \in S :
        PageReads(s) \/ PageDrops(s) \/ PageConnects(s) \/ PageLeaves(s) \/ PageRotated(s)

GuestSteps ==
    \/ \E g \in Guests :
          GuestJoins(g) \/ Replay(g) \/ GuestLeaves(g) \/ Evicted(g) \/ Renamed(g)
    \/ GraceEnds

HostSteps ==
    \/ \E g \in Guests : Unassign(g) \/ \E s \in CamSlots : Assign(g, s) \/ HostRebinds(s, g)
    \/ \E s \in CamSlots : HostUnbinds(s)

PageNext == PageSteps(Slots) \/ GuestSteps \/ HostSteps \/ RoomRestarts
PageSpec == PageInit /\ [][PageNext]_allVars

PageTypeOK ==
    /\ TypeOK
    /\ page \in [Slots -> Pages]
    /\ wire \in [Slots -> Seq(Frames)] /\ \A s \in Slots : Len(wire[s]) <= MaxWire
    /\ missed \subseteq Slots
    /\ row \in [Guests -> CamSlots \cup {None}]
    /\ replaying \in Guests \cup {None} /\ refused \subseteq Guests

-----------------------------------------------------------------------------
(* Properties *)

Settled(s) == page[s].open /\ wire[s] = <<>>

\* EN-3: a page that has read everything, and lost nothing, shows the occupant of
\* its slot, under the epoch that makes its reports count.
PageFollowsSlot ==
    \A s \in Slots : Settled(s) /\ s \notin missed =>
        page[s].occupant = slots[s].occupant /\ page[s].epoch = slots[s].epoch

\* EN-1: whatever a page missed, a report it sends under the epoch of the slot is
\* about the occupant of the slot.
PageReportsOccupant ==
    \A s \in Slots :
        /\ page[s].epoch <= slots[s].epoch
        /\ page[s].open /\ page[s].epoch = slots[s].epoch =>
              page[s].occupant = slots[s].occupant

\* D-40, AC-3: once a guest is back and its binding replayed, the page is linked to
\* its new connection and not to the one that died, unless the replay was refused.
LinkedToLatest ==
    \A s \in CamSlots :
        LET p == slots[s].occupant
        IN  Settled(s) /\ s \notin missed /\ p # None /\ p # replaying /\ InRoom(p)
                /\ p \notin refused
            => page[s].linked /\ ~slots[s].disconnected

\* Slot frames are not silently dropped: a page that has read everything shows the
\* occupant of its slot.
NothingMissed ==
    \A s \in Slots : Settled(s) => page[s].occupant = slots[s].occupant
===============================================================================
